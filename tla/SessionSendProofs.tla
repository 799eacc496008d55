------------------------- MODULE SessionSendProofs -------------------------
(***************************************************************************)
(* Theorems about SessionSend, for every capacity of the ring, of a block  *)
(* and of sendmarkq_, and every length of the stream.                      *)
(***************************************************************************)
EXTENDS SessionSend, TLAPS

-----------------------------------------------------------------------------
(* The inductive invariant.                                                *)

HeadBytes == IF sendq_head_exists THEN sendq_head.data_len ELSE 0

(* What is in the ring is what was written and neither sent nor cut.       *)
Conservation == written = my_sent_bytes + HeadBytes + pending_used

(* The position for writing follows from the position for reading.         *)
RingShape == pending_next = Advance(pending_current, pending_used)

(* The head block holds the bytes after those sent, and is the last one    *)
(* when it has the EOF mark.                                               *)
HeadInOrder ==
  sendq_head_exists =>
    /\ sendq_head.data_len <= MaximumSendBytes
    /\ \A k \in 0 .. sendq_head.data_len - 1 :
          sendq_head.data[k] = my_sent_bytes + k
    /\ sendq_head.eof => pending_used = 0 /\ pending_eof

EofSentWithBlock == \A b \in sendmarkq : b.eof => my_eof

(* A suspended write still fits in what the application may write.         *)
WriterInStream == writer.state # "idle" => written + writer.size <= StreamLength

SendInv ==
  /\ TypeOK
  /\ Conservation
  /\ RingShape
  /\ RingInOrder
  /\ HeadInOrder
  /\ BlocksInOrder
  /\ EofIsLast
  /\ EofSentWithBlock
  /\ WriterInStream
  /\ NoLostWriterWakeup

-----------------------------------------------------------------------------
(* Advancing along the ring twice is advancing once, as long as the ring's *)
(* capacity is not exceeded.                                               *)
LEMMA AdvanceTwice ==
  ASSUME NEW p \in 0 .. PendingMaximum, NEW m \in Nat, NEW n \in Nat,
         m + n <= PendingMaximum
  PROVE  /\ Advance(p, m) \in 0 .. PendingMaximum
         /\ Advance(Advance(p, m), n) = Advance(p, m + n)
  BY SendAssumption DEF Advance

(* The k-th slot after a position m further is the (m + k)-th slot.        *)
LEMMA SlotAfterAdvance ==
  ASSUME NEW p \in 0 .. PendingMaximum, NEW m \in Nat, NEW k \in Nat,
         m + k < PendingMaximum
  PROVE  SlotAfter(Advance(p, m), k) = SlotAfter(p, m + k)
  BY SendAssumption DEF Advance, SlotAfter

(* Fewer bytes than the capacity have slots of their own.                  *)
LEMMA SlotsDistinct ==
  ASSUME NEW p \in 0 .. PendingMaximum,
         NEW j \in 0 .. PendingMaximum - 1, NEW k \in 0 .. PendingMaximum - 1
  PROVE  /\ SlotAfter(p, j) \in Slots
         /\ SlotAfter(p, j) = SlotAfter(p, k) => j = k
  BY SendAssumption DEF SlotAfter, Slots

LEMMA InitSendInv == Init => SendInv
<1>1. ZeroBlock \in Block
  BY SendAssumption DEF ZeroBlock, Block, Bytes, NoByte
<1>2. Idle \in Writer
  BY DEF Writer
<1>3. SUFFICES ASSUME Init PROVE SendInv
  OBVIOUS
<1>4. TypeOK
  <2>1. /\ pending \in [Slots -> Bytes]
        /\ pending_used \in 0 .. PendingMaximum
        /\ pending_current \in 0 .. PendingMaximum
        /\ pending_next \in 0 .. PendingMaximum
        /\ my_sent_bytes \in 0 .. StreamLength
        /\ written \in 0 .. StreamLength
    BY <1>3, SendAssumption DEF Init, Bytes, NoByte
  <2>2. sendq_head \in Block /\ writer \in Writer /\ sendmarkq \subseteq Block
    BY <1>1, <1>2, <1>3 DEF Init
  <2>3. QED
    BY <1>3, <2>1, <2>2 DEF Init, TypeOK
<1>5. Conservation /\ RingShape /\ RingInOrder /\ HeadInOrder
  BY <1>3, SendAssumption
  DEF Init, Conservation, HeadBytes, RingShape, Advance, RingInOrder, HeadInOrder
<1>6. BlocksInOrder /\ EofIsLast /\ EofSentWithBlock
  BY <1>3 DEF Init, BlocksInOrder, EofIsLast, EofSentWithBlock
<1>7. WriterInStream /\ NoLostWriterWakeup
  BY <1>3 DEF Init, Idle, WriterInStream, NoLostWriterWakeup
<1>8. QED
  BY <1>4, <1>5, <1>6, <1>7 DEF SendInv

(* write() keeps the invariant when it stores n bytes.                     *)
LEMMA StoreSendInv ==
  ASSUME SendInv, NEW n \in WriteSizes, ~ pending_eof, Fits(n), Store(n),
         written + n <= StreamLength, writer' = Idle,
         UNCHANGED <<pending_current, pending_eof, head, mark, messager>>
  PROVE  SendInv'
<1> USE SendAssumption DEF SendInv
<1>1. /\ n \in Nat \ {0}
      /\ pending_used + n <= PendingMaximum
      /\ pending_used \in 0 .. PendingMaximum
      /\ pending_current \in 0 .. PendingMaximum
      /\ pending_next \in 0 .. PendingMaximum
      /\ written \in 0 .. StreamLength
  BY DEF Fits, TypeOK
<1>2. /\ pending_used' = pending_used + n
      /\ written' = written + n
      /\ pending_next' = Advance(pending_next, n)
  BY DEF Store
<1>3. RingShape'
  BY <1>1, <1>2, AdvanceTwice DEF RingShape
<1>4. pending_next' \in 0 .. PendingMaximum
  BY <1>1, <1>2 DEF Advance
<1>5. ASSUME NEW k \in 0 .. n - 1
      PROVE  /\ SlotAfter(pending_next, k) \in Slots
             /\ pending'[SlotAfter(pending_next, k)] = written + k
  BY <1>1, <1>5 DEF Store, SlotAfter, Slots
<1>6. ASSUME NEW s \in Slots, ~ \E k \in 0 .. n - 1 : s = SlotAfter(pending_next, k)
      PROVE  pending'[s] = pending[s]
  BY <1>6 DEF Store
<1>7. pending' \in [Slots -> Bytes]
  <2>1. ASSUME NEW s \in Slots PROVE pending'[s] \in Bytes
    <3>1. CASE \E k \in 0 .. n - 1 : s = SlotAfter(pending_next, k)
      BY <1>1, <1>5, <3>1 DEF Bytes
    <3>2. CASE ~ \E k \in 0 .. n - 1 : s = SlotAfter(pending_next, k)
      BY <1>6, <3>2 DEF TypeOK
    <3>3. QED
      BY <3>1, <3>2
  <2>2. QED
    BY <2>1 DEF Store
<1>8. TypeOK'
  BY <1>1, <1>2, <1>4, <1>7 DEF TypeOK, head, mark, messager, Writer
<1>9. RingInOrder'
  <2>1. SUFFICES ASSUME NEW i \in 0 .. (pending_used + n) - 1
                 PROVE  pending'[SlotAfter(pending_current, i)]
                          = written - pending_used + i
    BY <1>1, <1>2 DEF RingInOrder
  <2>2. CASE i < pending_used
    <3>1. ASSUME NEW k \in 0 .. n - 1
          PROVE  SlotAfter(pending_current, i) # SlotAfter(pending_next, k)
      <4>1. SlotAfter(pending_next, k)
              = SlotAfter(pending_current, pending_used + k)
        BY <1>1, SlotAfterAdvance DEF RingShape
      <4>2. QED
        BY <4>1, <1>1, <2>2, SlotsDistinct
    <3>2. SlotAfter(pending_current, i) \in Slots
      BY <1>1, SlotsDistinct
    <3>3. QED
      BY <3>1, <3>2, <1>1, <1>6, <2>2 DEF RingInOrder
  <2>3. CASE i >= pending_used
    <3>1. i - pending_used \in 0 .. n - 1
      BY <1>1, <2>3
    <3>2. SlotAfter(pending_next, i - pending_used)
            = SlotAfter(pending_current, pending_used + (i - pending_used))
      BY <1>1, <3>1, SlotAfterAdvance DEF RingShape
    <3>3. QED
      BY <1>1, <1>5, <3>1, <3>2
  <2>4. QED
    BY <1>1, <2>2, <2>3
<1>10. Conservation'
  BY <1>1, <1>2 DEF Conservation, HeadBytes, TypeOK, Block, Bytes, head, messager
<1>11. HeadInOrder'
  BY DEF HeadInOrder, head, messager, Store
<1>12. BlocksInOrder' /\ EofSentWithBlock'
  BY DEF BlocksInOrder, InOrder, EofSentWithBlock, mark, messager
<1>13. EofIsLast'
  BY DEF EofIsLast, EofSentWithBlock, mark, messager
<1>14. WriterInStream' /\ NoLostWriterWakeup'
  BY DEF WriterInStream, NoLostWriterWakeup, Idle
<1>15. QED
  BY <1>3, <1>8, <1>9, <1>10, <1>11, <1>12, <1>13, <1>14

(* One execution of write(), first or resumed, keeps the invariant.        *)
LEMMA TryWriteSendInv ==
  ASSUME SendInv, NEW n \in WriteSizes, written + n <= StreamLength,
         TryWrite(n), UNCHANGED <<pending_eof, head, mark, messager>>
  PROVE  SendInv'
<1>1. CASE ~ pending_eof /\ Fits(n) /\ Store(n) /\ writer' = Idle
           /\ UNCHANGED pending_current
  BY <1>1, StoreSendInv
<1>2. CASE /\ \/ writer' = Idle
              \/ /\ ~ Fits(n)
                 /\ writer' = [state |-> "waiting", size |-> n]
           /\ UNCHANGED <<ring, written>>
  <2> USE DEF SendInv
  <2>1. writer' \in Writer
    BY <1>2 DEF Writer
  <2>2. TypeOK'
    BY <1>2, <2>1 DEF TypeOK, ring, head, mark, messager
  <2>3. Conservation' /\ RingShape' /\ RingInOrder' /\ HeadInOrder'
    BY <1>2 DEF Conservation, HeadBytes, RingShape, RingInOrder, HeadInOrder,
                ring, head, messager
  <2>4. BlocksInOrder' /\ EofIsLast' /\ EofSentWithBlock'
    BY <1>2 DEF BlocksInOrder, EofIsLast, EofSentWithBlock, head, mark, messager
  <2>5. WriterInStream' /\ NoLostWriterWakeup'
    BY <1>2 DEF WriterInStream, NoLostWriterWakeup, Idle, Fits, ring
  <2>6. QED
    BY <2>2, <2>3, <2>4, <2>5
<1>3. QED
  BY <1>1, <1>2 DEF TryWrite

(* A cancelled pending_ready_write_ leaves no write suspended on it.       *)
LEMMA WakeWriterResumes ==
  ASSUME writer \in Writer
  PROVE  /\ WakeWriter \in Writer
         /\ WakeWriter.state # "waiting"
         /\ WakeWriter.size = writer.size
         /\ WakeWriter.state # "idle" => writer.state # "idle"
<1>1. CASE writer = Idle
  BY <1>1 DEF WakeWriter, Idle, Writer
<1>2. CASE writer \in [state : {"waiting", "resumed"}, size : WriteSizes]
  <2>1. [writer EXCEPT !.state = "resumed"]
          = [state |-> "resumed", size |-> writer.size]
    BY <1>2
  <2>2. QED
    BY <1>2, <2>1 DEF WakeWriter, Writer
<1>3. QED
  BY <1>1, <1>2 DEF Writer

LEMMA BlockOfParts ==
  ASSUME NEW o \in Bytes, NEW n \in Bytes, NEW e \in BOOLEAN,
         NEW d \in [0 .. MaximumSendBytes - 1 -> Bytes]
  PROVE  [offset |-> o, data_len |-> n, eof |-> e, data |-> d] \in Block
  BY DEF Block

(* Cutting a block from the ring keeps the invariant.                      *)
LEMMA SendqHeadSendInv ==
  ASSUME SendInv, SendqHead
  PROVE  SendInv'
<1> USE SendAssumption DEF SendInv
<1> DEFINE requested == Minimum(pending_used, MaximumSendBytes)
<1>1. /\ requested \in 0 .. pending_used
      /\ requested \in 0 .. MaximumSendBytes
      /\ pending_used \in 0 .. PendingMaximum
      /\ pending_current \in 0 .. PendingMaximum
      /\ written \in 0 .. StreamLength
      /\ my_sent_bytes \in 0 .. StreamLength
      /\ written = my_sent_bytes + pending_used
  BY DEF Minimum, TypeOK, Conservation, HeadBytes, SendqHead
<1>2. /\ ~ sendq_head_exists
      /\ sendq_head_exists' = TRUE
      /\ sendq_head' = CutBlock(requested)
      /\ pending_current' = Advance(pending_current, requested)
      /\ pending_used' = pending_used - requested
      /\ writer' = IF written > 0 THEN WakeWriter ELSE writer
      /\ UNCHANGED <<pending, pending_next, pending_eof, mark, messager, written>>
  BY DEF SendqHead
<1> HIDE DEF requested
<1>3. /\ sendq_head'.data_len = requested
      /\ sendq_head'.eof = LastBlock(requested)
      /\ \A k \in 0 .. requested - 1 :
            sendq_head'.data[k] = pending[SlotAfter(pending_current, k)]
  BY <1>1, <1>2 DEF CutBlock
<1>4. sendq_head' \in Block
  <2>1. ASSUME NEW k \in 0 .. MaximumSendBytes - 1, k < requested
        PROVE  pending[SlotAfter(pending_current, k)] \in Bytes
    BY <1>1, <2>1, SlotsDistinct DEF TypeOK
  <2>2. requested \in Bytes /\ NoByte \in Bytes
    BY <1>1 DEF Bytes, NoByte
  <2>3. LastBlock(requested) \in BOOLEAN
    BY DEF LastBlock
  <2>4. [k \in 0 .. MaximumSendBytes - 1 |->
           IF k < requested THEN pending[SlotAfter(pending_current, k)] ELSE NoByte]
          \in [0 .. MaximumSendBytes - 1 -> Bytes]
    BY <2>1, <2>2
  <2>5. 0 \in Bytes
    BY DEF Bytes
  <2>6. QED
    BY <1>2, <2>2, <2>3, <2>4, <2>5, BlockOfParts DEF CutBlock
<1>5. writer' \in Writer
  BY <1>2, WakeWriterResumes DEF TypeOK
<1>6. TypeOK'
  BY <1>1, <1>2, <1>4, <1>5, AdvanceTwice DEF TypeOK, mark, messager
<1>7. Conservation'
  BY <1>1, <1>2, <1>3 DEF Conservation, HeadBytes, messager
<1>8. RingShape'
  <2>1. Advance(pending_current', pending_used')
          = Advance(pending_current, requested + (pending_used - requested))
    BY <1>1, <1>2, AdvanceTwice
  <2>2. requested + (pending_used - requested) = pending_used
    BY <1>1
  <2>3. QED
    BY <1>2, <2>1, <2>2 DEF RingShape
<1>9. RingInOrder'
  <2>1. SUFFICES ASSUME NEW i \in 0 .. (pending_used - requested) - 1
                 PROVE  pending[SlotAfter(pending_current', i)]
                          = written - (pending_used - requested) + i
    BY <1>1, <1>2 DEF RingInOrder
  <2>2. SlotAfter(pending_current', i) = SlotAfter(pending_current, requested + i)
    BY <1>1, <1>2, SlotAfterAdvance
  <2>3. QED
    BY <1>1, <2>2 DEF RingInOrder
<1>10. HeadInOrder'
  <2>1. ASSUME NEW k \in 0 .. requested - 1
        PROVE  sendq_head'.data[k] = my_sent_bytes + k
    BY <1>1, <1>3, <2>1 DEF RingInOrder
  <2>2. sendq_head'.eof => pending_used' = 0 /\ pending_eof'
    <3>1. sendq_head'.eof => LastBlock(requested)
      BY <1>3
    <3>2. LastBlock(requested) => pending_used = requested /\ pending_eof
      BY DEF LastBlock
    <3>3. pending_used = requested => pending_used' = 0
      BY <1>1, <1>2
    <3>4. pending_eof' = pending_eof
      BY <1>2
    <3>5. QED
      BY <3>1, <3>2, <3>3, <3>4
  <2>3. my_sent_bytes' = my_sent_bytes
    BY <1>2 DEF messager
  <2>4. sendq_head'.data_len = requested /\ requested <= MaximumSendBytes
    BY <1>1, <1>3
  <2>5. QED
    BY <2>1, <2>2, <2>3, <2>4 DEF HeadInOrder
<1>11. BlocksInOrder' /\ EofSentWithBlock'
  BY <1>2 DEF BlocksInOrder, InOrder, EofSentWithBlock, mark, messager
<1>12. ~ my_eof
  BY <1>1 DEF SendqHead, SendqIsEmpty, EofIsLast
<1>13. EofIsLast'
  BY <1>2, <1>12 DEF EofIsLast, EofSentWithBlock, mark, messager
<1>14. WriterInStream'
  BY <1>2, WakeWriterResumes DEF WriterInStream, TypeOK
<1>15. NoLostWriterWakeup'
  BY <1>1, <1>2, WakeWriterResumes DEF NoLostWriterWakeup, Fits, TypeOK
<1>16. QED
  BY <1>6, <1>7, <1>8, <1>9, <1>10, <1>11, <1>13, <1>14, <1>15

(* Sending the head block keeps the invariant: the block that was cut      *)
(* earlier is still the one that follows the bytes sent.                   *)
LEMMA SendHeadSendInv ==
  ASSUME SendInv, SendHead
  PROVE  SendInv'
<1> USE SendAssumption DEF SendInv
<1> DEFINE sent == [sendq_head EXCEPT !.offset = my_sent_bytes]
<1>1. /\ sendq_head_exists
      /\ sendmarkq' = sendmarkq \cup {sent}
      /\ my_sent_bytes' = End(sent)
      /\ my_eof' = (my_eof \/ sent.eof)
      /\ sendq_head_exists' = FALSE
      /\ first_is_root' \in BOOLEAN
      /\ UNCHANGED <<ring, pending_eof, sendq_head, written, writer>>
  BY DEF SendHead
<1>2. /\ sent.offset = my_sent_bytes
      /\ sent.data_len = sendq_head.data_len
      /\ sent.eof = sendq_head.eof
      /\ sent.data = sendq_head.data
  BY DEF TypeOK, Block
<1>3. /\ written = my_sent_bytes + sendq_head.data_len + pending_used
      /\ my_sent_bytes \in Nat
      /\ sendq_head.data_len \in Nat
      /\ pending_used \in Nat
      /\ written \in 0 .. StreamLength
  BY <1>1 DEF Conservation, HeadBytes, TypeOK, Block, Bytes
<1>4. sent \in Block
  BY <1>3 DEF TypeOK, Block, Bytes
<1> HIDE DEF sent
<1>5. my_sent_bytes' = my_sent_bytes + sendq_head.data_len
  BY <1>1, <1>2 DEF End
<1>6. sendq_head.eof \in BOOLEAN
  BY DEF TypeOK, Block
<1>7. TypeOK'
  <2>1. my_sent_bytes' \in 0 .. StreamLength
    BY <1>3, <1>5
  <2>2. sendmarkq' \subseteq Block
    BY <1>1, <1>4 DEF TypeOK
  <2>3. my_eof' \in BOOLEAN
    BY <1>1
  <2>4. QED
    BY <1>1, <2>1, <2>2, <2>3 DEF TypeOK, ring
<1>8. Conservation'
  BY <1>1, <1>3, <1>5 DEF Conservation, HeadBytes, ring
<1>9. RingShape' /\ RingInOrder' /\ HeadInOrder'
  BY <1>1 DEF RingShape, RingInOrder, HeadInOrder, ring
<1>10. BlocksInOrder'
  BY <1>1, <1>2 DEF BlocksInOrder, InOrder, HeadInOrder
<1>11. EofSentWithBlock'
  BY <1>1, <1>2 DEF EofSentWithBlock
<1>12. sent.eof => my_sent_bytes' = written /\ pending_eof
  BY <1>1, <1>2, <1>3, <1>5 DEF HeadInOrder
<1>13. EofIsLast'
  <2>1. ~ my_eof
    BY <1>1 DEF EofIsLast
  <2>2. \A b \in sendmarkq' : b.eof => End(b) = written
    BY <1>1, <1>12, <2>1 DEF EofSentWithBlock
  <2>3. my_eof' => my_sent_bytes' = written /\ pending_eof
    BY <1>1, <1>12, <2>1
  <2>4. QED
    BY <1>1, <2>2, <2>3 DEF EofIsLast
<1>14. WriterInStream' /\ NoLostWriterWakeup'
  BY <1>1 DEF WriterInStream, NoLostWriterWakeup, Fits, ring
<1>15. QED
  BY <1>7, <1>8, <1>9, <1>10, <1>11, <1>13, <1>14

(* A step that only removes blocks from sendmarkq_, or reorders it, keeps  *)
(* the invariant.                                                          *)
LEMMA MarkSendInv ==
  ASSUME SendInv, sendmarkq' \subseteq sendmarkq, first_is_root' \in BOOLEAN,
         UNCHANGED <<ring, pending_eof, head, messager, written, writer>>
  PROVE  SendInv'
<1> USE DEF SendInv
<1>1. TypeOK'
  BY DEF TypeOK, ring, head, messager
<1>2. Conservation' /\ RingShape' /\ RingInOrder' /\ HeadInOrder'
  BY DEF Conservation, HeadBytes, RingShape, RingInOrder, HeadInOrder,
         ring, head, messager
<1>3. BlocksInOrder' /\ EofIsLast' /\ EofSentWithBlock'
  BY DEF BlocksInOrder, EofIsLast, EofSentWithBlock, head, messager
<1>4. WriterInStream' /\ NoLostWriterWakeup'
  BY DEF WriterInStream, NoLostWriterWakeup, Fits, ring
<1>5. QED
  BY <1>1, <1>2, <1>3, <1>4

LEMMA NextSendInv == SendInv /\ [Next]_vars => SendInv'
<1> SUFFICES ASSUME SendInv, [Next]_vars PROVE SendInv'
  OBVIOUS
<1>1. ASSUME NEW n \in WriteSizes, Write(n) PROVE SendInv'
  BY <1>1, TryWriteSendInv DEF Write
<1>2. CASE RetryWrite
  <2>1. writer.size \in WriteSizes /\ written + writer.size <= StreamLength
    BY <1>2 DEF RetryWrite, SendInv, TypeOK, Writer, Idle, WriterInStream
  <2>2. QED
    BY <1>2, <2>1, TryWriteSendInv DEF RetryWrite
<1>3. CASE SetEof
  <2> USE <1>3 DEF SendInv, SetEof
  <2>1. TypeOK' /\ Conservation' /\ RingShape' /\ RingInOrder'
    BY DEF TypeOK, Conservation, HeadBytes, RingShape, RingInOrder,
           ring, head, mark, messager
  <2>2. HeadInOrder' /\ BlocksInOrder' /\ EofIsLast' /\ EofSentWithBlock'
    BY DEF HeadInOrder, BlocksInOrder, EofIsLast, EofSentWithBlock,
           ring, head, mark, messager
  <2>3. WriterInStream' /\ NoLostWriterWakeup'
    BY DEF WriterInStream, NoLostWriterWakeup, Fits, ring
  <2>4. QED
    BY <2>1, <2>2, <2>3
<1>4. CASE SendqHead
  BY <1>4, SendqHeadSendInv
<1>5. CASE SendHead
  BY <1>5, SendHeadSendInv
<1>6. CASE Resend
  BY <1>6, MarkSendInv DEF Resend, SendInv, TypeOK
<1>7. CASE Acknowledge
  <2>1. PICK ranges : RemoveRanges(ranges)
    BY <1>7 DEF Acknowledge
  <2>2. first_is_root' \in BOOLEAN
    <3>1. \A kept : RootAfter(kept) \subseteq BOOLEAN
      <4>1. SUFFICES ASSUME NEW kept PROVE RootAfter(kept) \subseteq BOOLEAN
        OBVIOUS
      <4>2. first_is_root \in BOOLEAN
        BY DEF SendInv, TypeOK
      <4>3. CASE kept = sendmarkq
        BY <4>2, <4>3 DEF RootAfter
      <4>4. CASE kept # sendmarkq
        BY <4>4 DEF RootAfter
      <4>5. QED
        BY <4>3, <4>4
    <3>2. QED
      BY <2>1, <3>1 DEF RemoveRanges
  <2>3. sendmarkq' \subseteq sendmarkq
    BY <2>1 DEF RemoveRanges
  <2>4. QED
    BY <2>1, <2>2, <2>3, MarkSendInv DEF RemoveRanges
<1>8. CASE UNCHANGED vars
  BY <1>8, MarkSendInv DEF vars, mark, SendInv, TypeOK
<1>9. QED
  BY <1>1, <1>2, <1>3, <1>4, <1>5, <1>6, <1>7, <1>8 DEF Next

(* The strengthened invariant holds in every reachable state.              *)
THEOREM SendInvariant == Spec => []SendInv
<1>1. QED
  BY InitSendInv, NextSendInv, PTL DEF Spec

-----------------------------------------------------------------------------
(* Positions stay in the ring, whose arithmetic is on unsigned numbers.    *)
THEOREM TypeCorrect == Spec => []TypeOK
<1>1. SendInv => TypeOK
  BY DEF SendInv
<1>2. QED
  BY <1>1, SendInvariant, PTL

(* write() never overwrites a byte that no block has taken.                *)
THEOREM RingSafe == Spec => []RingInOrder
<1>1. SendInv => RingInOrder
  BY DEF SendInv
<1>2. QED
  BY <1>1, SendInvariant, PTL

(* Every block sent carries the stream's bytes from its offset on.         *)
THEOREM SentInOrder == Spec => []BlocksInOrder
<1>1. SendInv => BlocksInOrder
  BY DEF SendInv
<1>2. QED
  BY <1>1, SendInvariant, PTL

(* The EOF mark is sent with or after the last accepted byte.              *)
THEOREM EofSafe == Spec => []EofIsLast
<1>1. SendInv => EofIsLast
  BY DEF SendInv
<1>2. QED
  BY <1>1, SendInvariant, PTL

(* No write stays suspended while the ring has room for it.                *)
THEOREM WriterWoken == Spec => []NoLostWriterWakeup
<1>1. SendInv => NoLostWriterWakeup
  BY DEF SendInv
<1>2. QED
  BY <1>1, SendInvariant, PTL
=============================================================================
