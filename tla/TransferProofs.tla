--------------------------- MODULE TransferProofs ---------------------------
(***************************************************************************)
(* Theorems about Transfer: the two halves of a connection, with a network *)
(* that loses, repeats and reorders packets between them, lose no byte and *)
(* implement ByteStream, for every capacity, every length of the stream    *)
(* and every size of the buffers.                                          *)
(*                                                                         *)
(* What each half guarantees on its own comes from SessionSendProofs and   *)
(* SessionReceiveProofs.  Each of them lets its environment do anything it *)
(* may; the lemmas here show that the other half does nothing else.        *)
(***************************************************************************)
EXTENDS Transfer, TLAPS

(* Transfer takes a read in one step, as read()'s loop implements it, so   *)
(* that no loop is under way.                                              *)
SP == INSTANCE SessionSendProofs
RP == INSTANCE SessionReceiveProofs
        WITH pending_eof <- reader_eof, loop <- {}

-----------------------------------------------------------------------------
(* The inductive invariant.                                                *)

(* The sender has sent the block, and it ends the stream if it says so.    *)
Travels(b) ==
  /\ b \in Blocks
  /\ b.offset + b.data_len <= my_sent_bytes
  /\ b.eof => pending_eof

StreamEnds == pending_eof => written = StreamLength

HeadCarriesSomething ==
  sendq_head_exists /\ sendq_head.data_len = 0 => sendq_head.eof

SentTravels == \A b \in sendmarkq : Travels(Wire(b))
NetTravels == \A b \in net : Travels(b)
ReceivedTravels == \A e \in recvmarkq : Travels(e.block)

ReadWasSent ==
  /\ recvmarkq_distributed <= my_sent_bytes
  /\ reader_eof \/ eof_delivered => pending_eof

(* An acknowledgment on its way covers acknowledged bytes only.            *)
AcksAreTrue ==
  \A r \in acks : /\ r \in Nat \X Nat
                  /\ r[1] <= r[2] /\ r[2] <= my_sent_bytes
                  /\ \A p \in r[1] .. r[2] - 1 : p \in acked

TransferInv ==
  /\ SP!SendInv
  /\ RP!RecvInv
  /\ ~ closed
  /\ StreamEnds
  /\ HeadCarriesSomething
  /\ SentTravels /\ NetTravels /\ ReceivedTravels
  /\ ReadWasSent
  /\ AcksAreTrue
  /\ NoByteLost

-----------------------------------------------------------------------------
(* The assumptions of both halves hold.                                    *)
LEMMA SendAssumed == SP!SendAssumption
  BY TransferAssumption DEF SP!SendAssumption

LEMMA ReceiveAssumed == RP!ReceiveAssumption
  BY TransferAssumption DEF RP!ReceiveAssumption, RP!End, Blocks

(* What the halves say of their variables here.                            *)
HalfTypes ==
  /\ StreamLength \in Nat /\ MaximumSendBytes \in Nat \ {0}
  /\ my_sent_bytes \in 0 .. StreamLength
  /\ written \in 0 .. StreamLength
  /\ pending_used \in Nat
  /\ my_sent_bytes <= written
  /\ pending_eof \in BOOLEAN /\ sendq_head_exists \in BOOLEAN
  /\ recvmarkq_distributed \in 0 .. StreamLength
  /\ delivered \in 0 .. recvmarkq_distributed
  /\ reader_eof \in BOOLEAN /\ eof_delivered \in BOOLEAN

LEMMA Types == SP!SendInv /\ RP!RecvInv => HalfTypes
<1> SUFFICES ASSUME SP!SendInv, RP!RecvInv PROVE HalfTypes
  OBVIOUS
<1>1. /\ StreamLength \in Nat /\ MaximumSendBytes \in Nat \ {0}
      /\ PendingMaximum \in Nat
  BY TransferAssumption
<1>2. SP!TypeOK /\ SP!Conservation
  BY DEF SP!SendInv
<1>3. /\ my_sent_bytes \in 0 .. StreamLength /\ written \in 0 .. StreamLength
      /\ pending_used \in Nat
      /\ pending_eof \in BOOLEAN /\ sendq_head_exists \in BOOLEAN
      /\ sendq_head.data_len \in Nat
  BY <1>1, <1>2 DEF SP!TypeOK, SP!Block, SP!Bytes
<1>4. my_sent_bytes <= written
  BY <1>2, <1>3 DEF SP!Conservation, SP!HeadBytes
<1>5. RP!TypeOK /\ RP!EofAfterData
  BY DEF RP!RecvInv
<1>6. /\ recvmarkq_distributed \in 0 .. StreamLength
      /\ recvmarkq_read_offset \in Nat /\ delivered \in Nat
      /\ reader_eof \in BOOLEAN /\ eof_delivered \in BOOLEAN
  BY <1>1, <1>5 DEF RP!TypeOK
<1>7. delivered \in 0 .. recvmarkq_distributed
  BY <1>5, <1>6 DEF RP!EofAfterData
<1>8. QED
  BY <1>1, <1>3, <1>4, <1>6, <1>7 DEF HalfTypes

LEMMA TypesNext == (SP!SendInv /\ RP!RecvInv)' => HalfTypes'
  BY Types, PTL

LEMMA SameStored == \A p : R!Stored(p) <=> RP!Stored(p)
  BY DEF R!Stored, R!Holds, R!End, RP!Stored, RP!Holds, RP!End

-----------------------------------------------------------------------------
LEMMA InitTransferInv == Init => TransferInv
<1>1. SUFFICES ASSUME Init PROVE TransferInv
  OBVIOUS
<1>2. SP!Init
  BY <1>1 DEF Init, S!Init, SP!Init, S!Slots, SP!Slots, S!NoByte, SP!NoByte,
              S!ZeroBlock, SP!ZeroBlock, S!Idle, SP!Idle
<1>3. SP!SendInv
  BY <1>2, SendAssumed, SP!InitSendInv
<1>4. RP!Init
  BY <1>1 DEF Init, R!Init, RP!Init, R!Idle, RP!Idle
<1>5. RP!RecvInv
  BY <1>4, ReceiveAssumed, RP!InitRecvInv
<1>6. /\ ~ closed /\ StreamEnds /\ HeadCarriesSomething
      /\ SentTravels /\ NetTravels /\ ReceivedTravels
      /\ ReadWasSent /\ AcksAreTrue /\ NoByteLost
  BY <1>2, <1>4, <1>1
  DEF Init, SP!Init, RP!Init, StreamEnds, HeadCarriesSomething, SentTravels,
      NetTravels, ReceivedTravels, ReadWasSent, AcksAreTrue, NoByteLost
<1>7. QED
  BY <1>3, <1>5, <1>6 DEF TransferInv

-----------------------------------------------------------------------------
(* The steps of the sending half are steps of SessionSend.                 *)
LEMMA WriteIsStep == Write => SP!Next
<1>1. ASSUME NEW n \in WriteSizes, S!Write(n) PROVE SP!Write(n)
  BY <1>1
  DEF S!Write, S!TryWrite, S!Fits, S!Store, S!Advance, S!SlotAfter, S!Slots,
      S!Idle, S!ring, S!head, S!mark, S!messager,
      SP!Write, SP!TryWrite, SP!Fits, SP!Store, SP!Advance, SP!SlotAfter,
      SP!Slots, SP!Idle, SP!ring, SP!head, SP!mark, SP!messager
<1>2. S!RetryWrite => SP!RetryWrite
  BY DEF S!RetryWrite, S!TryWrite, S!Fits, S!Store, S!Advance, S!SlotAfter,
         S!Slots, S!Idle, S!ring, S!head, S!mark, S!messager,
         SP!RetryWrite, SP!TryWrite, SP!Fits, SP!Store, SP!Advance,
         SP!SlotAfter, SP!Slots, SP!Idle, SP!ring, SP!head, SP!mark, SP!messager
<1>3. QED
  BY <1>1, <1>2 DEF Write, SP!Next

LEMMA CutHeadIsStep == CutHead => SP!Next
<1>1. S!SendqHead => SP!SendqHead
  BY DEF S!SendqHead, S!SendqIsEmpty, S!Minimum, S!CutBlock, S!LastBlock,
         S!SlotAfter, S!NoByte, S!Advance, S!WakeWriter, S!mark, S!messager,
         SP!SendqHead, SP!SendqIsEmpty, SP!Minimum, SP!CutBlock, SP!LastBlock,
         SP!SlotAfter, SP!NoByte, SP!Advance, SP!WakeWriter, SP!mark, SP!messager
<1>2. QED
  BY <1>1 DEF CutHead, SP!Next

LEMMA SendHeadIsStep == S!SendHead => SP!Next
<1>1. S!SendHead => SP!SendHead
  BY DEF S!SendHead, S!SendmarkqIsFull, S!Cardinality, S!End, S!ring,
         SP!SendHead, SP!SendmarkqIsFull, SP!Cardinality, SP!End, SP!ring
<1>2. QED
  BY <1>1 DEF SP!Next

LEMMA ResendIsStep == S!Resend => SP!Next
<1>1. S!Resend => SP!Resend
  BY DEF S!Resend, S!Without, S!ring, S!head, S!messager,
         SP!Resend, SP!Without, SP!ring, SP!head, SP!messager
<1>2. QED
  BY <1>1 DEF SP!Next

(* An acknowledgment that may arrive is one of bytes that were sent.       *)
LEMMA RecvAckIsStep ==
  ASSUME SP!SendInv, AcksAreTrue, NEW range \in acks, S!RemoveRanges({range})
  PROVE  /\ SP!SendInv'
         /\ sendmarkq' = {b \in sendmarkq : ~ S!Within(b, range[1], range[2])}
         /\ UNCHANGED <<written, pending_eof, my_sent_bytes, sendq_head,
                        sendq_head_exists>>
<1>1. /\ sendmarkq' = {b \in sendmarkq : ~ S!Within(b, range[1], range[2])}
      /\ first_is_root' \in S!RootAfter({b \in sendmarkq :
                                            ~ S!Within(b, range[1], range[2])})
      /\ UNCHANGED <<S!ring, pending_eof, S!head, S!messager, written, writer>>
  BY DEF S!RemoveRanges
<1>2. first_is_root' \in BOOLEAN
  BY <1>1 DEF S!RootAfter, SP!SendInv, SP!TypeOK
<1>3. UNCHANGED <<SP!ring, pending_eof, SP!head, SP!messager, written, writer>>
  BY <1>1 DEF S!ring, S!head, S!messager, SP!ring, SP!head, SP!messager
<1>4. SP!SendInv'
  BY <1>1, <1>2, <1>3, SendAssumed, SP!MarkSendInv
<1>5. QED
  BY <1>1, <1>3, <1>4 DEF SP!head, SP!messager

-----------------------------------------------------------------------------
(* The steps of the receiving half are steps of SessionReceive.            *)
LEMMA PutIsStep == \A b : R!Put(b) => RP!Put(b)
  BY DEF R!Put, R!RecvmarkqIsFull, R!Cardinality, R!NewEntry, R!FreeCopy,
         R!WakeReader, R!progress, R!history,
         RP!Put, RP!RecvmarkqIsFull, RP!Cardinality, RP!NewEntry, RP!FreeCopy,
         RP!WakeReader, RP!progress, RP!history

LEMMA ReadIsStep ==
  ASSUME RP!RecvInv, Read
  PROVE  \E size \in ReadSizes : RP!TryRead(size)
<1>1. ASSUME NEW size, R!TryRead(size) PROVE RP!TryRead(size)
  BY <1>1
  DEF R!TryRead, R!Passed, R!End, R!EofPassed, R!ReadsTo, R!Stored, R!Holds,
      R!ContiguousTo, R!Distribute, R!Idle,
      RP!TryRead, RP!Passed, RP!End, RP!EofPassed, RP!ReadsTo, RP!Stored,
      RP!Holds, RP!ContiguousTo, RP!Distribute, RP!Idle
<1>2. CASE \E n \in ReadSizes : R!Read(n)
  BY <1>1, <1>2 DEF R!Read
<1>3. CASE R!RetryRead
  BY <1>1, <1>3 DEF R!RetryRead, RP!RecvInv, RP!TypeOK, RP!Reader, RP!Idle
<1>4. QED
  BY <1>2, <1>3 DEF Read

LEMMA SendAckIsStep ==
  \A c, more : R!SendAck(c, more) => RP!SendAck(c, more)
  BY DEF R!SendAck, R!AckReaches, R!Unacknowledged, R!Holds, R!End,
         R!AfterRemoveRanges, R!Within, R!RangesOf, R!Bytes, R!progress,
         RP!SendAck, RP!AckReaches, RP!Unacknowledged, RP!Holds, RP!End,
         RP!AfterRemoveRanges, RP!Within, RP!RangesOf, RP!Bytes, RP!progress

(* A half that does nothing keeps its invariant.                           *)
LEMMA SenderIdle ==
  ASSUME SP!SendInv, UNCHANGED sender PROVE SP!SendInv'
<1>1. UNCHANGED SP!vars
  BY DEF sender, SP!vars, SP!ring, SP!head, SP!mark, SP!messager
<1>2. QED
  BY <1>1, SendAssumed, SP!NextSendInv

LEMMA ReceiverIdle ==
  ASSUME RP!RecvInv, UNCHANGED receiver PROVE RP!RecvInv'
<1>1. UNCHANGED RP!vars
  BY DEF receiver, RP!vars, RP!progress, RP!history
<1>2. QED
  BY <1>1, ReceiveAssumed, RP!NextRecvInv

-----------------------------------------------------------------------------
(* What was sent stays sent.                                               *)
LEMMA TravelsOn ==
  ASSUME my_sent_bytes \in Nat, my_sent_bytes' \in Nat,
         my_sent_bytes <= my_sent_bytes', pending_eof => pending_eof',
         NEW b, Travels(b)
  PROVE  Travels(b)'
<1>1. b.offset + b.data_len \in Nat
  BY TransferAssumption DEF Travels, Blocks
<1>2. QED
  BY <1>1 DEF Travels, Blocks

(* A step of the sender that leaves sendmarkq_ as it is keeps what is      *)
(* true of the packets and of the receiver.                                *)
LEMMA SenderKeeps ==
  ASSUME TransferInv, SP!SendInv', UNCHANGED <<receiver, network>>,
         my_sent_bytes <= my_sent_bytes', pending_eof => pending_eof'
  PROVE  /\ RP!RecvInv' /\ ~ closed'
         /\ NetTravels' /\ ReceivedTravels' /\ ReadWasSent' /\ AcksAreTrue'
<1>1. RP!RecvInv'
  BY ReceiverIdle DEF TransferInv
<1>2. /\ my_sent_bytes \in Nat /\ my_sent_bytes' \in Nat
      /\ recvmarkq_distributed \in Nat
  BY <1>1, Types DEF HalfTypes, TransferInv, SP!SendInv, SP!TypeOK
<1>3. /\ UNCHANGED <<recvmarkq, recvmarkq_distributed, reader_eof, eof_delivered,
                     acked, closed, net, acks>>
  BY DEF receiver, network
<1>4. NetTravels' /\ ReceivedTravels'
  BY <1>2, <1>3, TravelsOn DEF TransferInv, NetTravels, ReceivedTravels
<1>5. ReadWasSent'
  BY <1>2, <1>3 DEF TransferInv, ReadWasSent
<1>6. AcksAreTrue'
  BY <1>2, <1>3 DEF TransferInv, AcksAreTrue
<1>7. QED
  BY <1>1, <1>3, <1>4, <1>5, <1>6 DEF TransferInv

LEMMA WriteTransferInv == ASSUME TransferInv, Write PROVE TransferInv'
<1>1. SP!SendInv'
  BY WriteIsStep, SendAssumed, SP!NextSendInv DEF TransferInv
<1>2. /\ UNCHANGED <<pending_eof, sendq_head_exists, sendq_head, sendmarkq,
                     my_sent_bytes>>
      /\ pending_eof => written' = written
  BY DEF Write, S!Write, S!RetryWrite, S!TryWrite, S!ring, S!head, S!mark, S!messager
<1>3. my_sent_bytes <= my_sent_bytes'
  BY <1>2, Types DEF HalfTypes, TransferInv
<1>4. /\ RP!RecvInv' /\ ~ closed'
      /\ NetTravels' /\ ReceivedTravels' /\ ReadWasSent' /\ AcksAreTrue'
  BY <1>1, <1>2, <1>3, SenderKeeps DEF Write
<1>5. StreamEnds' /\ HeadCarriesSomething' /\ SentTravels'
  BY <1>2 DEF TransferInv, StreamEnds, HeadCarriesSomething, SentTravels,
              Travels, Wire, Blocks
<1>6. NoByteLost'
  BY <1>2 DEF Write, TransferInv, NoByteLost, receiver, R!Stored, R!Holds, R!End
<1>7. QED
  BY <1>1, <1>4, <1>5, <1>6 DEF TransferInv

LEMMA CloseStreamTransferInv == ASSUME TransferInv, CloseStream PROVE TransferInv'
<1>1. UNCHANGED <<sendq_head_exists, sendq_head, sendmarkq, my_sent_bytes, written>>
      /\ ~ pending_eof /\ pending_eof' = TRUE /\ written = StreamLength
  BY DEF CloseStream, S!SetEof, S!head, S!mark, S!messager
<1>2. SP!SendInv'
  <2>1. S!SetEof => SP!SetEof
    BY DEF S!SetEof, S!ring, S!head, S!mark, S!messager,
           SP!SetEof, SP!ring, SP!head, SP!mark, SP!messager
  <2>2. QED
    BY <2>1, SendAssumed, SP!NextSendInv DEF TransferInv, CloseStream, SP!Next
<1>3. my_sent_bytes <= my_sent_bytes'
  BY <1>1, Types DEF HalfTypes, TransferInv
<1>4. /\ RP!RecvInv' /\ ~ closed'
      /\ NetTravels' /\ ReceivedTravels' /\ ReadWasSent' /\ AcksAreTrue'
  BY <1>1, <1>2, <1>3, SenderKeeps DEF CloseStream
<1>5. StreamEnds' /\ HeadCarriesSomething' /\ SentTravels'
  BY <1>1 DEF TransferInv, StreamEnds, HeadCarriesSomething, SentTravels,
              Travels, Wire, Blocks
<1>6. NoByteLost'
  BY <1>1
  DEF CloseStream, TransferInv, NoByteLost, receiver, R!Stored, R!Holds, R!End
<1>7. QED
  BY <1>2, <1>4, <1>5, <1>6 DEF TransferInv

LEMMA CutHeadTransferInv == ASSUME TransferInv, CutHead PROVE TransferInv'
<1>1. UNCHANGED <<pending_eof, sendmarkq, my_sent_bytes, written>>
  BY DEF CutHead, S!SendqHead, S!mark, S!messager
<1>2. SP!SendInv'
  BY CutHeadIsStep, SendAssumed, SP!NextSendInv DEF TransferInv
<1>3. my_sent_bytes <= my_sent_bytes'
  BY <1>1, Types DEF HalfTypes, TransferInv
<1>4. /\ RP!RecvInv' /\ ~ closed'
      /\ NetTravels' /\ ReceivedTravels' /\ ReadWasSent' /\ AcksAreTrue'
  BY <1>1, <1>2, <1>3, SenderKeeps DEF CutHead
<1>5. HeadCarriesSomething'
  <2>1. /\ sendq_head'.data_len = S!Minimum(pending_used, MaximumSendBytes)
        /\ sendq_head'.eof = (pending_used = sendq_head'.data_len /\ pending_eof)
        /\ pending_used = 0 => pending_eof
    BY DEF CutHead, S!SendqHead, S!SendqIsEmpty, S!CutBlock, S!LastBlock
  <2>2. sendq_head'.data_len = 0 => pending_used = 0
    BY <2>1, Types DEF HalfTypes, TransferInv, S!Minimum
  <2>3. QED
    BY <2>1, <2>2 DEF HeadCarriesSomething
<1>6. StreamEnds' /\ SentTravels'
  BY <1>1 DEF TransferInv, StreamEnds, SentTravels, Travels, Wire, Blocks
<1>7. NoByteLost'
  BY <1>1 DEF CutHead, TransferInv, NoByteLost, receiver, R!Stored, R!Holds, R!End
<1>8. QED
  BY <1>2, <1>4, <1>5, <1>6, <1>7 DEF TransferInv

(* The block that is sent follows those sent before, so it is one that may *)
(* travel, and covers the bytes that are sent with it.                     *)
LEMMA SendHeadTransferInv ==
  ASSUME TransferInv, NEW arrives \in BOOLEAN, SendHead(arrives)
  PROVE  TransferInv'
<1> DEFINE sent == [sendq_head EXCEPT !.offset = my_sent_bytes]
<1>1. /\ sendq_head_exists /\ ~ sendq_head_exists'
      /\ sendmarkq' = sendmarkq \cup {sent}
      /\ my_sent_bytes' = sent.offset + sent.data_len
      /\ net' \subseteq net \cup {Wire(sent)}
      /\ UNCHANGED <<pending_eof, written, receiver, acks, their_eof>>
  BY DEF SendHead, S!SendHead, S!End, Transmit
<1>2. SP!SendInv'
  BY SendHeadIsStep, SendAssumed, SP!NextSendInv DEF TransferInv, SendHead
<1>3. /\ sent.offset = my_sent_bytes
      /\ sent.data_len = sendq_head.data_len /\ sent.eof = sendq_head.eof
      /\ sendq_head.data_len \in 0 .. MaximumSendBytes
      /\ sendq_head.eof \in BOOLEAN
      /\ sendq_head.eof => pending_used = 0 /\ pending_eof
      /\ sendq_head.data_len = 0 => sendq_head.eof
      /\ written = my_sent_bytes + sendq_head.data_len + pending_used
  BY <1>1, Types
  DEF HalfTypes, TransferInv, SP!SendInv, SP!TypeOK, SP!Block, SP!Bytes,
      SP!HeadInOrder,
      SP!Conservation, SP!HeadBytes, HeadCarriesSomething
<1>4. /\ StreamLength \in Nat
      /\ my_sent_bytes \in 0 .. StreamLength /\ my_sent_bytes' \in 0 .. StreamLength
      /\ written \in 0 .. StreamLength /\ pending_used \in Nat
  BY <1>2, Types DEF HalfTypes, TransferInv, SP!SendInv, SP!TypeOK
<1> HIDE DEF sent
<1>5. my_sent_bytes <= my_sent_bytes'
  BY <1>1, <1>3, <1>4
<1>6. ASSUME NEW w, w = Wire(sent) PROVE Travels(w)'
  <2>1. sent.eof => my_sent_bytes' = StreamLength
    BY <1>1, <1>3, <1>4 DEF TransferInv, StreamEnds
  <2>2. Wire(sent) \in Blocks
    BY <1>1, <1>3, <1>4, <2>1 DEF Wire, Blocks
  <2>3. QED
    BY <1>1, <1>3, <1>4, <1>6, <2>2 DEF Travels, Wire, Blocks
<1>7. RP!RecvInv' /\ ~ closed'
  BY <1>1, ReceiverIdle DEF TransferInv, receiver
<1>8. UNCHANGED <<recvmarkq, recvmarkq_distributed, reader_eof, eof_delivered,
                  acked>>
  BY <1>1 DEF receiver
<1>9. \A b : Travels(b) => Travels(b)'
  BY <1>1, <1>4, <1>5, TravelsOn
<1>10. SentTravels' /\ NetTravels' /\ ReceivedTravels'
  <2>1. \A b : Wire(b)' = Wire(b)
    BY DEF Wire
  <2>2. QED
    BY <1>1, <1>6, <1>8, <1>9, <2>1
    DEF TransferInv, SentTravels, NetTravels, ReceivedTravels
<1>11. ReadWasSent'
  BY <1>1, <1>4, <1>5, <1>8, Types DEF HalfTypes, TransferInv, ReadWasSent
<1>12. AcksAreTrue'
  BY <1>1, <1>4, <1>5, <1>8 DEF TransferInv, AcksAreTrue
<1>13. StreamEnds' /\ HeadCarriesSomething'
  BY <1>1 DEF TransferInv, StreamEnds, HeadCarriesSomething
<1>14. NoByteLost'
  <2>1. SUFFICES ASSUME NEW p \in 0 .. my_sent_bytes' - 1
                 PROVE  \/ p < recvmarkq_distributed
                        \/ R!Stored(p)
                        \/ \E b \in sendmarkq' :
                             b.offset <= p /\ p < b.offset + b.data_len
    BY <1>8 DEF NoByteLost, R!Stored, R!Holds, R!End
  <2>2. CASE p < my_sent_bytes
    BY <1>1, <1>4, <2>1, <2>2 DEF TransferInv, NoByteLost
  <2>3. CASE my_sent_bytes <= p
    BY <1>1, <1>3, <1>4, <2>1, <2>3
  <2>4. QED
    BY <1>4, <2>1, <2>2, <2>3
<1>15. QED
  BY <1>2, <1>7, <1>10, <1>11, <1>12, <1>13, <1>14 DEF TransferInv

LEMMA ResendTransferInv ==
  ASSUME TransferInv, NEW arrives \in BOOLEAN, Resend(arrives)
  PROVE  TransferInv'
<1>1. PICK b \in sendmarkq : net' \subseteq net \cup {Wire(b)}
  BY DEF Resend, Transmit
<1>2. UNCHANGED <<pending_eof, sendq_head_exists, sendq_head, sendmarkq,
                  my_sent_bytes, written, receiver, acks>>
  BY DEF Resend, Transmit, S!Resend, S!head, S!messager
<1>3. SP!SendInv'
  BY ResendIsStep, SendAssumed, SP!NextSendInv DEF TransferInv, Resend
<1>4. RP!RecvInv' /\ ~ closed'
  BY <1>2, ReceiverIdle DEF TransferInv, receiver
<1>5. UNCHANGED <<recvmarkq, recvmarkq_distributed, reader_eof, eof_delivered,
                  acked>>
  BY <1>2 DEF receiver
<1>6. \A x : Travels(x) => Travels(x)'
  BY <1>2 DEF Travels, Blocks
<1>7. SentTravels' /\ NetTravels' /\ ReceivedTravels'
  BY <1>1, <1>2, <1>5, <1>6
  DEF TransferInv, SentTravels, NetTravels, ReceivedTravels, Wire
<1>8. StreamEnds' /\ HeadCarriesSomething' /\ ReadWasSent' /\ AcksAreTrue'
  BY <1>2, <1>5
  DEF TransferInv, StreamEnds, HeadCarriesSomething, ReadWasSent, AcksAreTrue
<1>9. NoByteLost'
  BY <1>2, <1>5 DEF TransferInv, NoByteLost, R!Stored, R!Holds, R!End
<1>10. QED
  BY <1>3, <1>4, <1>7, <1>8, <1>9 DEF TransferInv

(* The sender forgets a block only when its bytes were acknowledged, and   *)
(* those the receiver keeps.                                               *)
LEMMA RecvAckTransferInv ==
  ASSUME TransferInv, NEW range \in acks, RecvAck(range)
  PROVE  TransferInv'
<1>1. S!RemoveRanges({range}) /\ UNCHANGED <<receiver, network>>
  BY DEF RecvAck
<1>2. /\ SP!SendInv'
      /\ sendmarkq' = {b \in sendmarkq : ~ S!Within(b, range[1], range[2])}
      /\ UNCHANGED <<written, pending_eof, my_sent_bytes, sendq_head,
                     sendq_head_exists>>
  BY <1>1, RecvAckIsStep DEF TransferInv
<1>3. my_sent_bytes \in Nat
  BY Types DEF HalfTypes, TransferInv
<1>4. /\ RP!RecvInv' /\ ~ closed'
      /\ NetTravels' /\ ReceivedTravels' /\ ReadWasSent' /\ AcksAreTrue'
  BY <1>1, <1>2, <1>3, SenderKeeps
<1>5. StreamEnds' /\ HeadCarriesSomething' /\ SentTravels'
  BY <1>2 DEF TransferInv, StreamEnds, HeadCarriesSomething, SentTravels,
              Travels, Wire, Blocks
<1>6. NoByteLost'
  <2>1. SUFFICES ASSUME NEW p \in 0 .. my_sent_bytes - 1, NEW b \in sendmarkq,
                        b.offset <= p, p < b.offset + b.data_len,
                        S!Within(b, range[1], range[2])
                 PROVE  p < recvmarkq_distributed \/ R!Stored(p)
    BY <1>1, <1>2 DEF TransferInv, NoByteLost, receiver, R!Stored, R!Holds, R!End
  <2>2. b.offset \in Nat /\ b.data_len \in Nat
    BY TransferAssumption
    DEF TransferInv, SP!SendInv, SP!TypeOK, SP!Block, SP!Bytes
  <2>3. range[1] \in Nat /\ range[2] \in Nat
        /\ \A q \in range[1] .. range[2] - 1 : q \in acked
    BY DEF TransferInv, AcksAreTrue
  <2>4. p \in acked
    BY <1>3, <2>1, <2>2, <2>3 DEF S!Within, S!End
  <2>5. QED
    BY <2>4, SameStored DEF TransferInv, RP!RecvInv, RP!AckedIsKept
<1>7. QED
  BY <1>2, <1>4, <1>5, <1>6 DEF TransferInv

-----------------------------------------------------------------------------
(* A step of the receiver keeps what is true of the sender.                *)
LEMMA ReceiverKeeps ==
  ASSUME TransferInv, UNCHANGED <<sender, net>>
  PROVE  /\ SP!SendInv' /\ StreamEnds' /\ HeadCarriesSomething'
         /\ SentTravels' /\ NetTravels'
         /\ \A b : Travels(b) => Travels(b)'
         /\ UNCHANGED <<sendmarkq, my_sent_bytes, pending_eof>>
<1>1. SP!SendInv'
  BY SenderIdle DEF TransferInv
<1>2. UNCHANGED <<sendmarkq, my_sent_bytes, pending_eof, written,
                  sendq_head_exists, sendq_head, net>>
  BY DEF sender
<1>3. QED
  BY <1>1, <1>2
  DEF TransferInv, StreamEnds, HeadCarriesSomething, SentTravels, NetTravels,
      Travels, Wire, Blocks

(* A byte the receiver has stays with the receiver until it is distributed.*)
LEMMA NoByteLostKept ==
  ASSUME NoByteLost, UNCHANGED <<sendmarkq, my_sent_bytes>>, my_sent_bytes \in Nat,
         \A p \in Nat : p < recvmarkq_distributed \/ RP!Stored(p) =>
                        p < recvmarkq_distributed' \/ RP!Stored(p)'
  PROVE  NoByteLost'
<1>1. \A p : (R!Stored(p) <=> RP!Stored(p)) /\ (R!Stored(p)' <=> RP!Stored(p)')
  BY DEF R!Stored, R!Holds, R!End, RP!Stored, RP!Holds, RP!End
<1>2. SUFFICES ASSUME NEW p \in 0 .. my_sent_bytes - 1
               PROVE  \/ p < recvmarkq_distributed'
                      \/ R!Stored(p)'
                      \/ \E b \in sendmarkq :
                           b.offset <= p /\ p < b.offset + b.data_len
  BY DEF NoByteLost
<1>3. QED
  BY <1>1, <1>2 DEF NoByteLost

LEMMA RecvBlockTransferInv ==
  ASSUME TransferInv, NEW b \in net, RecvBlock(b)
  PROVE  TransferInv'
<1>1. /\ RP!Put(b) /\ b \in Blocks /\ Travels(b)
      /\ UNCHANGED <<sender, net, acks>>
  BY PutIsStep DEF RecvBlock, TransferInv, NetTravels, Travels
<1>2. RP!RecvInv'
  BY <1>1, ReceiveAssumed, RP!PutRecvInv DEF TransferInv
<1>3. /\ recvmarkq' = recvmarkq \cup {RP!NewEntry(b)} /\ RP!NewEntry(b).block = b
      /\ UNCHANGED <<recvmarkq_distributed, reader_eof, eof_delivered, acked,
                     closed>>
  BY <1>1 DEF RP!Put, RP!NewEntry, RP!progress, RP!history
<1>4. /\ SP!SendInv' /\ StreamEnds' /\ HeadCarriesSomething'
      /\ SentTravels' /\ NetTravels'
      /\ \A x : Travels(x) => Travels(x)'
      /\ UNCHANGED <<sendmarkq, my_sent_bytes, pending_eof>>
  BY <1>1, ReceiverKeeps
<1>5. ReceivedTravels'
  BY <1>1, <1>3, <1>4 DEF TransferInv, ReceivedTravels
<1>6. ReadWasSent' /\ AcksAreTrue' /\ ~ closed'
  BY <1>1, <1>3, <1>4 DEF TransferInv, ReadWasSent, AcksAreTrue
<1>7. \A p : RP!Stored(p) => RP!Stored(p)'
  BY <1>3 DEF RP!Stored, RP!Holds, RP!End
<1>8. NoByteLost'
  BY <1>3, <1>4, <1>7, Types, NoByteLostKept DEF HalfTypes, TransferInv
<1>9. QED
  BY <1>2, <1>4, <1>5, <1>6, <1>8 DEF TransferInv

LEMMA ForgetTransferInv ==
  ASSUME TransferInv, NEW b \in net, Forget(b)
  PROVE  TransferInv'
<1>1. net' \subseteq net /\ UNCHANGED <<sender, receiver, acks>>
  BY DEF Forget
<1>2. SP!SendInv' /\ RP!RecvInv'
  BY <1>1, SenderIdle, ReceiverIdle DEF TransferInv
<1>3. QED
  BY <1>1, <1>2
  DEF TransferInv, StreamEnds, HeadCarriesSomething, SentTravels, NetTravels,
      ReceivedTravels, ReadWasSent, AcksAreTrue, NoByteLost, Travels, Wire,
      Blocks, R!Stored, R!Holds, R!End, sender, receiver

LEMMA ReadTransferInv == ASSUME TransferInv, Read PROVE TransferInv'
<1>1. PICK size \in ReadSizes : RP!TryRead(size)
  BY ReadIsStep DEF TransferInv
<1>2. RP!RecvInv'
  BY <1>1, ReceiveAssumed, RP!TryReadRecvInv DEF TransferInv
<1>3. /\ recvmarkq_distributed <= recvmarkq_distributed'
      /\ \A p \in recvmarkq_distributed .. recvmarkq_distributed' - 1 : RP!Stored(p)
      /\ \A p \in Nat : RP!Stored(p) => p < recvmarkq_distributed' \/ RP!Stored(p)'
      /\ \A f \in recvmarkq' : \E e \in recvmarkq : e.block = f.block
      /\ reader_eof' => reader_eof \/ \E e \in recvmarkq : e.block.eof
      /\ eof_delivered' = (eof_delivered \/ reader_eof')
      /\ UNCHANGED <<acked, closed>>
  BY <1>1, ReceiveAssumed, RP!TryReadKeeps DEF TransferInv
<1>4. UNCHANGED <<sender, network>> /\ UNCHANGED <<net, acks>>
  BY DEF Read, network
<1>5. /\ SP!SendInv' /\ StreamEnds' /\ HeadCarriesSomething'
      /\ SentTravels' /\ NetTravels'
      /\ \A x : Travels(x) => Travels(x)'
      /\ UNCHANGED <<sendmarkq, my_sent_bytes, pending_eof>>
  BY <1>4, ReceiverKeeps
<1>6. /\ my_sent_bytes \in Nat /\ recvmarkq_distributed \in Nat
      /\ recvmarkq_distributed' \in Nat
  BY <1>2, Types, TransferAssumption
  DEF HalfTypes, TransferInv, RP!RecvInv, RP!TypeOK
<1>7. ReceivedTravels'
  BY <1>3, <1>5 DEF TransferInv, ReceivedTravels
<1>8. ReadWasSent'
  <2>1. recvmarkq_distributed' <= my_sent_bytes
    <3>1. CASE recvmarkq_distributed' = recvmarkq_distributed
      BY <3>1 DEF TransferInv, ReadWasSent
    <3>2. CASE recvmarkq_distributed' # recvmarkq_distributed
      <4>1. \A p \in recvmarkq_distributed .. recvmarkq_distributed' - 1 :
              \E e \in recvmarkq : p < e.block.offset + e.block.data_len
        BY <1>3 DEF RP!Stored, RP!Holds, RP!End
      <4>2. PICK e \in recvmarkq :
              recvmarkq_distributed' - 1 < e.block.offset + e.block.data_len
        <5>1. \A m, n \in Nat : m <= n /\ n # m => n - 1 \in m .. n - 1
          OBVIOUS
        <5>2. QED
          BY <1>3, <1>6, <3>2, <4>1, <5>1
      <4>3. e.block.offset + e.block.data_len <= my_sent_bytes
            /\ e.block.offset + e.block.data_len \in Nat
        BY TransferAssumption DEF TransferInv, ReceivedTravels, Travels, Blocks
      <4>4. QED
        BY <1>6, <4>2, <4>3
    <3>3. QED
      BY <3>1, <3>2
  <2>2. QED
    BY <1>3, <1>5, <2>1 DEF TransferInv, ReadWasSent, ReceivedTravels, Travels
<1>9. AcksAreTrue'
  BY <1>3, <1>4, <1>5 DEF TransferInv, AcksAreTrue
<1>10. NoByteLost'
  BY <1>3, <1>5, <1>6, NoByteLostKept DEF TransferInv
<1>11. QED
  BY <1>2, <1>3, <1>5, <1>7, <1>8, <1>9, <1>10 DEF TransferInv

(* An acknowledgment covers bytes the receiver has, which were sent.       *)
LEMMA SendAckTransferInv ==
  ASSUME TransferInv, NEW more \in SUBSET R!Unacknowledged, NEW arrives \in BOOLEAN,
         SendAck(more, arrives)
  PROVE  TransferInv'
<1>1. PICK c \in their_contiguous_sent_bytes .. StreamLength :
        /\ R!SendAck(c, more)
        /\ acks' \subseteq acks \cup R!RangesOf(c, more)
        /\ UNCHANGED <<sender, net, their_eof>>
  BY DEF SendAck
<1>2. /\ RP!SendAck(c, more) /\ more \in SUBSET RP!Unacknowledged
      /\ RP!RecvInv /\ ~ closed
  BY <1>1, SendAckIsStep DEF R!Unacknowledged, RP!Unacknowledged, TransferInv
<1>3. RP!RecvInv'
  BY <1>2, ReceiveAssumed, RP!SendAckRecvInv
<1>4. /\ \A p \in Nat : RP!Stored(p) => p < recvmarkq_distributed \/ RP!Stored(p)'
      /\ \A f \in recvmarkq' : \E e \in recvmarkq : e.block = f.block
      /\ \A p \in 0 .. c - 1 : p < recvmarkq_distributed \/ RP!Stored(p)
      /\ c \in 0 .. StreamLength
      /\ more \subseteq recvmarkq
      /\ UNCHANGED <<RP!progress, reader_eof, delivered, closed, eof_delivered>>
  BY <1>2, ReceiveAssumed, RP!SendAckKeeps
<1>5. UNCHANGED recvmarkq_distributed
  BY <1>4 DEF RP!progress
<1>6. /\ SP!SendInv' /\ StreamEnds' /\ HeadCarriesSomething'
      /\ SentTravels' /\ NetTravels'
      /\ \A x : Travels(x) => Travels(x)'
      /\ UNCHANGED <<sendmarkq, my_sent_bytes, pending_eof>>
  BY <1>1, ReceiverKeeps
<1>7. /\ StreamLength \in Nat /\ my_sent_bytes \in 0 .. StreamLength
      /\ recvmarkq_distributed \in Nat /\ recvmarkq_distributed <= my_sent_bytes
  BY Types DEF HalfTypes, TransferInv, ReadWasSent
<1>8. \A e \in recvmarkq : /\ e.block.offset \in Nat
                           /\ e.block.offset <= R!End(e.block)
                           /\ R!End(e.block) \in Nat
                           /\ R!End(e.block) <= my_sent_bytes
  BY TransferAssumption DEF TransferInv, ReceivedTravels, Travels, Blocks, R!End
<1>9. c <= my_sent_bytes
  <2>1. SUFFICES ASSUME c > 0, RP!Stored(c - 1) PROVE c <= my_sent_bytes
    BY <1>4, <1>7
  <2>2. PICK e \in recvmarkq : c - 1 < R!End(e.block)
    BY <2>1 DEF RP!Stored, RP!Holds, RP!End, R!End
  <2>3. QED
    BY <1>4, <1>7, <1>8, <2>2
<1>10. AcksAreTrue'
  <2>1. SUFFICES ASSUME NEW r \in R!RangesOf(c, more)
                 PROVE  /\ r \in Nat \X Nat
                        /\ r[1] <= r[2] /\ r[2] <= my_sent_bytes
                        /\ \A p \in r[1] .. r[2] - 1 : p \in acked'
    BY <1>1, <1>6 DEF TransferInv, AcksAreTrue, R!SendAck
  <2>2. r \in Nat \X Nat /\ r[1] <= r[2] /\ r[2] <= my_sent_bytes
    BY <1>4, <1>8, <1>9, <2>1 DEF R!RangesOf
  <2>3. ASSUME NEW p \in r[1] .. r[2] - 1 PROVE p \in acked'
    BY <1>1, <1>7, <2>1, <2>2, <2>3 DEF R!SendAck, R!Bytes
  <2>4. QED
    BY <2>2, <2>3
<1>11. ReceivedTravels'
  BY <1>4, <1>6 DEF TransferInv, ReceivedTravels
<1>12. ReadWasSent'
  BY <1>4, <1>5, <1>6 DEF TransferInv, ReadWasSent
<1>13. NoByteLost'
  BY <1>4, <1>5, <1>6, <1>7, NoByteLostKept DEF TransferInv
<1>14. QED
  BY <1>2, <1>3, <1>4, <1>6, <1>10, <1>11, <1>12, <1>13 DEF TransferInv

-----------------------------------------------------------------------------
LEMMA NextTransferInv == TransferInv /\ [Next]_vars => TransferInv'
<1>1. SUFFICES ASSUME TransferInv, [Next]_vars PROVE TransferInv'
  OBVIOUS
<1>2. CASE Write
  BY <1>1, <1>2, WriteTransferInv
<1>3. CASE CloseStream
  BY <1>1, <1>3, CloseStreamTransferInv
<1>4. CASE CutHead
  BY <1>1, <1>4, CutHeadTransferInv
<1>5. ASSUME NEW arrives \in BOOLEAN, SendHead(arrives) PROVE TransferInv'
  BY <1>1, <1>5, SendHeadTransferInv
<1>6. ASSUME NEW arrives \in BOOLEAN, Resend(arrives) PROVE TransferInv'
  BY <1>1, <1>6, ResendTransferInv
<1>7. ASSUME NEW range \in acks, RecvAck(range) PROVE TransferInv'
  BY <1>1, <1>7, RecvAckTransferInv
<1>8. ASSUME NEW b \in net, RecvBlock(b) PROVE TransferInv'
  BY <1>1, <1>8, RecvBlockTransferInv
<1>9. ASSUME NEW b \in net, Forget(b) PROVE TransferInv'
  BY <1>1, <1>9, ForgetTransferInv
<1>10. CASE Read
  BY <1>1, <1>10, ReadTransferInv
<1>11. ASSUME NEW more \in SUBSET R!Unacknowledged, NEW arrives \in BOOLEAN,
              SendAck(more, arrives)
       PROVE  TransferInv'
  BY <1>1, <1>11, SendAckTransferInv
<1>12. CASE UNCHANGED vars
  <2>1. UNCHANGED <<sender, receiver, network>>
    BY <1>12 DEF vars
  <2>2. SP!SendInv' /\ RP!RecvInv'
    BY <1>1, <2>1, SenderIdle, ReceiverIdle DEF TransferInv
  <2>3. QED
    BY <1>1, <2>1, <2>2
    DEF TransferInv, StreamEnds, HeadCarriesSomething, SentTravels, NetTravels,
        ReceivedTravels, ReadWasSent, AcksAreTrue, NoByteLost, Travels, Wire,
        Blocks, R!Stored, R!Holds, R!End, sender, receiver, network
<1>13. QED
  BY <1>1, <1>2, <1>3, <1>4, <1>5, <1>6, <1>7, <1>8, <1>9, <1>10, <1>11, <1>12
  DEF Next

(* The inductive invariant of a connection holds in every behaviour.       *)
THEOREM TransferInvariant == Spec => []TransferInv
<1>1. QED
  BY InitTransferInv, NextTransferInv, PTL DEF Spec

(* Every byte sent is distributed, stored for the reader, or kept to be    *)
(* sent again, whatever the network does.                                  *)
THEOREM NothingLost == Spec => []NoByteLost
<1>1. TransferInv => NoByteLost
  BY DEF TransferInv
<1>2. QED
  BY <1>1, TransferInvariant, PTL

-----------------------------------------------------------------------------
(* The steps of a connection, as the applications see them.                *)
LEMMA InitRefines == Init => Abstract!Init
  BY DEF Init, S!Init, R!Init, Abstract!Init

LEMMA ReadRefines == ASSUME TransferInv, Read PROVE Abstract!Deliver
<1>1. PICK size \in ReadSizes : RP!TryRead(size)
  BY ReadIsStep DEF TransferInv
<1>2. /\ reader_eof' => reader_eof \/ \E e \in recvmarkq : e.block.eof
      /\ eof_delivered' = (eof_delivered \/ reader_eof')
      /\ delivered <= delivered'
  BY <1>1, ReceiveAssumed, RP!TryReadKeeps DEF TransferInv
<1>3. UNCHANGED <<written, pending_eof, my_sent_bytes>>
  BY DEF Read, sender
<1>4. TransferInv'
  BY ReadTransferInv
<1>5. /\ delivered \in Nat /\ delivered' \in Nat /\ written \in Nat
      /\ written' = written
      /\ delivered' <= written
      /\ eof_delivered \in BOOLEAN /\ eof_delivered' \in BOOLEAN
  <2>1. /\ delivered' \in 0 .. recvmarkq_distributed'
        /\ recvmarkq_distributed' \in Nat /\ my_sent_bytes' \in Nat
        /\ my_sent_bytes' <= written' /\ recvmarkq_distributed' <= my_sent_bytes'
        /\ eof_delivered' \in BOOLEAN
    <3>1. SP!SendInv' /\ RP!RecvInv' /\ ReadWasSent'
      BY <1>4 DEF TransferInv
    <3>2. QED
      BY <3>1, TypesNext DEF HalfTypes, ReadWasSent
  <2>2. QED
    BY <1>3, <2>1, Types DEF HalfTypes, TransferInv
<1>6. eof_delivered' => pending_eof /\ delivered' = written
  BY <1>3, <1>4
  DEF TransferInv, ReadWasSent, StreamEnds, RP!RecvInv, RP!EofAfterData
<1>7. eof_delivered' = eof_delivered \/ eof_delivered' = TRUE
  BY <1>2, <1>5
<1>8. QED
  BY <1>2, <1>3, <1>5, <1>6, <1>7 DEF Abstract!Deliver

(* A write that is taken adds bytes, one that waits or fails none.         *)
LEMMA WriteRefines ==
  ASSUME TransferInv, Write PROVE Abstract!Write \/ UNCHANGED Abstract!vars
<1>1. UNCHANGED <<pending_eof, delivered, eof_delivered>>
  BY DEF Write, S!Write, S!RetryWrite, receiver
<1>2. \/ written' = written
      \/ \E n \in WriteSizes : ~ pending_eof /\ written' = written + n
  <2>1. ASSUME NEW n, S!TryWrite(n)
        PROVE  written' = written \/ (~ pending_eof /\ written' = written + n)
    BY <2>1 DEF S!TryWrite, S!Store
  <2>2. CASE \E n \in WriteSizes : S!Write(n)
    BY <2>1, <2>2 DEF S!Write
  <2>3. CASE S!RetryWrite
    <3>1. writer.size \in WriteSizes
      BY <2>3
      DEF S!RetryWrite, TransferInv, SP!SendInv, SP!TypeOK, SP!Writer, SP!Idle
    <3>2. QED
      BY <2>1, <2>3, <3>1 DEF S!RetryWrite
  <2>4. QED
    BY <2>2, <2>3 DEF Write
<1>3. written \in Nat /\ WriteSizes \subseteq Nat \ {0}
  BY Types, TransferAssumption DEF HalfTypes, TransferInv
<1>4. QED
  BY <1>1, <1>2, <1>3 DEF Abstract!Write, Abstract!vars

LEMMA NextRefines ==
  ASSUME TransferInv, [Next]_vars PROVE [Abstract!Next]_(Abstract!vars)
<1>1. CASE Write
  BY <1>1, WriteRefines DEF Abstract!Next
<1>2. CASE CloseStream
  BY <1>2 DEF CloseStream, S!SetEof, receiver, Abstract!Next, Abstract!End
<1>3. CASE Read
  BY <1>3, ReadRefines DEF Abstract!Next
<1>4. CASE \/ CutHead
           \/ \E arrives \in BOOLEAN : SendHead(arrives) \/ Resend(arrives)
           \/ \E range \in acks : RecvAck(range)
           \/ \E b \in net : Forget(b)
           \/ UNCHANGED vars
  BY <1>4
  DEF CutHead, S!SendqHead, SendHead, S!SendHead, Resend, S!Resend, Transmit,
      RecvAck, S!RemoveRanges, Forget, sender, receiver, vars, Abstract!vars
<1>5. CASE \E b \in net : RecvBlock(b)
  BY <1>5 DEF RecvBlock, R!Put, R!history, sender, Abstract!vars
<1>6. CASE \E more \in SUBSET R!Unacknowledged, arrives \in BOOLEAN :
             SendAck(more, arrives)
  BY <1>6 DEF SendAck, R!SendAck, sender, Abstract!vars
<1>7. QED
  BY <1>1, <1>2, <1>3, <1>4, <1>5, <1>6 DEF Next

(* Two halves and a network are a stream of bytes: the reader gets what    *)
(* was written, in order, and its end after the last byte.                 *)
THEOREM Refinement == Spec => StreamSpec
<1>1. Init => Abstract!Init
  BY InitRefines
<1>2. TransferInv /\ [Next]_vars => [Abstract!Next]_(Abstract!vars)
  BY NextRefines
<1>3. QED
  BY <1>1, <1>2, TransferInvariant, PTL DEF Spec, StreamSpec, Abstract!Spec
=============================================================================
