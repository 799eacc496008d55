------------------------ MODULE SessionReceiveProofs ------------------------
(***************************************************************************)
(* Theorems about SessionReceive, for every way the peer cuts its stream   *)
(* into blocks, overlapping ones included, every capacity of recvmarkq_    *)
(* and every size of the buffers that are read into; and about ReadLoop,   *)
(* which implements it.                                                    *)
(***************************************************************************)
EXTENDS ReadLoop, FiniteSetTheorems, TLAPS

-----------------------------------------------------------------------------
(* The inductive invariant.                                                *)

(* A node is marked distributed only when the application has its bytes.   *)
DistributedIsRead ==
  ~ closed => \A e \in recvmarkq :
                e.distributed => End(e.block) <= recvmarkq_distributed

(* The flag that stops reads stands for the end of the stream.             *)
EofIsRead == ~ closed /\ pending_eof => recvmarkq_distributed = StreamLength

RecvInv ==
  /\ TypeOK
  /\ IsFiniteSet(recvmarkq)
  /\ DistributedIsRead
  /\ EofIsRead
  /\ AckedIsKept
  /\ ContiguousIsReceived
  /\ EofAfterData
  /\ NoLostReaderWakeup

-----------------------------------------------------------------------------
LEMMA ConstantTypes ==
  /\ StreamLength \in Nat
  /\ RecvmarkqMaximum \in Nat \ {0}
  /\ ReadSizes \subseteq Nat \ {0}
  BY ReceiveAssumption

(* The bytes of a block lie in the stream.                                 *)
LEMMA BlockInStream ==
  ASSUME NEW b \in Blocks
  PROVE  /\ b.offset \in 0 .. StreamLength
         /\ End(b) \in 0 .. StreamLength
         /\ b.offset <= End(b)
         /\ b.eof => End(b) = StreamLength
<1>1. /\ b \in [offset : 0 .. StreamLength, data_len : 0 .. StreamLength,
                eof : BOOLEAN]
      /\ End(b) <= StreamLength
      /\ b.eof => End(b) = StreamLength
      /\ StreamLength \in Nat
  BY ReceiveAssumption
<1>2. b.offset \in 0 .. StreamLength /\ b.data_len \in 0 .. StreamLength
  BY <1>1
<1>3. QED
  BY <1>1, <1>2 DEF End

(* Replacing elements of a finite set, and deleting some, does not make it *)
(* larger.                                                                 *)
LEMMA ReplacingFits ==
  ASSUME NEW S, IsFiniteSet(S), NEW f, NEW T, \A t \in T : \E e \in S : f[e] = t
  PROVE  /\ IsFiniteSet(T)
         /\ Cardinality(T) <= Cardinality(S)
         /\ Cardinality(S) \in Nat
         /\ Cardinality(T) \in Nat
<1> DEFINE K == {e \in S : f[e] \in T}
<1> DEFINE F == [e \in K |-> f[e]]
<1>1. IsFiniteSet(K) /\ Cardinality(K) <= Cardinality(S)
  BY FS_Subset
<1>2. F \in Surjection(K, T)
  BY DEF Surjection
<1>3. IsFiniteSet(T) /\ Cardinality(T) <= Cardinality(K)
  BY <1>1, <1>2, FS_Surjection
<1>4. /\ Cardinality(K) \in Nat
      /\ Cardinality(S) \in Nat
      /\ Cardinality(T) \in Nat
  BY <1>1, <1>3, FS_CardinalityType
<1>5. QED
  BY <1>1, <1>3, <1>4

(* There is a number for one more copy of a block.                         *)
LEMMA FreeCopyIsFree ==
  ASSUME TypeOK, IsFiniteSet(recvmarkq), NEW b
  PROVE  /\ FreeCopy(b) \in 1 .. Cardinality(recvmarkq) + 1
         /\ \A e \in recvmarkq : e.block = b => e.copy # FreeCopy(b)
<1> DEFINE N == 1 .. Cardinality(recvmarkq) + 1
<1>1. Cardinality(recvmarkq) \in Nat
  BY FS_CardinalityType
<1>2. \E c \in N : \A e \in recvmarkq : e.block = b => e.copy # c
  <2>1. SUFFICES ASSUME \A c \in N : \E e \in recvmarkq : e.block = b /\ e.copy = c
                 PROVE FALSE
    OBVIOUS
  <2> DEFINE f == [e \in recvmarkq |-> IF e.copy \in N THEN e.copy ELSE 1]
  <2>2. f \in Surjection(recvmarkq, N)
    <3>1. f \in [recvmarkq -> N]
      BY <1>1
    <3>2. \A c \in N : \E e \in recvmarkq : f[e] = c
      BY <2>1
    <3>3. QED
      BY <3>1, <3>2 DEF Surjection
  <2>3. Cardinality(N) <= Cardinality(recvmarkq)
    BY <2>2, FS_Surjection
  <2>4. Cardinality(N) = Cardinality(recvmarkq) + 1
    BY <1>1, FS_Interval
  <2>5. QED
    BY <1>1, <2>3, <2>4
<1>3. QED
  BY <1>2 DEF FreeCopy

LEMMA InitRecvInv == Init => RecvInv
<1>1. SUFFICES ASSUME Init PROVE RecvInv
  OBVIOUS
<1>2. Idle \in Reader
  BY DEF Reader
<1>3. IsFiniteSet(recvmarkq) /\ Cardinality(recvmarkq) = 0
  BY <1>1, FS_EmptySet DEF Init
<1>4. TypeOK
  <2>1. Cardinality(recvmarkq) <= RecvmarkqMaximum
    BY <1>3, ConstantTypes
  <2>2. reader \in Reader
    BY <1>1, <1>2 DEF Init
  <2>3. pending_eof \in BOOLEAN /\ closed \in BOOLEAN /\ eof_delivered \in BOOLEAN
    BY <1>1 DEF Init
  <2>4. QED
    BY <1>1, <2>1, <2>2, <2>3, ConstantTypes DEF Init, TypeOK
<1>5. DistributedIsRead /\ EofIsRead /\ AckedIsKept /\ ContiguousIsReceived
  BY <1>1 DEF Init, DistributedIsRead, EofIsRead, AckedIsKept, ContiguousIsReceived
<1>6. EofAfterData /\ NoLostReaderWakeup
  BY <1>1 DEF Init, Idle, EofAfterData, NoLostReaderWakeup
<1>7. QED
  BY <1>3, <1>4, <1>5, <1>6 DEF RecvInv

-----------------------------------------------------------------------------
(* handle_recvmarkq_put() keeps the invariant: it only adds a node, and    *)
(* wakes the reader.                                                       *)
LEMMA PutRecvInv ==
  ASSUME RecvInv, NEW b \in Blocks, Put(b)
  PROVE  RecvInv'
<1> USE DEF RecvInv
<1>1. /\ recvmarkq' = recvmarkq \cup {NewEntry(b)}
      /\ reader' = WakeReader
      /\ UNCHANGED <<recvmarkq_distributed, recvmarkq_read_offset, pending_eof,
                     their_contiguous_sent_bytes, delivered, acked, closed,
                     eof_delivered>>
  BY DEF Put, progress, history
<1>2. /\ NewEntry(b).block = b
      /\ NewEntry(b).distributed = pending_eof
  BY DEF NewEntry
<1>3. Cardinality(recvmarkq) < RecvmarkqMaximum /\ Cardinality(recvmarkq) \in Nat
  BY FS_CardinalityType, ConstantTypes DEF Put, RecvmarkqIsFull, TypeOK
<1>4. IsFiniteSet(recvmarkq') /\ Cardinality(recvmarkq') <= RecvmarkqMaximum
  <2> DEFINE R == recvmarkq \cup {NewEntry(b)}
  <2>1. /\ IsFiniteSet(R)
        /\ Cardinality(R) = IF NewEntry(b) \in recvmarkq
                            THEN Cardinality(recvmarkq) ELSE Cardinality(recvmarkq) + 1
    BY FS_AddElement
  <2>2. Cardinality(R) <= RecvmarkqMaximum
    BY <1>3, <2>1, ConstantTypes
  <2>3. QED
    BY <1>1, <2>1, <2>2
<1>5. NewEntry(b) \in Entry
  <2>1. FreeCopy(b) \in 1 .. RecvmarkqMaximum
    BY <1>3, FreeCopyIsFree, ConstantTypes
  <2>2. QED
    BY <2>1 DEF NewEntry, Entry, TypeOK
<1>6. reader' \in Reader
  BY <1>1 DEF WakeReader, Reader, Idle, TypeOK
<1>7. TypeOK'
  BY <1>1, <1>4, <1>5, <1>6 DEF TypeOK
<1>8. \A p : Stored(p) => Stored(p)'
  BY <1>1 DEF Stored
<1>9. AckedIsKept' /\ ContiguousIsReceived' /\ EofIsRead' /\ EofAfterData'
  BY <1>1, <1>8
  DEF AckedIsKept, ContiguousIsReceived, EofIsRead, EofAfterData
<1>10. DistributedIsRead'
  <2>1. SUFFICES ASSUME ~ closed, pending_eof
                 PROVE  End(b) <= recvmarkq_distributed
    BY <1>1, <1>2 DEF DistributedIsRead
  <2>2. QED
    BY <2>1, BlockInStream, ConstantTypes DEF EofIsRead
<1>11. NoLostReaderWakeup'
  BY <1>1, <1>6 DEF WakeReader, Reader, NoLostReaderWakeup
<1>12. QED
  BY <1>4, <1>7, <1>9, <1>10, <1>11

-----------------------------------------------------------------------------
(* Both read() and an acknowledgment delete nodes and change the status of *)
(* others.  Such a step keeps the bytes of every node it does not delete.  *)
Restatus(del) ==
  /\ \A e \in recvmarkq \ del : \E f \in recvmarkq' : f.block = e.block
  /\ \A f \in recvmarkq' : \E e \in recvmarkq : e.block = f.block

LEMMA BytesKept ==
  ASSUME NEW del, Restatus(del)
  PROVE  /\ \A p : Stored(p) => Stored(p)' \/ \E e \in del : Holds(e, p)
         /\ \A p : Stored(p)' => Stored(p)
  BY DEF Restatus, Stored, Holds

(* read() keeps the invariant.  The nodes it passes end within the bytes   *)
(* it has distributed, so deleting or marking them loses nothing.          *)
LEMMA TryReadRecvInv ==
  ASSUME RecvInv, NEW size \in ReadSizes, TryRead(size)
  PROVE  RecvInv'
<1> USE DEF RecvInv
<1>1. PICK d \in recvmarkq_distributed .. StreamLength, c \in 0 .. StreamLength :
        LET passed == Passed(d)
            filled == recvmarkq_read_offset + d - recvmarkq_distributed
            eof    == pending_eof \/ EofPassed(passed)
            done   == filled = size \/ eof
        IN  /\ ReadsTo(d, size)
            /\ ContiguousTo(c, passed)
            /\ recvmarkq' = Distribute(passed)
            /\ recvmarkq_distributed' = d
            /\ recvmarkq_read_offset' = IF done THEN 0 ELSE filled
            /\ pending_eof' = eof
            /\ their_contiguous_sent_bytes' = c
            /\ reader' = IF done THEN Idle ELSE [state |-> "waiting", size |-> size]
            /\ delivered' = IF done THEN delivered + filled ELSE delivered
            /\ eof_delivered' = (eof_delivered \/ eof)
            /\ UNCHANGED <<acked, closed>>
  BY DEF TryRead
<1> DEFINE passed == Passed(d)
           filled == recvmarkq_read_offset + d - recvmarkq_distributed
           eof    == pending_eof \/ EofPassed(passed)
           done   == filled = size \/ eof
<1>2. /\ StreamLength \in Nat
      /\ recvmarkq_distributed \in 0 .. StreamLength
      /\ recvmarkq_read_offset \in 0 .. StreamLength
      /\ delivered \in 0 .. StreamLength
      /\ delivered + recvmarkq_read_offset = recvmarkq_distributed
      /\ their_contiguous_sent_bytes \in 0 .. StreamLength
      /\ d \in recvmarkq_distributed .. StreamLength
      /\ d \in Nat
      /\ size \in Nat
  BY ConstantTypes DEF TypeOK, EofAfterData
<1>3. \A e \in recvmarkq : /\ e.block \in Blocks
                           /\ e.block.offset \in Nat
                           /\ End(e.block) \in Nat
                           /\ e.block.offset <= End(e.block)
                           /\ End(e.block) <= StreamLength
                           /\ e.block.eof => End(e.block) = StreamLength
  BY <1>2, BlockInStream DEF TypeOK, Entry
<1>4. passed \subseteq recvmarkq /\ \A e \in passed : End(e.block) <= d
  BY DEF Passed
<1> HIDE DEF passed
<1>5. /\ IsFiniteSet(recvmarkq')
      /\ Cardinality(recvmarkq') <= RecvmarkqMaximum
      /\ recvmarkq' \subseteq Entry
  <2> DEFINE f == [e \in recvmarkq |->
                    IF e \in passed THEN [e EXCEPT !.distributed = TRUE] ELSE e]
  <2>1. \A t \in recvmarkq' : \E e \in recvmarkq : f[e] = t
    BY <1>1, <1>4 DEF passed, Distribute
  <2>2. \A e \in recvmarkq : f[e] \in Entry
    BY DEF TypeOK, Entry
  <2>3. recvmarkq' \subseteq Entry
    BY <2>1, <2>2
  <2> HIDE DEF f
  <2>4. QED
    BY <2>1, <2>3, ReplacingFits, ConstantTypes DEF TypeOK
<1>6. Restatus(passed) /\ \A f \in recvmarkq' : \/ f \in recvmarkq \ passed
                                                \/ End(f.block) <= d
  <2>1. recvmarkq' = {e \in recvmarkq : e \notin passed}
          \cup {[e EXCEPT !.distributed = TRUE] : e \in {f \in passed : ~ f.acknowledged}}
    BY <1>1 DEF passed, Distribute
  <2>2. \A e \in recvmarkq : [e EXCEPT !.distributed = TRUE].block = e.block
    BY DEF TypeOK, Entry
  <2>3. QED
    BY <1>4, <2>1, <2>2 DEF Restatus
<1>7. \A p \in Nat : p < recvmarkq_distributed \/ Stored(p) => p < d \/ Stored(p)'
  <2>1. SUFFICES ASSUME NEW p \in Nat, NEW e \in passed, Holds(e, p) PROVE p < d
    BY <1>2, <1>6, BytesKept
  <2>2. QED
    BY <1>2, <1>3, <1>4, <2>1 DEF Holds
<1>8. filled \in Nat /\ delivered + filled = d
  BY <1>2
<1>9. eof /\ ~ closed => d = StreamLength
  <2>1. CASE pending_eof
    BY <1>2, <2>1 DEF EofIsRead
  <2>2. CASE EofPassed(passed)
    BY <1>2, <1>3, <1>4, <2>2 DEF EofPassed
  <2>3. QED
    BY <2>1, <2>2
<1>10. /\ recvmarkq_distributed' = d
       /\ recvmarkq_read_offset' = IF done THEN 0 ELSE filled
       /\ pending_eof' = eof
       /\ their_contiguous_sent_bytes' = c
       /\ reader' = IF done THEN Idle ELSE [state |-> "waiting", size |-> size]
       /\ delivered' = IF done THEN delivered + filled ELSE delivered
       /\ eof_delivered' = (eof_delivered \/ eof)
       /\ acked' = acked /\ closed' = closed
  BY <1>1 DEF passed
<1>11. TypeOK'
  <2>1. reader' \in Reader
    BY <1>10 DEF Reader
  <2>2. eof \in BOOLEAN
    BY DEF TypeOK, EofPassed
  <2>3. recvmarkq_read_offset' \in 0 .. StreamLength /\ delivered' \in 0 .. StreamLength
    BY <1>2, <1>8, <1>10
  <2>4. QED
    BY <1>2, <1>5, <1>10, <2>1, <2>2, <2>3 DEF TypeOK
<1>12. DistributedIsRead'
  BY <1>2, <1>3, <1>6, <1>10 DEF DistributedIsRead
<1>13. EofIsRead'
  BY <1>9, <1>10 DEF EofIsRead
<1>14. AckedIsKept'
  <2>1. acked \subseteq Nat
    BY <1>2 DEF TypeOK, Bytes
  <2>2. QED
    BY <1>7, <1>10, <2>1 DEF AckedIsKept
<1>15. ContiguousIsReceived'
  <2>1. SUFFICES ASSUME ~ closed, NEW p \in 0 .. c - 1
                 PROVE  p < recvmarkq_distributed \/ Stored(p) \/ p < d
    BY <1>1, <1>7, <1>10 DEF ContiguousIsReceived
  <2>2. \/ c = their_contiguous_sent_bytes
        \/ c = recvmarkq_distributed
        \/ \E e \in passed : c = End(e.block)
    BY <1>1 DEF passed, ContiguousTo
  <2>3. QED
    BY <1>2, <1>3, <1>4, <2>1, <2>2 DEF ContiguousIsReceived
<1>16. EofAfterData'
  <2>1. delivered' + recvmarkq_read_offset' = recvmarkq_distributed'
    BY <1>2, <1>8, <1>10
  <2>2. SUFFICES ASSUME eof_delivered \/ eof, ~ closed
                 PROVE  delivered' = StreamLength
    BY <1>10, <2>1 DEF EofAfterData
  <2>3. CASE eof
    BY <1>8, <1>9, <1>10, <2>2, <2>3
  <2>4. CASE eof_delivered
    BY <1>2, <1>8, <1>10, <2>2, <2>4 DEF EofAfterData
  <2>5. QED
    BY <2>2, <2>3, <2>4
<1>17. NoLostReaderWakeup'
  <2>1. SUFFICES ASSUME ~ done
                 PROVE  /\ ~ Stored(d)'
                        /\ \A f \in recvmarkq' : f.block.eof => End(f.block) > d
    BY <1>10 DEF Idle, NoLostReaderWakeup
  <2>2. ~ Stored(d)
    <3>1. d < recvmarkq_distributed + size - recvmarkq_read_offset
      BY <1>1, <1>2, <2>1 DEF ReadsTo
    <3>2. QED
      BY <1>1, <3>1 DEF ReadsTo
  <2>3. ASSUME NEW e \in recvmarkq, e.block.eof PROVE End(e.block) > d
    <3>1. e \notin passed
      BY <2>1, <2>3 DEF EofPassed
    <3>2. SUFFICES ASSUME End(e.block) <= d PROVE FALSE
      BY <1>2, <1>3
    <3>3. PICK f \in recvmarkq : f.block.offset < e.block.offset /\ ~ (End(f.block) <= d)
      BY <3>1, <3>2 DEF passed, Passed
    <3>4. Holds(f, d)
      BY <1>2, <1>3, <3>2, <3>3 DEF Holds
    <3>5. QED
      BY <2>2, <3>4 DEF Stored
  <2>4. QED
    BY <1>6, <2>2, <2>3, BytesKept DEF Restatus
<1>18. QED
  BY <1>5, <1>11, <1>12, <1>13, <1>14, <1>15, <1>16, <1>17

(* What read() does to the stream: it distributes bytes that are stored,   *)
(* keeps those behind them, and sees an EOF only in a stored block.        *)
LEMMA TryReadKeeps ==
  ASSUME RecvInv, NEW size \in ReadSizes, TryRead(size)
  PROVE  /\ recvmarkq_distributed <= recvmarkq_distributed'
         /\ \A p \in recvmarkq_distributed .. recvmarkq_distributed' - 1 : Stored(p)
         /\ \A p \in Nat : Stored(p) => p < recvmarkq_distributed' \/ Stored(p)'
         /\ \A f \in recvmarkq' : \E e \in recvmarkq : e.block = f.block
         /\ pending_eof' => pending_eof \/ \E e \in recvmarkq : e.block.eof
         /\ eof_delivered' = (eof_delivered \/ pending_eof')
         /\ delivered <= delivered'
         /\ UNCHANGED <<acked, closed>>
<1> USE DEF RecvInv
<1>1. PICK d \in recvmarkq_distributed .. StreamLength :
        LET passed == Passed(d)
            filled == recvmarkq_read_offset + d - recvmarkq_distributed
            eof    == pending_eof \/ EofPassed(passed)
            done   == filled = size \/ eof
        IN  /\ ReadsTo(d, size)
            /\ recvmarkq' = Distribute(passed)
            /\ recvmarkq_distributed' = d
            /\ pending_eof' = eof
            /\ delivered' = IF done THEN delivered + filled ELSE delivered
            /\ eof_delivered' = (eof_delivered \/ eof)
            /\ UNCHANGED <<acked, closed>>
  BY DEF TryRead
<1>2. /\ recvmarkq_distributed \in Nat /\ d \in Nat
      /\ recvmarkq_distributed <= d
      /\ recvmarkq_read_offset \in Nat /\ delivered \in Nat
  BY ConstantTypes DEF TypeOK
<1>3. \A e \in recvmarkq : /\ e.block.offset \in Nat
                           /\ End(e.block) \in Nat
                           /\ [e EXCEPT !.distributed = TRUE].block = e.block
  BY ConstantTypes, BlockInStream DEF TypeOK, Entry
<1>4. Passed(d) \subseteq recvmarkq /\ \A e \in Passed(d) : End(e.block) <= d
  BY DEF Passed
<1>5. Restatus(Passed(d))
  BY <1>1, <1>3, <1>4 DEF Restatus, Distribute
<1>6. ASSUME NEW p \in Nat, Stored(p) PROVE p < d \/ Stored(p)'
  <2>1. SUFFICES ASSUME NEW e \in Passed(d), Holds(e, p) PROVE p < d
    BY <1>5, <1>6, BytesKept
  <2>2. QED
    BY <1>2, <1>3, <1>4, <2>1 DEF Holds
<1>7. delivered <= delivered'
  BY <1>1, <1>2
<1>8. pending_eof' => pending_eof \/ \E e \in recvmarkq : e.block.eof
  BY <1>1, <1>4 DEF EofPassed
<1>9. QED
  BY <1>1, <1>2, <1>5, <1>6, <1>7, <1>8 DEF ReadsTo, Restatus

-----------------------------------------------------------------------------
(* An acknowledgment keeps the invariant: it deletes only nodes that the   *)
(* application has, and counts only bytes of nodes.                        *)
LEMMA SendAckRecvInv ==
  ASSUME RecvInv, NEW c \in their_contiguous_sent_bytes .. StreamLength,
         NEW more \in SUBSET Unacknowledged, SendAck(c, more)
  PROVE  RecvInv'
<1> USE DEF RecvInv
<1> DEFINE ranges == RangesOf(c, more)
           hit == {e \in recvmarkq : \E r \in ranges : Within(e.block, r)}
           M == {f \in hit : ~ f.distributed}
           g == [e \in recvmarkq |-> [e EXCEPT !.acknowledged = TRUE]]
<1>1. /\ AckReaches(c)
      /\ their_contiguous_sent_bytes' = c
      /\ recvmarkq' = (recvmarkq \ hit) \cup {g[e] : e \in M}
      /\ acked' = acked \cup {p \in Bytes : \E r \in ranges : r[1] <= p /\ p < r[2]}
      /\ UNCHANGED <<recvmarkq_distributed, recvmarkq_read_offset, pending_eof,
                     reader, delivered, closed, eof_delivered>>
  BY DEF SendAck, AfterRemoveRanges, progress
<1>2. /\ StreamLength \in Nat
      /\ recvmarkq_distributed \in 0 .. StreamLength
      /\ their_contiguous_sent_bytes \in 0 .. StreamLength
      /\ c \in their_contiguous_sent_bytes .. StreamLength
      /\ acked \subseteq Bytes
  BY ConstantTypes DEF TypeOK
<1>3. \A e \in recvmarkq : /\ e.block.offset \in Nat
                           /\ End(e.block) \in Nat
  BY <1>2, BlockInStream DEF TypeOK, Entry
<1>4. hit \in SUBSET recvmarkq /\ M \in SUBSET hit
  OBVIOUS
<1>5. \A e \in recvmarkq : g[e].block = e.block /\ g[e].distributed = e.distributed
                           /\ g[e] \in Entry
  BY DEF TypeOK, Entry
<1>6. \A e \in hit \ M : e.distributed
  BY <1>4
<1> HIDE DEF hit, M, g
<1>7. /\ IsFiniteSet(recvmarkq')
      /\ Cardinality(recvmarkq') <= RecvmarkqMaximum
      /\ recvmarkq' \subseteq Entry
  <2> DEFINE f == [e \in recvmarkq |-> IF e \in M THEN g[e] ELSE e]
  <2>1. \A t \in recvmarkq' : \E e \in recvmarkq : f[e] = t
    BY <1>1, <1>4
  <2>2. \A e \in recvmarkq : f[e] \in Entry
    BY <1>5 DEF TypeOK
  <2>3. recvmarkq' \subseteq Entry
    BY <2>1, <2>2
  <2> HIDE DEF f
  <2>4. QED
    BY <2>1, <2>3, ReplacingFits, ConstantTypes DEF TypeOK
<1>8. Restatus(hit \ M)
  BY <1>1, <1>4, <1>5 DEF Restatus
<1>9. ~ closed => \A p \in Nat : p < recvmarkq_distributed \/ Stored(p) =>
                                 p < recvmarkq_distributed \/ Stored(p)'
  <2>1. SUFFICES ASSUME ~ closed, NEW p \in Nat, NEW e \in hit \ M, Holds(e, p)
                 PROVE  p < recvmarkq_distributed
    BY <1>8, BytesKept
  <2>2. End(e.block) <= recvmarkq_distributed
    BY <1>4, <1>6, <2>1 DEF DistributedIsRead
  <2>3. QED
    BY <1>2, <1>3, <1>4, <2>1, <2>2 DEF Holds
<1>10. \A e \in Unacknowledged : e \in recvmarkq
  BY DEF Unacknowledged
<1>11. \A p \in 0 .. c - 1 : \/ p < their_contiguous_sent_bytes
                             \/ Stored(p)
  BY <1>1, <1>2, <1>10 DEF AckReaches, Stored
<1>12. TypeOK'
  BY <1>1, <1>2, <1>7 DEF TypeOK
<1>13. DistributedIsRead'
  BY <1>1, <1>4, <1>5 DEF DistributedIsRead
<1>14. EofIsRead' /\ EofAfterData'
  BY <1>1 DEF EofIsRead, EofAfterData
<1>15. ContiguousIsReceived'
  <2>1. SUFFICES ASSUME ~ closed, NEW p \in 0 .. c - 1
                 PROVE  p < recvmarkq_distributed \/ Stored(p)
    BY <1>1, <1>2, <1>9 DEF ContiguousIsReceived
  <2>2. QED
    BY <1>2, <1>11, <2>1 DEF ContiguousIsReceived
<1>16. AckedIsKept'
  <2>1. SUFFICES ASSUME ~ closed, NEW p \in acked'
                 PROVE  p < recvmarkq_distributed \/ Stored(p)
    BY <1>1, <1>2, <1>9 DEF AckedIsKept, Bytes
  <2>2. CASE p \in acked
    BY <2>1, <2>2 DEF AckedIsKept
  <2>3. CASE p \in Bytes /\ p < c
    BY <1>2, <1>11, <2>1, <2>3 DEF Bytes, ContiguousIsReceived
  <2>4. ASSUME NEW e \in more, e.block.offset <= p /\ p < End(e.block)
        PROVE  Stored(p)
    BY <1>10, <2>4 DEF Stored, Holds
  <2>5. QED
    BY <1>1, <2>1, <2>2, <2>3, <2>4 DEF RangesOf
<1>17. NoLostReaderWakeup'
  BY <1>1, <1>8, BytesKept DEF Restatus, NoLostReaderWakeup
<1>18. QED
  BY <1>7, <1>12, <1>13, <1>14, <1>15, <1>16, <1>17

(* What an acknowledgment does to the stream: until close(), it keeps what *)
(* the application has not got, and counts only bytes that were received.  *)
LEMMA SendAckKeeps ==
  ASSUME RecvInv, ~ closed, NEW c \in their_contiguous_sent_bytes .. StreamLength,
         NEW more \in SUBSET Unacknowledged, SendAck(c, more)
  PROVE  /\ \A p \in Nat : Stored(p) => p < recvmarkq_distributed \/ Stored(p)'
         /\ \A f \in recvmarkq' : \E e \in recvmarkq : e.block = f.block
         /\ \A p \in 0 .. c - 1 : p < recvmarkq_distributed \/ Stored(p)
         /\ c \in 0 .. StreamLength
         /\ more \subseteq recvmarkq
         /\ UNCHANGED <<progress, pending_eof, delivered, closed, eof_delivered>>
<1> USE DEF RecvInv
<1> DEFINE ranges == RangesOf(c, more)
           hit == {e \in recvmarkq : \E r \in ranges : Within(e.block, r)}
           del == {e \in hit : e.distributed}
<1>1. /\ AckReaches(c)
      /\ recvmarkq' = (recvmarkq \ hit) \cup
           {[e EXCEPT !.acknowledged = TRUE] : e \in {f \in hit : ~ f.distributed}}
      /\ UNCHANGED <<progress, pending_eof, delivered, closed, eof_delivered>>
  BY DEF SendAck, AfterRemoveRanges
<1>2. /\ recvmarkq_distributed \in Nat
      /\ their_contiguous_sent_bytes \in Nat
      /\ c \in 0 .. StreamLength
  BY ConstantTypes DEF TypeOK
<1>3. \A e \in recvmarkq : /\ e.block.offset \in Nat
                           /\ End(e.block) \in Nat
                           /\ [e EXCEPT !.acknowledged = TRUE].block = e.block
  BY ConstantTypes, BlockInStream DEF TypeOK, Entry
<1>4. del \subseteq recvmarkq /\ hit \subseteq recvmarkq
      /\ \A e \in del : End(e.block) <= recvmarkq_distributed
  BY DEF DistributedIsRead
<1>5. Restatus(del)
  <2> HIDE DEF ranges
  <2>1. QED
    BY <1>1, <1>3, <1>4 DEF Restatus
<1> HIDE DEF del, hit, ranges
<1>6. ASSUME NEW p \in Nat, Stored(p)
      PROVE  p < recvmarkq_distributed \/ Stored(p)'
  <2>1. SUFFICES ASSUME NEW e \in del, Holds(e, p) PROVE p < recvmarkq_distributed
    BY <1>5, <1>6, BytesKept
  <2>2. QED
    BY <1>2, <1>3, <1>4, <2>1 DEF Holds
<1>7. \A e \in Unacknowledged : e \in recvmarkq
  BY DEF Unacknowledged
<1>8. ASSUME NEW p \in 0 .. c - 1 PROVE p < recvmarkq_distributed \/ Stored(p)
  <2>1. CASE p < their_contiguous_sent_bytes
    BY <1>2, <2>1 DEF ContiguousIsReceived
  <2>2. CASE p \in their_contiguous_sent_bytes .. c - 1
    BY <1>1, <1>7, <2>2 DEF AckReaches, Stored
  <2>3. QED
    BY <1>2, <2>1, <2>2
<1>9. QED
  BY <1>1, <1>2, <1>5, <1>6, <1>7, <1>8 DEF Restatus

(* close() keeps the invariant, which promises nothing after it but types, *)
(* the count of bytes and that nobody waits.                               *)
LEMMA CloseRecvInv ==
  ASSUME RecvInv, Close
  PROVE  RecvInv'
<1> USE DEF RecvInv
<1>1. closed' = TRUE /\ pending_eof' = TRUE
  BY DEF Close
<1>2. UNCHANGED <<recvmarkq, recvmarkq_distributed, recvmarkq_read_offset,
                  their_contiguous_sent_bytes, reader, delivered, acked,
                  eof_delivered>>
  BY DEF Close, progress
<1>3. TypeOK' /\ IsFiniteSet(recvmarkq')
  BY <1>1, <1>2 DEF TypeOK
<1>4. DistributedIsRead' /\ EofIsRead' /\ AckedIsKept' /\ ContiguousIsReceived'
  BY <1>1 DEF DistributedIsRead, EofIsRead, AckedIsKept, ContiguousIsReceived
<1>5. EofAfterData' /\ NoLostReaderWakeup'
  BY <1>1, <1>2 DEF EofAfterData, NoLostReaderWakeup
<1>6. QED
  BY <1>3, <1>4, <1>5

LEMMA NextRecvInv == RecvInv /\ [Next]_vars => RecvInv'
<1>1. SUFFICES ASSUME RecvInv, [Next]_vars PROVE RecvInv'
  OBVIOUS
<1>2. ASSUME NEW b \in Blocks, Put(b) PROVE RecvInv'
  BY <1>1, <1>2, PutRecvInv
<1>3. ASSUME NEW n \in ReadSizes, Read(n) PROVE RecvInv'
  BY <1>1, <1>3, TryReadRecvInv DEF Read
<1>4. CASE RetryRead
  <2>1. reader.size \in ReadSizes
    BY <1>1, <1>4 DEF RecvInv, TypeOK, Reader, Idle, RetryRead
  <2>2. QED
    BY <1>1, <1>4, <2>1, TryReadRecvInv DEF RetryRead
<1>5. CASE Close
  BY <1>1, <1>5, CloseRecvInv
<1>6. ASSUME NEW c \in their_contiguous_sent_bytes .. StreamLength,
             NEW more \in SUBSET Unacknowledged, SendAck(c, more)
      PROVE  RecvInv'
  BY <1>1, <1>6, SendAckRecvInv
<1>7. CASE UNCHANGED vars
  <2>1. UNCHANGED <<recvmarkq, recvmarkq_distributed, recvmarkq_read_offset,
                    pending_eof, their_contiguous_sent_bytes, reader, delivered,
                    acked, closed, eof_delivered>>
    BY <1>7 DEF vars, progress, history
  <2>2. /\ TypeOK' /\ IsFiniteSet(recvmarkq')
        /\ DistributedIsRead' /\ EofIsRead' /\ EofAfterData'
    BY <1>1, <2>1
    DEF RecvInv, TypeOK, DistributedIsRead, EofIsRead, EofAfterData
  <2>3. AckedIsKept' /\ ContiguousIsReceived' /\ NoLostReaderWakeup'
    BY <1>1, <2>1
    DEF RecvInv, AckedIsKept, ContiguousIsReceived, NoLostReaderWakeup, Stored
  <2>4. QED
    BY <2>2, <2>3 DEF RecvInv
<1>8. QED
  BY <1>1, <1>2, <1>3, <1>4, <1>5, <1>6, <1>7 DEF Next

(* The strengthened invariant holds in every reachable state.              *)
THEOREM ReceiveInvariant == Spec => []RecvInv
<1>1. QED
  BY InitRecvInv, NextRecvInv, PTL DEF Spec

-----------------------------------------------------------------------------
(* recvmarkq_ stays within its maximum: deleting and marking nodes never   *)
(* makes it larger, and a copy of a stored block has its own number.       *)
THEOREM ReceiveTypeCorrect == Spec => []TypeOK
<1>1. RecvInv => TypeOK
  BY DEF RecvInv
<1>2. QED
  BY <1>1, ReceiveInvariant, PTL

(* Until close(), a byte acknowledged to the peer has been distributed or  *)
(* is stored: what the peer forgets is not lost.                           *)
THEOREM AckedSafe == Spec => []AckedIsKept
<1>1. RecvInv => AckedIsKept
  BY DEF RecvInv
<1>2. QED
  BY <1>1, ReceiveInvariant, PTL

(* Until close(), the count that read() and the messager share covers only *)
(* bytes that were received.                                               *)
THEOREM ContiguousSafe == Spec => []ContiguousIsReceived
<1>1. RecvInv => ContiguousIsReceived
  BY DEF RecvInv
<1>2. QED
  BY <1>1, ReceiveInvariant, PTL

(* Reads get the stream's bytes once and in order, and EOF after the last. *)
THEOREM EofOnlyAtEnd == Spec => []EofAfterData
<1>1. RecvInv => EofAfterData
  BY DEF RecvInv
<1>2. QED
  BY <1>1, ReceiveInvariant, PTL

(* No read stays suspended while its next byte, or EOF, is stored.         *)
THEOREM ReaderWoken == Spec => []NoLostReaderWakeup
<1>1. RecvInv => NoLostReaderWakeup
  BY DEF RecvInv
<1>2. QED
  BY <1>1, ReceiveInvariant, PTL

-----------------------------------------------------------------------------
(* read()'s loop, which ReadLoop runs one iteration at a time.             *)

(* A read that is suspended has filled a part of its buffer.               *)
RoomLeft ==
  IF reader = Idle THEN recvmarkq_read_offset = 0
                   ELSE recvmarkq_read_offset < reader.size

Locals ==
  [at : {"next", "done"}, size : ReadSizes, distributed : 0 .. StreamLength,
   read_offset : Nat, eof : BOOLEAN, contiguous : 0 .. StreamLength,
   passed : SUBSET recvmarkq]

(* What the loop has done: it has passed the first nodes of recvmarkq_,    *)
(* and distributed the bytes up to the farthest end of these.              *)
Distributes(at) ==
  /\ at.distributed >= recvmarkq_distributed
  /\ at.read_offset
       = recvmarkq_read_offset + at.distributed - recvmarkq_distributed
  /\ at.read_offset <= at.size
  /\ \A p \in recvmarkq_distributed .. at.distributed - 1 : Stored(p)

Passes(at) ==
  /\ \A e \in at.passed : End(e.block) <= at.distributed
  /\ \A e \in at.passed, f \in recvmarkq :
       f.block.offset < e.block.offset => f \in at.passed
  /\ at.eof <=> pending_eof \/ EofPassed(at.passed)
  /\ ContiguousTo(at.contiguous, at.passed)

(* It goes on from the end of a node, and it is over when read() got as    *)
(* far as it can.                                                          *)
Continued(at) ==
  \/ at.distributed = recvmarkq_distributed
  \/ \E e \in at.passed : at.distributed = End(e.block)
Over(at) ==
  ReadsTo(at.distributed, at.size) /\ at.passed = Passed(at.distributed)

LoopOk(at) ==
  /\ at \in Locals
  /\ reader = Idle \/ reader = [state |-> "resumed", size |-> at.size]
  /\ Distributes(at) /\ Passes(at)
  /\ at.at = "next" => Continued(at)
  /\ at.at = "done" => Over(at)

LoopInv == RecvInv /\ RoomLeft /\ (loop = Off \/ LoopOk(loop))

LEMMA LocalsFields ==
  ASSUME NEW at \in Locals
  PROVE  /\ at.at \in {"next", "done"} /\ at.size \in ReadSizes
         /\ at.distributed \in 0 .. StreamLength /\ at.read_offset \in Nat
         /\ at.eof \in BOOLEAN /\ at.contiguous \in 0 .. StreamLength
         /\ at.passed \subseteq recvmarkq
  BY Zenon DEF Locals

LEMMA NodeFacts ==
  ASSUME RecvInv, NEW e \in recvmarkq
  PROVE  /\ e.block.offset \in Nat /\ e.block.data_len \in Nat
         /\ End(e.block) = e.block.offset + e.block.data_len
         /\ End(e.block) \in 0 .. StreamLength
         /\ e.block.offset <= End(e.block)
<1>1. e.block \in Blocks
  BY DEF RecvInv, TypeOK, Entry
<1>2. e.block \in [offset : 0 .. StreamLength, data_len : 0 .. StreamLength,
                   eof : BOOLEAN]
  BY <1>1, ReceiveAssumption
<1>3. QED
  BY <1>1, <1>2, BlockInStream, ConstantTypes DEF End

LEMMA QueueTypes ==
  ASSUME RecvInv
  PROVE  /\ StreamLength \in Nat /\ ReadSizes \subseteq Nat \ {0}
         /\ recvmarkq_distributed \in 0 .. StreamLength
         /\ recvmarkq_read_offset \in 0 .. StreamLength
         /\ their_contiguous_sent_bytes \in 0 .. StreamLength
         /\ pending_eof \in BOOLEAN /\ reader \in Reader
  BY ConstantTypes DEF RecvInv, TypeOK

(* The nodes ahead of the first one that the loop visits next.             *)
LEMMA AheadOf ==
  ASSUME RecvInv, NEW e, Visits(e), NEW f \in Ahead
  PROVE  /\ e.block.offset <= f.block.offset
         /\ e.block.offset = f.block.offset => End(e.block) <= End(f.block)
<1>1. /\ e \in recvmarkq /\ f \in recvmarkq /\ ~ Before(f, e)
  BY DEF Visits, Ahead
<1>2. QED
  BY <1>1, NodeFacts DEF Before

(* A step of the loop changes nothing else.                                *)
LEMMA LoopMoves ==
  ASSUME LoopInv, UNCHANGED vars, NEW at, LoopOk(at), loop' = at
  PROVE  LoopInv'
<1>1. UNCHANGED <<recvmarkq, recvmarkq_distributed, recvmarkq_read_offset,
                  pending_eof, their_contiguous_sent_bytes, reader>>
  BY DEF vars, progress
<1>2. RecvInv'
  BY NextRecvInv DEF LoopInv
<1>3. RoomLeft'
  BY <1>1 DEF LoopInv, RoomLeft, Idle
<1>4. at \in Locals'
  BY <1>1 DEF LoopOk, Locals
<1>5. Distributes(at)'
  BY <1>1, Zenon DEF LoopOk, Distributes, Stored
<1>6. Passes(at)'
  BY <1>1, Zenon DEF LoopOk, Passes, ContiguousTo, EofPassed
<1>7. (at.at = "next" => Continued(at)) <=> (at.at = "next" => Continued(at)')
  BY <1>1, Zenon DEF Continued
<1>8. Over(at) <=> Over(at)'
  BY <1>1, Zenon DEF Over, ReadsTo, Stored, Passed
<1>9. reader' = Idle \/ reader' = [state |-> "resumed", size |-> at.size]
  BY <1>1, Zenon DEF LoopOk, Idle
<1>10. LoopOk(at)'
  BY <1>4, <1>5, <1>6, <1>7, <1>8, <1>9, Zenon DEF LoopOk, Idle
<1>11. LoopOk(loop)'
  BY <1>10
<1>12. QED
  BY <1>2, <1>3, <1>11 DEF LoopInv

LEMMA StartReadOk ==
  ASSUME LoopInv, NEW size \in ReadSizes, StartRead(size)
  PROVE  LoopInv'
<1> DEFINE at == [at |-> "next", size |-> size,
                  distributed |-> recvmarkq_distributed,
                  read_offset |-> recvmarkq_read_offset,
                  eof |-> pending_eof,
                  contiguous |-> their_contiguous_sent_bytes,
                  passed |-> {}]
<1>1. /\ reader = Idle \/ reader = [state |-> "resumed", size |-> size]
      /\ loop' = at /\ UNCHANGED vars
  BY DEF StartRead
<1>2. RecvInv /\ RoomLeft
  BY DEF LoopInv
<1>3. recvmarkq_read_offset <= size
  BY <1>1, <1>2, QueueTypes DEF RoomLeft, Idle
<1>4. at \in Locals
  <2>1. /\ recvmarkq_distributed \in 0 .. StreamLength
        /\ recvmarkq_read_offset \in Nat
        /\ their_contiguous_sent_bytes \in 0 .. StreamLength
        /\ pending_eof \in BOOLEAN /\ {} \subseteq recvmarkq
    BY <1>2, QueueTypes
  <2>2. QED
    BY <2>1, Zenon DEF Locals
<1>5. Distributes(at)
  BY <1>2, <1>3, QueueTypes DEF Distributes
<1>6. Passes(at)
  BY DEF Passes, ContiguousTo, EofPassed
<1>7. LoopOk(at)
  BY <1>1, <1>4, <1>5, <1>6 DEF LoopOk, Continued
<1> HIDE DEF at
<1>8. QED
  BY <1>1, <1>7, LoopMoves

-----------------------------------------------------------------------------
(* One iteration, for a node that has at most the bytes that fit in the    *)
(* buffer.                                                                 *)
LEMMA Taken ==
  ASSUME NEW at \in Locals, NEW len
  PROVE  LET t == Take(at, len)
         IN  /\ t.at = at.at /\ t.size = at.size /\ t.eof = at.eof
             /\ t.contiguous = at.contiguous /\ t.passed = at.passed
             /\ t.distributed = at.distributed + len
             /\ t.read_offset = at.read_offset + len
  BY Zenon DEF Locals, Take

LEMMA TakeDistributes ==
  ASSUME RecvInv, NEW at \in Locals, Distributes(at), NEW e \in recvmarkq,
         e.block.offset <= at.distributed, NEW len \in Nat,
         at.distributed + len <= End(e.block) \/ len = 0,
         len <= Room(at)
  PROVE  /\ Distributes(Take(at, len)) /\ Take(at, len) \in Locals
<1>1. /\ at.distributed \in Nat /\ at.distributed <= StreamLength
      /\ at.read_offset \in Nat /\ at.size \in Nat
      /\ recvmarkq_distributed \in Nat /\ recvmarkq_read_offset \in Nat
      /\ StreamLength \in Nat
  BY LocalsFields, QueueTypes
<1>2. /\ e.block.offset \in Nat /\ End(e.block) \in Nat
      /\ End(e.block) <= StreamLength
  BY <1>1, NodeFacts
<1> DEFINE d == at.distributed + len
<1>3. d \in 0 .. StreamLength /\ d \in Nat /\ at.read_offset + len \in Nat
  BY <1>1, <1>2
<1>4. ASSUME NEW p \in recvmarkq_distributed .. d - 1
      PROVE  Stored(p)
  <2>1. CASE p < at.distributed
    <3>1. p \in recvmarkq_distributed .. at.distributed - 1
      BY <1>1, <1>3, <2>1
    <3>2. QED
      BY <3>1 DEF Distributes
  <2>2. CASE p >= at.distributed
    <3>1. e.block.offset <= p /\ p < End(e.block)
      BY <1>1, <1>2, <1>3, <2>2
    <3>2. QED
      BY <3>1 DEF Stored, Holds
  <2>3. QED
    BY <1>1, <1>3, <2>1, <2>2
<1>5. /\ d >= recvmarkq_distributed
      /\ at.read_offset + len
           = recvmarkq_read_offset + d - recvmarkq_distributed
      /\ at.read_offset + len <= at.size
  BY <1>1 DEF Distributes, Room
<1>6. Take(at, len) \in Locals
  BY <1>3, Zenon DEF Locals, Take
<1>7. /\ Take(at, len).distributed = d /\ Take(at, len).size = at.size
      /\ Take(at, len).read_offset = at.read_offset + len
  BY Taken
<1> HIDE DEF d
<1>8. Distributes(Take(at, len))
  BY <1>4, <1>5, <1>7, Zenon DEF Distributes
<1>9. QED
  BY <1>6, <1>8

LEMMA Passing ==
  ASSUME NEW at \in Locals, NEW e \in recvmarkq
  PROVE  LET t == Pass(at, e)
         IN  /\ t.at = at.at /\ t.size = at.size
             /\ t.distributed = at.distributed
             /\ t.read_offset = at.read_offset
             /\ t.passed = at.passed \cup {e}
             /\ t.eof = (at.eof \/ e.block.eof)
             /\ t.contiguous = IF at.contiguous < at.distributed
                               THEN at.distributed ELSE at.contiguous
  BY Zenon DEF Locals, Pass

LEMMA PassInLocals ==
  ASSUME RecvInv, NEW at \in Locals, NEW e \in recvmarkq
  PROVE  Pass(at, e) \in Locals
<1>1. e.block.eof \in BOOLEAN
  BY ReceiveAssumption DEF RecvInv, TypeOK, Entry
<1> DEFINE c == IF at.contiguous < at.distributed
                THEN at.distributed ELSE at.contiguous
           b == at.eof \/ e.block.eof
           q == at.passed \cup {e}
<1>2. c \in 0 .. StreamLength /\ b \in BOOLEAN /\ q \in SUBSET recvmarkq
  BY <1>1, LocalsFields
<1>3. QED
  BY <1>2, Zenon DEF Locals, Pass

LEMMA Breaking ==
  ASSUME NEW at \in Locals
  PROVE  LET t == Break(at)
         IN  /\ t \in Locals /\ t.at = "done" /\ t.size = at.size
             /\ t.distributed = at.distributed
             /\ t.read_offset = at.read_offset
             /\ t.passed = at.passed /\ t.eof = at.eof
             /\ t.contiguous = at.contiguous
  BY Zenon DEF Locals, Break

(* The loop is over when what is ahead lies behind a gap, and when it has  *)
(* filled the buffer from the first node ahead.                            *)
LEMMA BreakOk ==
  ASSUME NEW at \in Locals,
         reader = Idle \/ reader = [state |-> "resumed", size |-> at.size],
         Distributes(at), Passes(at), Over(at)
  PROVE  LoopOk(Break(at))
<1> DEFINE t == Break(at)
<1>1. /\ t \in Locals /\ t.at = "done" /\ t.size = at.size
      /\ t.distributed = at.distributed
      /\ t.read_offset = at.read_offset
      /\ t.passed = at.passed /\ t.eof = at.eof
      /\ t.contiguous = at.contiguous
  BY Breaking
<1> HIDE DEF t
<1>2. Distributes(t)
  BY <1>1, Zenon DEF Distributes
<1>3. Passes(t)
  BY <1>1, Zenon DEF Passes
<1>4. Over(t)
  BY <1>1, Zenon DEF Over
<1>5. t.at # "next"
  BY <1>1
<1>6. LoopOk(t)
  BY <1>1, <1>2, <1>3, <1>4, <1>5, Zenon DEF LoopOk
<1>7. QED
  BY <1>6 DEF t

LEMMA GapAhead ==
  ASSUME RecvInv, LoopOk(loop),
         \A f \in Ahead : f.block.offset > loop.distributed
  PROVE  Over(loop)
<1> DEFINE d == loop.distributed
<1>1. /\ loop \in Locals /\ Distributes(loop) /\ Passes(loop)
      /\ d \in Nat /\ loop.size \in Nat
      /\ loop.read_offset \in Nat /\ loop.passed \subseteq recvmarkq
      /\ recvmarkq_distributed \in Nat /\ recvmarkq_read_offset \in Nat
  BY LocalsFields, QueueTypes DEF LoopOk
<1>2. \A e \in recvmarkq : e \in loop.passed \/ e \in Ahead
  BY DEF Ahead
<1>3. \A e \in recvmarkq : /\ e.block.offset \in Nat /\ End(e.block) \in Nat
                           /\ e.block.offset <= End(e.block)
  BY NodeFacts
<1>4. \A e \in loop.passed : End(e.block) <= d
  BY <1>1 DEF Passes
<1>5. ~ Stored(d)
  BY <1>1, <1>2, <1>3, <1>4 DEF Stored, Holds
<1>6. d <= recvmarkq_distributed + loop.size - recvmarkq_read_offset
  BY <1>1 DEF Distributes
<1>7. ReadsTo(d, loop.size)
  BY <1>1, <1>5, <1>6 DEF Distributes, ReadsTo
<1>8. ASSUME NEW e \in loop.passed
      PROVE  e \in Passed(d)
  <2>1. \A f \in recvmarkq :
          f.block.offset < e.block.offset => End(f.block) <= d
    BY <1>1, <1>4 DEF Passes
  <2>2. QED
    BY <1>1, <1>4, <2>1 DEF Passed
<1>9. ASSUME NEW e \in Passed(d)
      PROVE  e \in loop.passed
  <2>1. e \in recvmarkq /\ End(e.block) <= d
    BY DEF Passed
  <2>2. QED
    BY <1>1, <1>2, <1>3, <2>1
<1>10. QED
  BY <1>7, <1>8, <1>9 DEF Over

LEMMA BufferFull ==
  ASSUME RecvInv, LoopOk(loop), NEW e, Visits(e),
         e.block.offset <= loop.distributed,
         Fresh(loop, e) > Room(loop)
  PROVE  LoopOk(Break(Take(loop, Room(loop))))
<1> DEFINE len == Room(loop)
           t == Take(loop, len)
           d == loop.distributed + len
<1>1. /\ loop \in Locals /\ Distributes(loop) /\ Passes(loop)
      /\ reader = Idle \/ reader = [state |-> "resumed", size |-> loop.size]
      /\ loop.distributed \in Nat /\ loop.size \in Nat
      /\ loop.read_offset \in Nat /\ loop.passed \subseteq recvmarkq
      /\ recvmarkq_distributed \in Nat /\ recvmarkq_read_offset \in Nat
  BY LocalsFields, QueueTypes DEF LoopOk
<1>2. \A f \in recvmarkq : /\ f.block.offset \in Nat /\ End(f.block) \in Nat
                           /\ f.block.offset <= End(f.block)
  BY NodeFacts
<1>3. e \in recvmarkq /\ e \in Ahead /\ e \notin loop.passed
  BY DEF Visits, Ahead
<1>4. len \in Nat
  BY <1>1 DEF Room, Distributes
<1>5. d < End(e.block) /\ d \in Nat /\ loop.distributed <= d
  BY <1>1, <1>2, <1>3, <1>4 DEF Fresh
<1>6. /\ t.size = loop.size /\ t.eof = loop.eof /\ t.passed = loop.passed
      /\ t.contiguous = loop.contiguous /\ t.distributed = d
  BY <1>1, Taken
<1>7. Distributes(t) /\ t \in Locals
  <2>1. loop.distributed + len <= End(e.block)
    BY <1>2, <1>3, <1>5
  <2>2. len <= Room(loop)
    BY <1>4
  <2> HIDE DEF len
  <2>3. QED
    BY <1>1, <1>3, <1>4, <2>1, <2>2, TakeDistributes
<1>8. d = recvmarkq_distributed + loop.size - recvmarkq_read_offset
  BY <1>1 DEF Room, Distributes
<1> HIDE DEF t, d, len
<1>9. \A f \in loop.passed : End(f.block) <= d
  BY <1>1, <1>2, <1>5 DEF Passes
<1>10. Passes(t)
  BY <1>1, <1>6, <1>9, Zenon DEF Passes
<1>11. ReadsTo(d, loop.size)
  BY <1>1, <1>5, <1>6, <1>7, <1>8 DEF ReadsTo, Distributes
<1>12. ASSUME NEW f \in loop.passed
       PROVE  f \in Passed(d)
  <2>1. \A g \in recvmarkq :
          g.block.offset < f.block.offset => End(g.block) <= d
    BY <1>1, <1>9 DEF Passes
  <2>2. QED
    BY <1>1, <1>9, <2>1 DEF Passed
<1>13. ASSUME NEW f \in Passed(d), f \notin loop.passed
       PROVE  FALSE
  <2>1. /\ f \in recvmarkq /\ End(f.block) <= d
        /\ e.block.offset < f.block.offset => End(e.block) <= d
    BY <1>3 DEF Passed
  <2>2. f \in Ahead
    BY <1>13, <2>1 DEF Ahead
  <2>3. /\ e.block.offset <= f.block.offset
        /\ e.block.offset = f.block.offset => End(e.block) <= End(f.block)
    BY <2>2, AheadOf
  <2>4. QED
    BY <1>2, <1>3, <1>5, <2>1, <2>3
<1>14. Passed(d) = loop.passed
  BY <1>12, <1>13
<1>15. Over(t)
  BY <1>6, <1>11, <1>14 DEF Over
<1>16. LoopOk(Break(t))
  BY <1>1, <1>6, <1>7, <1>10, <1>15, BreakOk
<1>17. QED
  BY <1>16 DEF t, len

(* Otherwise the node is passed, and the messager's count follows.         *)
LEMMA NodePassed ==
  ASSUME RecvInv, LoopOk(loop), loop.at = "next", NEW e, Visits(e),
         e.block.offset <= loop.distributed,
         Fresh(loop, e) <= Room(loop)
  PROVE  LoopOk(Pass(Take(loop, Fresh(loop, e)), e))
<1> DEFINE len == Fresh(loop, e)
           t == Take(loop, len)
           u == Pass(t, e)
           d == loop.distributed + len
<1>1. /\ loop \in Locals /\ Distributes(loop) /\ Passes(loop)
      /\ Continued(loop)
      /\ reader = Idle \/ reader = [state |-> "resumed", size |-> loop.size]
      /\ loop.distributed \in Nat /\ loop.size \in Nat
      /\ loop.read_offset \in Nat /\ loop.passed \subseteq recvmarkq
      /\ loop.contiguous \in Nat /\ their_contiguous_sent_bytes \in Nat
      /\ recvmarkq_distributed \in Nat /\ recvmarkq_read_offset \in Nat
  BY LocalsFields, QueueTypes DEF LoopOk
<1>2. \A f \in recvmarkq : /\ f.block.offset \in Nat /\ End(f.block) \in Nat
                           /\ f.block.offset <= End(f.block)
  BY NodeFacts
<1>3. e \in recvmarkq /\ e \in Ahead /\ e \notin loop.passed
  BY DEF Visits, Ahead
<1>4. /\ len \in Nat
      /\ len = 0 \/ d <= End(e.block)
      /\ d \in Nat /\ loop.distributed <= d /\ End(e.block) <= d
      /\ d = loop.distributed \/ d = End(e.block)
  BY <1>1, <1>2, <1>3 DEF Fresh
<1>5. /\ t.at = loop.at /\ t.size = loop.size /\ t.eof = loop.eof
      /\ t.passed = loop.passed /\ t.contiguous = loop.contiguous
      /\ t.distributed = d
  BY <1>1, Taken
<1>6. Distributes(t) /\ t \in Locals
  <2>1. loop.distributed + len <= End(e.block) \/ len = 0
    BY <1>4
  <2>2. len \in Nat
    BY <1>4
  <2> HIDE DEF len
  <2>3. len <= Room(loop)
    BY DEF len
  <2>4. QED
    BY <1>1, <1>3, <2>1, <2>2, <2>3, TakeDistributes
<1> HIDE DEF t, d, len
<1>7. /\ u.at = "next" /\ u.size = loop.size
      /\ u.distributed = t.distributed
      /\ u.distributed = d /\ u.read_offset = t.read_offset
      /\ u.passed = loop.passed \cup {e}
      /\ u.eof = (loop.eof \/ e.block.eof)
      /\ u.contiguous = IF loop.contiguous < d THEN d ELSE loop.contiguous
  BY <1>3, <1>5, <1>6, Passing
<1>8. u \in Locals
  BY <1>3, <1>6, PassInLocals
<1> HIDE DEF u
<1>9. Distributes(u)
  <2>1. u.size = t.size
    BY <1>5, <1>7
  <2>2. QED
    BY <1>6, <1>7, <2>1, Zenon DEF Distributes
<1>10. \A f \in u.passed : End(f.block) <= u.distributed
  BY <1>1, <1>2, <1>4, <1>7 DEF Passes
<1>11. ASSUME NEW f \in u.passed, NEW g \in recvmarkq,
              g.block.offset < f.block.offset
       PROVE  g \in u.passed
  <2>1. CASE f \in loop.passed
    BY <1>1, <1>7, <1>11, <2>1 DEF Passes
  <2>2. CASE f = e
    <3>1. g \notin Ahead
      BY <1>2, <1>3, <1>11, <2>2, AheadOf
    <3>2. QED
      BY <1>7, <3>1 DEF Ahead
  <2>3. QED
    BY <1>7, <1>11, <2>1, <2>2
<1>12. u.eof <=> pending_eof \/ EofPassed(u.passed)
  <2>1. loop.eof <=> pending_eof \/ \E f \in loop.passed : f.block.eof
    BY <1>1, Zenon DEF Passes, EofPassed
  <2>2. u.eof <=> loop.eof \/ e.block.eof
    BY <1>7, Zenon
  <2>3. (\E f \in u.passed : f.block.eof)
          <=> (\E f \in loop.passed : f.block.eof) \/ e.block.eof
    BY <1>7
  <2>4. QED
    BY <2>1, <2>2, <2>3, Zenon DEF EofPassed
<1>13. ContiguousTo(u.contiguous, u.passed)
  <2> DEFINE T == their_contiguous_sent_bytes
             q == recvmarkq_distributed
  <2>1. CASE loop.passed = {}
    <3>1. loop.contiguous = T /\ loop.distributed = q
      BY <1>1, <2>1 DEF Passes, ContiguousTo, Continued
    <3>2. u.contiguous \in {T, q, End(e.block)}
      BY <1>4, <1>7, <3>1
    <3>3. /\ T <= u.contiguous /\ q <= u.contiguous
          /\ End(e.block) <= u.contiguous
      BY <1>1, <1>2, <1>3, <1>4, <1>7, <3>1
    <3>4. u.passed = {e}
      BY <1>7, <2>1
    <3>5. QED
      BY <3>2, <3>3, <3>4 DEF ContiguousTo
  <2>2. CASE loop.passed # {}
    <3>1. /\ \/ loop.contiguous = T \/ loop.contiguous = q
             \/ \E f \in loop.passed : loop.contiguous = End(f.block)
          /\ T <= loop.contiguous /\ q <= loop.contiguous
          /\ \A f \in loop.passed : End(f.block) <= loop.contiguous
      BY <1>1, <2>2 DEF Passes, ContiguousTo
    <3>2. \/ d = q \/ d = End(e.block)
          \/ \E f \in loop.passed : d = End(f.block)
      BY <1>1, <1>4 DEF Continued
    <3>3. \/ u.contiguous = T \/ u.contiguous = q
          \/ \E f \in u.passed : u.contiguous = End(f.block)
      BY <1>7, <3>1, <3>2
    <3>4. loop.contiguous <= u.contiguous /\ d <= u.contiguous
      BY <1>1, <1>4, <1>7
    <3>5. /\ T <= u.contiguous /\ q <= u.contiguous
          /\ \A f \in u.passed : End(f.block) <= u.contiguous
      <4>1. u.contiguous \in Nat
        BY <1>1, <1>4, <1>7
      <4>2. T <= u.contiguous /\ q <= u.contiguous
        BY <1>1, <3>1, <3>4, <4>1
      <4>3. ASSUME NEW f \in u.passed
            PROVE  End(f.block) <= u.contiguous
        <5>1. End(f.block) <= loop.contiguous \/ f = e
          BY <1>7, <3>1
        <5>2. f \in recvmarkq
          BY <1>1, <1>3, <1>7
        <5>3. QED
          BY <1>1, <1>2, <1>4, <3>4, <4>1, <5>1, <5>2
      <4>4. QED
        BY <4>2, <4>3
    <3>6. u.passed # {}
      BY <1>7
    <3>7. QED
      BY <3>3, <3>5, <3>6 DEF ContiguousTo
  <2>3. QED
    BY <2>1, <2>2
<1>14. Passes(u)
  BY <1>10, <1>11, <1>12, <1>13, Zenon DEF Passes
<1>15. Continued(u)
  BY <1>1, <1>4, <1>7 DEF Continued
<1>16. reader = Idle \/ reader = [state |-> "resumed", size |-> u.size]
  BY <1>1, <1>7
<1>17. u.at # "done"
  BY <1>7
<1>18. LoopOk(u)
  BY <1>8, <1>9, <1>14, <1>15, <1>16, <1>17, Zenon DEF LoopOk
<1>19. QED
  BY <1>18 DEF u, t, len

LEMMA VisitOk ==
  ASSUME LoopInv, NEW e, Visit(e)
  PROVE  LoopInv'
<1>1. /\ loop.at = "next" /\ Visits(e)
      /\ loop' = Iterate(loop, e) /\ UNCHANGED vars
  BY DEF Visit
<1>2. RecvInv /\ LoopOk(loop)
  BY <1>1 DEF LoopInv, Off
<1>3. /\ loop \in Locals /\ Distributes(loop) /\ Passes(loop)
      /\ reader = Idle \/ reader = [state |-> "resumed", size |-> loop.size]
  BY <1>2 DEF LoopOk
<1>4. LoopOk(Iterate(loop, e))
  <2>1. CASE e.block.offset > loop.distributed
    <3>1. e \in recvmarkq /\ loop.distributed \in Nat
      BY <1>1, <1>3, LocalsFields, QueueTypes DEF Visits, Ahead
    <3>2. \A f \in Ahead : f.block.offset > loop.distributed
      <4>1. \A f \in Ahead : f \in recvmarkq
        BY DEF Ahead
      <4>2. \A f \in Ahead : e.block.offset <= f.block.offset
        BY <1>1, <1>2, AheadOf
      <4>3. QED
        BY <1>2, <2>1, <3>1, <4>1, <4>2, NodeFacts
    <3>3. Over(loop)
      BY <1>2, <3>2, GapAhead
    <3>4. LoopOk(Break(loop))
      BY <1>3, <3>3, BreakOk
    <3>5. QED
      BY <2>1, <3>4 DEF Iterate
  <2>2. CASE e.block.offset <= loop.distributed
    <3>1. /\ e.block.offset \in Nat /\ loop.distributed \in Nat
          /\ Fresh(loop, e) \in Nat /\ Room(loop) \in Int
      <4>1. e \in recvmarkq
        BY <1>1 DEF Visits, Ahead
      <4>2. /\ loop.distributed \in Nat /\ loop.size \in Nat
            /\ loop.read_offset \in Nat
        BY <1>2, <1>3, LocalsFields, QueueTypes
      <4>3. End(e.block) \in Nat /\ e.block.offset \in Nat
        BY <1>2, <4>1, NodeFacts
      <4>4. QED
        BY <4>2, <4>3 DEF Fresh, Room
    <3>2. ~ (e.block.offset > loop.distributed)
      BY <2>2, <3>1
    <3>3. CASE Fresh(loop, e) > Room(loop)
      <4>1. LoopOk(Break(Take(loop, Room(loop))))
        BY <1>1, <1>2, <2>2, <3>3, BufferFull
      <4>2. QED
        BY <3>2, <3>3, <4>1 DEF Iterate
    <3>4. CASE ~ (Fresh(loop, e) > Room(loop))
      <4>1. Fresh(loop, e) <= Room(loop)
        BY <3>1, <3>4
      <4>2. LoopOk(Pass(Take(loop, Fresh(loop, e)), e))
        BY <1>1, <1>2, <2>2, <4>1, NodePassed
      <4>3. QED
        BY <3>2, <3>4, <4>2 DEF Iterate
    <3>5. QED
      BY <3>3, <3>4
  <2>3. QED
    <3>1. e \in recvmarkq /\ loop.distributed \in Nat
      BY <1>1, <1>2, <1>3, LocalsFields, QueueTypes DEF Visits, Ahead
    <3>2. e.block.offset \in Nat
      BY <1>2, <3>1, NodeFacts
    <3>3. QED
      BY <2>1, <2>2, <3>1, <3>2
<1>5. QED
  BY <1>1, <1>4, LoopMoves

LEMMA EndOfQueueOk ==
  ASSUME LoopInv, EndOfQueue
  PROVE  LoopInv'
<1>1. /\ loop.at = "next" /\ Ahead = {}
      /\ loop' = Break(loop) /\ UNCHANGED vars
  BY DEF EndOfQueue
<1>2. RecvInv /\ LoopOk(loop)
  BY <1>1 DEF LoopInv, Off
<1>3. Over(loop)
  BY <1>1, <1>2, GapAhead
<1>4. LoopOk(Break(loop))
  BY <1>2, <1>3, BreakOk DEF LoopOk
<1>5. QED
  BY <1>1, <1>4, LoopMoves

-----------------------------------------------------------------------------
(* The end of the loop is SessionReceive's read().                         *)
LEMMA FinishReads ==
  ASSUME LoopInv, FinishRead
  PROVE  /\ TryRead(loop.size) /\ loop.size \in ReadSizes
         /\ reader = Idle \/ reader = [state |-> "resumed", size |-> loop.size]
         /\ RoomLeft' /\ loop' = Off
<1>1. loop.at = "done"
  BY DEF FinishRead
<1>2. RecvInv /\ LoopOk(loop)
  BY <1>1 DEF LoopInv, Off
<1>3. /\ loop \in Locals /\ Distributes(loop) /\ Passes(loop)
      /\ Over(loop)
      /\ reader = Idle \/ reader = [state |-> "resumed", size |-> loop.size]
  BY <1>1, <1>2 DEF LoopOk
<1>4. /\ loop.size \in ReadSizes /\ loop.size \in Nat
      /\ loop.distributed \in Nat /\ loop.distributed <= StreamLength
      /\ loop.read_offset \in Nat
      /\ loop.contiguous \in 0 .. StreamLength /\ loop.eof \in BOOLEAN
      /\ recvmarkq_distributed \in Nat /\ recvmarkq_read_offset \in Nat
      /\ StreamLength \in Nat
  BY <1>2, <1>3, LocalsFields, QueueTypes
<1> DEFINE d == loop.distributed
           c == loop.contiguous
           filled == recvmarkq_read_offset + d - recvmarkq_distributed
           eof == pending_eof \/ EofPassed(Passed(d))
           done == filled = loop.size \/ eof
<1>5. /\ d \in recvmarkq_distributed .. StreamLength
      /\ loop.read_offset = filled /\ filled <= loop.size
  BY <1>3, <1>4 DEF Distributes
<1>6. /\ ReadsTo(d, loop.size) /\ loop.passed = Passed(d)
      /\ ContiguousTo(c, Passed(d))
  BY <1>3 DEF Over, Passes
<1>7. loop.eof = eof
  BY <1>3, <1>4, <1>6 DEF Passes
<1>8. /\ recvmarkq' = Distribute(Passed(d))
      /\ recvmarkq_distributed' = d
      /\ recvmarkq_read_offset' = IF done THEN 0 ELSE filled
      /\ pending_eof' = eof
      /\ their_contiguous_sent_bytes' = c
      /\ reader' = IF done THEN Idle
                           ELSE [state |-> "waiting", size |-> loop.size]
      /\ delivered' = IF done THEN delivered + filled ELSE delivered
      /\ eof_delivered' = (eof_delivered \/ eof)
      /\ loop' = Off
      /\ UNCHANGED <<acked, closed>>
  BY <1>5, <1>6, <1>7 DEF FinishRead
<1>9. TryRead(loop.size)
  BY <1>4, <1>5, <1>6, <1>8 DEF TryRead
<1>10. RoomLeft'
  <2>1. CASE done
    BY <1>8, <2>1 DEF RoomLeft
  <2>2. CASE ~ done
    <3>1. filled < loop.size /\ filled \in Nat
      BY <1>4, <1>5, <2>2
    <3>2. reader' = [state |-> "waiting", size |-> loop.size]
          /\ recvmarkq_read_offset' = filled
      BY <1>8, <2>2
    <3>3. QED
      BY <3>1, <3>2 DEF RoomLeft, Idle
  <2>3. QED
    BY <2>1, <2>2
<1>11. QED
  BY <1>3, <1>4, <1>8, <1>9, <1>10

LEMMA LoopInvInit == LoopInit => LoopInv
<1> SUFFICES ASSUME LoopInit PROVE LoopInv
  OBVIOUS
<1>1. RecvInv
  BY InitRecvInv DEF LoopInit
<1>2. RoomLeft /\ loop = Off
  BY DEF LoopInit, Init, RoomLeft
<1>3. QED
  BY <1>1, <1>2 DEF LoopInv

(* Every step of ReadLoop is a step of SessionReceive, or changes only the *)
(* state of the loop.                                                      *)
LEMMA LoopStep ==
  ASSUME LoopInv, [LoopNext]_<<vars, loop>>
  PROVE  [Next]_vars /\ LoopInv'
<1>1. ASSUME NEW n \in ReadSizes, StartRead(n)
      PROVE  UNCHANGED vars /\ LoopInv'
  BY <1>1, StartReadOk DEF StartRead
<1>2. ASSUME NEW e \in recvmarkq, Visit(e)
      PROVE  UNCHANGED vars /\ LoopInv'
  BY <1>2, VisitOk DEF Visit
<1>3. ASSUME EndOfQueue
      PROVE  UNCHANGED vars /\ LoopInv'
  BY <1>3, EndOfQueueOk DEF EndOfQueue
<1>4. ASSUME FinishRead
      PROVE  Next /\ LoopInv'
  <2>1. /\ TryRead(loop.size) /\ loop.size \in ReadSizes
        /\ reader = Idle \/ reader = [state |-> "resumed", size |-> loop.size]
        /\ RoomLeft' /\ loop' = Off
    BY <1>4, FinishReads
  <2>2. ASSUME reader = Idle
        PROVE  Next
    BY <2>1, <2>2 DEF Read, Next
  <2>3. ASSUME reader = [state |-> "resumed", size |-> loop.size]
        PROVE  Next
    BY <2>1, <2>3 DEF RetryRead, Next
  <2>4. Next
    BY <2>1, <2>2, <2>3
  <2>5. RecvInv'
    BY <2>4, NextRecvInv DEF LoopInv
  <2>6. QED
    BY <2>1, <2>4, <2>5 DEF LoopInv
<1>5. ASSUME loop = Off, Handler, UNCHANGED loop
      PROVE  Next /\ LoopInv'
  <2>1. Next
    BY <1>5 DEF Handler, Next
  <2>2. RecvInv'
    BY <2>1, NextRecvInv DEF LoopInv
  <2>3. RoomLeft'
    <3>1. RoomLeft /\ recvmarkq_read_offset' = recvmarkq_read_offset
      BY <1>5 DEF LoopInv, Handler, Put, Close, SendAck, progress
    <3>2. reader' = reader \/ reader' = WakeReader
      BY <1>5 DEF Handler, Put, Close, SendAck
    <3>3. reader \in Reader
      BY QueueTypes DEF LoopInv
    <3>4. QED
      BY <3>1, <3>2, <3>3 DEF RoomLeft, WakeReader, Reader, Idle
  <2>4. QED
    BY <1>5, <2>1, <2>2, <2>3 DEF LoopInv, Off
<1>6. CASE UNCHANGED <<vars, loop>>
  <2>1. CASE loop = Off
    <3>1. RecvInv' /\ RoomLeft'
      <4>1. RecvInv'
        BY <1>6, NextRecvInv DEF LoopInv
      <4>2. UNCHANGED <<reader, recvmarkq_read_offset>>
        BY <1>6 DEF vars, progress
      <4>3. QED
        BY <4>1, <4>2 DEF LoopInv, RoomLeft, Idle
    <3>2. QED
      BY <1>6, <2>1, <3>1 DEF LoopInv, Off
  <2>2. CASE LoopOk(loop)
    <3>1. PICK at : at = loop
      OBVIOUS
    <3>2. LoopOk(at) /\ loop' = at
      BY <1>6, <2>2, <3>1
    <3>3. QED
      BY <1>6, <3>2, LoopMoves
  <2>3. QED
    BY <1>6, <2>1, <2>2 DEF LoopInv
<1>7. QED
  BY <1>1, <1>2, <1>3, <1>4, <1>5, <1>6 DEF LoopNext

(* In whatever order equal nodes are visited, read()'s loop                *)
(* (session.ipp:212-264) distributes the bytes, passes and deletes the     *)
(* nodes, and leaves the flag and the count that SessionReceive says, for  *)
(* every cut of the stream and every buffer.                               *)
THEOREM LoopImplementsRead == LoopSpec => ReadIsAtomic
<1>1. LoopInit => LoopInv /\ Init
  BY LoopInvInit DEF LoopInit
<1>2. LoopInv /\ [LoopNext]_<<vars, loop>> => [Next]_vars /\ LoopInv'
  BY LoopStep
<1>3. QED
  BY <1>1, <1>2, PTL DEF LoopSpec, ReadIsAtomic, Spec

(* So what is promised of the receiving half holds between the steps of    *)
(* the loop as well.                                                       *)
THEOREM LoopKeepsPromises ==
  LoopSpec => [](TypeOK /\ AckedIsKept /\ ContiguousIsReceived
                   /\ EofAfterData /\ NoLostReaderWakeup)
<1>1. LoopSpec => []RecvInv
  BY LoopImplementsRead, ReceiveInvariant, PTL DEF ReadIsAtomic
<1>2. RecvInv => TypeOK /\ AckedIsKept /\ ContiguousIsReceived
                   /\ EofAfterData /\ NoLostReaderWakeup
  BY DEF RecvInv
<1>3. QED
  BY <1>1, <1>2, PTL

(* SessionReceive leaves read() no choice: what is stored and the size of  *)
(* the buffer determine how far it gets, and the messager's count          *)
(* (session.ipp:208-244).                                                  *)
THEOREM OneOutcome ==
  ASSUME RecvInv, NEW size \in ReadSizes,
         NEW d1 \in recvmarkq_distributed .. StreamLength,
         NEW d2 \in recvmarkq_distributed .. StreamLength,
         NEW c1 \in 0 .. StreamLength, NEW c2 \in 0 .. StreamLength,
         ReadsTo(d1, size), ContiguousTo(c1, Passed(d1)),
         ReadsTo(d2, size), ContiguousTo(c2, Passed(d2))
  PROVE  d1 = d2 /\ c1 = c2
<1>1. /\ recvmarkq_distributed \in Nat /\ recvmarkq_read_offset \in Nat
      /\ StreamLength \in Nat /\ size \in Nat
      /\ d1 \in Nat /\ d2 \in Nat /\ c1 \in Nat /\ c2 \in Nat
      /\ recvmarkq_distributed <= d1 /\ recvmarkq_distributed <= d2
  BY QueueTypes
<1>2. ~ (d1 < d2)
  <2> SUFFICES ASSUME d1 < d2 PROVE FALSE
    OBVIOUS
  <2>1. d1 < recvmarkq_distributed + size - recvmarkq_read_offset
    BY <1>1 DEF ReadsTo
  <2>2. d1 \in recvmarkq_distributed .. d2 - 1
    BY <1>1
  <2>3. QED
    BY <2>1, <2>2 DEF ReadsTo
<1>3. ~ (d2 < d1)
  <2> SUFFICES ASSUME d2 < d1 PROVE FALSE
    OBVIOUS
  <2>1. d2 < recvmarkq_distributed + size - recvmarkq_read_offset
    BY <1>1 DEF ReadsTo
  <2>2. d2 \in recvmarkq_distributed .. d1 - 1
    BY <1>1
  <2>3. QED
    BY <2>1, <2>2 DEF ReadsTo
<1>4. d1 = d2
  BY <1>1, <1>2, <1>3
<1>5. c1 = c2
  BY <1>1, <1>4 DEF ContiguousTo
<1>6. QED
  BY <1>4, <1>5
=============================================================================
