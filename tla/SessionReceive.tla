-------------------------- MODULE SessionReceive --------------------------
(***************************************************************************)
(* The receiving half of a CurveCP session (detail/impl/session.ipp): the  *)
(* multiset of received blocks (recvmarkq_), from which read() distributes *)
(* the stream to the application and the messager takes the blocks to      *)
(* acknowledge.  A block leaves recvmarkq_ when it has been distributed    *)
(* and acknowledged, in either order.                                      *)
(*                                                                         *)
(* Every action runs in the session strand.  libcurvecpr's messager is     *)
(* external: it stores the blocks of the packets it receives, which the    *)
(* network loses, duplicates and reorders, and acknowledges stored blocks  *)
(* in the packets it sends.                                                *)
(***************************************************************************)
EXTENDS Integers, FiniteSets

CONSTANTS
  StreamLength,      \* bytes the peer sends before its EOF
  Blocks,            \* the blocks the peer cuts its stream into
  RecvmarkqMaximum,  \* recvmarkq_maximum_
  ReadSizes          \* sizes of the buffers the application reads into

End(b) == b.offset + b.data_len

Bytes == 0 .. StreamLength - 1

ASSUME ReceiveAssumption ==
  /\ StreamLength \in Nat
  /\ Blocks \subseteq [offset : 0 .. StreamLength, data_len : 0 .. StreamLength,
                       eof : BOOLEAN]
  /\ \A b \in Blocks : /\ End(b) <= StreamLength
                       /\ b.eof => End(b) = StreamLength
  /\ RecvmarkqMaximum \in Nat \ {0}
  /\ ReadSizes \subseteq Nat \ {0}

VARIABLES
  recvmarkq,                    \* blocks received, with their status
  recvmarkq_distributed,        \* bytes distributed to the application
  recvmarkq_read_offset,        \* bytes in the buffer of the current read
  pending_eof,                  \* the peer's EOF was read, or close() called
  their_contiguous_sent_bytes,  \* messager: every byte before it is received
  reader,                       \* the outstanding read operation
  delivered,                    \* history: bytes in completed reads
  acked,                        \* history: bytes acknowledged to the peer
  closed,                       \* history: close() was called here
  eof_delivered                 \* history: a read completed with EOF

progress == <<recvmarkq_distributed, recvmarkq_read_offset>>
history == <<delivered, acked, closed, eof_delivered>>
vars == <<recvmarkq, progress, pending_eof, their_contiguous_sent_bytes,
          reader, history>>

(* A node of recvmarkq_.  Two nodes may hold the same block, with the same *)
(* status: copy tells them apart.                                          *)
Entry == [block : Blocks, distributed : BOOLEAN, acknowledged : BOOLEAN,
          copy : 1 .. RecvmarkqMaximum]

Holds(e, p) == e.block.offset <= p /\ p < End(e.block)

Stored(p) == \E e \in recvmarkq : Holds(e, p)

Idle == [state |-> "idle", size |-> 0]
Reader == {Idle} \cup [state : {"waiting", "resumed"}, size : ReadSizes]

Init ==
  /\ recvmarkq = {}
  /\ recvmarkq_distributed = 0
  /\ recvmarkq_read_offset = 0
  /\ pending_eof = FALSE
  /\ their_contiguous_sent_bytes = 0
  /\ reader = Idle
  /\ delivered = 0
  /\ acked = {}
  /\ closed = FALSE
  /\ eof_delivered = FALSE

-----------------------------------------------------------------------------
(* handle_recvmarkq_put(): the messager stores a received block.           *)

\* Mutant: one node too many.
RecvmarkqIsFullWhenExceeded == Cardinality(recvmarkq) > RecvmarkqMaximum
RecvmarkqIsFull == Cardinality(recvmarkq) >= RecvmarkqMaximum

(* A copy of a block gets a number that no stored copy of it has.          *)
FreeCopy(b) ==
  CHOOSE c \in 1 .. Cardinality(recvmarkq) + 1 :
    \A e \in recvmarkq : e.block = b => e.copy # c

\* Mutant: the reader is woken by the first block only.
WakeReaderOfEmpty ==
  IF reader.state = "waiting" /\ ~ pending_eof /\ recvmarkq = {}
  THEN [reader EXCEPT !.state = "resumed"] ELSE reader
WakeReader ==
  IF reader.state = "waiting" /\ ~ pending_eof
  THEN [reader EXCEPT !.state = "resumed"] ELSE reader

(* A new node counts as distributed when nobody reads any more.            *)
NewEntry(b) == [block |-> b, distributed |-> pending_eof,
                acknowledged |-> FALSE, copy |-> FreeCopy(b)]

Put(b) ==
  /\ ~ RecvmarkqIsFull
  /\ recvmarkq' = recvmarkq \cup {NewEntry(b)}
  /\ reader' = WakeReader
  /\ UNCHANGED <<progress, pending_eof, their_contiguous_sent_bytes, history>>

-----------------------------------------------------------------------------
(* read(): the application takes the bytes that follow in the stream.      *)
(* This says what one call computes; ReadLoop has the loop that does it.   *)

(* How far a read can get: over stored bytes, within its buffer.           *)
ReadsTo(d, size) ==
  LET limit == recvmarkq_distributed + size - recvmarkq_read_offset
  IN  /\ \A p \in recvmarkq_distributed .. d - 1 : Stored(p)
      /\ d <= limit
      /\ d < limit => ~ Stored(d)

(* The nodes the loop passes before the one that does not fit in the       *)
(* buffer, or that lies behind a gap.  They are visited by offset.         *)
Passed(d) ==
  {e \in recvmarkq :
     /\ End(e.block) <= d
     /\ \A f \in recvmarkq : f.block.offset < e.block.offset => End(f.block) <= d}

(* The messager's count follows what is distributed, but only when a node  *)
(* is passed: it misses the bytes of one that is read in part.             *)
ContiguousTo(c, passed) ==
  LET counts == {their_contiguous_sent_bytes, recvmarkq_distributed}
                  \cup {End(e.block) : e \in passed}
  IN  IF passed = {} THEN c = their_contiguous_sent_bytes
      ELSE c \in counts /\ \A m \in counts : m <= c

\* Mutant: an EOF mark behind a gap counts.
EofStored(passed) == \E e \in recvmarkq : e.block.eof
EofPassed(passed) == \E e \in passed : e.block.eof

(* A node that has been acknowledged too is deleted.                       *)
Distribute(passed) ==
  {e \in recvmarkq : e \notin passed}
    \cup {[e EXCEPT !.distributed = TRUE] : e \in {f \in passed : ~ f.acknowledged}}

(* One execution of read() for a buffer of size bytes.                     *)
TryRead(size) ==
  \E d \in recvmarkq_distributed .. StreamLength,
     c \in 0 .. StreamLength :
    LET passed == Passed(d)
        filled == recvmarkq_read_offset + d - recvmarkq_distributed
        eof    == pending_eof \/ EofPassed(passed)
        done   == filled = size \/ eof
    IN  /\ ReadsTo(d, size)
        /\ ContiguousTo(c, passed)
        /\ recvmarkq' = Distribute(passed)
        /\ recvmarkq_distributed' = d
        /\ recvmarkq_read_offset' = IF done THEN 0 ELSE filled
        /\ pending_eof' = eof
        /\ their_contiguous_sent_bytes' = c
        /\ reader' = IF done THEN Idle ELSE [state |-> "waiting", size |-> size]
        /\ delivered' = IF done THEN delivered + filled ELSE delivered
        /\ eof_delivered' = (eof_delivered \/ eof)
        /\ UNCHANGED <<acked, closed>>

Read(size) == reader = Idle /\ TryRead(size)

RetryRead == reader.state = "resumed" /\ TryRead(reader.size)

(* close() on this side: nobody reads any more.                            *)
Close ==
  /\ ~ closed
  /\ closed' = TRUE
  /\ pending_eof' = TRUE
  /\ UNCHANGED <<recvmarkq, progress, their_contiguous_sent_bytes, reader,
                 delivered, acked, eof_delivered>>

-----------------------------------------------------------------------------
(* The messager acknowledges stored blocks in a packet it sends.           *)

(* handle_recvmarkq_get_nth_unacknowledged() gives it these.               *)
Unacknowledged == {e \in recvmarkq : ~ e.acknowledged}

(* handle_recvmarkq_remove_range() for a set of byte ranges.               *)
Within(b, r) == r[1] <= b.offset /\ End(b) <= r[2]

\* Mutant: an acknowledged node is deleted before it is distributed.
AfterDeletingRanges(ranges) ==
  {e \in recvmarkq : \A r \in ranges : ~ Within(e.block, r)}
AfterRemoveRanges(ranges) ==
  LET hit == {e \in recvmarkq : \E r \in ranges : Within(e.block, r)}
  IN  (recvmarkq \ hit)
        \cup {[e EXCEPT !.acknowledged = TRUE] : e \in {f \in hit : ~ f.distributed}}

(* The first range of a packet reaches from the start of the stream over   *)
(* the bytes known to be contiguous and the blocks that extend them, the   *)
(* others are those of further blocks.                                     *)
AckReaches(c) ==
  LET held(p) == \E e \in Unacknowledged : Holds(e, p)
  IN  /\ \A p \in their_contiguous_sent_bytes .. c - 1 : held(p)
      /\ ~ held(c)

RangesOf(c, more) ==
  {<<0, c>>} \cup {<<e.block.offset, End(e.block)>> : e \in more}

SendAck(c, more) ==
  /\ recvmarkq # {}
  /\ AckReaches(c)
  /\ their_contiguous_sent_bytes' = c
  /\ recvmarkq' = AfterRemoveRanges(RangesOf(c, more))
  /\ acked' = acked \cup {p \in Bytes : \E r \in RangesOf(c, more) :
                                           r[1] <= p /\ p < r[2]}
  /\ UNCHANGED <<progress, pending_eof, reader, delivered, closed, eof_delivered>>

Next ==
  \/ \E b \in Blocks : Put(b)
  \/ \E n \in ReadSizes : Read(n)
  \/ RetryRead
  \/ Close
  \/ \E c \in their_contiguous_sent_bytes .. StreamLength :
       \E more \in SUBSET Unacknowledged : SendAck(c, more)

Spec == Init /\ [][Next]_vars

-----------------------------------------------------------------------------
(* Types, and the capacity of recvmarkq_ as the code counts it, over all   *)
(* nodes (session.ipp:470), while session.hpp:126 and 278 document it as   *)
(* the maximum of those unacknowledged.                                    *)
TypeOK ==
  /\ recvmarkq \subseteq Entry
  /\ Cardinality(recvmarkq) <= RecvmarkqMaximum
  /\ recvmarkq_distributed \in 0 .. StreamLength
  /\ recvmarkq_read_offset \in 0 .. StreamLength
  /\ pending_eof \in BOOLEAN
  /\ their_contiguous_sent_bytes \in 0 .. StreamLength
  /\ reader \in Reader
  /\ delivered \in 0 .. StreamLength
  /\ acked \subseteq Bytes
  /\ closed \in BOOLEAN
  /\ eof_delivered \in BOOLEAN

(* An acknowledged byte, which the peer is free to forget, has been        *)
(* distributed or is still stored, until close() is called here: deleting  *)
(* a node in read() (session.ipp:247-250) or in                            *)
(* handle_recvmarkq_remove_range() (session.ipp:533-538), whichever comes  *)
(* last, loses nothing.                                                    *)
AckedIsKept ==
  ~ closed => \A p \in acked : p < recvmarkq_distributed \/ Stored(p)

(* Every byte the messager counts as contiguous was received, although     *)
(* read() writes that count too (session.ipp:243-244).                     *)
ContiguousIsReceived ==
  ~ closed => \A p \in 0 .. their_contiguous_sent_bytes - 1 :
                p < recvmarkq_distributed \/ Stored(p)

(* The bytes of completed reads and of the current one are the stream's    *)
(* first, and a read reports EOF only with the stream's last byte, unless  *)
(* close() was called here (session.ipp:237-238, 257-264).                 *)
EofAfterData ==
  /\ delivered + recvmarkq_read_offset = recvmarkq_distributed
  /\ eof_delivered /\ ~ closed => delivered = StreamLength

(* A suspended read waits for a byte, or an EOF mark, that is not stored:  *)
(* handle_recvmarkq_put() has woken it otherwise (session.ipp:485-486).    *)
NoLostReaderWakeup ==
  reader.state = "waiting" /\ ~ pending_eof =>
    /\ ~ Stored(recvmarkq_distributed)
    /\ \A e \in recvmarkq : e.block.eof => End(e.block) > recvmarkq_distributed
=============================================================================
