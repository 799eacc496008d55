---------------------------- MODULE SessionSend ----------------------------
(***************************************************************************)
(* The sending half of a CurveCP session (detail/impl/session.ipp): the    *)
(* ring buffer of bytes the application wrote (pending_), the head block   *)
(* cut from it (sendq_head_), and the multiset of blocks that were sent    *)
(* and are not acknowledged yet (sendmarkq_).                              *)
(*                                                                         *)
(* Every action runs in the session strand, so it is atomic.  The callers  *)
(* are the application (write), close() and read() (which set              *)
(* pending_eof_), and libcurvecpr's messager, which is external: it calls  *)
(* the handle_send* callbacks while it processes the send queue and when a *)
(* packet with acknowledgments arrives.                                    *)
(*                                                                         *)
(* A byte is represented by its position in the application's stream, so   *)
(* a byte out of order, lost or repeated is visible in a block's data.     *)
(***************************************************************************)
EXTENDS Integers, Sequences, FiniteSets

CONSTANTS
  PendingMaximum,    \* pending_maximum_: capacity of the ring
  MaximumSendBytes,  \* messager_.my_maximum_send_bytes: capacity of a block
  SendmarkqMaximum,  \* sendmarkq_maximum_
  StreamLength,      \* bound: bytes the application writes before it stops
  WriteSizes         \* sizes of the buffers the application writes

ASSUME SendAssumption ==
  /\ PendingMaximum \in Nat \ {0}
  /\ MaximumSendBytes \in Nat \ {0}
  /\ SendmarkqMaximum \in Nat \ {0}
  /\ StreamLength \in Nat
  /\ WriteSizes \subseteq Nat \ {0}

VARIABLES
  pending,            \* contents of the ring
  pending_used,       \* bytes in the ring
  pending_current,    \* slot of the next byte to put in a block
  pending_next,       \* slot of the next byte to accept from the application
  pending_eof,        \* no more bytes are accepted, EOF must be sent
  sendq_head_exists,
  sendq_head,         \* the block waiting for its first transmission
  sendmarkq,          \* blocks sent and not acknowledged
  by_node,            \* offsets of sendmarkq's blocks in the order of the tree
  by_clock,           \* the same offsets, least recently sent first
  first_is_root,      \* the first node of the tree is its root
  my_eof,             \* messager: the EOF block has been sent
  my_sent_bytes,      \* messager: stream bytes sent so far
  written,            \* history: stream bytes accepted by write()
  writer              \* the outstanding write operation

ring == <<pending, pending_used, pending_current, pending_next>>
head == <<sendq_head_exists, sendq_head>>
mark == <<sendmarkq, by_node, by_clock, first_is_root>>
messager == <<my_eof, my_sent_bytes>>
vars == <<ring, pending_eof, head, mark, messager, written, writer>>

Slots == 0 .. PendingMaximum - 1

(* A slot or block byte that holds no stream byte: the vector and the      *)
(* block are zeroed.                                                       *)
NoByte == StreamLength

Bytes == 0 .. StreamLength

Block == [offset : Bytes, data_len : Bytes, eof : BOOLEAN,
          data : [0 .. MaximumSendBytes - 1 -> Bytes]]

ZeroBlock == [offset |-> 0, data_len |-> 0, eof |-> FALSE,
              data |-> [k \in 0 .. MaximumSendBytes - 1 |-> NoByte]]

End(b) == b.offset + b.data_len

Minimum(m, n) == IF m < n THEN m ELSE n

(* A write operation: none, suspended on pending_ready_write_, or resumed  *)
(* because that timer was cancelled.                                       *)
Idle == [state |-> "idle", size |-> 0]
Writer == {Idle} \cup [state : {"waiting", "resumed"}, size : WriteSizes]

Init ==
  /\ pending = [s \in Slots |-> NoByte]
  /\ pending_used = 0
  /\ pending_current = 0
  /\ pending_next = 0
  /\ pending_eof = FALSE
  /\ sendq_head_exists = FALSE
  /\ sendq_head = ZeroBlock
  /\ sendmarkq = {}
  /\ by_node = << >>
  /\ by_clock = << >>
  /\ first_is_root = TRUE
  /\ my_eof = FALSE
  /\ my_sent_bytes = 0
  /\ written = 0
  /\ writer = Idle

-----------------------------------------------------------------------------
(* Moving along the ring.                                                  *)

(* A position of the ring n bytes later: one past the end is a position,   *)
(* what goes beyond it starts again at the beginning.                      *)
\* Mutant: no wrap-around.
AdvanceUnwrapped(position, n) == position + n
Advance(position, n) ==
  IF position + n > PendingMaximum THEN n - (PendingMaximum - position)
                                   ELSE position + n

(* The slot of the k-th byte of those that start at a position.            *)
\* Mutant: the bytes before the end are counted twice.
SlotIgnoringEnd(position, k) ==
  IF position + k < PendingMaximum THEN position + k ELSE k % PendingMaximum
SlotAfter(position, k) ==
  IF position + k < PendingMaximum THEN position + k
                                   ELSE k - (PendingMaximum - position)

-----------------------------------------------------------------------------
(* write(): the application's bytes enter the ring.                        *)

\* Mutant: the bytes in the ring are not counted.
FitsEmptyRing(n) == n <= PendingMaximum
Fits(n) == n <= PendingMaximum - pending_used

(* The bytes go to the end of the ring, and from its beginning when they   *)
(* do not fit there.                                                       *)
Store(n) ==
  /\ pending' = [s \in Slots |->
                   IF \E k \in 0 .. n - 1 : s = SlotAfter(pending_next, k)
                   THEN written + (IF s >= pending_next THEN s - pending_next
                                   ELSE PendingMaximum - pending_next + s)
                   ELSE pending[s]]
  /\ pending_next' = Advance(pending_next, n)
  /\ pending_used' = pending_used + n
  /\ written' = written + n

(* One execution of write() for a buffer of n bytes: it completes with an  *)
(* EOF error, or must wait for room, or takes all n bytes.                 *)
TryWrite(n) ==
  \/ /\ pending_eof
     /\ writer' = Idle
     /\ UNCHANGED <<ring, written>>
  \/ /\ ~ pending_eof
     /\ ~ Fits(n)
     /\ writer' = [state |-> "waiting", size |-> n]
     /\ UNCHANGED <<ring, written>>
  \/ /\ ~ pending_eof
     /\ Fits(n)
     /\ Store(n)
     /\ writer' = Idle
     /\ UNCHANGED pending_current

Write(n) ==
  /\ writer = Idle
  /\ written + n <= StreamLength
  /\ TryWrite(n)
  /\ UNCHANGED <<pending_eof, head, mark, messager>>

RetryWrite ==
  /\ writer.state = "resumed"
  /\ TryWrite(writer.size)
  /\ UNCHANGED <<pending_eof, head, mark, messager>>

(* close(), or read() on seeing the peer's EOF: pending_eof_ = true.       *)
SetEof ==
  /\ ~ pending_eof
  /\ pending_eof' = TRUE
  /\ UNCHANGED <<ring, head, mark, messager, written, writer>>

-----------------------------------------------------------------------------
(* The messager's callbacks on the send queue.                             *)

\* Mutant: an EOF to send is forgotten when no byte is left.
SendqIsEmptyWithoutEof == ~ sendq_head_exists /\ pending_used = 0
SendqIsEmpty ==
  /\ ~ sendq_head_exists
  /\ pending_used = 0
  /\ pending_eof => my_eof

(* The block that the next requested bytes of the ring make.               *)
\* Mutant: the mark is set although bytes follow.
EarlyEof(requested) == pending_eof
LastBlock(requested) == pending_used = requested /\ pending_eof

CutBlock(requested) ==
  [offset   |-> 0,
   data_len |-> requested,
   eof      |-> LastBlock(requested),
   data     |-> [k \in 0 .. MaximumSendBytes - 1 |->
                   IF k < requested THEN pending[SlotAfter(pending_current, k)]
                                    ELSE NoByte]]

(* Cancelling pending_ready_write_ resumes a suspended write.              *)
\* Mutants: the writer is woken when its bytes fitted before the cut; only when
\* the cut empties the ring.
WakeWriterThatFits ==
  IF writer.state = "waiting" /\ Fits(writer.size)
  THEN [writer EXCEPT !.state = "resumed"] ELSE writer
WakeWriterOfEmptyRing ==
  IF writer.state = "waiting" /\ pending_used <= MaximumSendBytes
  THEN [writer EXCEPT !.state = "resumed"] ELSE writer
WakeWriter ==
  IF writer.state = "waiting" THEN [writer EXCEPT !.state = "resumed"]
                              ELSE writer

(* handle_sendq_head() without a head block: cut one and, when the ring    *)
(* has been allocated by a write, wake the writer.  The messager asks      *)
(* handle_sendq_is_empty() first, and cuts nothing from an empty queue.    *)
SendqHead ==
  /\ ~ SendqIsEmpty
  /\ ~ sendq_head_exists
  /\ LET requested == Minimum(pending_used, MaximumSendBytes)
     IN  /\ sendq_head' = CutBlock(requested)
         /\ pending_current' = Advance(pending_current, requested)
         /\ pending_used' = pending_used - requested
  /\ sendq_head_exists' = TRUE
  /\ writer' = IF written > 0 THEN WakeWriter ELSE writer
  /\ UNCHANGED <<pending, pending_next, pending_eof, mark, messager, written>>

SendmarkqIsFull == Cardinality(sendmarkq) >= SendmarkqMaximum

(* The messager sends the head block: it stamps the stream offset and a    *)
(* fresh clock on it, and handle_sendq_move_to_sendmarkq() inserts a copy. *)
(* The clock is the latest, so the copy becomes the last node of the tree. *)
(* The first node of a balanced tree is its root only in a tree of one or  *)
(* two nodes.                                                              *)
SendHead ==
  /\ sendq_head_exists
  /\ ~ SendmarkqIsFull
  /\ LET sent == [sendq_head EXCEPT !.offset = my_sent_bytes]
     IN  /\ sendmarkq' = sendmarkq \cup {sent}
         /\ by_node' = Append(by_node, sent.offset)
         /\ by_clock' = Append(by_clock, sent.offset)
         /\ first_is_root' = (Cardinality(sendmarkq) <= 1)
         /\ my_sent_bytes' = End(sent)
         /\ my_eof' = (my_eof \/ sent.eof)
  /\ sendq_head_exists' = FALSE
  /\ UNCHANGED <<ring, pending_eof, sendq_head, written, writer>>

Without(q, offset) == SelectSeq(q, LAMBDA o : o # offset)

(* The messager retransmits the block handle_sendmarkq_head() gives, the   *)
(* first node of the tree.  It has already given the block a new clock     *)
(* when handle_sendq_move_to_sendmarkq() looks the block up by clock: the  *)
(* search for the latest clock goes right at every node, so it meets the   *)
(* first node only at the root.  A block that is found is moved to its new *)
(* place; it is then the second of two nodes, or the only one.             *)
Resend ==
  /\ \E b \in sendmarkq :
        /\ b.offset = Head(by_node)
        /\ by_clock' = Append(Without(by_clock, b.offset), b.offset)
        /\ by_node' = IF first_is_root THEN Append(Tail(by_node), b.offset)
                                       ELSE by_node
  /\ UNCHANGED <<ring, pending_eof, head, sendmarkq, first_is_root, messager,
                 written, writer>>

\* Mutant: the end of the block is not looked at.
WithinLoose(b, start, end) == start <= b.offset /\ b.offset <= end
Within(b, start, end) == start <= b.offset /\ End(b) <= end

(* Which tree is left depends on its balance when two nodes are left.      *)
RootAfter(kept) ==
  IF kept = sendmarkq THEN {first_is_root}
  ELSE CASE Cardinality(kept) < 2 -> {TRUE}
         [] Cardinality(kept) = 2 -> BOOLEAN
         [] OTHER -> {FALSE}

(* handle_sendmarkq_remove_range() for each range <<start, end>> of an     *)
(* acknowledgment.                                                         *)
RemoveRanges(ranges) ==
  LET acked(b) == \E r \in ranges : Within(b, r[1], r[2])
      kept == {b \in sendmarkq : ~ acked(b)}
      isKept(o) == \E b \in kept : b.offset = o
  IN  /\ sendmarkq' = kept
      /\ by_node' = SelectSeq(by_node, isKept)
      /\ by_clock' = SelectSeq(by_clock, isKept)
      /\ first_is_root' \in RootAfter(kept)
      /\ UNCHANGED <<ring, pending_eof, head, messager, written, writer>>

-----------------------------------------------------------------------------
(* Alone, the sending half sees any acknowledgment of bytes it has sent.   *)
Acknowledge ==
  \E start \in 0 .. my_sent_bytes :
    \E end \in start .. my_sent_bytes : RemoveRanges({<<start, end>>})

Next ==
  \/ \E n \in WriteSizes : Write(n)
  \/ RetryWrite
  \/ SetEof
  \/ SendqHead
  \/ SendHead
  \/ Resend
  \/ Acknowledge

Spec == Init /\ [][Next]_vars

(* The strand runs a resumed write; the send queue timer is always armed   *)
(* again, so the messager keeps cutting and sending blocks; the peer keeps *)
(* acknowledging what was sent.                                            *)
FairSpec ==
  /\ Spec
  /\ WF_vars(RetryWrite)
  /\ WF_vars(SendqHead)
  /\ WF_vars(SendHead)
  /\ WF_vars(RemoveRanges({<<0, my_sent_bytes>>}))

-----------------------------------------------------------------------------
(* Types, and the capacity of the ring and of sendmarkq_.  In particular   *)
(* no position leaves the ring, whose arithmetic is on unsigned numbers.   *)
TypeOK ==
  /\ pending \in [Slots -> Bytes]
  /\ pending_used \in 0 .. PendingMaximum
  /\ pending_current \in 0 .. PendingMaximum
  /\ pending_next \in 0 .. PendingMaximum
  /\ pending_eof \in BOOLEAN
  /\ sendq_head_exists \in BOOLEAN
  /\ sendq_head \in Block
  /\ sendmarkq \subseteq Block
  /\ first_is_root \in BOOLEAN
  /\ my_eof \in BOOLEAN
  /\ my_sent_bytes \in 0 .. StreamLength
  /\ written \in 0 .. StreamLength
  /\ writer \in Writer

(* The i-th byte of the ring is the i-th byte of the stream after those    *)
(* cut from it: whatever the wrap-arounds, write() (session.ipp:292-307)   *)
(* never overwrites a byte that no block has taken yet.                    *)
RingInOrder ==
  \A i \in 0 .. pending_used - 1 :
    pending[SlotAfter(pending_current, i)] = written - pending_used + i

InOrder(b) == \A k \in 0 .. b.data_len - 1 : b.data[k] = b.offset + k

(* A block that was sent carries the stream's bytes from its offset on: no *)
(* byte is lost, repeated or displaced between write() and the wire, with  *)
(* the block cut at one time (session.ipp:326-346) and given its offset at *)
(* another.                                                                *)
BlocksInOrder == \A b \in sendmarkq : InOrder(b)

(* The EOF mark is on the last block of the stream only (session.ipp:352): *)
(* every byte write() accepted before the EOF has been sent when the mark  *)
(* is, although the mark is decided when the block is cut.                 *)
EofIsLast ==
  /\ \A b \in sendmarkq : b.eof => End(b) = written
  /\ my_eof => my_sent_bytes = written /\ pending_eof /\ ~ sendq_head_exists

(* A suspended write is one the ring has no room for: whoever made room    *)
(* has woken it (session.ipp:349).                                         *)
NoLostWriterWakeup == writer.state = "waiting" => ~ Fits(writer.size)

(* Every write of at most the ring's capacity completes, however often it  *)
(* is suspended (session.ipp:283-284).                                     *)
WritesComplete ==
  writer.state # "idle" /\ writer.size <= PendingMaximum
    ~> writer.state = "idle"

(* Once close() or read() has set pending_eof_, an EOF block is sent, also *)
(* when all bytes were sent before (session.ipp:397-408).                  *)
EofIsSent == pending_eof ~> my_eof

(* session.hpp:332 says that sendmarkq_ is sorted, by clock according to   *)
(* its comparison, and session.ipp:374 that a retransmitted block is       *)
(* sorted to its new position.                                             *)
SortedByClock == by_node = by_clock
=============================================================================
