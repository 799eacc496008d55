------------------------------ MODULE ReadLoop ------------------------------
(***************************************************************************)
(* The receiving half with read()'s loop over recvmarkq_                   *)
(* (session.ipp:212-255) step by step, one action per iteration, in the    *)
(* order of the multiset: it implements SessionReceive, which says in      *)
(* terms of sets and bytes what the loop computes.                         *)
(*                                                                         *)
(* The loop runs in one handler of the session strand.  What it changes is *)
(* kept in loop until it is over, as nobody sees it before.                *)
(***************************************************************************)
EXTENDS SessionReceive

VARIABLE loop  \* read() while it runs: its buffer, and what it has changed

Off == [at |-> "off", size |-> 0, distributed |-> 0, read_offset |-> 0,
        eof |-> FALSE, contiguous |-> 0, passed |-> {}]

LoopInit == Init /\ loop = Off

-----------------------------------------------------------------------------
(* The order of recvmarkq_: by offset, then by length.  Equal nodes are    *)
(* visited in some order.                                                  *)

\* Mutant: nodes with the same offset are in no order.
BeforeByOffset(e, f) == e.block.offset < f.block.offset
Before(e, f) ==
  \/ e.block.offset < f.block.offset
  \/ e.block.offset = f.block.offset /\ e.block.data_len < f.block.data_len

Ahead == recvmarkq \ loop.passed

Visits(e) == e \in Ahead /\ \A f \in Ahead : ~ Before(f, e)

-----------------------------------------------------------------------------
(* One iteration: what follows from a node e.                              *)

Take(at, len) ==
  [at EXCEPT !.distributed = @ + len, !.read_offset = @ + len]

\* Mutant: the count reaches over gaps.
PassAndCountStored(at, e) ==
  [at EXCEPT !.eof = @ \/ e.block.eof,
             !.passed = @ \cup {e},
             !.contiguous = CHOOSE m \in {End(f.block) : f \in recvmarkq} :
                              \A f \in recvmarkq : End(f.block) <= m]
Pass(at, e) ==
  [at EXCEPT !.eof = @ \/ e.block.eof,
             !.passed = @ \cup {e},
             !.contiguous = IF @ < at.distributed THEN at.distributed ELSE @]

Break(at) == [at EXCEPT !.at = "done"]

(* Bytes of e that follow what is distributed, and room for them.          *)
Fresh(at, e) ==
  IF End(e.block) > at.distributed THEN End(e.block) - at.distributed ELSE 0
Room(at) == at.size - at.read_offset

\* Mutant: the EOF mark of a node behind a gap counts.
IterateEofFirst(at, e) ==
  LET seen == [at EXCEPT !.eof = @ \/ e.block.eof]
  IN  IF e.block.offset > at.distributed THEN Break(seen)
      ELSE IF Fresh(at, e) > Room(at) THEN Break(Take(seen, Room(at)))
      ELSE Pass(Take(seen, Fresh(at, e)), e)
Iterate(at, e) ==
  IF e.block.offset > at.distributed THEN Break(at)
  ELSE IF Fresh(at, e) > Room(at) THEN Break(Take(at, Room(at)))
  ELSE Pass(Take(at, Fresh(at, e)), e)

-----------------------------------------------------------------------------
(* read() is called, or called again when its operation is resumed.        *)
StartRead(size) ==
  /\ loop = Off
  /\ reader = Idle \/ reader = [state |-> "resumed", size |-> size]
  /\ loop' = [at |-> "next", size |-> size,
              distributed |-> recvmarkq_distributed,
              read_offset |-> recvmarkq_read_offset,
              eof |-> pending_eof,
              contiguous |-> their_contiguous_sent_bytes,
              passed |-> {}]
  /\ UNCHANGED vars

Visit(e) ==
  /\ loop.at = "next" /\ Visits(e)
  /\ loop' = Iterate(loop, e)
  /\ UNCHANGED vars

EndOfQueue ==
  /\ loop.at = "next" /\ Ahead = {}
  /\ loop' = Break(loop)
  /\ UNCHANGED vars

FinishRead ==
  LET done == loop.read_offset = loop.size \/ loop.eof
  IN  /\ loop.at = "done"
      /\ recvmarkq' = Distribute(loop.passed)
      /\ recvmarkq_distributed' = loop.distributed
      /\ recvmarkq_read_offset' = IF done THEN 0 ELSE loop.read_offset
      /\ pending_eof' = loop.eof
      /\ their_contiguous_sent_bytes' = loop.contiguous
      /\ reader' = IF done THEN Idle
                           ELSE [state |-> "waiting", size |-> loop.size]
      /\ delivered' = IF done THEN delivered + loop.read_offset ELSE delivered
      /\ eof_delivered' = (eof_delivered \/ loop.eof)
      /\ loop' = Off
      /\ UNCHANGED <<acked, closed>>

(* The other handlers of the strand.                                       *)
Handler ==
  \/ \E b \in Blocks : Put(b)
  \/ Close
  \/ \E c \in their_contiguous_sent_bytes .. StreamLength :
       \E more \in SUBSET Unacknowledged : SendAck(c, more)

LoopNext ==
  \/ \E n \in ReadSizes : StartRead(n)
  \/ \E e \in recvmarkq : Visit(e)
  \/ EndOfQueue
  \/ FinishRead
  \/ loop = Off /\ Handler /\ UNCHANGED loop

LoopSpec == LoopInit /\ [][LoopNext]_<<vars, loop>>

-----------------------------------------------------------------------------
(* Whatever the blocks, and in whatever order equal ones are visited, the  *)
(* loop (session.ipp:212-255) distributes the bytes, passes the nodes and  *)
(* leaves the EOF flag and the messager's count that SessionReceive says.  *)
ReadIsAtomic == Spec
=============================================================================
