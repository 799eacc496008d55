---------------------------- MODULE SessionLife ----------------------------
(***************************************************************************)
(* The life of a CurveCP session (detail/impl/session.ipp): start(), the   *)
(* send queue timer, close() with its timer of five seconds, do_close(),   *)
(* and the application's operations, which suspend themselves on the       *)
(* pending_ready_* timers and are retried when these are cancelled.        *)
(*                                                                         *)
(* A handler that is ready waits for the session strand, which runs one at *)
(* a time; several threads may hand handlers over, so their order is left  *)
(* open.  A timer whose handler is ready can no longer be cancelled.       *)
(* Handlers with the error operation_aborted return at once and are left   *)
(* out.  A packet that is handed over to the strand, or a receive handler  *)
(* of the client's socket that is ready, is processed later, after         *)
(* do_close() as well.                                                     *)
(*                                                                         *)
(* Member functions call each other, so the session is a record and a      *)
(* function is an operator on it; one with several outcomes is a set.  The *)
(* ring and recvmarkq_ are reduced to numbers here: SessionSend and        *)
(* SessionReceive model them.                                              *)
(***************************************************************************)
EXTENDS Naturals

CONSTANTS
  MaxPending,  \* bound: writes the ring holds
  MaxUnread,   \* bound: unread blocks in recvmarkq_
  MaxReady     \* bound: ready handlers of the send queue timer

ASSUME LifeAssumption ==
  MaxPending \in Nat \ {0} /\ MaxUnread \in Nat \ {0} /\ MaxReady \in Nat \ {0}

VARIABLE session

(* An operation is idle, suspended on its pending_ready timer, or ready to *)
(* be retried.  The one close operation ends.                              *)
OpStates == {"idle", "waiting", "ready"}

(* Packets: a block of data, the EOF mark when every byte before it has    *)
(* arrived, an acknowledgment of our EOF, and, of a client, the cookie.    *)
Packets == {"data", "eof", "ack", "cookie"}

Session ==
  [type : {"client", "server"},
   running : BOOLEAN, pending_close : BOOLEAN, pending_eof : BOOLEAN,
   pending_used : 0 .. MaxPending,       \* writes in the ring
   unread : 0 .. MaxUnread,              \* blocks read() has not passed
   eof_stored : BOOLEAN,                 \* the peer's EOF mark is stored
   packets : SUBSET Packets,             \* handed over to the strand
   send_queue_timer : BOOLEAN,           \* the timer is waiting
   send_queue_ready : 0 .. MaxReady,     \* its handlers that are ready
   close_timer : {"off", "waiting", "ready"},
   reader : OpStates, writer : OpStates, closer : OpStates \cup {"done"},
   my_eof : BOOLEAN, my_final : BOOLEAN, their_final : BOOLEAN,  \* messager
   lower_open : BOOLEAN,                 \* the close handler was not called
   \* history: do_close() has run; it or close() ran while packets had been
   \* handed over; the close timer has expired; close() was called; a read
   \* has passed the peer's EOF mark
   finished : BOOLEAN, late : BOOLEAN, timed_out : BOOLEAN,
   close_called : BOOLEAN, eof_read : BOOLEAN]

NewSession(type) ==
  [type |-> type, running |-> FALSE, pending_close |-> FALSE,
   pending_eof |-> FALSE, pending_used |-> 0, unread |-> 0,
   eof_stored |-> FALSE, packets |-> {}, send_queue_timer |-> FALSE,
   send_queue_ready |-> 0, close_timer |-> "off",
   reader |-> "idle", writer |-> "idle", closer |-> "idle",
   my_eof |-> FALSE, my_final |-> FALSE, their_final |-> FALSE,
   lower_open |-> TRUE, finished |-> FALSE, late |-> FALSE,
   timed_out |-> FALSE, close_called |-> FALSE, eof_read |-> FALSE]

Init == session \in {NewSession(type) : type \in {"client", "server"}}

-----------------------------------------------------------------------------
(* The member functions.                                                   *)

(* Cancelling a timer makes the operation suspended on it ready.           *)
Woken(op) == IF op = "waiting" THEN "ready" ELSE op

CleanUp(s) ==
  [s EXCEPT !.running = FALSE, !.pending_close = FALSE, !.pending_eof = FALSE,
            !.pending_used = 0, !.unread = 0, !.eof_stored = FALSE,
            !.send_queue_timer = FALSE,
            !.close_timer = IF @ = "waiting" THEN "off" ELSE @,
            !.reader = Woken(@), !.writer = Woken(@),
            !.finished = TRUE, !.late = @ \/ s.packets # {}]

\* Mutant: pending_ready_close_ is not cancelled.
DoCloseKeepingCloser(s) == [CleanUp(s) EXCEPT !.lower_open = FALSE]
\* Mutant: the close handler is not called, so packets go on.
DoCloseUnnoticed(s) == [CleanUp(s) EXCEPT !.closer = Woken(@)]
DoClose(s) == [CleanUp(s) EXCEPT !.lower_open = FALSE, !.closer = Woken(@)]

(* curvecpr_messager_process_sendq() sends nothing new, or a block from    *)
(* the ring, or a block with the EOF mark only.                            *)
SendsBlock(s) ==
  [s EXCEPT !.pending_used = @ - 1, !.writer = Woken(@),
            !.my_eof = @ \/ (s.pending_used = 1 /\ s.pending_eof)]
SendsEof(s) == [s EXCEPT !.my_eof = TRUE]

ProcessSendq(s) ==
  {s} \cup (IF s.pending_used > 0 THEN {SendsBlock(s)}
            ELSE IF s.pending_eof /\ ~ s.my_eof THEN {SendsEof(s)} ELSE {})

(* Arming a timer that waits cancels it first.                             *)
\* Mutant: the timer is armed for what is pending only.
RescheduleIfPending(s) == [s EXCEPT !.send_queue_timer = s.pending_used > 0]
Reschedule(s) == [s EXCEPT !.send_queue_timer = TRUE]

\* Mutant: one direction is enough.
EitherFinal(s) == s.my_final \/ s.their_final
BothFinal(s) == s.my_final /\ s.their_final

HandleProcessSendQueue(s) ==
  {IF BothFinal(t) THEN DoClose(t) ELSE Reschedule(t) : t \in ProcessSendq(s)}

(* close() and close_op's use of its result.                               *)
CloseNotRunning(s) ==
  [s EXCEPT !.reader = Woken(@), !.writer = Woken(@), !.lower_open = FALSE,
            !.late = @ \/ s.packets # {}, !.closer = "done"]

Closing(s) == [s EXCEPT !.pending_close = TRUE, !.pending_eof = TRUE]

(* The close timer is off: where do_close() has left its handler ready,    *)
(* both directions are final, and the turn before ends the session again.  *)
StartCloseTimer(s) == [s EXCEPT !.close_timer = "waiting", !.closer = "waiting"]

Close(s) ==
  IF ~ s.running THEN {CloseNotRunning(s)}
  ELSE IF s.pending_close THEN {[s EXCEPT !.closer = "waiting"]}
  ELSE {IF t.running THEN StartCloseTimer(t) ELSE [t EXCEPT !.closer = "done"] :
          t \in HandleProcessSendQueue(Closing(s))}

(* read() of a buffer as long as a block.                                  *)
\* Mutant: a read that finds nothing completes with the error.
TryReadNonblocking(s) ==
  LET left == IF s.unread > 0 THEN s.unread - 1 ELSE 0
  IN  [s EXCEPT !.unread = left, !.pending_eof = @ \/ s.unread = 0,
                !.eof_read = @ \/ s.unread = 0, !.reader = "idle"]
TryRead(s) ==
  LET left == IF s.unread > 0 THEN s.unread - 1 ELSE 0
      passed_eof == s.eof_stored /\ left = 0
      eof == s.pending_eof \/ passed_eof
  IN  [s EXCEPT !.unread = left,
                !.pending_eof = eof,
                !.eof_read = @ \/ passed_eof,
                !.reader = IF s.unread > 0 \/ eof THEN "idle" ELSE "waiting"]

(* write(): it completes with an EOF error, waits for room, or stores.     *)
\* Mutant: pending_eof_ is not looked at.
TryWriteAfterEof(s) ==
  IF s.pending_used = MaxPending THEN [s EXCEPT !.writer = "waiting"]
  ELSE [s EXCEPT !.writer = "idle", !.pending_used = @ + 1,
                 !.send_queue_timer = @ \/ s.running]
\* Mutant: the ring's capacity is not looked at.
TryWriteUnbounded(s) ==
  IF s.pending_eof THEN [s EXCEPT !.writer = "idle"]
  ELSE [s EXCEPT !.writer = "idle", !.pending_used = @ + 1,
                 !.send_queue_timer = @ \/ s.running]
TryWrite(s) ==
  IF s.pending_eof THEN [s EXCEPT !.writer = "idle"]
  ELSE IF s.pending_used = MaxPending THEN [s EXCEPT !.writer = "waiting"]
  ELSE [s EXCEPT !.writer = "idle", !.pending_used = @ + 1,
                 !.send_queue_timer = @ \/ s.running]

(* start(): running_ is set, and the send queue is processed, in the       *)
(* strand at once.                                                         *)
StartIn(s) == HandleProcessSendQueue([s EXCEPT !.running = TRUE])

(* The messager processes a packet.  Blocks that come after do_close() may *)
(* lie behind recvmarkq_distributed_, which starts again at 0: then they   *)
(* are never read.                                                         *)
RecvmarkqIsFull(s) == s.unread = MaxUnread
Put(s) ==
  IF s.pending_eof \/ RecvmarkqIsFull(s) THEN s
  ELSE [s EXCEPT !.unread = @ + 1, !.reader = Woken(@)]
PutEof(s) ==
  [s EXCEPT !.eof_stored = TRUE,
            !.reader = IF s.pending_eof THEN @ ELSE Woken(@)]

MessagerRecv(s, packet) ==
  CASE packet = "data" -> {Put(s)} \cup (IF s.finished THEN {s} ELSE {})
    [] packet = "eof" -> {PutEof(s)} \cup (IF s.finished THEN {s} ELSE {})
    [] packet = "ack" -> {[s EXCEPT !.my_final = TRUE]}
    [] packet = "cookie" -> {s}

(* Every datagram the client accepts once it has the cookie starts the     *)
(* session, again.  It may not accept one with a block that recvmarkq_ has *)
(* no room for: that is the messager's choice.                             *)
LowerReceive(s, packet) ==
  LET t == [s EXCEPT !.packets = @ \ {packet}]
      refused == {r \in {t} : packet = "data" /\ RecvmarkqIsFull(r)}
  IN  IF s.type = "server" THEN MessagerRecv(t, packet)
      ELSE refused \cup UNION {StartIn(r) : r \in MessagerRecv(t, packet)}

-----------------------------------------------------------------------------
(* The application, which has a server's stream once it is accepted.       *)

Started(s) == s.running \/ s.finished
HasStream(s) == s.type = "client" \/ Started(s)

(* start() by accept(), outside of the strand.                             *)
Start ==
  /\ session.type = "server" /\ ~ Started(session)
  /\ session' = [session EXCEPT !.running = TRUE, !.send_queue_ready = @ + 1]

Read ==
  /\ session.reader = "idle" /\ HasStream(session)
  /\ session' = TryRead(session)

Write ==
  /\ session.writer = "idle" /\ HasStream(session)
  /\ session' = TryWrite(session)

AsyncClose ==
  /\ session.closer = "idle" /\ HasStream(session)
  /\ session' \in Close([session EXCEPT !.close_called = TRUE])

-----------------------------------------------------------------------------
(* Handlers the strand runs.                                               *)

RetryRead == session.reader = "ready" /\ session' = TryRead(session)

RetryWrite == session.writer = "ready" /\ session' = TryWrite(session)

RetryClose == session.closer = "ready" /\ session' \in Close(session)

RunSendQueue ==
  /\ session.send_queue_ready > 0
  /\ session' \in
       HandleProcessSendQueue([session EXCEPT !.send_queue_ready = @ - 1])

RunCloseTimeout ==
  /\ session.close_timer = "ready"
  /\ session' = DoClose([session EXCEPT !.close_timer = "off"])

-----------------------------------------------------------------------------
(* Timers expire.                                                          *)

SendQueueTimeout ==
  /\ session.send_queue_timer /\ session.send_queue_ready < MaxReady
  /\ session' = [session EXCEPT !.send_queue_timer = FALSE,
                                !.send_queue_ready = @ + 1]

CloseTimeout ==
  /\ session.close_timer = "waiting"
  /\ session' = [session EXCEPT !.close_timer = "ready", !.timed_out = TRUE]

-----------------------------------------------------------------------------
(* Packets from the peer, as long as the lower layer passes them on: the   *)
(* client's receive handler is ready, or the acceptor's strand has handed  *)
(* a copy over to the session's.                                           *)
Receive(packet) ==
  /\ session.lower_open /\ packet \notin session.packets
  /\ session.type = "client" =>
       /\ session.packets = {}
       /\ packet = "cookie" <=> ~ Started(session)
  /\ session.type = "server" => packet # "cookie"
  /\ packet \in {"data", "eof"} =>
       ~ session.eof_stored /\ "eof" \notin session.packets
  /\ packet = "ack" => session.my_eof /\ ~ session.my_final
  /\ session' = [session EXCEPT !.packets = @ \cup {packet}]

Process(packet) ==
  /\ packet \in session.packets
  /\ packet = "eof" => "data" \notin session.packets
  /\ session' \in LowerReceive(session, packet)

(* The messager acknowledges the peer's EOF.                               *)
AckTheirEof ==
  /\ session.lower_open /\ session.eof_stored /\ ~ session.their_final
  /\ session' = [session EXCEPT !.their_final = TRUE]

-----------------------------------------------------------------------------
Next ==
  \/ Start \/ Read \/ Write \/ AsyncClose
  \/ RetryRead \/ RetryWrite \/ RetryClose
  \/ RunSendQueue \/ RunCloseTimeout
  \/ SendQueueTimeout \/ CloseTimeout
  \/ \E packet \in Packets : Receive(packet) \/ Process(packet)
  \/ AckTheirEof

Spec == Init /\ [][Next]_session

(* Threads run the io_service: timers expire and ready handlers are run.   *)
(* Nothing is assumed of the application and of the peer.                  *)
FairSpec ==
  /\ Spec
  /\ WF_session(SendQueueTimeout)
  /\ WF_session(CloseTimeout)
  /\ WF_session(RunSendQueue)
  /\ WF_session(RunCloseTimeout)
  /\ WF_session(RetryClose)

-----------------------------------------------------------------------------
(* Types, with the bounds of the ring and of recvmarkq_.                   *)
TypeOK == session \in Session

(* While the session runs, its send queue timer waits or its handler is    *)
(* ready: no path through handle_process_send_queue(), write() and close() *)
(* (session.ipp:93-111, 170, 310-311), each of which may cancel the timer, *)
(* leaves the send queue without its next turn.                            *)
SendQueueAlive ==
  session.running => session.send_queue_timer \/ session.send_queue_ready > 0

(* do_close() deletes what is stored (session.ipp:124-140): nothing that   *)
(* was written is still in the ring then, and nothing unread that a read   *)
(* could get before close(), unless the close timer made it run.  A write  *)
(* suspended or called before close() or the read of the EOF, the cut of   *)
(* the last block and the acknowledgment may come in any order.            *)
GracefulLosesNothing ==
  [][session'.finished /\ ~ session.finished
       /\ (BothFinal(session') \/ ~ session'.timed_out)
     => /\ session.pending_used = 0
        /\ session.unread = 0 \/ session.close_called]_session

(* A session that finishes without close() has given the application all   *)
(* bytes and the EOF: the peer's EOF reaches pending_eof_, and so our EOF  *)
(* the peer, only through read() (session.ipp:237-238).                    *)
ReadBeforeFinished ==
  session.finished /\ ~ session.close_called => session.eof_read

(* A finished session stays finished and empty (session.ipp:124-143): only *)
(* packets that had been handed over before it finished, and are processed *)
(* after it, start it again or store something (session.ipp:187,           *)
(* client_stream.ipp:149).                                                 *)
FinishedStaysFinished ==
  session.finished /\ ~ session.late =>
    ~ session.running /\ session.unread = 0 /\ ~ session.eof_stored

(* The close operation completes, with or without the peer's help, within  *)
(* the close timer (session.ipp:174-176).                                  *)
CloseCompletes == session.closer # "idle" ~> session.closer = "done"
=============================================================================
