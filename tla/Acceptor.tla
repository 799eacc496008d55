------------------------------ MODULE Acceptor ------------------------------
(***************************************************************************)
(* The server's side of connecting (detail/impl/acceptor.ipp and           *)
(* detail/accept_op.hpp).  Datagrams are received one after the other in   *)
(* the acceptor's strand; one that initiates a session puts it into the    *)
(* storage sessions_ and into the queue pending_sessions_, from which      *)
(* accept operations take it.  An accept operation that finds the queue    *)
(* empty suspends itself on pending_ready_accept_ and is retried when      *)
(* that timer is cancelled.                                                *)
(*                                                                         *)
(* The first call of accept() runs in the application's thread.  Retries   *)
(* and handle_lower_read() run in the strand, and a session's strand calls *)
(* handle_session_close().  The mutex makes each of these atomic, but not  *)
(* accept() together with the suspension that follows it.  The socket does *)
(* not ask for it: while handle_lower_read() runs, the endpoint of the     *)
(* datagram stays in lower_recv_endpoint_ because no receive is started.   *)
(*                                                                         *)
(* The packet processor of libcurvecpr is external: for a datagram it      *)
(* looks the session up by its key, and puts a new one when there is none  *)
(* and the datagram is an Initiate packet, which may arrive repeatedly,    *)
(* also after its session was closed.                                      *)
(***************************************************************************)
EXTENDS Naturals, Sequences

CONSTANTS
  Keys,                    \* the clients' session keys
  Endpoints,               \* addresses, a client may change its own
  Accepts,                 \* accept operations of the application
  MaximumPendingSessions,  \* maximum_pending_sessions_
  MaxSessions,             \* bound: sessions created
  Nothing,                 \* no datagram
  SingleThread             \* one thread runs the application and the strands

ASSUME AcceptorAssumption ==
  /\ MaximumPendingSessions \in Nat \ {0}
  /\ MaxSessions \in Nat
  /\ SingleThread \in BOOLEAN

VARIABLES
  session,           \* the sessions created so far, in that order
  sessions,          \* the stored session of each key, or None
  pending_sessions,  \* sessions waiting for an accept, by number
  op,                \* the state of each accept operation
  receiving,         \* the socket's receive
  lower_recv,        \* lower_recv_endpoint_, and the key in the buffer
  handling,          \* the datagram in handle_lower_read(), or Nothing
  accepted           \* history: sessions that were accepted, in order

vars == <<session, sessions, pending_sessions, op, receiving, lower_recv,
          handling, accepted>>
datagram == <<receiving, lower_recv, handling>>

None == 0

(* A session waits for its accept, runs, has been closed by do_close(), or *)
(* has called its close handler for the second time, which close() does    *)
(* when the close operation is retried after do_close().                   *)
Session ==
  [key : Keys, state : {"pending", "running", "finished", "closed"},
   endpoint : Endpoints,
   heard : Endpoints]  \* history: the source of its last accepted datagram

(* A datagram that is handled, with its session if it has one.             *)
Handled == [session : 0 .. MaxSessions,
            from : Endpoints]  \* history: its source

(* An accept operation has not started or is complete, has called accept() *)
(* without success, is suspended, or is ready to be retried.               *)
OpStates == {"idle", "calling", "waiting", "ready"}

Init ==
  /\ session = << >>
  /\ sessions = [k \in Keys |-> None]
  /\ pending_sessions = << >>
  /\ op = [o \in Accepts |-> "idle"]
  /\ receiving = "off" /\ lower_recv = Nothing /\ handling = Nothing
  /\ accepted = << >>

-----------------------------------------------------------------------------
(* accept() and accept_op's use of its result: next is the state of an     *)
(* operation that must wait.                                               *)

\* Mutant: the latest session is taken.
TakeLatest(o) ==
  LET last == Len(pending_sessions)
      s == pending_sessions[last]
  IN  /\ pending_sessions' = SubSeq(pending_sessions, 1, last - 1)
      /\ accepted' = Append(accepted, s)
      /\ session' = [session EXCEPT ![s].state = "running"]
      /\ op' = [op EXCEPT ![o] = "idle"]
Take(o) ==
  LET s == Head(pending_sessions)
  IN  /\ pending_sessions' = Tail(pending_sessions)
      /\ accepted' = Append(accepted, s)
      /\ session' = [session EXCEPT ![s].state = "running"]
      /\ op' = [op EXCEPT ![o] = "idle"]

Accept(o, next) ==
  /\ \/ pending_sessions # << >> /\ Take(o)
     \/ /\ pending_sessions = << >>
        /\ op' = [op EXCEPT ![o] = next]
        /\ UNCHANGED <<session, pending_sessions, accepted>>
  /\ UNCHANGED <<sessions, datagram>>

(* The mutex is free; and a single thread runs one call of the application *)
(* or handler at a time.                                                   *)
Free ==
  /\ handling = Nothing
  /\ SingleThread => \A o \in Accepts : op[o] # "calling"

AsyncAccept(o) ==
  /\ Free
  /\ op[o] = "idle"
  /\ Accept(o, "calling")

AsyncPendingAcceptWait(o) ==
  /\ op[o] = "calling"
  /\ op' = [op EXCEPT ![o] = "waiting"]
  /\ UNCHANGED <<session, sessions, pending_sessions, datagram, accepted>>

-----------------------------------------------------------------------------
(* Handlers.                                                               *)

RetryAccept(o) ==
  /\ Free
  /\ op[o] = "ready"
  /\ Accept(o, "waiting")

(* listen() starts the first receive.                                      *)
Listen ==
  /\ receiving = "off"
  /\ receiving' = "waiting"
  /\ UNCHANGED <<session, sessions, pending_sessions, op, lower_recv, handling,
                 accepted>>

ReceiveDatagram ==
  /\ receiving = "waiting"
  /\ receiving' = "ready"
  /\ lower_recv' \in [key : Keys, from : Endpoints]
  /\ UNCHANGED <<session, sessions, pending_sessions, op, handling, accepted>>

(* Cancelling pending_ready_accept_ makes the suspended operations ready.  *)
\* Mutant: nobody is notified.
NotifyNobody == op
\* Mutant: one suspended operation is notified.
NotifyOne ==
  LET waiting == {o \in Accepts : op[o] = "waiting"}
  IN  IF waiting = {} THEN op
      ELSE [op EXCEPT ![CHOOSE o \in waiting : TRUE] = "ready"]
Notified == [o \in Accepts |-> IF op[o] = "waiting" THEN "ready" ELSE op[o]]

\* Mutant: one session too many.
QueueIsFullWhenExceeded == Len(pending_sessions) > MaximumPendingSessions
QueueIsFull == Len(pending_sessions) >= MaximumPendingSessions

\* Mutant: the session is not stored.
StoreNothing(k, s) == sessions
Stored(k, s) == [sessions EXCEPT ![k] = s]

(* handle_put_session() refuses the session when the queue is full.        *)
PutSession(k) ==
  \/ /\ QueueIsFull
     /\ handling' = [session |-> None, from |-> lower_recv.from]
     /\ UNCHANGED <<session, sessions, pending_sessions, op>>
  \/ /\ ~ QueueIsFull
     /\ Len(session) < MaxSessions
     /\ LET s == Len(session) + 1
        IN  /\ session' = Append(session, [key |-> k, state |-> "pending",
                                           endpoint |-> lower_recv.from,
                                           heard |-> lower_recv.from])
            /\ sessions' = Stored(k, s)
            /\ pending_sessions' = Append(pending_sessions, s)
            /\ handling' = [session |-> s, from |-> lower_recv.from]
     /\ op' = Notified

(* handle_get_session() finds the session of a key.                        *)
Known(k) == sessions[k] # None

\* Mutant: the next receive is started first.
ReceiveFirst == "waiting"
ReceiveLast == "none"

(* handle_lower_read() of a datagram that puts a session, belongs to the   *)
(* stored one, or is answered or dropped.                                  *)
HandleLowerRead ==
  /\ Free
  /\ receiving = "ready"
  /\ receiving' = ReceiveLast
  /\ \/ ~ Known(lower_recv.key) /\ PutSession(lower_recv.key)
     \/ \E s \in {None, sessions[lower_recv.key]} :
          /\ handling' = [session |-> s, from |-> lower_recv.from]
          /\ UNCHANGED <<session, sessions, pending_sessions, op>>
  /\ UNCHANGED <<lower_recv, accepted>>

(* The end of handle_lower_read(): the session of an accepted datagram     *)
(* takes the endpoint, and the next receive is started in any case.        *)
SetEndpoint ==
  /\ handling # Nothing
  /\ session' = IF handling.session = None THEN session
                ELSE [session EXCEPT ![handling.session].endpoint = lower_recv.from,
                                     ![handling.session].heard = handling.from]
  /\ handling' = Nothing /\ lower_recv' = Nothing
  /\ receiving' = "waiting"
  /\ UNCHANGED <<sessions, pending_sessions, op, accepted>>

(* handle_send(): where a packet of a session goes, or the answer to a     *)
(* client that has none.                                                   *)
SendsTo(s) == IF s = None THEN lower_recv.from ELSE session[s].endpoint

(* handle_session_close(), which the session calls in do_close() and, when *)
(* a close operation waited for that, again as it is retried.              *)
HandleSessionClose(s) ==
  /\ Free
  /\ \/ /\ session[s].state = "running"
        /\ session' = [session EXCEPT ![s].state = "finished"]
     \/ /\ session[s].state = "finished"
        /\ session' = [session EXCEPT ![s].state = "closed"]
  /\ sessions' = [sessions EXCEPT ![session[s].key] = None]
  /\ UNCHANGED <<pending_sessions, op, datagram, accepted>>

Next ==
  \/ \E o \in Accepts : AsyncAccept(o) \/ AsyncPendingAcceptWait(o) \/ RetryAccept(o)
  \/ Listen \/ ReceiveDatagram \/ HandleLowerRead \/ SetEndpoint
  \/ \E s \in DOMAIN session : HandleSessionClose(s)

Spec == Init /\ [][Next]_vars

(* Threads run the application's call and the handler to their ends, and   *)
(* the ready handlers; a retry comes to its turn in the strand, which      *)
(* keeps the order of its handlers, although datagrams go on.              *)
FairSpec ==
  /\ Spec
  /\ \A o \in Accepts : /\ WF_vars(AsyncPendingAcceptWait(o))
                        /\ SF_vars(RetryAccept(o))
  /\ WF_vars(SetEndpoint)

-----------------------------------------------------------------------------
(* Types, and the limit of the queue.                                      *)
TypeOK ==
  /\ session \in Seq(Session)
  /\ sessions \in [Keys -> 0 .. MaxSessions]
  /\ pending_sessions \in Seq(1 .. MaxSessions)
  /\ Len(pending_sessions) <= MaximumPendingSessions
  /\ op \in [Accepts -> OpStates]
  /\ receiving \in {"off", "waiting", "ready", "none"}
  /\ lower_recv \in {Nothing} \cup [key : Keys, from : Endpoints]
  /\ handling \in {Nothing} \cup Handled
  /\ accepted \in Seq(1 .. MaxSessions)

(* Every session that was put is accepted once, in the order of arrival,   *)
(* by whichever accept operation, called or retried, gets to the queue     *)
(* first (acceptor.ipp:82-91, 159).                                        *)
AcceptedInOrder ==
  accepted \o pending_sessions = [s \in DOMAIN session |-> s]

(* A session that has not finished is stored under its public key          *)
(* (acceptor.ipp:154-156), where its datagrams find it, unless an earlier  *)
(* one with the same key finished, whose close handler erases by key and   *)
(* may be called a second time (acceptor.ipp:133, session.ipp:143, 156).   *)
StoredUntilFinished ==
  \A s \in DOMAIN session :
    session[s].state \in {"pending", "running"} =>
      \/ sessions[session[s].key] = s
      \/ \E t \in 1 .. s - 1 :
           session[t].key = session[s].key /\ session[t].state = "closed"

(* Packets go to the address a client was last heard from (acceptor.ipp:   *)
(* 110, 153, 196-204): of a session, except what is sent while the         *)
(* datagram is still being handled, and the answer to a client without a   *)
(* session.                                                                *)
PacketsFollowClient ==
  IF handling = Nothing
  THEN \A s \in DOMAIN session : SendsTo(s) = session[s].heard
  ELSE SendsTo(None) = handling.from

(* acceptor.ipp:160 notifies waiting acceptors of a new session: none goes *)
(* on waiting while a session is pending.                                  *)
WaitingAcceptorsNotified ==
  \A o \in Accepts : op[o] = "waiting" => pending_sessions = << >>

(* While an accept operation is outstanding, pending sessions are taken    *)
(* from the queue, although an operation that was notified may find that   *)
(* another one was faster (accept_op.hpp:47-49).                           *)
SessionsTaken ==
  (pending_sessions # << >> /\ \E o \in Accepts : op[o] # "idle")
    ~> (pending_sessions = << >> \/ \A o \in Accepts : op[o] = "idle")
=============================================================================
