--------------------------- MODULE ClientConnect ---------------------------
(***************************************************************************)
(* A client stream connects (detail/impl/client_stream.ipp and             *)
(* detail/connect_op.hpp): hello packets are sent again on a timer until a *)
(* cookie arrives or the retries are used up, while datagrams are received *)
(* one after the other.  The connect operation suspends itself on          *)
(* pending_ready_connect_ and is retried when that timer is cancelled.     *)
(*                                                                         *)
(* The first call of connect() runs in the application's thread, and not   *)
(* in the session strand.  The retries and the handlers of the timer and   *)
(* of the socket run in the strand, in any order once they are ready; a    *)
(* ready handler can no longer be cancelled.  Handlers with the error      *)
(* operation_aborted or bad_descriptor return at once and are left out.    *)
(*                                                                         *)
(* The packet processor of libcurvecpr is external: it sends the hello     *)
(* packets, accepts or refuses a datagram, and knows whether a cookie has  *)
(* been accepted.  Of the session, running_ and close() matter here:       *)
(* SessionLife models the rest.                                            *)
(***************************************************************************)
EXTENDS Integers

CONSTANT HelloLimit  \* hello packets sent before the connection is refused (5)

ASSUME ConnectAssumption == HelloLimit \in Nat \ {0}

VARIABLE client

(* A connect operation has not started, has called connect() and not yet   *)
(* suspended itself, is suspended, is ready to be retried, or completed.   *)
OpStates == {"idle", "calling", "waiting", "ready", "ok", "refused"}

Client ==
  [op : OpStates,
   hello_retries : -1 .. HelloLimit,
   hello_timer : BOOLEAN,   \* hello_timed_out_ is waiting
   hello_ready : BOOLEAN,   \* its handler is ready
   socket_open : BOOLEAN,
   receiving : Nat,         \* receives waiting for a datagram
   received : Nat,          \* receive handlers that are ready
   negotiated : BOOLEAN,    \* a cookie was accepted
   running : BOOLEAN,       \* the session's
   hellos : Nat,            \* history: hello packets sent before a cookie
   raced : BOOLEAN,         \* history: the hello timer's handler was ready
                            \* at a cookie, or a datagram's when the socket
                            \* was closed
   missed : BOOLEAN,        \* history: it was woken before it waited
   closed : BOOLEAN]        \* history: the session was closed

Init ==
  client = [op |-> "idle", hello_retries |-> 0, hello_timer |-> FALSE,
            hello_ready |-> FALSE, socket_open |-> TRUE, receiving |-> 0,
            received |-> 0, negotiated |-> FALSE, running |-> FALSE,
            hellos |-> 0, raced |-> FALSE, missed |-> FALSE, closed |-> FALSE]

-----------------------------------------------------------------------------
(* The member functions.                                                   *)

WakeConnect(c) ==
  [c EXCEPT !.op = IF @ = "waiting" THEN "ready" ELSE @,
            !.missed = @ \/ c.op = "calling"]

CloseSocket(c) ==
  [c EXCEPT !.socket_open = FALSE, !.receiving = 0,
            !.raced = @ \/ c.received > 0]

AsyncReceive(c) ==
  [c EXCEPT !.receiving = IF c.socket_open THEN @ + 1 ELSE @]

SendHello(c) ==
  [c EXCEPT !.hellos = IF c.negotiated THEN @ ELSE @ + 1,
            !.hello_timer = TRUE]

\* Mutant: the connect operation is not woken.
HelloTimeoutSilently(c) ==
  IF c.hello_retries + 1 > HelloLimit
  THEN CloseSocket([c EXCEPT !.hello_retries = -1])
  ELSE SendHello([c EXCEPT !.hello_retries = @ + 1])
\* Mutant: one hello too few.
HelloTimeoutEarly(c) ==
  IF c.hello_retries + 1 >= HelloLimit
  THEN CloseSocket(WakeConnect([c EXCEPT !.hello_retries = -1]))
  ELSE SendHello([c EXCEPT !.hello_retries = @ + 1])
HandleHelloTimeout(c) ==
  IF c.hello_retries + 1 > HelloLimit
  THEN CloseSocket(WakeConnect([c EXCEPT !.hello_retries = -1]))
  ELSE SendHello([c EXCEPT !.hello_retries = @ + 1])

(* connect() and connect_op's use of its result: next is the state of an   *)
(* operation that must wait.                                               *)
Connect(c, next) ==
  IF c.running THEN [c EXCEPT !.op = "ok"]
  ELSE IF c.hello_retries < 0
  THEN [c EXCEPT !.hello_retries = 0, !.op = "refused"]
  ELSE HandleHelloTimeout(
         AsyncReceive([c EXCEPT !.hello_retries = 0, !.socket_open = TRUE,
                                !.op = next]))

\* Mutant: the hello timer is not cancelled.
StartKeepingTimer(c) ==
  IF c.negotiated
  THEN WakeConnect([c EXCEPT !.hello_retries = 0, !.running = TRUE,
                             !.raced = @ \/ c.hello_ready])
  ELSE c
StartSession(c) ==
  IF c.negotiated
  THEN WakeConnect([c EXCEPT !.hello_retries = 0, !.hello_timer = FALSE,
                             !.running = TRUE, !.raced = @ \/ c.hello_ready])
  ELSE c

(* handle_lower_read() of a datagram the packet processor accepts or not,  *)
(* which is or is not a cookie: another receive follows in any case.       *)
\* Mutant: no receive follows a datagram that was not accepted.
LowerReadStopping(c, accepted, cookie) ==
  IF accepted
  THEN AsyncReceive(StartSession([c EXCEPT !.negotiated = @ \/ cookie]))
  ELSE c
HandleLowerRead(c, accepted, cookie) ==
  AsyncReceive(IF accepted
               THEN StartSession([c EXCEPT !.negotiated = @ \/ cookie])
               ELSE c)

(* The session's close handler.                                            *)
CloseHandler(c) ==
  CloseSocket([c EXCEPT !.hello_timer = FALSE, !.closed = TRUE])

-----------------------------------------------------------------------------
(* The application's thread.                                               *)

AsyncConnect ==
  /\ client.op = "idle"
  /\ client' = Connect(client, "calling")

(* connect_op suspends itself after connect() returned.                    *)
AsyncPendingConnectWait ==
  /\ client.op = "calling"
  /\ client' = [client EXCEPT !.op = "waiting"]

(* close() before the session runs, also while it connects, and the end of *)
(* one that ran.                                                           *)
Close ==
  /\ ~ client.closed
  /\ client' = CloseHandler([client EXCEPT !.running = FALSE])

-----------------------------------------------------------------------------
(* Handlers in the strand.                                                 *)

RetryConnect ==
  /\ client.op = "ready"
  /\ client' = Connect(client, "waiting")

HelloTimeout ==
  /\ client.hello_timer /\ ~ client.hello_ready
  /\ client' = [client EXCEPT !.hello_timer = FALSE, !.hello_ready = TRUE]

RunHelloTimeout ==
  /\ client.hello_ready
  /\ client' = HandleHelloTimeout([client EXCEPT !.hello_ready = FALSE])

ReceiveDatagram ==
  /\ client.receiving > 0
  /\ client' = [client EXCEPT !.receiving = @ - 1, !.received = @ + 1]

RunLowerRead ==
  /\ client.received > 0
  /\ \E accepted, cookie \in BOOLEAN :
       /\ cookie => ~ client.negotiated
       /\ client' = HandleLowerRead([client EXCEPT !.received = @ - 1],
                                    accepted, cookie)

Next ==
  \/ AsyncConnect \/ AsyncPendingConnectWait \/ Close
  \/ RetryConnect
  \/ HelloTimeout \/ RunHelloTimeout
  \/ ReceiveDatagram \/ RunLowerRead

Spec == Init /\ [][Next]_client

(* The threads run the application's code and the ready handlers, and the  *)
(* timer expires.  Nothing is assumed of the network and the server.       *)
FairSpec ==
  /\ Spec
  /\ WF_client(AsyncPendingConnectWait)
  /\ WF_client(RetryConnect)
  /\ WF_client(HelloTimeout)
  /\ WF_client(RunHelloTimeout)
  /\ WF_client(RunLowerRead)

-----------------------------------------------------------------------------
(* While the socket is open and the operation has started, a receive is    *)
(* outstanding: the chain of receives (client_stream.ipp:103, 154), each   *)
(* started by the handler of the one before, neither ends nor forks, until *)
(* the session is closed.  An operation that is retried after that starts  *)
(* a second chain.                                                         *)
ReceiveChainAlive ==
  client.op # "idle" /\ client.socket_open /\ ~ client.closed =>
    client.receiving + client.received = 1

(* A connection that was established keeps its socket, however long the   *)
(* peer is silent: the count of hello packets that closes the socket ends  *)
(* with the cookie (client_stream.ipp:119-122, 147-148).  A handler that   *)
(* was ready then can no longer be cancelled, and breaks this.             *)
RunningKeepsSocket ==
  client.running /\ ~ client.closed /\ ~ client.raced => client.socket_open

(* A refusal is reported only after all hello packets (client_stream.ipp:  *)
(* 119-123), although the count is kept in the same variable as the        *)
(* refusal, and reset by packets (client_stream.ipp:147), until the        *)
(* session is closed.                                                      *)
RefusedAfterAllHellos ==
  client.op = "refused" /\ ~ client.closed => client.hellos >= HelloLimit

(* The connect operation completes, by a cookie or by the last hello       *)
(* packet (client_stream.ipp:121, 150), unless it is woken between         *)
(* connect() and its suspension, which is not atomic (connect_op.hpp:      *)
(* 46-47), or the session is closed, which wakes nobody (client_stream.ipp:*)
(* 31-34).                                                                 *)
ConnectCompletes ==
  client.op # "idle" ~>
    client.op \in {"ok", "refused"} \/ client.missed \/ client.closed
=============================================================================
