------------------------------ MODULE Example ------------------------------
(***************************************************************************)
(* The repository's two programs on a connection: the client               *)
(* (examples/simple_example.cpp) writes without end, reads, and closes     *)
(* the stream after its limit; the server (examples/simple_server.cpp)     *)
(* writes back what it reads, and closes at the end of the stream.  Each   *)
(* runs on a session of SessionLife, and the network lies between them.    *)
(*                                                                         *)
(* A chunk of 64 bytes is a block.  Blocks arrive in order, as late as     *)
(* they like: Transfer is about how.  An EOF and its acknowledgment may    *)
(* come once, several times or never.  Behaviours end when the client's    *)
(* close timer expires: its session is cleaned up then, as SessionLife     *)
(* has it, and nothing here depends on what follows.                       *)
(***************************************************************************)
EXTENDS Naturals

CONSTANTS
  MaxPending, MaxUnread, MaxReady,  \* bounds of the sessions
  MaxOnTheWay,  \* bound: blocks on the network in a direction
  ReadLimit     \* chunks the client reads before its last one

ASSUME ExampleAssumption ==
  /\ MaxPending \in Nat \ {0} /\ MaxUnread \in Nat \ {0}
  /\ MaxReady \in Nat \ {0} /\ MaxOnTheWay \in Nat /\ ReadLimit \in Nat

VARIABLES
  client, server,  \* the sessions
  reads,           \* the client's read loop: "off", "on" or "ended"
  writes,          \* its write loop, likewise
  received,        \* received_data_, in chunks
  closes,          \* the client's application has to call async_close()
  echo,            \* what the server's application does next: "accept",
                   \* "read", "write", "close", or nothing ("closed")
  on_the_way,      \* blocks sent by each side and not yet received
  undelivered      \* history: chunks the client's session took and the
                   \* server's application has not read

vars == <<client, server, reads, writes, received, closes, echo, on_the_way,
          undelivered>>
app == <<reads, writes, received, closes>>

C == INSTANCE SessionLife WITH session <- client
S == INSTANCE SessionLife WITH session <- server

Init ==
  /\ client = C!NewSession("client") /\ server = S!NewSession("server")
  /\ reads = "off" /\ writes = "off" /\ received = 0 /\ closes = FALSE
  /\ echo = "accept"
  /\ on_the_way = [client |-> 0, server |-> 0] /\ undelivered = 0

-----------------------------------------------------------------------------
(* The network.                                                            *)

(* The blocks a step of a session sends.  The client's socket is closed    *)
(* when the session has finished.                                          *)
Sent(before, after) ==
  IF /\ after.pending_used < before.pending_used
     /\ after.finished => before.finished
     /\ before.type = "client" => before.lower_open
  THEN 1 ELSE 0

Transmit ==
  /\ on_the_way' = [client |-> on_the_way.client + Sent(client, client'),
                    server |-> on_the_way.server + Sent(server, server')]
  /\ on_the_way'.client <= MaxOnTheWay /\ on_the_way'.server <= MaxOnTheWay

ClientDoes(Action) ==
  ~ client.timed_out /\ Action /\ UNCHANGED server /\ Transmit
ServerDoes(Action) ==
  ~ client.timed_out /\ Action /\ UNCHANGED <<client, app>> /\ Transmit

(* What may arrive at a session from its peer: a block; the EOF mark when  *)
(* no block is left before it; the acknowledgment of the session's EOF.    *)
Arrives(packet, peer, blocks) ==
  \/ packet = "data" /\ blocks > 0
  \/ packet = "eof" /\ peer.my_eof /\ blocks = 0
  \/ packet = "ack" /\ peer.their_final

Blocks(packet) == IF packet = "data" THEN 1 ELSE 0

ServerReceives(packet) ==
  /\ ~ client.timed_out
  /\ Arrives(packet, client, on_the_way.client)
  /\ S!Receive(packet)
  /\ on_the_way' = [on_the_way EXCEPT !.client = @ - Blocks(packet)]
  /\ UNCHANGED <<client, app, echo, undelivered>>

ClientReceives(packet) ==
  /\ ~ client.timed_out
  /\ packet = "cookie" \/ Arrives(packet, server, on_the_way.server)
  /\ C!Receive(packet)
  /\ on_the_way' = [on_the_way EXCEPT !.server = @ - Blocks(packet)]
  /\ UNCHANGED <<server, app, echo, undelivered>>

(* A block that is refused is sent again, so it is processed when there is *)
(* room for it.                                                            *)
Room(s, packet) == packet = "data" => s.pending_eof \/ s.unread < MaxUnread

-----------------------------------------------------------------------------
(* The sessions' handlers and timers.                                      *)

ClientHandler(Action) ==
  ClientDoes(Action) /\ UNCHANGED <<app, echo, undelivered>>
ServerHandler(Action) == ServerDoes(Action) /\ UNCHANGED <<echo, undelivered>>

ClientSendQueue == ClientHandler(C!RunSendQueue)
ClientSendQueueTimeout == ClientHandler(C!SendQueueTimeout)
ClientCloseTimeout == ClientHandler(C!CloseTimeout)
ClientRetryClose == ClientHandler(C!RetryClose)
ClientProcess ==
  \E packet \in C!Packets :
    Room(client, packet) /\ ClientHandler(C!Process(packet))
ClientAcks == ClientHandler(C!AckTheirEof)

ServerSendQueue == ServerHandler(S!RunSendQueue)
ServerSendQueueTimeout == ServerHandler(S!SendQueueTimeout)
ServerCloseTimeout == ServerHandler(S!CloseTimeout \/ S!RunCloseTimeout)
ServerRetryClose == ServerHandler(S!RetryClose)
ServerProcess ==
  \E packet \in S!Packets :
    Room(server, packet) /\ ServerHandler(S!Process(packet))
ServerAcks == ServerHandler(S!AckTheirEof)

-----------------------------------------------------------------------------
(* The client's application.                                               *)

ConnectHandler ==
  /\ reads = "off" /\ client.running
  /\ reads' = "on" /\ writes' = "on"
  /\ UNCHANGED <<client, server, received, closes, echo, on_the_way, undelivered>>

(* A read that completes calls read_handler(): an error, also of a read    *)
(* that got bytes, and the limit end the loop.                             *)
ClientRead ==
  /\ reads = "on"
  /\ ClientDoes(C!Read \/ C!RetryRead)
  /\ IF client'.reader = "waiting" THEN UNCHANGED <<reads, received, closes>>
     ELSE IF client'.pending_eof
     THEN reads' = "ended" /\ closes' = TRUE /\ UNCHANGED received
     ELSE /\ received' = received + 1
          /\ IF received + 1 > ReadLimit
             THEN reads' = "ended" /\ closes' = TRUE
             ELSE UNCHANGED <<reads, closes>>
  /\ UNCHANGED <<writes, echo, undelivered>>

(* write_handler() goes on unless there was an error.                      *)
ClientWrite ==
  /\ writes = "on"
  /\ ClientDoes(C!Write \/ C!RetryWrite)
  /\ IF client.pending_eof
     THEN writes' = "ended" /\ closes' = TRUE
     ELSE UNCHANGED <<writes, closes>>
  /\ undelivered' =
       undelivered + IF client'.pending_used > client.pending_used
                        /\ ~ client.finished THEN 1 ELSE 0
  /\ UNCHANGED <<reads, received, echo>>

(* The second call, when both loops end, waits and ends like the first.    *)
ClientClose ==
  /\ closes
  /\ ClientDoes(C!AsyncClose)
  /\ UNCHANGED <<app, echo, undelivered>>

-----------------------------------------------------------------------------
(* The server's application.                                               *)

(* accept_handler(): the client has sent its first packet.                 *)
Accept ==
  /\ echo = "accept" /\ C!Started(client)
  /\ ServerDoes(S!Start)
  /\ echo' = "read" /\ UNCHANGED undelivered

\* Mutant: read_handler() returns at the end of the stream.
ReadHandlerWithoutClose ==
  IF server'.reader = "waiting" THEN echo' = "read"
  ELSE IF server'.pending_eof THEN echo' = "closed"
  ELSE echo' = "write"
ReadHandler ==
  IF server'.reader = "waiting" THEN echo' = "read"
  ELSE IF server'.pending_eof THEN echo' = "close"
  ELSE echo' = "write"

ServerRead ==
  /\ echo = "read"
  /\ ServerDoes(S!Read \/ S!RetryRead)
  /\ ReadHandler
  /\ undelivered' =
       undelivered - IF server'.unread < server.unread THEN 1 ELSE 0

(* write_handler().                                                        *)
ServerWrite ==
  /\ echo = "write"
  /\ ServerDoes(S!Write \/ S!RetryWrite)
  /\ echo' = IF server'.writer = "waiting" THEN "write"
             ELSE IF server.pending_eof THEN "close" ELSE "read"
  /\ UNCHANGED undelivered

ServerClose ==
  /\ echo = "close"
  /\ ServerDoes(S!AsyncClose)
  /\ echo' = "closed" /\ UNCHANGED undelivered

-----------------------------------------------------------------------------
Next ==
  \/ \E packet \in C!Packets : ClientReceives(packet) \/ ServerReceives(packet)
  \/ ClientSendQueue \/ ClientSendQueueTimeout \/ ClientCloseTimeout
  \/ ClientRetryClose \/ ClientProcess \/ ClientAcks
  \/ ServerSendQueue \/ ServerSendQueueTimeout \/ ServerCloseTimeout
  \/ ServerRetryClose \/ ServerProcess \/ ServerAcks
  \/ ConnectHandler \/ ClientRead \/ ClientWrite \/ ClientClose
  \/ Accept \/ ServerRead \/ ServerWrite \/ ServerClose

Spec == Init /\ [][Next]_vars

(* The threads of both programs run, and timers expire.  Nothing is        *)
(* assumed of the network.                                                 *)
FairSpec ==
  /\ Spec
  /\ WF_vars(ClientSendQueue) /\ WF_vars(ClientSendQueueTimeout)
  /\ WF_vars(ClientCloseTimeout) /\ WF_vars(ClientRetryClose)
  /\ WF_vars(ServerSendQueue) /\ WF_vars(ServerSendQueueTimeout)
  /\ WF_vars(ServerCloseTimeout) /\ WF_vars(ServerRetryClose)
  /\ WF_vars(ServerClose)

-----------------------------------------------------------------------------
(* When the client's session finishes without its close timer, the server  *)
(* has read every chunk that the client's session took, and the end of the *)
(* stream: an acknowledged EOF of each side (session.ipp:99) means as much *)
(* only because the server's EOF is its answer to the client's.            *)
GracefulMeansDelivered ==
  client.finished /\ ~ client.timed_out =>
    undelivered = 0 /\ server.eof_read

(* The server never ends the connection first: each of its errors          *)
(* (simple_server.cpp:82, 103) comes from the client's close.              *)
ClientEndsFirst ==
  server.close_called \/ server.my_eof => client.close_called

(* Once the client closes, the server's session finishes too, unless the   *)
(* client gave up: then nothing tells the server, which has no timer of    *)
(* its own.                                                                *)
ServerFinishes ==
  client.close_called ~> server.finished \/ client.timed_out
=============================================================================
