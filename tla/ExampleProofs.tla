--------------------------- MODULE ExampleProofs ---------------------------
(***************************************************************************)
(* Theorems about the two example programs on a connection.  What the two  *)
(* sessions do by themselves comes from SessionLifeProofs, once for each:  *)
(* its invariant, and what a step shows to the other side.  Here is what   *)
(* the two say of each other.                                              *)
(***************************************************************************)
EXTENDS Example, TLAPS

CP == INSTANCE SessionLifeProofs WITH session <- client
SP == INSTANCE SessionLifeProofs WITH session <- server

-----------------------------------------------------------------------------
(* The inductive invariant.                                                *)

Types ==
  /\ CP!Good(client) /\ client.type = "client"
  /\ SP!Good(server) /\ server.type = "server"
  /\ on_the_way \in [client : Nat, server : Nat]

(* The client's application has a stream that was connected.               *)
Connected ==
  reads # "off" \/ writes # "off" \/ closes \/ client.close_called =>
    CP!Started(client)

(* So only do_close() closes the client's socket.                          *)
SocketClosed == client.finished <=> ~ client.lower_open

(* The client's EOF follows its bytes.                                     *)
EofComesLast ==
  client.my_eof =>
    client.finished \/ (client.pending_eof /\ client.pending_used = 0)

(* The client's EOF is its own, the server's is an answer to it.           *)
ClientBegins ==
  client.pending_eof \/ client.my_eof \/ client.eof_read =>
    client.close_called

ServerAnswers ==
  server.pending_eof \/ server.my_eof \/ server.close_called
  \/ server.finished \/ echo \in {"close", "closed"} =>
    server.eof_read

(* An EOF that has arrived was sent; the client's with all of its bytes.   *)
EofArrived(s) ==
  "eof" \in s.packets \/ s.eof_stored \/ s.eof_read \/ s.their_final

EofsAreTrue ==
  /\ EofArrived(client) => server.my_eof
  /\ EofArrived(server) => client.my_eof /\ on_the_way.client = 0

EofIsLast ==
  server.eof_stored \/ server.eof_read => "data" \notin server.packets

(* Every chunk is in the client's ring, on the way, in the server's strand *)
(* or in its recvmarkq_, until the client's session ends.                  *)
HandedOver(s) == IF "data" \in s.packets THEN 1 ELSE 0

NoChunkLost ==
  ~ client.finished =>
    undelivered = client.pending_used + on_the_way.client
                  + HandedOver(server) + server.unread

ReadToTheEnd ==
  server.eof_read => undelivered = 0 /\ server.unread = 0

EndsAfterServer == client.finished => server.eof_read

ExampleInv ==
  /\ Types /\ Connected /\ SocketClosed /\ EofComesLast /\ ClientBegins
  /\ ServerAnswers /\ EofsAreTrue /\ EofIsLast /\ NoChunkLost /\ ReadToTheEnd
  /\ EndsAfterServer

-----------------------------------------------------------------------------
(* The sessions are those of SessionLifeProofs.                            *)
LEMMA LifeAssumed == CP!LifeAssumption /\ SP!LifeAssumption
  BY ExampleAssumption DEF CP!LifeAssumption, SP!LifeAssumption

LEMMA ClientCalls ==
  /\ C!Read => CP!Read
  /\ C!RetryRead => CP!RetryRead
  /\ C!Write => CP!Write
  /\ C!RetryWrite => CP!RetryWrite
  /\ C!AsyncClose => CP!AsyncClose
  /\ C!RetryClose => CP!RetryClose
  BY Zenon
  DEF C!Read, C!RetryRead, C!Write, C!RetryWrite, C!AsyncClose, C!RetryClose,
      C!TryRead, C!TryWrite, C!HasStream, C!Started, C!Close,
      C!CloseNotRunning, C!Closing, C!StartCloseTimer,
      C!HandleProcessSendQueue, C!ProcessSendq, C!SendsBlock, C!SendsEof,
      C!Reschedule, C!BothFinal, C!DoClose, C!CleanUp, C!Woken, CP!Read,
      CP!RetryRead, CP!Write, CP!RetryWrite, CP!AsyncClose, CP!RetryClose,
      CP!TryRead, CP!TryWrite, CP!HasStream, CP!Started, CP!Close,
      CP!CloseNotRunning, CP!Closing, CP!StartCloseTimer,
      CP!HandleProcessSendQueue, CP!ProcessSendq, CP!SendsBlock, CP!SendsEof,
      CP!Reschedule, CP!BothFinal, CP!DoClose, CP!CleanUp, CP!Woken

LEMMA ClientHandlers ==
  /\ C!RunSendQueue => CP!RunSendQueue
  /\ C!RunCloseTimeout => CP!RunCloseTimeout
  /\ C!SendQueueTimeout => CP!SendQueueTimeout
  /\ C!CloseTimeout => CP!CloseTimeout
  /\ C!AckTheirEof => CP!AckTheirEof
  BY Zenon
  DEF C!RunSendQueue, C!RunCloseTimeout, C!SendQueueTimeout, C!CloseTimeout,
      C!AckTheirEof, C!HandleProcessSendQueue, C!ProcessSendq, C!SendsBlock,
      C!SendsEof, C!Reschedule, C!BothFinal, C!DoClose, C!CleanUp, C!Woken,
      CP!RunSendQueue, CP!RunCloseTimeout, CP!SendQueueTimeout,
      CP!CloseTimeout, CP!AckTheirEof, CP!HandleProcessSendQueue,
      CP!ProcessSendq, CP!SendsBlock, CP!SendsEof, CP!Reschedule, CP!BothFinal,
      CP!DoClose, CP!CleanUp, CP!Woken

LEMMA ClientPackets ==
  \A packet :
    /\ C!Receive(packet) => CP!Receive(packet)
    /\ C!Process(packet) => CP!Process(packet)
  BY Zenon
  DEF C!Receive, C!Process, C!LowerReceive, C!MessagerRecv, C!Put, C!PutEof,
      C!RecvmarkqIsFull,
      C!StartIn, C!Started, C!HandleProcessSendQueue, C!ProcessSendq,
      C!SendsBlock, C!SendsEof, C!Reschedule, C!BothFinal, C!DoClose,
      C!CleanUp, C!Woken, CP!Receive, CP!Process, CP!LowerReceive,
      CP!MessagerRecv, CP!Put, CP!PutEof, CP!RecvmarkqIsFull,
      CP!StartIn, CP!Started,
      CP!HandleProcessSendQueue, CP!ProcessSendq, CP!SendsBlock, CP!SendsEof,
      CP!Reschedule, CP!BothFinal, CP!DoClose, CP!CleanUp, CP!Woken

LEMMA ServerCalls ==
  /\ S!Read => SP!Read
  /\ S!RetryRead => SP!RetryRead
  /\ S!Write => SP!Write
  /\ S!RetryWrite => SP!RetryWrite
  /\ S!AsyncClose => SP!AsyncClose
  /\ S!RetryClose => SP!RetryClose
  BY Zenon
  DEF S!Read, S!RetryRead, S!Write, S!RetryWrite, S!AsyncClose, S!RetryClose,
      S!TryRead, S!TryWrite, S!HasStream, S!Started, S!Close,
      S!CloseNotRunning, S!Closing, S!StartCloseTimer,
      S!HandleProcessSendQueue, S!ProcessSendq, S!SendsBlock, S!SendsEof,
      S!Reschedule, S!BothFinal, S!DoClose, S!CleanUp, S!Woken, SP!Read,
      SP!RetryRead, SP!Write, SP!RetryWrite, SP!AsyncClose, SP!RetryClose,
      SP!TryRead, SP!TryWrite, SP!HasStream, SP!Started, SP!Close,
      SP!CloseNotRunning, SP!Closing, SP!StartCloseTimer,
      SP!HandleProcessSendQueue, SP!ProcessSendq, SP!SendsBlock, SP!SendsEof,
      SP!Reschedule, SP!BothFinal, SP!DoClose, SP!CleanUp, SP!Woken

LEMMA ServerHandlers ==
  /\ S!Start => SP!Start
  /\ S!RunSendQueue => SP!RunSendQueue
  /\ S!RunCloseTimeout => SP!RunCloseTimeout
  /\ S!SendQueueTimeout => SP!SendQueueTimeout
  /\ S!CloseTimeout => SP!CloseTimeout
  /\ S!AckTheirEof => SP!AckTheirEof
  BY Zenon
  DEF S!Start, S!RunSendQueue, S!RunCloseTimeout, S!SendQueueTimeout,
      S!CloseTimeout, S!AckTheirEof, S!Started, S!HandleProcessSendQueue,
      S!ProcessSendq, S!SendsBlock, S!SendsEof, S!Reschedule, S!BothFinal,
      S!DoClose, S!CleanUp, S!Woken, SP!Start, SP!RunSendQueue,
      SP!RunCloseTimeout, SP!SendQueueTimeout, SP!CloseTimeout, SP!AckTheirEof,
      SP!Started, SP!HandleProcessSendQueue, SP!ProcessSendq, SP!SendsBlock,
      SP!SendsEof, SP!Reschedule, SP!BothFinal, SP!DoClose, SP!CleanUp,
      SP!Woken

LEMMA ServerPackets ==
  \A packet :
    /\ S!Receive(packet) => SP!Receive(packet)
    /\ S!Process(packet) => SP!Process(packet)
  BY Zenon
  DEF S!Receive, S!Process, S!LowerReceive, S!MessagerRecv, S!Put, S!PutEof,
      S!RecvmarkqIsFull,
      S!StartIn, S!Started, S!HandleProcessSendQueue, S!ProcessSendq,
      S!SendsBlock, S!SendsEof, S!Reschedule, S!BothFinal, S!DoClose,
      S!CleanUp, S!Woken, SP!Receive, SP!Process, SP!LowerReceive,
      SP!MessagerRecv, SP!Put, SP!PutEof, SP!RecvmarkqIsFull,
      SP!StartIn, SP!Started,
      SP!HandleProcessSendQueue, SP!ProcessSendq, SP!SendsBlock, SP!SendsEof,
      SP!Reschedule, SP!BothFinal, SP!DoClose, SP!CleanUp, SP!Woken

LEMMA GoodKept ==
  /\ CP!Good(client) /\ CP!Next => CP!Good(client')
  /\ SP!Good(server) /\ SP!Next => SP!Good(server')
  BY LifeAssumed, CP!NextGood, SP!NextGood, Zenon
  DEF CP!LifeInv, SP!LifeInv

(* What the invariant of a session says here.                              *)
LEMMA SessionFacts ==
  ASSUME NEW s, CP!Good(s)
  PROVE  /\ s.pending_used \in Nat /\ s.unread \in 0 .. MaxUnread
         /\ s.finished => (s.my_final /\ s.their_final) \/ s.timed_out
         /\ s.timed_out => s.close_called
         /\ s.my_final => s.my_eof
<1>1. s \in CP!Session
  BY DEF CP!Good, CP!Sound
<1>2. s.pending_used \in 0 .. MaxPending /\ s.unread \in 0 .. MaxUnread
  BY <1>1, LifeAssumed, CP!FieldTypes
<1>3. QED
  BY <1>2, ExampleAssumption
  DEF CP!Good, CP!Sound, CP!Graceful, CP!TimerIsForClose, CP!EofOrder

(* Both instances say the same of a session.                               *)
LEMMA SameWords ==
  /\ \A s : SP!Good(s) <=> CP!Good(s)
  /\ \A s : SP!Started(s) <=> CP!Started(s)
  /\ \A s : C!Started(s) <=> CP!Started(s)
<1>1. SP!Session = CP!Session
  BY Zenon
  DEF SP!Session, CP!Session, SP!OpStates, CP!OpStates, SP!Packets, CP!Packets
<1>2. \A s : SP!Good(s) <=> CP!Good(s)
  BY <1>1, Zenon
  DEF SP!Good, SP!Sound, SP!NotStarted, SP!Started, SP!Graceful,
      SP!TimerIsForClose, SP!EofOrder, SP!Alive, SP!Quiet, CP!Good, CP!Sound,
      CP!NotStarted, CP!Started, CP!Graceful, CP!TimerIsForClose,
      CP!EofOrder, CP!Alive, CP!Quiet
<1>3. QED
  BY <1>2, Zenon DEF SP!Started, CP!Started, C!Started

-----------------------------------------------------------------------------
(* Steps of the client's side.                                             *)

(* It ends after the server has read the end of its stream: its peer's EOF *)
(* is the answer to its own.                                               *)
LEMMA ClientFinishes ==
  ASSUME ExampleInv, ~ client.timed_out, CP!Good(client'),
         CP!Caused(client, client'), client'.finished
  PROVE  server.eof_read
<1>1. CASE client.finished
  BY <1>1 DEF ExampleInv, EndsAfterServer
<1>2. CASE ~ client.finished
  <2>1. ~ client'.timed_out
    BY <1>2 DEF CP!Caused
  <2>2. client'.their_final
    BY <2>1, SessionFacts
  <2>3. client.their_final \/ client.eof_stored
    BY <2>2 DEF CP!Caused
  <2>4. QED
    BY <2>3 DEF ExampleInv, EofsAreTrue, EofArrived, ServerAnswers
<1>3. QED
  BY <1>1, <1>2

LEMMA ClientSide ==
  ASSUME ExampleInv, ~ client.timed_out, UNCHANGED <<server, echo>>,
         CP!Good(client'),
         CP!Forward(client, client'), CP!Caused(client, client'),
         client'.close_called => client.close_called \/ closes,
         reads' # "off" \/ writes' # "off" \/ closes' =>
           CP!Started(client),
         "eof" \in client'.packets =>
           "eof" \in client.packets \/ server.my_eof,
         on_the_way' \in [client : Nat, server : Nat],
         client.my_eof /\ on_the_way.client = 0 => on_the_way'.client = 0,
         EofComesLast', NoChunkLost',
         server.eof_read => undelivered' = undelivered
  PROVE  ExampleInv'
<1>1. Types'
  BY DEF ExampleInv, Types, CP!Forward
<1>2. Connected'
  BY DEF ExampleInv, Connected, CP!Forward
<1>3. SocketClosed'
  <2>1. CP!Started(client) /\ ~ client.running => client.finished
    BY DEF CP!Started
  <2>2. client'.close_called => CP!Started(client)
    BY DEF ExampleInv, Connected
  <2>3. QED
    BY <2>1, <2>2 DEF ExampleInv, SocketClosed, CP!Forward, CP!Caused
<1>4. ClientBegins'
  BY DEF ExampleInv, ClientBegins, EofsAreTrue, EofArrived, ServerAnswers,
         CP!Forward, CP!Caused
<1>5. ServerAnswers'
  BY DEF ExampleInv, ServerAnswers
<1>6. EofsAreTrue'
  <2>1. EofArrived(client') => EofArrived(client) \/ server.my_eof
    BY DEF EofArrived, CP!Caused
  <2>2. client.my_eof => client'.my_eof
    BY DEF CP!Forward
  <2>3. QED
    BY <2>1, <2>2 DEF ExampleInv, EofsAreTrue
<1>7. EofIsLast' /\ ReadToTheEnd'
  BY DEF ExampleInv, EofIsLast, ReadToTheEnd
<1>8. EndsAfterServer'
  BY ClientFinishes DEF EndsAfterServer
<1>9. QED
  BY <1>1, <1>2, <1>3, <1>4, <1>5, <1>6, <1>7, <1>8 DEF ExampleInv

(* What Transmit counts when the client sends or stays as it is.           *)
LEMMA ClientTransmits ==
  ASSUME ExampleInv, CP!Good(client'), UNCHANGED server, Transmit
  PROVE  /\ on_the_way' \in [client : Nat, server : Nat]
         /\ on_the_way'.client = on_the_way.client + Sent(client, client')
         /\ Sent(client, client') \in {0, 1}
         /\ on_the_way.client \in Nat
<1>1. on_the_way.client \in Nat /\ on_the_way.server \in Nat
  BY DEF ExampleInv, Types
<1>2. Sent(client, client') \in {0, 1} /\ Sent(server, server') \in {0, 1}
  BY DEF Sent
<1>3. on_the_way' = [client |-> on_the_way.client + Sent(client, client'),
                     server |-> on_the_way.server + Sent(server, server')]
  BY DEF Transmit
<1> HIDE DEF Sent
<1>4. QED
  BY <1>1, <1>2, <1>3

(* A step that sends: the EOF comes after the bytes, and every block that  *)
(* leaves the ring is on the way.                                          *)
LEMMA ClientSends ==
  ASSUME ExampleInv, ~ client.timed_out, CP!Good(client'),
         CP!Forward(client, client'), CP!Caused(client, client'),
         CP!Sends(client, client'), UNCHANGED <<server, undelivered>>, Transmit
  PROVE  /\ on_the_way' \in [client : Nat, server : Nat]
         /\ client.my_eof /\ on_the_way.client = 0 => on_the_way'.client = 0
         /\ EofComesLast' /\ NoChunkLost'
<1>1. /\ on_the_way' \in [client : Nat, server : Nat]
      /\ on_the_way'.client = on_the_way.client + Sent(client, client')
      /\ on_the_way.client \in Nat /\ Sent(client, client') \in {0, 1}
  BY ClientTransmits
<1>2. /\ client.pending_used \in Nat /\ client'.pending_used \in Nat
      /\ server.unread \in Nat
  BY SessionFacts, SameWords DEF ExampleInv, Types
<1>3. client.my_eof => Sent(client, client') = 0
  <2>1. client.finished => ~ client.lower_open
    BY DEF ExampleInv, SocketClosed
  <2>2. client.my_eof /\ ~ client.finished => client.pending_used = 0
    BY DEF ExampleInv, EofComesLast
  <2>3. client.type = "client"
    BY DEF ExampleInv, Types
  <2>4. QED
    BY <1>2, <2>1, <2>2, <2>3 DEF Sent
<1>4. EofComesLast'
  BY <1>2 DEF ExampleInv, EofComesLast, CP!Sends, CP!Forward
<1>5. NoChunkLost'
  <2>1. SUFFICES ASSUME ~ client'.finished
                 PROVE  client'.pending_used + Sent(client, client')
                          = client.pending_used
    <3>1. /\ HandedOver(server) \in Nat
          /\ HandedOver(server') = HandedOver(server)
      BY DEF HandedOver
    <3>2. QED
      BY <1>1, <1>2, <2>1, <3>1 DEF ExampleInv, NoChunkLost, CP!Forward
  <2>2. ~ client.finished /\ client.lower_open
    BY <2>1 DEF ExampleInv, SocketClosed, CP!Forward
  <2>3. QED
    BY <1>2, <2>1, <2>2 DEF Sent, CP!Sends
<1>6. QED
  BY <1>1, <1>3, <1>4, <1>5

(* The handlers of the client's session, its timers, and the packets it    *)
(* processes.                                                              *)
ClientOwn ==
  \/ ClientSendQueue \/ ClientSendQueueTimeout \/ ClientCloseTimeout
  \/ ClientRetryClose \/ ClientAcks

LEMMA ClientOwnKeeps ==
  ASSUME ExampleInv, ClientOwn
  PROVE  ExampleInv'
<1>1. /\ CP!Own /\ CP!Next /\ ~ client.timed_out /\ Transmit
      /\ UNCHANGED <<server, app, echo, undelivered>>
  BY ClientCalls, ClientHandlers, Zenon
  DEF ClientOwn, ClientSendQueue, ClientSendQueueTimeout, ClientCloseTimeout,
      ClientRetryClose, ClientAcks, ClientHandler, ClientDoes, CP!Own, CP!Next
<1>2. CP!Good(client) /\ CP!Good(client')
  BY <1>1, GoodKept DEF ExampleInv, Types
<1>3. CP!Internal(client, client')
  BY <1>1, <1>2, LifeAssumed, CP!OwnStep
<1>4. /\ CP!Forward(client, client') /\ CP!Caused(client, client')
      /\ CP!Sends(client, client')
      /\ client'.close_called => client.close_called
      /\ client'.packets = client.packets
  BY <1>3 DEF CP!Internal, CP!SameCalls
<1>5. /\ on_the_way' \in [client : Nat, server : Nat]
      /\ client.my_eof /\ on_the_way.client = 0 => on_the_way'.client = 0
      /\ EofComesLast' /\ NoChunkLost'
  BY <1>1, <1>2, <1>4, ClientSends
<1>6. reads' # "off" \/ writes' # "off" \/ closes' => CP!Started(client)
  BY <1>1 DEF app, ExampleInv, Connected
<1>7. QED
  BY <1>1, <1>2, <1>4, <1>5, <1>6, ClientSide

LEMMA ClientProcessKeeps ==
  ASSUME ExampleInv, ClientProcess
  PROVE  ExampleInv'
<1>1. PICK packet \in C!Packets :
        /\ C!Process(packet) /\ ~ client.timed_out /\ Transmit
        /\ UNCHANGED <<server, app, echo, undelivered>>
  BY Zenon DEF ClientProcess, ClientHandler, ClientDoes
<1>2. packet \in CP!Packets /\ CP!Process(packet) /\ CP!Next
  BY <1>1, ClientPackets, Zenon DEF C!Packets, CP!Packets, CP!Next
<1>3. CP!Good(client) /\ CP!Good(client')
  BY <1>2, GoodKept DEF ExampleInv, Types
<1>4. CP!Processes(client, client', packet)
  BY <1>2, <1>3, LifeAssumed, CP!ProcessStep
<1>5. /\ CP!Forward(client, client') /\ CP!Caused(client, client')
      /\ CP!Sends(client, client')
      /\ client'.close_called => client.close_called
      /\ "eof" \in client'.packets => "eof" \in client.packets
  BY <1>4 DEF CP!Processes, CP!SameCalls
<1>6. /\ on_the_way' \in [client : Nat, server : Nat]
      /\ client.my_eof /\ on_the_way.client = 0 => on_the_way'.client = 0
      /\ EofComesLast' /\ NoChunkLost'
  BY <1>1, <1>3, <1>5, ClientSends
<1>7. reads' # "off" \/ writes' # "off" \/ closes' => CP!Started(client)
  BY <1>1 DEF app, ExampleInv, Connected
<1>8. QED
  BY <1>1, <1>3, <1>5, <1>6, <1>7, ClientSide

(* Only the server's EOF arrives as one.                                   *)
LEMMA ClientReceivesKeeps ==
  ASSUME ExampleInv, NEW packet \in C!Packets, ClientReceives(packet)
  PROVE  ExampleInv'
<1>1. /\ C!Receive(packet) /\ ~ client.timed_out
      /\ packet = "cookie" \/ Arrives(packet, server, on_the_way.server)
      /\ on_the_way' =
           [on_the_way EXCEPT !.server = @ - Blocks(packet)]
      /\ UNCHANGED <<server, app, echo, undelivered>>
  BY Zenon DEF ClientReceives
<1>2. packet \in CP!Packets /\ CP!Receive(packet) /\ CP!Next
  BY <1>1, ClientPackets, Zenon DEF C!Packets, CP!Packets, CP!Next
<1>3. CP!Good(client) /\ CP!Good(client')
  BY <1>2, GoodKept DEF ExampleInv, Types
<1>4. /\ CP!Forward(client, client') /\ CP!Caused(client, client')
      /\ CP!Sends(client, client')
      /\ client'.close_called => client.close_called
      /\ client'.packets = client.packets \cup {packet}
      /\ client'.pending_used = client.pending_used
      /\ client'.finished = client.finished
  BY <1>2, <1>3, LifeAssumed, CP!ReceiveStep DEF CP!SameCalls
<1>5. "eof" \in client'.packets => "eof" \in client.packets \/ server.my_eof
  BY <1>1, <1>4 DEF Arrives
<1>6. on_the_way' \in [client : Nat, server : Nat]
      /\ on_the_way'.client = on_the_way.client
  BY <1>1 DEF ExampleInv, Types, Arrives, Blocks
<1>7. client.pending_used \in Nat
  BY <1>3, SessionFacts
<1>8. EofComesLast'
  BY <1>4, <1>7 DEF ExampleInv, EofComesLast, CP!Sends
<1>9. NoChunkLost'
  BY <1>1, <1>4, <1>6 DEF ExampleInv, NoChunkLost, HandedOver
<1>10. reads' # "off" \/ writes' # "off" \/ closes' => CP!Started(client)
  BY <1>1 DEF app, ExampleInv, Connected
<1>11. QED
  BY <1>1, <1>3, <1>4, <1>5, <1>6, <1>8, <1>9, <1>10, ClientSide

-----------------------------------------------------------------------------
(* The client's application.                                               *)
LEMMA ConnectHandlerKeeps ==
  ASSUME ExampleInv, ConnectHandler
  PROVE  ExampleInv'
<1>1. /\ client.running
      /\ UNCHANGED <<client, server, closes, echo, on_the_way, undelivered>>
  BY DEF ConnectHandler
<1>2. CP!Started(client)
  BY <1>1 DEF CP!Started
<1>3. Types' /\ Connected' /\ SocketClosed' /\ EofComesLast' /\ ClientBegins'
  BY <1>1, <1>2, Zenon
  DEF ExampleInv, Types, Connected, SocketClosed, EofComesLast, ClientBegins
<1>4. /\ ServerAnswers' /\ EofsAreTrue' /\ EofIsLast' /\ NoChunkLost'
      /\ ReadToTheEnd' /\ EndsAfterServer'
  BY <1>1, Zenon
  DEF ExampleInv, ServerAnswers, EofsAreTrue, EofIsLast, NoChunkLost,
      ReadToTheEnd, EndsAfterServer
<1>5. QED
  BY <1>3, <1>4 DEF ExampleInv

LEMMA ClientReadKeeps ==
  ASSUME ExampleInv, ClientRead
  PROVE  ExampleInv'
<1>1. /\ C!Read \/ C!RetryRead
      /\ reads = "on" /\ ~ client.timed_out /\ Transmit
      /\ UNCHANGED <<server, writes, echo, undelivered>>
  BY Zenon DEF ClientRead, ClientDoes
<1>2. (CP!Read \/ CP!RetryRead) /\ CP!Next
  BY <1>1, ClientCalls, Zenon DEF CP!Next
<1>3. CP!Good(client) /\ CP!Good(client')
  BY <1>2, GoodKept DEF ExampleInv, Types
<1>4. /\ CP!Forward(client, client') /\ CP!Caused(client, client')
      /\ CP!Sends(client, client')
      /\ client'.close_called => client.close_called
      /\ client'.packets = client.packets
  BY <1>2, <1>3, LifeAssumed, CP!ReadStep DEF CP!SameCalls
<1>5. /\ on_the_way' \in [client : Nat, server : Nat]
      /\ client.my_eof /\ on_the_way.client = 0 => on_the_way'.client = 0
      /\ EofComesLast' /\ NoChunkLost'
  BY <1>1, <1>3, <1>4, ClientSends
<1>6. CP!Started(client)
  BY <1>1 DEF ExampleInv, Connected
<1>7. QED
  BY <1>1, <1>3, <1>4, <1>5, <1>6, ClientSide

(* A chunk the session takes is in its ring; it takes none after its EOF.  *)
LEMMA ClientWriteKeeps ==
  ASSUME ExampleInv, ClientWrite
  PROVE  ExampleInv'
<1>1. /\ C!Write \/ C!RetryWrite
      /\ writes = "on" /\ ~ client.timed_out /\ Transmit
      /\ undelivered' =
           undelivered + IF client'.pending_used > client.pending_used
                            /\ ~ client.finished THEN 1 ELSE 0
      /\ UNCHANGED <<server, reads, echo>>
  BY Zenon DEF ClientWrite, ClientDoes
<1>2. (CP!Write \/ CP!RetryWrite) /\ CP!Next
  BY <1>1, ClientCalls, Zenon DEF CP!Next
<1>3. CP!Good(client) /\ CP!Good(client')
  BY <1>2, GoodKept DEF ExampleInv, Types
<1>4. /\ CP!Forward(client, client') /\ CP!Caused(client, client')
      /\ client'.close_called => client.close_called
      /\ client'.packets = client.packets
      /\ client'.finished = client.finished
      /\ client'.pending_eof = client.pending_eof
      /\ client'.my_eof = client.my_eof
      /\ \/ client'.pending_used = client.pending_used
         \/ /\ ~ client.pending_eof
            /\ client'.pending_used = client.pending_used + 1
  BY <1>2, <1>3, LifeAssumed, CP!WriteStep DEF CP!SameCalls
<1>5. /\ on_the_way' \in [client : Nat, server : Nat]
      /\ on_the_way'.client = on_the_way.client + Sent(client, client')
      /\ on_the_way.client \in Nat
  BY <1>1, <1>3, ClientTransmits
<1>6. client.pending_used \in Nat /\ client'.pending_used \in Nat
  BY <1>3, SessionFacts
<1>7. Sent(client, client') = 0
  BY <1>4, <1>6 DEF Sent
<1>8. EofComesLast'
  BY <1>4 DEF ExampleInv, EofComesLast
<1>9. NoChunkLost'
  <2>1. server.unread \in Nat
    BY SessionFacts, SameWords DEF ExampleInv, Types
  <2>2. HandedOver(server) \in Nat /\ HandedOver(server') = HandedOver(server)
    BY <1>1 DEF HandedOver
  <2>3. QED
    <3> SUFFICES ASSUME ~ client.finished
                 PROVE  undelivered' = client'.pending_used
                          + on_the_way.client + HandedOver(server)
                          + server.unread
      BY <1>1, <1>4, <1>5, <1>7, <2>2 DEF NoChunkLost
    <3>1. undelivered = client.pending_used + on_the_way.client
                        + HandedOver(server) + server.unread
      BY DEF ExampleInv, NoChunkLost
    <3>2. CASE client'.pending_used = client.pending_used
      BY <1>1, <1>5, <1>6, <2>1, <2>2, <3>1, <3>2
    <3>3. CASE client'.pending_used = client.pending_used + 1
      BY <1>1, <1>5, <1>6, <2>1, <2>2, <3>1, <3>3
    <3>4. QED
      BY <1>4, <3>2, <3>3
<1>10. server.eof_read => undelivered' = undelivered
  <2>1. server.eof_read => client.finished \/ client.pending_eof
    BY DEF ExampleInv, EofsAreTrue, EofArrived, EofComesLast
  <2>2. server.eof_read => undelivered = 0
    BY DEF ExampleInv, ReadToTheEnd
  <2>3. QED
    BY <1>1, <1>4, <1>6, <2>1, <2>2
<1>11. CP!Started(client)
  BY <1>1 DEF ExampleInv, Connected
<1>12. QED
  BY <1>1, <1>3, <1>4, <1>5, <1>7, <1>8, <1>9, <1>10, <1>11, ClientSide

LEMMA ClientCloseKeeps ==
  ASSUME ExampleInv, ClientClose
  PROVE  ExampleInv'
<1>1. /\ C!AsyncClose /\ closes /\ ~ client.timed_out /\ Transmit
      /\ UNCHANGED <<server, app, echo, undelivered>>
  BY Zenon DEF ClientClose, ClientDoes
<1>2. CP!AsyncClose /\ CP!Next
  BY <1>1, ClientCalls, Zenon DEF CP!Next
<1>3. CP!Good(client) /\ CP!Good(client')
  BY <1>2, GoodKept DEF ExampleInv, Types
<1>4. /\ CP!Forward(client, client') /\ CP!Caused(client, client')
      /\ CP!Sends(client, client')
      /\ client'.packets = client.packets
  BY <1>2, <1>3, LifeAssumed, CP!AsyncCloseStep
<1>5. /\ on_the_way' \in [client : Nat, server : Nat]
      /\ client.my_eof /\ on_the_way.client = 0 => on_the_way'.client = 0
      /\ EofComesLast' /\ NoChunkLost'
  BY <1>1, <1>3, <1>4, ClientSends
<1>6. CP!Started(client)
  BY <1>1 DEF ExampleInv, Connected
<1>7. QED
  BY <1>1, <1>3, <1>4, <1>5, <1>6, ClientSide

-----------------------------------------------------------------------------
(* Steps of the server's side.                                             *)
LEMMA ServerEndsAnswered ==
  ASSUME ExampleInv, CP!Good(server'), SP!Caused(server, server'),
         SP!Forward(server, server'),
         server'.close_called => server'.eof_read
  PROVE  server'.pending_eof \/ server'.my_eof \/ server'.finished =>
           server'.eof_read
<1>1. server'.pending_eof \/ server'.my_eof => server'.eof_read
  BY DEF ExampleInv, ServerAnswers, SP!Caused, SP!Forward
<1>2. server'.finished => server'.my_eof \/ server'.close_called
  BY SessionFacts
<1>3. QED
  BY <1>1, <1>2

LEMMA ServerSide ==
  ASSUME ExampleInv, UNCHANGED <<client, app>>, CP!Good(server'),
         SP!Forward(server, server'), SP!Caused(server, server'),
         server'.close_called \/ echo' \in {"close", "closed"} =>
           server'.eof_read,
         "eof" \in server'.packets =>
           "eof" \in server.packets
             \/ (client.my_eof /\ on_the_way.client = 0),
         on_the_way' \in [client : Nat, server : Nat],
         on_the_way.client = 0 => on_the_way'.client = 0,
         EofIsLast', NoChunkLost',
         server.eof_read => undelivered' = undelivered /\ server'.unread = 0
  PROVE  ExampleInv'
<1>1. Types'
  BY SameWords DEF ExampleInv, Types, SP!Forward
<1>2. Connected' /\ SocketClosed' /\ EofComesLast' /\ ClientBegins'
  <2>1. UNCHANGED <<client, reads, writes, closes>>
    BY DEF app
  <2>2. QED
    BY <2>1, Zenon
    DEF ExampleInv, Connected, SocketClosed, EofComesLast, ClientBegins
<1>3. ServerAnswers'
  BY ServerEndsAnswered DEF ServerAnswers
<1>4. EofsAreTrue'
  <2>1. EofArrived(server') =>
          EofArrived(server) \/ (client.my_eof /\ on_the_way.client = 0)
    BY DEF EofArrived, SP!Caused
  <2>2. server.my_eof => server'.my_eof
    BY DEF SP!Forward
  <2>3. QED
    BY <2>1, <2>2 DEF ExampleInv, EofsAreTrue
<1>5. ReadToTheEnd'
  <2>1. CASE server.eof_read
    BY <2>1 DEF ExampleInv, ReadToTheEnd
  <2>2. CASE ~ server.eof_read /\ server'.eof_read
    <3>1. server.eof_stored /\ server'.unread = 0
      BY <2>2 DEF SP!Caused
    <3>2. client.my_eof /\ on_the_way.client = 0
      BY <3>1 DEF ExampleInv, EofsAreTrue, EofArrived
    <3>3. ~ client.finished
      BY <2>2 DEF ExampleInv, EndsAfterServer
    <3>4. client.pending_used = 0
      BY <3>2, <3>3 DEF ExampleInv, EofComesLast
    <3>5. HandedOver(server') = 0
      BY <2>2 DEF EofIsLast, HandedOver
    <3>6. undelivered' = 0
      BY <3>1, <3>2, <3>3, <3>4, <3>5 DEF NoChunkLost
    <3>7. QED
      BY <3>1, <3>6 DEF ReadToTheEnd
  <2>3. QED
    BY <2>1, <2>2 DEF ReadToTheEnd
<1>6. EndsAfterServer'
  BY DEF ExampleInv, EndsAfterServer, SP!Forward
<1>7. QED
  BY <1>1, <1>2, <1>3, <1>4, <1>5, <1>6 DEF ExampleInv

LEMMA ServerTransmits ==
  ASSUME ExampleInv, CP!Good(server'), UNCHANGED client, Transmit
  PROVE  /\ on_the_way' \in [client : Nat, server : Nat]
         /\ on_the_way'.client = on_the_way.client
<1>1. on_the_way.client \in Nat /\ on_the_way.server \in Nat
  BY DEF ExampleInv, Types
<1>2. Sent(server, server') \in {0, 1}
  BY DEF Sent
<1>3. client.pending_used \in Nat
  BY SessionFacts DEF ExampleInv, Types
<1>4. Sent(client, client') = 0
  BY <1>3 DEF Sent
<1>5. on_the_way' = [client |-> on_the_way.client + Sent(client, client'),
                     server |-> on_the_way.server + Sent(server, server')]
  BY DEF Transmit
<1> HIDE DEF Sent
<1>6. QED
  BY <1>1, <1>2, <1>4, <1>5

LEMMA ServerGood ==
  ASSUME ExampleInv, SP!Next
  PROVE  /\ SP!Good(server) /\ CP!Good(server) /\ CP!Good(server')
         /\ server.unread \in Nat /\ server'.unread \in Nat
<1>1. SP!Good(server) /\ SP!Good(server')
  BY GoodKept DEF ExampleInv, Types
<1>2. CP!Good(server) /\ CP!Good(server')
  BY <1>1, SameWords
<1>3. QED
  BY <1>1, <1>2, SessionFacts

(* A step that stores and reads nothing.                                   *)
LEMMA ServerRests ==
  ASSUME ExampleInv, SP!Next, UNCHANGED <<client, app, undelivered>>,
         Transmit,
         SP!Forward(server, server'), SP!Caused(server, server'),
         SP!Stores(server, server'), server'.packets = server.packets,
         server'.eof_stored => server.eof_stored,
         server'.close_called \/ echo' \in {"close", "closed"} =>
           server.eof_read
  PROVE  ExampleInv'
<1>1. CP!Good(server')
  BY ServerGood
<1>2. /\ on_the_way' \in [client : Nat, server : Nat]
      /\ on_the_way'.client = on_the_way.client
  BY <1>1, ServerTransmits
<1>3. server.eof_read <=> server'.eof_read
  BY DEF SP!Stores, SP!Forward
<1>4. server'.unread = server.unread
  <2>1. server'.finished => server.eof_read
    BY <1>1, <1>3, ServerEndsAnswered
  <2>2. QED
    BY <2>1 DEF SP!Stores, ExampleInv, ReadToTheEnd
<1>5. EofIsLast'
  BY <1>3 DEF ExampleInv, EofIsLast
<1>6. NoChunkLost'
  BY <1>2, <1>4 DEF ExampleInv, NoChunkLost, HandedOver
<1>7. server.eof_read => server'.unread = 0
  BY <1>4 DEF ExampleInv, ReadToTheEnd
<1>8. QED
  BY <1>1, <1>2, <1>3, <1>5, <1>6, <1>7, ServerSide

ServerOwn ==
  \/ ServerSendQueue \/ ServerSendQueueTimeout \/ ServerCloseTimeout
  \/ ServerRetryClose \/ ServerAcks

LEMMA ServerOwnKeeps ==
  ASSUME ExampleInv, ServerOwn \/ Accept
  PROVE  ExampleInv'
<1>1. /\ SP!Own /\ SP!Next /\ Transmit
      /\ UNCHANGED <<client, app, undelivered>>
      /\ echo' = echo \/ echo' = "read"
  BY ServerCalls, ServerHandlers, Zenon
  DEF ServerOwn, ServerSendQueue, ServerSendQueueTimeout, ServerCloseTimeout,
      ServerRetryClose, ServerAcks, ServerHandler, ServerDoes, Accept,
      SP!Own, SP!Next
<1>2. SP!Internal(server, server')
  BY <1>1, ServerGood, LifeAssumed, SP!OwnStep
<1>3. server'.close_called \/ echo' \in {"close", "closed"} =>
        server.eof_read
  BY <1>1, <1>2 DEF ExampleInv, ServerAnswers, SP!Internal, SP!SameCalls
<1>4. QED
  BY <1>1, <1>2, <1>3, ServerRests DEF SP!Internal

(* A block the strand has is stored: the server has not read an EOF yet.   *)
LEMMA ServerProcessKeeps ==
  ASSUME ExampleInv, ServerProcess
  PROVE  ExampleInv'
<1>1. PICK packet \in S!Packets :
        /\ S!Process(packet) /\ Room(server, packet) /\ Transmit
        /\ UNCHANGED <<client, app, echo, undelivered>>
  BY Zenon DEF ServerProcess, ServerHandler, ServerDoes
<1>2. packet \in SP!Packets /\ SP!Process(packet) /\ SP!Next
  BY <1>1, ServerPackets, Zenon DEF S!Packets, SP!Packets, SP!Next
<1>3. /\ SP!Good(server) /\ CP!Good(server')
      /\ server.unread \in Nat /\ server'.unread \in Nat
  BY <1>2, ServerGood
<1>4. SP!Processes(server, server', packet)
  BY <1>2, <1>3, LifeAssumed, SP!ProcessStep
<1>5. /\ SP!Forward(server, server') /\ SP!Caused(server, server')
      /\ server'.close_called => server.close_called
      /\ server'.packets = server.packets \ {packet}
      /\ server'.eof_read => server.eof_read
      /\ server'.eof_stored => server.eof_stored \/ packet = "eof"
  BY <1>4 DEF SP!Processes, SP!SameCalls
<1>6. /\ on_the_way' \in [client : Nat, server : Nat]
      /\ on_the_way'.client = on_the_way.client
  BY <1>1, <1>3, ServerTransmits
<1>7. /\ packet \in server.packets
      /\ packet = "eof" => "data" \notin server.packets
  BY <1>2, Zenon DEF SP!Process
<1>8. EofIsLast'
  BY <1>5, <1>7 DEF ExampleInv, EofIsLast
<1>9. CASE packet = "data"
  <2>1. ~ server.eof_read
    BY <1>7, <1>9 DEF ExampleInv, EofIsLast
  <2>2. ~ server.pending_eof /\ ~ server.finished
    BY <2>1 DEF ExampleInv, ServerAnswers
  <2>3. server.unread # MaxUnread
    BY <1>1, <1>3, <1>9, <2>2, ExampleAssumption DEF Room
  <2>4. server'.unread = server.unread + 1
    BY <1>4, <1>9, <2>2, <2>3 DEF SP!Processes, ExampleInv, Types
  <2>5. HandedOver(server) = 1 /\ HandedOver(server') = 0
    BY <1>5, <1>7, <1>9 DEF HandedOver
  <2>6. NoChunkLost'
    <3> SUFFICES ASSUME ~ client.finished
                 PROVE  undelivered = client.pending_used + on_the_way.client
                                      + 0 + (server.unread + 1)
      BY <1>1, <1>6, <2>4, <2>5 DEF NoChunkLost
    <3>1. undelivered = client.pending_used + on_the_way.client
                        + 1 + server.unread
      BY <2>5 DEF ExampleInv, NoChunkLost
    <3>2. client.pending_used \in Nat /\ on_the_way.client \in Nat
      BY SessionFacts DEF ExampleInv, Types
    <3>3. QED
      BY <1>3, <3>1, <3>2
  <2>7. QED
    BY <1>1, <1>3, <1>5, <1>6, <1>8, <2>1, <2>6, ServerSide
    DEF ExampleInv, ServerAnswers
<1>10. CASE packet # "data"
  <2>1. server'.unread = server.unread
    BY <1>4, <1>10 DEF SP!Processes, ExampleInv, Types
  <2>2. HandedOver(server') = HandedOver(server)
    BY <1>5, <1>10 DEF HandedOver
  <2>3. NoChunkLost'
    BY <1>1, <1>6, <2>1, <2>2 DEF ExampleInv, NoChunkLost
  <2>4. server.eof_read => server'.unread = 0
    BY <2>1 DEF ExampleInv, ReadToTheEnd
  <2>5. server'.close_called \/ echo' \in {"close", "closed"} =>
          server'.eof_read
    BY <1>1, <1>5 DEF ExampleInv, ServerAnswers, SP!Forward
  <2>6. QED
    BY <1>1, <1>3, <1>5, <1>6, <1>8, <2>3, <2>4, <2>5, ServerSide
<1>11. QED
  BY <1>9, <1>10

(* A block leaves the network; the client's EOF comes after all of them.   *)
LEMMA ServerReceivesKeeps ==
  ASSUME ExampleInv, NEW packet \in C!Packets, ServerReceives(packet)
  PROVE  ExampleInv'
<1>1. /\ S!Receive(packet) /\ Arrives(packet, client, on_the_way.client)
      /\ on_the_way' =
           [on_the_way EXCEPT !.client = @ - Blocks(packet)]
      /\ UNCHANGED <<client, app, echo, undelivered>>
  BY Zenon DEF ServerReceives
<1>2. packet \in SP!Packets /\ SP!Receive(packet) /\ SP!Next
  BY <1>1, ServerPackets, Zenon DEF C!Packets, SP!Packets, SP!Next
<1>3. /\ SP!Good(server) /\ CP!Good(server')
      /\ server.unread \in Nat /\ server'.unread \in Nat
  BY <1>2, ServerGood
<1>4. /\ SP!Forward(server, server') /\ SP!Caused(server, server')
      /\ server'.close_called => server.close_called
      /\ server'.eof_read => server.eof_read
      /\ server'.packets = server.packets \cup {packet}
      /\ server'.eof_stored = server.eof_stored
      /\ server'.unread = server.unread
  BY <1>2, <1>3, LifeAssumed, SP!ReceiveStep DEF SP!SameCalls, SP!Stores
<1>5. /\ packet \notin server.packets
      /\ packet = "data" => ~ server.eof_stored
  BY <1>2, Zenon DEF SP!Receive
<1>6. on_the_way.client \in Nat
  BY DEF ExampleInv, Types
<1>7. /\ on_the_way' \in [client : Nat, server : Nat]
      /\ on_the_way'.client = on_the_way.client - Blocks(packet)
      /\ on_the_way.client = 0 => on_the_way'.client = 0
  BY <1>1 DEF ExampleInv, Types, Arrives, Blocks
<1>8. "eof" \in server'.packets =>
        "eof" \in server.packets \/ (client.my_eof /\ on_the_way.client = 0)
  BY <1>1, <1>4 DEF Arrives
<1>9. EofIsLast'
  <2>1. packet = "data" => ~ server.eof_read
    BY <1>1, <1>6 DEF Arrives, ExampleInv, EofsAreTrue, EofArrived
  <2>2. QED
    BY <1>4, <1>5, <2>1 DEF ExampleInv, EofIsLast
<1>10. NoChunkLost'
  <2>1. HandedOver(server') = HandedOver(server) + Blocks(packet)
    BY <1>4, <1>5 DEF HandedOver, Blocks
  <2>2. HandedOver(server) \in Nat /\ Blocks(packet) \in Nat
    BY DEF HandedOver, Blocks
  <2>3. client.pending_used \in Nat
    BY SessionFacts DEF ExampleInv, Types
  <2>4. ~ client.finished =>
          undelivered = client.pending_used + on_the_way.client
                        + HandedOver(server) + server.unread
    BY DEF ExampleInv, NoChunkLost
  <2>5. ~ client.finished =>
          undelivered = client.pending_used
                        + (on_the_way.client - Blocks(packet))
                        + (HandedOver(server) + Blocks(packet))
                        + server.unread
    BY <1>3, <1>6, <2>2, <2>3, <2>4
  <2>6. QED
    BY <1>1, <1>4, <1>7, <2>1, <2>5 DEF NoChunkLost
<1>11. server.eof_read => server'.unread = 0
  BY <1>4 DEF ExampleInv, ReadToTheEnd
<1>12. server'.close_called \/ echo' \in {"close", "closed"} =>
         server'.eof_read
  BY <1>1, <1>4 DEF ExampleInv, ServerAnswers, SP!Forward
<1>13. QED
  BY <1>1, <1>3, <1>4, <1>7, <1>8, <1>9, <1>10, <1>11, <1>12, ServerSide

-----------------------------------------------------------------------------
(* The server's application.                                               *)

(* read_handler() closes at the end of the stream only.                    *)
LEMMA ServerReadKeeps ==
  ASSUME ExampleInv, ServerRead
  PROVE  ExampleInv'
<1>1. /\ S!Read \/ S!RetryRead
      /\ ReadHandler /\ Transmit
      /\ undelivered' =
           undelivered - IF server'.unread < server.unread THEN 1 ELSE 0
      /\ UNCHANGED <<client, app>>
  BY Zenon DEF ServerRead, ServerDoes
<1>2. (SP!Read \/ SP!RetryRead) /\ SP!Next
  BY <1>1, ServerCalls, Zenon DEF SP!Next
<1>3. /\ SP!Good(server) /\ CP!Good(server')
      /\ server.unread \in Nat /\ server'.unread \in Nat
  BY <1>2, ServerGood
<1>4. /\ SP!Forward(server, server') /\ SP!Caused(server, server')
      /\ server'.close_called => server.close_called
      /\ server'.packets = server.packets
      /\ server'.eof_stored => server.eof_stored
      /\ \/ server'.unread = server.unread
         \/ server.unread > 0 /\ server'.unread = server.unread - 1
  BY <1>2, <1>3, LifeAssumed, SP!ReadStep DEF SP!SameCalls
<1>5. /\ on_the_way' \in [client : Nat, server : Nat]
      /\ on_the_way'.client = on_the_way.client
  BY <1>1, <1>3, ServerTransmits
<1>6. server'.close_called \/ echo' \in {"close", "closed"} =>
        server'.eof_read
  <2>1. server'.close_called => server'.eof_read
    BY <1>4 DEF ExampleInv, ServerAnswers, SP!Forward
  <2>2. server'.pending_eof => server'.eof_read
    BY <1>3, <1>4, <2>1, ServerEndsAnswered
  <2>3. echo' \in {"close", "closed"} => server'.pending_eof
    BY <1>1 DEF ReadHandler
  <2>4. QED
    BY <2>1, <2>2, <2>3
<1>7. EofIsLast'
  BY <1>4 DEF ExampleInv, EofIsLast, SP!Caused
<1>8. NoChunkLost'
  <2>1. HandedOver(server') = HandedOver(server)
        /\ HandedOver(server) \in Nat
    BY <1>4 DEF HandedOver
  <2>2. client.pending_used \in Nat /\ on_the_way.client \in Nat
    BY SessionFacts DEF ExampleInv, Types
  <2> SUFFICES ASSUME ~ client.finished
               PROVE  undelivered' = client.pending_used + on_the_way.client
                                     + HandedOver(server) + server'.unread
    BY <1>1, <1>5, <2>1 DEF NoChunkLost
  <2>3. undelivered = client.pending_used + on_the_way.client
                      + HandedOver(server) + server.unread
    BY DEF ExampleInv, NoChunkLost
  <2>4. CASE server'.unread = server.unread
    BY <1>1, <1>3, <2>1, <2>2, <2>3, <2>4
  <2>5. CASE server.unread > 0 /\ server'.unread = server.unread - 1
    BY <1>1, <1>3, <2>1, <2>2, <2>3, <2>5
  <2>6. QED
    BY <1>4, <2>4, <2>5
<1>9. server.eof_read => undelivered' = undelivered /\ server'.unread = 0
  BY <1>1, <1>3, <1>4 DEF ExampleInv, ReadToTheEnd
<1>10. QED
  BY <1>1, <1>3, <1>4, <1>5, <1>6, <1>7, <1>8, <1>9, ServerSide

LEMMA ServerWriteKeeps ==
  ASSUME ExampleInv, ServerWrite
  PROVE  ExampleInv'
<1>1. /\ S!Write \/ S!RetryWrite
      /\ echo = "write" /\ Transmit
      /\ echo' \in {"close", "closed"} => server.pending_eof
      /\ UNCHANGED <<client, app, undelivered>>
  BY DEF ServerWrite, ServerDoes
<1>2. (SP!Write \/ SP!RetryWrite) /\ SP!Next
  BY <1>1, ServerCalls, Zenon DEF SP!Next
<1>3. SP!Good(server)
  BY <1>2, ServerGood
<1>4. /\ SP!Forward(server, server') /\ SP!Caused(server, server')
      /\ SP!Stores(server, server') /\ SP!SameCalls(server, server')
      /\ server'.packets = server.packets
      /\ server'.eof_stored => server.eof_stored
  BY <1>2, <1>3, LifeAssumed, SP!WriteStep
<1>5. server'.close_called \/ echo' \in {"close", "closed"} =>
        server.eof_read
  BY <1>1, <1>4 DEF ExampleInv, ServerAnswers, SP!SameCalls
<1>6. QED
  BY <1>1, <1>2, <1>4, <1>5, ServerRests

LEMMA ServerCloseKeeps ==
  ASSUME ExampleInv, ServerClose
  PROVE  ExampleInv'
<1>1. /\ S!AsyncClose /\ echo = "close" /\ Transmit
      /\ UNCHANGED <<client, app, undelivered>>
  BY Zenon DEF ServerClose, ServerDoes
<1>2. SP!AsyncClose /\ SP!Next
  BY <1>1, ServerCalls, Zenon DEF SP!Next
<1>3. SP!Good(server)
  BY <1>2, ServerGood
<1>4. /\ SP!Forward(server, server') /\ SP!Caused(server, server')
      /\ SP!Stores(server, server')
      /\ server'.packets = server.packets
      /\ server'.eof_stored => server.eof_stored
  BY <1>2, <1>3, LifeAssumed, SP!AsyncCloseStep
<1>5. server.eof_read
  BY <1>1 DEF ExampleInv, ServerAnswers
<1>6. QED
  BY <1>1, <1>2, <1>4, <1>5, ServerRests

-----------------------------------------------------------------------------
LEMMA InitExample == Init => ExampleInv
<1> SUFFICES ASSUME Init PROVE ExampleInv
  OBVIOUS
<1>1. CP!Init /\ SP!Init
  BY Zenon DEF Init, CP!Init, SP!Init, C!NewSession, CP!NewSession,
               S!NewSession, SP!NewSession
<1>2. CP!Good(client) /\ SP!Good(server)
  BY <1>1, LifeAssumed, CP!InitGood, SP!InitGood, Zenon
  DEF CP!LifeInv, SP!LifeInv
<1>3. /\ client.type = "client" /\ client.pending_used = 0
      /\ client.pending_eof = FALSE /\ client.my_eof = FALSE
      /\ client.packets = {} /\ client.eof_stored = FALSE
      /\ client.eof_read = FALSE /\ client.their_final = FALSE
      /\ client.close_called = FALSE /\ client.finished = FALSE
      /\ client.lower_open = TRUE
  BY Zenon DEF Init, C!NewSession
<1>4. /\ server.type = "server" /\ server.unread = 0
      /\ server.pending_eof = FALSE /\ server.my_eof = FALSE
      /\ server.packets = {} /\ server.eof_stored = FALSE
      /\ server.eof_read = FALSE /\ server.their_final = FALSE
      /\ server.close_called = FALSE /\ server.finished = FALSE
  BY Zenon DEF Init, S!NewSession
<1>5. /\ reads = "off" /\ writes = "off" /\ closes = FALSE
      /\ echo = "accept" /\ undelivered = 0
      /\ on_the_way = [client |-> 0, server |-> 0]
  BY DEF Init
<1>6. QED
  BY <1>2, <1>3, <1>4, <1>5
  DEF ExampleInv, Types, Connected, SocketClosed, EofComesLast, ClientBegins,
      ServerAnswers, EofsAreTrue, EofArrived, EofIsLast, NoChunkLost,
      HandedOver, ReadToTheEnd, EndsAfterServer

LEMMA NextExample == ExampleInv /\ [Next]_vars => ExampleInv'
<1> SUFFICES ASSUME ExampleInv, [Next]_vars PROVE ExampleInv'
  OBVIOUS
<1>1. CASE ClientOwn \/ ClientProcess
  BY <1>1, ClientOwnKeeps, ClientProcessKeeps
<1>2. CASE ConnectHandler \/ ClientRead \/ ClientWrite \/ ClientClose
  BY <1>2, ConnectHandlerKeeps, ClientReadKeeps, ClientWriteKeeps,
     ClientCloseKeeps
<1>3. CASE ServerOwn \/ Accept \/ ServerProcess
  BY <1>3, ServerOwnKeeps, ServerProcessKeeps
<1>4. CASE ServerRead \/ ServerWrite \/ ServerClose
  BY <1>4, ServerReadKeeps, ServerWriteKeeps, ServerCloseKeeps
<1>5. ASSUME NEW packet \in C!Packets,
             ClientReceives(packet) \/ ServerReceives(packet)
      PROVE  ExampleInv'
  BY <1>5, ClientReceivesKeeps, ServerReceivesKeeps
<1>6. CASE UNCHANGED vars
  BY <1>6, Zenon
  DEF vars, ExampleInv, Types, Connected, SocketClosed, EofComesLast,
      ClientBegins, ServerAnswers, EofsAreTrue, EofIsLast, NoChunkLost,
      ReadToTheEnd, EndsAfterServer
<1>7. QED
  BY <1>1, <1>2, <1>3, <1>4, <1>5, <1>6, Zenon
  DEF Next, ClientOwn, ServerOwn

(* The inductive invariant holds in every behaviour.                       *)
THEOREM ExampleInvariant == Spec => []ExampleInv
  BY InitExample, NextExample, PTL DEF Spec

(* A session of the client that ends without its close timer has given the *)
(* server everything: the server's EOF, without which it does not end      *)
(* (session.ipp:99), is an answer to its own, which comes after its bytes. *)
THEOREM Delivered == Spec => []GracefulMeansDelivered
<1>1. ExampleInv => GracefulMeansDelivered
  BY DEF ExampleInv, EndsAfterServer, ReadToTheEnd, GracefulMeansDelivered
<1>2. QED
  BY <1>1, ExampleInvariant, PTL

(* The server ends its side only after the client has closed: its handlers *)
(* see an error only then (simple_server.cpp:82, 103).                     *)
THEOREM ClientCloses == Spec => []ClientEndsFirst
<1>1. ExampleInv => ClientEndsFirst
  BY DEF ExampleInv, ServerAnswers, EofsAreTrue, EofArrived, ClientBegins,
         ClientEndsFirst
<1>2. QED
  BY <1>1, ExampleInvariant, PTL

(* Nothing is lost on the way: until the client's session ends, what the   *)
(* server has not read is in the client's ring, on the network, in the     *)
(* server's strand or in its recvmarkq_.                                   *)
THEOREM ChunksAccounted == Spec => []NoChunkLost
<1>1. ExampleInv => NoChunkLost
  BY DEF ExampleInv
<1>2. QED
  BY <1>1, ExampleInvariant, PTL
=============================================================================
