--------------------------- MODULE AcceptorProofs ---------------------------
(***************************************************************************)
(* Theorems about Acceptor, for every number of keys, endpoints, accept    *)
(* operations and sessions.                                                *)
(***************************************************************************)
EXTENDS Acceptor, SequenceTheorems, TLAPS

-----------------------------------------------------------------------------
(* The inductive invariant.                                                *)

Datagram == [key : Keys, from : Endpoints]

Types ==
  /\ TypeOK
  /\ Len(session) <= MaxSessions
  /\ \A k \in Keys : sessions[k] \in 0 .. Len(session)
  /\ receiving = "ready" => lower_recv \in Datagram
  /\ handling # Nothing =>
       /\ receiving = "none" /\ lower_recv \in Datagram
       /\ handling \in Handled /\ handling.session \in 0 .. Len(session)
       /\ handling.from = lower_recv.from

(* AcceptedInOrder, position by position.                                  *)
Numbered ==
  /\ Len(accepted) + Len(pending_sessions) = Len(session)
  /\ \A i \in 1 .. Len(accepted) : accepted[i] = i
  /\ \A i \in 1 .. Len(pending_sessions) :
       pending_sessions[i] = Len(accepted) + i

PendingUntilAccepted ==
  \A s \in 1 .. Len(session) :
    s > Len(accepted) => session[s].state = "pending"

Live(s) == session[s].state \in {"pending", "running"}

ClosedBefore(s) ==
  \E t \in 1 .. s - 1 :
    session[t].key = session[s].key /\ session[t].state = "closed"

LiveIsStored ==
  \A s \in 1 .. Len(session) :
    Live(s) => sessions[session[s].key] = s \/ ClosedBefore(s)

(* A second session with the same key is put only when the first one is    *)
(* not stored any more.                                                    *)
LiveWithNewer ==
  \A s, u \in 1 .. Len(session) :
    Live(s) /\ s < u /\ session[u].key = session[s].key => ClosedBefore(s)

EndpointsHeard ==
  \A s \in 1 .. Len(session) : session[s].endpoint = session[s].heard

NobodyMisses ==
  \A o \in Accepts :
    op[o] = "waiting" \/ op[o] = "calling" => pending_sessions = << >>

AcceptorInv ==
  /\ Types /\ Numbered /\ PendingUntilAccepted
  /\ LiveIsStored /\ LiveWithNewer /\ EndpointsHeard
  /\ SingleThread => NobodyMisses

-----------------------------------------------------------------------------
LEMMA SessionFacts ==
  ASSUME AcceptorInv
  PROVE  /\ session \in Seq(Session) /\ Len(session) \in Nat
         /\ DOMAIN session = 1 .. Len(session)
         /\ \A s \in 1 .. Len(session) : session[s] \in Session
         /\ pending_sessions \in Seq(1 .. MaxSessions)
         /\ Len(pending_sessions) \in Nat
         /\ accepted \in Seq(1 .. MaxSessions) /\ Len(accepted) \in Nat
         /\ MaxSessions \in Nat
<1>1. /\ session \in Seq(Session) /\ pending_sessions \in Seq(1 .. MaxSessions)
      /\ accepted \in Seq(1 .. MaxSessions)
  BY DEF AcceptorInv, Types, TypeOK
<1>2. QED
  BY <1>1, LenProperties, ElementOfSeq, AcceptorAssumption

LEMMA InitAcceptorInv == Init => AcceptorInv
<1> SUFFICES ASSUME Init PROVE AcceptorInv
  OBVIOUS
<1>1. session = << >> /\ pending_sessions = << >> /\ accepted = << >>
  BY DEF Init
<1>2. /\ << >> \in Seq(Session) /\ << >> \in Seq(1 .. MaxSessions)
      /\ Len(<< >>) = 0
  BY EmptySeq
<1>3. Types
  BY <1>1, <1>2, AcceptorAssumption DEF Init, Types, TypeOK, None, OpStates
<1>4. QED
  BY <1>1, <1>2, <1>3
  DEF Init, AcceptorInv, Numbered, PendingUntilAccepted, LiveIsStored,
      LiveWithNewer, EndpointsHeard, NobodyMisses

(* An accept operation takes the first pending session.                    *)
LEMMA TakeKeeps ==
  ASSUME AcceptorInv, NEW o \in Accepts, pending_sessions # << >>,
         Take(o), UNCHANGED <<sessions, datagram>>
  PROVE  AcceptorInv'
<1> DEFINE s == Head(pending_sessions)
           n == Len(accepted)
<1>1. /\ session \in Seq(Session) /\ Len(session) \in Nat
      /\ DOMAIN session = 1 .. Len(session)
      /\ \A i \in 1 .. Len(session) : session[i] \in Session
      /\ pending_sessions \in Seq(1 .. MaxSessions)
      /\ Len(pending_sessions) \in Nat
      /\ accepted \in Seq(1 .. MaxSessions) /\ n \in Nat
      /\ MaxSessions \in Nat
  BY SessionFacts
<1>2. /\ Len(pending_sessions) > 0
      /\ s = pending_sessions[1]
      /\ Tail(pending_sessions) \in Seq(1 .. MaxSessions)
      /\ Len(Tail(pending_sessions)) = Len(pending_sessions) - 1
      /\ \A i \in 1 .. Len(Tail(pending_sessions)) :
           Tail(pending_sessions)[i] = pending_sessions[i + 1]
  BY <1>1, HeadTailProperties, LenProperties
<1>3. s = n + 1 /\ s \in 1 .. Len(session) /\ s \in 1 .. MaxSessions
      /\ n < Len(session)
  BY <1>1, <1>2 DEF AcceptorInv, Numbered, Types
<1>4. /\ pending_sessions' = Tail(pending_sessions)
      /\ accepted' = Append(accepted, s)
      /\ session' = [session EXCEPT ![s].state = "running"]
      /\ op' = [op EXCEPT ![o] = "idle"]
      /\ sessions' = sessions
      /\ receiving' = receiving /\ lower_recv' = lower_recv
      /\ handling' = handling
  BY DEF Take, datagram
<1>5. /\ accepted' \in Seq(1 .. MaxSessions) /\ Len(accepted') = n + 1
      /\ \A i \in 1 .. n : accepted'[i] = accepted[i]
      /\ accepted'[n + 1] = s
  BY <1>1, <1>3, <1>4, AppendProperties
<1> HIDE DEF s
<1>6. /\ [session[s] EXCEPT !.state = "running"] \in Session
      /\ [session[s] EXCEPT !.state = "running"].state = "running"
      /\ [session[s] EXCEPT !.state = "running"].key = session[s].key
      /\ [session[s] EXCEPT !.state = "running"].endpoint = session[s].endpoint
      /\ [session[s] EXCEPT !.state = "running"].heard = session[s].heard
  BY <1>1, <1>3 DEF Session
<1>7. session' = [session EXCEPT ![s] = [session[s] EXCEPT !.state = "running"]]
  BY <1>4
<1>8. /\ session' \in Seq(Session) /\ Len(session') = Len(session)
      /\ \A i \in 1 .. Len(session) :
           session'[i] = IF i = s THEN [session[s] EXCEPT !.state = "running"]
                         ELSE session[i]
  BY <1>1, <1>3, <1>6, <1>7, ExceptSeq
<1>9. \A i \in 1 .. Len(session) :
        /\ session'[i].key = session[i].key
        /\ session'[i].endpoint = session[i].endpoint
        /\ session'[i].heard = session[i].heard
        /\ i # s => session'[i] = session[i]
  BY <1>6, <1>8
<1>10. session'[s].state = "running" /\ session[s].state = "pending"
  <2>1. s > n
    BY <1>1, <1>3
  <2>2. QED
    BY <1>3, <1>6, <1>8, <2>1 DEF AcceptorInv, PendingUntilAccepted
<1>11. Types'
  <2>1. op' \in [Accepts -> OpStates]
    BY <1>4 DEF AcceptorInv, Types, TypeOK, OpStates
  <2>2. TypeOK'
    BY <1>1, <1>2, <1>4, <1>5, <1>8, <2>1, AcceptorAssumption
    DEF AcceptorInv, Types, TypeOK
  <2>3. QED
    BY <1>4, <1>8, <2>2, Zenon DEF AcceptorInv, Types
<1>12. Numbered'
  <2>1. Len(accepted') + Len(pending_sessions') = Len(session')
    BY <1>1, <1>2, <1>4, <1>5, <1>8 DEF AcceptorInv, Numbered
  <2>2. \A i \in 1 .. Len(accepted') : accepted'[i] = i
    <3>1. \A i \in 1 .. n : accepted'[i] = i
      BY <1>5 DEF AcceptorInv, Numbered
    <3>2. QED
      BY <1>1, <1>3, <1>5, <3>1
  <2>3. \A i \in 1 .. Len(pending_sessions') :
          pending_sessions'[i] = Len(accepted') + i
    <3>1. \A i \in 1 .. Len(Tail(pending_sessions)) :
            i + 1 \in 1 .. Len(pending_sessions) /\ i \in Nat
      BY <1>1, <1>2
    <3>2. \A i \in 1 .. Len(pending_sessions) : pending_sessions[i] = n + i
      BY DEF AcceptorInv, Numbered
    <3>3. QED
      BY <1>1, <1>2, <1>4, <1>5, <3>1, <3>2
  <2>4. QED
    BY <2>1, <2>2, <2>3 DEF Numbered
<1>13. PendingUntilAccepted'
  <2>1. \A i \in 1 .. Len(session) : i > n + 1 => i > n /\ i # s
    BY <1>1, <1>3
  <2>2. QED
    BY <1>5, <1>8, <1>9, <2>1 DEF AcceptorInv, PendingUntilAccepted
<1>14. \A i \in 1 .. Len(session) :
         /\ Live(i)' <=> Live(i)
         /\ ClosedBefore(i) => ClosedBefore(i)'
  <2>1. SUFFICES ASSUME NEW i \in 1 .. Len(session)
                 PROVE  /\ Live(i)' <=> Live(i)
                        /\ ClosedBefore(i) => ClosedBefore(i)'
    OBVIOUS
  <2>2. Live(i)' <=> Live(i)
    BY <1>9, <1>10 DEF Live
  <2>3. ASSUME ClosedBefore(i) PROVE ClosedBefore(i)'
    <3>1. PICK t \in 1 .. i - 1 :
            session[t].key = session[i].key /\ session[t].state = "closed"
      BY <2>3 DEF ClosedBefore
    <3>2. t \in 1 .. Len(session) /\ t # s
      BY <1>1, <1>10, <3>1
    <3>3. session'[t].key = session'[i].key /\ session'[t].state = "closed"
      BY <1>9, <3>1, <3>2
    <3>4. QED
      BY <3>3 DEF ClosedBefore
  <2>4. QED
    BY <2>2, <2>3
<1>15. LiveIsStored' /\ LiveWithNewer'
  BY <1>4, <1>8, <1>9, <1>14 DEF AcceptorInv, LiveIsStored, LiveWithNewer
<1>16. EndpointsHeard'
  BY <1>8, <1>9 DEF AcceptorInv, EndpointsHeard
<1>17. SingleThread => NobodyMisses'
  BY <1>4 DEF AcceptorInv, NobodyMisses, Types, TypeOK
<1>18. QED
  BY <1>11, <1>12, <1>13, <1>15, <1>16, <1>17 DEF AcceptorInv

(* What is said of sessions holds as long as they do not change.           *)
LEMMA SameSessions ==
  ASSUME AcceptorInv,
         UNCHANGED <<session, sessions, pending_sessions, accepted>>
  PROVE  /\ Numbered' /\ PendingUntilAccepted' /\ LiveIsStored'
         /\ LiveWithNewer' /\ EndpointsHeard'
<1>1. /\ session' = session /\ sessions' = sessions
      /\ pending_sessions' = pending_sessions /\ accepted' = accepted
  OBVIOUS
<1>2. \A s : (Live(s)' <=> Live(s)) /\ (ClosedBefore(s)' <=> ClosedBefore(s))
  BY <1>1, Zenon DEF Live, ClosedBefore
<1>3. Numbered' /\ PendingUntilAccepted' /\ EndpointsHeard'
  BY <1>1, Zenon
  DEF AcceptorInv, Numbered, PendingUntilAccepted, EndpointsHeard
<1>4. LiveIsStored' /\ LiveWithNewer'
  BY <1>1, <1>2, Zenon DEF AcceptorInv, LiveIsStored, LiveWithNewer
<1>5. QED
  BY <1>3, <1>4

(* An accept operation that finds the queue empty.                         *)
LEMMA AcceptNothingKeeps ==
  ASSUME AcceptorInv, NEW o \in Accepts, NEW next \in {"calling", "waiting"},
         pending_sessions = << >> \/ op[o] = "calling",
         op' = [op EXCEPT ![o] = next],
         UNCHANGED <<session, sessions, pending_sessions, datagram, accepted>>
  PROVE  AcceptorInv'
<1>1. /\ receiving' = receiving /\ lower_recv' = lower_recv
      /\ handling' = handling
  BY DEF datagram
<1>2. op' \in [Accepts -> OpStates]
  BY DEF AcceptorInv, Types, TypeOK, OpStates
<1>3. Types'
  BY <1>1, <1>2, Zenon DEF AcceptorInv, Types, TypeOK
<1>4. SingleThread => NobodyMisses'
  BY DEF AcceptorInv, NobodyMisses, Types, TypeOK
<1>5. QED
  BY <1>3, <1>4, SameSessions DEF AcceptorInv

LEMMA AcceptKeeps ==
  ASSUME AcceptorInv, NEW o \in Accepts, NEW next \in {"calling", "waiting"},
         Accept(o, next)
  PROVE  AcceptorInv'
<1>1. CASE pending_sessions # << >> /\ Take(o)
  BY <1>1, TakeKeeps DEF Accept
<1>2. CASE /\ pending_sessions = << >>
           /\ op' = [op EXCEPT ![o] = next]
           /\ UNCHANGED <<session, pending_sessions, accepted>>
  BY <1>2, AcceptNothingKeeps DEF Accept
<1>3. QED
  BY <1>1, <1>2 DEF Accept

LEMMA WaitKeeps ==
  ASSUME AcceptorInv, NEW o \in Accepts, AsyncPendingAcceptWait(o)
  PROVE  AcceptorInv'
  BY AcceptNothingKeeps DEF AsyncPendingAcceptWait

-----------------------------------------------------------------------------
(* Datagrams.                                                              *)
LEMMA ListenKeeps ==
  ASSUME AcceptorInv, Listen
  PROVE  AcceptorInv'
<1>1. handling = Nothing /\ receiving' = "waiting"
  BY DEF Listen, AcceptorInv, Types
<1>2. Types'
  BY <1>1 DEF Listen, AcceptorInv, Types, TypeOK
<1>3. SingleThread => NobodyMisses'
  BY DEF Listen, AcceptorInv, NobodyMisses
<1>4. QED
  BY <1>2, <1>3, SameSessions DEF Listen, AcceptorInv

LEMMA ReceiveKeeps ==
  ASSUME AcceptorInv, ReceiveDatagram
  PROVE  AcceptorInv'
<1>1. handling = Nothing /\ receiving' = "ready" /\ lower_recv' \in Datagram
  BY DEF ReceiveDatagram, AcceptorInv, Types, Datagram
<1>2. Types'
  BY <1>1 DEF ReceiveDatagram, AcceptorInv, Types, TypeOK, Datagram
<1>3. SingleThread => NobodyMisses'
  BY DEF ReceiveDatagram, AcceptorInv, NobodyMisses
<1>4. QED
  BY <1>2, <1>3, SameSessions DEF ReceiveDatagram, AcceptorInv

(* A datagram that puts no session.                                        *)
LEMMA HandleKeeps ==
  ASSUME AcceptorInv, receiving = "ready", receiving' = "none",
         NEW s \in 0 .. Len(session),
         handling' = [session |-> s, from |-> lower_recv.from],
         UNCHANGED <<session, sessions, pending_sessions, op, lower_recv,
                     accepted>>
  PROVE  AcceptorInv'
<1>1. lower_recv \in Datagram /\ lower_recv.from \in Endpoints
  BY DEF AcceptorInv, Types, Datagram
<1>2. s \in 0 .. MaxSessions
  BY SessionFacts DEF AcceptorInv, Types
<1>3. /\ handling' \in Handled /\ handling'.session = s
      /\ handling'.from = lower_recv.from
  BY <1>1, <1>2 DEF Handled
<1>4. Types'
  BY <1>1, <1>3 DEF AcceptorInv, Types, TypeOK
<1>5. SingleThread => NobodyMisses'
  BY DEF AcceptorInv, NobodyMisses
<1>6. QED
  BY <1>4, <1>5, SameSessions DEF AcceptorInv

LEMMA NotifiedFacts ==
  ASSUME AcceptorInv, Free
  PROVE  /\ Notified \in [Accepts -> OpStates]
         /\ SingleThread =>
              \A o \in Accepts : Notified[o] \notin {"waiting", "calling"}
  BY DEF AcceptorInv, Types, TypeOK, OpStates, Notified, Free

(* A datagram that puts a session.                                         *)
LEMMA PutKeeps ==
  ASSUME AcceptorInv, Free, receiving = "ready", receiving' = "none",
         NEW k \in Keys, sessions[k] = None, ~ QueueIsFull,
         Len(session) < MaxSessions,
         NEW s, s = Len(session) + 1,
         session' = Append(session, [key |-> k, state |-> "pending",
                                     endpoint |-> lower_recv.from,
                                     heard |-> lower_recv.from]),
         sessions' = [sessions EXCEPT ![k] = s],
         pending_sessions' = Append(pending_sessions, s),
         handling' = [session |-> s, from |-> lower_recv.from],
         op' = Notified,
         UNCHANGED <<lower_recv, accepted>>
  PROVE  AcceptorInv'
<1> DEFINE n == Len(session)
           new == [key |-> k, state |-> "pending",
                   endpoint |-> lower_recv.from, heard |-> lower_recv.from]
<1>1. /\ session \in Seq(Session) /\ n \in Nat
      /\ \A i \in 1 .. n : session[i] \in Session
      /\ pending_sessions \in Seq(1 .. MaxSessions)
      /\ Len(pending_sessions) \in Nat
      /\ accepted \in Seq(1 .. MaxSessions) /\ Len(accepted) \in Nat
      /\ MaxSessions \in Nat
  BY SessionFacts
<1>2. lower_recv \in Datagram /\ lower_recv.from \in Endpoints
  BY DEF AcceptorInv, Types, Datagram
<1>3. /\ new \in Session /\ new.key = k /\ new.state = "pending"
      /\ new.endpoint = new.heard
  BY <1>2 DEF Session
<1>4. session' = Append(session, new)
  OBVIOUS
<1> HIDE DEF new
<1>5. /\ session' \in Seq(Session) /\ Len(session') = n + 1
      /\ \A i \in 1 .. n : session'[i] = session[i]
      /\ session'[n + 1] = new
  BY <1>1, <1>3, <1>4, AppendProperties
<1>6. s \in 1 .. MaxSessions /\ s = n + 1
  BY <1>1
<1>7. /\ pending_sessions' \in Seq(1 .. MaxSessions)
      /\ Len(pending_sessions') = Len(pending_sessions) + 1
      /\ \A i \in 1 .. Len(pending_sessions) :
           pending_sessions'[i] = pending_sessions[i]
      /\ pending_sessions'[Len(pending_sessions) + 1] = s
  BY <1>1, <1>6, AppendProperties
<1>8. Types'
  <2>1. Len(pending_sessions') <= MaximumPendingSessions
    BY <1>1, <1>7, AcceptorAssumption DEF QueueIsFull
  <2>2. /\ sessions' \in [Keys -> 0 .. MaxSessions]
        /\ \A q \in Keys : sessions'[q] \in 0 .. Len(session')
    <3>1. s \in 0 .. MaxSessions /\ s \in 0 .. Len(session')
      BY <1>1, <1>5, <1>6
    <3>2. \A j \in 0 .. n : j \in 0 .. Len(session')
      BY <1>1, <1>5
    <3>3. QED
      BY <3>1, <3>2 DEF AcceptorInv, Types, TypeOK
  <2>3. /\ handling' \in Handled /\ handling'.session \in 0 .. Len(session')
        /\ handling'.from = lower_recv.from
    BY <1>1, <1>2, <1>5, <1>6 DEF Handled
  <2>4. TypeOK'
    BY <1>5, <1>7, <2>1, <2>2, <2>3, NotifiedFacts
    DEF AcceptorInv, Types, TypeOK
  <2>5. Len(session') <= MaxSessions
    BY <1>1, <1>5
  <2>6. QED
    BY <1>2, <2>2, <2>3, <2>4, <2>5 DEF Types
<1>9. Numbered'
  <2>1. Len(accepted) + Len(pending_sessions) = n
    BY DEF AcceptorInv, Numbered
  <2>2. Len(accepted') + Len(pending_sessions') = Len(session')
    BY <1>1, <1>5, <1>7, <2>1
  <2>3. \A i \in 1 .. Len(accepted') : accepted'[i] = i
    BY DEF AcceptorInv, Numbered
  <2>4. ASSUME NEW i \in 1 .. Len(pending_sessions')
        PROVE  pending_sessions'[i] = Len(accepted') + i
    <3>1. CASE i \in 1 .. Len(pending_sessions)
      BY <1>7, <3>1 DEF AcceptorInv, Numbered
    <3>2. CASE i = Len(pending_sessions) + 1
      <4>1. pending_sessions'[i] = s /\ accepted' = accepted
        BY <1>7, <3>2
      <4>2. s = Len(accepted) + (Len(pending_sessions) + 1)
        BY <1>1, <1>6, <2>1
      <4>3. QED
        BY <3>2, <4>1, <4>2
    <3>3. QED
      BY <1>1, <1>7, <3>1, <3>2
  <2>5. QED
    BY <2>2, <2>3, <2>4 DEF Numbered
<1>10. PendingUntilAccepted'
  <2>1. ASSUME NEW i \in 1 .. n + 1, i > Len(accepted)
        PROVE  session'[i].state = "pending"
    <3>1. CASE i \in 1 .. n
      BY <1>5, <2>1, <3>1 DEF AcceptorInv, PendingUntilAccepted
    <3>2. CASE i = n + 1
      BY <1>3, <1>5, <3>2
    <3>3. QED
      BY <1>1, <3>1, <3>2
  <2>2. QED
    BY <1>5, <2>1 DEF PendingUntilAccepted
<1>11. ASSUME NEW i \in 1 .. n
       PROVE  /\ Live(i)' <=> Live(i)
              /\ ClosedBefore(i)' <=> ClosedBefore(i)
  <2>1. \A j \in 1 .. i : j \in 1 .. n
    BY <1>1
  <2>2. \A j \in 1 .. i : session'[j] = session[j]
    BY <1>5, <2>1
  <2>3. i \in 1 .. i /\ \A t \in 1 .. i - 1 : t \in 1 .. i
    BY <1>1
  <2>4. QED
    BY <2>2, <2>3, Zenon DEF Live, ClosedBefore
(* A live session with the same key was not stored any more.               *)
<1>12. ASSUME NEW i \in 1 .. n, Live(i), session[i].key = k
       PROVE  ClosedBefore(i)
  BY <1>1, <1>12 DEF AcceptorInv, LiveIsStored, None
<1>13. LiveIsStored'
  <2>1. ASSUME NEW i \in 1 .. n + 1, Live(i)'
        PROVE  sessions'[session'[i].key] = i \/ ClosedBefore(i)'
    <3>1. CASE i = n + 1
      BY <1>3, <1>5, <1>6, <3>1 DEF AcceptorInv, Types, TypeOK
    <3>2. CASE i \in 1 .. n /\ session[i].key = k
      BY <1>11, <1>12, <2>1, <3>2
    <3>3. CASE i \in 1 .. n /\ session[i].key # k
      <4>1. session[i].key \in Keys /\ session'[i] = session[i]
        BY <1>1, <1>5, <3>3 DEF Session
      <4>2. sessions'[session'[i].key] = sessions[session[i].key]
        BY <3>3, <4>1 DEF AcceptorInv, Types, TypeOK
      <4>3. QED
        BY <1>11, <2>1, <3>3, <4>2 DEF AcceptorInv, LiveIsStored
    <3>4. QED
      BY <1>1, <3>1, <3>2, <3>3
  <2>2. QED
    BY <1>5, <2>1 DEF LiveIsStored
<1>14. LiveWithNewer'
  <2>1. ASSUME NEW i \in 1 .. n + 1, NEW u \in 1 .. n + 1, Live(i)', i < u,
               session'[u].key = session'[i].key
        PROVE  ClosedBefore(i)'
    <3>1. i \in 1 .. n
      BY <1>1, <2>1
    <3>2. Live(i) /\ session'[i] = session[i]
      BY <1>5, <1>11, <2>1, <3>1
    <3>3. CASE u = n + 1
      BY <1>3, <1>5, <1>11, <1>12, <2>1, <3>1, <3>2, <3>3
    <3>4. CASE u \in 1 .. n
      BY <1>5, <1>11, <2>1, <3>1, <3>2, <3>4 DEF AcceptorInv, LiveWithNewer
    <3>5. QED
      BY <1>1, <3>3, <3>4
  <2>2. QED
    BY <1>5, <2>1 DEF LiveWithNewer
<1>15. EndpointsHeard'
  <2>1. \A i \in 1 .. n + 1 : i \in 1 .. n \/ i = n + 1
    BY <1>1
  <2>2. QED
    BY <1>3, <1>5, <2>1 DEF AcceptorInv, EndpointsHeard
<1>16. SingleThread => NobodyMisses'
  BY NotifiedFacts DEF NobodyMisses
<1>17. QED
  BY <1>8, <1>9, <1>10, <1>13, <1>14, <1>15, <1>16 DEF AcceptorInv

LEMMA HandleLowerReadKeeps ==
  ASSUME AcceptorInv, HandleLowerRead
  PROVE  AcceptorInv'
<1> DEFINE k == lower_recv.key
<1>1. /\ Free /\ receiving = "ready" /\ receiving' = "none"
      /\ lower_recv' = lower_recv /\ accepted' = accepted
  BY DEF HandleLowerRead, ReceiveLast
<1>2. k \in Keys /\ sessions[k] \in 0 .. Len(session) /\ 0 \in 0 .. Len(session)
  BY <1>1, SessionFacts DEF AcceptorInv, Types, Datagram
<1>3. CASE ~ Known(k) /\ PutSession(k)
  <2>1. CASE /\ QueueIsFull
             /\ handling' = [session |-> None, from |-> lower_recv.from]
             /\ UNCHANGED <<session, sessions, pending_sessions, op>>
    BY <1>1, <1>2, <2>1, HandleKeeps DEF None
  <2>2. CASE ~ QueueIsFull /\ PutSession(k)
    BY <1>1, <1>2, <1>3, <2>2, PutKeeps DEF PutSession, Known, Stored
  <2>3. QED
    BY <1>3, <2>1, <2>2 DEF PutSession
<1>4. ASSUME NEW s \in {None, sessions[k]},
             handling' = [session |-> s, from |-> lower_recv.from],
             UNCHANGED <<session, sessions, pending_sessions, op>>
      PROVE  AcceptorInv'
  <2>1. s \in 0 .. Len(session)
    BY <1>2 DEF None
  <2>2. QED
    BY <1>1, <1>4, <2>1, HandleKeeps
<1>5. QED
  BY <1>3, <1>4 DEF HandleLowerRead

-----------------------------------------------------------------------------
(* A step that changes one session, and neither its key nor the queue.     *)
LEMMA SetEndpointKeeps ==
  ASSUME AcceptorInv, SetEndpoint
  PROVE  AcceptorInv'
<1> DEFINE s == handling.session
           new == [session[s] EXCEPT !.endpoint = lower_recv.from,
                                     !.heard = handling.from]
<1>1. /\ session \in Seq(Session) /\ Len(session) \in Nat
      /\ \A i \in 1 .. Len(session) : session[i] \in Session
  BY SessionFacts
<1>2. /\ lower_recv \in Datagram /\ lower_recv.from \in Endpoints
      /\ handling.from = lower_recv.from /\ s \in 0 .. Len(session)
  BY DEF SetEndpoint, AcceptorInv, Types, Datagram
<1>3. /\ handling' = Nothing /\ lower_recv' = Nothing /\ receiving' = "waiting"
      /\ sessions' = sessions /\ pending_sessions' = pending_sessions
      /\ op' = op /\ accepted' = accepted
  BY DEF SetEndpoint
<1>4. SingleThread => NobodyMisses'
  BY <1>3 DEF AcceptorInv, NobodyMisses
<1>5. CASE s = None
  <2>1. session' = session
    BY <1>5 DEF SetEndpoint
  <2>2. Types'
    BY <1>3, <2>1 DEF AcceptorInv, Types, TypeOK
  <2>3. QED
    BY <1>3, <1>4, <2>1, <2>2, SameSessions DEF AcceptorInv
<1>6. CASE s # None
  <2>1. s \in 1 .. Len(session)
    BY <1>1, <1>2, <1>6 DEF None
  <2>2. /\ new \in Session /\ new.key = session[s].key
        /\ new.state = session[s].state /\ new.endpoint = new.heard
    BY <1>1, <1>2, <2>1 DEF Session
  <2>3. session' = [session EXCEPT ![s] = new]
    BY <1>6 DEF SetEndpoint
  <2> HIDE DEF s, new
  <2>4. /\ session' \in Seq(Session) /\ Len(session') = Len(session)
        /\ \A i \in 1 .. Len(session) :
             session'[i] = IF i = s THEN new ELSE session[i]
    BY <1>1, <2>1, <2>2, <2>3, ExceptSeq
  <2>5. \A i \in 1 .. Len(session) :
          /\ session'[i].key = session[i].key
          /\ session'[i].state = session[i].state
          /\ i # s => session'[i] = session[i]
    BY <2>2, <2>4
  <2>6. Types'
    BY <1>3, <2>4 DEF AcceptorInv, Types, TypeOK
  <2>7. Numbered' /\ PendingUntilAccepted'
    BY <1>3, <2>4, <2>5 DEF AcceptorInv, Numbered, PendingUntilAccepted
  <2>8. \A i \in 1 .. Len(session) :
          /\ Live(i)' <=> Live(i)
          /\ ClosedBefore(i)' <=> ClosedBefore(i)
    <3>1. \A i \in 1 .. Len(session) : \A t \in 1 .. i - 1 :
            t \in 1 .. Len(session)
      BY <1>1
    <3>2. QED
      BY <2>5, <3>1, Zenon DEF Live, ClosedBefore
  <2>9. LiveIsStored' /\ LiveWithNewer'
    BY <1>3, <2>4, <2>5, <2>8 DEF AcceptorInv, LiveIsStored, LiveWithNewer
  <2>10. EndpointsHeard'
    BY <2>2, <2>4 DEF AcceptorInv, EndpointsHeard
  <2>11. QED
    BY <1>4, <2>6, <2>7, <2>9, <2>10 DEF AcceptorInv
<1>7. QED
  BY <1>5, <1>6

LEMMA CloseKeeps ==
  ASSUME AcceptorInv, NEW s \in DOMAIN session, HandleSessionClose(s)
  PROVE  AcceptorInv'
<1> DEFINE n == Len(session)
<1>1. /\ session \in Seq(Session) /\ n \in Nat /\ s \in 1 .. n
      /\ \A i \in 1 .. n : session[i] \in Session
      /\ Len(accepted) \in Nat
  BY SessionFacts
<1>2. PICK next \in {"finished", "closed"} :
        /\ session' = [session EXCEPT ![s].state = next]
        /\ next = "finished" => session[s].state = "running"
        /\ next = "closed" => session[s].state = "finished"
  BY DEF HandleSessionClose
<1>3. /\ sessions' = [sessions EXCEPT ![session[s].key] = None]
      /\ pending_sessions' = pending_sessions /\ op' = op
      /\ accepted' = accepted /\ receiving' = receiving
      /\ lower_recv' = lower_recv /\ handling' = handling
  BY DEF HandleSessionClose, datagram
<1> DEFINE new == [session[s] EXCEPT !.state = next]
<1>4. /\ new \in Session /\ new.key = session[s].key
      /\ new.state = next /\ new.endpoint = session[s].endpoint
      /\ new.heard = session[s].heard
  BY <1>1 DEF Session
<1>5. session' = [session EXCEPT ![s] = new]
  BY <1>2
<1> HIDE DEF new
<1>6. /\ session' \in Seq(Session) /\ Len(session') = n
      /\ \A i \in 1 .. n : session'[i] = IF i = s THEN new ELSE session[i]
  BY <1>1, <1>4, <1>5, ExceptSeq
<1>7. /\ \A i \in 1 .. n :
           /\ session'[i].key = session[i].key
           /\ session'[i].endpoint = session[i].endpoint
           /\ session'[i].heard = session[i].heard
           /\ i # s => session'[i] = session[i]
      /\ session'[s].state = next
  BY <1>1, <1>4, <1>6
<1>8. \A i \in 1 .. n : session[i].key \in Keys
  BY <1>1 DEF Session
<1>9. Types'
  <2>1. /\ sessions' \in [Keys -> 0 .. MaxSessions]
        /\ \A k \in Keys : sessions'[k] \in 0 .. Len(session')
    BY <1>1, <1>3, <1>6, <1>8, SessionFacts
    DEF AcceptorInv, Types, TypeOK, None
  <2>2. QED
    BY <1>3, <1>6, <2>1 DEF AcceptorInv, Types, TypeOK
<1>10. Numbered' /\ EndpointsHeard'
  BY <1>3, <1>6, <1>7 DEF AcceptorInv, Numbered, EndpointsHeard
<1>11. PendingUntilAccepted'
  BY <1>1, <1>2, <1>3, <1>6, <1>7 DEF AcceptorInv, PendingUntilAccepted
<1>12. \A i \in 1 .. n : Live(i)' => Live(i) /\ i # s
  BY <1>2, <1>7 DEF Live
<1>13. ASSUME NEW i \in 1 .. n, ClosedBefore(i)
       PROVE  ClosedBefore(i)'
  <2>1. PICK t \in 1 .. i - 1 :
          session[t].key = session[i].key /\ session[t].state = "closed"
    BY <1>13 DEF ClosedBefore
  <2>2. t \in 1 .. n /\ t # s
    BY <1>1, <1>2, <2>1
  <2>3. session'[t].key = session'[i].key /\ session'[t].state = "closed"
    BY <1>7, <2>1, <2>2
  <2>4. QED
    BY <2>3 DEF ClosedBefore
(* An older session with the key of s has a witness, since s is newer; a   *)
(* newer one was put when s was not stored: its witness is that of s, or s *)
(* itself, when the close handler is called again.                         *)
<1>14. ASSUME NEW i \in 1 .. n, Live(i)', session[i].key = session[s].key,
              sessions[session[i].key] # i \/ i < s
       PROVE  ClosedBefore(i)
  BY <1>1, <1>12, <1>14 DEF AcceptorInv, LiveIsStored, LiveWithNewer
<1>15. ASSUME NEW i \in 1 .. n, Live(i)', session[i].key = session[s].key,
              s < i
       PROVE  ClosedBefore(i)'
  <2>1. CASE next = "closed"
    <3>1. s \in 1 .. i - 1
      BY <1>1, <1>15
    <3>2. session'[s].key = session'[i].key /\ session'[s].state = "closed"
      BY <1>1, <1>7, <1>15, <2>1
    <3>3. QED
      BY <3>1, <3>2 DEF ClosedBefore
  <2>2. CASE next = "finished"
    <3>1. Live(s)
      BY <1>2, <2>2 DEF Live
    <3>2. ClosedBefore(s)
      BY <1>1, <1>15, <3>1 DEF AcceptorInv, LiveWithNewer
    <3>3. PICK t \in 1 .. s - 1 :
            session[t].key = session[s].key /\ session[t].state = "closed"
      BY <3>2 DEF ClosedBefore
    <3>4. t \in 1 .. i - 1
      BY <1>1, <1>15, <3>3
    <3>5. ClosedBefore(i)
      BY <1>15, <3>3, <3>4 DEF ClosedBefore
    <3>6. QED
      BY <1>13, <3>5
  <2>3. QED
    BY <2>1, <2>2
<1>16. LiveIsStored'
  <2>1. ASSUME NEW i \in 1 .. n, Live(i)'
        PROVE  sessions'[session'[i].key] = i \/ ClosedBefore(i)'
    <3>1. CASE session[i].key = session[s].key
      <4>1. i < s \/ s < i
        BY <1>1, <1>12, <2>1
      <4>2. QED
        BY <1>13, <1>14, <1>15, <2>1, <3>1, <4>1
    <3>2. CASE session[i].key # session[s].key
      <4>1. sessions'[session'[i].key] = sessions[session[i].key]
        BY <1>1, <1>3, <1>7, <1>8, <3>2 DEF AcceptorInv, Types, TypeOK
      <4>2. QED
        BY <1>12, <1>13, <2>1, <4>1 DEF AcceptorInv, LiveIsStored
    <3>3. QED
      BY <3>1, <3>2
  <2>2. QED
    BY <1>6, <2>1 DEF LiveIsStored
<1>17. LiveWithNewer'
  <2>1. ASSUME NEW i \in 1 .. n, NEW u \in 1 .. n, Live(i)', i < u,
               session'[u].key = session'[i].key
        PROVE  ClosedBefore(i)'
    BY <1>7, <1>12, <1>13, <2>1 DEF AcceptorInv, LiveWithNewer
  <2>2. QED
    BY <1>6, <2>1 DEF LiveWithNewer
<1>18. SingleThread => NobodyMisses'
  BY <1>3 DEF AcceptorInv, NobodyMisses
<1>19. QED
  BY <1>9, <1>10, <1>11, <1>16, <1>17, <1>18 DEF AcceptorInv

-----------------------------------------------------------------------------
LEMMA NextAcceptorInv == AcceptorInv /\ [Next]_vars => AcceptorInv'
<1> SUFFICES ASSUME AcceptorInv, [Next]_vars PROVE AcceptorInv'
  OBVIOUS
<1>1. ASSUME NEW o \in Accepts, AsyncAccept(o) \/ RetryAccept(o)
      PROVE  AcceptorInv'
  BY <1>1, AcceptKeeps DEF AsyncAccept, RetryAccept
<1>2. ASSUME NEW o \in Accepts, AsyncPendingAcceptWait(o)
      PROVE  AcceptorInv'
  BY <1>2, WaitKeeps
<1>3. CASE Listen
  BY <1>3, ListenKeeps
<1>4. CASE ReceiveDatagram
  BY <1>4, ReceiveKeeps
<1>5. CASE HandleLowerRead
  BY <1>5, HandleLowerReadKeeps
<1>6. CASE SetEndpoint
  BY <1>6, SetEndpointKeeps
<1>7. ASSUME NEW s \in DOMAIN session, HandleSessionClose(s)
      PROVE  AcceptorInv'
  BY <1>7, CloseKeeps
<1>8. CASE UNCHANGED vars
  <2>1. /\ UNCHANGED <<session, sessions, pending_sessions, accepted>>
        /\ op' = op /\ receiving' = receiving /\ lower_recv' = lower_recv
        /\ handling' = handling
    BY <1>8 DEF vars
  <2>2. Types' /\ (SingleThread => NobodyMisses')
    BY <2>1 DEF AcceptorInv, Types, TypeOK, NobodyMisses
  <2>3. QED
    BY <2>1, <2>2, SameSessions DEF AcceptorInv
<1>9. QED
  BY <1>1, <1>2, <1>3, <1>4, <1>5, <1>6, <1>7, <1>8 DEF Next

(* The inductive invariant holds in every behaviour.                       *)
THEOREM AcceptorInvariant == Spec => []AcceptorInv
  BY InitAcceptorInv, NextAcceptorInv, PTL DEF Spec

(* The queue keeps its limit (acceptor.ipp:144) and all variables their    *)
(* types, for any number of keys, operations and sessions.                 *)
THEOREM AcceptorTypeCorrect == Spec => []TypeOK
<1>1. AcceptorInv => TypeOK
  BY DEF AcceptorInv, Types
<1>2. QED
  BY <1>1, AcceptorInvariant, PTL

(* Sessions are accepted once each and in the order of their arrival       *)
(* (acceptor.ipp:82-91, 159).                                              *)
THEOREM InOrder == Spec => []AcceptedInOrder
<1>1. AcceptorInv => AcceptedInOrder
  <2> SUFFICES ASSUME AcceptorInv PROVE AcceptedInOrder
    OBVIOUS
  <2> DEFINE both == accepted \o pending_sessions
             numbers == [s \in DOMAIN session |-> s]
  <2>1. /\ accepted \in Seq(1 .. MaxSessions) /\ Len(accepted) \in Nat
        /\ pending_sessions \in Seq(1 .. MaxSessions)
        /\ Len(pending_sessions) \in Nat
        /\ Len(session) \in Nat /\ DOMAIN session = 1 .. Len(session)
    BY SessionFacts
  <2>2. Len(accepted) + Len(pending_sessions) = Len(session)
    BY DEF AcceptorInv, Numbered
  <2>3. /\ both \in Seq(1 .. MaxSessions) /\ Len(both) = Len(session)
        /\ \A i \in 1 .. Len(session) :
             both[i] = IF i <= Len(accepted) THEN accepted[i]
                       ELSE pending_sessions[i - Len(accepted)]
    BY <2>1, <2>2, ConcatProperties
  <2>4. both \in [1 .. Len(session) -> 1 .. MaxSessions]
    BY <2>3, LenProperties
  <2>5. \A i \in 1 .. Len(session) : both[i] = i
    <3>1. ASSUME NEW i \in 1 .. Len(session), i <= Len(accepted)
          PROVE  both[i] = i
      <4>1. i \in 1 .. Len(accepted)
        BY <2>1, <3>1
      <4>2. QED
        BY <2>3, <3>1, <4>1 DEF AcceptorInv, Numbered
    <3>2. ASSUME NEW i \in 1 .. Len(session), ~ (i <= Len(accepted))
          PROVE  both[i] = i
      <4>1. /\ i - Len(accepted) \in 1 .. Len(pending_sessions)
            /\ Len(accepted) + (i - Len(accepted)) = i
        BY <2>1, <2>2, <3>2
      <4>2. pending_sessions[i - Len(accepted)]
              = Len(accepted) + (i - Len(accepted))
        BY <4>1 DEF AcceptorInv, Numbered
      <4>3. QED
        BY <2>3, <3>2, <4>1, <4>2
    <3>3. QED
      BY <3>1, <3>2
  <2>6. both = numbers
    BY <2>1, <2>4, <2>5
  <2>7. QED
    BY <2>6 DEF AcceptedInOrder
<1>2. QED
  BY <1>1, AcceptorInvariant, PTL

(* A session is found under its key until it finishes, except after the    *)
(* second close of another one with this key (acceptor.ipp:133, 154-156).  *)
THEOREM FoundUntilFinished == Spec => []StoredUntilFinished
<1>1. AcceptorInv => StoredUntilFinished
  <2> SUFFICES ASSUME AcceptorInv PROVE StoredUntilFinished
    OBVIOUS
  <2>1. DOMAIN session = 1 .. Len(session)
    BY SessionFacts
  <2>2. QED
    BY <2>1
    DEF AcceptorInv, LiveIsStored, Live, ClosedBefore, StoredUntilFinished
<1>2. QED
  BY <1>1, AcceptorInvariant, PTL

(* Packets go where their client was last heard from, however datagrams    *)
(* of several clients follow each other (acceptor.ipp:110, 153, 196-204).  *)
THEOREM SentToClient == Spec => []PacketsFollowClient
<1>1. AcceptorInv => PacketsFollowClient
  <2> SUFFICES ASSUME AcceptorInv PROVE PacketsFollowClient
    OBVIOUS
  <2>1. DOMAIN session = 1 .. Len(session) /\ Len(session) \in Nat
    BY SessionFacts
  <2>2. \A s \in DOMAIN session : SendsTo(s) = session[s].heard
    BY <2>1 DEF AcceptorInv, EndpointsHeard, SendsTo, None
  <2>3. handling # Nothing => SendsTo(None) = handling.from
    BY DEF AcceptorInv, Types, SendsTo
  <2>4. QED
    BY <2>2, <2>3 DEF PacketsFollowClient
<1>2. QED
  BY <1>1, AcceptorInvariant, PTL

(* On a single thread no accept operation waits while a session is pending *)
(* (acceptor.ipp:160), for any number of operations.                       *)
THEOREM AcceptorsNotified ==
  ASSUME SingleThread
  PROVE  Spec => []WaitingAcceptorsNotified
<1>1. AcceptorInv => WaitingAcceptorsNotified
  BY SingleThread DEF AcceptorInv, NobodyMisses, WaitingAcceptorsNotified
<1>2. QED
  BY <1>1, AcceptorInvariant, PTL
=============================================================================
