------------------------- MODULE ClientConnectProofs -------------------------
(***************************************************************************)
(* Theorems about ClientConnect, for any number of hello packets.  As in   *)
(* SessionLifeProofs, there is a lemma for each member function, which     *)
(* says what it does to the fields, and one for each action.               *)
(***************************************************************************)
EXTENDS ClientConnect, TLAPS

-----------------------------------------------------------------------------
(* The inductive invariant.                                                *)

(* Before connect() nothing has happened.                                  *)
NotBegun(c) ==
  c.op = "idle" =>
    /\ c.hello_retries = 0 /\ c.socket_open /\ ~ c.running
    /\ ~ c.hello_timer /\ ~ c.hello_ready
    /\ c.receiving = 0 /\ c.received = 0

Chain(c) ==
  /\ c.op # "idle" /\ c.socket_open => c.receiving + c.received = 1
  /\ ~ c.socket_open => c.receiving = 0 /\ (c.received > 0 => c.raced)

(* The connect operation is woken by its result only.                      *)
WokenByResult(c) == c.op = "ready" => c.running \/ c.hello_retries < 0

(* The hello timer ends with its last expiry, and with the cookie.         *)
OneTimeout(c) ==
  /\ ~ c.hello_timer \/ ~ c.hello_ready
  /\ ~ c.running /\ c.hello_retries < 0 => ~ c.hello_timer /\ ~ c.hello_ready
  /\ c.running /\ ~ c.raced =>
       c.socket_open /\ ~ c.hello_timer /\ ~ c.hello_ready

(* The count of hello packets is right until the cookie.                   *)
Counted(c) ==
  /\ ~ c.running => ~ c.negotiated /\ c.hello_retries <= c.hellos
  /\ ~ c.running /\ c.hello_retries < 0 => HelloLimit <= c.hellos
  /\ c.op = "refused" => HelloLimit <= c.hellos

Open(c) ==
  NotBegun(c) /\ Chain(c) /\ WokenByResult(c) /\ OneTimeout(c) /\ Counted(c)

ConnectInv == client \in Client /\ (~ client.closed => Open(client))

-----------------------------------------------------------------------------
(* Types of the fields and of the values stored in them.                   *)
LEMMA Limits ==
  /\ HelloLimit \in Nat /\ HelloLimit >= 1
  /\ -1 \in -1 .. HelloLimit /\ 0 \in -1 .. HelloLimit
  /\ 0 \in Nat /\ 1 \in Nat
  BY ConnectAssumption

LEMMA FieldTypes ==
  ASSUME NEW c \in Client
  PROVE  /\ c.op \in OpStates /\ c.hello_retries \in -1 .. HelloLimit
         /\ c.receiving \in Nat /\ c.received \in Nat
         /\ c.hellos \in Nat
         /\ c.hello_timer \in BOOLEAN /\ c.hello_ready \in BOOLEAN
         /\ c.socket_open \in BOOLEAN /\ c.negotiated \in BOOLEAN
         /\ c.running \in BOOLEAN /\ c.raced \in BOOLEAN
         /\ c.missed \in BOOLEAN /\ c.closed \in BOOLEAN
  BY Zenon DEF Client

(* Both ways to wake the operation or to leave it.                         *)
Woken(op) == IF op = "waiting" THEN "ready" ELSE op

LEMMA WokenFacts ==
  ASSUME NEW op \in OpStates
  PROVE  /\ Woken(op) \in OpStates
         /\ Woken(op) = "idle" <=> op = "idle"
         /\ Woken(op) = "refused" <=> op = "refused"
         /\ Woken(op) # "waiting"
  BY DEF Woken, OpStates

-----------------------------------------------------------------------------
(* The member functions.                                                   *)
LEMMA WakeConnectFields ==
  ASSUME NEW c \in Client
  PROVE  LET d == WakeConnect(c)
         IN  /\ d \in Client /\ d.op = Woken(c.op)
             /\ d.hello_retries = c.hello_retries
             /\ d.hello_timer = c.hello_timer /\ d.hello_ready = c.hello_ready
             /\ d.socket_open = c.socket_open
             /\ d.receiving = c.receiving /\ d.received = c.received
             /\ d.negotiated = c.negotiated /\ d.running = c.running
             /\ d.hellos = c.hellos /\ d.raced = c.raced
             /\ d.closed = c.closed
<1> DEFINE w == Woken(c.op)
           m == c.missed \/ c.op = "calling"
           d == [c EXCEPT !.op = w, !.missed = m]
<1>1. WakeConnect(c) = d
  BY Zenon DEF WakeConnect, Woken
<1>2. w \in OpStates /\ m \in BOOLEAN
  BY FieldTypes, WokenFacts, Zenon
<1> HIDE DEF w, m
<1>3. d \in Client
  BY <1>2, Zenon DEF Client
<1>4. /\ d.op = w /\ d.hello_retries = c.hello_retries
      /\ d.hello_timer = c.hello_timer /\ d.hello_ready = c.hello_ready
      /\ d.socket_open = c.socket_open
      /\ d.receiving = c.receiving /\ d.received = c.received
      /\ d.negotiated = c.negotiated /\ d.running = c.running
      /\ d.hellos = c.hellos /\ d.raced = c.raced /\ d.closed = c.closed
  BY Zenon DEF Client
<1> HIDE DEF d
<1>5. QED
  BY <1>1, <1>3, <1>4, Zenon DEF w

LEMMA CloseSocketFields ==
  ASSUME NEW c \in Client
  PROVE  LET d == CloseSocket(c)
         IN  /\ d \in Client /\ d.op = c.op
             /\ d.hello_retries = c.hello_retries
             /\ d.hello_timer = c.hello_timer /\ d.hello_ready = c.hello_ready
             /\ d.socket_open = FALSE
             /\ d.receiving = 0 /\ d.received = c.received
             /\ d.negotiated = c.negotiated /\ d.running = c.running
             /\ d.hellos = c.hellos
             /\ d.raced <=> (c.raced \/ c.received > 0)
             /\ d.closed = c.closed
<1> DEFINE r == c.raced \/ c.received > 0
           d == [c EXCEPT !.socket_open = FALSE, !.receiving = 0, !.raced = r]
<1>1. CloseSocket(c) = d
  BY Zenon DEF CloseSocket
<1>2. r \in BOOLEAN
  BY FieldTypes, Zenon
<1> HIDE DEF r
<1>3. d \in Client
  BY <1>2, Limits, Zenon DEF Client
<1>4. /\ d.op = c.op /\ d.hello_retries = c.hello_retries
      /\ d.hello_timer = c.hello_timer /\ d.hello_ready = c.hello_ready
      /\ d.socket_open = FALSE
      /\ d.receiving = 0 /\ d.received = c.received
      /\ d.negotiated = c.negotiated /\ d.running = c.running
      /\ d.hellos = c.hellos /\ d.raced = r /\ d.closed = c.closed
  BY Zenon DEF Client
<1> HIDE DEF d
<1>5. QED
  BY <1>1, <1>3, <1>4, Zenon DEF r

LEMMA AsyncReceiveFields ==
  ASSUME NEW c \in Client
  PROVE  LET d == AsyncReceive(c)
         IN  /\ d \in Client /\ d.op = c.op
             /\ d.hello_retries = c.hello_retries
             /\ d.hello_timer = c.hello_timer /\ d.hello_ready = c.hello_ready
             /\ d.socket_open = c.socket_open
             /\ d.receiving = IF c.socket_open THEN c.receiving + 1
                                              ELSE c.receiving
             /\ d.received = c.received
             /\ d.negotiated = c.negotiated /\ d.running = c.running
             /\ d.hellos = c.hellos /\ d.raced = c.raced
             /\ d.closed = c.closed
<1> DEFINE r == IF c.socket_open THEN c.receiving + 1 ELSE c.receiving
           d == [c EXCEPT !.receiving = r]
<1>1. AsyncReceive(c) = d
  BY Zenon DEF AsyncReceive
<1>2. r \in Nat
  BY FieldTypes
<1> HIDE DEF r
<1>3. d \in Client
  BY <1>2, Zenon DEF Client
<1>4. /\ d.op = c.op /\ d.hello_retries = c.hello_retries
      /\ d.hello_timer = c.hello_timer /\ d.hello_ready = c.hello_ready
      /\ d.socket_open = c.socket_open
      /\ d.receiving = r /\ d.received = c.received
      /\ d.negotiated = c.negotiated /\ d.running = c.running
      /\ d.hellos = c.hellos /\ d.raced = c.raced /\ d.closed = c.closed
  BY Zenon DEF Client
<1> HIDE DEF d
<1>5. QED
  BY <1>1, <1>3, <1>4, Zenon DEF r

LEMMA SendHelloFields ==
  ASSUME NEW c \in Client
  PROVE  LET d == SendHello(c)
         IN  /\ d \in Client /\ d.op = c.op
             /\ d.hello_retries = c.hello_retries
             /\ d.hello_timer = TRUE /\ d.hello_ready = c.hello_ready
             /\ d.socket_open = c.socket_open
             /\ d.receiving = c.receiving /\ d.received = c.received
             /\ d.negotiated = c.negotiated /\ d.running = c.running
             /\ d.hellos = (IF c.negotiated THEN c.hellos ELSE c.hellos + 1)
             /\ d.raced = c.raced /\ d.closed = c.closed
<1> DEFINE h == IF c.negotiated THEN c.hellos ELSE c.hellos + 1
           d == [c EXCEPT !.hellos = h, !.hello_timer = TRUE]
<1>1. SendHello(c) = d
  BY Zenon DEF SendHello
<1>2. h \in Nat
  <2>1. c.hellos \in Nat /\ c.hellos + 1 \in Nat
    BY FieldTypes
  <2>2. QED
    BY <2>1, Zenon
<1> HIDE DEF h
<1>3. d \in Client
  BY <1>2, Zenon DEF Client
<1>4. /\ d.op = c.op /\ d.hello_retries = c.hello_retries
      /\ d.hello_timer = TRUE /\ d.hello_ready = c.hello_ready
      /\ d.socket_open = c.socket_open
      /\ d.receiving = c.receiving /\ d.received = c.received
      /\ d.negotiated = c.negotiated /\ d.running = c.running
      /\ d.hellos = h /\ d.raced = c.raced /\ d.closed = c.closed
  BY Zenon DEF Client
<1> HIDE DEF d
<1>5. QED
  BY <1>1, <1>3, <1>4, Zenon DEF h

(* Another hello packet, or none and the refusal.                          *)
LEMMA HelloTimeoutFields ==
  ASSUME NEW c \in Client
  PROVE  LET d == HandleHelloTimeout(c)
         IN  /\ d \in Client /\ d.closed = c.closed
             /\ d.hello_ready = c.hello_ready /\ d.received = c.received
             /\ d.negotiated = c.negotiated /\ d.running = c.running
             /\ \/ /\ c.hello_retries < HelloLimit
                   /\ d.op = c.op /\ d.hello_retries = c.hello_retries + 1
                   /\ d.hello_timer = TRUE
                   /\ d.socket_open = c.socket_open
                   /\ d.receiving = c.receiving /\ d.raced = c.raced
                   /\ d.hellos =
                        IF c.negotiated THEN c.hellos ELSE c.hellos + 1
                \/ /\ c.hello_retries = HelloLimit
                   /\ d.op = Woken(c.op) /\ d.hello_retries = -1
                   /\ d.hello_timer = c.hello_timer
                   /\ d.socket_open = FALSE /\ d.receiving = 0
                   /\ d.raced <=> (c.raced \/ c.received > 0)
                   /\ d.hellos = c.hellos
<1> DEFINE d == HandleHelloTimeout(c)
<1>1. /\ HelloLimit \in Nat /\ c.hello_retries \in -1 .. HelloLimit
      /\ c.hello_retries + 1 > HelloLimit <=> c.hello_retries = HelloLimit
  BY Limits, FieldTypes
<1>2. CASE c.hello_retries + 1 > HelloLimit
  <2> DEFINE e == [c EXCEPT !.hello_retries = -1]
             f == WakeConnect(e)
  <2>1. d = CloseSocket(f)
    BY <1>2, Zenon DEF HandleHelloTimeout
  <2>2. e \in Client
    BY Limits, Zenon DEF Client
  <2>3. /\ e.op = c.op /\ e.hello_retries = -1
        /\ e.hello_timer = c.hello_timer /\ e.hello_ready = c.hello_ready
        /\ e.socket_open = c.socket_open
        /\ e.receiving = c.receiving /\ e.received = c.received
        /\ e.negotiated = c.negotiated /\ e.running = c.running
        /\ e.hellos = c.hellos /\ e.raced = c.raced /\ e.closed = c.closed
    BY Zenon DEF Client
  <2> HIDE DEF d, e
  <2>4. /\ f \in Client /\ f.op = Woken(e.op)
        /\ f.hello_retries = e.hello_retries
        /\ f.hello_timer = e.hello_timer /\ f.hello_ready = e.hello_ready
        /\ f.socket_open = e.socket_open
        /\ f.receiving = e.receiving /\ f.received = e.received
        /\ f.negotiated = e.negotiated /\ f.running = e.running
        /\ f.hellos = e.hellos /\ f.raced = e.raced /\ f.closed = e.closed
    BY <2>2, WakeConnectFields, Zenon
  <2> HIDE DEF f
  <2>5. /\ d \in Client /\ d.op = f.op
        /\ d.hello_retries = f.hello_retries
        /\ d.hello_timer = f.hello_timer /\ d.hello_ready = f.hello_ready
        /\ d.socket_open = FALSE
        /\ d.receiving = 0 /\ d.received = f.received
        /\ d.negotiated = f.negotiated /\ d.running = f.running
        /\ d.hellos = f.hellos
        /\ d.raced <=> (f.raced \/ f.received > 0)
        /\ d.closed = f.closed
    BY <2>1, <2>4, CloseSocketFields, Zenon
  <2>6. QED
    BY <1>1, <1>2, <2>3, <2>4, <2>5, Zenon DEF d
<1>3. CASE ~ (c.hello_retries + 1 > HelloLimit)
  <2> DEFINE n == c.hello_retries + 1
             e == [c EXCEPT !.hello_retries = n]
  <2>1. d = SendHello(e)
    BY <1>3, Zenon DEF HandleHelloTimeout
  <2>2. n \in -1 .. HelloLimit /\ c.hello_retries < HelloLimit
    BY <1>1, <1>3
  <2> HIDE DEF n
  <2>3. e \in Client
    BY <2>2, Zenon DEF Client
  <2>4. /\ e.op = c.op /\ e.hello_retries = n
        /\ e.hello_timer = c.hello_timer /\ e.hello_ready = c.hello_ready
        /\ e.socket_open = c.socket_open
        /\ e.receiving = c.receiving /\ e.received = c.received
        /\ e.negotiated = c.negotiated /\ e.running = c.running
        /\ e.hellos = c.hellos /\ e.raced = c.raced /\ e.closed = c.closed
    BY Zenon DEF Client
  <2> HIDE DEF d, e
  <2>5. /\ d \in Client /\ d.op = e.op
        /\ d.hello_retries = e.hello_retries
        /\ d.hello_timer = TRUE /\ d.hello_ready = e.hello_ready
        /\ d.socket_open = e.socket_open
        /\ d.receiving = e.receiving /\ d.received = e.received
        /\ d.negotiated = e.negotiated /\ d.running = e.running
        /\ d.hellos = (IF e.negotiated THEN e.hellos ELSE e.hellos + 1)
        /\ d.raced = e.raced /\ d.closed = e.closed
    BY <2>1, <2>3, SendHelloFields, Zenon
  <2>6. d.hellos = IF c.negotiated THEN c.hellos ELSE c.hellos + 1
    BY <2>4, <2>5, Zenon
  <2>7. QED
    BY <2>2, <2>4, <2>5, <2>6, Zenon DEF d, n
<1>4. QED
  BY <1>2, <1>3

-----------------------------------------------------------------------------
(* The actions.                                                            *)
LEMMA InitConnectInv == Init => ConnectInv
<1> SUFFICES ASSUME Init PROVE ConnectInv
  OBVIOUS
<1>1. client \in Client
  <2>1. "idle" \in OpStates /\ 0 \in Nat
    BY DEF OpStates
  <2>2. QED
    BY <2>1, Limits, Zenon DEF Init, Client
<1>2. /\ client.op = "idle" /\ client.hello_retries = 0
      /\ client.hello_timer = FALSE /\ client.hello_ready = FALSE
      /\ client.socket_open = TRUE /\ client.receiving = 0
      /\ client.received = 0 /\ client.running = FALSE
      /\ client.negotiated = FALSE /\ client.hellos = 0
  BY Zenon DEF Init
<1>3. Open(client)
  BY <1>2 DEF Open, NotBegun, Chain, WokenByResult, OneTimeout, Counted
<1>4. QED
  BY <1>1, <1>3 DEF ConnectInv

LEMMA RunHelloTimeoutKeeps ==
  ASSUME ConnectInv, RunHelloTimeout
  PROVE  ConnectInv'
<1> DEFINE c == client
           e == [c EXCEPT !.hello_ready = FALSE]
           d == HandleHelloTimeout(e)
<1>1. c \in Client /\ c.hello_ready /\ client' = d
  BY DEF ConnectInv, RunHelloTimeout
<1>2. e \in Client
  BY <1>1, Zenon DEF Client
<1>3. /\ e.op = c.op /\ e.hello_retries = c.hello_retries
      /\ e.hello_timer = c.hello_timer /\ e.hello_ready = FALSE
      /\ e.socket_open = c.socket_open
      /\ e.receiving = c.receiving /\ e.received = c.received
      /\ e.negotiated = c.negotiated /\ e.running = c.running
      /\ e.hellos = c.hellos /\ e.raced = c.raced /\ e.closed = c.closed
  BY <1>1, Zenon DEF Client
<1> HIDE DEF e
<1>4. /\ d \in Client /\ d.closed = c.closed
      /\ d.hello_ready = FALSE /\ d.received = c.received
      /\ d.negotiated = c.negotiated /\ d.running = c.running
      /\ \/ /\ c.hello_retries < HelloLimit
            /\ d.op = c.op /\ d.hello_retries = c.hello_retries + 1
            /\ d.hello_timer = TRUE
            /\ d.socket_open = c.socket_open
            /\ d.receiving = c.receiving /\ d.raced = c.raced
            /\ d.hellos = IF c.negotiated THEN c.hellos ELSE c.hellos + 1
         \/ /\ c.hello_retries = HelloLimit
            /\ d.op = Woken(c.op) /\ d.hello_retries = -1
            /\ d.hello_timer = c.hello_timer
            /\ d.socket_open = FALSE /\ d.receiving = 0
            /\ d.raced <=> (c.raced \/ c.received > 0)
            /\ d.hellos = c.hellos
  <2>1. /\ d \in Client /\ d.closed = e.closed
        /\ d.hello_ready = e.hello_ready /\ d.received = e.received
        /\ d.negotiated = e.negotiated /\ d.running = e.running
        /\ \/ /\ e.hello_retries < HelloLimit
              /\ d.op = e.op /\ d.hello_retries = e.hello_retries + 1
              /\ d.hello_timer = TRUE
              /\ d.socket_open = e.socket_open
              /\ d.receiving = e.receiving /\ d.raced = e.raced
              /\ d.hellos = IF e.negotiated THEN e.hellos ELSE e.hellos + 1
           \/ /\ e.hello_retries = HelloLimit
              /\ d.op = Woken(e.op) /\ d.hello_retries = -1
              /\ d.hello_timer = e.hello_timer
              /\ d.socket_open = FALSE /\ d.receiving = 0
              /\ d.raced <=> (e.raced \/ e.received > 0)
              /\ d.hellos = e.hellos
    BY <1>2, HelloTimeoutFields, Zenon
  <2> HIDE DEF d
  <2>2. d.hellos = (IF c.negotiated THEN c.hellos ELSE c.hellos + 1) <=>
          d.hellos = IF e.negotiated THEN e.hellos ELSE e.hellos + 1
    BY <1>3, Zenon
  <2>3. QED
    BY <1>3, <2>1, <2>2, Zenon
<1> HIDE DEF d
<1>5. ASSUME ~ d.closed PROVE Open(d)
  <2>1. Open(c)
    BY <1>4, <1>5 DEF ConnectInv
  <2>2. /\ c.op # "idle" /\ ~ c.hello_timer
        /\ c.running => c.raced
        /\ ~ c.running => c.hello_retries >= 0 /\ ~ c.negotiated
                          /\ c.hello_retries <= c.hellos
    BY <1>1, <2>1, FieldTypes DEF Open, NotBegun, OneTimeout, Counted
  <2>3. /\ c.op \in OpStates /\ c.hello_retries \in -1 .. HelloLimit
        /\ c.hellos \in Nat /\ HelloLimit \in Nat
    BY <1>1, FieldTypes, Limits
  <2> USE DEF Open
  <2>4. CASE /\ c.hello_retries < HelloLimit
             /\ d.op = c.op /\ d.hello_retries = c.hello_retries + 1
             /\ d.hello_timer = TRUE
             /\ d.socket_open = c.socket_open
             /\ d.receiving = c.receiving /\ d.raced = c.raced
             /\ d.hellos = IF c.negotiated THEN c.hellos ELSE c.hellos + 1
    <3>1. NotBegun(d)
      BY <2>2, <2>4 DEF NotBegun
    <3>2. Chain(d)
      BY <1>4, <2>1, <2>4 DEF Chain
    <3>3. WokenByResult(d)
      BY <1>4, <2>1, <2>2, <2>3, <2>4 DEF WokenByResult
    <3>4. OneTimeout(d)
      BY <1>4, <2>1, <2>2, <2>3, <2>4 DEF OneTimeout
    <3>5. Counted(d)
      BY <1>4, <2>1, <2>2, <2>3, <2>4 DEF Counted
    <3>6. QED
      BY <3>1, <3>2, <3>3, <3>4, <3>5
  <2>5. CASE /\ c.hello_retries = HelloLimit
             /\ d.op = Woken(c.op) /\ d.hello_retries = -1
             /\ d.hello_timer = c.hello_timer
             /\ d.socket_open = FALSE /\ d.receiving = 0
             /\ d.raced <=> (c.raced \/ c.received > 0)
             /\ d.hellos = c.hellos
    <3>1. NotBegun(d)
      BY <2>2, <2>3, <2>5, WokenFacts DEF NotBegun
    <3>2. Chain(d)
      BY <1>4, <2>5 DEF Chain
    <3>3. WokenByResult(d)
      BY <2>5 DEF WokenByResult
    <3>4. OneTimeout(d)
      BY <1>4, <2>2, <2>5 DEF OneTimeout
    <3>5. Counted(d)
      BY <1>4, <2>1, <2>2, <2>3, <2>5, WokenFacts DEF Counted
    <3>6. QED
      BY <3>1, <3>2, <3>3, <3>4, <3>5
  <2>6. QED
    BY <1>4, <2>4, <2>5
<1>6. QED
  BY <1>1, <1>4, <1>5 DEF ConnectInv

(* What is not open keeps its type, which is all there is to keep.         *)
LEMMA Closes ==
  ASSUME client' \in Client, ~ client'.closed => Open(client')
  PROVE  ConnectInv'
  BY DEF ConnectInv

LEMMA SendsHello ==
  ASSUME NEW c \in Client, NEW op \in OpStates,
         ~ c.running, c.hello_retries >= 0
  PROVE  LET d == Connect(c, op)
         IN  /\ d \in Client /\ d.op = op /\ d.hello_retries = 1
             /\ d.hello_timer = TRUE /\ d.hello_ready = c.hello_ready
             /\ d.socket_open = TRUE
             /\ d.receiving = c.receiving + 1 /\ d.received = c.received
             /\ d.negotiated = c.negotiated /\ d.running = c.running
             /\ d.hellos = (IF c.negotiated THEN c.hellos ELSE c.hellos + 1)
             /\ d.raced = c.raced /\ d.closed = c.closed
<1> DEFINE d == Connect(c, op)
           g == [c EXCEPT !.hello_retries = 0, !.socket_open = TRUE, !.op = op]
           e == AsyncReceive(g)
<1>1. d = HandleHelloTimeout(e)
  <2>1. ~ (c.hello_retries < 0)
    BY FieldTypes
  <2>2. QED
    BY <2>1, Zenon DEF Connect
<1>2. g \in Client
  BY Limits, Zenon DEF Client
<1>3. /\ g.op = op /\ g.hello_retries = 0
      /\ g.hello_timer = c.hello_timer /\ g.hello_ready = c.hello_ready
      /\ g.socket_open = TRUE
      /\ g.receiving = c.receiving /\ g.received = c.received
      /\ g.negotiated = c.negotiated /\ g.running = c.running
      /\ g.hellos = c.hellos /\ g.raced = c.raced /\ g.closed = c.closed
  BY Zenon DEF Client
<1> HIDE DEF g
<1>4. /\ e \in Client /\ e.op = g.op
      /\ e.hello_retries = g.hello_retries
      /\ e.hello_timer = g.hello_timer /\ e.hello_ready = g.hello_ready
      /\ e.socket_open = g.socket_open
      /\ e.receiving = IF g.socket_open THEN g.receiving + 1
                                       ELSE g.receiving
      /\ e.received = g.received
      /\ e.negotiated = g.negotiated /\ e.running = g.running
      /\ e.hellos = g.hellos /\ e.raced = g.raced
      /\ e.closed = g.closed
  BY <1>2, AsyncReceiveFields, Zenon
<1> HIDE DEF d, e
<1>5. /\ e.op = op /\ e.hello_retries = 0 /\ e.receiving = c.receiving + 1
      /\ e.hello_retries < HelloLimit /\ e.hello_retries # HelloLimit
      /\ e.hello_retries + 1 = 1
  <2>1. 0 < HelloLimit /\ 0 # HelloLimit /\ 0 + 1 = 1
    BY Limits
  <2>2. e.op = op /\ e.hello_retries = 0 /\ e.receiving = c.receiving + 1
    BY <1>3, <1>4, Zenon
  <2>3. QED
    BY <2>1, <2>2, Zenon
<1>6. /\ d \in Client /\ d.closed = e.closed
      /\ d.hello_ready = e.hello_ready /\ d.received = e.received
      /\ d.negotiated = e.negotiated /\ d.running = e.running
      /\ d.op = e.op /\ d.hello_retries = e.hello_retries + 1
      /\ d.hello_timer = TRUE
      /\ d.socket_open = e.socket_open
      /\ d.receiving = e.receiving /\ d.raced = e.raced
      /\ d.hellos = IF e.negotiated THEN e.hellos ELSE e.hellos + 1
  BY <1>1, <1>4, <1>5, HelloTimeoutFields, Zenon
<1>7. d.hellos = IF c.negotiated THEN c.hellos ELSE c.hellos + 1
  BY <1>3, <1>4, <1>6, Zenon
<1>8. QED
  BY <1>3, <1>4, <1>5, <1>6, <1>7, Zenon DEF d

LEMMA AsyncConnectKeeps ==
  ASSUME ConnectInv, AsyncConnect
  PROVE  ConnectInv'
<1> DEFINE c == client
           d == Connect(c, "calling")
<1>1. c \in Client /\ c.op = "idle" /\ client' = d
  BY DEF ConnectInv, AsyncConnect
<1>2. "calling" \in OpStates /\ "ok" \in OpStates /\ "refused" \in OpStates
  BY DEF OpStates
<1>3. CASE c.closed /\ (c.running \/ c.hello_retries < 0)
  <2>1. d \in Client
    BY <1>1, <1>2, <1>3, Limits, Zenon DEF Connect, Client
  <2>2. d.closed
    BY <1>1, <1>3, Zenon DEF Connect, Client
  <2>3. QED
    BY <1>1, <2>1, <2>2, Closes
<1>4. CASE ~ (c.closed /\ (c.running \/ c.hello_retries < 0))
  <2>1. ~ c.closed => Open(c)
    BY DEF ConnectInv
  <2>2. ~ c.running /\ c.hello_retries >= 0
    BY <1>1, <1>4, <2>1, FieldTypes DEF Open, NotBegun
  <2>3. /\ d \in Client /\ d.op = "calling" /\ d.hello_retries = 1
        /\ d.hello_timer = TRUE /\ d.hello_ready = c.hello_ready
        /\ d.socket_open = TRUE
        /\ d.receiving = c.receiving + 1 /\ d.received = c.received
        /\ d.negotiated = c.negotiated /\ d.running = c.running
        /\ d.hellos = (IF c.negotiated THEN c.hellos ELSE c.hellos + 1)
        /\ d.raced = c.raced /\ d.closed = c.closed
    BY <1>1, <1>2, <2>2, SendsHello, Zenon
  <2> HIDE DEF d
  <2>4. ASSUME ~ d.closed PROVE Open(d)
    <3>1. /\ ~ c.hello_ready /\ ~ c.negotiated
          /\ c.receiving = 0 /\ c.received = 0
          /\ c.hello_retries = 0 /\ c.hello_retries <= c.hellos
      BY <1>1, <2>1, <2>2, <2>3, <2>4 DEF Open, NotBegun, Counted
    <3>2. c.hellos \in Nat
      BY <1>1, FieldTypes
    <3>3. NotBegun(d) /\ Chain(d) /\ WokenByResult(d)
      BY <2>3, <3>1 DEF NotBegun, Chain, WokenByResult
    <3>4. OneTimeout(d)
      BY <2>2, <2>3, <3>1 DEF OneTimeout
    <3>5. Counted(d)
      BY <2>2, <2>3, <3>1, <3>2 DEF Counted
    <3>6. QED
      BY <3>3, <3>4, <3>5 DEF Open
  <2>5. QED
    BY <1>1, <2>3, <2>4, Closes
<1>5. QED
  BY <1>3, <1>4

(* Unless the session was closed, a retried operation finds the result     *)
(* that woke it.                                                           *)
LEMMA RetryConnectKeeps ==
  ASSUME ConnectInv, RetryConnect
  PROVE  ConnectInv'
<1> DEFINE c == client
           d == Connect(c, "waiting")
<1>1. /\ c \in Client /\ c.op = "ready" /\ client' = d
      /\ ~ c.closed => Open(c)
  BY DEF ConnectInv, RetryConnect
<1>2. "waiting" \in OpStates /\ "ok" \in OpStates /\ "refused" \in OpStates
  BY DEF OpStates
<1>3. CASE c.running
  <2> DEFINE e == [c EXCEPT !.op = "ok"]
  <2>1. d = e
    BY <1>3, Zenon DEF Connect
  <2>2. e \in Client
    BY <1>1, <1>2, Zenon DEF Client
  <2>3. /\ e.op = "ok" /\ e.hello_retries = c.hello_retries
        /\ e.hello_timer = c.hello_timer /\ e.hello_ready = c.hello_ready
        /\ e.socket_open = c.socket_open
        /\ e.receiving = c.receiving /\ e.received = c.received
        /\ e.negotiated = c.negotiated /\ e.running = c.running
        /\ e.hellos = c.hellos /\ e.raced = c.raced /\ e.closed = c.closed
    BY <1>1, Zenon DEF Client
  <2> HIDE DEF e
  <2>4. ASSUME ~ e.closed PROVE Open(e)
    <3>1. Open(c)
      BY <1>1, <2>3, <2>4
    <3>2. NotBegun(e) /\ WokenByResult(e) /\ Chain(e)
      BY <1>1, <2>3, <3>1 DEF Open, NotBegun, WokenByResult, Chain
    <3>3. OneTimeout(e)
      BY <2>3, <3>1 DEF Open, OneTimeout
    <3>4. Counted(e)
      BY <2>3, <3>1 DEF Open, Counted
    <3>5. QED
      BY <3>2, <3>3, <3>4 DEF Open
  <2>5. QED
    BY <1>1, <2>1, <2>2, <2>4, Closes
<1>4. CASE ~ c.running /\ c.hello_retries < 0
  <2> DEFINE e == [c EXCEPT !.hello_retries = 0, !.op = "refused"]
  <2>1. d = e
    BY <1>4, Zenon DEF Connect
  <2>2. e \in Client
    BY <1>1, <1>2, Limits, Zenon DEF Client
  <2>3. /\ e.op = "refused" /\ e.hello_retries = 0
        /\ e.hello_timer = c.hello_timer /\ e.hello_ready = c.hello_ready
        /\ e.socket_open = c.socket_open
        /\ e.receiving = c.receiving /\ e.received = c.received
        /\ e.negotiated = c.negotiated /\ e.running = c.running
        /\ e.hellos = c.hellos /\ e.raced = c.raced /\ e.closed = c.closed
    BY <1>1, Zenon DEF Client
  <2> HIDE DEF e
  <2>4. ASSUME ~ e.closed PROVE Open(e)
    <3>1. Open(c)
      BY <1>1, <2>3, <2>4
    <3>2. NotBegun(e) /\ WokenByResult(e) /\ Chain(e)
      BY <1>1, <2>3, <3>1 DEF Open, NotBegun, WokenByResult, Chain
    <3>3. OneTimeout(e)
      BY <1>4, <2>3, <3>1 DEF Open, OneTimeout
    <3>4. Counted(e)
      <4>1. c.hellos \in Nat
        BY <1>1, FieldTypes
      <4>2. QED
        BY <1>4, <2>3, <3>1, <4>1 DEF Open, Counted
    <3>5. QED
      BY <3>2, <3>3, <3>4 DEF Open
  <2>5. QED
    BY <1>1, <2>1, <2>2, <2>4, Closes
<1>5. CASE ~ c.running /\ ~ (c.hello_retries < 0)
  <2>1. c.closed
    BY <1>1, <1>5 DEF Open, WokenByResult
  <2>2. c.hello_retries >= 0
    BY <1>1, <1>5, FieldTypes
  <2>3. d \in Client /\ d.closed = c.closed
    BY <1>1, <1>2, <1>5, <2>2, SendsHello, Zenon
  <2>4. QED
    BY <1>1, <2>1, <2>3, Closes
<1>6. QED
  BY <1>3, <1>4, <1>5

LEMMA AsyncPendingConnectWaitKeeps ==
  ASSUME ConnectInv, AsyncPendingConnectWait
  PROVE  ConnectInv'
<1> DEFINE c == client
           e == [c EXCEPT !.op = "waiting"]
<1>1. /\ c \in Client /\ c.op = "calling" /\ client' = e
      /\ ~ c.closed => Open(c)
  BY DEF ConnectInv, AsyncPendingConnectWait
<1>2. e \in Client
  <2>1. "waiting" \in OpStates
    BY DEF OpStates
  <2>2. QED
    BY <1>1, <2>1, Zenon DEF Client
<1>3. /\ e.op = "waiting" /\ e.hello_retries = c.hello_retries
      /\ e.hello_timer = c.hello_timer /\ e.hello_ready = c.hello_ready
      /\ e.socket_open = c.socket_open
      /\ e.receiving = c.receiving /\ e.received = c.received
      /\ e.negotiated = c.negotiated /\ e.running = c.running
      /\ e.hellos = c.hellos /\ e.raced = c.raced /\ e.closed = c.closed
  BY <1>1, Zenon DEF Client
<1> HIDE DEF e
<1>4. ASSUME ~ e.closed PROVE Open(e)
  <2>1. Open(c)
    BY <1>1, <1>3, <1>4
  <2>2. NotBegun(e) /\ WokenByResult(e) /\ Chain(e)
    BY <1>1, <1>3, <2>1 DEF Open, NotBegun, WokenByResult, Chain
  <2>3. OneTimeout(e)
    BY <1>3, <2>1 DEF Open, OneTimeout
  <2>4. Counted(e)
    BY <1>3, <2>1 DEF Open, Counted
  <2>5. QED
    BY <2>2, <2>3, <2>4 DEF Open
<1>5. QED
  BY <1>1, <1>2, <1>4, Closes

LEMMA CloseKeeps ==
  ASSUME ConnectInv, Close
  PROVE  ConnectInv'
<1> DEFINE c == client
           e == [[c EXCEPT !.running = FALSE]
                   EXCEPT !.hello_timer = FALSE, !.closed = TRUE]
<1>1. c \in Client /\ client' = CloseSocket(e)
  BY Zenon DEF ConnectInv, Close, CloseHandler
<1>2. e \in Client /\ e.closed = TRUE
  BY <1>1, Zenon DEF Client
<1> HIDE DEF e
<1>3. CloseSocket(e) \in Client /\ CloseSocket(e).closed = e.closed
  BY <1>2, CloseSocketFields, Zenon
<1>4. QED
  BY <1>1, <1>2, <1>3, Closes

LEMMA HelloTimeoutKeeps ==
  ASSUME ConnectInv, HelloTimeout
  PROVE  ConnectInv'
<1> DEFINE c == client
           e == [c EXCEPT !.hello_timer = FALSE, !.hello_ready = TRUE]
<1>1. /\ c \in Client /\ c.hello_timer /\ client' = e
      /\ ~ c.closed => Open(c)
  BY DEF ConnectInv, HelloTimeout
<1>2. e \in Client
  BY <1>1, Zenon DEF Client
<1>3. /\ e.op = c.op /\ e.hello_retries = c.hello_retries
      /\ e.hello_timer = FALSE /\ e.hello_ready = TRUE
      /\ e.socket_open = c.socket_open
      /\ e.receiving = c.receiving /\ e.received = c.received
      /\ e.negotiated = c.negotiated /\ e.running = c.running
      /\ e.hellos = c.hellos /\ e.raced = c.raced /\ e.closed = c.closed
  BY <1>1, Zenon DEF Client
<1> HIDE DEF e
<1>4. ASSUME ~ e.closed PROVE Open(e)
  <2>1. Open(c)
    BY <1>1, <1>3, <1>4
  <2>2. NotBegun(e) /\ WokenByResult(e) /\ Chain(e)
    BY <1>1, <1>3, <2>1 DEF Open, NotBegun, WokenByResult, Chain
  <2>3. OneTimeout(e)
    BY <1>1, <1>3, <2>1 DEF Open, OneTimeout
  <2>4. Counted(e)
    BY <1>3, <2>1 DEF Open, Counted
  <2>5. QED
    BY <2>2, <2>3, <2>4 DEF Open
<1>5. QED
  BY <1>1, <1>2, <1>4, Closes

LEMMA ReceiveDatagramKeeps ==
  ASSUME ConnectInv, ReceiveDatagram
  PROVE  ConnectInv'
<1> DEFINE c == client
           i == c.receiving - 1
           r == c.received + 1
           e == [c EXCEPT !.receiving = i, !.received = r]
<1>1. /\ c \in Client /\ c.receiving > 0 /\ client' = e
      /\ ~ c.closed => Open(c)
  BY DEF ConnectInv, ReceiveDatagram
<1>2. /\ i \in Nat /\ r \in Nat
      /\ i + r = c.receiving + c.received /\ i = c.receiving - 1
  BY <1>1, FieldTypes
<1> HIDE DEF i, r
<1>3. /\ e \in Client
      /\ e.op = c.op /\ e.hello_retries = c.hello_retries
      /\ e.hello_timer = c.hello_timer /\ e.hello_ready = c.hello_ready
      /\ e.socket_open = c.socket_open
      /\ e.receiving = i /\ e.received = r
      /\ e.negotiated = c.negotiated /\ e.running = c.running
      /\ e.hellos = c.hellos /\ e.raced = c.raced /\ e.closed = c.closed
  BY <1>1, <1>2, Zenon DEF Client
<1> HIDE DEF e
<1>4. ASSUME ~ e.closed PROVE Open(e)
  <2>1. Open(c)
    BY <1>1, <1>3, <1>4
  <2>2. NotBegun(e) /\ WokenByResult(e)
    BY <1>1, <1>3, <2>1 DEF Open, NotBegun, WokenByResult
  <2>3. Chain(e)
    BY <1>1, <1>2, <1>3, <2>1 DEF Open, Chain
  <2>4. OneTimeout(e)
    BY <1>3, <2>1 DEF Open, OneTimeout
  <2>5. Counted(e)
    BY <1>3, <2>1 DEF Open, Counted
  <2>6. QED
    BY <2>2, <2>3, <2>4, <2>5 DEF Open
<1>5. QED
  BY <1>1, <1>3, <1>4, Closes

(* A datagram starts the session, or leaves all but the receive as it is.  *)
LEMMA StartSessionFields ==
  ASSUME NEW c \in Client
  PROVE  LET d == StartSession(c)
         IN  /\ d \in Client
             /\ d.hello_ready = c.hello_ready /\ d.socket_open = c.socket_open
             /\ d.receiving = c.receiving /\ d.received = c.received
             /\ d.negotiated = c.negotiated
             /\ d.hellos = c.hellos /\ d.closed = c.closed
             /\ c.negotiated =>
                  /\ d.op = Woken(c.op) /\ d.hello_retries = 0
                  /\ d.hello_timer = FALSE /\ d.running = TRUE
                  /\ d.raced <=> (c.raced \/ c.hello_ready)
             /\ ~ c.negotiated => d = c
<1> DEFINE d == StartSession(c)
<1>1. CASE c.negotiated
  <2> DEFINE r == c.raced \/ c.hello_ready
             e == [c EXCEPT !.hello_retries = 0, !.hello_timer = FALSE,
                            !.running = TRUE, !.raced = r]
  <2>1. d = WakeConnect(e)
    BY <1>1, Zenon DEF StartSession
  <2>2. r \in BOOLEAN
    BY FieldTypes, Zenon
  <2> HIDE DEF r
  <2>3. e \in Client
    BY <2>2, Limits, Zenon DEF Client
  <2>4. /\ e.op = c.op /\ e.hello_retries = 0
        /\ e.hello_timer = FALSE /\ e.hello_ready = c.hello_ready
        /\ e.socket_open = c.socket_open
        /\ e.receiving = c.receiving /\ e.received = c.received
        /\ e.negotiated = c.negotiated /\ e.running = TRUE
        /\ e.hellos = c.hellos /\ e.raced = r /\ e.closed = c.closed
    BY Zenon DEF Client
  <2> HIDE DEF d, e
  <2>5. /\ d \in Client /\ d.op = Woken(e.op)
        /\ d.hello_retries = e.hello_retries
        /\ d.hello_timer = e.hello_timer /\ d.hello_ready = e.hello_ready
        /\ d.socket_open = e.socket_open
        /\ d.receiving = e.receiving /\ d.received = e.received
        /\ d.negotiated = e.negotiated /\ d.running = e.running
        /\ d.hellos = e.hellos /\ d.raced = e.raced /\ d.closed = e.closed
    BY <2>1, <2>3, WakeConnectFields, Zenon
  <2>6. QED
    BY <1>1, <2>4, <2>5, Zenon DEF d, r
<1>2. CASE ~ c.negotiated
  <2>1. d = c
    BY <1>2, Zenon DEF StartSession
  <2>2. QED
    BY <1>2, <2>1, Zenon
<1>3. QED
  BY <1>1, <1>2

LEMMA RunLowerReadKeeps ==
  ASSUME ConnectInv, RunLowerRead
  PROVE  ConnectInv'
<1> DEFINE c == client
           r == c.received - 1
           e == [c EXCEPT !.received = r]
<1>1. /\ c \in Client /\ c.received > 0
      /\ ~ c.closed => Open(c)
  BY DEF ConnectInv, RunLowerRead
<1>2. PICK accepted, cookie \in BOOLEAN :
        client' = HandleLowerRead(e, accepted, cookie)
  BY Zenon DEF RunLowerRead
<1>3. e \in Client /\ r = c.received - 1
  <2>1. r \in Nat
    BY <1>1, FieldTypes
  <2>2. r = c.received - 1
    OBVIOUS
  <2> HIDE DEF r
  <2>3. QED
    BY <1>1, <2>1, <2>2, Zenon DEF Client
<1> HIDE DEF r
<1>4. /\ e.op = c.op /\ e.hello_retries = c.hello_retries
      /\ e.hello_timer = c.hello_timer /\ e.hello_ready = c.hello_ready
      /\ e.socket_open = c.socket_open
      /\ e.receiving = c.receiving /\ e.received = r
      /\ e.negotiated = c.negotiated /\ e.running = c.running
      /\ e.hellos = c.hellos /\ e.raced = c.raced /\ e.closed = c.closed
  BY <1>1, Zenon DEF Client
<1> DEFINE v == e.negotiated \/ cookie
           n == [e EXCEPT !.negotiated = v]
           m == IF accepted THEN StartSession(n) ELSE e
           d == AsyncReceive(m)
           Started(x) ==
             /\ x.op = Woken(c.op) /\ x.hello_retries = 0
             /\ x.hello_timer = FALSE /\ x.running = TRUE
             /\ x.raced <=> (c.raced \/ c.hello_ready)
           Same(x) ==
             /\ x.op = c.op /\ x.hello_retries = c.hello_retries
             /\ x.hello_timer = c.hello_timer /\ x.running = c.running
             /\ x.raced = c.raced /\ (x.negotiated <=> c.negotiated)
<1>5. client' = d
  BY <1>2, Zenon DEF HandleLowerRead
<1> HIDE DEF e
<1>6. /\ m \in Client /\ m.hello_ready = c.hello_ready
      /\ m.socket_open = c.socket_open
      /\ m.receiving = c.receiving /\ m.received = r
      /\ m.hellos = c.hellos /\ m.closed = c.closed
      /\ Started(m) \/ Same(m)
  <2>1. CASE accepted
    <3>1. v \in BOOLEAN
      BY <1>3, FieldTypes, Zenon
    <3> HIDE DEF v
    <3>2. n \in Client
      BY <1>3, <3>1, Zenon DEF Client
    <3>3. /\ n.op = e.op /\ n.hello_retries = e.hello_retries
          /\ n.hello_timer = e.hello_timer /\ n.hello_ready = e.hello_ready
          /\ n.socket_open = e.socket_open
          /\ n.receiving = e.receiving /\ n.received = e.received
          /\ n.negotiated = v /\ n.running = e.running
          /\ n.hellos = e.hellos /\ n.raced = e.raced /\ n.closed = e.closed
      BY <1>3, Zenon DEF Client
    <3> HIDE DEF n
    <3>4. m = StartSession(n)
      BY <2>1, Zenon
    <3> HIDE DEF m
    <3>5. /\ m \in Client
          /\ m.hello_ready = n.hello_ready /\ m.socket_open = n.socket_open
          /\ m.receiving = n.receiving /\ m.received = n.received
          /\ m.hellos = n.hellos /\ m.closed = n.closed
          /\ n.negotiated =>
               /\ m.op = Woken(n.op) /\ m.hello_retries = 0
               /\ m.hello_timer = FALSE /\ m.running = TRUE
               /\ m.raced <=> (n.raced \/ n.hello_ready)
          /\ ~ n.negotiated => m = n
      BY <3>2, <3>4, StartSessionFields, Zenon
    <3>6. n.negotiated => Started(m)
      BY <1>4, <3>3, <3>5, Zenon
    <3>7. ~ n.negotiated => Same(m)
      BY <1>4, <3>3, <3>5, Zenon DEF v
    <3>8. QED
      BY <1>4, <3>3, <3>5, <3>6, <3>7, Zenon
  <2>2. CASE ~ accepted
    <3>1. m = e
      BY <2>2, Zenon
    <3>2. QED
      BY <1>3, <1>4, <3>1, Zenon
  <2>3. QED
    BY <2>1, <2>2
<1> HIDE DEF m, n
<1>7. /\ d \in Client /\ d.op = m.op
      /\ d.hello_retries = m.hello_retries
      /\ d.hello_timer = m.hello_timer /\ d.hello_ready = m.hello_ready
      /\ d.socket_open = m.socket_open
      /\ d.receiving = IF m.socket_open THEN m.receiving + 1
                                       ELSE m.receiving
      /\ d.received = m.received
      /\ d.negotiated = m.negotiated /\ d.running = m.running
      /\ d.hellos = m.hellos /\ d.raced = m.raced
      /\ d.closed = m.closed
  BY <1>6, AsyncReceiveFields, Zenon
<1> HIDE DEF d
<1>8. /\ d.hello_ready = c.hello_ready /\ d.socket_open = c.socket_open
      /\ d.receiving = IF c.socket_open THEN c.receiving + 1
                                       ELSE c.receiving
      /\ d.received = r /\ d.hellos = c.hellos /\ d.closed = c.closed
  <2>1. d.receiving = IF c.socket_open THEN c.receiving + 1 ELSE c.receiving
    BY <1>6, <1>7, Zenon
  <2>2. QED
    BY <1>6, <1>7, <2>1, Zenon
<1>9. Started(d) \/ Same(d)
  BY <1>6, <1>7, Zenon
<1>10. ASSUME ~ d.closed PROVE Open(d)
  <2>1. Open(c)
    BY <1>1, <1>8, <1>10
  <2>2. /\ c.op \in OpStates /\ c.op # "idle"
        /\ Woken(c.op) # "idle"
        /\ Woken(c.op) = "refused" => c.op = "refused"
    BY <1>1, <2>1, FieldTypes, WokenFacts DEF Open, NotBegun
  <2>3. /\ c.socket_open => c.receiving = 0 /\ r = 0
        /\ ~ c.socket_open => c.receiving = 0 /\ c.raced
    BY <1>1, <1>3, <2>1, <2>2, FieldTypes DEF Open, Chain
  <2>4. NotBegun(d)
    BY <1>9, <2>2 DEF NotBegun
  <2>5. Chain(d)
    BY <1>8, <1>9, <2>3 DEF Chain
  <2>6. CASE Started(d)
    <3>1. WokenByResult(d)
      BY <2>6 DEF WokenByResult
    <3>2. OneTimeout(d)
      BY <1>8, <2>3, <2>6 DEF OneTimeout
    <3>3. Counted(d)
      BY <1>8, <2>1, <2>2, <2>6 DEF Open, Counted
    <3>4. QED
      BY <2>4, <2>5, <3>1, <3>2, <3>3 DEF Open
  <2>7. CASE Same(d)
    <3>1. WokenByResult(d)
      BY <2>1, <2>7 DEF Open, WokenByResult
    <3>2. OneTimeout(d)
      BY <1>8, <2>1, <2>7 DEF Open, OneTimeout
    <3>3. Counted(d)
      BY <1>8, <2>1, <2>7 DEF Open, Counted
    <3>4. QED
      BY <2>4, <2>5, <3>1, <3>2, <3>3 DEF Open
  <2>8. QED
    BY <1>9, <2>6, <2>7
<1>11. QED
  BY <1>5, <1>7, <1>10, Closes

-----------------------------------------------------------------------------
LEMMA NextConnectInv ==
  ASSUME ConnectInv, [Next]_client
  PROVE  ConnectInv'
<1>1. CASE UNCHANGED client
  BY <1>1 DEF ConnectInv
<1>2. QED
  BY <1>1, AsyncConnectKeeps, AsyncPendingConnectWaitKeeps, CloseKeeps,
     RetryConnectKeeps, HelloTimeoutKeeps, RunHelloTimeoutKeeps,
     ReceiveDatagramKeeps, RunLowerReadKeeps DEF Next

(* Timers, datagrams, the cookie and the operation fit together in every   *)
(* reachable state, until the session is closed.                           *)
THEOREM ConnectInvariant == Spec => []ConnectInv
  BY InitConnectInv, NextConnectInv, PTL DEF Spec

(* The chain of receives neither ends nor forks before the session is      *)
(* closed (client_stream.ipp:103, 154).                                    *)
THEOREM ReceivesGoOn == Spec => []ReceiveChainAlive
<1>1. ConnectInv => ReceiveChainAlive
  BY DEF ConnectInv, Open, Chain, ReceiveChainAlive
<1>2. QED
  BY <1>1, ConnectInvariant, PTL

(* No hello timeout closes the socket of a connection, unless its handler  *)
(* or the cookie's was ready too early (client_stream.ipp:119-122, 147).   *)
THEOREM SocketKept == Spec => []RunningKeepsSocket
<1>1. ConnectInv => RunningKeepsSocket
  BY DEF ConnectInv, Open, OneTimeout, RunningKeepsSocket
<1>2. QED
  BY <1>1, ConnectInvariant, PTL

(* A connection is refused only after all hello packets, however many they *)
(* are (client_stream.ipp:119-123).                                        *)
THEOREM RefusedLast == Spec => []RefusedAfterAllHellos
<1>1. ConnectInv => RefusedAfterAllHellos
  <2>1. ConnectInv => client.hellos \in Nat /\ HelloLimit \in Nat
    BY FieldTypes, Limits DEF ConnectInv
  <2>2. QED
    BY <2>1 DEF ConnectInv, Open, Counted, RefusedAfterAllHellos
<1>2. QED
  BY <1>1, ConnectInvariant, PTL
=============================================================================
