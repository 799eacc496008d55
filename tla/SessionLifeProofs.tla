------------------------- MODULE SessionLifeProofs -------------------------
(***************************************************************************)
(* Theorems about SessionLife.  The session is a record and a member       *)
(* function an operator on records, so there is a lemma for each function: *)
(* first what it does to the fields, then that it keeps the invariant.     *)
(***************************************************************************)
EXTENDS SessionLife, TLAPS

-----------------------------------------------------------------------------
(* The inductive invariant.                                                *)

Alive(s) == s.running => s.send_queue_timer \/ s.send_queue_ready > 0

NotStarted(s) ==
  ~ Started(s) => ~ s.send_queue_timer /\ s.send_queue_ready = 0

Graceful(s) == s.finished => (s.my_final /\ s.their_final) \/ s.timed_out

(* The close timer runs for a close() of the application only.             *)
TimerIsForClose(s) ==
  /\ s.close_timer = "ready" => s.timed_out
  /\ s.closer # "idle" \/ s.close_timer # "off" \/ s.timed_out =>
       s.close_called

(* Until close() is called, our EOF follows the one read from the peer,    *)
(* and its acknowledgment follows it.                                      *)
EofOrder(s) ==
  /\ s.pending_eof \/ s.my_eof => s.close_called \/ s.eof_read
  /\ s.my_final \/ "ack" \in s.packets => s.my_eof

Quiet(s) ==
  s.finished /\ ~ s.late =>
    /\ ~ s.running /\ s.unread = 0 /\ ~ s.eof_stored
    /\ s.packets = {} /\ ~ s.lower_open

(* What holds in the middle of a function, too.                            *)
Sound(s) ==
  /\ s \in Session
  /\ NotStarted(s) /\ Graceful(s) /\ TimerIsForClose(s) /\ EofOrder(s)

Good(s) == Sound(s) /\ Alive(s) /\ Quiet(s)

LifeInv == Good(session)

-----------------------------------------------------------------------------
(* Types of the fields and of the values stored in them.                   *)
LEMMA Zeros ==
  0 \in 0 .. MaxPending /\ 0 \in 0 .. MaxUnread /\ 0 \in 0 .. MaxReady
  BY LifeAssumption

LEMMA Wakes ==
  /\ \A op \in OpStates : Woken(op) \in OpStates
  /\ \A op \in OpStates \cup {"done"} :
       /\ Woken(op) \in OpStates \cup {"done"}
       /\ Woken(op) # "idle" <=> op # "idle"
  BY DEF Woken, OpStates

LEMMA FieldTypes ==
  ASSUME NEW s \in Session
  PROVE  /\ s.pending_used \in 0 .. MaxPending /\ s.unread \in 0 .. MaxUnread
         /\ s.send_queue_ready \in 0 .. MaxReady
         /\ s.close_timer \in {"off", "waiting", "ready"}
         /\ s.reader \in OpStates /\ s.writer \in OpStates
         /\ s.closer \in OpStates \cup {"done"}
         /\ s.packets \in SUBSET Packets
  BY Zenon DEF Session

-----------------------------------------------------------------------------
(* do_close()                                                              *)
LEMMA CleanUpFields ==
  ASSUME NEW s \in Session
  PROVE  /\ CleanUp(s) \in Session
         /\ CleanUp(s).running = FALSE /\ CleanUp(s).pending_eof = FALSE
         /\ CleanUp(s).unread = 0 /\ CleanUp(s).eof_stored = FALSE
         /\ CleanUp(s).finished = TRUE
         /\ CleanUp(s).late <=> (s.late \/ s.packets # {})
         /\ CleanUp(s).packets = s.packets
         /\ CleanUp(s).closer = s.closer
         /\ CleanUp(s).close_timer # "off" => s.close_timer = "ready"
         /\ CleanUp(s).close_timer # "waiting"
         /\ CleanUp(s).timed_out = s.timed_out
         /\ CleanUp(s).close_called = s.close_called
         /\ CleanUp(s).eof_read = s.eof_read /\ CleanUp(s).my_eof = s.my_eof
         /\ CleanUp(s).my_final = s.my_final
         /\ CleanUp(s).their_final = s.their_final
<1> DEFINE ct == IF s.close_timer = "waiting" THEN "off" ELSE s.close_timer
           r == Woken(s.reader)
           w == Woken(s.writer)
           l == s.late \/ s.packets # {}
           t == [s EXCEPT
                  !.running = FALSE, !.pending_close = FALSE,
                  !.pending_eof = FALSE, !.pending_used = 0, !.unread = 0,
                  !.eof_stored = FALSE, !.send_queue_timer = FALSE,
                  !.close_timer = ct, !.reader = r, !.writer = w,
                  !.finished = TRUE, !.late = l]
<1>1. ct \in {"off", "waiting", "ready"} /\ ct # "waiting"
      /\ (ct # "off" => s.close_timer = "ready")
  BY FieldTypes
<1>2. r \in OpStates /\ w \in OpStates
  BY FieldTypes, Wakes
<1>3. l \in BOOLEAN
  OBVIOUS
<1>4. CleanUp(s) = t
  BY Zenon DEF CleanUp
<1> HIDE DEF ct, r, w, l
<1>5. t \in Session
  BY <1>1, <1>2, <1>3, Zeros, ZenonT(60) DEF Session
<1>6. /\ t.running = FALSE /\ t.pending_eof = FALSE /\ t.unread = 0
      /\ t.eof_stored = FALSE /\ t.finished = TRUE
      /\ t.close_timer = ct /\ t.late = l
      /\ t.packets = s.packets /\ t.closer = s.closer
      /\ t.timed_out = s.timed_out /\ t.close_called = s.close_called
      /\ t.eof_read = s.eof_read /\ t.my_eof = s.my_eof
      /\ t.my_final = s.my_final /\ t.their_final = s.their_final
  BY Zenon DEF Session
<1> HIDE DEF t
<1>7. QED
  BY <1>1, <1>4, <1>5, <1>6, Zenon DEF l

LEMMA DoCloseGood ==
  ASSUME NEW s, Sound(s), BothFinal(s) \/ s.timed_out
  PROVE  Good(DoClose(s)) /\ DoClose(s).close_called = s.close_called
<1> DEFINE c == CleanUp(s)
           w == Woken(c.closer)
           t == [c EXCEPT !.lower_open = FALSE, !.closer = w]
<1>1. s \in Session
  BY DEF Sound
<1>2. /\ c \in Session
      /\ c.running = FALSE /\ c.pending_eof = FALSE /\ c.unread = 0
      /\ c.eof_stored = FALSE /\ c.finished = TRUE
      /\ c.late <=> (s.late \/ s.packets # {})
      /\ c.packets = s.packets /\ c.closer = s.closer
      /\ c.close_timer # "off" => s.close_timer = "ready"
      /\ c.timed_out = s.timed_out /\ c.close_called = s.close_called
      /\ c.eof_read = s.eof_read /\ c.my_eof = s.my_eof
      /\ c.my_final = s.my_final /\ c.their_final = s.their_final
  BY <1>1, CleanUpFields, Zenon
<1>3. DoClose(s) = t
  BY Zenon DEF DoClose
<1> HIDE DEF c
<1>4. /\ w \in OpStates \cup {"done"}
      /\ w # "idle" <=> s.closer # "idle"
  BY <1>1, <1>2, FieldTypes, Wakes
<1> HIDE DEF w
<1>5. t \in Session
  BY <1>2, <1>4, Zenon DEF Session
<1>6. /\ t.lower_open = FALSE /\ t.closer = w
      /\ t.running = c.running /\ t.pending_eof = c.pending_eof
      /\ t.unread = c.unread /\ t.eof_stored = c.eof_stored
      /\ t.finished = c.finished /\ t.late = c.late /\ t.packets = c.packets
      /\ t.close_timer = c.close_timer
      /\ t.timed_out = c.timed_out /\ t.close_called = c.close_called
      /\ t.eof_read = c.eof_read /\ t.my_eof = c.my_eof
      /\ t.my_final = c.my_final /\ t.their_final = c.their_final
  BY <1>2, Zenon DEF Session
<1> HIDE DEF t
<1>7. QED
  BY <1>2, <1>3, <1>4, <1>5, <1>6
  DEF Good, Sound, NotStarted, Started, Graceful, TimerIsForClose, EofOrder,
      Alive, Quiet, BothFinal

-----------------------------------------------------------------------------
(* The send queue.                                                         *)
LEMMA SendsBlockSound ==
  ASSUME NEW s, Sound(s), s.pending_used > 0
  PROVE  /\ Sound(SendsBlock(s))
         /\ SendsBlock(s).running = s.running
         /\ SendsBlock(s).finished = s.finished
         /\ SendsBlock(s).late = s.late
         /\ SendsBlock(s).unread = s.unread
         /\ SendsBlock(s).eof_stored = s.eof_stored
         /\ SendsBlock(s).packets = s.packets
         /\ SendsBlock(s).lower_open = s.lower_open
         /\ SendsBlock(s).close_called = s.close_called
<1> DEFINE n == s.pending_used - 1
           w == Woken(s.writer)
           e == s.my_eof \/ (s.pending_used = 1 /\ s.pending_eof)
           t == [s EXCEPT !.pending_used = n, !.writer = w, !.my_eof = e]
<1>1. s \in Session
  BY DEF Sound
<1>2. n \in 0 .. MaxPending
  BY <1>1, FieldTypes, LifeAssumption
<1>3. w \in OpStates
  BY <1>1, FieldTypes, Wakes
<1>4. e \in BOOLEAN
  BY <1>1, Zenon DEF Session
<1>5. SendsBlock(s) = t
  BY Zenon DEF SendsBlock
<1>6. e => s.my_eof \/ s.pending_eof
  OBVIOUS
<1>7. s.my_eof => e
  OBVIOUS
<1> HIDE DEF n, w, e
<1>8. t \in Session
  BY <1>1, <1>2, <1>3, <1>4, Zenon DEF Session
<1>9. /\ t.my_eof = e /\ t.lower_open = s.lower_open
      /\ t.running = s.running /\ t.pending_eof = s.pending_eof
      /\ t.send_queue_timer = s.send_queue_timer
      /\ t.send_queue_ready = s.send_queue_ready
      /\ t.unread = s.unread /\ t.eof_stored = s.eof_stored
      /\ t.finished = s.finished /\ t.late = s.late /\ t.packets = s.packets
      /\ t.close_timer = s.close_timer /\ t.closer = s.closer
      /\ t.timed_out = s.timed_out /\ t.close_called = s.close_called
      /\ t.eof_read = s.eof_read
      /\ t.my_final = s.my_final /\ t.their_final = s.their_final
  BY <1>1, Zenon DEF Session
<1> HIDE DEF t
<1>10. QED
  BY <1>5, <1>6, <1>7, <1>8, <1>9
  DEF Sound, NotStarted, Started, Graceful, TimerIsForClose, EofOrder

LEMMA SendsEofSound ==
  ASSUME NEW s, Sound(s), s.pending_eof
  PROVE  /\ Sound(SendsEof(s))
         /\ SendsEof(s).running = s.running
         /\ SendsEof(s).finished = s.finished
         /\ SendsEof(s).late = s.late
         /\ SendsEof(s).unread = s.unread
         /\ SendsEof(s).eof_stored = s.eof_stored
         /\ SendsEof(s).packets = s.packets
         /\ SendsEof(s).lower_open = s.lower_open
         /\ SendsEof(s).close_called = s.close_called
<1> DEFINE t == SendsEof(s)
<1>1. s \in Session
  BY DEF Sound
<1>2. t \in Session
  BY <1>1, Zenon DEF Session, SendsEof
<1>3. /\ t.my_eof = TRUE /\ t.lower_open = s.lower_open
      /\ t.running = s.running /\ t.pending_eof = s.pending_eof
      /\ t.send_queue_timer = s.send_queue_timer
      /\ t.send_queue_ready = s.send_queue_ready
      /\ t.unread = s.unread /\ t.eof_stored = s.eof_stored
      /\ t.finished = s.finished /\ t.late = s.late /\ t.packets = s.packets
      /\ t.close_timer = s.close_timer /\ t.closer = s.closer
      /\ t.timed_out = s.timed_out /\ t.close_called = s.close_called
      /\ t.eof_read = s.eof_read
      /\ t.my_final = s.my_final /\ t.their_final = s.their_final
  BY <1>1, Zenon DEF Session, SendsEof
<1> HIDE DEF t
<1>4. Sound(t)
  BY <1>2, <1>3
  DEF Sound, NotStarted, Started, Graceful, TimerIsForClose, EofOrder
<1>5. QED
  BY <1>3, <1>4, Zenon DEF t

LEMMA RescheduleGood ==
  ASSUME NEW s, Sound(s), Started(s), Quiet(s)
  PROVE  Good(Reschedule(s)) /\ Reschedule(s).close_called = s.close_called
<1> DEFINE t == Reschedule(s)
<1>1. s \in Session
  BY DEF Sound
<1>2. t \in Session
  BY <1>1, Zenon DEF Session, Reschedule
<1>3. /\ t.send_queue_timer = TRUE /\ t.send_queue_ready = s.send_queue_ready
      /\ t.my_eof = s.my_eof /\ t.lower_open = s.lower_open
      /\ t.running = s.running /\ t.pending_eof = s.pending_eof
      /\ t.unread = s.unread /\ t.eof_stored = s.eof_stored
      /\ t.finished = s.finished /\ t.late = s.late /\ t.packets = s.packets
      /\ t.close_timer = s.close_timer /\ t.closer = s.closer
      /\ t.timed_out = s.timed_out /\ t.close_called = s.close_called
      /\ t.eof_read = s.eof_read
      /\ t.my_final = s.my_final /\ t.their_final = s.their_final
  BY <1>1, Zenon DEF Session, Reschedule
<1> HIDE DEF t
<1>4. Good(t)
  BY <1>2, <1>3
  DEF Good, Sound, NotStarted, Started, Graceful, TimerIsForClose, EofOrder,
      Alive, Quiet
<1>5. QED
  BY <1>3, <1>4, Zenon DEF t

(* A turn of the send queue ends the session or arms the timer again.      *)
LEMMA SendQueueGood ==
  ASSUME NEW s, Sound(s), Started(s), Quiet(s),
         NEW t \in HandleProcessSendQueue(s)
  PROVE  Good(t) /\ t.close_called = s.close_called
<1>1. PICK r \in ProcessSendq(s) :
        t = IF BothFinal(r) THEN DoClose(r) ELSE Reschedule(r)
  BY Zenon DEF HandleProcessSendQueue
<1>2. /\ Sound(r)
      /\ r.running = s.running /\ r.finished = s.finished /\ r.late = s.late
      /\ r.unread = s.unread /\ r.eof_stored = s.eof_stored
      /\ r.packets = s.packets /\ r.lower_open = s.lower_open
      /\ r.close_called = s.close_called
  <2>1. \/ r = s
        \/ r = SendsBlock(s) /\ s.pending_used > 0
        \/ r = SendsEof(s) /\ s.pending_eof
    BY DEF ProcessSendq
  <2>2. CASE r = s
    BY <2>2
  <2>3. CASE r = SendsBlock(s) /\ s.pending_used > 0
    BY <2>3, SendsBlockSound, Zenon
  <2>4. CASE r = SendsEof(s) /\ s.pending_eof
    BY <2>4, SendsEofSound, Zenon
  <2>5. QED
    BY <2>1, <2>2, <2>3, <2>4
<1>3. Started(r) /\ Quiet(r)
  BY <1>2, Zenon DEF Started, Quiet
<1>4. QED
  BY <1>1, <1>2, <1>3, DoCloseGood, RescheduleGood, Zenon

-----------------------------------------------------------------------------
(* close()                                                                 *)
LEMMA CloseNotRunningGood ==
  ASSUME NEW s, Good(s), ~ s.running, s.close_called
  PROVE  Good(CloseNotRunning(s))
<1> DEFINE r == Woken(s.reader)
           w == Woken(s.writer)
           l == s.late \/ s.packets # {}
           t == [s EXCEPT !.reader = r, !.writer = w, !.lower_open = FALSE,
                          !.late = l, !.closer = "done"]
<1>1. s \in Session
  BY DEF Good, Sound
<1>2. r \in OpStates /\ w \in OpStates
  BY <1>1, FieldTypes, Wakes
<1>3. l \in BOOLEAN /\ (s.late => l)
  OBVIOUS
<1>4. CloseNotRunning(s) = t
  BY Zenon DEF CloseNotRunning
<1> HIDE DEF r, w, l
<1>5. t \in Session
  BY <1>1, <1>2, <1>3, Zenon DEF Session
<1>6. /\ t.lower_open = FALSE /\ t.late = l /\ t.closer = "done"
      /\ t.running = s.running /\ t.pending_eof = s.pending_eof
      /\ t.send_queue_timer = s.send_queue_timer
      /\ t.send_queue_ready = s.send_queue_ready /\ t.unread = s.unread
      /\ t.eof_stored = s.eof_stored /\ t.packets = s.packets
      /\ t.close_timer = s.close_timer /\ t.my_eof = s.my_eof
      /\ t.my_final = s.my_final /\ t.their_final = s.their_final
      /\ t.finished = s.finished /\ t.timed_out = s.timed_out
      /\ t.close_called = s.close_called /\ t.eof_read = s.eof_read
  BY <1>1, Zenon DEF Session
<1> HIDE DEF t
<1>7. Good(t)
  BY <1>3, <1>5, <1>6
  DEF Good, Sound, NotStarted, Started, Graceful, TimerIsForClose, EofOrder,
      Alive, Quiet
<1>8. QED
  BY <1>4, <1>7, Zenon

LEMMA ClosingGood ==
  ASSUME NEW s, Good(s), s.running, s.close_called
  PROVE  /\ Good(Closing(s)) /\ Closing(s).running
         /\ Closing(s).close_called
<1> DEFINE t == Closing(s)
<1>1. s \in Session
  BY DEF Good, Sound
<1>2. t \in Session
  BY <1>1, Zenon DEF Session, Closing
<1>3. /\ t.pending_eof = TRUE
      /\ t.running = s.running /\ t.send_queue_timer = s.send_queue_timer
      /\ t.send_queue_ready = s.send_queue_ready /\ t.unread = s.unread
      /\ t.eof_stored = s.eof_stored /\ t.packets = s.packets
      /\ t.close_timer = s.close_timer /\ t.closer = s.closer
      /\ t.my_eof = s.my_eof /\ t.my_final = s.my_final
      /\ t.their_final = s.their_final /\ t.lower_open = s.lower_open
      /\ t.finished = s.finished /\ t.late = s.late
      /\ t.timed_out = s.timed_out /\ t.close_called = s.close_called
      /\ t.eof_read = s.eof_read
  BY <1>1, Zenon DEF Session, Closing
<1> HIDE DEF t
<1>4. Good(t) /\ t.running /\ t.close_called
  BY <1>2, <1>3
  DEF Good, Sound, NotStarted, Started, Graceful, TimerIsForClose, EofOrder,
      Alive, Quiet
<1>5. QED
  BY <1>4, Zenon DEF t

LEMMA StartCloseTimerGood ==
  ASSUME NEW s, Good(s), s.close_called
  PROVE  Good(StartCloseTimer(s))
<1> DEFINE t == StartCloseTimer(s)
<1>1. s \in Session
  BY DEF Good, Sound
<1>2. "waiting" \in OpStates
  BY DEF OpStates
<1>3. t \in Session
  BY <1>1, <1>2, Zenon DEF Session, StartCloseTimer
<1>4. /\ t.close_timer = "waiting" /\ t.closer = "waiting"
      /\ t.running = s.running /\ t.pending_eof = s.pending_eof
      /\ t.send_queue_timer = s.send_queue_timer
      /\ t.send_queue_ready = s.send_queue_ready /\ t.unread = s.unread
      /\ t.eof_stored = s.eof_stored /\ t.packets = s.packets
      /\ t.my_eof = s.my_eof /\ t.my_final = s.my_final
      /\ t.their_final = s.their_final /\ t.lower_open = s.lower_open
      /\ t.finished = s.finished /\ t.late = s.late
      /\ t.timed_out = s.timed_out /\ t.close_called = s.close_called
      /\ t.eof_read = s.eof_read
  BY <1>1, Zenon DEF Session, StartCloseTimer
<1> HIDE DEF t
<1>5. Good(t)
  BY <1>3, <1>4
  DEF Good, Sound, NotStarted, Started, Graceful, TimerIsForClose, EofOrder,
      Alive, Quiet
<1>6. QED
  BY <1>5, Zenon DEF t

(* The close operation suspends itself, is ready or ends.                  *)
LEMMA CloserGood ==
  ASSUME NEW s, Good(s), s.close_called,
         NEW c \in OpStates \cup {"done"}
  PROVE  Good([s EXCEPT !.closer = c])
<1> DEFINE t == [s EXCEPT !.closer = c]
<1>1. s \in Session
  BY DEF Good, Sound
<1>2. t \in Session
  BY <1>1, Zenon DEF Session
<1>3. /\ t.closer = c
      /\ t.running = s.running /\ t.pending_eof = s.pending_eof
      /\ t.send_queue_timer = s.send_queue_timer
      /\ t.send_queue_ready = s.send_queue_ready /\ t.unread = s.unread
      /\ t.eof_stored = s.eof_stored /\ t.packets = s.packets
      /\ t.close_timer = s.close_timer /\ t.my_eof = s.my_eof
      /\ t.my_final = s.my_final /\ t.their_final = s.their_final
      /\ t.lower_open = s.lower_open /\ t.finished = s.finished
      /\ t.late = s.late /\ t.timed_out = s.timed_out
      /\ t.close_called = s.close_called /\ t.eof_read = s.eof_read
  BY <1>1, Zenon DEF Session
<1> HIDE DEF t
<1>4. Good(t)
  BY <1>2, <1>3
  DEF Good, Sound, NotStarted, Started, Graceful, TimerIsForClose, EofOrder,
      Alive, Quiet
<1>5. QED
  BY <1>4, Zenon DEF t

LEMMA CloseGood ==
  ASSUME NEW s, Good(s), s.close_called, NEW t \in Close(s)
  PROVE  Good(t)
<1>1. "waiting" \in OpStates \cup {"done"} /\ "done" \in OpStates \cup {"done"}
  BY DEF OpStates
<1>2. CASE ~ s.running
  BY <1>2, CloseNotRunningGood, Zenon DEF Close
<1>3. CASE s.running /\ s.pending_close
  <2>1. t = [s EXCEPT !.closer = "waiting"]
    BY <1>3, Zenon DEF Close
  <2>2. QED
    BY <1>1, <2>1, CloserGood, Zenon
<1>4. CASE s.running /\ ~ s.pending_close
  <2>1. PICK r \in HandleProcessSendQueue(Closing(s)) :
          t = IF r.running THEN StartCloseTimer(r)
              ELSE [r EXCEPT !.closer = "done"]
    BY <1>4, Zenon DEF Close
  <2>2. Sound(Closing(s)) /\ Started(Closing(s)) /\ Quiet(Closing(s))
    BY <1>4, ClosingGood, Zenon DEF Good, Started
  <2>3. Good(r) /\ r.close_called
    BY <1>4, <2>2, ClosingGood, SendQueueGood, Zenon
  <2>4. QED
    BY <1>1, <2>1, <2>3, StartCloseTimerGood, CloserGood, Zenon
<1>5. QED
  BY <1>2, <1>3, <1>4

-----------------------------------------------------------------------------
(* read() and write()                                                      *)
LEMMA TryReadGood ==
  ASSUME NEW s, Good(s)
  PROVE  Good(TryRead(s))
<1> DEFINE n == IF s.unread > 0 THEN s.unread - 1 ELSE 0
           p == s.eof_stored /\ n = 0
           e == s.pending_eof \/ p
           f == s.eof_read \/ p
           o == IF s.unread > 0 \/ e THEN "idle" ELSE "waiting"
           t == [s EXCEPT !.unread = n, !.pending_eof = e, !.eof_read = f,
                          !.reader = o]
<1>1. s \in Session
  BY DEF Good, Sound
<1>2. n \in 0 .. MaxUnread /\ (s.unread = 0 => n = 0)
  BY <1>1, FieldTypes, LifeAssumption
<1>3. p \in BOOLEAN
  BY <1>1, Zenon DEF Session
<1>4. e \in BOOLEAN /\ f \in BOOLEAN
  BY <1>1, Zenon DEF Session
<1>5. (e => s.pending_eof \/ p) /\ (f <=> s.eof_read \/ p)
  OBVIOUS
<1>6. o \in OpStates
  BY Zenon DEF OpStates
<1>7. TryRead(s) = t
  BY Zenon DEF TryRead
<1> HIDE DEF n, p, e, f, o
<1>8. t \in Session
  BY <1>1, <1>2, <1>4, <1>6, Zenon DEF Session
<1>9. /\ t.unread = n /\ t.pending_eof = e /\ t.eof_read = f
      /\ t.running = s.running /\ t.send_queue_timer = s.send_queue_timer
      /\ t.send_queue_ready = s.send_queue_ready
      /\ t.eof_stored = s.eof_stored /\ t.packets = s.packets
      /\ t.close_timer = s.close_timer /\ t.closer = s.closer
      /\ t.my_eof = s.my_eof /\ t.my_final = s.my_final
      /\ t.their_final = s.their_final /\ t.lower_open = s.lower_open
      /\ t.finished = s.finished /\ t.late = s.late
      /\ t.timed_out = s.timed_out /\ t.close_called = s.close_called
  BY <1>1, Zenon DEF Session
<1> HIDE DEF t
<1>10. Good(t)
  BY <1>2, <1>5, <1>8, <1>9
  DEF Good, Sound, NotStarted, Started, Graceful, TimerIsForClose, EofOrder,
      Alive, Quiet
<1>11. QED
  BY <1>7, <1>10, Zenon

LEMMA WriterGood ==
  ASSUME NEW s, Good(s), NEW o \in OpStates
  PROVE  Good([s EXCEPT !.writer = o])
<1> DEFINE t == [s EXCEPT !.writer = o]
<1>1. s \in Session
  BY DEF Good, Sound
<1>2. t \in Session
  BY <1>1, Zenon DEF Session
<1>3. /\ t.writer = o
      /\ t.running = s.running /\ t.pending_eof = s.pending_eof
      /\ t.send_queue_timer = s.send_queue_timer
      /\ t.send_queue_ready = s.send_queue_ready /\ t.unread = s.unread
      /\ t.eof_stored = s.eof_stored /\ t.packets = s.packets
      /\ t.close_timer = s.close_timer /\ t.closer = s.closer
      /\ t.my_eof = s.my_eof /\ t.my_final = s.my_final
      /\ t.their_final = s.their_final /\ t.lower_open = s.lower_open
      /\ t.finished = s.finished /\ t.late = s.late
      /\ t.timed_out = s.timed_out /\ t.close_called = s.close_called
      /\ t.eof_read = s.eof_read
  BY <1>1, Zenon DEF Session
<1> HIDE DEF t
<1>4. Good(t)
  BY <1>2, <1>3
  DEF Good, Sound, NotStarted, Started, Graceful, TimerIsForClose, EofOrder,
      Alive, Quiet
<1>5. QED
  BY <1>4, Zenon DEF t

LEMMA TryWriteGood ==
  ASSUME NEW s, Good(s)
  PROVE  Good(TryWrite(s))
<1>1. s \in Session
  BY DEF Good, Sound
<1>2. "idle" \in OpStates /\ "waiting" \in OpStates
  BY DEF OpStates
<1>3. CASE s.pending_eof \/ s.pending_used = MaxPending
  <2>1. \/ TryWrite(s) = [s EXCEPT !.writer = "idle"]
        \/ TryWrite(s) = [s EXCEPT !.writer = "waiting"]
    BY <1>3, Zenon DEF TryWrite
  <2>2. /\ Good([s EXCEPT !.writer = "idle"])
        /\ Good([s EXCEPT !.writer = "waiting"])
    BY <1>2, WriterGood
  <2>3. QED
    BY <2>1, <2>2, Zenon
<1>4. CASE ~ s.pending_eof /\ s.pending_used # MaxPending
  <2> DEFINE n == s.pending_used + 1
             q == s.send_queue_timer \/ s.running
             t == [s EXCEPT !.writer = "idle", !.pending_used = n,
                            !.send_queue_timer = q]
  <2>1. n \in 0 .. MaxPending
    BY <1>1, <1>4, FieldTypes, LifeAssumption
  <2>2. q \in BOOLEAN
    BY <1>1, Zenon DEF Session
  <2>3. q <=> s.send_queue_timer \/ s.running
    OBVIOUS
  <2>4. TryWrite(s) = t
    <3>1. ~ s.pending_eof /\ ~ (s.pending_used = MaxPending)
      BY <1>4
    <3>2. QED
      BY <3>1, Zenon DEF TryWrite
  <2> HIDE DEF n, q
  <2>5. t \in Session
    BY <1>1, <1>2, <2>1, <2>2, Zenon DEF Session
  <2>6. /\ t.send_queue_timer = q
        /\ t.running = s.running /\ t.pending_eof = s.pending_eof
        /\ t.send_queue_ready = s.send_queue_ready /\ t.unread = s.unread
        /\ t.eof_stored = s.eof_stored /\ t.packets = s.packets
        /\ t.close_timer = s.close_timer /\ t.closer = s.closer
        /\ t.my_eof = s.my_eof /\ t.my_final = s.my_final
        /\ t.their_final = s.their_final /\ t.lower_open = s.lower_open
        /\ t.finished = s.finished /\ t.late = s.late
        /\ t.timed_out = s.timed_out /\ t.close_called = s.close_called
        /\ t.eof_read = s.eof_read
    BY <1>1, Zenon DEF Session
  <2> HIDE DEF t
  <2>7. Good(t)
    BY <2>3, <2>5, <2>6
    DEF Good, Sound, NotStarted, Started, Graceful, TimerIsForClose, EofOrder,
        Alive, Quiet
  <2>8. QED
    BY <2>4, <2>7, Zenon
<1>5. QED
  BY <1>3, <1>4

-----------------------------------------------------------------------------
(* Packets, and start() by the client's packets.                           *)

(* The session has not finished, or packets were on their way when it did. *)
MayRestart(s) == ~ s.finished \/ s.late

LEMMA StartInGood ==
  ASSUME NEW s, Sound(s), MayRestart(s), NEW t \in StartIn(s)
  PROVE  Good(t)
<1> DEFINE r == [s EXCEPT !.running = TRUE]
<1>1. s \in Session
  BY DEF Sound
<1>2. r \in Session
  BY <1>1, Zenon DEF Session
<1>3. /\ r.running = TRUE
      /\ r.pending_eof = s.pending_eof
      /\ r.send_queue_timer = s.send_queue_timer
      /\ r.send_queue_ready = s.send_queue_ready /\ r.unread = s.unread
      /\ r.eof_stored = s.eof_stored /\ r.packets = s.packets
      /\ r.close_timer = s.close_timer /\ r.closer = s.closer
      /\ r.my_eof = s.my_eof /\ r.my_final = s.my_final
      /\ r.their_final = s.their_final /\ r.lower_open = s.lower_open
      /\ r.finished = s.finished /\ r.late = s.late
      /\ r.timed_out = s.timed_out /\ r.close_called = s.close_called
      /\ r.eof_read = s.eof_read
  BY <1>1, Zenon DEF Session
<1>4. t \in HandleProcessSendQueue(r)
  BY Zenon DEF StartIn
<1> HIDE DEF r
<1>5. Sound(r) /\ Started(r) /\ Quiet(r)
  BY <1>2, <1>3
  DEF Sound, NotStarted, Started, Graceful, TimerIsForClose, EofOrder, Quiet,
      MayRestart
<1>6. QED
  BY <1>4, <1>5, SendQueueGood, Zenon

LEMMA TakePacketGood ==
  ASSUME NEW s, Good(s), NEW packet \in s.packets
  PROVE  LET t == [s EXCEPT !.packets = @ \ {packet}]
         IN  /\ Good(t) /\ MayRestart(t)
             /\ packet = "ack" => t.my_eof
<1> DEFINE q == s.packets \ {packet}
           t == [s EXCEPT !.packets = q]
<1>1. s \in Session
  BY DEF Good, Sound
<1>2. q \in SUBSET Packets /\ q \subseteq s.packets
  BY <1>1, FieldTypes
<1> HIDE DEF q
<1>3. t \in Session
  BY <1>1, <1>2, Zenon DEF Session
<1>4. /\ t.packets = q
      /\ t.running = s.running /\ t.pending_eof = s.pending_eof
      /\ t.send_queue_timer = s.send_queue_timer
      /\ t.send_queue_ready = s.send_queue_ready /\ t.unread = s.unread
      /\ t.eof_stored = s.eof_stored /\ t.close_timer = s.close_timer
      /\ t.closer = s.closer /\ t.my_eof = s.my_eof
      /\ t.my_final = s.my_final /\ t.their_final = s.their_final
      /\ t.lower_open = s.lower_open /\ t.finished = s.finished
      /\ t.late = s.late /\ t.timed_out = s.timed_out
      /\ t.close_called = s.close_called /\ t.eof_read = s.eof_read
  BY <1>1, Zenon DEF Session
<1> HIDE DEF t
<1>5. /\ Good(t) /\ MayRestart(t)
      /\ packet = "ack" => t.my_eof
  BY <1>2, <1>3, <1>4
  DEF Good, Sound, NotStarted, Started, Graceful, TimerIsForClose, EofOrder,
      Alive, Quiet, MayRestart
<1>6. QED
  BY <1>5, Zenon DEF t, q

LEMMA PutGood ==
  ASSUME NEW s, Good(s), MayRestart(s)
  PROVE  Good(Put(s)) /\ MayRestart(Put(s))
<1> DEFINE n == s.unread + 1
           w == Woken(s.reader)
           t == [s EXCEPT !.unread = n, !.reader = w]
<1>1. s \in Session
  BY DEF Good, Sound
<1>2. CASE s.pending_eof \/ s.unread = MaxUnread
  <2>1. Put(s) = s
    BY <1>2, Zenon DEF Put, RecvmarkqIsFull
  <2>2. QED
    BY <2>1
<1>3. CASE ~ (s.pending_eof \/ s.unread = MaxUnread)
  <2>1. n \in 0 .. MaxUnread
    BY <1>1, <1>3, FieldTypes, LifeAssumption
  <2>2. w \in OpStates
    BY <1>1, FieldTypes, Wakes
  <2>3. Put(s) = t
    BY <1>3, Zenon DEF Put, RecvmarkqIsFull
  <2> HIDE DEF n, w
  <2>4. t \in Session
    BY <1>1, <2>1, <2>2, Zenon DEF Session
  <2>5. /\ t.unread = n
        /\ t.running = s.running /\ t.pending_eof = s.pending_eof
        /\ t.send_queue_timer = s.send_queue_timer
        /\ t.send_queue_ready = s.send_queue_ready
        /\ t.eof_stored = s.eof_stored /\ t.packets = s.packets
        /\ t.close_timer = s.close_timer /\ t.closer = s.closer
        /\ t.my_eof = s.my_eof /\ t.my_final = s.my_final
        /\ t.their_final = s.their_final /\ t.lower_open = s.lower_open
        /\ t.finished = s.finished /\ t.late = s.late
        /\ t.timed_out = s.timed_out /\ t.close_called = s.close_called
        /\ t.eof_read = s.eof_read
    BY <1>1, Zenon DEF Session
  <2> HIDE DEF t
  <2>6. Good(t) /\ MayRestart(t)
    BY <2>4, <2>5
    DEF Good, Sound, NotStarted, Started, Graceful, TimerIsForClose, EofOrder,
        Alive, Quiet, MayRestart
  <2>7. QED
    BY <2>3, <2>6, Zenon
<1>4. QED
  BY <1>2, <1>3

LEMMA PutEofGood ==
  ASSUME NEW s, Good(s), MayRestart(s)
  PROVE  Good(PutEof(s)) /\ MayRestart(PutEof(s))
<1> DEFINE w == IF s.pending_eof THEN s.reader ELSE Woken(s.reader)
           t == [s EXCEPT !.eof_stored = TRUE, !.reader = w]
<1>1. s \in Session
  BY DEF Good, Sound
<1>2. w \in OpStates
  BY <1>1, FieldTypes, Wakes
<1>3. PutEof(s) = t
  BY Zenon DEF PutEof
<1> HIDE DEF w
<1>4. t \in Session
  BY <1>1, <1>2, Zenon DEF Session
<1>5. /\ t.eof_stored = TRUE
      /\ t.running = s.running /\ t.pending_eof = s.pending_eof
      /\ t.send_queue_timer = s.send_queue_timer
      /\ t.send_queue_ready = s.send_queue_ready /\ t.unread = s.unread
      /\ t.packets = s.packets /\ t.close_timer = s.close_timer
      /\ t.closer = s.closer /\ t.my_eof = s.my_eof
      /\ t.my_final = s.my_final /\ t.their_final = s.their_final
      /\ t.lower_open = s.lower_open /\ t.finished = s.finished
      /\ t.late = s.late /\ t.timed_out = s.timed_out
      /\ t.close_called = s.close_called /\ t.eof_read = s.eof_read
  BY <1>1, Zenon DEF Session
<1> HIDE DEF t
<1>6. Good(t) /\ MayRestart(t)
  BY <1>4, <1>5
  DEF Good, Sound, NotStarted, Started, Graceful, TimerIsForClose, EofOrder,
      Alive, Quiet, MayRestart
<1>7. QED
  BY <1>3, <1>6, Zenon

LEMMA FinalGood ==
  ASSUME NEW s, Good(s), MayRestart(s), s.my_eof
  PROVE  /\ Good([s EXCEPT !.my_final = TRUE])
         /\ MayRestart([s EXCEPT !.my_final = TRUE])
<1> DEFINE t == [s EXCEPT !.my_final = TRUE]
<1>1. s \in Session
  BY DEF Good, Sound
<1>2. t \in Session
  BY <1>1, Zenon DEF Session
<1>3. /\ t.my_final = TRUE
      /\ t.running = s.running /\ t.pending_eof = s.pending_eof
      /\ t.send_queue_timer = s.send_queue_timer
      /\ t.send_queue_ready = s.send_queue_ready /\ t.unread = s.unread
      /\ t.eof_stored = s.eof_stored /\ t.packets = s.packets
      /\ t.close_timer = s.close_timer /\ t.closer = s.closer
      /\ t.my_eof = s.my_eof /\ t.their_final = s.their_final
      /\ t.lower_open = s.lower_open /\ t.finished = s.finished
      /\ t.late = s.late /\ t.timed_out = s.timed_out
      /\ t.close_called = s.close_called /\ t.eof_read = s.eof_read
  BY <1>1, Zenon DEF Session
<1> HIDE DEF t
<1>4. Good(t) /\ MayRestart(t)
  BY <1>2, <1>3
  DEF Good, Sound, NotStarted, Started, Graceful, TimerIsForClose, EofOrder,
      Alive, Quiet, MayRestart
<1>5. QED
  BY <1>4, Zenon DEF t

LEMMA MessagerRecvGood ==
  ASSUME NEW s, Good(s), MayRestart(s), NEW packet \in Packets,
         packet = "ack" => s.my_eof, NEW t \in MessagerRecv(s, packet)
  PROVE  Good(t) /\ MayRestart(t)
<1>1. \/ packet = "data" /\ t \in {Put(s), s}
      \/ packet = "eof" /\ t \in {PutEof(s), s}
      \/ packet = "ack" /\ t = [s EXCEPT !.my_final = TRUE]
      \/ packet = "cookie" /\ t = s
  BY DEF MessagerRecv, Packets
<1>2. CASE packet = "data" /\ t \in {Put(s), s}
  BY <1>2, PutGood, Zenon
<1>3. CASE packet = "eof" /\ t \in {PutEof(s), s}
  BY <1>3, PutEofGood, Zenon
<1>4. CASE packet = "ack" /\ t = [s EXCEPT !.my_final = TRUE]
  BY <1>4, FinalGood, Zenon
<1>5. CASE packet = "cookie" /\ t = s
  BY <1>5
<1>6. QED
  BY <1>1, <1>2, <1>3, <1>4, <1>5

LEMMA LowerReceiveGood ==
  ASSUME NEW s, Good(s), NEW packet \in s.packets,
         NEW t \in LowerReceive(s, packet)
  PROVE  Good(t)
<1> DEFINE r == [s EXCEPT !.packets = @ \ {packet}]
<1>1. packet \in Packets
  BY FieldTypes DEF Good, Sound
<1>2. Good(r) /\ MayRestart(r) /\ (packet = "ack" => r.my_eof)
  BY TakePacketGood, Zenon
<1>3. CASE t \in MessagerRecv(r, packet)
  BY <1>1, <1>2, <1>3, MessagerRecvGood, Zenon
<1>4. CASE t \in UNION {StartIn(q) : q \in MessagerRecv(r, packet)}
  <2>1. PICK q \in MessagerRecv(r, packet) : t \in StartIn(q)
    BY <1>4, Zenon
  <2>2. Good(q) /\ MayRestart(q)
    BY <1>1, <1>2, MessagerRecvGood, Zenon
  <2>3. QED
    BY <2>1, <2>2, StartInGood, Zenon DEF Good
<1>5. CASE t = r
  BY <1>2, <1>5
<1>6. QED
  BY <1>3, <1>4, <1>5, Zenon DEF LowerReceive

-----------------------------------------------------------------------------
(* The other actions.                                                      *)
LEMMA InitGood == Init => LifeInv
<1> SUFFICES ASSUME NEW type \in {"client", "server"}
             PROVE  Good(NewSession(type))
  BY Zenon DEF Init, LifeInv
<1> DEFINE t == NewSession(type)
<1>1. "idle" \in OpStates /\ {} \in SUBSET Packets
  BY DEF OpStates
<1>2. t \in Session
  BY <1>1, Zeros, Zenon DEF Session, NewSession
<1>3. /\ t.running = FALSE /\ t.pending_eof = FALSE
      /\ t.send_queue_timer = FALSE /\ t.send_queue_ready = 0
      /\ t.packets = {} /\ t.close_timer = "off" /\ t.closer = "idle"
      /\ t.my_eof = FALSE /\ t.my_final = FALSE /\ t.finished = FALSE
      /\ t.timed_out = FALSE
  BY Zenon DEF NewSession
<1> HIDE DEF t
<1>4. Good(t)
  BY <1>2, <1>3
  DEF Good, Sound, NotStarted, Started, Graceful, TimerIsForClose, EofOrder,
      Alive, Quiet
<1>5. QED
  BY <1>4, Zenon DEF t

LEMMA StartGood ==
  ASSUME NEW s, Good(s), ~ Started(s)
  PROVE  Good([s EXCEPT !.running = TRUE, !.send_queue_ready = @ + 1])
<1> DEFINE n == s.send_queue_ready + 1
           t == [s EXCEPT !.running = TRUE, !.send_queue_ready = n]
<1>1. s \in Session
  BY DEF Good, Sound
<1>2. n \in 0 .. MaxReady /\ n > 0
  BY LifeAssumption DEF Good, Sound, NotStarted
<1> HIDE DEF n
<1>3. t \in Session
  BY <1>1, <1>2, Zenon DEF Session
<1>4. /\ t.running = TRUE /\ t.send_queue_ready = n
      /\ t.pending_eof = s.pending_eof
      /\ t.send_queue_timer = s.send_queue_timer /\ t.unread = s.unread
      /\ t.eof_stored = s.eof_stored /\ t.packets = s.packets
      /\ t.close_timer = s.close_timer /\ t.closer = s.closer
      /\ t.my_eof = s.my_eof /\ t.my_final = s.my_final
      /\ t.their_final = s.their_final /\ t.lower_open = s.lower_open
      /\ t.finished = s.finished /\ t.late = s.late
      /\ t.timed_out = s.timed_out /\ t.close_called = s.close_called
      /\ t.eof_read = s.eof_read
  BY <1>1, Zenon DEF Session
<1> HIDE DEF t
<1>5. Good(t)
  BY <1>2, <1>3, <1>4
  DEF Good, Sound, NotStarted, Started, Graceful, TimerIsForClose, EofOrder,
      Alive, Quiet
<1>6. QED
  BY <1>5, Zenon DEF t, n

LEMMA CloseCalledGood ==
  ASSUME NEW s, Good(s)
  PROVE  /\ Good([s EXCEPT !.close_called = TRUE])
         /\ [s EXCEPT !.close_called = TRUE].close_called
<1> DEFINE t == [s EXCEPT !.close_called = TRUE]
<1>1. s \in Session
  BY DEF Good, Sound
<1>2. t \in Session
  BY <1>1, Zenon DEF Session
<1>3. /\ t.close_called = TRUE
      /\ t.running = s.running /\ t.pending_eof = s.pending_eof
      /\ t.send_queue_timer = s.send_queue_timer
      /\ t.send_queue_ready = s.send_queue_ready /\ t.unread = s.unread
      /\ t.eof_stored = s.eof_stored /\ t.packets = s.packets
      /\ t.close_timer = s.close_timer /\ t.closer = s.closer
      /\ t.my_eof = s.my_eof /\ t.my_final = s.my_final
      /\ t.their_final = s.their_final /\ t.lower_open = s.lower_open
      /\ t.finished = s.finished /\ t.late = s.late
      /\ t.timed_out = s.timed_out /\ t.eof_read = s.eof_read
  BY <1>1, Zenon DEF Session
<1> HIDE DEF t
<1>4. Good(t) /\ t.close_called
  BY <1>2, <1>3
  DEF Good, Sound, NotStarted, Started, Graceful, TimerIsForClose, EofOrder,
      Alive, Quiet
<1>5. QED
  BY <1>4, Zenon DEF t

(* The handler of the send queue timer has been taken: its turn follows.   *)
LEMMA ReadyTaken ==
  ASSUME NEW s, Good(s), s.send_queue_ready > 0
  PROVE  LET t == [s EXCEPT !.send_queue_ready = @ - 1]
         IN  Sound(t) /\ Started(t) /\ Quiet(t)
<1> DEFINE n == s.send_queue_ready - 1
           t == [s EXCEPT !.send_queue_ready = n]
<1>1. s \in Session
  BY DEF Good, Sound
<1>2. n \in 0 .. MaxReady
  BY <1>1, FieldTypes, LifeAssumption
<1> HIDE DEF n
<1>3. t \in Session
  BY <1>1, <1>2, Zenon DEF Session
<1>4. /\ t.send_queue_ready = n
      /\ t.running = s.running /\ t.pending_eof = s.pending_eof
      /\ t.send_queue_timer = s.send_queue_timer /\ t.unread = s.unread
      /\ t.eof_stored = s.eof_stored /\ t.packets = s.packets
      /\ t.close_timer = s.close_timer /\ t.closer = s.closer
      /\ t.my_eof = s.my_eof /\ t.my_final = s.my_final
      /\ t.their_final = s.their_final /\ t.lower_open = s.lower_open
      /\ t.finished = s.finished /\ t.late = s.late
      /\ t.timed_out = s.timed_out /\ t.close_called = s.close_called
      /\ t.eof_read = s.eof_read
  BY <1>1, Zenon DEF Session
<1>5. Started(s)
  BY <1>1, FieldTypes DEF Good, Sound, NotStarted
<1> HIDE DEF t
<1>6. Sound(t) /\ Started(t) /\ Quiet(t)
  BY <1>3, <1>4, <1>5
  DEF Good, Sound, NotStarted, Started, Graceful, TimerIsForClose, EofOrder,
      Alive, Quiet
<1>7. QED
  BY <1>6, Zenon DEF t, n

LEMMA CloseTimerTaken ==
  ASSUME NEW s, Good(s), s.close_timer = "ready"
  PROVE  LET t == [s EXCEPT !.close_timer = "off"]
         IN  Sound(t) /\ t.timed_out
<1> DEFINE t == [s EXCEPT !.close_timer = "off"]
<1>1. s \in Session
  BY DEF Good, Sound
<1>2. t \in Session
  BY <1>1, Zenon DEF Session
<1>3. /\ t.close_timer = "off"
      /\ t.running = s.running /\ t.pending_eof = s.pending_eof
      /\ t.send_queue_timer = s.send_queue_timer
      /\ t.send_queue_ready = s.send_queue_ready /\ t.unread = s.unread
      /\ t.eof_stored = s.eof_stored /\ t.packets = s.packets
      /\ t.closer = s.closer /\ t.my_eof = s.my_eof
      /\ t.my_final = s.my_final /\ t.their_final = s.their_final
      /\ t.lower_open = s.lower_open /\ t.finished = s.finished
      /\ t.late = s.late /\ t.timed_out = s.timed_out
      /\ t.close_called = s.close_called /\ t.eof_read = s.eof_read
  BY <1>1, Zenon DEF Session
<1> HIDE DEF t
<1>4. Sound(t) /\ t.timed_out
  BY <1>2, <1>3
  DEF Good, Sound, NotStarted, Started, Graceful, TimerIsForClose, EofOrder,
      Alive, Quiet
<1>5. QED
  BY <1>4, Zenon DEF t

LEMMA SendQueueTimeoutGood ==
  ASSUME NEW s, Good(s), s.send_queue_timer, s.send_queue_ready < MaxReady
  PROVE  Good([s EXCEPT !.send_queue_timer = FALSE,
                        !.send_queue_ready = @ + 1])
<1> DEFINE n == s.send_queue_ready + 1
           t == [s EXCEPT !.send_queue_timer = FALSE, !.send_queue_ready = n]
<1>1. s \in Session
  BY DEF Good, Sound
<1>2. n \in 0 .. MaxReady /\ n > 0
  BY <1>1, FieldTypes, LifeAssumption
<1> HIDE DEF n
<1>3. t \in Session
  BY <1>1, <1>2, Zenon DEF Session
<1>4. /\ t.send_queue_timer = FALSE /\ t.send_queue_ready = n
      /\ t.running = s.running /\ t.pending_eof = s.pending_eof
      /\ t.unread = s.unread /\ t.eof_stored = s.eof_stored
      /\ t.packets = s.packets /\ t.close_timer = s.close_timer
      /\ t.closer = s.closer /\ t.my_eof = s.my_eof
      /\ t.my_final = s.my_final /\ t.their_final = s.their_final
      /\ t.lower_open = s.lower_open /\ t.finished = s.finished
      /\ t.late = s.late /\ t.timed_out = s.timed_out
      /\ t.close_called = s.close_called /\ t.eof_read = s.eof_read
  BY <1>1, Zenon DEF Session
<1> HIDE DEF t
<1>5. Good(t)
  BY <1>2, <1>3, <1>4
  DEF Good, Sound, NotStarted, Started, Graceful, TimerIsForClose, EofOrder,
      Alive, Quiet
<1>6. QED
  BY <1>5, Zenon DEF t, n

LEMMA CloseTimeoutGood ==
  ASSUME NEW s, Good(s), s.close_timer = "waiting"
  PROVE  Good([s EXCEPT !.close_timer = "ready", !.timed_out = TRUE])
<1> DEFINE t == [s EXCEPT !.close_timer = "ready", !.timed_out = TRUE]
<1>1. s \in Session
  BY DEF Good, Sound
<1>2. t \in Session
  BY <1>1, Zenon DEF Session
<1>3. /\ t.close_timer = "ready" /\ t.timed_out = TRUE
      /\ t.running = s.running /\ t.pending_eof = s.pending_eof
      /\ t.send_queue_timer = s.send_queue_timer
      /\ t.send_queue_ready = s.send_queue_ready /\ t.unread = s.unread
      /\ t.eof_stored = s.eof_stored /\ t.packets = s.packets
      /\ t.closer = s.closer /\ t.my_eof = s.my_eof
      /\ t.my_final = s.my_final /\ t.their_final = s.their_final
      /\ t.lower_open = s.lower_open /\ t.finished = s.finished
      /\ t.late = s.late /\ t.close_called = s.close_called
      /\ t.eof_read = s.eof_read
  BY <1>1, Zenon DEF Session
<1> HIDE DEF t
<1>4. Good(t)
  BY <1>2, <1>3
  DEF Good, Sound, NotStarted, Started, Graceful, TimerIsForClose, EofOrder,
      Alive, Quiet
<1>5. QED
  BY <1>4, Zenon DEF t

LEMMA PacketGood ==
  ASSUME NEW s, Good(s), s.lower_open, NEW packet \in Packets,
         packet = "ack" => s.my_eof
  PROVE  Good([s EXCEPT !.packets = @ \cup {packet}])
<1> DEFINE q == s.packets \cup {packet}
           t == [s EXCEPT !.packets = q]
<1>1. s \in Session
  BY DEF Good, Sound
<1>2. q \in SUBSET Packets /\ ("ack" \in q => s.my_eof \/ "ack" \in s.packets)
  BY <1>1, FieldTypes
<1> HIDE DEF q
<1>3. t \in Session
  BY <1>1, <1>2, Zenon DEF Session
<1>4. /\ t.packets = q
      /\ t.running = s.running /\ t.pending_eof = s.pending_eof
      /\ t.send_queue_timer = s.send_queue_timer
      /\ t.send_queue_ready = s.send_queue_ready /\ t.unread = s.unread
      /\ t.eof_stored = s.eof_stored /\ t.close_timer = s.close_timer
      /\ t.closer = s.closer /\ t.my_eof = s.my_eof
      /\ t.my_final = s.my_final /\ t.their_final = s.their_final
      /\ t.lower_open = s.lower_open /\ t.finished = s.finished
      /\ t.late = s.late /\ t.timed_out = s.timed_out
      /\ t.close_called = s.close_called /\ t.eof_read = s.eof_read
  BY <1>1, Zenon DEF Session
<1> HIDE DEF t
<1>5. Good(t)
  BY <1>2, <1>3, <1>4
  DEF Good, Sound, NotStarted, Started, Graceful, TimerIsForClose, EofOrder,
      Alive, Quiet
<1>6. QED
  BY <1>5, Zenon DEF t, q

LEMMA TheirFinalGood ==
  ASSUME NEW s, Good(s)
  PROVE  Good([s EXCEPT !.their_final = TRUE])
<1> DEFINE t == [s EXCEPT !.their_final = TRUE]
<1>1. s \in Session
  BY DEF Good, Sound
<1>2. t \in Session
  BY <1>1, Zenon DEF Session
<1>3. /\ t.their_final = TRUE
      /\ t.running = s.running /\ t.pending_eof = s.pending_eof
      /\ t.send_queue_timer = s.send_queue_timer
      /\ t.send_queue_ready = s.send_queue_ready /\ t.unread = s.unread
      /\ t.eof_stored = s.eof_stored /\ t.packets = s.packets
      /\ t.close_timer = s.close_timer /\ t.closer = s.closer
      /\ t.my_eof = s.my_eof /\ t.my_final = s.my_final
      /\ t.lower_open = s.lower_open /\ t.finished = s.finished
      /\ t.late = s.late /\ t.timed_out = s.timed_out
      /\ t.close_called = s.close_called /\ t.eof_read = s.eof_read
  BY <1>1, Zenon DEF Session
<1> HIDE DEF t
<1>4. Good(t)
  BY <1>2, <1>3
  DEF Good, Sound, NotStarted, Started, Graceful, TimerIsForClose, EofOrder,
      Alive, Quiet
<1>5. QED
  BY <1>4, Zenon DEF t

-----------------------------------------------------------------------------
LEMMA NextGood == LifeInv /\ [Next]_session => LifeInv'
<1> SUFFICES ASSUME Good(session), [Next]_session PROVE Good(session')
  BY DEF LifeInv
<1>1. CASE Start
  BY <1>1, StartGood, Zenon DEF Start
<1>2. CASE Read \/ RetryRead
  BY <1>2, TryReadGood, Zenon DEF Read, RetryRead
<1>3. CASE Write \/ RetryWrite
  BY <1>3, TryWriteGood, Zenon DEF Write, RetryWrite
<1>4. CASE AsyncClose
  BY <1>4, CloseCalledGood, CloseGood, Zenon DEF AsyncClose
<1>5. CASE RetryClose
  <2>1. session.close_called
    <3>1. session.closer # "idle"
      BY <1>5 DEF RetryClose
    <3>2. QED
      BY <3>1, Zenon DEF Good, Sound, TimerIsForClose
  <2>2. QED
    BY <1>5, <2>1, CloseGood, Zenon DEF RetryClose
<1>6. CASE RunSendQueue
  BY <1>6, ReadyTaken, SendQueueGood, Zenon DEF RunSendQueue
<1>7. CASE RunCloseTimeout
  BY <1>7, CloseTimerTaken, DoCloseGood, Zenon DEF RunCloseTimeout
<1>8. CASE SendQueueTimeout
  BY <1>8, SendQueueTimeoutGood, Zenon DEF SendQueueTimeout
<1>9. CASE CloseTimeout
  BY <1>9, CloseTimeoutGood, Zenon DEF CloseTimeout
<1>10. ASSUME NEW packet \in Packets, Receive(packet)
       PROVE  Good(session')
  BY <1>10, PacketGood, Zenon DEF Receive
<1>11. ASSUME NEW packet \in Packets, Process(packet)
       PROVE  Good(session')
  BY <1>11, LowerReceiveGood, Zenon DEF Process
<1>12. CASE AckTheirEof
  BY <1>12, TheirFinalGood, Zenon DEF AckTheirEof
<1>13. CASE UNCHANGED session
  BY <1>13, Zenon
<1>14. QED
  BY <1>1, <1>2, <1>3, <1>4, <1>5, <1>6, <1>7, <1>8, <1>9, <1>10, <1>11,
     <1>12, <1>13, Zenon DEF Next

(* The inductive invariant holds in every behaviour.                       *)
THEOREM LifeInvariant == Spec => []LifeInv
  BY InitGood, NextGood, PTL DEF Spec

(* Every field keeps its type and bound, whatever the limits are.          *)
THEOREM LifeTypeCorrect == Spec => []TypeOK
<1>1. LifeInv => TypeOK
  BY Zenon DEF LifeInv, Good, Sound, TypeOK
<1>2. QED
  BY <1>1, LifeInvariant, PTL

(* A running session always has the next turn of its send queue coming:    *)
(* the timer that handle_process_send_queue(), write() and close() cancel  *)
(* is armed again (session.ipp:93-111, 170, 310-311).                      *)
THEOREM SendQueueKept == Spec => []SendQueueAlive
<1>1. LifeInv => SendQueueAlive
  BY Zenon DEF LifeInv, Good, Alive, SendQueueAlive
<1>2. QED
  BY <1>1, LifeInvariant, PTL

(* Without close() a session ends only after its application has read the  *)
(* peer's EOF (session.ipp:237-238).                                       *)
THEOREM ReadFirst == Spec => []ReadBeforeFinished
<1>1. LifeInv => ReadBeforeFinished
  BY Zenon
  DEF LifeInv, Good, Sound, Graceful, TimerIsForClose, EofOrder,
      ReadBeforeFinished
<1>2. QED
  BY <1>1, LifeInvariant, PTL

(* Only packets that were on their way start a finished session again, or  *)
(* store something in it (session.ipp:124-143, 187).                       *)
THEOREM EndsOnce == Spec => []FinishedStaysFinished
<1>1. LifeInv => FinishedStaysFinished
  BY Zenon DEF LifeInv, Good, Quiet, FinishedStaysFinished
<1>2. QED
  BY <1>1, LifeInvariant, PTL
-----------------------------------------------------------------------------
(* What a step does, for a reader on the other side of the connection: a   *)
(* composition of sessions needs the causes of what it sees, not the       *)
(* functions.  s is the session before the step and t after it.            *)

(* What has happened is not undone.                                        *)
Forward(s, t) ==
  /\ t.type = s.type
  /\ Started(s) => Started(t)
  /\ s.finished => t.finished
  /\ s.timed_out => t.timed_out
  /\ s.close_called => t.close_called
  /\ s.eof_read => t.eof_read
  /\ s.my_eof => t.my_eof
  /\ s.my_final => t.my_final
  /\ s.their_final => t.their_final
  /\ t.lower_open => s.lower_open

(* Nothing happens without its cause.                                      *)
Caused(s, t) ==
  /\ t.pending_eof => s.pending_eof \/ t.close_called \/ t.eof_read
  /\ t.my_eof => s.my_eof \/ s.pending_eof \/ t.close_called
  /\ t.my_final => s.my_final \/ "ack" \in s.packets
  /\ t.eof_read =>
       s.eof_read \/ (s.eof_stored /\ t.unread = 0 /\ t.pending_eof)
  /\ t.eof_stored => s.eof_stored \/ "eof" \in s.packets
  /\ t.their_final => s.their_final \/ s.eof_stored
  /\ t.finished /\ ~ s.finished =>
       ~ t.lower_open /\ (t.timed_out => s.timed_out)
  /\ ~ t.lower_open =>
       ~ s.lower_open \/ t.finished \/ (t.close_called /\ ~ s.running)

(* Until it finishes, a session passes on what it has been given: it sends *)
(* block by block, its EOF after them, and takes no more after its EOF.    *)
Sends(s, t) ==
  ~ t.finished =>
    /\ \/ t.pending_used = s.pending_used
       \/ s.pending_used > 0 /\ t.pending_used = s.pending_used - 1
    /\ s.pending_eof => t.pending_eof
    /\ t.my_eof => s.my_eof \/ (t.pending_eof /\ t.pending_used = 0)

(* What is stored for the application stays until it is read.              *)
Stores(s, t) ==
  /\ t.eof_read => s.eof_read
  /\ t.unread = s.unread \/ (t.finished /\ t.unread = 0)

SameCalls(s, t) == t.close_called => s.close_called

(* A step that concerns neither the application nor the network.           *)
Internal(s, t) ==
  /\ Forward(s, t) /\ Caused(s, t) /\ Sends(s, t) /\ Stores(s, t)
  /\ SameCalls(s, t) /\ t.packets = s.packets
  /\ t.eof_stored => s.eof_stored

SameEvents(s, t) ==
  /\ t.type = s.type /\ t.finished = s.finished
  /\ t.lower_open = s.lower_open /\ t.timed_out = s.timed_out
  /\ t.my_final = s.my_final /\ t.their_final = s.their_final

SameBytes(s, t) ==
  /\ t.pending_eof = s.pending_eof /\ t.pending_used = s.pending_used
  /\ t.unread = s.unread /\ t.eof_stored = s.eof_stored
  /\ t.eof_read = s.eof_read /\ t.packets = s.packets

LEMMA Unmoved ==
  ASSUME NEW s, NEW t, SameEvents(s, t), SameBytes(s, t),
         t.my_eof = s.my_eof, t.close_called = s.close_called,
         Started(s) => Started(t)
  PROVE  Internal(s, t)
  BY DEF SameEvents, SameBytes, Internal, Forward, Caused, Sends, Stores,
         SameCalls

(* do_close() ends the session whatever it held.                           *)
LEMMA DoCloseDone ==
  ASSUME NEW s \in Session
  PROVE  LET t == DoClose(s)
         IN  /\ t.finished = TRUE /\ t.lower_open = FALSE
             /\ t.pending_eof = FALSE /\ t.unread = 0 /\ t.eof_stored = FALSE
             /\ t.type = s.type /\ t.packets = s.packets
             /\ t.timed_out = s.timed_out /\ t.close_called = s.close_called
             /\ t.eof_read = s.eof_read /\ t.my_eof = s.my_eof
             /\ t.my_final = s.my_final /\ t.their_final = s.their_final
<1> DEFINE c == CleanUp(s)
           t == [c EXCEPT !.lower_open = FALSE, !.closer = Woken(@)]
<1>1. /\ c \in Session
      /\ c.finished = TRUE /\ c.pending_eof = FALSE /\ c.unread = 0
      /\ c.eof_stored = FALSE /\ c.packets = s.packets
      /\ c.timed_out = s.timed_out /\ c.close_called = s.close_called
      /\ c.eof_read = s.eof_read /\ c.my_eof = s.my_eof
      /\ c.my_final = s.my_final /\ c.their_final = s.their_final
  BY CleanUpFields, Zenon
<1>2. c.type = s.type
  BY Zenon DEF Session, CleanUp
<1>3. DoClose(s) = t
  BY Zenon DEF DoClose
<1> HIDE DEF c
<1>4. /\ t.lower_open = FALSE
      /\ t.finished = c.finished /\ t.pending_eof = c.pending_eof
      /\ t.unread = c.unread /\ t.eof_stored = c.eof_stored
      /\ t.type = c.type /\ t.packets = c.packets
      /\ t.timed_out = c.timed_out /\ t.close_called = c.close_called
      /\ t.eof_read = c.eof_read /\ t.my_eof = c.my_eof
      /\ t.my_final = c.my_final /\ t.their_final = c.their_final
  BY <1>1, Zenon DEF Session
<1> HIDE DEF t
<1>5. QED
  BY <1>1, <1>2, <1>3, <1>4, Zenon

(* A turn of the send queue sends at most a block or the EOF, and ends the *)
(* session or leaves the rest as it was.                                   *)
Turn(s, t) ==
  /\ t.type = s.type /\ t.packets = s.packets /\ t.timed_out = s.timed_out
  /\ t.close_called = s.close_called /\ t.eof_read = s.eof_read
  /\ t.my_final = s.my_final /\ t.their_final = s.their_final
  /\ s.my_eof => t.my_eof
  /\ t.my_eof => s.my_eof \/ s.pending_eof
  /\ \/ /\ t.finished = TRUE /\ t.lower_open = FALSE /\ t.unread = 0
        /\ t.pending_eof = FALSE /\ t.eof_stored = FALSE
     \/ /\ SameEvents(s, t) /\ t.running = s.running
        /\ t.pending_eof = s.pending_eof /\ t.unread = s.unread
        /\ t.eof_stored = s.eof_stored
        /\ \/ t.pending_used = s.pending_used
           \/ s.pending_used > 0 /\ t.pending_used = s.pending_used - 1
        /\ t.my_eof => s.my_eof \/ t.pending_used = 0

LEMMA ProcessSendqTurn ==
  ASSUME NEW s \in Session, NEW t \in ProcessSendq(s)
  PROVE  /\ t \in Session /\ SameEvents(s, t)
         /\ t.packets = s.packets /\ t.close_called = s.close_called
         /\ t.eof_read = s.eof_read /\ t.running = s.running
         /\ t.pending_eof = s.pending_eof
         /\ t.unread = s.unread /\ t.eof_stored = s.eof_stored
         /\ s.my_eof => t.my_eof
         /\ t.my_eof => s.my_eof \/ (s.pending_eof /\ t.pending_used = 0)
         /\ \/ t.pending_used = s.pending_used
            \/ s.pending_used > 0 /\ t.pending_used = s.pending_used - 1
<1>1. \/ t = s
      \/ t = SendsBlock(s) /\ s.pending_used > 0
      \/ /\ t = SendsEof(s) /\ s.pending_used \in 0 .. MaxPending
         /\ ~ (s.pending_used > 0) /\ s.pending_eof
  BY FieldTypes DEF ProcessSendq
<1>2. CASE t = s
  BY <1>2, Zenon DEF SameEvents
<1>3. CASE t = SendsBlock(s) /\ s.pending_used > 0
  <2> DEFINE n == s.pending_used - 1
             w == Woken(s.writer)
             e == s.my_eof \/ (s.pending_used = 1 /\ s.pending_eof)
             r == [s EXCEPT !.pending_used = n, !.writer = w, !.my_eof = e]
  <2>1. n \in 0 .. MaxPending /\ w \in OpStates
    BY <1>3, FieldTypes, Wakes, LifeAssumption
  <2>2. e \in BOOLEAN
    BY Zenon DEF Session
  <2>3. /\ s.my_eof => e
        /\ e => s.my_eof \/ (s.pending_eof /\ n = 0)
    BY FieldTypes
  <2>4. t = r
    BY <1>3, Zenon DEF SendsBlock
  <2>5. n = s.pending_used - 1
    OBVIOUS
  <2> HIDE DEF n, w, e
  <2>6. r \in Session
    BY <2>1, <2>2, Zenon DEF Session
  <2>7. /\ r.my_eof = e /\ r.pending_used = n /\ SameEvents(s, r)
        /\ r.packets = s.packets /\ r.close_called = s.close_called
        /\ r.eof_read = s.eof_read /\ r.running = s.running
        /\ r.pending_eof = s.pending_eof
        /\ r.unread = s.unread /\ r.eof_stored = s.eof_stored
    BY Zenon DEF Session, SameEvents
  <2> HIDE DEF r
  <2>8. QED
    BY <1>3, <2>3, <2>4, <2>5, <2>6, <2>7, Zenon
<1>4. CASE /\ t = SendsEof(s) /\ s.pending_used \in 0 .. MaxPending
           /\ ~ (s.pending_used > 0) /\ s.pending_eof
  <2> DEFINE r == SendsEof(s)
  <2>1. r \in Session
    BY Zenon DEF Session, SendsEof
  <2>2. /\ r.my_eof = TRUE /\ r.pending_used = s.pending_used
        /\ SameEvents(s, r)
        /\ r.packets = s.packets /\ r.close_called = s.close_called
        /\ r.eof_read = s.eof_read /\ r.running = s.running
        /\ r.pending_eof = s.pending_eof
        /\ r.unread = s.unread /\ r.eof_stored = s.eof_stored
    BY Zenon DEF Session, SameEvents, SendsEof
  <2>3. s.pending_used = 0
    BY <1>4, LifeAssumption
  <2>4. t = r /\ s.pending_eof
    BY <1>4
  <2> HIDE DEF r
  <2>5. QED
    BY <2>1, <2>2, <2>3, <2>4, Zenon
<1>5. QED
  BY <1>1, <1>2, <1>3, <1>4

LEMMA SendQueueTurn ==
  ASSUME NEW s \in Session, NEW t \in HandleProcessSendQueue(s)
  PROVE  Turn(s, t)
<1>1. PICK r \in ProcessSendq(s) :
        t = IF BothFinal(r) THEN DoClose(r) ELSE Reschedule(r)
  BY Zenon DEF HandleProcessSendQueue
<1>2. CASE t = DoClose(r)
  <2>1. /\ r \in Session /\ SameEvents(s, r)
        /\ r.packets = s.packets /\ r.close_called = s.close_called
        /\ r.eof_read = s.eof_read
        /\ s.my_eof => r.my_eof
        /\ r.my_eof => s.my_eof \/ s.pending_eof
    BY ProcessSendqTurn, Zenon
  <2> DEFINE d == DoClose(r)
  <2>2. /\ d.finished = TRUE /\ d.lower_open = FALSE
        /\ d.pending_eof = FALSE /\ d.unread = 0 /\ d.eof_stored = FALSE
        /\ d.type = r.type /\ d.packets = r.packets
        /\ d.timed_out = r.timed_out /\ d.close_called = r.close_called
        /\ d.eof_read = r.eof_read /\ d.my_eof = r.my_eof
        /\ d.my_final = r.my_final /\ d.their_final = r.their_final
    BY <2>1, DoCloseDone, Zenon
  <2>3. t = d
    BY <1>2
  <2> HIDE DEF d
  <2>4. QED
    BY <2>1, <2>2, <2>3, Zenon DEF Turn, SameEvents
<1>3. CASE t = Reschedule(r)
  <2>1. r \in Session
    BY ProcessSendqTurn
  <2>2. /\ SameEvents(r, t) /\ SameBytes(r, t)
        /\ t.my_eof = r.my_eof /\ t.close_called = r.close_called
        /\ t.running = r.running
    BY <1>3, <2>1, Zenon DEF Session, Reschedule, SameEvents, SameBytes
  <2>3. QED
    BY <2>2, ProcessSendqTurn, Zenon DEF Turn, SameEvents, SameBytes
<1>4. QED
  BY <1>1, <1>2, <1>3

LEMMA TurnIsInternal ==
  ASSUME NEW s \in Session, NEW t, Turn(s, t)
  PROVE  Internal(s, t)
<1>1. s.unread \in 0 .. MaxUnread /\ s.pending_used \in 0 .. MaxPending
  BY FieldTypes
<1>2. QED
  BY <1>1
  DEF Turn, SameEvents, Internal, Forward, Caused, Sends, Stores, SameCalls,
      Started

-----------------------------------------------------------------------------
(* The actions, by what they do for the other side.                        *)

(* start(), in the strand or outside, keeps what the session holds.        *)
LEMMA RunningStep ==
  ASSUME NEW s \in Session
  PROVE  LET t == [s EXCEPT !.running = TRUE]
         IN  /\ t \in Session /\ t.running = TRUE /\ SameEvents(s, t)
             /\ SameBytes(s, t) /\ t.my_eof = s.my_eof
             /\ t.close_called = s.close_called
  BY Zenon DEF Session, SameEvents, SameBytes

LEMMA StartInStep ==
  ASSUME NEW s \in Session, NEW t \in StartIn(s)
  PROVE  Internal(s, t) /\ (t.their_final => s.their_final)
<1> DEFINE r == [s EXCEPT !.running = TRUE]
<1>1. /\ r \in Session /\ r.running = TRUE /\ SameEvents(s, r)
      /\ SameBytes(s, r) /\ r.my_eof = s.my_eof
      /\ r.close_called = s.close_called
  BY RunningStep, Zenon
<1>2. t \in HandleProcessSendQueue(r)
  BY Zenon DEF StartIn
<1> HIDE DEF r
<1>3. Turn(r, t)
  BY <1>1, <1>2, SendQueueTurn
<1>4. QED
  BY <1>1, <1>3
  DEF Turn, SameEvents, SameBytes, Internal, Forward, Caused, Sends, Stores,
      SameCalls, Started

(* close(), called by the application or by its retry.                     *)
LEMMA CloseStep ==
  ASSUME NEW s, Good(s), s.close_called, NEW t \in Close(s)
  PROVE  Internal(s, t)
<1>1. s \in Session
  BY DEF Good, Sound
<1>2. CASE ~ s.running
  <2> DEFINE r == CloseNotRunning(s)
  <2>1. /\ r.lower_open = FALSE /\ r.type = s.type
        /\ r.running = s.running /\ r.finished = s.finished
        /\ r.timed_out = s.timed_out /\ r.my_final = s.my_final
        /\ r.their_final = s.their_final /\ SameBytes(s, r)
        /\ r.my_eof = s.my_eof /\ r.close_called = s.close_called
    BY <1>1, Zenon DEF Session, CloseNotRunning, SameBytes
  <2>2. t = r
    BY <1>2, Zenon DEF Close
  <2> HIDE DEF r
  <2>3. QED
    BY <1>2, <2>1, <2>2
    DEF SameBytes, Internal, Forward, Caused, Sends, Stores, SameCalls,
        Started
<1>3. CASE s.running /\ s.pending_close
  <2> DEFINE r == [s EXCEPT !.closer = "waiting"]
  <2>1. /\ SameEvents(s, r) /\ SameBytes(s, r) /\ r.my_eof = s.my_eof
        /\ r.close_called = s.close_called /\ r.running = s.running
    BY <1>1, Zenon DEF Session, SameEvents, SameBytes
  <2>2. t = r
    BY <1>3, Zenon DEF Close
  <2> HIDE DEF r
  <2>3. Started(s) => Started(t)
    BY <2>1, <2>2, Zenon DEF Started, SameEvents
  <2>4. QED
    BY <2>1, <2>2, <2>3, Unmoved
<1>4. CASE s.running /\ ~ s.pending_close
  <2> DEFINE c == Closing(s)
  <2>1. PICK r \in HandleProcessSendQueue(c) :
          t = IF r.running THEN StartCloseTimer(r)
              ELSE [r EXCEPT !.closer = "done"]
    BY <1>4, Zenon DEF Close
  <2>2. /\ c.pending_eof = TRUE /\ c.running = TRUE /\ SameEvents(s, c)
        /\ c.pending_used = s.pending_used /\ c.unread = s.unread
        /\ c.eof_stored = s.eof_stored /\ c.eof_read = s.eof_read
        /\ c.packets = s.packets /\ c.my_eof = s.my_eof
        /\ c.close_called = s.close_called
    BY <1>1, <1>4, ClosingGood, Zenon
    DEF Session, Closing, SameEvents
  <2>3. Sound(c) /\ Started(c) /\ Quiet(c)
    BY <1>4, ClosingGood, Zenon DEF Good, Started
  <2> HIDE DEF c
  <2>4. c \in Session /\ r \in Session
    BY <2>3, SendQueueGood, Zenon DEF Good, Sound
  <2>5. Turn(c, r)
    BY <2>4, SendQueueTurn
  <2>6. /\ SameEvents(r, t) /\ SameBytes(r, t) /\ t.my_eof = r.my_eof
        /\ t.close_called = r.close_called /\ t.running = r.running
    <3>1. CASE t = StartCloseTimer(r)
      BY <2>4, <3>1, Zenon
      DEF Session, StartCloseTimer, SameEvents, SameBytes
    <3>2. CASE t = [r EXCEPT !.closer = "done"]
      BY <2>4, <3>2, Zenon DEF Session, SameEvents, SameBytes
    <3>3. QED
      BY <2>1, <3>1, <3>2
  <2>7. Internal(s, t)
    BY <2>2, <2>5, <2>6
    DEF Turn, SameEvents, SameBytes, Internal, Forward, Caused, Sends, Stores,
        SameCalls, Started
  <2>8. QED
    BY <2>7
<1>5. QED
  BY <1>2, <1>3, <1>4

(* close_called is set, and a close() follows in the same step.            *)
LEMMA AsyncCloseStep ==
  ASSUME Good(session), AsyncClose
  PROVE  /\ Forward(session, session') /\ Caused(session, session')
         /\ Sends(session, session') /\ Stores(session, session')
         /\ session'.packets = session.packets
         /\ session'.eof_stored => session.eof_stored
<1> DEFINE s == session
           c == [s EXCEPT !.close_called = TRUE]
<1>1. s \in Session
  BY DEF Good, Sound
<1>2. /\ SameEvents(s, c) /\ SameBytes(s, c) /\ c.my_eof = s.my_eof
      /\ c.close_called = TRUE /\ c.running = s.running
  BY <1>1, Zenon DEF Session, SameEvents, SameBytes
<1>3. Good(c)
  BY CloseCalledGood
<1>4. session' \in Close(c)
  BY Zenon DEF AsyncClose
<1> HIDE DEF c
<1>5. Internal(c, session')
  BY <1>2, <1>3, <1>4, CloseStep
<1>6. QED
  BY <1>2, <1>5
  DEF SameEvents, SameBytes, Internal, Forward, Caused, Sends, Stores,
      SameCalls, Started

(* read() takes a block, or the EOF when nothing is left.                  *)
LEMMA ReadStep ==
  ASSUME Good(session), Read \/ RetryRead
  PROVE  /\ Forward(session, session') /\ Caused(session, session')
         /\ Sends(session, session') /\ SameCalls(session, session')
         /\ session'.packets = session.packets
         /\ session'.eof_stored => session.eof_stored
         /\ \/ session'.unread = session.unread
            \/ /\ session.unread > 0
               /\ session'.unread = session.unread - 1
<1> DEFINE s == session
           n == IF s.unread > 0 THEN s.unread - 1 ELSE 0
           p == s.eof_stored /\ n = 0
           e == s.pending_eof \/ p
           f == s.eof_read \/ p
           o == IF s.unread > 0 \/ e THEN "idle" ELSE "waiting"
           t == [s EXCEPT !.unread = n, !.pending_eof = e, !.eof_read = f,
                          !.reader = o]
<1>1. s \in Session
  BY DEF Good, Sound
<1>2. n = s.unread \/ (s.unread > 0 /\ n = s.unread - 1)
  BY <1>1, FieldTypes
<1>3. /\ e <=> s.pending_eof \/ p
      /\ f <=> s.eof_read \/ p
      /\ p => s.eof_stored /\ n = 0
  OBVIOUS
<1>4. session' = t
  BY Zenon DEF Read, RetryRead, TryRead
<1> HIDE DEF n, p, e, f, o
<1>5. /\ t.unread = n /\ t.pending_eof = e /\ t.eof_read = f
      /\ SameEvents(s, t) /\ t.pending_used = s.pending_used
      /\ t.eof_stored = s.eof_stored /\ t.packets = s.packets
      /\ t.my_eof = s.my_eof /\ t.close_called = s.close_called
      /\ t.running = s.running
  BY <1>1, Zenon DEF Session, SameEvents
<1> HIDE DEF t
<1>6. QED
  BY <1>2, <1>3, <1>4, <1>5
  DEF SameEvents, Forward, Caused, Sends, SameCalls, Started

(* write() stores a block, before the EOF only.                            *)
LEMMA WriteStep ==
  ASSUME Good(session), Write \/ RetryWrite
  PROVE  /\ Forward(session, session') /\ Caused(session, session')
         /\ Stores(session, session') /\ SameCalls(session, session')
         /\ session'.packets = session.packets
         /\ session'.eof_stored => session.eof_stored
         /\ session'.finished = session.finished
         /\ session'.pending_eof = session.pending_eof
         /\ session'.my_eof = session.my_eof
         /\ \/ session'.pending_used = session.pending_used
            \/ /\ ~ session.pending_eof
               /\ session'.pending_used = session.pending_used + 1
<1> DEFINE s == session
<1>1. s \in Session
  BY DEF Good, Sound
<1>2. session' = TryWrite(s)
  BY Zenon DEF Write, RetryWrite
<1>3. /\ SameEvents(s, session') /\ session'.pending_eof = s.pending_eof
      /\ session'.unread = s.unread /\ session'.eof_stored = s.eof_stored
      /\ session'.eof_read = s.eof_read /\ session'.packets = s.packets
      /\ session'.my_eof = s.my_eof /\ session'.close_called = s.close_called
      /\ session'.running = s.running
      /\ \/ session'.pending_used = s.pending_used
         \/ /\ ~ s.pending_eof
            /\ session'.pending_used = s.pending_used + 1
  <2>1. CASE \/ session' = [s EXCEPT !.writer = "idle"]
             \/ session' = [s EXCEPT !.writer = "waiting"]
    BY <1>1, <2>1, Zenon DEF Session, SameEvents
  <2>2. CASE /\ ~ s.pending_eof
             /\ session' = [s EXCEPT !.writer = "idle",
                                     !.pending_used = @ + 1,
                                     !.send_queue_timer = @ \/ s.running]
    BY <1>1, <2>2, Zenon DEF Session, SameEvents
  <2>3. QED
    BY <1>2, <2>1, <2>2 DEF TryWrite
<1>4. QED
  BY <1>3
  DEF SameEvents, Forward, Caused, Stores, SameCalls, Started

(* A packet is handed over to the strand.                                  *)
LEMMA ReceiveStep ==
  ASSUME Good(session), NEW packet \in Packets, Receive(packet)
  PROVE  /\ Forward(session, session') /\ Caused(session, session')
         /\ Sends(session, session') /\ Stores(session, session')
         /\ SameCalls(session, session')
         /\ session'.packets = session.packets \cup {packet}
         /\ session'.eof_stored = session.eof_stored
         /\ session'.pending_used = session.pending_used
         /\ session'.unread = session.unread
         /\ session'.finished = session.finished
<1> DEFINE s == session
           q == s.packets \cup {packet}
           t == [s EXCEPT !.packets = q]
<1>1. s \in Session
  BY DEF Good, Sound
<1>2. session' = t
  BY Zenon DEF Receive
<1>3. q = session.packets \cup {packet}
  OBVIOUS
<1> HIDE DEF q
<1>4. /\ t.packets = q /\ SameEvents(s, t)
      /\ t.pending_eof = s.pending_eof /\ t.pending_used = s.pending_used
      /\ t.unread = s.unread /\ t.eof_stored = s.eof_stored
      /\ t.eof_read = s.eof_read /\ t.my_eof = s.my_eof
      /\ t.close_called = s.close_called /\ t.running = s.running
  BY <1>1, Zenon DEF Session, SameEvents
<1> HIDE DEF t
<1>5. QED
  BY <1>2, <1>3, <1>4
  DEF SameEvents, Forward, Caused, Sends, Stores, SameCalls, Started

(* The messager stores a block where there is room for it, unless the      *)
(* session has read an EOF, was closed or has finished.                    *)
Messages(s, t, packet) ==
  /\ t \in Session
  /\ t.type = s.type /\ t.finished = s.finished
  /\ t.lower_open = s.lower_open /\ t.timed_out = s.timed_out
  /\ t.their_final = s.their_final
  /\ s.my_final => t.my_final
  /\ t.my_final => s.my_final \/ packet = "ack"
  /\ t.running = s.running
  /\ t.my_eof = s.my_eof /\ t.close_called = s.close_called
  /\ t.pending_eof = s.pending_eof /\ t.eof_read = s.eof_read
  /\ t.pending_used = s.pending_used /\ t.packets = s.packets
  /\ t.eof_stored => s.eof_stored \/ packet = "eof"
  /\ packet # "data" \/ s.pending_eof => t.unread = s.unread
  /\ packet = "data" =>
       \/ s.pending_eof \/ s.finished \/ s.unread = MaxUnread
       \/ t.unread = s.unread + 1

LEMMA MessagerStep ==
  ASSUME NEW s \in Session, NEW packet \in Packets,
         NEW t \in MessagerRecv(s, packet)
  PROVE  Messages(s, t, packet)
<1>1. CASE t = s /\ (packet = "data" => \/ s.pending_eof \/ s.finished
                                        \/ s.unread = MaxUnread)
  BY <1>1, Zenon DEF Messages
<1>2. CASE /\ packet = "data" /\ ~ s.pending_eof /\ s.unread # MaxUnread
           /\ t = [s EXCEPT !.unread = @ + 1, !.reader = Woken(@)]
  <2> DEFINE n == s.unread + 1
             w == Woken(s.reader)
             r == [s EXCEPT !.unread = n, !.reader = w]
  <2>1. n \in 0 .. MaxUnread /\ w \in OpStates
    BY <1>2, FieldTypes, Wakes, LifeAssumption
  <2>2. t = r /\ n = s.unread + 1
    BY <1>2, Zenon
  <2> HIDE DEF n, w
  <2>3. r \in Session
    BY <2>1, Zenon DEF Session
  <2>4. /\ SameEvents(s, r) /\ r.running = s.running
        /\ r.my_eof = s.my_eof /\ r.close_called = s.close_called
        /\ r.pending_eof = s.pending_eof /\ r.eof_read = s.eof_read
        /\ r.pending_used = s.pending_used /\ r.packets = s.packets
        /\ r.eof_stored = s.eof_stored /\ r.unread = n
    BY Zenon DEF Session, SameEvents
  <2> HIDE DEF r
  <2>5. QED
    BY <1>2, <2>2, <2>3, <2>4, Zenon DEF Messages, SameEvents
<1>3. CASE packet = "eof" /\ t = PutEof(s)
  <2> DEFINE w == IF s.pending_eof THEN s.reader ELSE Woken(s.reader)
             r == [s EXCEPT !.eof_stored = TRUE, !.reader = w]
  <2>1. w \in OpStates
    BY FieldTypes, Wakes
  <2>2. t = r
    BY <1>3, Zenon DEF PutEof
  <2> HIDE DEF w
  <2>3. r \in Session
    BY <2>1, Zenon DEF Session
  <2>4. /\ SameEvents(s, r) /\ r.running = s.running
        /\ r.my_eof = s.my_eof /\ r.close_called = s.close_called
        /\ r.pending_eof = s.pending_eof /\ r.eof_read = s.eof_read
        /\ r.pending_used = s.pending_used /\ r.packets = s.packets
        /\ r.unread = s.unread
    BY Zenon DEF Session, SameEvents
  <2> HIDE DEF r
  <2>5. packet # "data"
    BY <1>3
  <2>6. QED
    BY <1>3, <2>2, <2>3, <2>4, <2>5, Zenon DEF Messages, SameEvents
<1>4. CASE packet = "ack" /\ t = [s EXCEPT !.my_final = TRUE]
  <2> DEFINE r == [s EXCEPT !.my_final = TRUE]
  <2>1. /\ r \in Session /\ r.my_final = TRUE
        /\ r.type = s.type /\ r.finished = s.finished
        /\ r.lower_open = s.lower_open /\ r.timed_out = s.timed_out
        /\ r.their_final = s.their_final /\ r.eof_stored = s.eof_stored
        /\ r.running = s.running
        /\ r.my_eof = s.my_eof /\ r.close_called = s.close_called
        /\ r.pending_eof = s.pending_eof /\ r.eof_read = s.eof_read
        /\ r.pending_used = s.pending_used /\ r.packets = s.packets
        /\ r.unread = s.unread
    BY Zenon DEF Session
  <2>2. t = r
    BY <1>4
  <2> HIDE DEF r
  <2>3. packet = "ack" /\ packet # "data"
    BY <1>4
  <2>4. QED
    BY <2>1, <2>2, <2>3, Zenon DEF Messages
<1>5. QED
  <2>1. CASE packet = "data"
    BY <2>1, <1>1, <1>2 DEF MessagerRecv, Put, RecvmarkqIsFull
  <2>2. CASE packet = "eof"
    BY <2>2, <1>1, <1>3 DEF MessagerRecv
  <2>3. CASE packet = "ack"
    BY <2>3, <1>4 DEF MessagerRecv
  <2>4. CASE packet = "cookie"
    BY <2>4, <1>1 DEF MessagerRecv
  <2>5. QED
    BY <2>1, <2>2, <2>3, <2>4 DEF Packets

Processes(s, t, packet) ==
  /\ Forward(s, t) /\ Caused(s, t) /\ Sends(s, t) /\ SameCalls(s, t)
  /\ t.packets = s.packets \ {packet}
  /\ t.eof_read => s.eof_read
  /\ t.eof_stored => s.eof_stored \/ packet = "eof"
  /\ s.pending_eof /\ ~ t.finished => t.unread = s.unread
  /\ s.type = "server" =>
       /\ packet # "data" => t.unread = s.unread
       /\ packet = "data" =>
            \/ s.pending_eof \/ s.finished \/ s.unread = MaxUnread
            \/ t.unread = s.unread + 1

LEMMA ProcessStep ==
  ASSUME Good(session), NEW packet \in Packets, Process(packet)
  PROVE  Processes(session, session', packet)
<1> DEFINE s == session
           q == s.packets \ {packet}
           r == [s EXCEPT !.packets = q]
<1>1. s \in Session
  BY DEF Good, Sound
<1>2. q \in SUBSET Packets
  BY <1>1, FieldTypes
<1>3. /\ packet \in s.packets
      /\ session' \in LowerReceive(s, packet)
  BY Zenon DEF Process
<1>4. PICK m \in MessagerRecv(r, packet) :
        \/ s.type = "server" /\ session' = m
        \/ s.type # "server" /\ session' \in StartIn(m)
        \/ s.type # "server" /\ session' = r
  <2>1. MessagerRecv(r, packet) # {}
    <3>1. packet \in {"data", "eof", "ack", "cookie"}
      BY DEF Packets
    <3>2. QED
      BY <3>1 DEF MessagerRecv
  <2>2. CASE s.type = "server"
    BY <1>3, <2>2, Zenon DEF LowerReceive
  <2>3. CASE s.type # "server" /\ session' = r
    BY <2>1, <2>3, Zenon
  <2>4. CASE s.type # "server" /\ session' # r
    BY <1>3, <2>4, Zenon DEF LowerReceive
  <2>5. QED
    BY <2>2, <2>3, <2>4
<1>5. q = session.packets \ {packet}
  OBVIOUS
<1> HIDE DEF q
<1>6. r \in Session
  BY <1>1, <1>2, Zenon DEF Session
<1>7. /\ SameEvents(s, r) /\ r.packets = q /\ r.running = s.running
      /\ r.my_eof = s.my_eof
      /\ r.close_called = s.close_called /\ r.pending_eof = s.pending_eof
      /\ r.pending_used = s.pending_used /\ r.unread = s.unread
      /\ r.eof_stored = s.eof_stored /\ r.eof_read = s.eof_read
  BY <1>1, Zenon DEF Session, SameEvents
<1> HIDE DEF r
<1>8. Messages(r, m, packet)
  BY <1>6, MessagerStep
<1>9. /\ m \in Session
      /\ m.type = s.type /\ m.finished = s.finished
      /\ m.lower_open = s.lower_open /\ m.timed_out = s.timed_out
      /\ m.their_final = s.their_final
      /\ s.my_final => m.my_final
      /\ m.my_final => s.my_final \/ packet = "ack"
      /\ m.running = s.running
      /\ m.my_eof = s.my_eof /\ m.close_called = s.close_called
      /\ m.pending_eof = s.pending_eof /\ m.eof_read = s.eof_read
      /\ m.pending_used = s.pending_used /\ m.packets = q
      /\ m.eof_stored => s.eof_stored \/ packet = "eof"
      /\ packet # "data" \/ s.pending_eof => m.unread = s.unread
      /\ packet = "data" =>
           \/ s.pending_eof \/ s.finished \/ s.unread = MaxUnread
           \/ m.unread = s.unread + 1
  BY <1>7, <1>8 DEF Messages, SameEvents
<1>10. /\ packet = "eof" => "eof" \in s.packets
       /\ packet = "ack" => "ack" \in s.packets
  BY <1>3
<1>11. CASE s.type = "server" /\ session' = m
  <2>1. Processes(s, m, packet)
    BY <1>5, <1>9, <1>10
    DEF Processes, Forward, Caused, Sends, SameCalls, Started
  <2>2. QED
    BY <1>11, <2>1, Zenon
<1>12. CASE s.type # "server" /\ session' \in StartIn(m)
  <2>1. PICK t \in StartIn(m) : t = session'
    BY <1>12
  <2>2. Internal(m, t) /\ (t.their_final => m.their_final)
    BY <1>9, StartInStep
  <2>3. Processes(s, t, packet)
    BY <1>5, <1>9, <1>10, <1>12, <2>2
    DEF Processes, Internal, Forward, Caused, Sends, Stores, SameCalls,
        Started
  <2>4. QED
    BY <2>1, <2>3, Zenon
<1>13. CASE s.type # "server" /\ session' = r
  <2>1. Processes(s, r, packet)
    BY <1>5, <1>7, <1>13
    DEF SameEvents, Processes, Forward, Caused, Sends, SameCalls, Started
  <2>2. QED
    BY <1>13, <2>1, Zenon
<1>14. QED
  BY <1>4, <1>11, <1>12, <1>13

(* The steps that neither the application nor the network takes.           *)
Own ==
  \/ Start \/ RetryClose \/ RunSendQueue \/ RunCloseTimeout
  \/ SendQueueTimeout \/ CloseTimeout \/ AckTheirEof

LEMMA OwnStep ==
  ASSUME Good(session), Own
  PROVE  Internal(session, session')
<1> DEFINE s == session
<1>1. s \in Session
  BY DEF Good, Sound
<1>2. CASE Start
  <2>1. /\ SameEvents(s, session') /\ SameBytes(s, session')
        /\ session'.my_eof = s.my_eof
        /\ session'.close_called = s.close_called
        /\ session'.running = TRUE
    BY <1>1, <1>2, Zenon DEF Session, Start, SameEvents, SameBytes
  <2>2. QED
    BY <2>1, Unmoved DEF Started
<1>3. CASE RetryClose
  <2>1. s.close_called
    <3>1. s.closer # "idle"
      BY <1>3 DEF RetryClose
    <3>2. QED
      BY <3>1, Zenon DEF Good, Sound, TimerIsForClose
  <2>2. QED
    BY <1>3, <2>1, CloseStep, Zenon DEF RetryClose
<1>4. CASE RunSendQueue
  <2> DEFINE n == s.send_queue_ready - 1
             r == [s EXCEPT !.send_queue_ready = n]
  <2>1. n \in 0 .. MaxReady
    BY <1>1, <1>4, FieldTypes, LifeAssumption DEF RunSendQueue
  <2>2. session' \in HandleProcessSendQueue(r)
    BY <1>4, Zenon DEF RunSendQueue
  <2> HIDE DEF n
  <2>3. r \in Session
    BY <1>1, <2>1, Zenon DEF Session
  <2>4. /\ SameEvents(s, r) /\ SameBytes(s, r) /\ r.my_eof = s.my_eof
        /\ r.close_called = s.close_called /\ r.running = s.running
    BY <1>1, Zenon DEF Session, SameEvents, SameBytes
  <2> HIDE DEF r
  <2>5. Internal(r, session')
    BY <2>2, <2>3, SendQueueTurn, TurnIsInternal
  <2>6. QED
    BY <2>4, <2>5
    DEF SameEvents, SameBytes, Internal, Forward, Caused, Sends, Stores,
        SameCalls, Started
<1>5. CASE RunCloseTimeout
  <2> DEFINE r == [s EXCEPT !.close_timer = "off"]
             d == DoClose(r)
  <2>1. r \in Session
    BY <1>1, Zenon DEF Session
  <2>2. /\ SameEvents(s, r) /\ SameBytes(s, r) /\ r.my_eof = s.my_eof
        /\ r.close_called = s.close_called
    BY <1>1, Zenon DEF Session, SameEvents, SameBytes
  <2>3. session' = d
    BY <1>5, Zenon DEF RunCloseTimeout
  <2> HIDE DEF r
  <2>4. /\ d.finished = TRUE /\ d.lower_open = FALSE
        /\ d.pending_eof = FALSE /\ d.unread = 0 /\ d.eof_stored = FALSE
        /\ d.type = r.type /\ d.packets = r.packets
        /\ d.timed_out = r.timed_out /\ d.close_called = r.close_called
        /\ d.eof_read = r.eof_read /\ d.my_eof = r.my_eof
        /\ d.my_final = r.my_final /\ d.their_final = r.their_final
    BY <2>1, DoCloseDone, Zenon
  <2> HIDE DEF d
  <2>5. QED
    BY <2>2, <2>3, <2>4
    DEF SameEvents, SameBytes, Internal, Forward, Caused, Sends, Stores,
        SameCalls, Started
<1>6. CASE SendQueueTimeout
  <2>1. /\ SameEvents(s, session') /\ SameBytes(s, session')
        /\ session'.my_eof = s.my_eof
        /\ session'.close_called = s.close_called
        /\ session'.running = s.running
    BY <1>1, <1>6, Zenon DEF Session, SendQueueTimeout, SameEvents, SameBytes
  <2>2. QED
    BY <2>1, Unmoved DEF Started, SameEvents
<1>7. CASE CloseTimeout
  <2>1. /\ session'.type = s.type /\ session'.finished = s.finished
        /\ session'.lower_open = s.lower_open /\ session'.timed_out = TRUE
        /\ session'.my_final = s.my_final /\ SameBytes(s, session')
        /\ session'.their_final = s.their_final
        /\ session'.my_eof = s.my_eof
        /\ session'.close_called = s.close_called
        /\ session'.running = s.running
    BY <1>1, <1>7, Zenon DEF Session, CloseTimeout, SameBytes
  <2>2. QED
    BY <2>1
    DEF SameBytes, Internal, Forward, Caused, Sends, Stores, SameCalls,
        Started
<1>8. CASE AckTheirEof
  <2>1. s.eof_stored
    BY <1>8, Zenon DEF AckTheirEof
  <2>2. /\ session'.type = s.type /\ session'.finished = s.finished
        /\ session'.lower_open = s.lower_open
        /\ session'.timed_out = s.timed_out
        /\ session'.my_final = s.my_final /\ SameBytes(s, session')
        /\ session'.their_final = TRUE
        /\ session'.my_eof = s.my_eof
        /\ session'.close_called = s.close_called
        /\ session'.running = s.running
    BY <1>1, <1>8, Zenon DEF Session, AckTheirEof, SameBytes
  <2>3. QED
    BY <2>1, <2>2
    DEF SameBytes, Internal, Forward, Caused, Sends, Stores, SameCalls,
        Started
<1>9. QED
  BY <1>2, <1>3, <1>4, <1>5, <1>6, <1>7, <1>8 DEF Own

LEMMA NextCaused ==
  ASSUME LifeInv, Next
  PROVE  Forward(session, session') /\ Caused(session, session')
<1>1. Good(session)
  BY DEF LifeInv
<1>2. CASE Own
  BY <1>1, <1>2, OwnStep DEF Internal
<1>3. CASE AsyncClose
  BY <1>1, <1>3, AsyncCloseStep
<1>4. CASE Read \/ RetryRead
  BY <1>1, <1>4, ReadStep
<1>5. CASE Write \/ RetryWrite
  BY <1>1, <1>5, WriteStep
<1>6. ASSUME NEW packet \in Packets, Receive(packet)
      PROVE  Forward(session, session') /\ Caused(session, session')
  BY <1>1, <1>6, ReceiveStep
<1>7. ASSUME NEW packet \in Packets, Process(packet)
      PROVE  Forward(session, session') /\ Caused(session, session')
  BY <1>1, <1>7, ProcessStep DEF Processes
<1>8. QED
  BY <1>2, <1>3, <1>4, <1>5, <1>6, <1>7 DEF Next, Own

(* Each event of a session has its cause and stays: the EOF is sent or     *)
(* read for a reason, acknowledged after it arrived, and the close handler *)
(* is called by do_close(), or by close() of a session that does not run   *)
(* (session.ipp:150-155, 237-238, 352-355).                                *)
THEOREM EventsHaveCauses ==
  Spec => [][Forward(session, session') /\ Caused(session, session')]_session
  BY NextCaused, LifeInvariant, PTL DEF Spec

-----------------------------------------------------------------------------
(* What a session that ends in order still holds.                          *)

(* The EOF is the last thing to be sent, and to be read.                   *)
Drained(s) ==
  /\ s.my_eof /\ ~ s.finished => s.pending_eof /\ s.pending_used = 0
  /\ s.eof_read /\ ~ s.finished => s.pending_eof /\ s.unread = 0

(* What each step does to the ring and to the blocks that are unread.      *)
Drains(s, t) ==
  /\ s.finished => t.finished
  /\ ~ t.finished =>
       /\ s.pending_eof => t.pending_eof
       /\ s.pending_eof /\ s.pending_used = 0 => t.pending_used = 0
       /\ t.my_eof => s.my_eof \/ (t.pending_eof /\ t.pending_used = 0)
       /\ s.pending_eof /\ s.unread = 0 => t.unread = 0
       /\ t.eof_read => s.eof_read \/ (t.pending_eof /\ t.unread = 0)

LEMMA NextDrains ==
  ASSUME Good(session), Next
  PROVE  Drains(session, session')
<1> DEFINE s == session
<1>1. s.pending_used \in 0 .. MaxPending /\ s.unread \in 0 .. MaxUnread
  BY FieldTypes DEF Good, Sound
<1>2. CASE Own
  BY <1>1, <1>2, OwnStep DEF Internal, Drains, Forward, Caused, Sends, Stores
<1>3. CASE AsyncClose
  BY <1>1, <1>3, AsyncCloseStep DEF Drains, Forward, Caused, Sends, Stores
<1>4. CASE Read \/ RetryRead
  BY <1>1, <1>4, ReadStep DEF Drains, Forward, Caused, Sends
<1>5. CASE Write \/ RetryWrite
  BY <1>1, <1>5, WriteStep DEF Drains, Forward, Caused, Stores
<1>6. ASSUME NEW packet \in Packets, Receive(packet)
      PROVE  Drains(session, session')
  BY <1>1, <1>6, ReceiveStep DEF Drains, Forward, Caused, Sends, Stores
<1>7. ASSUME NEW packet \in Packets, Process(packet)
      PROVE  Drains(session, session')
  BY <1>1, <1>7, ProcessStep DEF Processes, Drains, Forward, Caused, Sends
<1>8. QED
  BY <1>2, <1>3, <1>4, <1>5, <1>6, <1>7 DEF Next, Own

LEMMA EofsComeLast == Spec => []Drained(session)
<1>1. Init => Drained(session)
  <2>1. ASSUME NEW type \in {"client", "server"}
        PROVE  /\ NewSession(type).my_eof = FALSE
               /\ NewSession(type).eof_read = FALSE
    BY Zenon DEF NewSession
  <2>2. QED
    BY <2>1, Zenon DEF Init, Drained
<1>2. LifeInv /\ Drained(session) /\ [Next]_session => Drained(session)'
  <2>1. ASSUME LifeInv, Drained(session), Next
        PROVE  Drained(session')
    BY <2>1, NextDrains DEF LifeInv, Drained, Drains
  <2>2. QED
    BY <2>1, Zenon DEF Drained
<1>3. QED
  BY <1>1, <1>2, LifeInvariant, PTL DEF Spec

(* A session that finishes in order has sent all that was written and,     *)
(* without close(), handed over all that arrived, in whatever order writes *)
(* that wait, the EOF and its acknowledgment come; what is in the ring     *)
(* when do_close() empties it (session.ipp:124-140) is lost to the close   *)
(* timer only.                                                             *)
THEOREM NothingDiscarded == Spec => GracefulLosesNothing
<1>1. ASSUME LifeInv, LifeInv', Drained(session), Next,
             session'.finished, ~ session.finished,
             BothFinal(session') \/ ~ session'.timed_out
      PROVE  /\ session.pending_used = 0
             /\ session.unread = 0 \/ session.close_called
  <2>1. session'.my_final
    BY <1>1 DEF LifeInv, Good, Sound, Graceful, BothFinal
  <2>2. session.my_final \/ "ack" \in session.packets
    BY <1>1, <2>1, NextCaused DEF Caused
  <2>3. session.my_eof
    BY <1>1, <2>2 DEF LifeInv, Good, Sound, EofOrder
  <2>4. session.close_called \/ session.eof_read
    BY <1>1, <2>3 DEF LifeInv, Good, Sound, EofOrder
  <2>5. QED
    BY <1>1, <2>3, <2>4 DEF Drained
<1>2. LifeInv /\ LifeInv' /\ Drained(session) /\ [Next]_session
      => [session'.finished /\ ~ session.finished
            /\ (BothFinal(session') \/ ~ session'.timed_out)
          => /\ session.pending_used = 0
             /\ session.unread = 0 \/ session.close_called]_session
  BY <1>1
<1>3. QED
  BY <1>2, LifeInvariant, EofsComeLast, PTL DEF Spec, GracefulLosesNothing
=============================================================================
