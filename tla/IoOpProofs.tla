----------------------------- MODULE IoOpProofs -----------------------------
(***************************************************************************)
(* Theorems about IoOp, for any threads and any number of operations.      *)
(***************************************************************************)
EXTENDS IoOp, SequenceTheorems, FiniteSetTheorems, TLAPS

-----------------------------------------------------------------------------
(* The inductive invariant.                                                *)

(* Only the innermost call is not a handler.  A handler that runs inside   *)
(* another one holds the strand, and a call inside a handler in the strand *)
(* was started directly.                                                   *)
StackOk(s) ==
  /\ s \in Seq(Calls)
  /\ \A i \in 2 .. Len(s) : s[i].at = "handler"
  /\ Len(s) <= 3
  /\ Len(s) = 2 /\ s[1].at = "handler" => s[1].strand
  /\ Len(s) >= 2 /\ s[1].at # "handler" =>
       /\ s[1].start <=> ~ s[1].strand
       /\ s[2].strand => s[1].start
  /\ Len(s) = 3 => s[1].at # "handler" /\ s[2].strand

(* A thread performs an operation, which no other thread does.             *)
Busy(t) == stack[t] # << >> /\ Top(t).at # "handler"

Performed ==
  /\ \A t \in Threads : Busy(t) => op[Top(t).op] = "running"
  /\ \A t, u \in Threads :
       Busy(t) /\ Busy(u) /\ Top(t).op = Top(u).op => t = u

Queued ==
  /\ \A i \in 1 .. Len(queue) : op[queue[i]] = "queued"
  /\ \A i, j \in 1 .. Len(queue) : queue[i] = queue[j] => i = j

WaitInStrand ==
  \A t \in Threads : At(t, "wait") => RunningInThisThread(t) /\ available = 0

IoTypes ==
  /\ stack \in [Threads -> Seq(Calls)]
  /\ queue \in Seq(Ops) /\ op \in [Ops -> OpStates]
  /\ available \in Nat /\ taken \in Nat /\ handled \in Nat

IoInv ==
  /\ IoTypes
  /\ \A t \in Threads : StackOk(stack[t])
  /\ Performed /\ Queued /\ WaitInStrand /\ NoLostWakeup /\ TakenOnce

-----------------------------------------------------------------------------
(* The stack of a thread.                                                  *)
LEMMA CallFields ==
  ASSUME NEW c \in Calls
  PROVE  /\ c.op \in Ops /\ c.at \in {"begin", "wait", "handler"}
         /\ c.start \in BOOLEAN /\ c.strand \in BOOLEAN
  BY Zenon DEF Calls

LEMMA StackFacts ==
  ASSUME NEW s, StackOk(s)
  PROVE  /\ s \in Seq(Calls) /\ Len(s) \in 0 .. 3
         /\ DOMAIN s = 1 .. Len(s)
         /\ s # << >> => Len(s) >= 1
         /\ \A i \in 1 .. Len(s) : s[i] \in Calls
<1>1. s \in Seq(Calls) /\ Len(s) <= 3
  BY DEF StackOk
<1>2. Len(s) \in Nat /\ DOMAIN s = 1 .. Len(s)
  BY <1>1, LenProperties
<1>3. s # << >> => Len(s) # 0
  BY <1>1, EmptySeq
<1>4. QED
  BY <1>1, <1>2, <1>3, ElementOfSeq

LEMMA PushOk ==
  ASSUME NEW s, StackOk(s), NEW c \in Calls,
         \/ s = << >>
         \/ s[1].at = "handler" /\ c.at # "handler" /\ c.start /\ ~ c.strand
  PROVE  LET p == <<c>> \o s
         IN  /\ StackOk(p) /\ p \in Seq(Calls) /\ p # << >> /\ p[1] = c
             /\ Len(p) = Len(s) + 1
             /\ \A i \in 1 .. Len(s) : p[i + 1] = s[i]
<1> DEFINE p == <<c>> \o s
<1>1. s \in Seq(Calls) /\ Len(s) \in 0 .. 3 /\ (s # << >> => Len(s) >= 1)
      /\ (s = << >> => Len(s) = 0)
  BY StackFacts, EmptySeq
<1>2. <<c>> \in Seq(Calls) /\ Len(<<c>>) = 1 /\ <<c>>[1] = c
  OBVIOUS
<1>3. /\ p \in Seq(Calls) /\ Len(p) = Len(s) + 1
      /\ p[1] = c
      /\ \A i \in 1 .. Len(s) : p[i + 1] = s[i]
  BY <1>1, <1>2, ConcatProperties
<1> HIDE DEF p
<1>4. p # << >>
  BY <1>1, <1>3, EmptySeq
<1>5. CASE s = << >>
  BY <1>1, <1>3, <1>4, <1>5 DEF StackOk, p
<1>6. CASE s # << >>
  <2>1. s[1].at = "handler" /\ c.at # "handler" /\ c.start /\ ~ c.strand
    BY <1>6
  <2>2. Len(s) \in 1 .. 2
    BY <1>1, <1>6, <2>1 DEF StackOk
  <2>3. p[2] = s[1] /\ (Len(s) = 2 => p[3] = s[2])
    BY <1>3, <2>2
  <2>4. \A i \in 2 .. Len(p) : i = 2 \/ (i = 3 /\ Len(s) = 2)
    BY <1>3, <2>2
  <2>5. \A i \in 2 .. Len(p) : p[i].at = "handler"
    BY <2>1, <2>2, <2>3, <2>4 DEF StackOk
  <2>6. Len(p) <= 3 /\ (Len(p) = 3 => Len(s) = 2)
    BY <1>3, <2>2
  <2>7. Len(p) = 3 => p[2].strand
    BY <2>1, <2>3, <2>6 DEF StackOk
  <2>8. StackOk(p)
    BY <1>3, <2>1, <2>5, <2>6, <2>7 DEF StackOk
  <2>9. QED
    BY <1>3, <1>4, <2>8 DEF p
<1>7. QED
  BY <1>5, <1>6

LEMMA PopOk ==
  ASSUME NEW s, StackOk(s), s # << >>
  PROVE  /\ StackOk(Tail(s)) /\ Tail(s) \in Seq(Calls)
         /\ Tail(s) # << >> => Tail(s)[1].at = "handler"
<1> DEFINE p == Tail(s)
<1>1. s \in Seq(Calls) /\ Len(s) \in 1 .. 3
  BY StackFacts
<1>2. /\ p \in Seq(Calls) /\ Len(p) = Len(s) - 1
      /\ \A i \in 1 .. Len(p) : p[i] = s[i + 1]
  BY <1>1, HeadTailProperties
<1> HIDE DEF p
<1>3. \A i \in 1 .. Len(p) : i + 1 \in 2 .. Len(s)
  BY <1>1, <1>2
<1>4. \A i \in 1 .. Len(p) : p[i].at = "handler"
  BY <1>2, <1>3 DEF StackOk
<1>5. Len(p) <= 2 /\ \A i \in 2 .. Len(p) : i \in 1 .. Len(p)
  BY <1>1, <1>2
<1>6. Len(p) >= 1 => p[1].at = "handler"
  BY <1>1, <1>2, <1>4
<1>7. Len(p) = 2 => p[1].strand
  <2>1. Len(p) = 2 => Len(s) = 3 /\ p[1] = s[2]
    BY <1>1, <1>2
  <2>2. QED
    BY <2>1 DEF StackOk
<1>8. StackOk(p)
  BY <1>2, <1>4, <1>5, <1>6, <1>7 DEF StackOk
<1>9. p # << >> => p[1].at = "handler"
  BY <1>6, <1>8, StackFacts
<1>10. QED
  BY <1>2, <1>8, <1>9 DEF p

(* A call goes on as c: after a dispatch, with a suspension, or with a      *)
(* completion in the strand.                                               *)
Continues(s, c) ==
  \/ /\ c.at # "handler" /\ ~ c.start /\ c.strand
     /\ \A i \in DOMAIN s : ~ s[i].strand
  \/ c.at # "handler" /\ c.start = s[1].start /\ c.strand = s[1].strand
  \/ c.at = "handler" /\ ~ s[1].start /\ c.strand = s[1].strand

LEMMA ContinueOk ==
  ASSUME NEW s, StackOk(s), s # << >>, s[1].at # "handler", NEW c \in Calls,
         Continues(s, c)
  PROVE  LET p == [s EXCEPT ![1] = c]
         IN  /\ StackOk(p) /\ p \in Seq(Calls) /\ p # << >> /\ p[1] = c
             /\ Len(p) = Len(s)
             /\ \A i \in 2 .. Len(s) : p[i] = s[i]
<1> DEFINE p == [s EXCEPT ![1] = c]
<1>1. /\ s \in Seq(Calls) /\ Len(s) \in 1 .. 3 /\ DOMAIN s = 1 .. Len(s)
      /\ 1 \in 1 .. Len(s)
  BY StackFacts
<1>2. /\ p \in Seq(Calls) /\ Len(p) = Len(s) /\ p[1] = c
      /\ \A i \in 2 .. Len(s) : p[i] = s[i]
  BY <1>1, ExceptSeq
<1> HIDE DEF p
<1>3. p # << >>
  BY <1>1, <1>2, EmptySeq
<1>4. Len(s) >= 2 => 2 \in 2 .. Len(s) /\ 2 \in DOMAIN s
  BY <1>1
<1>5. StackOk(p)
  <2>1. Len(s) = 3 => c.at # "handler" /\ s[2].strand
    BY <1>1, <1>4 DEF StackOk, Continues
  <2>2. Len(s) = 2 /\ c.at = "handler" => c.strand
    BY <1>1, <1>4 DEF StackOk, Continues
  <2>3. Len(s) >= 2 /\ c.at # "handler" =>
          (c.start <=> ~ c.strand) /\ (s[2].strand => c.start)
    BY <1>1, <1>4 DEF StackOk, Continues
  <2>4. QED
    BY <1>1, <1>2, <1>4, <2>1, <2>2, <2>3 DEF StackOk
<1>6. QED
  BY <1>2, <1>3, <1>5 DEF p

-----------------------------------------------------------------------------
(* What happens to one operation leaves the others alone.                  *)
Posted == {o \in Ops : op[o] = "posted"}

LEMMA PostedFacts ==
  /\ IsFiniteSet(Posted)
  /\ Cardinality(Posted) \in Nat
  BY IoAssumption, FS_Subset, FS_CardinalityType DEF Posted

LEMMA PostedMoves ==
  ASSUME op \in [Ops -> OpStates], NEW o \in Ops, NEW x \in OpStates,
         op' = [op EXCEPT ![o] = x]
  PROVE  Cardinality(Posted') =
           Cardinality(Posted) + (IF x = "posted" THEN 1 ELSE 0)
                               - (IF op[o] = "posted" THEN 1 ELSE 0)
<1>1. IsFiniteSet(Posted) /\ Cardinality(Posted) \in Nat
  BY PostedFacts
<1>2. CASE x = "posted"
  <2>1. Posted' = Posted \cup {o}
    BY <1>2 DEF Posted
  <2>2. o \in Posted <=> op[o] = "posted"
    BY DEF Posted
  <2>3. QED
    BY <1>1, <1>2, <2>1, <2>2, FS_AddElement
<1>3. CASE x # "posted"
  <2>1. Posted' = Posted \ {o}
    BY <1>3 DEF Posted
  <2>2. o \in Posted <=> op[o] = "posted"
    BY DEF Posted
  <2>3. Cardinality(Posted \ {o}) =
          IF o \in Posted THEN Cardinality(Posted) - 1 ELSE Cardinality(Posted)
    BY <1>1, FS_RemoveElement
  <2>4. QED
    BY <1>1, <1>3, <2>1, <2>2, <2>3
<1>4. QED
  BY <1>2, <1>3

(* One thread's stack and the operation of its call change.                *)
LEMMA OneThread ==
  ASSUME IoInv, NEW t \in Threads, NEW s, StackOk(s), s \in Seq(Calls),
         stack' = [stack EXCEPT ![t] = s],
         NEW o \in Ops, NEW x \in OpStates, op' = [op EXCEPT ![o] = x],
         (Busy(t) /\ Top(t).op = o) \/ op[o] # "running",
         s # << >> /\ s[1].at # "handler" => s[1].op = o /\ x = "running",
         x # "running" => s = << >> \/ s[1].at = "handler"
  PROVE  /\ stack' \in [Threads -> Seq(Calls)] /\ op' \in [Ops -> OpStates]
         /\ \A u \in Threads : StackOk(stack'[u])
         /\ Performed'
         /\ stack'[t] = s /\ \A u \in Threads \ {t} : stack'[u] = stack[u]
<1>1. /\ stack \in [Threads -> Seq(Calls)] /\ op \in [Ops -> OpStates]
      /\ \A u \in Threads : StackOk(stack[u])
  BY DEF IoInv, IoTypes
<1>2. /\ stack' \in [Threads -> Seq(Calls)] /\ stack'[t] = s
      /\ \A u \in Threads \ {t} : stack'[u] = stack[u]
  BY <1>1
<1>3. \A u \in Threads : StackOk(stack'[u])
  BY <1>1, <1>2
<1>4. /\ op' \in [Ops -> OpStates] /\ op'[o] = x
      /\ \A q \in Ops : q # o => op'[q] = op[q]
  BY <1>1
<1>5. ASSUME NEW u \in Threads \ {t}, Busy(u)'
      PROVE  /\ Busy(u) /\ Top(u)' = Top(u) /\ Top(u).op # o
             /\ Top(u).op \in Ops /\ op'[Top(u).op] = "running"
  <2>1. stack'[u] = stack[u]
    BY <1>2
  <2>2. Busy(u) /\ Top(u)' = Top(u)
    BY <1>5, <2>1, Zenon DEF Busy, Top
  <2>3. op[Top(u).op] = "running"
    BY <2>2 DEF IoInv, Performed
  <2>4. Top(u).op # o
    BY <2>2, <2>3 DEF IoInv, Performed
  <2>5. Top(u).op \in Ops
    <3>1. Top(u) \in Calls
      <4>1. 1 \in 1 .. Len(stack[u])
        BY <1>1, <2>2, StackFacts DEF Busy
      <4>2. QED
        BY <1>1, <4>1, StackFacts DEF Top
    <3>2. QED
      BY <3>1, CallFields
  <2>6. QED
    BY <1>4, <2>2, <2>3, <2>4, <2>5
<1>6. Busy(t)' => Top(t)'.op = o /\ x = "running"
  BY <1>2 DEF Busy, Top
<1>7. Performed'
  <2>1. ASSUME NEW u \in Threads, Busy(u)'
        PROVE  op'[Top(u)'.op] = "running"
    BY <1>4, <1>5, <1>6, <2>1
  <2>2. ASSUME NEW u \in Threads, NEW v \in Threads, Busy(u)', Busy(v)',
               Top(u)'.op = Top(v)'.op
        PROVE  u = v
    <3>1. CASE u # t /\ v # t
      <4>1. Busy(u) /\ Busy(v) /\ Top(u).op = Top(v).op
        BY <1>5, <2>2, <3>1
      <4>2. QED
        BY <4>1 DEF IoInv, Performed
    <3>2. CASE u = t \/ v = t
      BY <1>5, <1>6, <2>2, <3>2
    <3>3. QED
      BY <3>1, <3>2
  <2>3. QED
    BY <2>1, <2>2 DEF Performed
<1>8. QED
  BY <1>2, <1>3, <1>4, <1>7

(* The queue, when an operation that is not in it moves on, joins it, or   *)
(* is the first of it and leaves it.                                       *)
LEMMA QueueSame ==
  ASSUME IoInv, NEW o \in Ops, NEW x \in OpStates,
         op' = [op EXCEPT ![o] = x], op[o] # "queued", queue' = queue
  PROVE  queue' \in Seq(Ops) /\ Queued'
<1>1. queue \in Seq(Ops) /\ op \in [Ops -> OpStates]
  BY DEF IoInv, IoTypes
<1>2. \A i \in 1 .. Len(queue) : queue[i] \in Ops
  BY <1>1, ElementOfSeq
<1>3. \A i \in 1 .. Len(queue) : op[queue[i]] = "queued"
  BY DEF IoInv, Queued
<1>4. \A i \in 1 .. Len(queue) : op'[queue[i]] = "queued"
  BY <1>1, <1>2, <1>3
<1>5. QED
  BY <1>1, <1>4 DEF IoInv, Queued

LEMMA QueueJoined ==
  ASSUME IoInv, NEW o \in Ops, op[o] # "queued", Queue(o)
  PROVE  queue' \in Seq(Ops) /\ Queued'
<1>1. /\ queue \in Seq(Ops) /\ op \in [Ops -> OpStates] /\ Len(queue) \in Nat
      /\ queue' = Append(queue, o) /\ op' = [op EXCEPT ![o] = "queued"]
  BY LenProperties DEF IoInv, IoTypes, Queue, Moves
<1>2. \A i \in 1 .. Len(queue) : queue[i] \in Ops /\ queue[i] # o
  BY <1>1, ElementOfSeq DEF IoInv, Queued
<1>3. /\ queue' \in Seq(Ops) /\ Len(queue') = Len(queue) + 1
      /\ \A i \in 1 .. Len(queue) : queue'[i] = queue[i]
      /\ queue'[Len(queue) + 1] = o
  BY <1>1, AppendProperties
<1>4. \A i \in 1 .. Len(queue') : i \in 1 .. Len(queue) \/ i = Len(queue) + 1
  BY <1>1, <1>3
<1>5. \A i \in 1 .. Len(queue) : op[queue[i]] = "queued"
  BY DEF IoInv, Queued
<1>6. \A i \in 1 .. Len(queue') : op'[queue'[i]] = "queued"
  BY <1>1, <1>2, <1>3, <1>4, <1>5
<1>7. ASSUME NEW i \in 1 .. Len(queue'), NEW j \in 1 .. Len(queue'),
             queue'[i] = queue'[j]
      PROVE  i = j
  <2>1. CASE i \in 1 .. Len(queue) /\ j \in 1 .. Len(queue)
    BY <1>3, <1>7, <2>1 DEF IoInv, Queued
  <2>2. CASE i = Len(queue) + 1 \/ j = Len(queue) + 1
    BY <1>2, <1>3, <1>4, <1>7, <2>2
  <2>3. QED
    BY <1>4, <2>1, <2>2
<1>8. QED
  BY <1>3, <1>6, <1>7 DEF Queued

LEMMA QueueLeft ==
  ASSUME IoInv, queue # << >>, NEW x \in OpStates,
         queue' = Tail(queue), op' = [op EXCEPT ![Head(queue)] = x]
  PROVE  /\ queue' \in Seq(Ops) /\ Queued'
         /\ Head(queue) \in Ops /\ op[Head(queue)] = "queued"
<1>1. queue \in Seq(Ops) /\ op \in [Ops -> OpStates] /\ Len(queue) \in Nat
  BY LenProperties DEF IoInv, IoTypes
<1>2. Len(queue) # 0
  BY <1>1, EmptySeq
<1>3. /\ Head(queue) = queue[1] /\ 1 \in 1 .. Len(queue)
      /\ queue' \in Seq(Ops) /\ Len(queue') = Len(queue) - 1
      /\ \A i \in 1 .. Len(queue') : queue'[i] = queue[i + 1]
  BY <1>1, <1>2, HeadTailProperties
<1>4. \A i \in 1 .. Len(queue) : queue[i] \in Ops /\ op[queue[i]] = "queued"
  BY <1>1, ElementOfSeq DEF IoInv, Queued
<1>5. \A i \in 1 .. Len(queue') : i + 1 \in 1 .. Len(queue) /\ i + 1 # 1
  BY <1>1, <1>3
<1>6. \A i \in 1 .. Len(queue') :
        queue'[i] # Head(queue) /\ op'[queue'[i]] = "queued"
  BY <1>1, <1>3, <1>4, <1>5 DEF IoInv, Queued
<1>7. \A i, j \in 1 .. Len(queue') : queue'[i] = queue'[j] => i = j
  BY <1>3, <1>5 DEF IoInv, Queued
<1>8. QED
  BY <1>3, <1>4, <1>6, <1>7 DEF Queued

-----------------------------------------------------------------------------
LEMMA TypesOf ==
  ASSUME IoInv
  PROVE  /\ stack \in [Threads -> Seq(Calls)] /\ op \in [Ops -> OpStates]
         /\ queue \in Seq(Ops)
         /\ available \in Nat /\ taken \in Nat /\ handled \in Nat
         /\ \A t \in Threads : StackOk(stack[t])
         /\ \A t \in Threads : stack[t] # << >> =>
              /\ Top(t) \in Calls /\ Top(t).op \in Ops
              /\ Len(stack[t]) >= 1 /\ DOMAIN stack[t] = 1 .. Len(stack[t])
         /\ \A t \in Threads : Busy(t) => op[Top(t).op] = "running"
<1>1. /\ stack \in [Threads -> Seq(Calls)] /\ op \in [Ops -> OpStates]
      /\ queue \in Seq(Ops)
      /\ available \in Nat /\ taken \in Nat /\ handled \in Nat
      /\ \A t \in Threads : StackOk(stack[t])
      /\ \A t \in Threads : Busy(t) => op[Top(t).op] = "running"
  BY DEF IoInv, IoTypes, Performed
<1>2. ASSUME NEW t \in Threads, stack[t] # << >>
      PROVE  /\ Top(t) \in Calls
             /\ Len(stack[t]) >= 1 /\ DOMAIN stack[t] = 1 .. Len(stack[t])
  <2>1. /\ Len(stack[t]) \in 1 .. 3 /\ DOMAIN stack[t] = 1 .. Len(stack[t])
        /\ \A i \in 1 .. Len(stack[t]) : stack[t][i] \in Calls
    BY <1>1, <1>2, StackFacts
  <2>2. 1 \in 1 .. Len(stack[t])
    BY <2>1
  <2>3. QED
    BY <2>1, <2>2 DEF Top
<1>3. QED
  BY <1>1, <1>2, CallFields

(* When nothing new is available, those who wait still wait for something. *)
LEMMA StillWaiting ==
  ASSUME IoInv, NEW t \in Threads, available = 0 => available' = 0,
         \A u \in Threads \ {t} : stack'[u] = stack[u],
         stack'[t] # << >> /\ stack'[t][1].at = "wait" =>
           available' = 0 /\ \E i \in DOMAIN stack'[t] : stack'[t][i].strand
  PROVE  WaitInStrand'
<1>1. ASSUME NEW u \in Threads, u # t, At(u, "wait")'
      PROVE  (RunningInThisThread(u) /\ available = 0)'
  <2>1. stack'[u] = stack[u]
    BY <1>1
  <2>2. At(u, "wait") /\ (RunningInThisThread(u) => RunningInThisThread(u)')
    BY <1>1, <2>1, Zenon DEF At, Top, RunningInThisThread
  <2>3. QED
    BY <2>2 DEF IoInv, WaitInStrand
<1>2. At(t, "wait")' => (RunningInThisThread(t) /\ available = 0)'
  BY Zenon DEF At, Top, RunningInThisThread
<1>3. QED
  BY <1>1, <1>2, Zenon DEF WaitInStrand

LEMMA NobodyLost ==
  ASSUME IoInv, available = 0 => available' = 0,
         NEW o \in Ops, NEW x \in OpStates, op' = [op EXCEPT ![o] = x],
         x = "waiting" => available' = 0
  PROVE  NoLostWakeup'
<1>1. \A q \in Ops : op'[q] = "waiting" => op[q] = "waiting" \/ x = "waiting"
  BY TypesOf
<1>2. QED
  BY <1>1 DEF IoInv, NoLostWakeup

(* The units that are taken, handed on, or held by a posted operation.     *)
LEMMA UnitsKept ==
  ASSUME IoInv, NEW o \in Ops, NEW x \in OpStates, op' = [op EXCEPT ![o] = x],
         \/ /\ taken' = taken /\ handled' = handled
            /\ op[o] # "posted" /\ x # "posted"
         \/ /\ taken' = taken + 1 /\ handled' = handled
            /\ op[o] # "posted" /\ x = "posted"
         \/ /\ taken' = taken + 1 /\ handled' = handled + 1
            /\ op[o] # "posted" /\ x # "posted"
         \/ /\ taken' = taken /\ handled' = handled + 1
            /\ op[o] = "posted" /\ x # "posted"
  PROVE  TakenOnce' /\ taken' \in Nat /\ handled' \in Nat
<1>1. /\ taken \in Nat /\ handled \in Nat /\ op \in [Ops -> OpStates]
      /\ Cardinality(Posted) \in Nat
  BY TypesOf, PostedFacts
<1>2. taken = handled + Cardinality(Posted)
  BY DEF IoInv, TakenOnce, Posted
<1>3. Cardinality(Posted') =
        Cardinality(Posted) + (IF x = "posted" THEN 1 ELSE 0)
                            - (IF op[o] = "posted" THEN 1 ELSE 0)
  BY <1>1, PostedMoves
<1>4. taken' = handled' + Cardinality(Posted')
  BY <1>1, <1>2, <1>3
<1>5. QED
  BY <1>1, <1>4 DEF TakenOnce, Posted

-----------------------------------------------------------------------------
LEMMA InitIoInv == Init => IoInv
<1> SUFFICES ASSUME Init PROVE IoInv
  OBVIOUS
<1>1. << >> \in Seq(Calls) /\ << >> \in Seq(Ops) /\ Len(<< >>) = 0
  BY EmptySeq
<1>2. \A t \in Threads : stack[t] = << >>
  BY DEF Init
<1>3. \A t \in Threads : StackOk(stack[t])
  <2>1. StackOk(<< >>)
    BY <1>1 DEF StackOk
  <2>2. QED
    BY <1>2, <2>1
<1>4. IoTypes
  BY <1>1 DEF Init, IoTypes, OpStates
<1>5. Performed /\ Queued /\ WaitInStrand /\ NoLostWakeup
  BY <1>1, <1>2
  DEF Init, Performed, Busy, Queued, WaitInStrand, At, NoLostWakeup
<1>6. TakenOnce
  <2>1. {o \in Ops : op[o] = "posted"} = {}
    BY DEF Init
  <2>2. QED
    BY <2>1, FS_EmptySet DEF Init, TakenOnce
<1>7. QED
  BY <1>3, <1>4, <1>5, <1>6 DEF IoInv

LEMMA InitiateKeeps ==
  ASSUME IoInv, NEW t \in Threads, NEW o \in Ops, Initiate(t, o)
  PROVE  IoInv'
<1> DEFINE c == [op |-> o, at |-> "begin", start |-> TRUE, strand |-> FALSE]
           s == <<c>> \o stack[t]
<1>1. /\ stack[t] = << >> \/ At(t, "handler")
      /\ op[o] = "idle" /\ stack' = [stack EXCEPT ![t] = s]
      /\ op' = [op EXCEPT ![o] = "running"]
      /\ queue' = queue /\ available' = available
      /\ taken' = taken /\ handled' = handled
  BY DEF Initiate, Push, Moves
<1>2. /\ c \in Calls /\ c.op = o /\ c.at = "begin"
      /\ c.start = TRUE /\ c.strand = FALSE
  BY Zenon DEF Calls
<1>3. "running" \in OpStates
  BY DEF OpStates
<1>4. stack[t] = << >> \/ stack[t][1].at = "handler"
  BY <1>1 DEF At, Top
<1> HIDE DEF c
<1>5. StackOk(s) /\ s \in Seq(Calls) /\ s # << >> /\ s[1] = c
  BY <1>2, <1>4, TypesOf, PushOk
<1> HIDE DEF s
<1>6. /\ stack' \in [Threads -> Seq(Calls)] /\ op' \in [Ops -> OpStates]
      /\ \A u \in Threads : StackOk(stack'[u])
      /\ Performed'
      /\ stack'[t] = s /\ \A u \in Threads \ {t} : stack'[u] = stack[u]
  BY <1>1, <1>2, <1>3, <1>5, OneThread
<1>7. queue' \in Seq(Ops) /\ Queued'
  BY <1>1, <1>3, QueueSame
<1>8. WaitInStrand' /\ NoLostWakeup'
  BY <1>1, <1>2, <1>3, <1>5, <1>6, StillWaiting, NobodyLost
<1>9. TakenOnce' /\ taken' \in Nat /\ handled' \in Nat
  BY <1>1, <1>3, UnitsKept
<1>10. QED
  BY <1>1, <1>6, <1>7, <1>8, <1>9, TypesOf DEF IoInv, IoTypes

(* A call that is performed: its operation is the one that changes.        *)
LEMMA BusyFacts ==
  ASSUME IoInv, NEW t \in Threads, At(t, "begin") \/ At(t, "wait")
  PROVE  /\ Busy(t) /\ stack[t] # << >> /\ stack[t][1].at # "handler"
         /\ Top(t) \in Calls /\ Top(t) = stack[t][1]
         /\ Top(t).op \in Ops /\ op[Top(t).op] = "running"
         /\ op = [op EXCEPT ![Top(t).op] = "running"]
<1>1. Busy(t) /\ stack[t] # << >> /\ stack[t][1].at # "handler"
  BY DEF At, Busy, Top
<1>2. Top(t) \in Calls /\ Top(t).op \in Ops /\ op[Top(t).op] = "running"
  BY <1>1, TypesOf
<1>3. op = [op EXCEPT ![Top(t).op] = "running"]
  BY <1>2, TypesOf
<1>4. QED
  BY <1>1, <1>2, <1>3 DEF Top

LEMMA DispatchNowKeeps ==
  ASSUME IoInv, NEW t \in Threads, DispatchNow(t)
  PROVE  IoInv'
<1> DEFINE c == [Top(t) EXCEPT !.start = FALSE, !.strand = TRUE]
           s == [stack[t] EXCEPT ![1] = c]
           o == Top(t).op
<1>1. /\ At(t, "begin") /\ ~ RunningInThisThread(t)
      /\ stack' = [stack EXCEPT ![t] = s]
      /\ op' = op /\ queue' = queue /\ available' = available
      /\ taken' = taken /\ handled' = handled
  BY DEF DispatchNow, Continue
<1>2. /\ Busy(t) /\ stack[t] # << >> /\ stack[t][1].at # "handler"
      /\ Top(t) \in Calls /\ Top(t) = stack[t][1]
      /\ o \in Ops /\ op[o] = "running"
      /\ op = [op EXCEPT ![o] = "running"]
  BY <1>1, BusyFacts
<1>3. c \in Calls /\ c.op = o /\ c.at = Top(t).at
  BY <1>2, Zenon DEF Calls
<1>4. c.at = "begin" /\ c.at # "handler"
  BY <1>1, <1>3 DEF At
<1>5. ~ c.start /\ c.strand
  BY <1>2, Zenon DEF Calls
<1>6. "running" \in OpStates
  BY DEF OpStates
<1>7. \A i \in DOMAIN stack[t] : ~ stack[t][i].strand
  BY <1>1 DEF RunningInThisThread
<1> HIDE DEF c, o
<1>8. StackOk(s) /\ s \in Seq(Calls) /\ s # << >> /\ s[1] = c
  <2>1. StackOk(stack[t])
    BY TypesOf
  <2>2. Continues(stack[t], c)
    BY <1>4, <1>7, <1>5, Zenon DEF Continues
  <2>3. QED
    BY <1>2, <1>3, <2>1, <2>2, ContinueOk
<1> HIDE DEF s
<1>9. op' = [op EXCEPT ![o] = "running"]
  BY <1>1, <1>2
<1>10. Busy(t) /\ Top(t).op = o
  BY <1>2 DEF o
<1>11. /\ stack' \in [Threads -> Seq(Calls)] /\ op' \in [Ops -> OpStates]
       /\ \A u \in Threads : StackOk(stack'[u])
       /\ Performed'
       /\ stack'[t] = s /\ \A u \in Threads \ {t} : stack'[u] = stack[u]
  <2>1. stack' = [stack EXCEPT ![t] = s] /\ o \in Ops
    BY <1>1, <1>2
  <2>2. s # << >> /\ s[1].at # "handler" => s[1].op = o
    BY <1>3, <1>8
  <2>3. QED
    BY <1>6, <1>8, <1>9, <1>10, <2>1, <2>2, OneThread
<1>12. queue' \in Seq(Ops) /\ Queued'
  BY <1>1, <1>2, <1>6, <1>9, QueueSame
<1>13. WaitInStrand' /\ NoLostWakeup'
  BY <1>1, <1>2, <1>4, <1>6, <1>8, <1>9, <1>11, StillWaiting, NobodyLost
<1>14. TakenOnce' /\ taken' \in Nat /\ handled' \in Nat
  BY <1>1, <1>2, <1>6, <1>9, UnitsKept
<1>15. QED
  BY <1>1, <1>11, <1>12, <1>13, <1>14, TypesOf DEF IoInv, IoTypes

(* The call ends, and its operation waits in the queue, on its timer or in *)
(* the io_service.                                                         *)
LEMMA PopBusyKeeps ==
  ASSUME IoInv, NEW t \in Threads, At(t, "begin") \/ At(t, "wait"), Pop(t),
         NEW x \in OpStates \ {"running"}, Moves(Top(t).op, x),
         queue' \in Seq(Ops), Queued',
         available' \in Nat, available = 0 => available' = 0,
         x = "waiting" => available' = 0,
         handled' = handled,
         IF x = "posted" THEN taken' = taken + 1 ELSE taken' = taken
  PROVE  IoInv'
<1> DEFINE s == Tail(stack[t])
           o == Top(t).op
<1>1. /\ Busy(t) /\ stack[t] # << >> /\ o \in Ops /\ op[o] = "running"
  BY BusyFacts
<1>2. stack' = [stack EXCEPT ![t] = s] /\ op' = [op EXCEPT ![o] = x]
  BY DEF Pop, Moves
<1>3. /\ StackOk(s) /\ s \in Seq(Calls)
      /\ s # << >> => s[1].at = "handler"
  BY <1>1, TypesOf, PopOk
<1>4. Busy(t) /\ Top(t).op = o
  BY <1>1
<1> HIDE DEF s, o
<1>5. /\ stack' \in [Threads -> Seq(Calls)] /\ op' \in [Ops -> OpStates]
      /\ \A u \in Threads : StackOk(stack'[u])
      /\ Performed'
      /\ stack'[t] = s /\ \A u \in Threads \ {t} : stack'[u] = stack[u]
  BY <1>1, <1>2, <1>3, <1>4, OneThread
<1>6. WaitInStrand' /\ NoLostWakeup'
  BY <1>1, <1>2, <1>3, <1>5, StillWaiting, NobodyLost
<1>7. TakenOnce' /\ taken' \in Nat /\ handled' \in Nat
  BY <1>1, <1>2, UnitsKept
<1>8. QED
  BY <1>5, <1>6, <1>7 DEF IoInv, IoTypes

LEMMA DispatchLaterKeeps ==
  ASSUME IoInv, NEW t \in Threads, DispatchLater(t)
  PROVE  IoInv'
<1>1. /\ At(t, "begin") /\ Pop(t) /\ Queue(Top(t).op)
      /\ Moves(Top(t).op, "queued")
      /\ available' = available /\ taken' = taken /\ handled' = handled
  BY DEF DispatchLater, Queue
<1>2. Top(t).op \in Ops /\ op[Top(t).op] = "running"
  BY <1>1, BusyFacts
<1>3. queue' \in Seq(Ops) /\ Queued'
  BY <1>1, <1>2, QueueJoined
<1>4. "queued" \in OpStates \ {"running"}
  BY DEF OpStates
<1>5. QED
  BY <1>1, <1>3, <1>4, TypesOf, PopBusyKeeps

LEMMA PendingWaitKeeps ==
  ASSUME IoInv, NEW t \in Threads, PendingWait(t)
  PROVE  IoInv'
<1>1. /\ At(t, "wait") /\ Pop(t) /\ Moves(Top(t).op, "waiting")
      /\ queue' = queue /\ available' = available /\ taken' = taken
      /\ handled' = handled
  BY DEF PendingWait
<1>2. Top(t).op \in Ops /\ op[Top(t).op] = "running"
  BY <1>1, BusyFacts
<1>3. "waiting" \in OpStates /\ "waiting" \in OpStates \ {"running"}
  BY DEF OpStates
<1>4. queue' \in Seq(Ops) /\ Queued'
  BY <1>1, <1>2, <1>3, QueueSame DEF Moves
<1>5. available' = 0
  BY <1>1 DEF IoInv, WaitInStrand
<1>6. QED
  BY <1>1, <1>3, <1>4, <1>5, PopBusyKeeps

(* What an operation that is performed leaves of the call.                 *)
LEMMA WaitKeeps ==
  ASSUME IoInv, NEW t \in Threads, At(t, "begin"), RunningInThisThread(t),
         available = 0, Continue(t, [Top(t) EXCEPT !.at = "wait"]),
         Moves(Top(t).op, "running"),
         UNCHANGED <<queue, available, taken, handled>>
  PROVE  IoInv'
<1> DEFINE c == [Top(t) EXCEPT !.at = "wait"]
           s == [stack[t] EXCEPT ![1] = c]
           o == Top(t).op
<1>1. /\ stack' = [stack EXCEPT ![t] = s]
      /\ queue' = queue /\ available' = available
      /\ taken' = taken /\ handled' = handled
      /\ op' = [op EXCEPT ![o] = "running"]
  BY DEF Continue, Moves
<1>2. /\ Busy(t) /\ stack[t] # << >> /\ stack[t][1].at # "handler"
      /\ Top(t) \in Calls /\ Top(t) = stack[t][1]
      /\ o \in Ops /\ op[o] = "running"
  BY BusyFacts
<1>3. c \in Calls /\ c.op = o /\ c.at = "wait"
      /\ c.start = Top(t).start /\ c.strand = Top(t).strand
  BY <1>2, Zenon DEF Calls
<1>4. c.at # "handler"
  BY <1>3
<1>5. "running" \in OpStates
  BY DEF OpStates
<1> HIDE DEF c, o
<1>6. /\ StackOk(s) /\ s \in Seq(Calls) /\ s # << >> /\ s[1] = c
      /\ Len(s) = Len(stack[t])
      /\ \A i \in 2 .. Len(stack[t]) : s[i] = stack[t][i]
  <2>1. StackOk(stack[t])
    BY TypesOf
  <2>2. Continues(stack[t], c)
    BY <1>2, <1>3, <1>4, Zenon DEF Continues
  <2>3. QED
    BY <1>2, <1>3, <2>1, <2>2, ContinueOk
<1> HIDE DEF s
<1>7. Busy(t) /\ Top(t).op = o
  BY <1>2 DEF o
<1>8. /\ stack' \in [Threads -> Seq(Calls)] /\ op' \in [Ops -> OpStates]
      /\ \A u \in Threads : StackOk(stack'[u])
      /\ Performed'
      /\ stack'[t] = s /\ \A u \in Threads \ {t} : stack'[u] = stack[u]
  <2>1. stack' = [stack EXCEPT ![t] = s] /\ o \in Ops
    BY <1>1, <1>2
  <2>2. s # << >> /\ s[1].at # "handler" => s[1].op = o
    BY <1>3, <1>6
  <2>3. QED
    BY <1>1, <1>5, <1>6, <1>7, <2>1, <2>2, OneThread
<1>9. queue' \in Seq(Ops) /\ Queued'
  BY <1>1, <1>2, <1>5, QueueSame
<1>10. \E i \in DOMAIN s : s[i].strand
  <2>1. PICK i \in DOMAIN stack[t] : stack[t][i].strand
    BY DEF RunningInThisThread
  <2>2. DOMAIN s = DOMAIN stack[t] /\ DOMAIN stack[t] = 1 .. Len(stack[t])
    <3>1. DOMAIN s = 1 .. Len(s)
      BY <1>6, StackFacts
    <3>2. QED
      BY <1>2, <1>6, <3>1, TypesOf
  <2>3. i = 1 \/ i \in 2 .. Len(stack[t])
    BY <2>1, <2>2
  <2>4. s[i].strand
    <3>1. CASE i = 1
      BY <1>2, <1>3, <1>6, <2>1, <3>1, Zenon
    <3>2. CASE i \in 2 .. Len(stack[t])
      BY <1>6, <2>1, <3>2, Zenon
    <3>3. QED
      BY <2>3, <3>1, <3>2
  <2>5. QED
    BY <2>1, <2>2, <2>4, Zenon
<1>11. WaitInStrand' /\ NoLostWakeup'
  BY <1>1, <1>2, <1>5, <1>8, <1>10, StillWaiting, NobodyLost
<1>12. TakenOnce' /\ taken' \in Nat /\ handled' \in Nat
  BY <1>1, <1>2, <1>5, UnitsKept
<1>13. QED
  BY <1>1, <1>8, <1>9, <1>11, <1>12, TypesOf DEF IoInv, IoTypes

LEMMA CallHandlerKeeps ==
  ASSUME IoInv, NEW t \in Threads, At(t, "begin"), ~ Top(t).start,
         available > 0, available' = available - 1, taken' = taken + 1,
         Continue(t, [Top(t) EXCEPT !.at = "handler"]),
         Moves(Top(t).op, "idle"), handled' = handled + 1, queue' = queue
  PROVE  IoInv'
<1> DEFINE c == [Top(t) EXCEPT !.at = "handler"]
           s == [stack[t] EXCEPT ![1] = c]
           o == Top(t).op
<1>1. stack' = [stack EXCEPT ![t] = s] /\ op' = [op EXCEPT ![o] = "idle"]
  BY DEF Continue, Moves
<1>2. /\ Busy(t) /\ stack[t] # << >> /\ stack[t][1].at # "handler"
      /\ Top(t) \in Calls /\ Top(t) = stack[t][1]
      /\ o \in Ops /\ op[o] = "running"
  BY BusyFacts
<1>3. c \in Calls /\ c.at = "handler" /\ c.strand = Top(t).strand
  BY <1>2, Zenon DEF Calls
<1>4. "idle" \in OpStates
  BY DEF OpStates
<1>5. Busy(t) /\ Top(t).op = o
  BY <1>2
<1> HIDE DEF c, o
<1>6. StackOk(s) /\ s \in Seq(Calls) /\ s # << >> /\ s[1] = c
  <2>1. StackOk(stack[t])
    BY TypesOf
  <2>2. Continues(stack[t], c)
    BY <1>2, <1>3, Zenon DEF Continues
  <2>3. QED
    BY <1>2, <1>3, <2>1, <2>2, ContinueOk
<1> HIDE DEF s
<1>7. /\ stack' \in [Threads -> Seq(Calls)] /\ op' \in [Ops -> OpStates]
      /\ \A u \in Threads : StackOk(stack'[u])
      /\ Performed'
      /\ stack'[t] = s /\ \A u \in Threads \ {t} : stack'[u] = stack[u]
  <2>1. s[1].at = "handler"
    BY <1>3, <1>6
  <2>2. QED
    BY <1>1, <1>2, <1>4, <1>5, <1>6, <2>1, OneThread
<1>8. queue' \in Seq(Ops) /\ Queued'
  BY <1>1, <1>2, <1>4, QueueSame
<1>9. available \in Nat /\ available' \in Nat
  BY TypesOf
<1>10. available # 0
  BY <1>9
<1>11. WaitInStrand'
  <2>1. stack'[t][1].at # "wait"
    BY <1>3, <1>6, <1>7
  <2>2. QED
    BY <1>7, <1>10, <2>1, StillWaiting
<1>12. NoLostWakeup'
  BY <1>1, <1>2, <1>4, <1>10, NobodyLost
<1>13. TakenOnce' /\ taken' \in Nat /\ handled' \in Nat
  BY <1>1, <1>2, <1>4, UnitsKept
<1>14. QED
  BY <1>7, <1>8, <1>9, <1>11, <1>12, <1>13 DEF IoInv, IoTypes

LEMMA PerformKeeps ==
  ASSUME IoInv, NEW t \in Threads, Perform(t)
  PROVE  IoInv'
<1>1. At(t, "begin") /\ RunningInThisThread(t) /\ queue' = queue
  BY DEF Perform
<1>2. ASSUME available > 0, available' = available - 1, taken' = taken + 1,
             Complete(t)
      PROVE  IoInv'
  <2>1. CASE Top(t).start
    <3>1. Pop(t) /\ Moves(Top(t).op, "posted") /\ handled' = handled
      BY <1>2, <2>1 DEF Complete
    <3>2. "posted" \in OpStates /\ "posted" \in OpStates \ {"running"}
      BY DEF OpStates
    <3>3. Top(t).op \in Ops /\ op[Top(t).op] = "running"
      BY <1>1, BusyFacts
    <3>4. queue' \in Seq(Ops) /\ Queued'
      BY <1>1, <3>1, <3>2, <3>3, QueueSame DEF Moves
    <3>5. available' \in Nat /\ available # 0
      BY <1>2, TypesOf
    <3>6. QED
      BY <1>1, <1>2, <3>1, <3>2, <3>4, <3>5, PopBusyKeeps
  <2>2. CASE ~ Top(t).start
    <3>1. /\ Continue(t, [Top(t) EXCEPT !.at = "handler"])
          /\ Moves(Top(t).op, "idle") /\ handled' = handled + 1
      BY <1>2, <2>2 DEF Complete
    <3>2. QED
      BY <1>1, <1>2, <2>2, <3>1, CallHandlerKeeps
  <2>3. QED
    BY <2>1, <2>2
<1>3. ASSUME available = 0, Continue(t, [Top(t) EXCEPT !.at = "wait"]),
             UNCHANGED <<op, available, taken, handled>>
      PROVE  IoInv'
  <2>1. op' = [op EXCEPT ![Top(t).op] = "running"]
    BY <1>1, <1>3, BusyFacts
  <2>2. QED
    BY <1>1, <1>3, <2>1, WaitKeeps DEF Moves
<1>4. QED
  BY <1>2, <1>3 DEF Perform

(* The operation of a handler that returns has long gone its way.          *)
LEMMA ReturnKeeps ==
  ASSUME IoInv, NEW t \in Threads, Return(t)
  PROVE  IoInv'
<1> DEFINE s == Tail(stack[t])
<1>1. /\ At(t, "handler") /\ stack' = [stack EXCEPT ![t] = s]
      /\ op' = op /\ queue' = queue /\ available' = available
      /\ taken' = taken /\ handled' = handled
  BY DEF Return, Pop
<1>2. stack \in [Threads -> Seq(Calls)] /\ \A u \in Threads : StackOk(stack[u])
  BY TypesOf
<1>3. /\ StackOk(s) /\ s \in Seq(Calls)
      /\ s # << >> => s[1].at = "handler"
  BY <1>1, <1>2, PopOk DEF At
<1> HIDE DEF s
<1>4. /\ stack' \in [Threads -> Seq(Calls)] /\ stack'[t] = s
      /\ \A u \in Threads \ {t} : stack'[u] = stack[u]
  BY <1>1, <1>2, <1>3
<1>5. \A u \in Threads : StackOk(stack'[u])
  BY <1>2, <1>3, <1>4
<1>6. ~ Busy(t)'
  BY <1>3, <1>4 DEF Busy, Top
<1>7. \A u \in Threads : Busy(u)' => Busy(u) /\ Top(u)' = Top(u)
  BY <1>4, <1>6, Zenon DEF Busy, Top
<1>8. Performed'
  BY <1>1, <1>7 DEF IoInv, Performed
<1>9. WaitInStrand'
  <2>1. s # << >> => s[1].at # "wait"
    BY <1>3
  <2>2. QED
    BY <1>1, <1>4, <2>1, StillWaiting
<1>10. Queued' /\ NoLostWakeup' /\ TakenOnce'
  BY <1>1 DEF IoInv, Queued, NoLostWakeup, TakenOnce
<1>11. QED
  BY <1>1, <1>4, <1>5, <1>8, <1>9, <1>10, TypesOf DEF IoInv, IoTypes

-----------------------------------------------------------------------------
(* A thread without calls starts one.                                      *)
LEMMA StartCallKeeps ==
  ASSUME IoInv, NEW t \in Threads, stack[t] = << >>, NEW c \in Calls,
         Push(t, c), c.at # "wait", NEW x \in OpStates, Moves(c.op, x),
         op[c.op] # "running", c.at # "handler" => x = "running",
         x # "running" => c.at = "handler", x # "waiting",
         queue' \in Seq(Ops), Queued', available' = available,
         \/ /\ taken' = taken /\ handled' = handled
            /\ op[c.op] # "posted" /\ x # "posted"
         \/ /\ taken' = taken /\ handled' = handled + 1
            /\ op[c.op] = "posted" /\ x # "posted"
  PROVE  IoInv'
<1> DEFINE s == <<c>> \o stack[t]
           o == c.op
<1>1. stack' = [stack EXCEPT ![t] = s] /\ op' = [op EXCEPT ![o] = x]
  BY DEF Push, Moves
<1>2. o \in Ops
  BY CallFields
<1>3. StackOk(s) /\ s \in Seq(Calls) /\ s # << >> /\ s[1] = c
  BY TypesOf, PushOk
<1> HIDE DEF s
<1>4. /\ stack' \in [Threads -> Seq(Calls)] /\ op' \in [Ops -> OpStates]
      /\ \A u \in Threads : StackOk(stack'[u])
      /\ Performed'
      /\ stack'[t] = s /\ \A u \in Threads \ {t} : stack'[u] = stack[u]
  BY <1>1, <1>2, <1>3, OneThread
<1>5. WaitInStrand' /\ NoLostWakeup'
  BY <1>1, <1>2, <1>3, <1>4, StillWaiting, NobodyLost
<1>6. TakenOnce' /\ taken' \in Nat /\ handled' \in Nat
  BY <1>1, <1>2, UnitsKept
<1>7. QED
  BY <1>4, <1>5, <1>6, TypesOf DEF IoInv, IoTypes

LEMMA RedispatchedFacts ==
  ASSUME NEW o \in Ops
  PROVE  /\ Redispatched(o) \in Calls /\ Redispatched(o).op = o
         /\ Redispatched(o).at = "begin"
  BY Zenon DEF Redispatched, Calls

LEMMA RunStrandKeeps ==
  ASSUME IoInv, NEW t \in Threads, RunStrand(t)
  PROVE  IoInv'
<1> DEFINE o == Head(queue)
<1>1. /\ stack[t] = << >> /\ queue # << >> /\ Push(t, Redispatched(o))
      /\ queue' = Tail(queue) /\ Moves(o, "running")
      /\ available' = available /\ taken' = taken /\ handled' = handled
  BY DEF RunStrand
<1>2. "running" \in OpStates
  BY DEF OpStates
<1>3. queue' \in Seq(Ops) /\ Queued' /\ o \in Ops /\ op[o] = "queued"
  BY <1>1, <1>2, QueueLeft DEF Moves
<1> HIDE DEF o
<1>4. /\ Redispatched(o) \in Calls /\ Redispatched(o).op = o
      /\ Redispatched(o).at = "begin"
  BY <1>3, RedispatchedFacts
<1>5. QED
  BY <1>1, <1>2, <1>3, <1>4, StartCallKeeps

LEMMA RunWokenKeeps ==
  ASSUME IoInv, NEW t \in Threads, NEW o \in Ops, RunWoken(t, o)
  PROVE  IoInv'
<1>1. /\ stack[t] = << >> /\ op[o] = "woken"
      /\ available' = available /\ taken' = taken /\ handled' = handled
  BY DEF RunWoken
<1>2. "running" \in OpStates /\ "queued" \in OpStates
  BY DEF OpStates
<1>3. CASE Free
  <2>1. Push(t, Redispatched(o)) /\ Moves(o, "running") /\ queue' = queue
    BY <1>3 DEF RunWoken
  <2>2. queue' \in Seq(Ops) /\ Queued'
    BY <1>1, <1>2, <2>1, QueueSame DEF Moves
  <2>3. /\ Redispatched(o) \in Calls /\ Redispatched(o).op = o
        /\ Redispatched(o).at = "begin"
    BY RedispatchedFacts
  <2>4. QED
    BY <1>1, <1>2, <2>1, <2>2, <2>3, StartCallKeeps
<1>4. CASE ~ Free
  <2>1. /\ Queue(o) /\ stack' = stack
    BY <1>4 DEF RunWoken
  <2>2. queue' \in Seq(Ops) /\ Queued' /\ op' = [op EXCEPT ![o] = "queued"]
    BY <1>1, <2>1, QueueJoined DEF Queue, Moves
  <2>3. op' \in [Ops -> OpStates] /\ \A q \in Ops \ {o} : op'[q] = op[q]
    BY <1>2, <2>2, TypesOf
  <2>4. \A u \in Threads : Busy(u) => Top(u).op \in Ops /\ Top(u).op # o
    BY <1>1, TypesOf DEF Busy
  <2>5. \A u \in Threads : Busy(u)' <=> Busy(u)
    BY <2>1 DEF Busy, Top
  <2>6. \A u \in Threads : Top(u)' = Top(u)
    BY <2>1 DEF Top
  <2>7. Performed'
    BY <2>3, <2>4, <2>5, <2>6 DEF IoInv, Performed
  <2>8. WaitInStrand'
    BY <1>1, <2>1, Zenon
    DEF IoInv, WaitInStrand, At, Top, RunningInThisThread
  <2>9. NoLostWakeup'
    BY <1>1, <1>2, <2>2, NobodyLost
  <2>10. TakenOnce' /\ taken' \in Nat /\ handled' \in Nat
    BY <1>1, <1>2, <2>2, UnitsKept
  <2>11. QED
    BY <1>1, <2>1, <2>2, <2>3, <2>7, <2>8, <2>9, <2>10, TypesOf
    DEF IoInv, IoTypes
<1>5. QED
  BY <1>3, <1>4

LEMMA RunPostedKeeps ==
  ASSUME IoInv, NEW t \in Threads, NEW o \in Ops, RunPosted(t, o)
  PROVE  IoInv'
<1> DEFINE c == [op |-> o, at |-> "handler", start |-> FALSE, strand |-> FALSE]
<1>1. /\ stack[t] = << >> /\ op[o] = "posted"
      /\ Push(t, c) /\ Moves(o, "idle") /\ handled' = handled + 1
      /\ queue' = queue /\ available' = available /\ taken' = taken
  BY DEF RunPosted
<1>2. c \in Calls /\ c.op = o /\ c.at = "handler"
  BY Zenon DEF Calls
<1>3. "idle" \in OpStates
  BY DEF OpStates
<1> HIDE DEF c
<1>4. queue' \in Seq(Ops) /\ Queued'
  BY <1>1, <1>3, QueueSame DEF Moves
<1>5. QED
  BY <1>1, <1>2, <1>3, <1>4, StartCallKeeps

(* Put() finds the strand free, so that no operation is between its look   *)
(* at the session and its suspension.                                      *)
LEMMA PutKeeps ==
  ASSUME IoInv, Put
  PROVE  IoInv'
<1>1. /\ ~ Held /\ available' = available + 1 /\ op' = Wake
      /\ stack' = stack /\ queue' = queue
      /\ taken' = taken /\ handled' = handled
  BY DEF Put
<1>2. op \in [Ops -> OpStates] /\ available \in Nat
  BY TypesOf
<1>3. /\ op' \in [Ops -> OpStates]
      /\ \A o \in Ops : op'[o] # "waiting"
      /\ \A o \in Ops : op[o] # "waiting" => op'[o] = op[o]
      /\ \A o \in Ops : op'[o] = "posted" <=> op[o] = "posted"
  BY <1>1, <1>2 DEF Wake, OpStates
<1>4. \A t \in Threads : ~ RunningInThisThread(t)
  BY <1>1, Zenon DEF Held, RunningInThisThread
<1>5. WaitInStrand'
  <2>1. \A t \in Threads : ~ At(t, "wait")
    BY <1>4 DEF IoInv, WaitInStrand
  <2>2. \A t \in Threads : ~ At(t, "wait")'
    BY <1>1, <2>1 DEF At, Top
  <2>3. QED
    BY <2>2 DEF WaitInStrand
<1>6. Performed'
  <2>1. \A t \in Threads : Busy(t)' => Busy(t) /\ Top(t).op \in Ops
    BY <1>1, TypesOf DEF Busy, Top
  <2>2. \A t \in Threads : Top(t)' = Top(t)
    BY <1>1 DEF Top
  <2>3. QED
    BY <1>3, <2>1, <2>2 DEF IoInv, Performed
<1>7. Queued'
  <2>1. \A i \in 1 .. Len(queue) : queue[i] \in Ops
    BY TypesOf, ElementOfSeq
  <2>2. QED
    BY <1>1, <1>3, <2>1 DEF IoInv, Queued
<1>8. TakenOnce' /\ NoLostWakeup'
  <2>1. {o \in Ops : op'[o] = "posted"} = {o \in Ops : op[o] = "posted"}
    BY <1>3
  <2>2. QED
    BY <1>1, <1>3, <2>1 DEF IoInv, TakenOnce, NoLostWakeup
<1>9. QED
  BY <1>1, <1>2, <1>3, <1>5, <1>6, <1>7, <1>8, TypesOf DEF IoInv, IoTypes

-----------------------------------------------------------------------------
LEMMA NextIoInv ==
  ASSUME IoInv, [Next]_vars
  PROVE  IoInv'
<1>1. CASE UNCHANGED vars
  <2>1. /\ stack' = stack /\ queue' = queue /\ op' = op
        /\ available' = available /\ taken' = taken /\ handled' = handled
    BY <1>1 DEF vars
  <2>2. IoTypes' /\ \A t \in Threads : StackOk(stack[t])'
    BY <2>1 DEF IoInv, IoTypes
  <2>3. Performed' /\ Queued' /\ NoLostWakeup' /\ TakenOnce'
    BY <2>1 DEF IoInv, Performed, Busy, Top, Queued, NoLostWakeup, TakenOnce
  <2>4. WaitInStrand'
    BY <2>1, Zenon DEF IoInv, WaitInStrand, At, Top, RunningInThisThread
  <2>5. QED
    BY <2>2, <2>3, <2>4 DEF IoInv
<1>2. ASSUME NEW t \in Threads, Step(t)
      PROVE  IoInv'
  BY <1>2, DispatchNowKeeps, DispatchLaterKeeps, PerformKeeps,
     PendingWaitKeeps, ReturnKeeps DEF Step
<1>3. ASSUME NEW t \in Threads, RunStrand(t)
      PROVE  IoInv'
  BY <1>3, RunStrandKeeps
<1>4. ASSUME NEW t \in Threads, NEW o \in Ops,
             Initiate(t, o) \/ RunWoken(t, o) \/ RunPosted(t, o)
      PROVE  IoInv'
  BY <1>4, InitiateKeeps, RunWokenKeeps, RunPostedKeeps
<1>5. CASE Put
  BY <1>5, PutKeeps
<1>6. QED
  BY <1>1, <1>2, <1>3, <1>4, <1>5 DEF Next

(* The calls of every thread, the strand's queue and the states of the     *)
(* operations fit together, in every reachable state.                      *)
THEOREM IoInvariant == Spec => []IoInv
<1>1. Init => IoInv
  BY InitIoInv
<1>2. IoInv /\ [Next]_vars => IoInv'
  BY NextIoInv
<1>3. QED
  BY <1>1, <1>2, PTL DEF Spec

(* No unit comes between an operation's look at the session and its        *)
(* suspension, on however many threads (io.hpp:53-58).                     *)
THEOREM WakeupsKept == Spec => []NoLostWakeup
<1>1. IoInv => NoLostWakeup
  BY DEF IoInv
<1>2. QED
  BY <1>1, IoInvariant, PTL

(* Every unit that was taken is reported to exactly one handler, whether   *)
(* it was called in the strand or posted (io.hpp:60-68).                   *)
THEOREM ReportedOnce == Spec => []TakenOnce
<1>1. IoInv => TakenOnce
  BY DEF IoInv
<1>2. QED
  BY <1>1, IoInvariant, PTL

LEMMA FewHandlers ==
  ASSUME NEW s, StackOk(s)
  PROVE  Cardinality({i \in DOMAIN s : s[i].at = "handler"}) <= 2
<1> DEFINE H == {i \in DOMAIN s : s[i].at = "handler"}
<1>1. /\ Len(s) \in 0 .. 3 /\ DOMAIN s = 1 .. Len(s)
      /\ Len(s) = 3 => s[1].at # "handler"
  BY StackFacts DEF StackOk
<1>2. PICK a \in 1 .. 2 : H \subseteq {a, a + 1}
  <2>1. CASE Len(s) = 3
    <3>1. H \subseteq {2, 2 + 1}
      BY <1>1, <2>1
    <3>2. QED
      BY <3>1
  <2>2. CASE Len(s) # 3
    <3>1. H \subseteq {1, 1 + 1}
      BY <1>1, <2>2
    <3>2. QED
      BY <3>1
  <2>3. QED
    BY <2>1, <2>2
<1> HIDE DEF H
<1>3. IsFiniteSet({a}) /\ Cardinality({a}) = 1
  BY FS_Singleton
<1>4. {a} \cup {a + 1} = {a, a + 1} /\ a + 1 \notin {a}
  BY <1>2
<1>5. IsFiniteSet({a, a + 1}) /\ Cardinality({a, a + 1}) = 2
  BY <1>3, <1>4, FS_AddElement
<1>6. Cardinality(H) <= 2
  BY <1>2, <1>5, FS_Subset
<1>7. QED
  BY <1>6 DEF H

(* However long the application chains its operations, a handler runs      *)
(* inside at most one other (io.hpp:53-68).                                *)
THEOREM HandlersBounded == Spec => []HandlersNest
<1>1. IoInv => HandlersNest
  <2>1. IoInv => \A t \in Threads : StackOk(stack[t])
    BY DEF IoInv
  <2>2. QED
    BY <2>1, FewHandlers DEF HandlersNest
<1>2. QED
  BY <1>1, IoInvariant, PTL

-----------------------------------------------------------------------------
(* An io_op is never lost: the state of an operation says where it is, and *)
(* there it is.                                                            *)
Performs(t, o) == Busy(t) /\ Top(t).op = o

SomeonePerforms ==
  \A o \in Ops : op[o] = "running" => \E t \in Threads : Performs(t, o)

InQueue ==
  \A o \in Ops : op[o] = "queued" => \E i \in 1 .. Len(queue) : queue[i] = o

Units == put \in Nat /\ put <= MaxPuts /\ available + taken = put

Placed == SomeonePerforms /\ InQueue /\ Units

(* The operation o moves on, in the thread t or without one.               *)
LEMMA PerformedBySomeone ==
  ASSUME SomeonePerforms, op \in [Ops -> OpStates],
         NEW t \in Threads, NEW o \in Ops, NEW x \in OpStates,
         op' = [op EXCEPT ![o] = x],
         \A u \in Threads \ {t} : stack'[u] = stack[u],
         Busy(t) => Top(t).op = o,
         x = "running" => Performs(t, o)'
  PROVE  SomeonePerforms'
<1> SUFFICES ASSUME NEW q \in Ops, op'[q] = "running"
             PROVE  \E u \in Threads : Performs(u, q)'
  BY DEF SomeonePerforms
<1>1. CASE q = o
  BY <1>1
<1>2. CASE q # o
  <2>1. op[q] = "running"
    BY <1>2
  <2>2. PICK u \in Threads : Performs(u, q)
    BY <2>1 DEF SomeonePerforms
  <2>3. u # t
    BY <1>2, <2>2 DEF Performs
  <2>4. stack'[u] = stack[u]
    BY <2>3
  <2>5. Performs(u, q)'
    BY <2>2, <2>4, Zenon DEF Performs, Busy, Top
  <2>6. QED
    BY <2>5
<1>3. QED
  BY <1>1, <1>2

LEMMA InQueueStill ==
  ASSUME IoInv, InQueue, NEW o \in Ops, NEW x \in OpStates,
         op' = [op EXCEPT ![o] = x], x # "queued", queue' = queue
  PROVE  InQueue'
<1> SUFFICES ASSUME NEW q \in Ops, op'[q] = "queued"
             PROVE  \E i \in 1 .. Len(queue) : queue[i] = q
  BY DEF InQueue
<1>1. op[q] = "queued"
  BY TypesOf
<1>2. QED
  BY <1>1 DEF InQueue

LEMMA InQueueJoined ==
  ASSUME IoInv, InQueue, NEW o \in Ops, Queue(o)
  PROVE  InQueue'
<1>1. /\ queue \in Seq(Ops) /\ op \in [Ops -> OpStates] /\ Len(queue) \in Nat
      /\ queue' = Append(queue, o) /\ op' = [op EXCEPT ![o] = "queued"]
  BY LenProperties DEF IoInv, IoTypes, Queue, Moves
<1>2. /\ Len(queue') = Len(queue) + 1
      /\ \A i \in 1 .. Len(queue) : queue'[i] = queue[i]
      /\ queue'[Len(queue) + 1] = o
  BY <1>1, AppendProperties
<1> SUFFICES ASSUME NEW q \in Ops, op'[q] = "queued"
             PROVE  \E i \in 1 .. Len(queue') : queue'[i] = q
  BY DEF InQueue
<1>3. CASE q = o
  <2>1. Len(queue) + 1 \in 1 .. Len(queue')
    BY <1>1, <1>2
  <2>2. QED
    BY <1>2, <1>3, <2>1
<1>4. CASE q # o
  <2>1. op[q] = "queued"
    BY <1>1, <1>4
  <2>2. PICK i \in 1 .. Len(queue) : queue[i] = q
    BY <2>1 DEF InQueue
  <2>3. i \in 1 .. Len(queue') /\ queue'[i] = q
    BY <1>1, <1>2, <2>2
  <2>4. QED
    BY <2>3
<1>5. QED
  BY <1>3, <1>4

LEMMA InQueueLeft ==
  ASSUME IoInv, InQueue, queue # << >>, NEW x \in OpStates, x # "queued",
         queue' = Tail(queue), op' = [op EXCEPT ![Head(queue)] = x]
  PROVE  InQueue'
<1>1. queue \in Seq(Ops) /\ op \in [Ops -> OpStates] /\ Len(queue) \in Nat
  BY LenProperties DEF IoInv, IoTypes
<1>2. /\ Head(queue) = queue[1] /\ Len(queue') = Len(queue) - 1
      /\ \A i \in 1 .. Len(queue') : queue'[i] = queue[i + 1]
  BY <1>1, EmptySeq, HeadTailProperties
<1> SUFFICES ASSUME NEW q \in Ops, op'[q] = "queued"
             PROVE  \E i \in 1 .. Len(queue') : queue'[i] = q
  BY DEF InQueue
<1>3. q # Head(queue) /\ op[q] = "queued"
  BY <1>1
<1>4. PICK i \in 1 .. Len(queue) : queue[i] = q
  BY <1>3 DEF InQueue
<1>5. i # 1
  BY <1>2, <1>3, <1>4
<1>6. i - 1 \in 1 .. Len(queue') /\ (i - 1) + 1 = i
  BY <1>1, <1>2, <1>5
<1>7. queue'[i - 1] = q
  BY <1>2, <1>4, <1>6
<1>8. QED
  BY <1>6, <1>7

(* What an operation does to the stack of its thread.                      *)
LEMMA StackMoves ==
  ASSUME IoInv, NEW t \in Threads, NEW s, s # << >>,
         stack' = [stack EXCEPT ![t] = s]
  PROVE  /\ \A u \in Threads \ {t} : stack'[u] = stack[u]
         /\ s[1].at # "handler" => Performs(t, s[1].op)'
<1>1. stack'[t] = s /\ \A u \in Threads \ {t} : stack'[u] = stack[u]
  BY TypesOf
<1>2. QED
  BY <1>1, Zenon DEF Performs, Busy, Top

LEMMA InitiatePlaced ==
  ASSUME IoInv, Placed, NEW t \in Threads, NEW o \in Ops, Initiate(t, o)
  PROVE  SomeonePerforms' /\ InQueue'
<1> DEFINE c == [op |-> o, at |-> "begin", start |-> TRUE, strand |-> FALSE]
           s == <<c>> \o stack[t]
<1>1. /\ stack[t] = << >> \/ At(t, "handler")
      /\ stack' = [stack EXCEPT ![t] = s]
      /\ op' = [op EXCEPT ![o] = "running"] /\ queue' = queue
  BY DEF Initiate, Push, Moves
<1>2. /\ c \in Calls /\ c.op = o /\ c.at = "begin"
      /\ c.start = TRUE /\ c.strand = FALSE
  BY Zenon DEF Calls
<1>3. ~ Busy(t) /\ (stack[t] = << >> \/ stack[t][1].at = "handler")
  BY <1>1 DEF Busy, At, Top
<1> HIDE DEF c
<1>4. s # << >> /\ s[1] = c
  BY <1>2, <1>3, TypesOf, PushOk
<1> HIDE DEF s
<1>5. /\ \A u \in Threads \ {t} : stack'[u] = stack[u]
      /\ Performs(t, o)'
  BY <1>1, <1>2, <1>4, StackMoves
<1>6. "running" \in OpStates /\ op \in [Ops -> OpStates]
  BY TypesOf DEF OpStates
<1>7. SomeonePerforms'
  BY <1>1, <1>3, <1>5, <1>6, PerformedBySomeone DEF Placed
<1>8. InQueue'
  BY <1>1, <1>6, InQueueStill DEF Placed
<1>9. QED
  BY <1>7, <1>8

(* The call in the thread t goes on, or is over.                           *)
LEMMA ContinuePlaced ==
  ASSUME IoInv, Placed, NEW t \in Threads, At(t, "begin") \/ At(t, "wait"),
         NEW c, Continue(t, c), c.op = Top(t).op,
         NEW x \in OpStates \ {"queued"},
         op' = [op EXCEPT ![Top(t).op] = x],
         x = "running" => c.at # "handler", queue' = queue
  PROVE  SomeonePerforms' /\ InQueue'
<1> DEFINE s == [stack[t] EXCEPT ![1] = c]
<1>1. /\ Busy(t) /\ stack[t] # << >> /\ Top(t).op \in Ops
      /\ op \in [Ops -> OpStates] /\ StackOk(stack[t])
  BY BusyFacts, TypesOf
<1>2. /\ stack[t] \in Seq(Calls) /\ 1 \in DOMAIN stack[t]
  BY <1>1, StackFacts
<1>3. s[1] = c /\ s # << >>
  BY <1>2
<1>4. PICK o \in Ops : o = Top(t).op
  BY <1>1
<1>5. stack' = [stack EXCEPT ![t] = s]
  BY DEF Continue
<1> HIDE DEF s
<1>6. /\ \A u \in Threads \ {t} : stack'[u] = stack[u]
      /\ c.at # "handler" => Performs(t, o)'
  BY <1>3, <1>4, <1>5, StackMoves
<1>7. SomeonePerforms'
  BY <1>1, <1>4, <1>6, PerformedBySomeone DEF Placed
<1>8. InQueue'
  BY <1>1, InQueueStill DEF Placed
<1>9. QED
  BY <1>7, <1>8

LEMMA PopPlaced ==
  ASSUME IoInv, Placed, NEW t \in Threads, At(t, "begin") \/ At(t, "wait"),
         Pop(t), NEW x \in OpStates \ {"running"}, Moves(Top(t).op, x),
         InQueue'
  PROVE  SomeonePerforms' /\ InQueue'
<1>1. /\ Busy(t) /\ Top(t).op \in Ops /\ op \in [Ops -> OpStates]
      /\ stack \in [Threads -> Seq(Calls)]
  BY BusyFacts, TypesOf
<1>2. \A u \in Threads \ {t} : stack'[u] = stack[u]
  BY <1>1 DEF Pop
<1>3. op' = [op EXCEPT ![Top(t).op] = x]
  BY DEF Moves
<1>4. QED
  BY <1>1, <1>2, <1>3, PerformedBySomeone DEF Placed

LEMMA DispatchNowPlaced ==
  ASSUME IoInv, Placed, NEW t \in Threads, DispatchNow(t)
  PROVE  SomeonePerforms' /\ InQueue'
<1> DEFINE c == [Top(t) EXCEPT !.start = FALSE, !.strand = TRUE]
<1>1. At(t, "begin") /\ Continue(t, c) /\ op' = op /\ queue' = queue
  BY DEF DispatchNow
<1>2. Top(t) \in Calls /\ op' = [op EXCEPT ![Top(t).op] = "running"]
  BY <1>1, BusyFacts
<1>3. c.op = Top(t).op /\ c.at = Top(t).at
  BY <1>2, Zenon DEF Calls
<1>4. c.at # "handler" /\ "running" \in OpStates \ {"queued"}
  BY <1>1, <1>3 DEF At, OpStates
<1> HIDE DEF c
<1>5. QED
  BY <1>1, <1>2, <1>3, <1>4, ContinuePlaced

LEMMA DispatchLaterPlaced ==
  ASSUME IoInv, Placed, NEW t \in Threads, DispatchLater(t)
  PROVE  SomeonePerforms' /\ InQueue'
<1>1. At(t, "begin") /\ Pop(t) /\ Queue(Top(t).op)
  BY DEF DispatchLater
<1>2. Moves(Top(t).op, "queued") /\ "queued" \in OpStates \ {"running"}
  BY <1>1 DEF Queue, OpStates
<1>3. InQueue'
  BY <1>1, BusyFacts, InQueueJoined DEF Placed
<1>4. QED
  BY <1>1, <1>2, <1>3, PopPlaced

LEMMA PerformPlaced ==
  ASSUME IoInv, Placed, NEW t \in Threads, Perform(t)
  PROVE  SomeonePerforms' /\ InQueue'
<1>1. At(t, "begin") /\ queue' = queue
  BY DEF Perform
<1>2. /\ Top(t) \in Calls /\ Top(t).op \in Ops
      /\ op = [op EXCEPT ![Top(t).op] = "running"]
  BY <1>1, BusyFacts
<1>3. /\ "posted" \in OpStates \ {"running", "queued"}
      /\ "idle" \in OpStates \ {"queued"}
      /\ "running" \in OpStates \ {"queued"}
  BY DEF OpStates
<1>4. ASSUME Pop(t), Moves(Top(t).op, "posted")
      PROVE  SomeonePerforms' /\ InQueue'
  <2>1. InQueue'
    BY <1>1, <1>2, <1>3, <1>4, InQueueStill DEF Placed, Moves
  <2>2. QED
    BY <1>1, <1>3, <1>4, <2>1, PopPlaced
<1>5. ASSUME Continue(t, [Top(t) EXCEPT !.at = "handler"]),
             Moves(Top(t).op, "idle")
      PROVE  SomeonePerforms' /\ InQueue'
  <2> DEFINE c == [Top(t) EXCEPT !.at = "handler"]
  <2>1. c.op = Top(t).op
    BY <1>2, Zenon DEF Calls
  <2> HIDE DEF c
  <2>2. QED
    BY <1>1, <1>3, <1>5, <2>1, ContinuePlaced DEF c, Moves
<1>6. ASSUME Continue(t, [Top(t) EXCEPT !.at = "wait"]), op' = op
      PROVE  SomeonePerforms' /\ InQueue'
  <2> DEFINE c == [Top(t) EXCEPT !.at = "wait"]
  <2>1. c.op = Top(t).op /\ c.at = "wait"
    BY <1>2, Zenon DEF Calls
  <2>2. Continue(t, c) /\ op' = [op EXCEPT ![Top(t).op] = "running"]
    BY <1>2, <1>6
  <2> HIDE DEF c
  <2>3. QED
    BY <1>1, <1>3, <2>1, <2>2, ContinuePlaced
<1>7. QED
  BY <1>4, <1>5, <1>6 DEF Perform, Complete

LEMMA PendingWaitPlaced ==
  ASSUME IoInv, Placed, NEW t \in Threads, PendingWait(t)
  PROVE  SomeonePerforms' /\ InQueue'
<1>1. /\ At(t, "wait") /\ Pop(t) /\ Moves(Top(t).op, "waiting")
      /\ queue' = queue
  BY DEF PendingWait
<1>2. /\ "waiting" \in OpStates \ {"running"} /\ "waiting" \in OpStates
      /\ "waiting" # "queued"
  BY DEF OpStates
<1>3. InQueue'
  BY <1>1, <1>2, BusyFacts, InQueueStill DEF Placed, Moves
<1>4. QED
  BY <1>1, <1>2, <1>3, PopPlaced

(* The thread of a handler performs nothing, after its return neither.     *)
LEMMA ReturnPlaced ==
  ASSUME IoInv, Placed, NEW t \in Threads, Return(t)
  PROVE  SomeonePerforms' /\ InQueue'
<1>1. At(t, "handler") /\ Pop(t) /\ op' = op /\ queue' = queue
  BY DEF Return
<1>2. \A u \in Threads \ {t} : stack'[u] = stack[u]
  BY <1>1, TypesOf DEF Pop
<1>3. \A o \in Ops : ~ Performs(t, o)
  BY <1>1 DEF Performs, Busy, At
<1>4. ASSUME NEW o \in Ops, op[o] = "running"
      PROVE  \E u \in Threads : Performs(u, o)'
  <2>1. PICK u \in Threads : Performs(u, o)
    BY <1>4 DEF Placed, SomeonePerforms
  <2>2. stack'[u] = stack[u]
    BY <1>2, <1>3, <2>1
  <2>3. Performs(u, o)'
    BY <2>1, <2>2, Zenon DEF Performs, Busy, Top
  <2>4. QED
    BY <2>3
<1>5. QED
  BY <1>1, <1>4 DEF Placed, SomeonePerforms, InQueue

(* A thread without calls starts one.                                      *)
LEMMA StartPlaced ==
  ASSUME IoInv, Placed, NEW t \in Threads, stack[t] = << >>,
         NEW c \in Calls, Push(t, c), NEW x \in OpStates, Moves(c.op, x),
         x = "running" => c.at # "handler", InQueue'
  PROVE  SomeonePerforms' /\ InQueue'
<1> DEFINE s == <<c>> \o stack[t]
<1>1. s # << >> /\ s[1] = c
  BY TypesOf, PushOk
<1>2. stack' = [stack EXCEPT ![t] = s] /\ op' = [op EXCEPT ![c.op] = x]
  BY DEF Push, Moves
<1> HIDE DEF s
<1>3. /\ \A u \in Threads \ {t} : stack'[u] = stack[u]
      /\ c.at # "handler" => Performs(t, c.op)'
  BY <1>1, <1>2, StackMoves
<1>4. ~ Busy(t) /\ c.op \in Ops /\ op \in [Ops -> OpStates]
  BY CallFields, TypesOf DEF Busy
<1>5. QED
  BY <1>2, <1>3, <1>4, PerformedBySomeone DEF Placed

LEMMA RunStrandPlaced ==
  ASSUME IoInv, Placed, NEW t \in Threads, RunStrand(t)
  PROVE  SomeonePerforms' /\ InQueue'
<1> DEFINE o == Head(queue)
<1>1. /\ stack[t] = << >> /\ queue # << >> /\ Push(t, Redispatched(o))
      /\ queue' = Tail(queue) /\ Moves(o, "running")
  BY DEF RunStrand
<1>2. "running" \in OpStates /\ "running" # "queued"
  BY DEF OpStates
<1>3. o \in Ops
  BY <1>1, <1>2, QueueLeft DEF Moves
<1>4. InQueue'
  BY <1>1, <1>2, InQueueLeft DEF Placed, Moves
<1> HIDE DEF o
<1>5. /\ Redispatched(o) \in Calls /\ Redispatched(o).op = o
      /\ Redispatched(o).at = "begin"
  BY <1>3, RedispatchedFacts
<1>6. QED
  BY <1>1, <1>2, <1>4, <1>5, StartPlaced

LEMMA RunWokenPlaced ==
  ASSUME IoInv, Placed, NEW t \in Threads, NEW o \in Ops, RunWoken(t, o)
  PROVE  SomeonePerforms' /\ InQueue'
<1>1. stack[t] = << >> /\ op[o] = "woken" /\ op \in [Ops -> OpStates]
  BY TypesOf DEF RunWoken
<1>2. "running" \in OpStates /\ "queued" \in OpStates
  BY DEF OpStates
<1>3. CASE Free
  <2>1. Push(t, Redispatched(o)) /\ Moves(o, "running") /\ queue' = queue
    BY <1>3 DEF RunWoken
  <2>2. InQueue'
    BY <1>2, <2>1, InQueueStill DEF Placed, Moves
  <2>3. /\ Redispatched(o) \in Calls /\ Redispatched(o).op = o
        /\ Redispatched(o).at = "begin"
    BY RedispatchedFacts
  <2>4. QED
    BY <1>1, <1>2, <2>1, <2>2, <2>3, StartPlaced
<1>4. CASE ~ Free
  <2>1. Queue(o) /\ stack' = stack /\ op' = [op EXCEPT ![o] = "queued"]
    BY <1>4 DEF RunWoken, Queue, Moves
  <2>2. InQueue'
    BY <2>1, InQueueJoined DEF Placed
  <2>3. ~ Busy(t)
    BY <1>1 DEF Busy
  <2>4. SomeonePerforms'
    BY <1>1, <1>2, <2>1, <2>3, PerformedBySomeone DEF Placed
  <2>5. QED
    BY <2>2, <2>4
<1>5. QED
  BY <1>3, <1>4

LEMMA RunPostedPlaced ==
  ASSUME IoInv, Placed, NEW t \in Threads, NEW o \in Ops, RunPosted(t, o)
  PROVE  SomeonePerforms' /\ InQueue'
<1> DEFINE c == [op |-> o, at |-> "handler", start |-> FALSE, strand |-> FALSE]
<1>1. /\ stack[t] = << >> /\ Push(t, c) /\ Moves(o, "idle")
      /\ queue' = queue
  BY DEF RunPosted
<1>2. c \in Calls /\ c.op = o
  BY Zenon DEF Calls
<1>3. "idle" \in OpStates /\ "idle" # "queued" /\ "idle" # "running"
  BY DEF OpStates
<1>4. InQueue'
  BY <1>1, <1>3, InQueueStill DEF Placed, Moves
<1> HIDE DEF c
<1>5. QED
  BY <1>1, <1>2, <1>3, <1>4, StartPlaced

LEMMA PutPlaced ==
  ASSUME IoInv, Placed, Put
  PROVE  SomeonePerforms' /\ InQueue'
<1>1. op' = Wake /\ stack' = stack /\ queue' = queue
  BY DEF Put
<1>2. \A o \in Ops : /\ op'[o] = "running" <=> op[o] = "running"
                     /\ op'[o] = "queued" <=> op[o] = "queued"
  BY <1>1 DEF Wake
<1>3. \A t \in Threads, o \in Ops : Performs(t, o) => Performs(t, o)'
  BY <1>1, Zenon DEF Performs, Busy, Top
<1>4. QED
  BY <1>1, <1>2, <1>3 DEF Placed, SomeonePerforms, InQueue

(* Every unit that was put is in the session or was taken.                 *)
LEMMA UnitsStep ==
  ASSUME IoInv, Placed, [Next]_vars
  PROVE  Units'
<1>1. /\ put \in Nat /\ put <= MaxPuts /\ available + taken = put
      /\ available \in Nat /\ taken \in Nat /\ MaxPuts \in Nat
  BY TypesOf, IoAssumption DEF Placed, Units
<1>2. \/ available' = available /\ taken' = taken /\ put' = put
      \/ /\ available > 0 /\ put' = put
         /\ available' = available - 1 /\ taken' = taken + 1
      \/ /\ put < MaxPuts /\ put' = put + 1
         /\ available' = available + 1 /\ taken' = taken
  BY Zenon
  DEF Next, vars, Step, DispatchNow, DispatchLater, Perform, PendingWait,
      Return, RunStrand, RunWoken, RunPosted, Initiate, Put
<1>3. QED
  BY <1>1, <1>2 DEF Units

LEMMA InitPlaced == Init => Placed
<1> SUFFICES ASSUME Init PROVE Placed
  OBVIOUS
<1>1. \A o \in Ops : op[o] = "idle"
  BY DEF Init
<1>2. put = 0 /\ available = 0 /\ taken = 0
  BY DEF Init
<1>3. QED
  BY <1>1, <1>2, IoAssumption DEF Placed, SomeonePerforms, InQueue, Units

LEMMA NextPlaced ==
  ASSUME IoInv, Placed, [Next]_vars
  PROVE  Placed'
<1>1. CASE UNCHANGED vars
  <2>1. stack' = stack /\ queue' = queue /\ op' = op
    BY <1>1 DEF vars
  <2>2. \A t \in Threads, o \in Ops : Performs(t, o) => Performs(t, o)'
    BY <2>1, Zenon DEF Performs, Busy, Top
  <2>3. SomeonePerforms' /\ InQueue'
    BY <2>1, <2>2 DEF Placed, SomeonePerforms, InQueue
  <2>4. QED
    BY <2>3, UnitsStep DEF Placed
<1>2. ASSUME NEW t \in Threads, Step(t)
      PROVE  SomeonePerforms' /\ InQueue'
  BY <1>2, DispatchNowPlaced, DispatchLaterPlaced, PerformPlaced,
     PendingWaitPlaced, ReturnPlaced DEF Step
<1>3. ASSUME NEW t \in Threads, RunStrand(t)
      PROVE  SomeonePerforms' /\ InQueue'
  BY <1>3, RunStrandPlaced
<1>4. ASSUME NEW t \in Threads, NEW o \in Ops,
             Initiate(t, o) \/ RunWoken(t, o) \/ RunPosted(t, o)
      PROVE  SomeonePerforms' /\ InQueue'
  BY <1>4, InitiatePlaced, RunWokenPlaced, RunPostedPlaced
<1>5. ASSUME Put
      PROVE  SomeonePerforms' /\ InQueue'
  BY <1>5, PutPlaced
<1>6. QED
  BY <1>1, <1>2, <1>3, <1>4, <1>5, UnitsStep DEF Next, Placed

-----------------------------------------------------------------------------
(* There is one place for an operation in the queue, and one thread that   *)
(* performs it.                                                            *)
LEMMA OnceQueued ==
  ASSUME IoInv, Placed, NEW o \in Ops
  PROVE  Cardinality({i \in DOMAIN queue : queue[i] = o})
           = IF op[o] = "queued" THEN 1 ELSE 0
<1>1. DOMAIN queue = 1 .. Len(queue)
  BY TypesOf, LenProperties
<1>2. CASE op[o] = "queued"
  <2>1. PICK k \in 1 .. Len(queue) : queue[k] = o
    BY <1>2 DEF Placed, InQueue
  <2>2. {i \in DOMAIN queue : queue[i] = o} = {k}
    BY <1>1, <2>1 DEF IoInv, Queued
  <2>3. QED
    BY <1>2, <2>2, FS_Singleton
<1>3. CASE op[o] # "queued"
  <2>1. {i \in DOMAIN queue : queue[i] = o} = {}
    BY <1>1, <1>3 DEF IoInv, Queued
  <2>2. QED
    BY <1>3, <2>1, FS_EmptySet
<1>4. QED
  BY <1>2, <1>3

LEMMA OnTopOnly ==
  ASSUME IoInv, NEW t \in Threads, NEW o \in Ops
  PROVE  (\E i \in DOMAIN stack[t] :
            stack[t][i].op = o /\ stack[t][i].at # "handler")
           <=> Performs(t, o)
<1>1. /\ StackOk(stack[t]) /\ Len(stack[t]) \in 0 .. 3
      /\ DOMAIN stack[t] = 1 .. Len(stack[t])
      /\ stack[t] # << >> => Len(stack[t]) >= 1
  BY TypesOf, StackFacts
<1>2. Performs(t, o) => 1 \in DOMAIN stack[t]
  BY <1>1 DEF Performs, Busy
<1>3. ASSUME NEW i \in DOMAIN stack[t], stack[t][i].at # "handler"
      PROVE  i = 1 /\ stack[t] # << >>
  <2>1. i = 1 \/ i \in 2 .. Len(stack[t])
    BY <1>1
  <2>2. i = 1
    BY <1>1, <1>3, <2>1 DEF StackOk
  <2>3. stack[t] # << >>
    BY <1>1, EmptySeq
  <2>4. QED
    BY <2>2, <2>3
<1>4. QED
  BY <1>2, <1>3 DEF Performs, Busy, Top

LEMMA OncePerformed ==
  ASSUME IoInv, Placed, NEW o \in Ops
  PROVE  Cardinality({t \in Threads : \E i \in DOMAIN stack[t] :
                        stack[t][i].op = o /\ stack[t][i].at # "handler"})
           = IF op[o] = "running" THEN 1 ELSE 0
<1>1. {t \in Threads : \E i \in DOMAIN stack[t] :
         stack[t][i].op = o /\ stack[t][i].at # "handler"}
        = {t \in Threads : Performs(t, o)}
  BY OnTopOnly
<1>2. CASE op[o] = "running"
  <2>1. PICK u \in Threads : Performs(u, o)
    BY <1>2 DEF Placed, SomeonePerforms
  <2>2. {t \in Threads : Performs(t, o)} = {u}
    BY <2>1 DEF IoInv, Performed, Performs
  <2>3. QED
    BY <1>1, <1>2, <2>2, FS_Singleton
<1>3. CASE op[o] # "running"
  <2>1. {t \in Threads : Performs(t, o)} = {}
    BY <1>3 DEF IoInv, Performed, Performs
  <2>2. QED
    BY <1>1, <1>3, <2>1, FS_EmptySet
<1>4. QED
  BY <1>2, <1>3

(* The state of every operation tells where the io_op is, and it is there, *)
(* once: moved from call to call it is neither lost nor copied             *)
(* (io.hpp:50-69).                                                         *)
THEOREM OperationsExistOnce == Spec => []TypeOK
<1>1. Init => Placed
  BY InitPlaced
<1>2. IoInv /\ Placed /\ [Next]_vars => Placed'
  BY NextPlaced
<1>3. IoInv /\ Placed => TypeOK
  <2> SUFFICES ASSUME IoInv, Placed PROVE TypeOK
    OBVIOUS
  <2>1. /\ \A t \in Threads : stack[t] \in Seq(Calls)
        /\ queue \in Seq(Ops) /\ op \in [Ops -> OpStates]
    BY TypesOf
  <2>2. available \in 0 .. MaxPuts
    BY TypesOf, IoAssumption DEF Placed, Units
  <2>3. QED
    BY <2>1, <2>2, OnceQueued, OncePerformed DEF TypeOK
<1>4. QED
  BY <1>1, <1>2, <1>3, IoInvariant, PTL DEF Spec
=============================================================================
