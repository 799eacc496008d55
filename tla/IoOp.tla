-------------------------------- MODULE IoOp --------------------------------
(***************************************************************************)
(* The operations of a stream (detail/io.hpp) on the threads that run the  *)
(* io_service: io_op's call operator, which the initiating function, the   *)
(* session strand, the cancelled pending_ready_* timer and post() call.    *)
(*                                                                         *)
(* read(), write() and close() are reduced here to taking a unit, or       *)
(* wanting one; the session's modules say what they do.  The strand and    *)
(* the io_service are Boost.Asio's: dispatch() runs a function at once in  *)
(* a thread of the io_service when the strand is free, and queues it       *)
(* otherwise.                                                              *)
(***************************************************************************)
EXTENDS Naturals, Sequences, FiniteSets

CONSTANTS
  Threads,    \* threads, in io_service::run() or the application's own
  Ops,        \* the operations that may be outstanding at the same time
  MaxStarts,  \* bound: operations started
  MaxPuts     \* bound: units put

ASSUME IoAssumption ==
  IsFiniteSet(Ops) /\ MaxStarts \in Nat /\ MaxPuts \in Nat

VARIABLES
  stack,      \* the calls on the stack of each thread, the innermost first
  queue,      \* operations in the strand's queue
  op,         \* where each io_op is
  available,  \* units in the session
  taken,      \* history: units taken
  handled,    \* history: handlers called
  started,    \* history: operations started
  put         \* history: units put

vars == <<stack, queue, op, available, taken, handled, started, put>>

(* A call of io_op: it was started directly by the initiating function, or *)
(* not; it holds the strand, or not; and it is at the begin of the call    *)
(* operator, before async_pending_wait(), or in the application's handler. *)
Calls == [op : Ops, at : {"begin", "wait", "handler"},
          start : BOOLEAN, strand : BOOLEAN]

OpStates == {"idle", "running", "queued", "waiting", "woken", "posted"}

Init ==
  /\ stack = [t \in Threads |-> <<>>]
  /\ queue = <<>>
  /\ op = [o \in Ops |-> "idle"]
  /\ available = 0
  /\ taken = 0 /\ handled = 0 /\ started = 0 /\ put = 0

-----------------------------------------------------------------------------
(* The strand and the stacks.                                              *)

\* Mutant: operations do not ask for the strand.
AlwaysInStrand(t) == TRUE
RunningInThisThread(t) == \E i \in DOMAIN stack[t] : stack[t][i].strand

Held == \E t \in Threads : \E i \in DOMAIN stack[t] : stack[t][i].strand
Free == ~ Held /\ queue = <<>>

Top(t) == stack[t][1]

At(t, step) == stack[t] # <<>> /\ Top(t).at = step

Push(t, call) == stack' = [stack EXCEPT ![t] = <<call>> \o @]
Pop(t) == stack' = [stack EXCEPT ![t] = Tail(@)]
Continue(t, call) == stack' = [stack EXCEPT ![t][1] = call]

Moves(o, state) == op' = [op EXCEPT ![o] = state]

\* Mutant: the strand is not given the operation.
QueueNothing(o) == UNCHANGED queue /\ Moves(o, "queued")
Queue(o) == queue' = Append(queue, o) /\ Moves(o, "queued")

-----------------------------------------------------------------------------
(* The initiating function: async_read_some() and the like.                *)
Initiate(t, o) ==
  /\ stack[t] = <<>> \/ At(t, "handler")
  /\ op[o] = "idle" /\ started < MaxStarts
  /\ Push(t, [op |-> o, at |-> "begin", start |-> TRUE, strand |-> FALSE])
  /\ Moves(o, "running")
  /\ started' = started + 1
  /\ UNCHANGED <<queue, available, taken, handled, put>>

(* Outside of the strand the operation is dispatched: the copy that the    *)
(* strand calls has the default arguments, so start is lost.  Whether a    *)
(* thread that calls from outside of any handler is one of the io_service, *)
(* which may dispatch at once, is open.                                    *)
DispatchNow(t) ==
  /\ At(t, "begin") /\ ~ RunningInThisThread(t) /\ Free
  /\ Continue(t, [Top(t) EXCEPT !.start = FALSE, !.strand = TRUE])
  /\ UNCHANGED <<queue, op, available, taken, handled, started, put>>

\* Mutant: the call operator goes on after the dispatch.
DispatchAndPerform(t) ==
  /\ At(t, "begin") /\ ~ RunningInThisThread(t)
  /\ ~ Free \/ Len(stack[t]) = 1
  /\ Continue(t, [Top(t) EXCEPT !.strand = TRUE])
  /\ Queue(Top(t).op)
  /\ UNCHANGED <<available, taken, handled, started, put>>
DispatchLater(t) ==
  /\ At(t, "begin") /\ ~ RunningInThisThread(t)
  /\ ~ Free \/ Len(stack[t]) = 1
  /\ Pop(t)
  /\ Queue(Top(t).op)
  /\ UNCHANGED <<available, taken, handled, started, put>>

(* The operation in the strand, when it wants nothing any more: the        *)
(* handler is called, or posted when the application waits for the         *)
(* initiating function to return.                                          *)
\* Mutant: the handler is called at once.
CompleteNow(t) ==
  /\ Continue(t, [Top(t) EXCEPT !.at = "handler"])
  /\ Moves(Top(t).op, "idle")
  /\ handled' = handled + 1
Complete(t) ==
  IF Top(t).start
  THEN Pop(t) /\ Moves(Top(t).op, "posted") /\ UNCHANGED handled
  ELSE /\ Continue(t, [Top(t) EXCEPT !.at = "handler"])
       /\ Moves(Top(t).op, "idle")
       /\ handled' = handled + 1

Perform(t) ==
  /\ At(t, "begin") /\ RunningInThisThread(t)
  /\ \/ /\ available > 0
        /\ available' = available - 1 /\ taken' = taken + 1
        /\ Complete(t)
     \/ /\ available = 0
        /\ Continue(t, [Top(t) EXCEPT !.at = "wait"])
        /\ UNCHANGED <<op, available, taken, handled>>
  /\ UNCHANGED <<queue, started, put>>

PendingWait(t) ==
  /\ At(t, "wait")
  /\ Pop(t) /\ Moves(Top(t).op, "waiting")
  /\ UNCHANGED <<queue, available, taken, handled, started, put>>

(* The application's handler returns.                                      *)
Return(t) ==
  /\ At(t, "handler")
  /\ Pop(t)
  /\ UNCHANGED <<queue, op, available, taken, handled, started, put>>

-----------------------------------------------------------------------------
(* A thread of the io_service takes what is ready.                         *)

Redispatched(o) == [op |-> o, at |-> "begin", start |-> FALSE, strand |-> TRUE]

RunStrand(t) ==
  /\ stack[t] = <<>> /\ queue # <<>> /\ ~ Held
  /\ Push(t, Redispatched(Head(queue)))
  /\ queue' = Tail(queue)
  /\ Moves(Head(queue), "running")
  /\ UNCHANGED <<available, taken, handled, started, put>>

(* The handler of the cancelled timer is wrapped by the strand.            *)
RunWoken(t, o) ==
  /\ stack[t] = <<>> /\ op[o] = "woken"
  /\ IF Free
     THEN Push(t, Redispatched(o)) /\ Moves(o, "running") /\ UNCHANGED queue
     ELSE Queue(o) /\ UNCHANGED stack
  /\ UNCHANGED <<available, taken, handled, started, put>>

(* The posted operation is finished and calls its handler, outside of the  *)
(* strand.                                                                 *)
\* Mutant: finished_ is lost, so the operation is performed again.
RunPostedAgain(t, o) ==
  /\ stack[t] = <<>> /\ op[o] = "posted"
  /\ Push(t, [op |-> o, at |-> "begin", start |-> FALSE, strand |-> FALSE])
  /\ Moves(o, "running")
  /\ UNCHANGED <<queue, available, taken, handled, started, put>>
RunPosted(t, o) ==
  /\ stack[t] = <<>> /\ op[o] = "posted"
  /\ Push(t, [op |-> o, at |-> "handler", start |-> FALSE, strand |-> FALSE])
  /\ Moves(o, "idle")
  /\ handled' = handled + 1
  /\ UNCHANGED <<queue, available, taken, started, put>>

(* A handler of the session in its strand, between two others: a unit is   *)
(* put and the suspended operations are woken.                             *)
Wake == [o \in Ops |-> IF op[o] = "waiting" THEN "woken" ELSE op[o]]

Put ==
  /\ put < MaxPuts /\ ~ Held
  /\ available' = available + 1 /\ put' = put + 1
  /\ op' = Wake
  /\ UNCHANGED <<stack, queue, taken, handled, started>>

-----------------------------------------------------------------------------
Step(t) ==
  \/ DispatchNow(t) \/ DispatchLater(t) \/ Perform(t) \/ PendingWait(t)
  \/ Return(t)

Next ==
  \/ \E t \in Threads :
       \/ Step(t) \/ RunStrand(t)
       \/ \E o \in Ops : Initiate(t, o) \/ RunWoken(t, o) \/ RunPosted(t, o)
  \/ Put

Spec == Init /\ [][Next]_vars

(* A thread goes on with what it runs, handlers return, and the threads    *)
(* of the io_service take what is ready.                                   *)
FairSpec ==
  /\ Spec
  /\ \A t \in Threads : WF_vars(Step(t))
  /\ WF_vars(\E t \in Threads : RunStrand(t))
  /\ \A o \in Ops : WF_vars(\E t \in Threads : RunWoken(t, o) \/ RunPosted(t, o))

-----------------------------------------------------------------------------
(* Types; and an io_op, which is moved from call to call, exists once: in  *)
(* the call that performs it, in the queue, on its timer or posted.        *)
TypeOK ==
  /\ \A t \in Threads : stack[t] \in Seq(Calls)
  /\ queue \in Seq(Ops) /\ op \in [Ops -> OpStates]
  /\ available \in 0 .. MaxPuts
  /\ \A o \in Ops :
       /\ Cardinality({i \in DOMAIN queue : queue[i] = o})
            = IF op[o] = "queued" THEN 1 ELSE 0
       /\ Cardinality({t \in Threads : \E i \in DOMAIN stack[t] :
                         stack[t][i].op = o /\ stack[t][i].at # "handler"})
            = IF op[o] = "running" THEN 1 ELSE 0

(* An operation that is suspended found nothing, and nothing has come      *)
(* since: op_ and async_pending_wait() are one handler of the strand       *)
(* (io.hpp:53-58), from wherever the operation was started.                *)
NoLostWakeup == (\E o \in Ops : op[o] = "waiting") => available = 0

(* Every unit taken is reported to one handler, by an operation that was   *)
(* posted as well (io.hpp:60-68).                                          *)
TakenOnce == taken = handled + Cardinality({o \in Ops : op[o] = "posted"})

(* However long the application chains its operations, a handler runs      *)
(* inside at most one other: one that was posted, so that the operation it *)
(* starts may be dispatched, and completed, inside (io.hpp:53-68).         *)
HandlersNest ==
  \A t \in Threads :
    Cardinality({i \in DOMAIN stack[t] : stack[t][i].at = "handler"}) <= 2

(* When units have come for all, every operation that was started          *)
(* completes.                                                              *)
OperationsComplete ==
  \A o \in Ops : put >= MaxStarts /\ op[o] # "idle" ~> op[o] = "idle"
=============================================================================
