------------------------------ MODULE WaitPool ------------------------------
(***************************************************************************)
(* The bounded pool of device/pools.go: Get blocks while max objects are   *)
(* out, Put returns one and wakes a waiter.  The objects themselves are    *)
(* kept by sync.Pool and are left out; what matters is the count, the lock *)
(* and the condition variable, whose list of waiters is first in first out.*)
(*                                                                         *)
(* Get holds the lock from its test of the count until it has joined the   *)
(* waiters; Put changes the count and signals without the lock.            *)
(***************************************************************************)
EXTENDS Naturals, Sequences, FiniteSets

CONSTANTS Workers,  \* the goroutines that take objects and put them back
          None,     \* no goroutine
          max,      \* WaitPool.max, PreallocatedBuffersPerPool
          Trials    \* bound: how often a worker takes an object

ASSUME WaitPoolAssumption == max \in Nat \ {0} /\ Trials \in Nat /\ None \notin Workers

VARIABLES pc,       \* what a worker does next
          count,    \* WaitPool.count
          lock,     \* the worker that holds WaitPool.lock, or none
          waiters,  \* the notify list of WaitPool.cond
          trials    \* how often a worker may still take an object

vars == <<pc, count, lock, waiters, trials>>

Steps == {"idle", "check", "enlist", "waiting", "relock", "hold", "count", "signal"}

Init ==
    /\ pc = [w \in Workers |-> "idle"]
    /\ count = 0
    /\ lock = None
    /\ waiters = <<>>
    /\ trials = [w \in Workers |-> Trials]

Goto(w, step) == pc' = [pc EXCEPT ![w] = step]

-----------------------------------------------------------------------------
(* Get *)

Get(w) ==
    /\ pc[w] = "idle" /\ trials[w] > 0 /\ lock = None
    /\ lock' = w
    /\ trials' = [trials EXCEPT ![w] = @ - 1]
    /\ Goto(w, "check")
    /\ UNCHANGED <<count, waiters>>

HasRoom == count < max

\* There is room: the object is counted and the lock released.
Take(w) ==
    /\ pc[w] = "check" /\ HasRoom
    /\ count' = count + 1
    /\ lock' = None
    /\ Goto(w, "hold")
    /\ UNCHANGED <<waiters, trials>>

\* There is none: cond.Wait comes next.
Full(w) ==
    /\ pc[w] = "check" /\ ~HasRoom
    /\ Goto(w, "enlist")
    /\ UNCHANGED <<count, lock, waiters, trials>>

\* cond.Wait joins the notify list, then releases the lock and sleeps.
Wait(w) ==
    /\ pc[w] = "enlist"
    /\ waiters' = Append(waiters, w)
    /\ lock' = None
    /\ Goto(w, "waiting")
    /\ UNCHANGED <<count, trials>>

\* A worker that was woken takes the lock and tests the count again.
Relock(w) ==
    /\ pc[w] = "relock" /\ lock = None
    /\ lock' = w
    /\ Goto(w, "check")
    /\ UNCHANGED <<count, waiters, trials>>

-----------------------------------------------------------------------------
(* Put *)

Put(w) ==
    /\ pc[w] = "hold"
    /\ Goto(w, "count")
    /\ UNCHANGED <<count, lock, waiters, trials>>

\* Fault: the object is not counted back.
KeepCount(w) ==
    /\ pc[w] = "count"
    /\ Goto(w, "signal")
    /\ UNCHANGED <<count, lock, waiters, trials>>

\* count.Add(^uint32(0)), without the lock.
CountDown(w) ==
    /\ pc[w] = "count"
    /\ count' = count - 1
    /\ Goto(w, "signal")
    /\ UNCHANGED <<lock, waiters, trials>>

\* cond.Signal wakes the worker that has waited longest, if any.
Signal(w) ==
    /\ pc[w] = "signal"
    /\ IF waiters = <<>>
       THEN Goto(w, "idle") /\ UNCHANGED waiters
       ELSE /\ pc' = [pc EXCEPT ![w] = "idle", ![Head(waiters)] = "relock"]
            /\ waiters' = Tail(waiters)
    /\ UNCHANGED <<count, lock, trials>>

-----------------------------------------------------------------------------
Step(w) ==
    \/ Get(w) \/ Take(w) \/ Full(w) \/ Wait(w) \/ Relock(w)
    \/ Put(w) \/ CountDown(w) \/ Signal(w)

Next == \E w \in Workers : Step(w)

Spec == Init /\ [][Next]_vars

-----------------------------------------------------------------------------
(* Properties *)

TypeOK ==
    /\ pc \in [Workers -> Steps]
    /\ count \in 0 .. max
    /\ lock \in Workers \cup {None}
    /\ waiters \in Seq(Workers)
    /\ trials \in [Workers -> 0 .. Trials]

Holding == {w \in Workers : pc[w] \in {"hold", "count"}}

\* The count is the number of objects that are out, so that no more than max are,
\* although Put changes it without the lock Get tests it under.
CountIsOut == count = Cardinality(Holding) /\ Cardinality(Holding) <= max

=============================================================================
