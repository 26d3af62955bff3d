--------------------------- MODULE WaitPoolProofs ---------------------------
(***************************************************************************)
(* The count of WaitPool is the number of objects that are out, and at     *)
(* most max are, for any set of workers and any max.  Put changes the      *)
(* count without the lock; what a signal does to the worker it wakes is    *)
(* harmless because the list of waiters holds each of them once, and only  *)
(* workers that wait: the invariant carries that too.                      *)
(***************************************************************************)
EXTENDS WaitPool, FiniteSetTheorems, TLAPS

WaitersWait ==
    /\ waiters \in Seq(Workers)
    /\ \A i \in 1 .. Len(waiters) : pc[waiters[i]] = "waiting"
    /\ \A i, j \in 1 .. Len(waiters) : waiters[i] = waiters[j] => i = j

Counted == IsFiniteSet(Holding) /\ count = Cardinality(Holding) /\ count <= max

Inv == pc \in [Workers -> Steps] /\ WaitersWait /\ Counted

LEMMA InitInv == Init => Inv
  <1> SUFFICES ASSUME Init PROVE Inv
    OBVIOUS
  <1>1. Holding = {}
    BY DEF Init, Holding
  <1>2. Counted
    BY <1>1, FS_EmptySet, WaitPoolAssumption DEF Init, Counted
  <1>3. pc \in [Workers -> Steps] /\ WaitersWait
    BY DEF Init, Steps, WaitersWait
  <1> QED BY <1>2, <1>3 DEF Inv

LEMMA CountType == Counted => count \in Nat
  BY FS_CardinalityType DEF Counted

\* A step of worker w to step s: the other workers stay where they are.
LEMMA GotoFacts ==
    ASSUME NEW w \in Workers, NEW s \in Steps, pc \in [Workers -> Steps], Goto(w, s)
    PROVE  /\ pc' \in [Workers -> Steps] /\ pc'[w] = s
           /\ \A v \in Workers \ {w} : pc'[v] = pc[v]
           /\ Holding' = IF s \in {"hold", "count"} THEN Holding \cup {w} ELSE Holding \ {w}
  <1>1. pc' \in [Workers -> Steps] /\ pc'[w] = s /\ \A v \in Workers \ {w} : pc'[v] = pc[v]
    BY DEF Goto
  <1> QED BY <1>1 DEF Holding

\* A worker that does not wait moves, to a step that is no wait: the list stays as it is.
LEMMA WaitersStay ==
    ASSUME NEW w \in Workers, WaitersWait, pc[w] # "waiting", UNCHANGED waiters,
           \A v \in Workers \ {w} : pc'[v] = pc[v]
    PROVE  WaitersWait'
  <1>1. \A i \in 1 .. Len(waiters) : waiters[i] \in Workers \ {w}
    BY DEF WaitersWait
  <1> QED BY <1>1 DEF WaitersWait

\* A step between two steps of which both hold an object or none does.
LEMMA HoldingStays ==
    ASSUME NEW w \in Workers, NEW s \in Steps, pc \in [Workers -> Steps], Goto(w, s), Counted, UNCHANGED count,
           (pc[w] \in {"hold", "count"}) <=> (s \in {"hold", "count"})
    PROVE  Counted'
  <1>1. Holding' = Holding
    BY GotoFacts DEF Holding
  <1> QED BY <1>1 DEF Counted

LEMMA QuietStep ==
    ASSUME Inv, NEW w \in Workers, Get(w) \/ Full(w) \/ Relock(w) \/ Put(w)
    PROVE  Inv'
  <1> USE DEF Steps
  <1>1. PICK s \in {"check", "enlist", "count"} :
          /\ Goto(w, s) /\ UNCHANGED <<count, waiters>> /\ pc[w] # "waiting"
          /\ (pc[w] \in {"hold", "count"}) <=> (s \in {"hold", "count"})
    BY DEF Get, Full, Relock, Put
  <1>2. pc \in [Workers -> Steps] /\ WaitersWait /\ Counted
    BY DEF Inv
  <1>3. pc' \in [Workers -> Steps] /\ \A v \in Workers \ {w} : pc'[v] = pc[v]
    BY <1>1, <1>2, GotoFacts
  <1>4. WaitersWait'
    BY <1>1, <1>2, <1>3, WaitersStay
  <1>5. Counted'
    BY <1>1, <1>2, HoldingStays
  <1> QED BY <1>3, <1>4, <1>5 DEF Inv

LEMMA TakeStep ==
    ASSUME Inv, NEW w \in Workers, Take(w)
    PROVE  Inv'
  <1>1. pc[w] = "check" /\ count < max /\ count' = count + 1 /\ Goto(w, "hold") /\ UNCHANGED waiters
    BY DEF Take, HasRoom
  <1>2. pc \in [Workers -> Steps] /\ WaitersWait /\ Counted /\ "hold" \in Steps
    BY DEF Inv, Steps
  <1>3. pc' \in [Workers -> Steps] /\ (\A v \in Workers \ {w} : pc'[v] = pc[v]) /\ Holding' = Holding \cup {w}
    BY <1>1, <1>2, GotoFacts
  <1>4. w \notin Holding
    BY <1>1 DEF Holding
  <1>5. IsFiniteSet(Holding') /\ Cardinality(Holding') = Cardinality(Holding) + 1
    BY <1>2, <1>3, <1>4, FS_AddElement DEF Counted
  <1>6. Counted'
    BY <1>1, <1>2, <1>5, CountType, WaitPoolAssumption DEF Counted
  <1>7. WaitersWait'
    BY <1>1, <1>2, <1>3, WaitersStay
  <1> QED BY <1>3, <1>6, <1>7 DEF Inv

LEMMA CountDownStep ==
    ASSUME Inv, NEW w \in Workers, CountDown(w)
    PROVE  Inv'
  <1>1. pc[w] = "count" /\ count' = count - 1 /\ Goto(w, "signal") /\ UNCHANGED waiters
    BY DEF CountDown
  <1>2. pc \in [Workers -> Steps] /\ WaitersWait /\ Counted /\ "signal" \in Steps
    BY DEF Inv, Steps
  <1>3. pc' \in [Workers -> Steps] /\ (\A v \in Workers \ {w} : pc'[v] = pc[v]) /\ Holding' = Holding \ {w}
    BY <1>1, <1>2, GotoFacts
  <1>4. w \in Holding
    BY <1>1 DEF Holding
  <1>5. IsFiniteSet(Holding') /\ Cardinality(Holding') = Cardinality(Holding) - 1
    BY <1>2, <1>3, <1>4, FS_RemoveElement DEF Counted
  <1>6. Counted'
    BY <1>1, <1>2, <1>5, CountType, WaitPoolAssumption DEF Counted
  <1>7. WaitersWait'
    BY <1>1, <1>2, <1>3, WaitersStay
  <1> QED BY <1>3, <1>6, <1>7 DEF Inv

LEMMA WaitStep ==
    ASSUME Inv, NEW w \in Workers, Wait(w)
    PROVE  Inv'
  <1>1. pc[w] = "enlist" /\ waiters' = Append(waiters, w) /\ Goto(w, "waiting") /\ UNCHANGED count
    BY DEF Wait
  <1>2. pc \in [Workers -> Steps] /\ WaitersWait /\ Counted /\ "waiting" \in Steps
    BY DEF Inv, Steps
  <1>3. pc' \in [Workers -> Steps] /\ pc'[w] = "waiting" /\ \A v \in Workers \ {w} : pc'[v] = pc[v]
    BY <1>1, <1>2, GotoFacts
  <1>4. \A i \in 1 .. Len(waiters) : waiters[i] \in Workers \ {w}
    BY <1>1, <1>2 DEF WaitersWait
  <1>5. WaitersWait'
    BY <1>1, <1>2, <1>3, <1>4 DEF WaitersWait
  <1>6. Counted'
    BY <1>1, <1>2, HoldingStays
  <1> QED BY <1>3, <1>5, <1>6 DEF Inv

LEMMA SignalStep ==
    ASSUME Inv, NEW w \in Workers, Signal(w)
    PROVE  Inv'
  <1>1. pc \in [Workers -> Steps] /\ WaitersWait /\ Counted /\ "idle" \in Steps /\ "relock" \in Steps
    BY DEF Inv, Steps
  <1>2. pc[w] = "signal" /\ UNCHANGED count
    BY DEF Signal
  <1>3. CASE waiters = <<>>
    <2>1. Goto(w, "idle") /\ UNCHANGED waiters
      BY <1>3 DEF Signal
    <2>2. pc' \in [Workers -> Steps] /\ \A v \in Workers \ {w} : pc'[v] = pc[v]
      BY <1>1, <2>1, GotoFacts
    <2>3. WaitersWait'
      BY <1>1, <1>2, <2>1, <2>2, WaitersStay
    <2>4. Counted'
      BY <1>1, <1>2, <2>1, HoldingStays
    <2> QED BY <2>2, <2>3, <2>4 DEF Inv
  <1>4. CASE waiters # <<>>
    <2> DEFINE h == Head(waiters)
    <2>1. pc' = [pc EXCEPT ![w] = "idle", ![h] = "relock"] /\ waiters' = Tail(waiters)
      BY <1>4 DEF Signal
    <2>2. h \in Workers /\ h = waiters[1] /\ pc[h] = "waiting" /\ h # w
      BY <1>1, <1>2, <1>4 DEF WaitersWait
    <2> HIDE DEF h
    <2>3. /\ pc' \in [Workers -> Steps] /\ pc'[w] = "idle" /\ pc'[h] = "relock"
          /\ \A v \in Workers \ {w, h} : pc'[v] = pc[v]
      BY <1>1, <2>1, <2>2
    <2>4. Holding' = Holding
      BY <1>2, <2>2, <2>3 DEF Holding
    <2>5. Counted'
      BY <1>1, <1>2, <2>4 DEF Counted
    <2>6. /\ waiters' \in Seq(Workers) /\ Len(waiters') = Len(waiters) - 1
          /\ \A i \in 1 .. Len(waiters') : waiters'[i] = waiters[i + 1]
      BY <1>1, <1>4, <2>1 DEF WaitersWait
    <2>n. Len(waiters) \in Nat /\ Len(waiters') \in Nat /\ 1 \in 1 .. Len(waiters)
      BY SMT, <1>1, <1>4 DEF WaitersWait
    <2>7. ASSUME NEW i \in 1 .. Len(waiters') PROVE waiters'[i] \in Workers \ {w, h} /\ pc[waiters'[i]] = "waiting"
      <3>1. i + 1 \in 1 .. Len(waiters) /\ i + 1 # 1 /\ waiters'[i] = waiters[i + 1]
        BY SMT, <2>6, <2>n
      <3>2. pc[waiters[i + 1]] = "waiting" /\ waiters[i + 1] # waiters[1]
        BY Zenon, <1>1, <2>n, <3>1 DEF WaitersWait
      <3>3. waiters'[i] \in Workers
        BY SMT, <2>6
      <3>4. waiters'[i] # w
        BY SMT, <1>2, <3>1, <3>2
      <3> QED BY Zenon, <2>2, <3>1, <3>2, <3>3, <3>4
    <2>8. ASSUME NEW i \in 1 .. Len(waiters'), NEW j \in 1 .. Len(waiters'), waiters'[i] = waiters'[j] PROVE i = j
      <3>1. /\ i + 1 \in 1 .. Len(waiters) /\ waiters'[i] = waiters[i + 1]
            /\ j + 1 \in 1 .. Len(waiters) /\ waiters'[j] = waiters[j + 1]
        BY SMT, <2>6, <2>n
      <3>2. i + 1 = j + 1
        BY Zenon, <1>1, <2>8, <3>1 DEF WaitersWait
      <3> QED BY SMT, <2>n, <3>2
    <2>9. WaitersWait'
      BY <2>3, <2>6, <2>7, <2>8 DEF WaitersWait
    <2> QED BY <2>3, <2>5, <2>9 DEF Inv
  <1> QED BY <1>3, <1>4

LEMMA InvStep == Inv /\ [Next]_vars => Inv'
  <1> SUFFICES ASSUME Inv, [Next]_vars PROVE Inv'
    OBVIOUS
  <1>1. CASE UNCHANGED vars
    BY <1>1 DEF vars, Inv, WaitersWait, Counted, Holding
  <1>2. ASSUME NEW w \in Workers, Step(w) PROVE Inv'
    BY <1>2, QuietStep, TakeStep, CountDownStep, WaitStep, SignalStep DEF Step
  <1> QED BY <1>1, <1>2 DEF Next

\* The count is the number of objects that are out, and at most max are, although Put
\* counts down and signals without the lock under which Get tests the count.
THEOREM CountIsOutHolds == Spec => []CountIsOut
  <1>1. Inv => CountIsOut
    BY DEF Inv, Counted, CountIsOut
  <1> QED BY <1>1, InitInv, InvStep, PTL DEF Spec
=============================================================================
