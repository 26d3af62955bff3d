--------------------------- MODULE SlidingWindow ----------------------------
(***************************************************************************)
(* What an anti-replay filter promises: a counter is accepted once, if it  *)
(* is below the limit and at most windowSize behind the highest one.       *)
(***************************************************************************)
EXTENDS Naturals

CONSTANTS Counter, limit, windowSize

VARIABLES last,      \* the highest counter accepted, zero in an empty filter
          accepted,  \* the counters accepted since the last Reset
          call       \* the last call and its answer

Fresh(counter) ==
    /\ counter < limit
    /\ counter > last \/ last - counter <= windowSize
    /\ counter \notin accepted

Init ==
    /\ last = 0
    /\ accepted = {}
    /\ call = [counter |-> 0, ok |-> FALSE]

Accept(counter) ==
    /\ Fresh(counter)
    /\ last' = IF counter > last THEN counter ELSE last
    /\ accepted' = accepted \cup {counter}
    /\ call' = [counter |-> counter, ok |-> TRUE]

Refuse(counter) ==
    /\ ~Fresh(counter)
    /\ call' = [counter |-> counter, ok |-> FALSE]
    /\ UNCHANGED <<last, accepted>>

Reset ==
    /\ last' = 0
    /\ accepted' = {}
    /\ UNCHANGED call

Next == Reset \/ \E counter \in Counter : Accept(counter) \/ Refuse(counter)

Spec == Init /\ [][Next]_<<last, accepted, call>>
=============================================================================
