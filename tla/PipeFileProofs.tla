--------------------------- MODULE PipeFileProofs ---------------------------
(***************************************************************************)
(* Two facts about PipeFile, for any operations and any number of          *)
(* deadlines: no Read and no Write is under way on a closed handle, and no *)
(* deadline's channel is closed twice or taken for closed by mistake.  For *)
(* the second, the invariant follows the one who may close the channel:    *)
(* the timer, its callback, or set, never two of them.                     *)
(***************************************************************************)
EXTENDS PipeFile, TLAPS

\* A handle is closed by a Close that waited, and nothing has started since.
HandleInv ==
    /\ DOMAIN op = Ops
    /\ closer # "no" => closing
    /\ closer = "closed" => InFlight = {}

Before == {"stop", "clear", "swap"}
After == {"arm", "store", "close"}

\* Who may close the channel.
DeadlineInv ==
    /\ chan \in Nat /\ (\A c \in shut : c \in Nat /\ c <= chan)
    /\ callback # "no" => chan \notin shut /\ (timer = "fired" \/ setter = "stop")
    /\ timer = "armed" => chan \notin shut /\ ~timedout
    /\ setter \in {"swap", "arm"} => ~timedout
    /\ setter \in Before \cup After => timer = "none"
    /\ setter \in {"clear", "swap"} \cup After => callback = "no"
    /\ setter \in After => chan \notin shut
    /\ setter \in {"no"} \cup Before \cup After
    /\ ~panic

LEMMA InitInvs == Init => HandleInv /\ DeadlineInv
  BY DEF Init, HandleInv, DeadlineInv, InFlight, Before, After

-----------------------------------------------------------------------------
(* The handle *)

\* A step of an operation that is under way: the handle is not closed, and stays so.
LEMMA UnderWay ==
    ASSUME HandleInv, NEW o \in Ops, op[o] \notin {"idle", "done"}, NEW s, op' = [op EXCEPT ![o] = s],
           UNCHANGED <<closing, closer>>
    PROVE  HandleInv'
  <1>1. closer # "closed"
    BY DEF HandleInv, InFlight
  <1> QED BY <1>1 DEF HandleInv

LEMMA OpHandle ==
    ASSUME HandleInv, NEW o \in Ops, OpSteps(o)
    PROVE  HandleInv'
  <1>1. op[o] \notin {"idle", "done"} /\ UNCHANGED <<closing, closer>>
    BY Zenon DEF OpSteps, Issue, CheckClosing, TakeChannel, Receive, Timeout
  <1>2. \E s : op' = [op EXCEPT ![o] = s]
    BY Zenon DEF OpSteps, Issue, CheckClosing, TakeChannel, Receive, Timeout, Goto, Return
  <1> QED BY Zenon, <1>1, <1>2, UnderWay

LEMMA PrepareHandle ==
    ASSUME HandleInv, NEW o \in Ops, PrepareIo(o)
    PROVE  HandleInv'
  <1>1. UNCHANGED <<closing, closer>>
    BY DEF PrepareIo
  <1>2. CASE closing
    <2>1. op' = [op EXCEPT ![o] = "done"]
      BY <1>2 DEF PrepareIo, Return
    <2>2. InFlight' \subseteq InFlight /\ DOMAIN op' = Ops
      BY <2>1 DEF InFlight, HandleInv
    <2> QED BY <1>1, <2>2 DEF HandleInv
  <1>3. CASE ~closing
    <2>1. DOMAIN op' = Ops
      BY <1>3 DEF PrepareIo, Goto, HandleInv
    <2> QED BY <1>1, <1>3, <2>1 DEF HandleInv
  <1> QED BY <1>2, <1>3

LEMMA QuietHandle ==
    ASSUME HandleInv, UNCHANGED <<op, closing, closer>>
    PROVE  HandleInv'
  BY DEF HandleInv, InFlight

LEMMA NextHandle == HandleInv /\ [Next]_vars => HandleInv'
  <1> SUFFICES ASSUME HandleInv, [Next]_vars PROVE HandleInv'
    OBVIOUS
  <1>1. CASE CloseStart \/ CloseCancel \/ CloseHandle
    BY <1>1 DEF CloseStart, CloseCancel, CloseHandle, HandleInv, InFlight, ioVars
  <1>2. CASE \E o \in Ops : PrepareIo(o) \/ OpSteps(o)
    BY <1>2, PrepareHandle, OpHandle
  <1>3. CASE (\E o \in Ops : Complete(o) \/ Dequeue(o)) \/ Flush \/ FlushReturns \/ UNCHANGED vars
    BY <1>3, QuietHandle DEF Complete, Dequeue, Flush, FlushReturns, vars
  <1>4. CASE Set \/ SetSteps \/ Fire \/ Callback
    BY <1>4, QuietHandle DEF Set, SetSteps, SetWait, SetClear, SetSwap, SetArm, SetPast, Fire, Callback, ioVars
  <1> QED BY <1>1, <1>2, <1>3, <1>4 DEF Next

\* "at this point, no new IO can start": no Read and no Write is under way on a closed
\* handle, however prepareIo, the operations and closeHandle interleave with each other
\* and with a Flush, of which nothing is said.
THEOREM NoIoOnClosedHandleHolds == Spec => []NoIoOnClosedHandle
  <1>1. Init => HandleInv
    BY InitInvs
  <1>2. HandleInv => NoIoOnClosedHandle
    BY DEF HandleInv, NoIoOnClosedHandle
  <1> QED BY <1>1, <1>2, NextHandle, PTL DEF Spec

-----------------------------------------------------------------------------
(* The deadline *)

LEMMA SetDeadline ==
    ASSUME DeadlineInv, Set \/ SetWait \/ SetClear
    PROVE  DeadlineInv'
  <1> USE DEF Before, After
  <1>1. CASE Set
    BY <1>1 DEF Set, DeadlineInv
  <1>2. CASE SetWait
    BY <1>2 DEF SetWait, DeadlineInv
  <1>3. CASE SetClear
    BY <1>3 DEF SetClear, DeadlineInv
  <1> QED BY <1>1, <1>2, <1>3

LEMMA SwapDeadline ==
    ASSUME DeadlineInv, SetSwap
    PROVE  DeadlineInv'
  <1>1. chan' \in Nat /\ chan' >= chan /\ chan' \notin shut /\ \A c \in shut : c <= chan'
    BY DEF DeadlineInv, SetSwap
  <1> QED BY <1>1 DEF DeadlineInv, SetSwap, Before, After

LEMMA ArmDeadline ==
    ASSUME DeadlineInv, SetArm \/ Fire
    PROVE  DeadlineInv'
  <1> USE DEF Before, After
  <1>1. CASE SetArm
    BY <1>1 DEF SetArm, DeadlineInv
  <1>2. CASE Fire
    BY <1>2 DEF Fire, DeadlineInv
  <1> QED BY <1>1, <1>2

\* The channel is open when it is closed.
LEMMA ShutFacts ==
    ASSUME DeadlineInv, Shut, chan \notin shut
    PROVE  ~panic' /\ shut' = shut \cup {chan}
  <1>1. panic' = (chan \in shut) /\ shut' = shut \cup {chan}
    BY Zenon DEF Shut
  <1>2. ~panic'
    BY <1>1, Zenon
  <1> QED BY <1>1, <1>2

LEMMA PastDeadline ==
    ASSUME DeadlineInv, SetPast \/ Callback
    PROVE  DeadlineInv'
  <1> USE DEF Before, After
  <1>0. UNCHANGED <<chan, timer>>
    BY Zenon DEF SetPast, Callback
  <1>1. CASE SetPast
    <2>1. CASE setter = "store"
      <3>1. setter' = "close" /\ UNCHANGED <<shut, panic, callback>>
        BY <1>1, <2>1, Zenon DEF SetPast
      <3> QED BY <1>0, <2>1, <3>1 DEF DeadlineInv
    <2>2. CASE setter # "store"
      <3>1. setter = "close" /\ setter' = "no" /\ Shut /\ UNCHANGED callback
        BY <1>1, <2>2, Zenon DEF SetPast
      <3>2. chan \notin shut /\ callback = "no" /\ timer = "none"
        BY <3>1 DEF DeadlineInv
      <3>3. ~panic' /\ shut' = shut \cup {chan}
        BY <3>1, <3>2, ShutFacts
      <3> QED BY <1>0, <3>1, <3>2, <3>3 DEF DeadlineInv
    <2> QED BY <2>1, <2>2
  <1>2. CASE Callback
    <2>1. CASE callback = "store"
      <3>1. callback' = "close" /\ UNCHANGED <<shut, panic, setter>>
        BY <1>2, <2>1, Zenon DEF Callback
      <3> QED BY <1>0, <2>1, <3>1 DEF DeadlineInv
    <2>2. CASE callback # "store"
      <3>1. callback = "close" /\ callback' = "no" /\ Shut /\ UNCHANGED setter
        BY <1>2, <2>2, Zenon DEF Callback
      <3>2. chan \notin shut /\ (timer = "fired" \/ setter = "stop")
        BY <3>1 DEF DeadlineInv
      <3>3. ~panic' /\ shut' = shut \cup {chan}
        BY <3>1, <3>2, ShutFacts
      <3> QED BY <1>0, <3>1, <3>2, <3>3 DEF DeadlineInv
    <2> QED BY <2>1, <2>2
  <1> QED BY <1>1, <1>2

LEMMA QuietDeadline ==
    ASSUME DeadlineInv, UNCHANGED deadlineVars
    PROVE  DeadlineInv'
  BY DEF DeadlineInv, deadlineVars

LEMMA NextDeadline == DeadlineInv /\ [Next]_vars => DeadlineInv'
  <1> SUFFICES ASSUME DeadlineInv, [Next]_vars PROVE DeadlineInv'
    OBVIOUS
  <1>1. CASE Set \/ SetSteps \/ Fire \/ Callback
    BY <1>1, SetDeadline, SwapDeadline, ArmDeadline, PastDeadline DEF SetSteps
  <1>2. CASE CloseStart \/ CloseCancel \/ CloseHandle \/ Flush \/ FlushReturns
    BY <1>2, QuietDeadline DEF CloseStart, CloseCancel, CloseHandle, Flush, FlushReturns
  <1>3. CASE \E o \in Ops : PrepareIo(o) \/ OpSteps(o) \/ Complete(o) \/ Dequeue(o)
    BY <1>3, QuietDeadline, Zenon DEF PrepareIo, OpSteps, Issue, CheckClosing, TakeChannel, Receive, Timeout, Complete, Dequeue
  <1>4. CASE UNCHANGED vars
    BY <1>4, QuietDeadline DEF vars, deadlineVars
  <1> QED BY <1>1, <1>2, <1>3, <1>4 DEF Next

\* A deadline's channel is closed at most once, and a deadline to come is not taken for a
\* passed one: a callback that runs is waited for, and a closed channel is replaced before
\* a new deadline is set.
THEOREM ClosedOnceHolds == Spec => []ClosedOnce
  <1>1. Init => DeadlineInv
    BY InitInvs
  <1>2. DeadlineInv => ClosedOnce
    BY DEF DeadlineInv, ClosedOnce
  <1> QED BY <1>1, <1>2, NextDeadline, PTL DEF Spec
=============================================================================
