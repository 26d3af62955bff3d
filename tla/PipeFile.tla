------------------------------- MODULE PipeFile -------------------------------
(***************************************************************************)
(* Overlapped I/O on a Windows handle: file and deadlineHandler of         *)
(* wireguard/ipc/namedpipe/file.go.  Operations are issued to the system   *)
(* and complete through a port, from which one goroutine for all files     *)
(* hands the results to the operations that wait.  Close cancels what is   *)
(* outstanding and waits for it; a deadline is a channel that a timer's    *)
(* callback closes, and that the next deadline replaces.  CloseWrite       *)
(* flushes first, and Flush is not one of the operations: it calls the     *)
(* system with the handle it finds, and neither asks prepareIo nor is      *)
(* waited for.                                                             *)
(***************************************************************************)
EXTENDS Integers, FiniteSets

CONSTANTS
  Ops,     \* operations, one goroutine each
  MaxSets  \* bound on the calls of set

VARIABLES
  op,        \* "idle", "issue", "check", "channel", "select", "abort" or "done"
  io,        \* the system's side: "none", "pending", "queued" or "taken"
  outcome,   \* of a completed operation: "none", "data" or "aborted"
  result,    \* what the caller got: "none", "data", "closed", "aborted" or "deadline"
  timeout,   \* the channel the operation selects on
  busy,      \* the operation whose result the completion goroutine holds
  closing, closer,  \* the flag, and Close: "no", "cancel", "wait" or "closed"
  chan,      \* the current channel of the deadline, a number
  shut,      \* channels that have been closed
  timer,     \* "none", "armed" or "fired"
  callback,  \* the callback: "no", "store" or "close"
  timedout,
  setter,    \* set: "no", "stop", "clear", "swap", "arm", "store" or "close"
  sets,      \* calls of set so far
  panic,     \* a closed channel has been closed
  flusher    \* CloseWrite: "no", "flush" or "done", after which writeClosed stays set

vars == <<op, io, outcome, result, timeout, busy, closing, closer, chan, shut, timer, callback, timedout, setter, sets, panic, flusher>>
ioVars == <<op, io, outcome, result, timeout, busy, flusher>>
deadlineVars == <<chan, shut, timer, callback, timedout, setter, sets, panic>>

NoOp == "none"

Init ==
  /\ op = [o \in Ops |-> "idle"] /\ io = [o \in Ops |-> "none"]
  /\ outcome = [o \in Ops |-> "none"] /\ result = [o \in Ops |-> "none"] /\ timeout = [o \in Ops |-> 0]
  /\ busy = NoOp /\ closing = FALSE /\ closer = "no"
  /\ chan = 1 /\ shut = {} /\ timer = "none" /\ callback = "no" /\ timedout = FALSE
  /\ setter = "no" /\ sets = 0 /\ panic = FALSE
  /\ flusher = "no"

\* Operations that hold the wait group.
InFlight == {o \in Ops : op[o] \notin {"idle", "done"}}

Return(o, r) == op' = [op EXCEPT ![o] = "done"] /\ result' = [result EXCEPT ![o] = r]
Goto(o, p) == op' = [op EXCEPT ![o] = p] /\ UNCHANGED result

\* Fault: the flag is not looked at.
PrepareAnyway(o) ==
  /\ op[o] = "idle" /\ Goto(o, "issue")
  /\ UNCHANGED <<io, outcome, timeout, busy, flusher, closing, closer>> /\ UNCHANGED deadlineVars

\* prepareIo, under wgLock, and the look at timedout.
PrepareIo(o) ==
  /\ op[o] = "idle"
  /\ IF closing THEN Return(o, "closed") ELSE Goto(o, "issue")
  /\ UNCHANGED <<io, outcome, timeout, busy, flusher, closing, closer>> /\ UNCHANGED deadlineVars

\* ReadFile or WriteFile: it completes at once or is pending.
Issue(o) ==
  /\ op[o] = "issue"
  /\ IF timedout THEN Return(o, "deadline") /\ UNCHANGED <<io, outcome>>
     ELSE \/ Goto(o, "check") /\ io' = [io EXCEPT ![o] = "pending"] /\ UNCHANGED outcome
          \/ Return(o, "data") /\ outcome' = [outcome EXCEPT ![o] = "data"] /\ UNCHANGED io
  /\ UNCHANGED <<timeout, busy, flusher, closing, closer>> /\ UNCHANGED deadlineVars

\* CancelIoEx: what is still pending is aborted.
Cancel(os) ==
  LET hit == {o \in os : io[o] = "pending"}
  IN  /\ io' = [o \in Ops |-> IF o \in hit THEN "queued" ELSE io[o]]
      /\ outcome' = [o \in Ops |-> IF o \in hit THEN "aborted" ELSE outcome[o]]

\* asyncIo: Close may have cancelled before the operation was issued.
CheckClosing(o) ==
  /\ op[o] = "check" /\ Goto(o, "channel")
  /\ IF closing THEN Cancel({o}) ELSE UNCHANGED <<io, outcome>>
  /\ UNCHANGED <<timeout, busy, flusher, closing, closer>> /\ UNCHANGED deadlineVars

TakeChannel(o) ==
  /\ op[o] = "channel" /\ Goto(o, "select")
  /\ timeout' = [timeout EXCEPT ![o] = chan]
  /\ UNCHANGED <<io, outcome, busy, flusher, closing, closer>> /\ UNCHANGED deadlineVars

\* What an operation returns for its result.
Reported(o) ==
  IF outcome[o] # "aborted" THEN outcome[o]
  ELSE IF op[o] = "abort" THEN "deadline"
  ELSE IF closing THEN "closed" ELSE "aborted"

\* The completion goroutine hands the result over.
Receive(o) ==
  /\ op[o] \in {"select", "abort"} /\ busy = o
  /\ busy' = NoOp /\ Return(o, Reported(o))
  /\ UNCHANGED <<io, outcome, timeout, flusher, closing, closer>> /\ UNCHANGED deadlineVars

\* The deadline's channel is closed: the operation is cancelled and waited for.
Timeout(o) ==
  /\ op[o] = "select" /\ timeout[o] \in shut
  /\ Goto(o, "abort") /\ Cancel({o})
  /\ UNCHANGED <<timeout, busy, flusher, closing, closer>> /\ UNCHANGED deadlineVars

\* The system completes an operation.
Complete(o) ==
  /\ io[o] = "pending"
  /\ io' = [io EXCEPT ![o] = "queued"] /\ outcome' = [outcome EXCEPT ![o] = "data"]
  /\ UNCHANGED <<op, result, timeout, busy, flusher, closing, closer>> /\ UNCHANGED deadlineVars

\* ioCompletionProcessor takes a completion and sends it, blocking.
Dequeue(o) ==
  /\ busy = NoOp /\ io[o] = "queued"
  /\ busy' = o /\ io' = [io EXCEPT ![o] = "taken"]
  /\ UNCHANGED <<op, outcome, result, timeout, flusher, closing, closer>> /\ UNCHANGED deadlineVars

\* CloseWrite flushes, before its last Write, with the handle as it is: after Close it is
\* zero and the call fails at once.
Flush ==
  /\ flusher = "no" /\ closer # "closed"
  /\ flusher' = "flush"
  /\ UNCHANGED <<op, io, outcome, result, timeout, busy, closing, closer>> /\ UNCHANGED deadlineVars

FlushReturns ==
  /\ flusher = "flush" /\ flusher' \in {"no", "done"}
  /\ UNCHANGED <<op, io, outcome, result, timeout, busy, closing, closer>> /\ UNCHANGED deadlineVars

-----------------------------------------------------------------------------
\* closeHandle.
CloseStart ==
  /\ closer = "no" /\ ~closing
  /\ closing' = TRUE /\ closer' = "cancel"
  /\ UNCHANGED ioVars /\ UNCHANGED deadlineVars

CloseCancel ==
  /\ closer = "cancel" /\ closer' = "wait"
  /\ Cancel(Ops)
  /\ UNCHANGED <<op, result, timeout, busy, flusher, closing>> /\ UNCHANGED deadlineVars

CloseHandle ==
  /\ closer = "wait" /\ InFlight = {} /\ closer' = "closed"
  /\ UNCHANGED closing /\ UNCHANGED ioVars /\ UNCHANGED deadlineVars

-----------------------------------------------------------------------------
\* Closing the current channel.
Shut ==
  /\ panic' = (chan \in shut)
  /\ shut' = shut \cup {chan}

\* set: the timer is stopped, and a callback that runs already is waited for.
Set ==
  /\ setter = "no" /\ sets < MaxSets
  /\ sets' = sets + 1
  /\ timer' = "none"
  /\ setter' = IF timer = "fired" THEN "stop" ELSE "clear"
  /\ UNCHANGED <<chan, shut, callback, timedout, panic, closing, closer>> /\ UNCHANGED ioVars

SetWait ==
  /\ setter = "stop" /\ chan \in shut /\ setter' = "clear"
  /\ UNCHANGED <<chan, shut, timer, callback, timedout, sets, panic, closing, closer>> /\ UNCHANGED ioVars

SetClear ==
  /\ setter = "clear" /\ setter' = "swap" /\ timedout' = FALSE
  /\ UNCHANGED <<chan, shut, timer, callback, sets, panic, closing, closer>> /\ UNCHANGED ioVars

\* Fault: a closed channel stays in use.
SetKeep ==
  /\ setter = "swap" /\ setter' = "arm"
  /\ UNCHANGED <<chan, shut, timer, callback, timedout, sets, panic, closing, closer>> /\ UNCHANGED ioVars

\* A channel that is closed is replaced.
SetSwap ==
  /\ setter = "swap" /\ setter' = "arm"
  /\ chan' = IF chan \in shut THEN chan + 1 ELSE chan
  /\ UNCHANGED <<shut, timer, callback, timedout, sets, panic, closing, closer>> /\ UNCHANGED ioVars

\* No deadline, one in the future, or one in the past.
SetArm ==
  /\ setter = "arm"
  /\ \/ setter' = "no" /\ UNCHANGED timer
     \/ setter' = "no" /\ timer' = "armed"
     \/ setter' = "store" /\ UNCHANGED timer
  /\ UNCHANGED <<chan, shut, callback, timedout, sets, panic, closing, closer>> /\ UNCHANGED ioVars

\* A deadline in the past: timeoutIO runs within set.
SetPast ==
  /\ \/ setter = "store" /\ setter' = "close" /\ timedout' = TRUE /\ UNCHANGED <<shut, panic>>
     \/ setter = "close" /\ setter' = "no" /\ Shut /\ UNCHANGED timedout
  /\ UNCHANGED <<chan, timer, callback, sets, closing, closer>> /\ UNCHANGED ioVars

Fire ==
  /\ timer = "armed" /\ timer' = "fired" /\ callback' = "store"
  /\ UNCHANGED <<chan, shut, timedout, setter, sets, panic, closing, closer>> /\ UNCHANGED ioVars

\* timeoutIO in the timer's goroutine.
Callback ==
  /\ \/ callback = "store" /\ callback' = "close" /\ timedout' = TRUE /\ UNCHANGED <<shut, panic>>
     \/ callback = "close" /\ callback' = "no" /\ Shut /\ UNCHANGED timedout
  /\ UNCHANGED <<chan, timer, setter, sets, closing, closer>> /\ UNCHANGED ioVars

SetSteps == SetWait \/ SetClear \/ SetSwap \/ SetArm \/ SetPast
OpSteps(o) == Issue(o) \/ CheckClosing(o) \/ TakeChannel(o) \/ Receive(o) \/ Timeout(o)

Next ==
  \/ CloseStart \/ CloseCancel \/ CloseHandle \/ Flush \/ FlushReturns \/ Set \/ SetSteps \/ Fire \/ Callback
  \/ \E o \in Ops : PrepareIo(o) \/ OpSteps(o) \/ Complete(o) \/ Dequeue(o)

Spec == Init /\ [][Next]_vars

-----------------------------------------------------------------------------
\* "at this point, no new IO can start": no Read and no Write is under way on
\* a closed handle, however Close and the start of an operation interleave.
\* (A Flush may be: Close neither cancels it nor waits for it.)
NoIoOnClosedHandle == closer = "closed" => InFlight = {}

\* A deadline's channel is closed once, by the callback or by set, however a
\* deadline that fires meets the next one; and a deadline to come is not taken
\* for a passed one, which the callback of an earlier deadline could make it.
ClosedOnce == ~panic /\ (timer = "armed" => ~timedout)

===============================================================================
