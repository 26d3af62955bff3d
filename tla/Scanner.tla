------------------------------- MODULE Scanner -------------------------------
(***************************************************************************)
(* A scan for endpoints: the engine goroutine that pings one batch of      *)
(* addresses and keeps the answers in the queue (ipscanner/internal/       *)
(* engine), and the caller that polls the queue until two endpoints are    *)
(* there or its minute is over (wiresocks/scanner.go).                     *)
(*                                                                         *)
(* A round-trip time is a natural number.  The batch is what the address   *)
(* generator (module Iterator) returned.  A ping is the handshake of       *)
(* ping/warp.go with an endpoint: it fails or gives a time.                *)
(***************************************************************************)
EXTENDS Integers, Sequences, FiniteSets, SequencesExt

CONSTANTS
  Batches,        \* the batches NextBatch can return: sequences of addresses
  Rtts,           \* the times a ping can measure
  maxQueueSize,   \* opts.IPQueueSize
  rttThreshold    \* opts.MaxDesirableRTT

VARIABLES
  ctxDone,     \* the context of the scan: timed out or cancelled
  engine,      \* "init", "select", "loop", "ping", "await" or "ended"
  batch,       \* the addresses the engine has not pinged yet
  available,   \* items in the channel of that name
  queue,       \* IPQueue.queue
  reserved,    \* IPQueue.reserved.items
  inIdealMode,
  caller,      \* RunScan: "poll", "wait", "ok" or "failed"
  result       \* what RunScan returned

vars == <<ctxDone, engine, batch, available, queue, reserved, inIdealMode, caller, result>>
engineVars == <<engine, batch, available, queue, reserved, inIdealMode>>

Sorted(s) == \A i, j \in 1..Len(s) : i < j => s[i].rtt <= s[j].rtt

\* sort.Slice is not stable: any order of equal times.
SortByRtt(s) == {t \in {[i \in 1..Len(s) |-> s[p[i]]] : p \in Permutations(1..Len(s))} : Sorted(t)}

Init ==
  /\ ctxDone = FALSE
  /\ engine = "init"
  /\ batch = <<>>
  /\ available = 0
  /\ queue = <<>> /\ reserved = <<>> /\ inIdealMode = FALSE
  /\ caller = "poll" /\ result = <<>>

\* IPQueue.Init; the channel has room for maxQueueSize items.
QueueInit ==
  /\ engine = "init"
  /\ IF inIdealMode
     THEN UNCHANGED available
     ELSE available < maxQueueSize /\ available' = available + 1
  /\ engine' = "select"
  /\ UNCHANGED <<ctxDone, batch, queue, reserved, inIdealMode, caller, result>>

\* The first select of Engine.Run: either ready case may be taken.
EngineSelect ==
  /\ engine = "select"
  /\ \/ ctxDone /\ engine' = "ended" /\ UNCHANGED <<available, batch>>
     \/ /\ available > 0 /\ available' = available - 1
        /\ \/ \E b \in Batches : batch' = b /\ engine' = "loop"
           \/ engine' = "ended" /\ UNCHANGED batch       \* NextBatch fails
  /\ UNCHANGED <<ctxDone, queue, reserved, inIdealMode, caller, result>>

\* The head of the loop over the batch, with its look at the context.
EngineLoop ==
  /\ engine = "loop"
  /\ IF batch = <<>> \/ ctxDone
     THEN engine' = "ended"
     ELSE engine' = "ping"
  /\ UNCHANGED <<ctxDone, batch, available, queue, reserved, inIdealMode, caller, result>>

\* sort.Search and the insertion before the first larger time.
SortedInsert(q, info) ==
  LET index == Cardinality({i \in 1..Len(q) : q[i].rtt <= info.rtt})
  IN  SubSeq(q, 1, index) \o <<info>> \o SubSeq(q, index + 1, Len(q))

\* The queue after Enqueue, whose argument q is sorted.  A full queue gives up
\* its worst member for a better answer, and the answer is not inserted.
Enqueue(q, info) ==
  CASE Len(q) = 0 -> <<info>>
    [] Len(q) # 0 /\ info.rtt > rttThreshold -> q
    [] Len(q) # 0 /\ info.rtt <= rttThreshold /\ Len(q) >= maxQueueSize /\ info.rtt < q[Len(q)].rtt
         -> SubSeq(q, 1, Len(q) - 1)
    [] Len(q) # 0 /\ info.rtt <= rttThreshold /\ Len(q) < maxQueueSize -> SortedInsert(q, info)
    [] OTHER -> q

\* The answer goes to the reserve: the queue is full of answers as good.
Reserve(q, info) ==
  /\ Len(q) >= maxQueueSize /\ q # <<>>
  /\ info.rtt <= rttThreshold
  /\ info.rtt >= q[Len(q)].rtt

\* What Enqueue returns and stores: full, and no member above the threshold.
Ideal(q) == Len(q) >= maxQueueSize /\ \A i \in 1..Len(q) : q[i].rtt <= rttThreshold

\* initiateHandshake up to its initiation: the packets sent before it look at
\* the context each time, and every write may fail.
PingSend ==
  /\ engine = "ping"
  /\ \/ ~ctxDone /\ engine' = "await" /\ UNCHANGED batch
     \/ engine' = "loop" /\ batch' = Tail(batch)
  /\ UNCHANGED <<ctxDone, available, queue, reserved, inIdealMode, caller, result>>

\* The rest of initiateHandshake, which does not look at the context: no
\* answer in time or one that is no response to the initiation is an error.
PingError ==
  /\ engine = "await"
  /\ engine' = "loop" /\ batch' = Tail(batch)
  /\ UNCHANGED <<ctxDone, available, queue, reserved, inIdealMode, caller, result>>

\* A ping that succeeds, and Enqueue.  The first answer returns early.
PingAnswer(rtt) ==
  LET info == [addr |-> Head(batch), rtt |-> rtt]
  IN  /\ engine = "await"
      /\ \E q \in SortByRtt(queue) :
           /\ queue' = Enqueue(q, info)
           /\ IF Reserve(q, info)
              THEN \E r \in SortByRtt(Append(reserved, info)) : reserved' = r
              ELSE UNCHANGED reserved
           /\ inIdealMode' = (inIdealMode \/ (q # <<>> /\ Ideal(queue')))
      /\ engine' = "loop" /\ batch' = Tail(batch)
      /\ UNCHANGED <<ctxDone, available, caller, result>>

\* RunScan's look at GetAvailableIPs, which sorts a copy of the queue.  With
\* two endpoints it returns, and its deferred cancel ends the context.
Poll ==
  /\ caller = "poll"
  /\ IF Len(queue) > 1
     THEN /\ \E q \in SortByRtt(queue) : result' = SubSeq(q, 1, 2)
          /\ caller' = "ok" /\ ctxDone' = TRUE
     ELSE caller' = "wait" /\ UNCHANGED <<result, ctxDone>>
  /\ UNCHANGED engineVars

\* Fault: the ticker is the only thing RunScan waits for.
WaitTick ==
  /\ caller = "wait" /\ caller' = "poll"
  /\ UNCHANGED <<ctxDone, result>> /\ UNCHANGED engineVars

\* RunScan's select between the context and the ticker.
Wait ==
  /\ caller = "wait"
  /\ \/ ctxDone /\ caller' = "failed"
     \/ caller' = "poll"
  /\ UNCHANGED <<ctxDone, result>> /\ UNCHANGED engineVars

\* The minute of the scan is over, or its user cancels it.
Expired ==
  /\ ~ctxDone
  /\ ctxDone' = TRUE
  /\ UNCHANGED <<caller, result>> /\ UNCHANGED engineVars

Engine == QueueInit \/ EngineSelect \/ EngineLoop \/ PingSend \/ PingError \/ (\E rtt \in Rtts : PingAnswer(rtt))

Next == Engine \/ Poll \/ Wait \/ Expired

\* The ticker does not win every time against a context that is done.
Fairness ==
  /\ WF_vars(Engine) /\ WF_vars(Poll) /\ WF_vars(Expired)
  /\ WF_vars(Wait) /\ SF_vars(Wait /\ caller' = "failed")

Spec == Init /\ [][Next]_vars /\ Fairness

-----------------------------------------------------------------------------
\* RunScan returns, and the engine's goroutine ends as well.
ScanEnds == <>(caller \in {"ok", "failed"}) /\ <>(engine = "ended")

=============================================================================
