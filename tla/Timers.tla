------------------------------- MODULE Timers -------------------------------
(***************************************************************************)
(* The timers of one peer (device/timers.go) and what they drive in        *)
(* send.go and receive.go: retransmission of handshakes, keepalives, a new *)
(* handshake when nothing is heard, and the end of old key material.       *)
(*                                                                         *)
(* A timer that is armed may fire at any later moment.  Durations matter   *)
(* in one way only: the timers of Long run for at least RekeyTimeout, so   *)
(* that when one fires no initiation that was sent before it was armed is  *)
(* recent any more.  The trick packets before a keepalive or an initiation *)
(* only delay the step that follows them.                                  *)
(*                                                                         *)
(* Each process runs one operation at a time: the callback of each timer,  *)
(* the sequential sender and receiver, a handshake worker, and the         *)
(* control process that stops and starts the peer.  The device is up while *)
(* the peer runs.                                                          *)
(***************************************************************************)
EXTENDS Naturals, Sequences

CONSTANTS MaxTimerHandshakes,
          Loads  \* what a peer may have to do: whether persistentKeepaliveInterval is positive,
                 \* and bounds on the packets sent and received with a session, the packets staged
                 \* without one, the handshakes that complete, the initiations that cannot be
                 \* made, and the stops

Load == [persistent : BOOLEAN, sends : Nat, receives : Nat, staging : Nat, sessions : Nat,
         failures : Nat, stops : Nat]

TimersAssumption == MaxTimerHandshakes \in Nat /\ Loads \subseteq Load

Timer == {"retransmitHandshake", "sendKeepalive", "newHandshake", "zeroKeyMaterial", "persistentKeepalive"}
StopOrder == <<"retransmitHandshake", "sendKeepalive", "newHandshake", "zeroKeyMaterial", "persistentKeepalive">>
Long == {"retransmitHandshake", "newHandshake", "zeroKeyMaterial"}
Proc == Timer \cup {"sender", "receiver", "worker", "control"}

VARIABLES pending,    \* Timer.isPending
          armed,      \* whether the runtime's timer runs
          pc,         \* what a process does next; for a timer, its callback
          attempts,   \* timers.handshakeAttempts
          needAnotherKeepalive,
          recent,     \* less than RekeyTimeout since lastSentHandshake
          ripe,       \* the timers of Long armed after lastSentHandshake was set
          session,    \* there is a current keypair that may send
          staged,     \* there are staged packets
          queued,     \* a packet waits for the sequential sender
          inflight,   \* an initiation was sent and not answered
          running,    \* peer.isRunning
          stopping,   \* where Stop is: 0, or how many timers are deleted
          data,       \* persistentKeepaliveInterval > 0, and what is left of the bounds
          silent,     \* history: data was sent, and nothing heard since
          overtaken,  \* history: a callback found its timer pending because it had been armed anew
          unmade      \* history: CreateMessageInitiation has failed

flags == <<session, staged, queued, inflight>>
history == <<silent, overtaken, unmade>>
vars == <<pending, armed, pc, attempts, needAnotherKeepalive, recent, ripe, flags, running, stopping, data, history>>

Init ==
    /\ pending = [t \in Timer |-> FALSE] /\ armed = [t \in Timer |-> FALSE]
    /\ pc = [[p \in Proc |-> "idle"] EXCEPT !["control"] = "initiate"]
    /\ attempts = 0 /\ needAnotherKeepalive = FALSE
    /\ recent = FALSE /\ ripe = {}
    /\ session = FALSE /\ staged = FALSE /\ queued = FALSE /\ inflight = FALSE
    /\ running = TRUE /\ stopping = 0 /\ data \in Loads
    /\ silent = FALSE /\ overtaken = FALSE /\ unmade = FALSE

timersActive == running

\* pending and armed after Mod on the timers of On and Del on those of Off, as far as
\* the timers are active.
Timers(On, Off) ==
    /\ pending' = [t \in Timer |-> IF timersActive /\ t \in On THEN TRUE
                                   ELSE IF timersActive /\ t \in Off THEN FALSE ELSE pending[t]]
    /\ armed' = [t \in Timer |-> IF timersActive /\ t \in On THEN TRUE
                                 ELSE IF timersActive /\ t \in Off THEN FALSE ELSE armed[t]]
    /\ ripe' = IF timersActive THEN ripe \cup (On \cap Long) ELSE ripe

\* Mod once timersActive has been read.
Mod(t) ==
    /\ pending' = [pending EXCEPT ![t] = TRUE]
    /\ armed' = [armed EXCEPT ![t] = TRUE]
    /\ ripe' = ripe \cup ({t} \cap Long)

Goto(p, step) == pc' = [pc EXCEPT ![p] = step]

\* The timers timersAnyAuthenticatedPacketTraversal arms.
Traversal == IF data.persistent THEN {"persistentKeepalive"} ELSE {}

-----------------------------------------------------------------------------
(* SendHandshakeInitiation *)

\* What comes after it: the keepalive callback goes on, every other process is done.
Return(p) == Goto(p, IF p = "sendKeepalive" THEN "another" ELSE "idle")

\* Attempts are counted from zero whether or not it is too early for an initiation.
Resets(p) == pc[p] = "initiate"

InitiationAllowed(p) ==
    /\ pc[p] \in {"initiate", "retry"}
    /\ attempts' = IF Resets(p) THEN 0 ELSE attempts
    /\ IF recent
       THEN Return(p) /\ UNCHANGED <<recent, ripe>>
       ELSE recent' = TRUE /\ ripe' = {} /\ Goto(p, "create")
    /\ UNCHANGED <<pending, armed, needAnotherKeepalive, flags, running, stopping, data, history>>

\* The message is made and sent.
CreateAndSend(p) ==
    /\ pc[p] = "create"
    /\ Timers(Traversal, {"sendKeepalive"})
    /\ inflight' = TRUE /\ silent' = FALSE
    /\ Goto(p, "initiated")
    /\ UNCHANGED <<attempts, needAnotherKeepalive, recent, session, staged, queued, running, stopping, data, overtaken, unmade>>

\* CreateMessageInitiation fails: nothing is sent and no timer is armed.
CreateFails(p) ==
    /\ pc[p] = "create" /\ data.failures > 0
    /\ data' = [data EXCEPT !.failures = @ - 1] /\ unmade' = TRUE
    /\ Return(p)
    /\ UNCHANGED <<pending, armed, attempts, needAnotherKeepalive, recent, ripe, flags, running, stopping, silent, overtaken>>


ArmsRetransmit == timersActive

\* timersHandshakeInitiated: the peer may be stopped between the test and Mod.
HandshakeInitiated(p) ==
    /\ pc[p] = "initiated"
    /\ IF ArmsRetransmit THEN Goto(p, "arm") ELSE Return(p)
    /\ UNCHANGED <<pending, armed, attempts, needAnotherKeepalive, recent, ripe, flags, running, stopping, data, history>>

ArmRetransmit(p) ==
    /\ pc[p] = "arm"
    /\ Mod("retransmitHandshake")
    /\ Return(p)
    /\ UNCHANGED <<attempts, needAnotherKeepalive, recent, flags, running, stopping, data, history>>

-----------------------------------------------------------------------------
(* The timers and their callbacks *)

\* The runtime starts the callback's goroutine.  For a timer of Long, RekeyTimeout has
\* passed since it was armed.
Fire(t) ==
    /\ armed[t] /\ pc[t] = "idle"
    /\ armed' = [armed EXCEPT ![t] = FALSE]
    /\ recent' = (recent /\ t \notin ripe)
    /\ Goto(t, "fired")
    /\ UNCHANGED <<pending, attempts, needAnotherKeepalive, ripe, flags, running, stopping, data, history>>

\* A callback whose timer was deleted in the meantime returns.
Cancelled(t) ==
    /\ pc[t] = "fired" /\ ~pending[t]
    /\ Goto(t, "idle")
    /\ UNCHANGED <<pending, armed, attempts, needAnotherKeepalive, recent, ripe, flags, running, stopping, data, history>>

Expire(t) ==
    /\ pc[t] = "fired" /\ pending[t]
    /\ pending' = [pending EXCEPT ![t] = FALSE]
    /\ overtaken' = (overtaken \/ armed[t])

GivesUp == attempts > MaxTimerHandshakes

\* Too many attempts: the staged packets are dropped, and keys that have no timer yet
\* get one.
expiredRetransmitGivesUp ==
    /\ Expire("retransmitHandshake") /\ GivesUp
    /\ staged' = FALSE
    /\ Goto("retransmitHandshake", "gaveUp")
    /\ UNCHANGED <<armed, attempts, needAnotherKeepalive, recent, ripe, session, queued, inflight, running, stopping, data, silent, unmade>>

GiveUpTimers ==
    /\ pc["retransmitHandshake"] = "gaveUp"
    /\ Timers({"zeroKeyMaterial"} \ {t \in Timer : pending[t]}, {"sendKeepalive"})
    /\ Goto("retransmitHandshake", "idle")
    /\ UNCHANGED <<attempts, needAnotherKeepalive, recent, flags, running, stopping, data, history>>

\* One more attempt.
expiredRetransmitHandshake ==
    /\ Expire("retransmitHandshake") /\ ~GivesUp
    /\ attempts' = attempts + 1
    /\ Goto("retransmitHandshake", "retry")
    /\ UNCHANGED <<armed, needAnotherKeepalive, recent, ripe, flags, running, stopping, data, silent, unmade>>

\* SendKeepalive, by the callback of a timer: with a session the packet goes to the
\* sequential sender, without one a handshake is initiated.
SendKeepalive(t) ==
    /\ pc[t] = "keepalive"
    /\ IF session THEN queued' = TRUE /\ Return(t) /\ UNCHANGED staged
                  ELSE staged' = TRUE /\ Goto(t, "initiate") /\ UNCHANGED queued
    /\ UNCHANGED <<pending, armed, attempts, needAnotherKeepalive, recent, ripe, session, inflight, running, stopping, data, history>>

expiredKeepalive(t) ==
    /\ t \in {"sendKeepalive", "persistentKeepalive"}
    /\ Expire(t) /\ Goto(t, "keepalive")
    /\ UNCHANGED <<armed, attempts, needAnotherKeepalive, recent, ripe, flags, running, stopping, data, silent, unmade>>

\* The end of that callback, after SendKeepalive.
AnotherKeepalive ==
    /\ pc["sendKeepalive"] = "another"
    /\ needAnotherKeepalive' = FALSE
    /\ Timers(IF needAnotherKeepalive THEN {"sendKeepalive"} ELSE {}, {})
    /\ Goto("sendKeepalive", "idle")
    /\ UNCHANGED <<attempts, recent, flags, running, stopping, data, history>>

expiredNewHandshake ==
    /\ Expire("newHandshake") /\ Goto("newHandshake", "initiate")
    /\ UNCHANGED <<armed, attempts, needAnotherKeepalive, recent, ripe, flags, running, stopping, data, silent, unmade>>

expiredZeroKeyMaterial ==
    /\ Expire("zeroKeyMaterial") /\ Goto("zeroKeyMaterial", "idle")
    /\ session' = FALSE /\ staged' = FALSE /\ inflight' = FALSE
    /\ UNCHANGED <<armed, attempts, needAnotherKeepalive, recent, ripe, queued, running, stopping, data, silent, unmade>>

-----------------------------------------------------------------------------
(* Sending and receiving *)

\* RekeyTimeout passes.
Elapse ==
    /\ recent /\ recent' = FALSE
    /\ UNCHANGED <<pending, armed, pc, attempts, needAnotherKeepalive, ripe, flags, running, stopping, data, history>>

\* The sequential sender sends a keepalive.
TransmitKeepalive ==
    /\ pc["sender"] = "idle" /\ queued
    /\ Timers(Traversal, {"sendKeepalive"})
    /\ queued' = FALSE
    /\ UNCHANGED <<pc, attempts, needAnotherKeepalive, recent, session, staged, inflight, running, stopping, data, history>>

\* Fault: the timer is thought to run already.
NeverDue == FALSE

NewHandshakeDue == ~pending["newHandshake"]

\* It sends data; timersDataSent reads newHandshake.IsPending and calls Mod later.
TransmitData ==
    /\ data.sends > 0 /\ data' = [data EXCEPT !.sends = @ - 1] /\ running /\ session /\ pc["sender"] = "idle"
    /\ Timers(Traversal, {"sendKeepalive"})
    /\ silent' = TRUE
    /\ Goto("sender", IF NewHandshakeDue THEN "armNewHandshake" ELSE "idle")
    /\ UNCHANGED <<attempts, needAnotherKeepalive, recent, flags, running, stopping, overtaken, unmade>>

ArmNewHandshake ==
    /\ pc["sender"] = "armNewHandshake"
    /\ Mod("newHandshake")
    /\ Goto("sender", "idle")
    /\ UNCHANGED <<attempts, needAnotherKeepalive, recent, flags, running, stopping, data, history>>

\* A packet for a peer without a session is staged, and a handshake initiated.
StageWithoutSession ==
    /\ data.staging > 0 /\ data' = [data EXCEPT !.staging = @ - 1] /\ running /\ ~session /\ pc["worker"] = "idle"
    /\ staged' = TRUE /\ Goto("worker", "initiate")
    /\ UNCHANGED <<pending, armed, attempts, needAnotherKeepalive, recent, ripe, session, queued, inflight, running, stopping, history>>

\* Data arrives; timersDataReceived reads sendKeepalive.IsPending and acts on it later.
ReceiveData ==
    /\ data.receives > 0 /\ data' = [data EXCEPT !.receives = @ - 1] /\ running /\ session /\ pc["receiver"] = "idle"
    /\ Timers(Traversal, {"newHandshake"})
    /\ silent' = FALSE
    /\ Goto("receiver", IF pending["sendKeepalive"] THEN "needAnother" ELSE "armKeepalive")
    /\ UNCHANGED <<attempts, needAnotherKeepalive, recent, flags, running, stopping, overtaken, unmade>>

DataReceivedPending ==
    /\ pc["receiver"] = "needAnother"
    /\ needAnotherKeepalive' = TRUE
    /\ Goto("receiver", "idle")
    /\ UNCHANGED <<pending, armed, attempts, recent, ripe, flags, running, stopping, data, history>>

ArmKeepalive == Mod("sendKeepalive")

DataReceivedArms ==
    /\ pc["receiver"] = "armKeepalive"
    /\ ArmKeepalive
    /\ Goto("receiver", "idle")
    /\ UNCHANGED <<attempts, needAnotherKeepalive, recent, flags, running, stopping, data, history>>

\* A response arrives: timersSessionDerived, timersHandshakeComplete and SendKeepalive.
HandshakeComplete ==
    /\ data.sessions > 0 /\ data' = [data EXCEPT !.sessions = @ - 1]
    /\ running /\ inflight /\ pc["worker"] = "idle"
    /\ Timers(Traversal \cup {"zeroKeyMaterial"}, {"newHandshake", "retransmitHandshake"})
    /\ attempts' = 0
    /\ session' = TRUE /\ staged' = FALSE /\ queued' = TRUE /\ inflight' = FALSE /\ silent' = FALSE
    /\ UNCHANGED <<pc, needAnotherKeepalive, recent, running, stopping, overtaken, unmade>>

-----------------------------------------------------------------------------
(* Stop and Start *)

Stop ==
    /\ running /\ pc["control"] = "idle" /\ data.stops > 0
    /\ running' = FALSE /\ data' = [data EXCEPT !.stops = @ - 1] /\ stopping' = 1
    /\ Goto("control", "del")
    /\ UNCHANGED <<pending, armed, attempts, needAnotherKeepalive, recent, ripe, flags, history>>

\* DelSync: Del, wait for a running callback, Del again.
Del ==
    /\ pc["control"] \in {"del", "sync"}
    /\ LET t == StopOrder[stopping]
       IN  /\ pc["control"] = "sync" => pc[t] \in {"idle", "fired"}
           /\ pending' = [pending EXCEPT ![t] = FALSE]
           /\ armed' = [armed EXCEPT ![t] = FALSE]
    /\ IF pc["control"] = "del" THEN Goto("control", "sync") /\ UNCHANGED stopping
       ELSE IF stopping < Len(StopOrder) THEN Goto("control", "del") /\ stopping' = stopping + 1
       ELSE Goto("control", "drain") /\ UNCHANGED stopping
    /\ UNCHANGED <<attempts, needAnotherKeepalive, recent, ripe, flags, running, data, history>>

\* The sequential routines are awaited; then ZeroAndFlushAll.
StopReturns ==
    /\ pc["control"] = "drain" /\ pc["sender"] = "idle" /\ pc["receiver"] = "idle"
    /\ session' = FALSE /\ staged' = FALSE /\ queued' = FALSE /\ inflight' = FALSE
    /\ stopping' = 0 /\ Goto("control", "stopped")
    /\ UNCHANGED <<pending, armed, attempts, needAnotherKeepalive, recent, ripe, running, data, history>>

\* timersStart, and the initiation upLocked sends.
Start ==
    /\ pc["control"] = "stopped"
    /\ running' = TRUE /\ attempts' = 0 /\ needAnotherKeepalive' = FALSE /\ recent' = FALSE
    /\ silent' = FALSE
    /\ Goto("control", "initiate")
    /\ UNCHANGED <<pending, armed, ripe, flags, stopping, data, overtaken, unmade>>

-----------------------------------------------------------------------------
Initiation(p) == InitiationAllowed(p) \/ CreateAndSend(p) \/ CreateFails(p) \/ HandshakeInitiated(p) \/ ArmRetransmit(p)

Environment == TransmitData \/ StageWithoutSession \/ ReceiveData \/ HandshakeComplete \/ Elapse

\* The steps of a process that has something to do.
Run(p) ==
    \/ Initiation(p)
    \/ p \in Timer /\ (Fire(p) \/ Cancelled(p))
    \/ p = "retransmitHandshake" /\ (expiredRetransmitGivesUp \/ GiveUpTimers \/ expiredRetransmitHandshake)
    \/ p \in Timer /\ (expiredKeepalive(p) \/ SendKeepalive(p))
    \/ p = "sendKeepalive" /\ AnotherKeepalive
    \/ p = "newHandshake" /\ expiredNewHandshake
    \/ p = "zeroKeyMaterial" /\ expiredZeroKeyMaterial
    \/ p = "sender" /\ (TransmitKeepalive \/ ArmNewHandshake)
    \/ p = "receiver" /\ (DataReceivedPending \/ DataReceivedArms)
    \/ p = "control" /\ (Del \/ StopReturns)

Next == (\E p \in Proc : Run(p)) \/ Environment \/ Stop \/ Start

\* A process that has begun an operation finishes it, and an armed timer fires.  Nothing
\* is assumed about data, about the answers of the other end, or about Stop and Start.
Fairness == \A p \in Proc : WF_vars(Run(p))

Spec == Init /\ [][Next]_vars /\ Fairness

-----------------------------------------------------------------------------
(* Properties.  Timer.isPending does not tell one arming from the next: a  *)
(* callback that waits for runningLock or modifyingLock while its timer is *)
(* armed anew takes the new expiry for its own, and the new one finds      *)
(* isPending false.  And when CreateMessageInitiation fails, no timer is   *)
(* armed for the next attempt.  The promises below are made up to the      *)
(* first time one of these happens, which overtaken and unmade record.     *)

\* Too many attempts have failed, and the staged packets are dropped.
GaveUp == pc["retransmitHandshake"] = "gaveUp" /\ ~staged


\* When nothing is heard after data was sent, a handshake is initiated.
SilenceLeadsToHandshake == (silent /\ running) ~> (~silent \/ ~running \/ overtaken \/ unmade)

=============================================================================
