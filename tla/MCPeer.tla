-------------------------------- MODULE MCPeer --------------------------------
(***************************************************************************)
(* The timers of a peer that is stopped and started, of one with traffic,  *)
(* and of one with a persistent keepalive; next to them the bounded pool,  *)
(* with three workers and two objects.  They share no state, so a          *)
(* behaviour runs one of them, which the initial state chooses, and the    *)
(* other stays where nothing is left to do.                                *)
(***************************************************************************)
EXTENDS WaitPool, Integers

PeerLoads ==
    {[persistent |-> FALSE, sends |-> 0, receives |-> 0, staging |-> 1, sessions |-> 1, failures |-> 0, stops |-> 1],
     [persistent |-> FALSE, sends |-> 1, receives |-> 0, staging |-> 0, sessions |-> 1, failures |-> 1, stops |-> 0],
     [persistent |-> FALSE, sends |-> 0, receives |-> 2, staging |-> 0, sessions |-> 1, failures |-> 0, stops |-> 0],
     [persistent |-> TRUE, sends |-> 0, receives |-> 0, staging |-> 0, sessions |-> 0, failures |-> 0, stops |-> 0]}

\* The component that runs in this behaviour; the others keep their initial state.
VARIABLE component

\* device/timers.go
VARIABLES pending, armed, timerPc, attempts, needAnotherKeepalive, recent, ripe,
          session, staged, queued, inflight, running, stopping, data, silent, overtaken, unmade
timerVars == <<pending, armed, timerPc, attempts, needAnotherKeepalive, recent, ripe,
               session, staged, queued, inflight, running, stopping, data, silent,
               overtaken, unmade>>

Timing == INSTANCE Timers WITH
    MaxTimerHandshakes <- 1, Loads <- PeerLoads, pc <- timerPc

ASSUME Timing!TimersAssumption

components == <<vars, timerVars>>

\* The peer is stopped.
PeerStopped ==
    /\ pending = [t \in Timing!Timer |-> FALSE] /\ armed = pending
    /\ timerPc = [[p \in Timing!Proc |-> "idle"] EXCEPT !["control"] = "stopped"]
    /\ attempts = 0 /\ needAnotherKeepalive = FALSE /\ recent = FALSE /\ ripe = {}
    /\ session = FALSE /\ staged = FALSE /\ queued = FALSE /\ inflight = FALSE
    /\ running = FALSE /\ stopping = 0 /\ silent = FALSE /\ overtaken = FALSE /\ unmade = FALSE
    /\ data = [persistent |-> FALSE, sends |-> 0, receives |-> 0, staging |-> 0, sessions |-> 0, failures |-> 0, stops |-> 0]

MCInit ==
    /\ component \in {"pool", "timers"}
    /\ Init
    /\ IF component = "timers" THEN Timing!Init ELSE PeerStopped

MCNext ==
    /\ UNCHANGED component
    /\ \/ component = "pool" /\ Next /\ UNCHANGED <<timerVars>>
       \/ component = "timers" /\ Timing!Next /\ UNCHANGED <<vars>>

MCSpec ==
    /\ MCInit /\ [][MCNext]_<<components, component>>
    /\ Timing!Fairness

------------------------------------------------------------------------------

\* When nothing is heard after data was sent, a handshake is initiated.
\* (Timers.)
SilenceLeadsToHandshake == Timing!SilenceLeadsToHandshake

==============================================================================
