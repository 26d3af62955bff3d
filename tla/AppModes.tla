------------------------------- MODULE AppModes -------------------------------
(***************************************************************************)
(* The start of the application: RunWarp and the functions of its four     *)
(* modes (app/app.go), and how a WireGuard device is established and       *)
(* tested (app/wg.go).  Each mode is a sequence of stages; the stages that *)
(* establish a tunnel try the tricks "t1" and "t2" in turn, each with a    *)
(* TUN device and a WireGuard device of its own.                           *)
(*                                                                         *)
(* Identities, the scan and the proxy are modules of their own; they and   *)
(* Psiphon only succeed or fail here.                                      *)
(***************************************************************************)
EXTENDS Integers, Sequences, FiniteSets

VARIABLES
  opts,     \* [mode, gool, country, tun, scan]: the options
  plan,     \* the stages that are left
  pc,       \* within a stage: "stage", "create", "establish", "handshake", "test";
            \* "serving", "failed" or "panic" in the end
  trick,    \* t of the loop: "t1" or "t2", "t0" for the inner tunnel
  devs,     \* every device made: [kind, layer, trick, state, tested]
  tnet,     \* the variables tnet1 and tnet2: the device whose stack they hold, or 0
  forwarder,\* the device whose stack the UDP forwarder sends through, or 0
  proxy     \* the device whose stack the proxy dials through, or 0

vars == <<opts, plan, pc, trick, devs, tnet, forwarder, proxy>>

\* The stages of runWireguard, runWarp, runWarpInWarp and runWarpWithPsiphon.
PlanWireguard(o) == <<"parse", "outer">> \o (IF o.tun THEN <<>> ELSE <<"proxy">>)
PlanWarp(o) == <<"identity", "reserved", "outer">> \o (IF o.tun THEN <<>> ELSE <<"proxy">>)
PlanGool(o) == <<"identity", "reserved", "outer", "forward", "identity", "reserved", "inner">>
                 \o (IF o.tun THEN <<>> ELSE <<"proxy">>)
PlanPsiphon(o) == <<"identity", "reserved", "outer", "proxy", "psiphon">>

\* The options RunWarp refuses.
Refused(o) == o.mode = "psiphon" /\ (o.gool \/ ~o.country \/ o.tun)

\* RunWarp: the checks, the scan and the mode.
PlanOf(o) ==
  CASE o.mode = "wireguard" -> PlanWireguard(o)
    [] o.mode # "wireguard" /\ Refused(o) -> <<"refused">>
    [] OTHER -> (IF o.scan THEN <<"identity", "scan">> ELSE <<>>)
                \o (CASE o.mode = "psiphon" -> PlanPsiphon(o)
                      [] o.mode # "psiphon" /\ o.gool -> PlanGool(o)
                      [] OTHER -> PlanWarp(o))

Options == [mode : {"wireguard", "psiphon", "warp"}, gool : BOOLEAN, country : BOOLEAN, tun : BOOLEAN, scan : BOOLEAN]

Init ==
  /\ opts \in Options
  /\ plan = PlanOf(opts) /\ pc = "stage" /\ trick = "t1"
  /\ devs = <<>> /\ tnet = [outer |-> 0, inner |-> 0]
  /\ forwarder = 0 /\ proxy = 0

Layer == Head(plan)

\* The outer tunnel of warp in warp always runs on the userspace stack.
Kind == IF opts.tun /\ ~(opts.mode = "warp" /\ opts.gool /\ Layer = "outer") THEN "os" ELSE "netstack"

Done(rest) ==
  /\ plan' = rest
  /\ pc' = IF rest = <<>> THEN "serving" ELSE "stage"

\* A stage without a loop: it succeeds or its error is returned.
Simple ==
  /\ pc = "stage" /\ plan # <<>> /\ Layer \in {"identity", "reserved", "parse", "scan", "psiphon", "refused"}
  /\ \/ Layer # "refused" /\ Done(Tail(plan))
     \/ pc' = "failed" /\ UNCHANGED plan
  /\ UNCHANGED <<opts, trick, devs, tnet, forwarder, proxy>>

Forward ==
  /\ pc = "stage" /\ plan # <<>> /\ Layer = "forward"
  /\ \/ forwarder' = tnet.outer /\ Done(Tail(plan))
     \/ pc' = "failed" /\ UNCHANGED <<plan, forwarder>>
  /\ UNCHANGED <<opts, trick, devs, tnet, proxy>>

\* Fault: the proxy is started on the stack of the outer tunnel.
StartProxyOuter ==
  /\ pc = "stage" /\ plan # <<>> /\ Layer = "proxy"
  /\ \/ proxy' = tnet.outer /\ Done(Tail(plan))
     \/ pc' = "failed" /\ UNCHANGED <<plan, proxy>>
  /\ UNCHANGED <<opts, trick, devs, tnet, forwarder>>

\* StartProxy on the stack of the last tunnel; it fails when the address is in use.
StartProxy ==
  /\ pc = "stage" /\ plan # <<>> /\ Layer = "proxy"
  /\ \/ proxy' = (IF tnet.inner # 0 THEN tnet.inner ELSE tnet.outer) /\ Done(Tail(plan))
     \/ pc' = "failed" /\ UNCHANGED <<plan, proxy>>
  /\ UNCHANGED <<opts, trick, devs, tnet, forwarder>>

\* A stage that establishes a tunnel begins.
Begin ==
  /\ pc = "stage" /\ plan # <<>> /\ Layer \in {"outer", "inner"}
  /\ trick' = IF Layer = "inner" THEN "t0" ELSE "t1"
  /\ pc' = "create"
  /\ UNCHANGED <<opts, plan, devs, tnet, forwarder, proxy>>

\* continue: the second trick, or the error of the last one is returned.
Retry ==
  IF trick = "t1"
  THEN pc' = "create" /\ trick' = "t2"
  ELSE pc' = "failed" /\ UNCHANGED trick

\* newNormalTun or CreateNetTUN.  The interface of the system has one name, so
\* it cannot be made while an open device holds it.  runWireguard does not look
\* at the error of CreateNetTUN and goes on without a device.
Create ==
  /\ pc = "create"
  /\ \/ /\ Kind = "os" => \A d \in 1..Len(devs) : devs[d].kind = "os" => devs[d].state = "closed"
        /\ pc' = "establish"
        /\ tnet' = IF Kind = "os" THEN tnet ELSE [tnet EXCEPT ![Layer] = Len(devs) + 1]
        /\ UNCHANGED trick
     \/ /\ tnet' = IF Kind = "os" THEN tnet ELSE [tnet EXCEPT ![Layer] = 0]
        /\ IF Kind = "netstack" /\ opts.mode = "wireguard"
           THEN pc' = "panic" /\ UNCHANGED trick
           ELSE Retry
  /\ UNCHANGED <<opts, plan, devs, forwarder, proxy>>

\* establishWireguard up to its wait: NewDevice, then IpcSet, Up and the
\* binding to an interface, whose errors leave the device as it is.
Establish ==
  LET dev(s) == [kind |-> Kind, layer |-> Layer, trick |-> trick, state |-> s, tested |-> FALSE]
  IN  /\ pc = "establish"
      /\ \/ devs' = Append(devs, dev("up")) /\ pc' = "handshake" /\ UNCHANGED trick
         \/ \E s \in {"down", "up"} : devs' = Append(devs, dev(s)) /\ Retry
      /\ UNCHANGED <<opts, plan, tnet, forwarder, proxy>>

\* waitHandshake: the handshake is seen, or the device is closed when the
\* deadline of 15 seconds has passed.
WaitHandshake ==
  /\ pc = "handshake"
  /\ \/ /\ UNCHANGED <<devs, trick>>
        /\ IF Kind = "os" THEN Done(Tail(plan)) ELSE pc' = "test" /\ UNCHANGED plan
     \/ /\ devs' = [devs EXCEPT ![Len(devs)].state = "closed"]
        /\ Retry /\ UNCHANGED plan
  /\ UNCHANGED <<opts, tnet, forwarder, proxy>>

\* usermodeTunTest: it repeats its request until one succeeds or its 5 seconds
\* are over.  A device that fails it is left running.
Test ==
  /\ pc = "test"
  /\ \/ /\ devs' = [devs EXCEPT ![Len(devs)].tested = TRUE]
        /\ Done(Tail(plan)) /\ UNCHANGED trick
     \/ Retry /\ UNCHANGED <<devs, plan>>
  /\ UNCHANGED <<opts, tnet, forwarder, proxy>>

Next == Simple \/ Forward \/ StartProxy \/ Begin \/ Create \/ Establish \/ WaitHandshake \/ Test

Spec == Init /\ [][Next]_vars

-----------------------------------------------------------------------------
Works(d) == d \in 1..Len(devs) /\ devs[d].state = "up" /\ devs[d].tested

\* When RunWarp returns without an error on the userspace stack, its proxy
\* dials through a device that is up and has passed the connection test,
\* whatever the earlier attempts have left behind; a second tunnel runs in a
\* first one for which the same holds.
ServesThroughTested ==
  (pc = "serving" /\ ~opts.tun) =>
     /\ Works(proxy)
     /\ opts.mode = "warp" /\ opts.gool => Works(forwarder) /\ forwarder # proxy

===============================================================================
