------------------------------ MODULE MCPackets ------------------------------
(***************************************************************************)
(* The way of a packet.  Outbound, in full: two callers race for the       *)
(* nonces of keypairs that have one each, so that a batch of two straddles *)
(* the limit, and one container can wait in the staging queue; with a      *)
(* keepalive, or with a stop and a start.  Next to it Inbound and the      *)
(* renewal of sessions (Rekey).  They share no state here, so a behaviour  *)
(* runs one of them, which the initial state chooses, and the others stay  *)
(* where they are.                                                         *)
(***************************************************************************)
EXTENDS Outbound, Integers

OnePair == <<<<1, 2>>>>
Stopping == INSTANCE Outbound WITH MaxKeepalives <- 0, MaxStops <- 1

Data(nr, key, counter, good, inner) ==
    [kind |-> "transport", nr |-> nr, key |-> key, counter |-> counter, good |-> good, inner |-> inner, from |-> "a"]
Other(kind) ==
    [kind |-> kind, nr |-> 0, key |-> None, counter |-> 0, good |-> FALSE, inner |-> "none", from |-> "b"]
From(d, where) == [d EXCEPT !.from = where]

TwoKeys == [k1 |-> "p1", k2 |-> "p2"]
OneKey == [k1 |-> "p1"]

\* Packets of both peers, a replay, a forgery, a keepalive, a packet with a source that is
\* not allowed, handshake messages and junk.
MixedBatches ==
    [r1 |-> << <<Data(1, "k1", 0, TRUE, "data"), Data(2, "k2", 0, TRUE, "disallowed"), Other("ignored")>>,
               <<Data(3, "k1", 1, TRUE, "data"), From(Data(4, "k1", 1, TRUE, "data"), "b"),
                 From(Data(5, "k1", 2, FALSE, "data"), "c")>>,
               <<Other("handshake"), Other("handshake"), Data(6, "k2", 1, TRUE, "keepalive")>> >>]
TwoSockets ==
    [r1 |-> << <<Data(1, "k1", 0, TRUE, "data")>>, <<Data(2, "k1", 1, TRUE, "data")>> >>,
     r2 |-> << <<From(Data(3, "k1", 0, TRUE, "data"), "d")>> >>]

\* The component that runs in this behaviour; the others keep their initial state.
VARIABLE component

\* device/receive.go
VARIABLES content, freeBufs, slots, inElems, inPool, inLocked, rx, inbound, decryption,
          handshake, decrypting, seqrx, inRunning, inLife, seen, endpoint, stops,
          delivered
inVars == <<content, freeBufs, slots, inElems, inPool, inLocked, rx, inbound,
            decryption, handshake, decrypting, seqrx, inRunning, inLife, seen, endpoint,
            stops, delivered>>

\* device/send.go, receive.go and timers.go: when a session is renewed
VARIABLES rekeyCurrent, next, sinceSent, sentLastMinuteHandshake, keepaliveIn, queued,
          inflight, isData, pc, slept, due, held, burst
rekeyVars == <<rekeyCurrent, next, sinceSent, sentLastMinuteHandshake, keepaliveIn,
               queued, inflight, isData, pc, slept, due, held, burst>>

In == INSTANCE Inbound WITH
    Receivers <- {"r1"}, Decrypters <- {"w1", "w2"}, Peers <- {"p1", "p2"},
    Containers <- 1 .. 4, Buffers <- 1 .. 9, BatchSize <- 3, QueueInboundSize <- 2,
    QueueHandshakeSize <- 1, Owner <- TwoKeys, Batches <- MixedBatches, MaxStops <- 0,
    elems <- inElems, pool <- inPool, locked <- inLocked, running <- inRunning,
    life <- inLife

InStop == INSTANCE Inbound WITH
    Receivers <- {"r1", "r2"}, Decrypters <- {"w1", "w2"}, Peers <- {"p1"},
    Containers <- 1 .. 4, Buffers <- 1 .. 7, BatchSize <- 1, QueueInboundSize <- 2,
    QueueHandshakeSize <- 1, Owner <- OneKey, Batches <- TwoSockets, MaxStops <- 1,
    elems <- inElems, pool <- inPool, locked <- inLocked, running <- inRunning,
    life <- inLife

Renew == INSTANCE Rekey WITH
    RekeyAfterMessages <- 2, RekeyAfterTime <- 2, RejectAfterTime <- 5,
    KeepaliveTimeout <- 1, RekeyTimeout <- 2, TrickTime <- 1, current <- rekeyCurrent

ASSUME In!InboundAssumption /\ InStop!InboundAssumption /\ Renew!RekeyAssumption

components == <<vars, inVars, rekeyVars>>

MCInit ==
    /\ component \in {"outbound", "inbound", "inbound_stop", "rekey"}
    /\ IF component = "outbound" THEN (Init \/ Stopping!Init) ELSE Init
    /\ CASE component = "inbound" -> In!Init
         [] component = "inbound_stop" -> InStop!Init
         [] OTHER -> In!Init
    /\ Renew!Init

MCNext ==
    /\ UNCHANGED component
    /\ \/ component = "outbound" /\ Next /\ UNCHANGED <<inVars, rekeyVars>>
       \/ component = "inbound" /\ In!Next /\ UNCHANGED <<vars, rekeyVars>>
       \/ component = "inbound_stop" /\ InStop!Next /\ UNCHANGED <<vars, rekeyVars>>
       \/ component = "rekey" /\ Renew!Next /\ UNCHANGED <<vars, inVars>>

MCSpec ==
    /\ MCInit /\ [][MCNext]_<<components, component>>

------------------------------------------------------------------------------
\* Packets of one socket reach the TUN device in the order they came.
\* (Inbound.)
DeliveredInOrder == component = "inbound" => In!DeliveredInOrder

\* A message buffer has one owner: a slot, an element, a handshake message or
\* the pool. Were there two, the next read would overwrite a packet on its way.
\* And nobody refers to a container that was put back. (Inbound.)
BufferHasOneOwner == 
    /\ component = "inbound" => In!BufferHasOneOwner
    /\ component = "inbound_stop" => InStop!BufferHasOneOwner

\* Data that comes with a session in its last minute is followed by a handshake, as
\* long as sends succeed: within KeepaliveTimeout, not counting the time that trick
\* packets take before the keepalive and before the initiation, which is no more than
\* two rounds of them. And no second initiation is made within RekeyTimeout. (Rekey.)
RenewedInTime == component = "rekey" => Renew!RenewedInTime

==============================================================================
