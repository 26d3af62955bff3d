------------------------------- MODULE Noise --------------------------------
(***************************************************************************)
(* The Noise handshake, the index table and the keypair rotation of        *)
(* wireguard/device (noise-protocol.go, indextable.go, keypair.go and the   *)
(* parts of peer.go, send.go and receive.go that drive them).              *)
(*                                                                         *)
(* A step is one critical section: what a goroutine does between taking     *)
(* and releasing handshake.mutex or keypairs.Mutex.  Handshake workers      *)
(* (RoutineHandshake), timer callbacks, user calls and the receiving        *)
(* routines of one device interleave between those sections.  A message     *)
(* stays in the network once sent, so it can be lost, duplicated, delayed   *)
(* or delivered out of order.                                              *)
(*                                                                         *)
(* Cryptography is symbolic.  An ephemeral key is a fresh number; a chain   *)
(* key (with its hash) is the sequence of ephemeral keys mixed into it:     *)
(* <<>> when zeroed, <<e>> after an initiation with ephemeral e, <<e, r>>   *)
(* after the response with ephemeral r.  The TAI64N timestamp of an         *)
(* initiation is its ephemeral number: both grow with every initiation of   *)
(* a peer.                                                                 *)
(*                                                                         *)
(* A definition whose comment starts with "Fault" is not part of the model: *)
(* it is a faulty variant of the definition after it, for mutation runs.    *)
(***************************************************************************)
EXTENDS Naturals, Sequences

CONSTANTS
    Device,       \* the devices
    Peer,         \* the Peer structs of all devices: a peer is one end of a link
    Worker,       \* the handshake workers of all devices
    Index,        \* the 32-bit indices randUint32 can draw
    Zero,         \* index 0, which also means "no index" in Handshake.localIndex
    DeviceOf,     \* peer.device
    Counterpart,  \* the Peer struct at the other end of the link
    HostOf,       \* the device a worker belongs to
    MaxEph,       \* bound: number of ephemeral keys drawn in a behaviour
    Nil           \* a nil pointer

HandshakeState == {"Zeroed", "InitiationCreated", "InitiationConsumed",
                   "ResponseCreated", "ResponseConsumed"}

Keypair == [id : Nat, key : Seq(Nat), isInitiator : BOOLEAN,
            localIndex : Index, remoteIndex : Index]

ASSUME NoiseAssumption ==
    /\ Zero \in Index
    /\ DeviceOf \in [Peer -> Device]
    /\ Counterpart \in [Peer -> Peer]
    /\ HostOf \in [Worker -> Device]
    /\ MaxEph \in Nat
    /\ Nil \notin Keypair

\* The two ends of a link hold each other's static key.
ASSUME CounterpartAssumption == \A p \in Peer : Counterpart[Counterpart[p]] = p

Handshake == [state : HandshakeState, chain : Seq(Nat), localIndex : Index,
              remoteIndex : Index, lastTimestamp : Nat]

Keypairs == [previous : Keypair \cup {Nil}, current : Keypair \cup {Nil},
             next : Keypair \cup {Nil}]

\* One entry of the index table: a free slot, a handshake or a keypair.
NoEntry == [kind |-> "free"]
HandshakeEntry(p) == [kind |-> "handshake", peer |-> p]
KeypairEntry(p, kp) == [kind |-> "keypair", peer |-> p, keypair |-> kp]
Entry == {NoEntry} \cup [kind : {"handshake"}, peer : Peer]
           \cup [kind : {"keypair"}, peer : Peer, keypair : Keypair]

\* dst is the Peer struct the message is meant for: the network carries it to
\* that peer's device, and an initiation's static key identifies that peer.
Initiation == [type : {"initiation"}, dst : Peer, sender : Index, eph : Nat]
Response == [type : {"response"}, dst : Peer, sender : Index, receiver : Index,
             ie : Nat, re : Nat]
Transport == [type : {"transport"}, dst : Peer, receiver : Index,
              key : Seq(Nat), fromInitiator : BOOLEAN]
Message == Initiation \cup Response \cup Transport

VARIABLES
    hs,        \* peer.handshake
    keypairs,  \* peer.keypairs
    table,     \* device.indexTable.table
    running,   \* peer.isRunning
    zeroing,   \* progress of ZeroAndFlushAll, for the timer and for Stop
    inbound,   \* the decrypted element waiting for RoutineSequentialReceiver
    wk,        \* the handshake workers
    net,       \* every message ever sent
    eph,       \* the last ephemeral key drawn
    derived    \* history: the keypairs a peer has derived, in order

vars == <<hs, keypairs, table, running, zeroing, inbound, wk, net, eph, derived>>

\* What one iteration of RoutineHandshake keeps: the peer, the message it handles,
\* the response it has built and the keypair it has derived.
WorkerState == [pc : {"idle", "checkedInit", "respond", "checkedResp", "derive",
                      "rotate", "finish"},
                peer : Peer \cup {Nil},
                msg : Initiation \cup Response \cup {Nil},
                out : Response \cup {Nil},
                kp : Keypair \cup {Nil}]

IdleWorker == [pc |-> "idle", peer |-> Nil, msg |-> Nil, out |-> Nil, kp |-> Nil]

Caller == {"timer", "stop"}

TypeOK ==
    /\ hs \in [Peer -> Handshake]
    /\ keypairs \in [Peer -> Keypairs]
    /\ table \in [Device -> [Index -> Entry]]
    /\ running \in [Peer -> BOOLEAN]
    /\ zeroing \in [Peer -> [Caller -> {"idle", "requested", "cleared"}]]
    /\ inbound \in [Peer -> Keypair \cup {Nil}]
    /\ wk \in [Worker -> WorkerState]
    /\ net \in SUBSET Message
    /\ eph \in Nat
    /\ derived \in [Peer -> Seq(Keypair)]

Init ==
    /\ hs = [p \in Peer |-> [state |-> "Zeroed", chain |-> <<>>, localIndex |-> Zero,
                             remoteIndex |-> Zero, lastTimestamp |-> 0]]
    /\ keypairs = [p \in Peer |-> [previous |-> Nil, current |-> Nil, next |-> Nil]]
    /\ table = [d \in Device |-> [i \in Index |-> NoEntry]]
    /\ running = [p \in Peer |-> TRUE]
    /\ zeroing = [p \in Peer |-> [c \in Caller |-> "idle"]]
    /\ inbound = [p \in Peer |-> Nil]
    /\ wk = [w \in Worker |-> IdleWorker]
    /\ net = {}
    /\ eph = 0
    /\ derived = [p \in Peer |-> <<>>]

-----------------------------------------------------------------------------
(* indextable.go, as operations on one device's table *)

Delete(t, i) == [t EXCEPT ![i] = NoEntry]

DeleteKeypair(t, kp) == IF kp = Nil THEN t ELSE Delete(t, kp.localIndex)

SwapIndexForKeypair(t, i, kp) ==
    IF t[i] = NoEntry THEN t ELSE [t EXCEPT ![i] = KeypairEntry(t[i].peer, kp)]

\* Fault: an index in use is handed out again.
FreeIndicesUnchecked(t) == Index

\* The indices NewIndexForHandshake may return: it redraws until one is free.
FreeIndices(t) == {i \in Index : t[i] = NoEntry}

-----------------------------------------------------------------------------
(* BeginSymmetricSession holds handshake.mutex until it has rotated the        *)
(* keypairs, so no other section of that handshake runs in between.            *)
HandshakeUnlocked(p) == \A w \in Worker : ~(wk[w].pc = "rotate" /\ wk[w].peer = p)

\* Handshake.Clear, and what BeginSymmetricSession zeroes when it has the keys;
\* remoteIndex and lastTimestamp survive both.
Clear(h) == [h EXCEPT !.state = "Zeroed", !.chain = <<>>, !.localIndex = Zero]

\* CreateMessageInitiation and the send that follows it in SendHandshakeInitiation.
SendHandshakeInitiation(p) ==
    LET t == Delete(table[DeviceOf[p]], hs[p].localIndex)
        e == eph + 1
    IN  /\ e <= MaxEph
        /\ HandshakeUnlocked(p)
        /\ \E i \in FreeIndices(t) :
             /\ table' = [table EXCEPT ![DeviceOf[p]] = [t EXCEPT ![i] = HandshakeEntry(p)]]
             /\ hs' = [hs EXCEPT ![p] = [@ EXCEPT !.state = "InitiationCreated",
                                                  !.chain = <<e>>, !.localIndex = i]]
             /\ net' = net \cup {[type |-> "initiation", dst |-> Counterpart[p],
                                  sender |-> i, eph |-> e]}
        /\ eph' = e
        /\ UNCHANGED <<keypairs, running, zeroing, inbound, wk, derived>>

\* Fault: the same initiation passes again.
NewerOrSame(m, h) == m.eph >= h.lastTimestamp

\* The replay check of ConsumeMessageInitiation.
Newer(m, h) == m.eph > h.lastTimestamp

\* The timestamp the handshake remembers: never an older one.
Latest(m, h) == IF m.eph > h.lastTimestamp THEN m.eph ELSE h.lastTimestamp

\* ConsumeMessageInitiation up to the release of the read lock.
ConsumeInitiationCheck(w) ==
    /\ wk[w].pc = "idle"
    /\ \E m \in net :
         /\ m.type = "initiation"
         /\ DeviceOf[m.dst] = HostOf[w]
         /\ running[m.dst]
         /\ HandshakeUnlocked(m.dst)
         /\ Newer(m, hs[m.dst])
         /\ wk' = [wk EXCEPT ![w] = [@ EXCEPT !.pc = "checkedInit", !.peer = m.dst, !.msg = m]]
    /\ UNCHANGED <<hs, keypairs, table, running, zeroing, inbound, net, eph, derived>>

\* The rest of ConsumeMessageInitiation: the state is written without a recheck.
ConsumeInitiationWrite(w) ==
    LET p == wk[w].peer
        m == wk[w].msg
    IN  /\ wk[w].pc = "checkedInit"
        /\ HandshakeUnlocked(p)
        /\ hs' = [hs EXCEPT ![p] = [@ EXCEPT !.state = "InitiationConsumed",
                                             !.chain = <<m.eph>>,
                                             !.remoteIndex = m.sender,
                                             !.lastTimestamp = Latest(m, hs[p])]]
        /\ wk' = [wk EXCEPT ![w].pc = "respond"]
        /\ UNCHANGED <<keypairs, table, running, zeroing, inbound, net, eph, derived>>

CreateMessageResponse(w) ==
    LET p == wk[w].peer
        t == Delete(table[DeviceOf[p]], hs[p].localIndex)
        r == eph + 1
        chain == Append(hs[p].chain, r)
    IN  /\ wk[w].pc = "respond"
        /\ HandshakeUnlocked(p)
        /\ hs[p].state = "InitiationConsumed"
        /\ r <= MaxEph
        /\ \E i \in FreeIndices(t) :
             /\ table' = [table EXCEPT ![DeviceOf[p]] = [t EXCEPT ![i] = HandshakeEntry(p)]]
             /\ hs' = [hs EXCEPT ![p] = [@ EXCEPT !.state = "ResponseCreated",
                                                  !.chain = chain, !.localIndex = i]]
             /\ wk' = [wk EXCEPT ![w] = [@ EXCEPT !.pc = "derive", !.out =
                                 [type |-> "response", dst |-> Counterpart[p],
                                  sender |-> i, receiver |-> hs[p].remoteIndex,
                                  ie |-> hs[p].chain[1], re |-> r]]]
        /\ eph' = r
        /\ UNCHANGED <<keypairs, running, zeroing, inbound, net, derived>>

\* "handshake initiation must be consumed first": SendHandshakeResponse returns.
CreateMessageResponseFails(w) ==
    /\ wk[w].pc = "respond"
    /\ HandshakeUnlocked(wk[w].peer)
    /\ hs[wk[w].peer].state # "InitiationConsumed"
    /\ wk' = [wk EXCEPT ![w] = IdleWorker]
    /\ UNCHANGED <<hs, keypairs, table, running, zeroing, inbound, net, eph, derived>>

\* ConsumeMessageResponse up to the release of the read lock: the response opens
\* only if it answers the initiation the handshake holds now.
ConsumeResponseCheck(w) ==
    /\ wk[w].pc = "idle"
    /\ \E m \in net :
         LET entry == table[HostOf[w]][m.receiver]
             p == entry.peer
         IN  /\ m.type = "response"
             /\ DeviceOf[m.dst] = HostOf[w]
             /\ entry.kind = "handshake"
             /\ HandshakeUnlocked(p)
             /\ hs[p].state = "InitiationCreated"
             /\ hs[p].chain = <<m.ie>>
             /\ wk' = [wk EXCEPT ![w] = [@ EXCEPT !.pc = "checkedResp", !.peer = p, !.msg = m]]
    /\ UNCHANGED <<hs, keypairs, table, running, zeroing, inbound, net, eph, derived>>

\* The rest of ConsumeMessageResponse: the state is written without a recheck.
ConsumeResponseWrite(w) ==
    LET p == wk[w].peer
        m == wk[w].msg
    IN  /\ wk[w].pc = "checkedResp"
        /\ HandshakeUnlocked(p)
        /\ hs' = [hs EXCEPT ![p] = [@ EXCEPT !.state = "ResponseConsumed",
                                             !.chain = <<m.ie, m.re>>,
                                             !.remoteIndex = m.sender]]
        /\ wk' = [wk EXCEPT ![w].pc = "derive"]
        /\ UNCHANGED <<keypairs, table, running, zeroing, inbound, net, eph, derived>>

\* Fault: the indices of the two ends mixed up.
NewKeypairSwapped(w) ==
    LET p == wk[w].peer
    IN  [id |-> Len(derived[p]) + 1, key |-> hs[p].chain,
         isInitiator |-> hs[p].state = "ResponseConsumed",
         localIndex |-> hs[p].localIndex, remoteIndex |-> hs[p].localIndex]

\* Fault: the index of the response this worker built, which another may have replaced.
NewKeypairStale(w) ==
    LET p == wk[w].peer
    IN  [id |-> Len(derived[p]) + 1, key |-> hs[p].chain,
         isInitiator |-> hs[p].state = "ResponseConsumed",
         localIndex |-> IF wk[w].out = Nil THEN hs[p].localIndex ELSE wk[w].out.sender,
         remoteIndex |-> hs[p].remoteIndex]

\* The keypair worker w derives from its peer's handshake as it is now.
NewKeypair(w) ==
    LET p == wk[w].peer
    IN  [id |-> Len(derived[p]) + 1, key |-> hs[p].chain,
         isInitiator |-> hs[p].state = "ResponseConsumed",
         localIndex |-> hs[p].localIndex, remoteIndex |-> hs[p].remoteIndex]

\* BeginSymmetricSession up to the point where it takes the keypairs lock.
BeginSymmetricSession(w) ==
    LET p == wk[w].peer
        kp == NewKeypair(w)
    IN  /\ wk[w].pc = "derive"
        /\ HandshakeUnlocked(p)
        /\ hs[p].state \in {"ResponseConsumed", "ResponseCreated"}
        /\ table' = [table EXCEPT ![DeviceOf[p]] = SwapIndexForKeypair(@, kp.localIndex, kp)]
        /\ hs' = [hs EXCEPT ![p] = Clear(@)]
        /\ derived' = [derived EXCEPT ![p] = Append(@, kp)]
        /\ wk' = [wk EXCEPT ![w] = [@ EXCEPT !.pc = "rotate", !.kp = kp]]
        /\ UNCHANGED <<keypairs, running, zeroing, inbound, net, eph>>

\* "invalid state for keypair derivation": the caller gives up.
BeginSymmetricSessionFails(w) ==
    /\ wk[w].pc = "derive"
    /\ HandshakeUnlocked(wk[w].peer)
    /\ hs[wk[w].peer].state \notin {"ResponseConsumed", "ResponseCreated"}
    /\ wk' = [wk EXCEPT ![w] = IdleWorker]
    /\ UNCHANGED <<hs, keypairs, table, running, zeroing, inbound, net, eph, derived>>

\* The end of BeginSymmetricSession, under the keypairs lock.
RotateInitiator(ks, kp) ==
    [previous |-> IF ks.next # Nil THEN ks.next ELSE ks.current, current |-> kp, next |-> Nil]

\* Fault: previous is not dropped.
RotateKeepsPrevious(ks, kp) == [ks EXCEPT !.next = kp]

RotateResponder(ks, kp) == [ks EXCEPT !.next = kp, !.previous = Nil]

RotateTable(t, ks, kp) ==
    IF kp.isInitiator
    THEN DeleteKeypair(IF ks.next # Nil THEN DeleteKeypair(t, ks.current) ELSE t, ks.previous)
    ELSE DeleteKeypair(DeleteKeypair(t, ks.next), ks.previous)

RotateKeypairs(w) ==
    LET p == wk[w].peer
        kp == wk[w].kp
    IN  /\ wk[w].pc = "rotate"
        /\ keypairs' = [keypairs EXCEPT ![p] = IF kp.isInitiator THEN RotateInitiator(@, kp)
                                                                 ELSE RotateResponder(@, kp)]
        /\ table' = [table EXCEPT ![DeviceOf[p]] = RotateTable(@, keypairs[p], kp)]
        /\ wk' = [wk EXCEPT ![w].pc = "finish"]
        /\ UNCHANGED <<hs, running, zeroing, inbound, net, eph, derived>>

\* A transport message under the current keypair.
TransportMessage(p) ==
    [type |-> "transport", dst |-> Counterpart[p], receiver |-> keypairs[p].current.remoteIndex,
     key |-> keypairs[p].current.key, fromInitiator |-> keypairs[p].current.isInitiator]

\* What ends the worker's iteration: SendHandshakeResponse sends the response it
\* built; the initiator sends a keepalive under its current keypair.
ResponseOrKeepalive(w) ==
    IF wk[w].msg.type = "initiation" THEN {wk[w].out}
    ELSE IF running[wk[w].peer] /\ keypairs[wk[w].peer].current # Nil
         THEN {TransportMessage(wk[w].peer)} ELSE {}

FinishHandshake(w) ==
    /\ wk[w].pc = "finish"
    /\ net' = net \cup ResponseOrKeepalive(w)
    /\ wk' = [wk EXCEPT ![w] = IdleWorker]
    /\ UNCHANGED <<hs, keypairs, table, running, zeroing, inbound, eph, derived>>

\* SendStagedPackets with a usable current keypair.
SendTransport(p) ==
    /\ running[p]
    /\ keypairs[p].current # Nil
    /\ net' = net \cup {TransportMessage(p)}
    /\ UNCHANGED <<hs, keypairs, table, running, zeroing, inbound, wk, eph, derived>>

\* RoutineReceiveIncoming looks the receiver index up; RoutineDecryption opens the
\* packet with the keypair found there.
ReceiveTransport(p) ==
    /\ running[p]
    /\ inbound[p] = Nil
    /\ \E m \in net :
         LET entry == table[DeviceOf[p]][m.receiver]
         IN  /\ m.type = "transport"
             /\ DeviceOf[m.dst] = DeviceOf[p]
             /\ entry.kind = "keypair"
             /\ entry.peer = p
             /\ entry.keypair.key = m.key
             /\ entry.keypair.isInitiator # m.fromInitiator
             /\ inbound' = [inbound EXCEPT ![p] = entry.keypair]
    /\ UNCHANGED <<hs, keypairs, table, running, zeroing, wk, net, eph, derived>>

\* Fault: a packet under the old keypair confirms the new one.
AnyPacketConfirms(ks, kp) == ks.next # Nil

\* A packet confirms the next keypair only if it came under it.
Confirms(ks, kp) == ks.next = kp

\* RoutineSequentialReceiver calls ReceivedWithKeypair with the element's keypair.
ReceivedWithKeypair(p) ==
    /\ inbound[p] # Nil
    /\ IF Confirms(keypairs[p], inbound[p])
       THEN /\ keypairs' = [keypairs EXCEPT ![p] = [previous |-> @.current, current |-> @.next,
                                                    next |-> Nil]]
            /\ table' = [table EXCEPT ![DeviceOf[p]] = DeleteKeypair(@, keypairs[p].previous)]
       ELSE UNCHANGED <<keypairs, table>>
    /\ inbound' = [inbound EXCEPT ![p] = Nil]
    /\ UNCHANGED <<hs, running, zeroing, wk, net, eph, derived>>

\* The table once ZeroAndFlushAll has deleted the three keypairs.
ZeroedTable(t, ks) ==
    DeleteKeypair(DeleteKeypair(DeleteKeypair(t, ks.previous), ks.current), ks.next)

\* ZeroAndFlushAll, first section: the keypairs.  The zeroKeyMaterial callback may
\* enter it until timersStop has deleted the timer; Stop enters it once that callback
\* (DelSync) and the sequential routines of the peer (stopping.Wait) have ended.
ZeroKeypairs(p, c) ==
    /\ \/ /\ c = "timer"
          /\ zeroing[p]["timer"] = "idle"
          /\ running[p] \/ zeroing[p]["stop"] = "requested"
       \/ /\ c = "stop"
          /\ zeroing[p]["stop"] = "requested"
          /\ zeroing[p]["timer"] = "idle"
          /\ inbound[p] = Nil
    /\ table' = [table EXCEPT ![DeviceOf[p]] = ZeroedTable(@, keypairs[p])]
    /\ keypairs' = [keypairs EXCEPT ![p] = [previous |-> Nil, current |-> Nil, next |-> Nil]]
    /\ zeroing' = [zeroing EXCEPT ![p][c] = "cleared"]
    /\ UNCHANGED <<hs, running, inbound, wk, net, eph, derived>>

\* ZeroAndFlushAll, second section: the handshake (Handshake.Clear).
ZeroHandshake(p, c) ==
    /\ zeroing[p][c] = "cleared"
    /\ HandshakeUnlocked(p)
    /\ table' = [table EXCEPT ![DeviceOf[p]] = Delete(@, hs[p].localIndex)]
    /\ hs' = [hs EXCEPT ![p] = Clear(@)]
    /\ zeroing' = [zeroing EXCEPT ![p][c] = "idle"]
    /\ UNCHANGED <<keypairs, running, inbound, wk, net, eph, derived>>

\* Peer.Stop up to timersStop; ZeroKeypairs(p, "stop") goes on from there.
Stop(p) ==
    /\ running[p]
    /\ running' = [running EXCEPT ![p] = FALSE]
    /\ zeroing' = [zeroing EXCEPT ![p]["stop"] = "requested"]
    /\ UNCHANGED <<hs, keypairs, table, inbound, wk, net, eph, derived>>

\* Peer.Start: peer.state keeps it out while Stop runs.
Start(p) ==
    /\ ~running[p]
    /\ zeroing[p]["stop"] = "idle"
    /\ running' = [running EXCEPT ![p] = TRUE]
    /\ UNCHANGED <<hs, keypairs, table, zeroing, inbound, wk, net, eph, derived>>

Next ==
    \/ \E p \in Peer :
         \/ SendHandshakeInitiation(p)
         \/ SendTransport(p)
         \/ ReceiveTransport(p)
         \/ ReceivedWithKeypair(p)
         \/ Stop(p)
         \/ Start(p)
         \/ \E c \in Caller : ZeroKeypairs(p, c) \/ ZeroHandshake(p, c)
    \/ \E w \in Worker :
         \/ ConsumeInitiationCheck(w)
         \/ ConsumeInitiationWrite(w)
         \/ CreateMessageResponse(w)
         \/ CreateMessageResponseFails(w)
         \/ ConsumeResponseCheck(w)
         \/ ConsumeResponseWrite(w)
         \/ BeginSymmetricSession(w)
         \/ BeginSymmetricSessionFails(w)
         \/ RotateKeypairs(w)
         \/ FinishHandshake(w)

Spec == Init /\ [][Next]_vars

-----------------------------------------------------------------------------
(* Properties *)

Slots(p) == {keypairs[p].previous, keypairs[p].current, keypairs[p].next} \ {Nil}

\* The keypair a worker has put in the table but not yet in peer.keypairs.
Pending(p) == {wk[w].kp : w \in {v \in Worker : wk[v].pc = "rotate" /\ wk[v].peer = p}}

\* Everything a peer refers to by a nonzero index is what the index table finds
\* there: the handshake a response must reach, and each of the keypairs transport
\* messages are decrypted with.  CreateMessageInitiation, CreateMessageResponse,
\* BeginSymmetricSession, ReceivedWithKeypair and ZeroAndFlushAll each delete and
\* insert entries under different locks, so a wrong order would cut a peer off.
\* (Index 0 is excepted: Delete(0) runs whenever localIndex is unset.)
IndexReachesOwner ==
    \A p \in Peer :
      /\ hs[p].localIndex # Zero =>
            table[DeviceOf[p]][hs[p].localIndex] = HandshakeEntry(p)
      /\ \A kp \in Slots(p) \cup Pending(p) :
            kp.localIndex # Zero => table[DeviceOf[p]][kp.localIndex] = KeypairEntry(p, kp)

\* No entry outlives its owner: what the table holds at a nonzero index is the
\* handshake in progress or a keypair the peer still has.  A missed DeleteKeypair in
\* the rotation would leak an entry for the life of the device.
NoLeakedIndex ==
    \A d \in Device : \A i \in Index \ {Zero} :
      LET entry == table[d][i]
      IN  /\ entry.kind = "handshake" =>
                DeviceOf[entry.peer] = d /\ hs[entry.peer].localIndex = i
          /\ entry.kind = "keypair" =>
                /\ DeviceOf[entry.peer] = d
                /\ entry.keypair \in Slots(entry.peer) \cup Pending(entry.peer)
                /\ entry.keypair.localIndex = i

\* A peer has at most two keypairs in use: previous and next are never both set, so a
\* rotation that drops one of them drops what the other has replaced.
PreviousOrNext == \A p \in Peer : keypairs[p].previous = Nil \/ keypairs[p].next = Nil

\* BeginSymmetricSession never installs the same session key twice on a peer: a
\* second keypair under one key would start again from nonce 0.
NoKeyDerivedTwice ==
    \A p \in Peer : \A m, n \in DOMAIN derived[p] :
      derived[p][m].key = derived[p][n].key => m = n

\* A keypair an initiator derives has its match at the other end, under the index the
\* initiator will send to: SendHandshakeResponse derives before it sends.
InitiatorKeyShared ==
    \A p \in Peer : \A n \in DOMAIN derived[p] :
      LET kp == derived[p][n]
          theirs == derived[Counterpart[p]]
      IN  kp.isInitiator =>
            \E m \in DOMAIN theirs : /\ ~theirs[m].isInitiator
                                     /\ theirs[m].key = kp.key
                                     /\ theirs[m].localIndex = kp.remoteIndex

\* Key confirmation: a responder keypair becomes current (and is used to send) only
\* after the other end has derived the same key; until then it waits in next.
ConfirmedBeforeUse ==
    \A p \in Peer :
      LET kp == keypairs[p].current
          theirs == derived[Counterpart[p]]
      IN  kp # Nil /\ ~kp.isInitiator =>
            \E m \in DOMAIN theirs : theirs[m].isInitiator /\ theirs[m].key = kp.key

\* An initiation is consumed only if its timestamp is newer than every one consumed
\* before it: the replay check of ConsumeMessageInitiation holds at the write.
NoInitiationReplayed ==
    [][\A p \in Peer :
         hs'[p].state = "InitiationConsumed" /\ hs'[p] # hs[p]
           => hs'[p].lastTimestamp > hs[p].lastTimestamp]_vars

\* The timestamp a peer remembers never goes back, whatever the order in which
\* workers finish with two initiations, and survives Clear and ZeroAndFlushAll.
TimestampNeverGoesBack ==
    [][\A p \in Peer : hs'[p].lastTimestamp >= hs[p].lastTimestamp]_vars

=============================================================================
