----------------------------- MODULE NoiseProofs -----------------------------
(***************************************************************************)
(* Proofs about module Noise, for any number of devices, peers, handshake  *)
(* workers and indices, in five parts.                                     *)
(*                                                                         *)
(* Types: every variable keeps its type, and what the operators return.    *)
(*                                                                         *)
(* The index table, the keypair slots and the timestamps.  IndexInv says   *)
(* that the table and the peers name each other: a peer's handshake and    *)
(* keypairs own the entries at their indices, and no entry names a peer    *)
(* that does not own it.  A step that takes an index, frees some, or moves *)
(* one from a handshake to a keypair preserves it.                         *)
(*                                                                         *)
(* Key confirmation: a responder sends under a keypair only once the other *)
(* end has derived it.  The argument follows the ephemeral key of an       *)
(* initiation, which is drawn once and addressed to one peer, through the  *)
(* handshakes, the workers, the keypairs and the packets.                  *)
(*                                                                         *)
(* One handshake worker per device: then nobody touches a handshake        *)
(* between the sections of the worker that works on it, so the key that an *)
(* initiator derives is one its peer has derived, and no initiation is     *)
(* consumed twice.  SoleInv says in which state a worker leaves the        *)
(* handshake between two sections, and that every response on its way and  *)
(* every handshake that has consumed one is matched by a key of the peer.  *)
(*                                                                         *)
(* Each key once, still with one worker: UnusedInv says that a handshake   *)
(* under way, and a message that a worker has let pass, belong to an       *)
(* initiation that the peer has not derived a key from.  For initiations   *)
(* of the other end the timestamp tells, which is not behind any of them;  *)
(* the peer's own are drawn fresh.                                         *)
(***************************************************************************)
EXTENDS Noise, TLAPS

\* Zenon proves the leaves that name no prover; those that cite SMT need arithmetic,
\* records or sequences.
USE Zenon

-----------------------------------------------------------------------------
(* Types *)

\* What a worker's program counter says about the rest of its state.
WorkersOK ==
    \A w \in Worker :
      /\ wk[w].pc # "idle" => wk[w].peer \in Peer /\ wk[w].msg \in Initiation \cup Response
      /\ wk[w].pc \in {"checkedInit", "respond"} => wk[w].msg \in Initiation
      /\ wk[w].pc = "checkedResp" => wk[w].msg \in Response
      /\ wk[w].pc \in {"derive", "rotate", "finish"} /\ wk[w].msg \in Initiation
           => wk[w].out \in Response
      /\ wk[w].pc = "rotate" => wk[w].kp \in Keypair

\* An initiation that has been consumed is in the chain key.
ChainOK == \A p \in Peer : hs[p].state = "InitiationConsumed" => hs[p].chain # <<>>

Typing == TypeOK /\ WorkersOK /\ ChainOK

-----------------------------------------------------------------------------
(* The operations on one device's table *)

\* Delete frees one slot and leaves the others alone.
LEMMA DeleteFacts ==
    ASSUME NEW t \in [Index -> Entry], NEW i \in Index
    PROVE  /\ Delete(t, i) \in [Index -> Entry]
           /\ \A j \in Index : Delete(t, i)[j] = IF j = i THEN NoEntry ELSE t[j]
BY DEF Delete, Entry

\* DeleteKeypair frees the slot of a keypair, if there is one.
LEMMA DeleteKeypairFacts ==
    ASSUME NEW t \in [Index -> Entry], NEW kp \in Keypair \cup {Nil}
    PROVE  /\ DeleteKeypair(t, kp) \in [Index -> Entry]
           /\ \A j \in Index : DeleteKeypair(t, kp)[j] =
                IF kp # Nil /\ j = kp.localIndex THEN NoEntry ELSE t[j]
<1>1. CASE kp = Nil
  BY <1>1 DEF DeleteKeypair
<1>2. CASE kp # Nil
  <2>1. kp.localIndex \in Index
    BY <1>2 DEF Keypair
  <2>2. QED
    BY SMT, <1>2, <2>1, DeleteFacts DEF DeleteKeypair
<1>3. QED
  BY <1>1, <1>2

\* SwapIndexForKeypair replaces the entry of one used slot and keeps its peer.
LEMMA SwapFacts ==
    ASSUME NEW t \in [Index -> Entry], NEW i \in Index, NEW kp \in Keypair
    PROVE  /\ SwapIndexForKeypair(t, i, kp) \in [Index -> Entry]
           /\ \A j \in Index : SwapIndexForKeypair(t, i, kp)[j] =
                IF j = i /\ t[i] # NoEntry THEN KeypairEntry(t[i].peer, kp) ELSE t[j]
<1>1. CASE t[i] = NoEntry
  BY <1>1 DEF SwapIndexForKeypair
<1>2. CASE t[i] # NoEntry
  <2>1. t[i].peer \in Peer
    BY <1>2 DEF Entry, NoEntry
  <2>2. KeypairEntry(t[i].peer, kp) \in Entry
    BY <2>1 DEF Entry, KeypairEntry
  <2>3. QED
    BY <1>2, <2>2 DEF SwapIndexForKeypair
<1>3. QED
  BY <1>1, <1>2

LEMMA HandshakeEntryType == \A p \in Peer : HandshakeEntry(p) \in Entry
BY DEF HandshakeEntry, Entry

-----------------------------------------------------------------------------
(* Type correctness *)

LEMMA InitTyping == Init => Typing
BY SMT, NoiseAssumption
DEF Init, Typing, TypeOK, WorkersOK, ChainOK, Handshake, HandshakeState, Keypairs, Entry,
    NoEntry, IdleWorker, WorkerState, Caller

LEMMA OneElement == \A e \in Nat : <<e>> \in Seq(Nat) /\ <<e>> # <<>>
BY SMT

LEMMA TwoElements == \A e, r \in Nat : <<e, r>> \in Seq(Nat) /\ <<e, r>> # <<>>
BY SMT

\* Replacing the handshake of one peer by a well-formed one.
LEMMA HandshakeStep ==
    ASSUME Typing, NEW p \in Peer, NEW h \in Handshake, hs' = [hs EXCEPT ![p] = h],
           h.state = "InitiationConsumed" => h.chain # <<>>
    PROVE  hs' \in [Peer -> Handshake] /\ ChainOK'
BY DEF Typing, TypeOK, ChainOK

\* The worker predicate of WorkersOK for one worker.
WorkerOK(x) ==
    /\ x.pc # "idle" => x.peer \in Peer /\ x.msg \in Initiation \cup Response
    /\ x.pc \in {"checkedInit", "respond"} => x.msg \in Initiation
    /\ x.pc = "checkedResp" => x.msg \in Response
    /\ x.pc \in {"derive", "rotate", "finish"} /\ x.msg \in Initiation => x.out \in Response
    /\ x.pc = "rotate" => x.kp \in Keypair

\* Replacing the state of one worker by a well-formed one.
LEMMA WorkerStep ==
    ASSUME Typing, NEW w \in Worker, NEW x \in WorkerState, WorkerOK(x),
           wk' = [wk EXCEPT ![w] = x]
    PROVE  wk' \in [Worker -> WorkerState] /\ WorkersOK'
<1>1. wk' \in [Worker -> WorkerState]
  BY DEF Typing, TypeOK
<1>2. \A v \in Worker : wk'[v] = IF v = w THEN x ELSE wk[v]
  BY DEF Typing, TypeOK
<1>3. QED
  BY SMT, <1>1, <1>2 DEF Typing, WorkersOK, WorkerOK

LEMMA IdleWorkerOK == IdleWorker \in WorkerState /\ WorkerOK(IdleWorker)
BY DEF IdleWorker, WorkerState, WorkerOK

\* The table of a peer's device and the peer's index.
LEMMA TableOf ==
    ASSUME Typing, NEW p \in Peer
    PROVE  /\ DeviceOf[p] \in Device
           /\ table[DeviceOf[p]] \in [Index -> Entry]
           /\ hs[p] \in Handshake
           /\ hs[p].localIndex \in Index
           /\ Delete(table[DeviceOf[p]], hs[p].localIndex) \in [Index -> Entry]
<1>1. DeviceOf[p] \in Device /\ table[DeviceOf[p]] \in [Index -> Entry]
  BY NoiseAssumption DEF Typing, TypeOK
<1>2. hs[p] \in Handshake /\ hs[p].localIndex \in Index
  BY DEF Typing, TypeOK, Handshake
<1>3. QED
  BY <1>1, <1>2, DeleteFacts

LEMMA InitiationTyping ==
    ASSUME Typing, NEW p \in Peer, SendHandshakeInitiation(p)
    PROVE  Typing'
<1> DEFINE d == DeviceOf[p]
           t == Delete(table[d], hs[p].localIndex)
           e == eph + 1
           h(i) == [hs[p] EXCEPT !.state = "InitiationCreated", !.chain = <<e>>, !.localIndex = i]
           m(i) == [type |-> "initiation", dst |-> Counterpart[p], sender |-> i, eph |-> e]
<1>1. d \in Device /\ t \in [Index -> Entry] /\ hs[p] \in Handshake
  BY TableOf
<1>2. e \in Nat /\ <<e>> \in Seq(Nat)
  BY SMT, OneElement DEF Typing, TypeOK
<1>3. PICK i \in FreeIndices(t) :
         /\ table' = [table EXCEPT ![d] = [t EXCEPT ![i] = HandshakeEntry(p)]]
         /\ hs' = [hs EXCEPT ![p] = h(i)]
         /\ net' = net \cup {m(i)}
  BY DEF SendHandshakeInitiation
<1>4. i \in Index
  BY DEF FreeIndices
<1>5. table' \in [Device -> [Index -> Entry]]
  BY <1>1, <1>3, <1>4, HandshakeEntryType DEF Typing, TypeOK
<1>6. h(i) \in Handshake /\ h(i).state = "InitiationCreated"
  <2> DEFINE c == <<e>>
  <2>1. c \in Seq(Nat)
    BY <1>2
  <2> HIDE DEF c
  <2>2. [hs[p] EXCEPT !.state = "InitiationCreated", !.chain = c, !.localIndex = i] \in Handshake
    BY <1>1, <1>4, <2>1 DEF Handshake, HandshakeState
  <2>3. h(i).state = "InitiationCreated"
    BY <1>1 DEF Handshake
  <2>4. QED
    BY <2>2, <2>3 DEF c
<1>7. hs' \in [Peer -> Handshake] /\ ChainOK'
  <2> HIDE DEF h
  <2> QED BY <1>3, <1>6, HandshakeStep, ZenonT(30)
<1>8. m(i) \in Message
  BY <1>2, <1>4, NoiseAssumption DEF Message, Initiation
<1>9. QED
  BY <1>2, <1>3, <1>5, <1>7, <1>8 DEF SendHandshakeInitiation, Typing, TypeOK, WorkersOK

LEMMA ConsumeInitiationTyping ==
    ASSUME Typing, NEW w \in Worker,
           ConsumeInitiationCheck(w) \/ ConsumeInitiationWrite(w)
    PROVE  Typing'
<1>0. wk[w] \in WorkerState
  BY DEF Typing, TypeOK
<1>1. CASE ConsumeInitiationCheck(w)
  <2> DEFINE x(m) == [wk[w] EXCEPT !.pc = "checkedInit", !.peer = m.dst, !.msg = m]
  <2>1. PICK m \in net : m.type = "initiation" /\ wk' = [wk EXCEPT ![w] = x(m)]
    BY <1>1 DEF ConsumeInitiationCheck
  <2>2. m \in Initiation /\ m.dst \in Peer
    BY <2>1 DEF Typing, TypeOK, Message, Initiation, Response, Transport
  <2>3. x(m) \in WorkerState /\ WorkerOK(x(m))
    BY <1>0, <2>2 DEF WorkerState, WorkerOK
  <2>4. wk' \in [Worker -> WorkerState] /\ WorkersOK'
    <3> HIDE DEF x
    <3> QED BY <2>1, <2>3, WorkerStep
  <2>5. QED
    BY <1>1, <2>4, ZenonT(30) DEF ConsumeInitiationCheck, Typing, TypeOK, ChainOK
<1>2. CASE ConsumeInitiationWrite(w)
  <2> DEFINE p == wk[w].peer
             m == wk[w].msg
             ts == Latest(m, hs[p])
             h == [hs[p] EXCEPT !.state = "InitiationConsumed", !.chain = <<m.eph>>,
                                !.remoteIndex = m.sender, !.lastTimestamp = ts]
             x == [wk[w] EXCEPT !.pc = "respond"]
  <2>1. p \in Peer /\ m \in Initiation /\ m.eph \in Nat /\ m.sender \in Index
    BY <1>2 DEF ConsumeInitiationWrite, Typing, WorkersOK, Initiation
  <2>2. hs[p] \in Handshake /\ ts \in Nat
    BY <2>1 DEF Typing, TypeOK, Handshake, Latest
  <2>3. h \in Handshake /\ h.chain # <<>>
    <3> DEFINE c == <<m.eph>>
    <3>1. c \in Seq(Nat) /\ c # <<>>
      BY <2>1, OneElement
    <3> HIDE DEF c, ts, m, p
    <3>2. [hs[p] EXCEPT !.state = "InitiationConsumed", !.chain = c,
                        !.remoteIndex = m.sender, !.lastTimestamp = ts] \in Handshake
      BY <2>1, <2>2, <3>1 DEF Handshake, HandshakeState
    <3>3. h.chain = c
      BY <2>2 DEF c, Handshake
    <3>4. QED
      BY <3>1, <3>2, <3>3 DEF c
  <2>4. hs' = [hs EXCEPT ![p] = h]
    BY <1>2 DEF ConsumeInitiationWrite
  <2>5. hs' \in [Peer -> Handshake] /\ ChainOK'
    <3> HIDE DEF h, p
    <3> QED BY <2>1, <2>3, <2>4, HandshakeStep
  <2>6. x \in WorkerState /\ WorkerOK(x) /\ wk' = [wk EXCEPT ![w] = x]
    BY <1>0, <1>2, <2>1 DEF ConsumeInitiationWrite, WorkerState, WorkerOK
  <2>7. wk' \in [Worker -> WorkerState] /\ WorkersOK'
    <3> HIDE DEF x
    <3> QED BY <2>6, WorkerStep, ZenonT(30)
  <2>8. QED
    BY <1>2, <2>5, <2>7 DEF ConsumeInitiationWrite, Typing, TypeOK
<1>3. QED
  BY <1>1, <1>2

LEMMA CreateResponseTyping ==
    ASSUME Typing, NEW w \in Worker,
           CreateMessageResponse(w) \/ CreateMessageResponseFails(w)
    PROVE  Typing'
<1>0. wk[w] \in WorkerState
  BY DEF Typing, TypeOK
<1>1. CASE CreateMessageResponse(w)
  <2> DEFINE p == wk[w].peer
             d == DeviceOf[p]
             t == Delete(table[d], hs[p].localIndex)
             r == eph + 1
             chain == Append(hs[p].chain, r)
             h(i) == [hs[p] EXCEPT !.state = "ResponseCreated", !.chain = chain, !.localIndex = i]
             out(i) == [type |-> "response", dst |-> Counterpart[p], sender |-> i,
                        receiver |-> hs[p].remoteIndex, ie |-> hs[p].chain[1], re |-> r]
             x(i) == [wk[w] EXCEPT !.pc = "derive", !.out = out(i)]
  <2>1. p \in Peer /\ wk[w].msg \in Initiation
    BY <1>1 DEF CreateMessageResponse, Typing, WorkersOK
  <2>2. d \in Device /\ t \in [Index -> Entry] /\ hs[p] \in Handshake
    BY <2>1, TableOf
  <2>3. PICK i \in FreeIndices(t) :
           /\ table' = [table EXCEPT ![d] = [t EXCEPT ![i] = HandshakeEntry(p)]]
           /\ hs' = [hs EXCEPT ![p] = h(i)]
           /\ wk' = [wk EXCEPT ![w] = x(i)]
    BY <1>1 DEF CreateMessageResponse
  <2>4. i \in Index
    BY DEF FreeIndices
  <2>5. table' \in [Device -> [Index -> Entry]]
    BY <2>1, <2>2, <2>3, <2>4, HandshakeEntryType DEF Typing, TypeOK
  <2>6. r \in Nat /\ chain \in Seq(Nat) /\ hs[p].chain[1] \in Nat
    <3>1. hs[p].chain \in Seq(Nat) /\ r \in Nat
      BY SMT, <2>2 DEF Typing, TypeOK, Handshake
    <3>2. hs[p].chain # <<>>
      BY <1>1, <2>1 DEF CreateMessageResponse, Typing, ChainOK
    <3>3. QED
      BY SMTT(30), <3>1, <3>2
  <2>7. h(i) \in Handshake /\ h(i).state = "ResponseCreated"
    <3> HIDE DEF chain
    <3> QED BY <2>2, <2>4, <2>6 DEF Handshake, HandshakeState
  <2>8. hs' \in [Peer -> Handshake] /\ ChainOK'
    <3> HIDE DEF h
    <3> QED BY <2>1, <2>3, <2>7, HandshakeStep
  <2>9. out(i) \in Response
    BY <2>1, <2>2, <2>4, <2>6, NoiseAssumption DEF Response, Handshake
  <2>10. x(i) \in WorkerState /\ WorkerOK(x(i))
    <3> HIDE DEF out
    <3> QED BY <1>0, <2>1, <2>9 DEF WorkerState, WorkerOK
  <2>11. wk' \in [Worker -> WorkerState] /\ WorkersOK'
    <3> HIDE DEF x
    <3> QED BY <2>3, <2>10, WorkerStep
  <2>12. QED
    BY <1>1, <2>5, <2>6, <2>8, <2>11 DEF CreateMessageResponse, Typing, TypeOK
<1>2. CASE CreateMessageResponseFails(w)
  <2>1. wk' \in [Worker -> WorkerState] /\ WorkersOK'
    BY <1>2, IdleWorkerOK, WorkerStep DEF CreateMessageResponseFails
  <2>2. QED
    BY <1>2, <2>1 DEF CreateMessageResponseFails, Typing, TypeOK, ChainOK
<1>3. QED
  BY <1>1, <1>2

LEMMA ConsumeResponseTyping ==
    ASSUME Typing, NEW w \in Worker,
           ConsumeResponseCheck(w) \/ ConsumeResponseWrite(w)
    PROVE  Typing'
<1>0. wk[w] \in WorkerState
  BY DEF Typing, TypeOK
<1>1. CASE ConsumeResponseCheck(w)
  <2> DEFINE p(m) == table[HostOf[w]][m.receiver].peer
             x(m) == [wk[w] EXCEPT !.pc = "checkedResp", !.peer = p(m), !.msg = m]
  <2>1. PICK m \in net : /\ m.type = "response"
                         /\ table[HostOf[w]][m.receiver].kind = "handshake"
                         /\ wk' = [wk EXCEPT ![w] = x(m)]
    BY <1>1 DEF ConsumeResponseCheck
  <2>2. m \in Response /\ m.receiver \in Index
    BY <2>1 DEF Typing, TypeOK, Message, Initiation, Response, Transport
  <2>3. table[HostOf[w]][m.receiver] \in Entry
    BY SMT, <2>2, NoiseAssumption DEF Typing, TypeOK
  <2>4. p(m) \in Peer
    BY SMT, <2>1, <2>3 DEF Entry, NoEntry
  <2>5. x(m) \in WorkerState /\ WorkerOK(x(m))
    <3> HIDE DEF p
    <3> QED BY <1>0, <2>2, <2>4 DEF WorkerState, WorkerOK
  <2>6. wk' \in [Worker -> WorkerState] /\ WorkersOK'
    <3> HIDE DEF x
    <3> QED BY <2>1, <2>5, WorkerStep
  <2>7. QED
    BY <1>1, <2>6, ZenonT(30) DEF ConsumeResponseCheck, Typing, TypeOK, ChainOK
<1>2. CASE ConsumeResponseWrite(w)
  <2> DEFINE p == wk[w].peer
             m == wk[w].msg
             c == <<m.ie, m.re>>
             h == [hs[p] EXCEPT !.state = "ResponseConsumed", !.chain = c,
                                !.remoteIndex = m.sender]
             x == [wk[w] EXCEPT !.pc = "derive"]
  <2>1. p \in Peer /\ m \in Response /\ m.ie \in Nat /\ m.re \in Nat /\ m.sender \in Index
    BY <1>2 DEF ConsumeResponseWrite, Typing, WorkersOK, Response
  <2>2. hs[p] \in Handshake /\ c \in Seq(Nat)
    BY <2>1, TwoElements DEF Typing, TypeOK
  <2>3. h \in Handshake /\ h.state = "ResponseConsumed"
    <3> HIDE DEF c, m, p
    <3> QED BY <2>1, <2>2 DEF Handshake, HandshakeState
  <2>4. hs' = [hs EXCEPT ![p] = h]
    BY <1>2 DEF ConsumeResponseWrite
  <2>5. hs' \in [Peer -> Handshake] /\ ChainOK'
    <3> HIDE DEF h, p
    <3> QED BY <2>1, <2>3, <2>4, HandshakeStep
  <2>6. x \in WorkerState /\ WorkerOK(x) /\ wk' = [wk EXCEPT ![w] = x]
    BY <1>0, <1>2, <2>1
    DEF ConsumeResponseWrite, WorkerState, WorkerOK, Initiation, Response
  <2>7. wk' \in [Worker -> WorkerState] /\ WorkersOK'
    <3> HIDE DEF x
    <3> QED BY <2>6, WorkerStep
  <2>8. QED
    BY <1>2, <2>5, <2>7 DEF ConsumeResponseWrite, Typing, TypeOK
<1>3. QED
  BY <1>1, <1>2

\* Clear zeroes the state and the index, and keeps the timestamp.
LEMMA ClearFacts ==
    ASSUME NEW h \in Handshake
    PROVE  /\ Clear(h) \in Handshake
           /\ Clear(h).state = "Zeroed"
           /\ Clear(h).localIndex = Zero
           /\ Clear(h).lastTimestamp = h.lastTimestamp
<1> DEFINE c == <<>>
<1>1. c \in Seq(Nat)
  BY SMT
<1> HIDE DEF c
<1>2. [h EXCEPT !.state = "Zeroed", !.chain = c, !.localIndex = Zero] \in Handshake
  BY <1>1, NoiseAssumption DEF Handshake, HandshakeState
<1>3. QED
  BY <1>2 DEF Clear, c, Handshake

LEMMA ClearStep ==
    ASSUME Typing, NEW p \in Peer, hs' = [hs EXCEPT ![p] = Clear(@)]
    PROVE  hs' \in [Peer -> Handshake] /\ ChainOK'
<1>1. hs[p] \in Handshake
  BY DEF Typing, TypeOK
<1>2. QED
  BY <1>1, ClearFacts, HandshakeStep

LEMMA NewKeypairType ==
    ASSUME Typing, NEW w \in Worker, wk[w].peer \in Peer
    PROVE  NewKeypair(w) \in Keypair /\ NewKeypair(w).localIndex = hs[wk[w].peer].localIndex
<1> DEFINE p == wk[w].peer
<1>1. derived[p] \in Seq(Keypair) /\ hs[p] \in Handshake
  BY DEF Typing, TypeOK
<1>2. Len(derived[p]) + 1 \in Nat
  BY SMT, <1>1
<1>3. QED
  BY <1>1, <1>2 DEF NewKeypair, Keypair, Handshake

LEMMA BeginTyping ==
    ASSUME Typing, NEW w \in Worker,
           BeginSymmetricSession(w) \/ BeginSymmetricSessionFails(w)
    PROVE  Typing'
<1>0. wk[w] \in WorkerState
  BY DEF Typing, TypeOK
<1>1. CASE BeginSymmetricSession(w)
  <2> DEFINE p == wk[w].peer
             x == [wk[w] EXCEPT !.pc = "rotate", !.kp = NewKeypair(w)]
  <2>1. p \in Peer
    BY <1>1 DEF BeginSymmetricSession, Typing, WorkersOK
  <2>2. /\ table' = [table EXCEPT ![DeviceOf[p]] =
                       SwapIndexForKeypair(@, NewKeypair(w).localIndex, NewKeypair(w))]
        /\ hs' = [hs EXCEPT ![p] = Clear(@)]
        /\ derived' = [derived EXCEPT ![p] = Append(@, NewKeypair(w))]
        /\ wk' = [wk EXCEPT ![w] = x]
    BY <1>1 DEF BeginSymmetricSession
  <2>3. NewKeypair(w) \in Keypair /\ NewKeypair(w).localIndex \in Index
    BY <2>1, NewKeypairType, TableOf
  <2>4. table' \in [Device -> [Index -> Entry]]
    BY <2>1, <2>2, <2>3, TableOf, SwapFacts DEF Typing, TypeOK
  <2>5. hs' \in [Peer -> Handshake] /\ ChainOK'
    <3> HIDE DEF p
    <3> QED BY <2>1, <2>2, ClearStep
  <2>6. derived' \in [Peer -> Seq(Keypair)]
    <3>1. Append(derived[p], NewKeypair(w)) \in Seq(Keypair)
      BY SMT, <2>1, <2>3 DEF Typing, TypeOK
    <3>2. QED
      BY <2>1, <2>2, <3>1 DEF Typing, TypeOK
  <2>7. x \in WorkerState /\ WorkerOK(x)
    BY <1>0, <1>1, <2>1, <2>3 DEF BeginSymmetricSession, WorkerState, WorkerOK, Typing, WorkersOK
  <2>8. wk' \in [Worker -> WorkerState] /\ WorkersOK'
    <3> HIDE DEF x
    <3> QED BY <2>2, <2>7, WorkerStep
  <2>9. QED
    BY <1>1, <2>4, <2>5, <2>6, <2>8 DEF BeginSymmetricSession, Typing, TypeOK
<1>2. CASE BeginSymmetricSessionFails(w)
  <2>1. wk' \in [Worker -> WorkerState] /\ WorkersOK'
    BY <1>2, IdleWorkerOK, WorkerStep DEF BeginSymmetricSessionFails
  <2>2. QED
    BY <1>2, <2>1 DEF BeginSymmetricSessionFails, Typing, TypeOK, ChainOK
<1>3. QED
  BY <1>1, <1>2

(* The rotation of the keypairs: one slot is kept, the others are dropped. *)

NonNil(S) == S \ {Nil}

Kept(ks, kp) == IF kp.isInitiator /\ ks.next # Nil THEN ks.next ELSE ks.current

Dropped(ks, kp) ==
    NonNil(IF kp.isInitiator
           THEN IF ks.next # Nil THEN {ks.current, ks.previous} ELSE {ks.previous}
           ELSE {ks.next, ks.previous})

Rotated(ks, kp) == IF kp.isInitiator THEN RotateInitiator(ks, kp) ELSE RotateResponder(ks, kp)

\* The rotation keeps one keypair, adds the new one, and frees exactly the slots of
\* the keypairs it drops.
LEMMA RotateFacts ==
    ASSUME NEW t \in [Index -> Entry], NEW ks \in Keypairs, NEW kp \in Keypair
    PROVE  /\ RotateTable(t, ks, kp) \in [Index -> Entry]
           /\ \A j \in Index : RotateTable(t, ks, kp)[j] =
                IF \E x \in Dropped(ks, kp) : j = x.localIndex THEN NoEntry ELSE t[j]
           /\ Rotated(ks, kp) \in Keypairs
           /\ \/ /\ Rotated(ks, kp).previous = Kept(ks, kp)
                 /\ Rotated(ks, kp).current = kp
                 /\ Rotated(ks, kp).next = Nil
              \/ /\ Rotated(ks, kp).previous = Nil
                 /\ Rotated(ks, kp).current = Kept(ks, kp)
                 /\ Rotated(ks, kp).next = kp
<1> DEFINE cur == DeleteKeypair(t, ks.current)
           nxt == DeleteKeypair(t, ks.next)
<1>1. /\ ks.previous \in Keypair \cup {Nil}
      /\ ks.current \in Keypair \cup {Nil}
      /\ ks.next \in Keypair \cup {Nil}
  BY DEF Keypairs
<1>2. /\ cur \in [Index -> Entry]
      /\ \A j \in Index : cur[j] = IF ks.current # Nil /\ j = ks.current.localIndex
                                   THEN NoEntry ELSE t[j]
      /\ nxt \in [Index -> Entry]
      /\ \A j \in Index : nxt[j] = IF ks.next # Nil /\ j = ks.next.localIndex
                                   THEN NoEntry ELSE t[j]
  BY SMT, <1>1, DeleteKeypairFacts
<1>3. Rotated(ks, kp) \in Keypairs
  BY <1>1 DEF Rotated, RotateInitiator, RotateResponder, Keypairs
<1>4. CASE kp.isInitiator /\ ks.next # Nil
  <2>1. RotateTable(t, ks, kp) = DeleteKeypair(cur, ks.previous)
    BY <1>4 DEF RotateTable
  <2>2. Dropped(ks, kp) = NonNil({ks.current, ks.previous})
    BY <1>4 DEF Dropped
  <2>3. QED
    <3> HIDE DEF cur, nxt
    <3> QED BY SMT, <1>1, <1>2, <1>3, <1>4, <2>1, <2>2, DeleteKeypairFacts
            DEF NonNil, Kept, Rotated, RotateInitiator
<1>5. CASE kp.isInitiator /\ ks.next = Nil
  <2>1. RotateTable(t, ks, kp) = DeleteKeypair(t, ks.previous)
    BY <1>5 DEF RotateTable
  <2>2. Dropped(ks, kp) = NonNil({ks.previous})
    BY <1>5 DEF Dropped
  <2>3. QED
    BY SMT, <1>1, <1>3, <1>5, <2>1, <2>2, DeleteKeypairFacts
    DEF NonNil, Kept, Rotated, RotateInitiator
<1>6. CASE ~kp.isInitiator
  <2>1. RotateTable(t, ks, kp) = DeleteKeypair(nxt, ks.previous)
    BY <1>6 DEF RotateTable
  <2>2. Dropped(ks, kp) = NonNil({ks.next, ks.previous})
    BY <1>6 DEF Dropped
  <2>3. QED
    <3> HIDE DEF cur, nxt
    <3> QED BY SMT, <1>1, <1>2, <1>3, <1>6, <2>1, <2>2, DeleteKeypairFacts
            DEF NonNil, Kept, Rotated, RotateResponder, Keypairs
<1>7. QED
  BY <1>4, <1>5, <1>6

LEMMA RotateTyping ==
    ASSUME Typing, NEW w \in Worker, RotateKeypairs(w)
    PROVE  Typing'
<1> DEFINE p == wk[w].peer
           kp == wk[w].kp
           x == [wk[w] EXCEPT !.pc = "finish"]
<1>1. p \in Peer /\ kp \in Keypair /\ keypairs[p] \in Keypairs /\ wk[w] \in WorkerState
  BY DEF RotateKeypairs, Typing, TypeOK, WorkersOK
<1>2. /\ keypairs' = [keypairs EXCEPT ![p] = Rotated(@, kp)]
      /\ table' = [table EXCEPT ![DeviceOf[p]] = RotateTable(@, keypairs[p], kp)]
      /\ wk' = [wk EXCEPT ![w] = x]
  BY DEF RotateKeypairs, Rotated
<1>3. RotateTable(table[DeviceOf[p]], keypairs[p], kp) \in [Index -> Entry]
      /\ Rotated(keypairs[p], kp) \in Keypairs
  BY ZenonT(30), <1>1, TableOf, RotateFacts
<1>4. keypairs' \in [Peer -> Keypairs] /\ table' \in [Device -> [Index -> Entry]]
  BY <1>1, <1>2, <1>3 DEF Typing, TypeOK
<1>5. x \in WorkerState /\ WorkerOK(x)
  BY <1>1 DEF RotateKeypairs, Typing, WorkersOK, WorkerState, WorkerOK
<1>6. wk' \in [Worker -> WorkerState] /\ WorkersOK'
  <2> HIDE DEF x
  <2> QED BY <1>2, <1>5, WorkerStep
<1>7. QED
  BY <1>4, <1>6 DEF RotateKeypairs, Typing, TypeOK, ChainOK

LEMMA TransportMessageType ==
    ASSUME Typing, NEW p \in Peer, keypairs[p].current # Nil
    PROVE  TransportMessage(p) \in Message
<1>1. keypairs[p].current \in Keypair
  BY DEF Typing, TypeOK, Keypairs
<1>2. QED
  BY <1>1, NoiseAssumption DEF TransportMessage, Message, Transport, Keypair

LEMMA FinishTyping ==
    ASSUME Typing, NEW w \in Worker, FinishHandshake(w)
    PROVE  Typing'
<1> DEFINE p == wk[w].peer
<1>1. p \in Peer /\ wk[w].msg \in Initiation \cup Response
  BY DEF FinishHandshake, Typing, WorkersOK
<1>2. net' \in SUBSET Message
  <2>1. CASE wk[w].msg.type = "initiation"
    <3>1. wk[w].out \in Response
      BY <1>1, <2>1 DEF FinishHandshake, Typing, WorkersOK, Initiation, Response
    <3>2. QED
      BY <2>1, <3>1 DEF FinishHandshake, ResponseOrKeepalive, Typing, TypeOK, Message
  <2>2. CASE wk[w].msg.type # "initiation"
    <3> HIDE DEF p
    <3>1. CASE running[p] /\ keypairs[p].current # Nil
      BY <1>1, <2>2, <3>1, TransportMessageType DEF FinishHandshake, ResponseOrKeepalive, Typing, TypeOK, p
    <3>2. CASE ~(running[p] /\ keypairs[p].current # Nil)
      BY <2>2, <3>2 DEF FinishHandshake, ResponseOrKeepalive, Typing, TypeOK, p
    <3>3. QED
      BY <3>1, <3>2
  <2>3. QED
    BY <2>1, <2>2
<1>3. wk' \in [Worker -> WorkerState] /\ WorkersOK'
  BY IdleWorkerOK, WorkerStep DEF FinishHandshake
<1>4. QED
  BY <1>2, <1>3 DEF FinishHandshake, ResponseOrKeepalive, Typing, TypeOK, ChainOK

LEMMA TransportTyping ==
    ASSUME Typing, NEW p \in Peer, SendTransport(p) \/ ReceiveTransport(p)
    PROVE  Typing'
<1>1. CASE SendTransport(p)
  <2>1. net' \in SUBSET Message
    BY <1>1, TransportMessageType DEF SendTransport, Typing, TypeOK
  <2>2. QED
    BY <1>1, <2>1 DEF SendTransport, Typing, TypeOK, WorkersOK, ChainOK
<1>2. CASE ReceiveTransport(p)
  <2> DEFINE entry(m) == table[DeviceOf[p]][m.receiver]
  <2>1. PICK m \in net : /\ m.type = "transport"
                         /\ entry(m).kind = "keypair"
                         /\ inbound' = [inbound EXCEPT ![p] = entry(m).keypair]
    BY <1>2 DEF ReceiveTransport
  <2>2. m.receiver \in Index
    BY <2>1 DEF Typing, TypeOK, Message, Initiation, Response, Transport
  <2>3. entry(m) \in Entry
    BY <2>2, TableOf
  <2>4. entry(m).keypair \in Keypair
    BY SMT, <2>1, <2>3 DEF Entry, NoEntry
  <2>5. inbound' \in [Peer -> Keypair \cup {Nil}]
    BY <2>1, <2>4 DEF Typing, TypeOK
  <2>6. QED
    BY <1>2, <2>5, ZenonT(30) DEF ReceiveTransport, Typing, TypeOK, WorkersOK, ChainOK
<1>3. QED
  BY <1>1, <1>2

\* The keypairs after ReceivedWithKeypair has confirmed next.
Confirmed(ks) == [previous |-> ks.current, current |-> ks.next, next |-> Nil]

LEMMA ReceivedTyping ==
    ASSUME Typing, NEW p \in Peer, ReceivedWithKeypair(p)
    PROVE  Typing'
<1>1. keypairs[p] \in Keypairs /\ keypairs[p].previous \in Keypair \cup {Nil}
  BY DEF Typing, TypeOK, Keypairs
<1>2. keypairs' \in [Peer -> Keypairs] /\ table' \in [Device -> [Index -> Entry]]
  <2>1. CASE keypairs[p].next = inbound[p]
    <3>1. /\ keypairs' = [keypairs EXCEPT ![p] = Confirmed(@)]
          /\ table' = [table EXCEPT ![DeviceOf[p]] = DeleteKeypair(@, keypairs[p].previous)]
      BY <2>1 DEF ReceivedWithKeypair, Confirms, Confirmed
    <3>2. Confirmed(keypairs[p]) \in Keypairs
      BY <1>1 DEF Confirmed, Keypairs
    <3>3. DeleteKeypair(table[DeviceOf[p]], keypairs[p].previous) \in [Index -> Entry]
      BY <1>1, TableOf, DeleteKeypairFacts
    <3>4. QED
      BY <3>1, <3>2, <3>3 DEF Typing, TypeOK
  <2>2. CASE keypairs[p].next # inbound[p]
    BY <2>2 DEF ReceivedWithKeypair, Confirms, Typing, TypeOK
  <2>3. QED
    BY <2>1, <2>2
<1>3. inbound' \in [Peer -> Keypair \cup {Nil}]
  BY DEF ReceivedWithKeypair, Typing, TypeOK
<1>4. QED
  BY <1>2, <1>3 DEF ReceivedWithKeypair, Typing, TypeOK, WorkersOK, ChainOK

LEMMA ZeroedTableFacts ==
    ASSUME NEW t \in [Index -> Entry], NEW ks \in Keypairs
    PROVE  /\ ZeroedTable(t, ks) \in [Index -> Entry]
           /\ \A j \in Index : ZeroedTable(t, ks)[j] =
                IF \E x \in NonNil({ks.previous, ks.current, ks.next}) : j = x.localIndex
                THEN NoEntry ELSE t[j]
<1> DEFINE t1 == DeleteKeypair(t, ks.previous)
           t2 == DeleteKeypair(t1, ks.current)
           t3 == DeleteKeypair(t2, ks.next)
<1>1. /\ ks.previous \in Keypair \cup {Nil}
      /\ ks.current \in Keypair \cup {Nil}
      /\ ks.next \in Keypair \cup {Nil}
  BY DEF Keypairs
<1>2. /\ t1 \in [Index -> Entry]
      /\ \A j \in Index : t1[j] = IF ks.previous # Nil /\ j = ks.previous.localIndex
                                  THEN NoEntry ELSE t[j]
  BY <1>1, DeleteKeypairFacts
<1> HIDE DEF t1
<1>3. /\ t2 \in [Index -> Entry]
      /\ \A j \in Index : t2[j] = IF ks.current # Nil /\ j = ks.current.localIndex
                                  THEN NoEntry ELSE t1[j]
  BY SMT, <1>1, <1>2, DeleteKeypairFacts
<1> HIDE DEF t2
<1>4. /\ t3 \in [Index -> Entry]
      /\ \A j \in Index : t3[j] = IF ks.next # Nil /\ j = ks.next.localIndex
                                  THEN NoEntry ELSE t2[j]
  BY SMT, <1>1, <1>3, DeleteKeypairFacts
<1>5. ZeroedTable(t, ks) = t3
  BY DEF ZeroedTable, t1, t2
<1> HIDE DEF t3
<1>6. QED
  BY SMT, <1>1, <1>2, <1>3, <1>4, <1>5 DEF NonNil

NoKeypairs == [previous |-> Nil, current |-> Nil, next |-> Nil]

LEMMA ZeroTyping ==
    ASSUME Typing, NEW p \in Peer, NEW c \in Caller, ZeroKeypairs(p, c) \/ ZeroHandshake(p, c)
    PROVE  Typing'
<1>1. CASE ZeroKeypairs(p, c)
  <2>1. /\ keypairs' = [keypairs EXCEPT ![p] = NoKeypairs]
        /\ table' = [table EXCEPT ![DeviceOf[p]] = ZeroedTable(@, keypairs[p])]
        /\ zeroing' = [zeroing EXCEPT ![p][c] = "cleared"]
    BY <1>1 DEF ZeroKeypairs, NoKeypairs
  <2>2. keypairs[p] \in Keypairs /\ NoKeypairs \in Keypairs
    BY DEF Typing, TypeOK, NoKeypairs, Keypairs
  <2>3. ZeroedTable(table[DeviceOf[p]], keypairs[p]) \in [Index -> Entry]
    BY <2>2, TableOf, ZeroedTableFacts
  <2>4. keypairs' \in [Peer -> Keypairs] /\ table' \in [Device -> [Index -> Entry]]
    BY <2>1, <2>2, <2>3 DEF Typing, TypeOK
  <2>5. zeroing' \in [Peer -> [Caller -> {"idle", "requested", "cleared"}]]
    BY <2>1 DEF Typing, TypeOK
  <2>6. QED
    BY <1>1, <2>4, <2>5 DEF ZeroKeypairs, Typing, TypeOK, WorkersOK, ChainOK
<1>2. CASE ZeroHandshake(p, c)
  <2>1. hs' \in [Peer -> Handshake] /\ ChainOK'
    BY <1>2, ClearStep DEF ZeroHandshake
  <2>2. table' \in [Device -> [Index -> Entry]]
    BY <1>2, TableOf DEF ZeroHandshake, Typing, TypeOK
  <2>3. zeroing' \in [Peer -> [Caller -> {"idle", "requested", "cleared"}]]
    BY <1>2 DEF ZeroHandshake, Typing, TypeOK
  <2>4. QED
    BY <1>2, <2>1, <2>2, <2>3 DEF ZeroHandshake, Typing, TypeOK, WorkersOK
<1>3. QED
  BY <1>1, <1>2

LEMMA StartStopTyping ==
    ASSUME Typing, NEW p \in Peer, Start(p) \/ Stop(p)
    PROVE  Typing'
<1>1. CASE Start(p)
  BY <1>1 DEF Start, Typing, TypeOK, WorkersOK, ChainOK
<1>2. CASE Stop(p)
  <2>1. zeroing' \in [Peer -> [Caller -> {"idle", "requested", "cleared"}]]
    BY <1>2 DEF Stop, Typing, TypeOK, Caller
  <2>2. QED
    BY <1>2, <2>1 DEF Stop, Typing, TypeOK, WorkersOK, ChainOK
<1>3. QED
  BY <1>1, <1>2

LEMMA NextTyping == Typing /\ [Next]_vars => Typing'
<1> SUFFICES ASSUME Typing, [Next]_vars PROVE Typing'
  OBVIOUS
<1>1. CASE UNCHANGED vars
  BY <1>1 DEF vars, Typing, TypeOK, WorkersOK, ChainOK
<1>2. ASSUME NEW p \in Peer, SendHandshakeInitiation(p) PROVE Typing'
  BY <1>2, InitiationTyping
<1>3. ASSUME NEW p \in Peer, SendTransport(p) \/ ReceiveTransport(p) PROVE Typing'
  BY <1>3, TransportTyping
<1>4. ASSUME NEW p \in Peer, ReceivedWithKeypair(p) PROVE Typing'
  BY <1>4, ReceivedTyping
<1>5. ASSUME NEW p \in Peer, Start(p) \/ Stop(p) PROVE Typing'
  BY <1>5, StartStopTyping
<1>6. ASSUME NEW p \in Peer, NEW c \in Caller, ZeroKeypairs(p, c) \/ ZeroHandshake(p, c)
      PROVE  Typing'
  BY <1>6, ZeroTyping
<1>7. ASSUME NEW w \in Worker, ConsumeInitiationCheck(w) \/ ConsumeInitiationWrite(w)
      PROVE  Typing'
  BY <1>7, ConsumeInitiationTyping
<1>8. ASSUME NEW w \in Worker, CreateMessageResponse(w) \/ CreateMessageResponseFails(w)
      PROVE  Typing'
  BY <1>8, CreateResponseTyping
<1>9. ASSUME NEW w \in Worker, ConsumeResponseCheck(w) \/ ConsumeResponseWrite(w)
      PROVE  Typing'
  BY <1>9, ConsumeResponseTyping
<1>10. ASSUME NEW w \in Worker, BeginSymmetricSession(w) \/ BeginSymmetricSessionFails(w)
       PROVE  Typing'
  BY <1>10, BeginTyping
<1>11. ASSUME NEW w \in Worker, RotateKeypairs(w) PROVE Typing'
  BY <1>11, RotateTyping
<1>12. ASSUME NEW w \in Worker, FinishHandshake(w) PROVE Typing'
  BY <1>12, FinishTyping
<1>13. QED
  BY <1>1, <1>2, <1>3, <1>4, <1>5, <1>6, <1>7, <1>8, <1>9, <1>10, <1>11, <1>12 DEF Next

\* Every reachable state of the handshake machinery is well typed, whatever the
\* number of devices, peers, workers and indices.
THEOREM TypeCorrect == Spec => []TypeOK
<1>1. Typing => TypeOK
  BY DEF Typing
<1>2. QED
  BY <1>1, InitTyping, NextTyping, PTL DEF Spec

-----------------------------------------------------------------------------
(* Soundness of the index table *)

\* The keypairs of a peer that hold an index, by position: no two share a nonzero one.
Apart(x, y) == x # Nil /\ y # Nil /\ x.localIndex # Zero => x.localIndex # y.localIndex

KeypairsApart(p) ==
    /\ Apart(keypairs[p].previous, keypairs[p].current)
    /\ Apart(keypairs[p].previous, keypairs[p].next)
    /\ Apart(keypairs[p].current, keypairs[p].next)
    /\ \A x \in Slots(p), y \in Pending(p) : Apart(x, y)

Rotating(w, p) == wk[w].pc = "rotate" /\ wk[w].peer = p

\* At most one worker is inside BeginSymmetricSession for a peer.
OneRotation(p) == \A v, w \in Worker : Rotating(v, p) /\ Rotating(w, p) => v = w

Owned(p) == Slots(p) \cup Pending(p)

\* The inductive invariant, peer by peer: every nonzero index the peer refers to leads
\* back to it, every entry that names the peer is one it refers to, and its keypairs
\* have different indices (without that, deleting one would cut off another).
PeerIndexed(p) ==
    /\ hs[p].localIndex # Zero => table[DeviceOf[p]][hs[p].localIndex] = HandshakeEntry(p)
    /\ \A kp \in Owned(p) :
         kp.localIndex # Zero => table[DeviceOf[p]][kp.localIndex] = KeypairEntry(p, kp)
    /\ \A d \in Device : \A i \in Index \ {Zero} :
         /\ table[d][i] = HandshakeEntry(p) => d = DeviceOf[p] /\ i = hs[p].localIndex
         /\ \A kp \in Keypair : table[d][i] = KeypairEntry(p, kp) =>
              d = DeviceOf[p] /\ i = kp.localIndex /\ kp \in Owned(p)
    /\ KeypairsApart(p)
    /\ OneRotation(p)

IndexInv == \A p \in Peer : PeerIndexed(p)

Inv == Typing /\ IndexInv

\* An entry says what it is and whose it is.
LEMMA EntryFacts ==
    /\ \A p \in Peer : HandshakeEntry(p) # NoEntry
    /\ \A p, q \in Peer : HandshakeEntry(p) = HandshakeEntry(q) => p = q
    /\ \A p \in Peer : \A kp \in Keypair : KeypairEntry(p, kp) # NoEntry
    /\ \A p, q \in Peer : \A kp \in Keypair : HandshakeEntry(p) # KeypairEntry(q, kp)
    /\ \A p, q \in Peer : \A kp, kq \in Keypair :
         KeypairEntry(p, kp) = KeypairEntry(q, kq) => p = q /\ kp = kq
<1>1. NoEntry.kind = "free"
  BY DEF NoEntry
<1>2. \A p : HandshakeEntry(p).kind = "handshake" /\ HandshakeEntry(p).peer = p
  BY DEF HandshakeEntry
<1>3. \A p, kp : /\ KeypairEntry(p, kp).kind = "keypair"
                 /\ KeypairEntry(p, kp).peer = p
                 /\ KeypairEntry(p, kp).keypair = kp
  BY DEF KeypairEntry
<1>4. QED
  BY SMT, <1>1, <1>2, <1>3

LEMMA PendingFacts ==
    ASSUME NEW p \in Peer
    PROVE  \A x : x \in Pending(p) <=> \E w \in Worker : Rotating(w, p) /\ x = wk[w].kp
BY DEF Pending, Rotating

LEMMA OwnedType ==
    ASSUME Typing, NEW p \in Peer
    PROVE  /\ keypairs[p] \in Keypairs
           /\ Slots(p) \subseteq Keypair
           /\ Pending(p) \subseteq Keypair
           /\ Owned(p) \subseteq Keypair
<1>1. keypairs[p] \in Keypairs
  BY DEF Typing, TypeOK
<1>2. Slots(p) \subseteq Keypair
  BY <1>1 DEF Slots, Keypairs
<1>3. Pending(p) \subseteq Keypair
  BY DEF Pending, Typing, WorkersOK
<1>4. QED
  BY <1>1, <1>2, <1>3 DEF Owned

\* The entry names peer p.
Of(entry, p) == entry = HandshakeEntry(p) \/ \E kp \in Keypair : entry = KeypairEntry(p, kp)

\* An entry names one peer at most, and a free slot none.
LEMMA OfOne ==
    ASSUME NEW p \in Peer, NEW q \in Peer, q # p, NEW e, Of(e, q)
    PROVE  e # NoEntry /\ ~Of(e, p)
<1>1. CASE e = HandshakeEntry(q)
  BY <1>1, EntryFacts DEF Of
<1>2. ASSUME NEW kp \in Keypair, e = KeypairEntry(q, kp) PROVE e # NoEntry /\ ~Of(e, p)
  BY SMT, <1>2, EntryFacts DEF Of
<1>3. QED
  BY <1>1, <1>2 DEF Of

\* What the invariant says of one slot of a table.
LEMMA EntriesOf ==
    ASSUME NEW p \in Peer, PeerIndexed(p), NEW d \in Device, NEW i \in Index \ {Zero}
    PROVE  /\ table[d][i] = HandshakeEntry(p) => d = DeviceOf[p] /\ i = hs[p].localIndex
           /\ \A kp \in Keypair : table[d][i] = KeypairEntry(p, kp) =>
                d = DeviceOf[p] /\ i = kp.localIndex /\ kp \in Owned(p)
BY DEF PeerIndexed

\* What the invariant says of one keypair.
LEMMA OwnedEntry ==
    ASSUME Typing, NEW p \in Peer, PeerIndexed(p), NEW x \in Owned(p)
    PROVE  /\ x \in Keypair
           /\ x.localIndex \in Index
           /\ x.localIndex # Zero => table[DeviceOf[p]][x.localIndex] = KeypairEntry(p, x)
<1>1. x \in Keypair
  BY OwnedType
<1>2. x.localIndex \in Index
  BY <1>1 DEF Keypair
<1>3. QED
  BY <1>1, <1>2 DEF PeerIndexed

\* The step leaves the workers that rotate the keypairs of q alone.
SameWorkers(q) ==
    \A w \in Worker : /\ Rotating(w, q)' <=> Rotating(w, q)
                      /\ Rotating(w, q) => wk'[w].kp = wk[w].kp

\* The step changes only free slots of the tables and entries that name p.
TouchesOnly(p) ==
    \A d \in Device : \A i \in Index \ {Zero} :
      \/ table'[d][i] = table[d][i]
      \/ /\ table[d][i] = NoEntry \/ Of(table[d][i], p)
         /\ table'[d][i] = NoEntry \/ Of(table'[d][i], p)

\* The step frees the indices of the keypairs D in the table of p's device.
Frees(p, D) ==
    \A d \in Device : \A j \in Index : table'[d][j] =
      IF d = DeviceOf[p] /\ \E x \in D : j = x.localIndex THEN NoEntry ELSE table[d][j]

\* No keypair of D shares a nonzero index with one of E.
AllApart(D, E) == \A x \in D, y \in E : x.localIndex # Zero => x.localIndex # y.localIndex

\* If the same workers rotate the same keypairs for q, nothing about them changes.
LEMMA SameRotation ==
    ASSUME NEW q \in Peer, SameWorkers(q)
    PROVE  Pending(q)' = Pending(q) /\ (OneRotation(q) => OneRotation(q)')
BY SMT DEF Pending, OneRotation, Rotating, SameWorkers

\* A step that changes only p's own state, and only free slots and p's entries, keeps
\* the invariant of the other peers.
LEMMA Frame ==
    ASSUME Inv, Typing', NEW p \in Peer, NEW q \in Peer, q # p,
           TouchesOnly(p), SameWorkers(q),
           hs'[q].localIndex = hs[q].localIndex,
           keypairs'[q] = keypairs[q]
    PROVE  PeerIndexed(q)'
<1>1. PeerIndexed(q) /\ Typing
  BY DEF Inv, IndexInv
<1>2. Slots(q)' = Slots(q)
  BY DEF Slots
<1>3. Pending(q)' = Pending(q)
  BY SameRotation
<1>4. Owned(q)' = Owned(q) /\ Owned(q) \subseteq Keypair
  BY <1>1, <1>2, <1>3, OwnedType DEF Owned
<1>5. \A d \in Device : \A i \in Index \ {Zero} :
         (Of(table[d][i], q) \/ Of(table'[d][i], q)) => table'[d][i] = table[d][i]
  <2> SUFFICES ASSUME NEW d \in Device, NEW i \in Index \ {Zero},
                      Of(table[d][i], q) \/ Of(table'[d][i], q)
               PROVE  table'[d][i] = table[d][i]
    OBVIOUS
  <2>1. \A e : Of(e, q) => e # NoEntry /\ ~Of(e, p)
    BY OfOne
  <2>2. QED
    BY <2>1 DEF TouchesOnly
<1>6. DeviceOf[q] \in Device /\ hs[q].localIndex \in Index
  BY <1>1, TableOf
<1>7. (hs[q].localIndex # Zero => table[DeviceOf[q]][hs[q].localIndex] = HandshakeEntry(q))'
  BY SMT, <1>1, <1>5, <1>6 DEF PeerIndexed, Of
<1>8. \A kp \in Owned(q)' :
         kp.localIndex # Zero => table'[DeviceOf[q]][kp.localIndex] = KeypairEntry(q, kp)
  <2> SUFFICES ASSUME NEW kp \in Owned(q), kp.localIndex # Zero
               PROVE  table'[DeviceOf[q]][kp.localIndex] = KeypairEntry(q, kp)
    BY <1>4
  <2>1. kp \in Keypair /\ kp.localIndex \in Index
    BY <1>4 DEF Keypair
  <2>2. table[DeviceOf[q]][kp.localIndex] = KeypairEntry(q, kp)
    BY <1>1 DEF PeerIndexed
  <2>3. QED
    BY <1>5, <1>6, <2>1, <2>2 DEF Of
<1>9. \A d \in Device : \A i \in Index \ {Zero} :
         /\ table'[d][i] = HandshakeEntry(q) => d = DeviceOf[q] /\ i = hs'[q].localIndex
         /\ \A kp \in Keypair : table'[d][i] = KeypairEntry(q, kp) =>
              d = DeviceOf[q] /\ i = kp.localIndex /\ kp \in Owned(q)'
  <2> SUFFICES ASSUME NEW d \in Device, NEW i \in Index \ {Zero}
               PROVE  /\ table'[d][i] = HandshakeEntry(q) => d = DeviceOf[q] /\ i = hs[q].localIndex
                      /\ \A kp \in Keypair : table'[d][i] = KeypairEntry(q, kp) =>
                           d = DeviceOf[q] /\ i = kp.localIndex /\ kp \in Owned(q)
    BY ZenonT(30), <1>4
  <2>1. /\ table[d][i] = HandshakeEntry(q) => d = DeviceOf[q] /\ i = hs[q].localIndex
        /\ \A kp \in Keypair : table[d][i] = KeypairEntry(q, kp) =>
             d = DeviceOf[q] /\ i = kp.localIndex /\ kp \in Owned(q)
    BY SMT, <1>1, EntriesOf
  <2>2. Of(table'[d][i], q) => table'[d][i] = table[d][i]
    BY <1>5
  <2>3. QED
    BY <2>1, <2>2 DEF Of
<1>10. KeypairsApart(q)'
  BY <1>1, <1>2, <1>3 DEF PeerIndexed, KeypairsApart
<1>11. OneRotation(q)'
  BY <1>1, SameRotation DEF PeerIndexed
<1>12. QED
  BY <1>7, <1>8, <1>9, <1>10, <1>11 DEF PeerIndexed

\* A step that touches none of the state the index invariant speaks of keeps it.
LEMMA Unindexed ==
    ASSUME Inv, Typing', table' = table, keypairs' = keypairs,
           \A q \in Peer : hs'[q].localIndex = hs[q].localIndex,
           \A q \in Peer : SameWorkers(q)
    PROVE  IndexInv'
<1> SUFFICES ASSUME NEW q \in Peer PROVE PeerIndexed(q)'
  BY DEF IndexInv
<1>1. PeerIndexed(q)
  BY DEF Inv, IndexInv
<1>2. Slots(q)' = Slots(q)
  BY DEF Slots
<1>3. Pending(q)' = Pending(q) /\ OneRotation(q)'
  BY <1>1, SameRotation DEF PeerIndexed
<1>4. KeypairsApart(q)'
  BY ZenonT(30), <1>1, <1>2, <1>3 DEF PeerIndexed, KeypairsApart
<1>5. QED
  BY SMTT(30), <1>1, <1>2, <1>3, <1>4 DEF PeerIndexed, Owned

LEMMA InitIndexed == Init => IndexInv
<1> SUFFICES ASSUME Init, NEW p \in Peer PROVE PeerIndexed(p)
  BY DEF IndexInv
<1>1. hs[p].localIndex = Zero
  BY DEF Init
<1>2. \A d \in Device : \A i \in Index : table[d][i] = NoEntry
  BY DEF Init
<1>3. Slots(p) = {} /\ Pending(p) = {}
  BY DEF Init, Slots, Pending, IdleWorker
<1>4. KeypairsApart(p) /\ OneRotation(p)
  BY <1>3 DEF Init, KeypairsApart, Apart, OneRotation, Rotating, IdleWorker
<1>5. QED
  BY SMT, <1>1, <1>2, <1>3, <1>4, EntryFacts DEF PeerIndexed, Owned

\* The handshake of p moves to a fresh index (CreateMessageInitiation and
\* CreateMessageResponse): the old one is deleted, the new one was free.
LEMMA NewIndexStep ==
    ASSUME Inv, Typing', NEW p \in Peer,
           NEW i \in FreeIndices(Delete(table[DeviceOf[p]], hs[p].localIndex)),
           table' = [table EXCEPT ![DeviceOf[p]] =
                      [Delete(table[DeviceOf[p]], hs[p].localIndex)
                         EXCEPT ![i] = HandshakeEntry(p)]],
           hs'[p].localIndex = i,
           \A q \in Peer \ {p} : hs'[q].localIndex = hs[q].localIndex,
           keypairs' = keypairs,
           \A q \in Peer : SameWorkers(q)
    PROVE  IndexInv'
<1> DEFINE d0 == DeviceOf[p]
           i0 == hs[p].localIndex
<1>1. PeerIndexed(p) /\ Typing
  BY DEF Inv, IndexInv
<1>2. d0 \in Device /\ i0 \in Index /\ i \in Index /\ table[d0] \in [Index -> Entry]
  BY <1>1, TableOf DEF FreeIndices
<1>3. table \in [Device -> [Index -> Entry]]
  BY <1>1 DEF Typing, TypeOK
<1>4. \A j \in Index : Delete(table[d0], i0)[j] = IF j = i0 THEN NoEntry ELSE table[d0][j]
  BY SMT, <1>2, DeleteFacts
<1>5. i = i0 \/ table[d0][i] = NoEntry
  BY <1>2, <1>4 DEF FreeIndices
<1>6. \A d \in Device : \A j \in Index :
         table'[d][j] = IF d = d0 THEN IF j = i THEN HandshakeEntry(p)
                                       ELSE IF j = i0 THEN NoEntry ELSE table[d][j]
                        ELSE table[d][j]
  <2>1. Delete(table[d0], i0) \in [Index -> Entry]
    BY <1>2, DeleteFacts
  <2>2. QED
    BY <1>2, <1>3, <1>4, <2>1
<1> HIDE DEF d0, i0
<1>7. i0 # Zero => table[d0][i0] = HandshakeEntry(p)
  BY <1>1 DEF PeerIndexed, d0, i0
<1>8. Slots(p)' = Slots(p) /\ Pending(p)' = Pending(p) /\ OneRotation(p)'
  BY <1>1, SameRotation DEF Slots, PeerIndexed
<1>9. Owned(p)' = Owned(p) /\ Owned(p) \subseteq Keypair /\ KeypairsApart(p)'
  BY SMTT(30), <1>1, <1>8, OwnedType DEF Owned, PeerIndexed, KeypairsApart
<1>10. PeerIndexed(p)'
  <2>1. (hs[p].localIndex # Zero => table[DeviceOf[p]][hs[p].localIndex] = HandshakeEntry(p))'
    BY SMT, <1>2, <1>6 DEF d0
  <2>2. \A kp \in Owned(p)' :
           kp.localIndex # Zero => table'[DeviceOf[p]][kp.localIndex] = KeypairEntry(p, kp)
    <3> SUFFICES ASSUME NEW kp \in Owned(p), kp.localIndex # Zero
                 PROVE  table'[d0][kp.localIndex] = KeypairEntry(p, kp)
      BY <1>9 DEF d0
    <3>1. kp \in Keypair /\ kp.localIndex \in Index
      BY <1>9 DEF Keypair
    <3>2. table[d0][kp.localIndex] = KeypairEntry(p, kp)
      BY <1>1 DEF PeerIndexed, d0
    <3>3. KeypairEntry(p, kp) # NoEntry /\ KeypairEntry(p, kp) # HandshakeEntry(p)
      BY <3>1, EntryFacts
    <3>4. kp.localIndex # i /\ kp.localIndex # i0
      BY <1>5, <1>7, <3>2, <3>3
    <3>5. QED
      BY ZenonT(30), <1>2, <1>6, <3>1, <3>2, <3>4
  <2>3. ASSUME NEW d \in Device, NEW j \in Index \ {Zero}
        PROVE  /\ table'[d][j] = HandshakeEntry(p) => d = DeviceOf[p] /\ j = hs'[p].localIndex
               /\ \A kp \in Keypair : table'[d][j] = KeypairEntry(p, kp) =>
                    d = DeviceOf[p] /\ j = kp.localIndex /\ kp \in Owned(p)'
    <3>1. /\ table[d][j] = HandshakeEntry(p) => d = d0 /\ j = i0
          /\ \A kp \in Keypair : table[d][j] = KeypairEntry(p, kp) =>
               d = DeviceOf[p] /\ j = kp.localIndex /\ kp \in Owned(p)
      BY ZenonT(30), <1>1 DEF PeerIndexed, d0, i0
    <3>2. /\ NoEntry # HandshakeEntry(p)
          /\ \A kp \in Keypair : KeypairEntry(p, kp) # NoEntry
          /\ \A kp \in Keypair : KeypairEntry(p, kp) # HandshakeEntry(p)
      BY EntryFacts
    <3>3. QED
      BY SMT, <1>6, <1>9, <3>1, <3>2 DEF d0
  <2>4. QED
    BY <1>8, <1>9, <2>1, <2>2, <2>3 DEF PeerIndexed
<1>11. TouchesOnly(p)
  BY SMTT(30), <1>5, <1>6, <1>7 DEF Of, TouchesOnly
<1>12. ASSUME NEW q \in Peer, q # p PROVE PeerIndexed(q)'
  BY <1>11, <1>12, Frame
<1>13. QED
  BY <1>10, <1>12 DEF IndexInv

\* The peer drops the keypairs D and deletes their indices (the rotation,
\* ReceivedWithKeypair, ZeroAndFlushAll); what it keeps has other indices.
LEMMA DropStep ==
    ASSUME Inv, Typing', NEW p \in Peer, NEW D \in SUBSET Owned(p),
           Frees(p, D),
           Owned(p)' \subseteq Owned(p),
           Owned(p) \subseteq Owned(p)' \cup D,
           AllApart(D, Owned(p)'),
           KeypairsApart(p)', OneRotation(p)',
           hs' = hs,
           \A q \in Peer \ {p} : keypairs'[q] = keypairs[q] /\ SameWorkers(q)
    PROVE  IndexInv'
<1> DEFINE d0 == DeviceOf[p]
<1>1. PeerIndexed(p) /\ Typing
  BY DEF Inv, IndexInv
<1>2. d0 \in Device /\ hs[p].localIndex \in Index
  BY <1>1, TableOf
<1>3. ASSUME NEW x \in Owned(p)
      PROVE  /\ x \in Keypair
             /\ x.localIndex \in Index
             /\ x.localIndex # Zero => table[d0][x.localIndex] = KeypairEntry(p, x)
  BY <1>1, OwnedEntry
<1>4. ASSUME NEW i \in Index, \A x \in D : i # x.localIndex
      PROVE  table'[d0][i] = table[d0][i]
  BY SMT, <1>2, <1>4 DEF Frees
<1>5. hs[p].localIndex # Zero => table'[d0][hs[p].localIndex] = HandshakeEntry(p)
  <2> SUFFICES ASSUME hs[p].localIndex # Zero
               PROVE  table'[d0][hs[p].localIndex] = HandshakeEntry(p)
    OBVIOUS
  <2>1. table[d0][hs[p].localIndex] = HandshakeEntry(p)
    BY <1>1 DEF PeerIndexed
  <2>2. ASSUME NEW x \in D PROVE hs[p].localIndex # x.localIndex
    <3>1. x \in Owned(p)
      OBVIOUS
    <3>2. KeypairEntry(p, x) # HandshakeEntry(p)
      BY <1>3, <3>1, EntryFacts
    <3>3. QED
      BY <1>3, <2>1, <3>1, <3>2
  <2>3. QED
    BY <1>2, <1>4, <2>1, <2>2
<1>6. \A kp \in Owned(p)' :
         kp.localIndex # Zero => table'[d0][kp.localIndex] = KeypairEntry(p, kp)
  <2> SUFFICES ASSUME NEW kp \in Owned(p)', kp.localIndex # Zero
               PROVE  table'[d0][kp.localIndex] = KeypairEntry(p, kp)
    OBVIOUS
  <2>1. kp \in Owned(p)
    OBVIOUS
  <2>2. kp.localIndex \in Index /\ table[d0][kp.localIndex] = KeypairEntry(p, kp)
    BY <1>3, <2>1
  <2>3. \A x \in D : kp.localIndex # x.localIndex
    BY DEF AllApart
  <2>4. QED
    BY <1>4, <2>2, <2>3
<1>7. ASSUME NEW d \in Device, NEW j \in Index \ {Zero}
      PROVE  table'[d][j] = NoEntry \/ table'[d][j] = table[d][j]
  BY SMT DEF Frees
<1>8. ASSUME NEW d \in Device, NEW j \in Index \ {Zero}
      PROVE  /\ table'[d][j] = HandshakeEntry(p) => d = d0 /\ j = hs[p].localIndex
             /\ \A kp \in Keypair : table'[d][j] = KeypairEntry(p, kp) =>
                  d = d0 /\ j = kp.localIndex /\ kp \in Owned(p)'
  <2>1. /\ table[d][j] = HandshakeEntry(p) => d = d0 /\ j = hs[p].localIndex
        /\ \A kp \in Keypair : table[d][j] = KeypairEntry(p, kp) =>
             d = d0 /\ j = kp.localIndex /\ kp \in Owned(p)
    BY SMT, <1>1, EntriesOf
  <2>2. /\ NoEntry # HandshakeEntry(p)
        /\ \A kp \in Keypair : KeypairEntry(p, kp) # NoEntry
    BY EntryFacts
  <2>3. table'[d][j] = HandshakeEntry(p) => d = d0 /\ j = hs[p].localIndex
    BY <1>7, <2>1, <2>2
  <2>4. ASSUME NEW kp \in Keypair, table'[d][j] = KeypairEntry(p, kp)
        PROVE  d = d0 /\ j = kp.localIndex /\ kp \in Owned(p)'
    <3>1. table[d][j] = KeypairEntry(p, kp)
      BY <1>7, <2>2, <2>4
    <3>2. d = d0 /\ j = kp.localIndex /\ kp \in Owned(p)
      BY <2>1, <3>1
    <3>3. kp \notin D
      BY <2>2, <2>4, <3>2 DEF Frees
    <3>4. QED
      BY <3>2, <3>3
  <2>5. QED
    BY <2>3, <2>4
<1>9. PeerIndexed(p)'
  BY ZenonT(30), <1>5, <1>6, <1>8 DEF PeerIndexed
<1>10. TouchesOnly(p)
  <2> SUFFICES ASSUME NEW d \in Device, NEW j \in Index \ {Zero}, table'[d][j] # table[d][j]
               PROVE  Of(table[d][j], p) /\ table'[d][j] = NoEntry
    BY DEF TouchesOnly
  <2>1. table'[d][j] = NoEntry
    BY <1>7
  <2>2. PICK x \in D : d = d0 /\ j = x.localIndex
    BY ZenonT(30) DEF Frees
  <2>3. x \in Owned(p)
    OBVIOUS
  <2>4. x \in Keypair /\ table[d][j] = KeypairEntry(p, x)
    BY <1>3, <2>2, <2>3
  <2>5. QED
    BY <2>1, <2>4 DEF Of
<1>11. ASSUME NEW q \in Peer, q # p PROVE PeerIndexed(q)'
  BY <1>10, <1>11, Frame
<1>12. QED
  BY <1>9, <1>11 DEF IndexInv

\* BeginSymmetricSession turns the entry of the handshake into one of the keypair.
LEMMA BeginIndexed ==
    ASSUME Inv, Typing', NEW w \in Worker, BeginSymmetricSession(w),
           NEW p \in Peer, p = wk[w].peer
    PROVE  IndexInv'
<1> DEFINE d0 == DeviceOf[p]
           i0 == hs[p].localIndex
           kp == NewKeypair(w)
<1>2. PeerIndexed(p) /\ Typing
  BY DEF Inv, IndexInv
<1>3. /\ table' = [table EXCEPT ![d0] = SwapIndexForKeypair(@, kp.localIndex, kp)]
      /\ hs' = [hs EXCEPT ![p] = Clear(@)]
      /\ wk' = [wk EXCEPT ![w] = [@ EXCEPT !.pc = "rotate", !.kp = kp]]
      /\ keypairs' = keypairs
      /\ HandshakeUnlocked(p)
      /\ wk[w].pc = "derive"
  BY DEF BeginSymmetricSession
<1>4. kp \in Keypair /\ kp.localIndex = i0 /\ i0 \in Index /\ d0 \in Device
      /\ table[d0] \in [Index -> Entry] /\ hs[p] \in Handshake
  BY <1>2, NewKeypairType, TableOf
<1> HIDE DEF kp
<1>5. \A d \in Device : \A j \in Index \ {Zero} :
         table'[d][j] = IF d = d0 /\ j = i0 THEN KeypairEntry(p, kp) ELSE table[d][j]
  <2>1. table \in [Device -> [Index -> Entry]]
    BY <1>2 DEF Typing, TypeOK
  <2>2. i0 # Zero => table[d0][i0] = HandshakeEntry(p)
    BY <1>2 DEF PeerIndexed
  <2>3. HandshakeEntry(p) # NoEntry /\ HandshakeEntry(p).peer = p
    BY EntryFacts DEF HandshakeEntry
  <2> DEFINE t1 == SwapIndexForKeypair(table[d0], i0, kp)
  <2>4. /\ t1 \in [Index -> Entry]
        /\ \A j \in Index : t1[j] =
             IF j = i0 /\ table[d0][i0] # NoEntry THEN KeypairEntry(table[d0][i0].peer, kp)
             ELSE table[d0][j]
    BY <1>4, SwapFacts, ZenonT(30)
  <2>5. table' = [table EXCEPT ![d0] = t1]
    BY <1>3, <1>4
  <2> HIDE DEF t1
  <2>6. table'[d0] = t1 /\ \A d \in Device \ {d0} : table'[d] = table[d]
    BY <1>4, <2>1, <2>5
  <2>7. \A j \in Index \ {Zero} : t1[j] = IF j = i0 THEN KeypairEntry(p, kp) ELSE table[d0][j]
    BY ZenonT(30), <2>2, <2>3, <2>4
  <2>8. QED
    BY ZenonT(30), <2>6, <2>7
<1>6. /\ wk'[w].pc = "rotate" /\ wk'[w].peer = p /\ wk'[w].kp = kp
      /\ \A v \in Worker \ {w} : wk'[v] = wk[v]
  BY SMT, <1>2, <1>3 DEF Typing, TypeOK, WorkerState
<1>7. /\ hs'[p].localIndex = Zero
      /\ \A q \in Peer \ {p} : hs'[q] = hs[q]
  BY <1>2, <1>3, <1>4, ClearFacts DEF Typing, TypeOK
<1> HIDE DEF d0, i0
<1>8. Pending(p) = {} /\ Pending(p)' = {kp} /\ OneRotation(p)'
  BY SMT, <1>3, <1>6 DEF HandshakeUnlocked, Pending, OneRotation, Rotating
<1>9. Slots(p)' = Slots(p) /\ Slots(p) \subseteq Keypair
  BY <1>2, <1>3, OwnedType DEF Slots
<1>10. Owned(p) = Slots(p) /\ Owned(p)' = Slots(p) \cup {kp}
  BY <1>8, <1>9 DEF Owned
<1>11. \A x \in Slots(p) :
         /\ x.localIndex \in Index
         /\ x.localIndex # Zero => /\ table[d0][x.localIndex] = KeypairEntry(p, x)
                                   /\ x.localIndex # i0
  <2> SUFFICES ASSUME NEW x \in Slots(p)
               PROVE  /\ x.localIndex \in Index
                      /\ x.localIndex # Zero => /\ table[d0][x.localIndex] = KeypairEntry(p, x)
                                                /\ x.localIndex # i0
    OBVIOUS
  <2>1. x \in Keypair /\ x.localIndex \in Index
    BY <1>9 DEF Keypair
  <2>2. x.localIndex # Zero => table[d0][x.localIndex] = KeypairEntry(p, x)
    BY <1>2, <1>10 DEF PeerIndexed, d0
  <2>3. i0 # Zero => table[d0][i0] = HandshakeEntry(p)
    BY <1>2 DEF PeerIndexed, d0, i0
  <2>4. HandshakeEntry(p) # KeypairEntry(p, x)
    BY SMT, <2>1, EntryFacts
  <2>5. QED
    BY <2>1, <2>2, <2>3, <2>4
<1>12. KeypairsApart(p)'
  <2>1. \A x \in Slots(p)', y \in Pending(p)' : Apart(x, y)
    BY <1>4, <1>8, <1>9, <1>11 DEF Apart
  <2>2. QED
    BY <1>2, <1>3, <2>1 DEF PeerIndexed, KeypairsApart
<1>13. \A x \in Owned(p)' :
         x.localIndex # Zero => table'[d0][x.localIndex] = KeypairEntry(p, x)
  BY ZenonT(30), <1>4, <1>5, <1>10, <1>11
<1>14. ASSUME NEW d \in Device, NEW j \in Index \ {Zero}
       PROVE  /\ table'[d][j] = HandshakeEntry(p) => d = d0 /\ j = hs'[p].localIndex
              /\ \A x \in Keypair : table'[d][j] = KeypairEntry(p, x) =>
                   d = d0 /\ j = x.localIndex /\ x \in Owned(p)'
  <2>1. /\ table[d][j] = HandshakeEntry(p) => d = d0 /\ j = i0
        /\ \A x \in Keypair : table[d][j] = KeypairEntry(p, x) =>
             d = d0 /\ j = x.localIndex /\ x \in Owned(p)
    <3>1. \A e \in Device : \A i \in Index \ {Zero} :
            /\ table[e][i] = HandshakeEntry(p) => e = d0 /\ i = i0
            /\ \A x \in Keypair : table[e][i] = KeypairEntry(p, x) =>
                 e = d0 /\ i = x.localIndex /\ x \in Owned(p)
      BY <1>2 DEF PeerIndexed, d0, i0
    <3>2. QED
      BY <3>1
  <2>2. HandshakeEntry(p) # KeypairEntry(p, kp)
    BY SMT, <1>4, EntryFacts
  <2>3. \A x \in Keypair : KeypairEntry(p, x) = KeypairEntry(p, kp) => x = kp
    BY <1>4, EntryFacts
  <2>4. CASE d = d0 /\ j = i0
    <3>1. table'[d][j] = KeypairEntry(p, kp)
      BY <1>5, <2>4
    <3>2. QED
      BY <1>4, <1>10, <2>2, <2>3, <2>4, <3>1
  <2>5. CASE ~(d = d0 /\ j = i0)
    <3>1. table'[d][j] = table[d][j]
      BY <1>5, <2>5
    <3>2. QED
      BY <1>10, <2>1, <2>5, <3>1
  <2>6. QED
    BY <2>4, <2>5
<1>15. PeerIndexed(p)'
  BY <1>7, <1>8, <1>12, <1>13, <1>14, ZenonT(30) DEF PeerIndexed, d0
<1>16. TouchesOnly(p)
  <2>1. i0 # Zero => table[d0][i0] = HandshakeEntry(p)
    BY <1>2 DEF PeerIndexed, d0, i0
  <2>2. ASSUME NEW d \in Device, NEW j \in Index \ {Zero}, table'[d][j] # table[d][j]
        PROVE  Of(table[d][j], p) /\ Of(table'[d][j], p)
    <3>1. d = d0 /\ j = i0 /\ table'[d][j] = KeypairEntry(p, kp)
      BY <1>5, <2>2
    <3>2. QED
      BY <1>4, <2>1, <3>1 DEF Of
  <2>3. QED
    BY <2>2 DEF TouchesOnly
<1>17. ASSUME NEW q \in Peer, q # p PROVE PeerIndexed(q)'
  <2>1. SameWorkers(q)
    BY <1>3, <1>6, <1>17 DEF Rotating, SameWorkers
  <2>2. QED
    BY <1>3, <1>7, <1>16, <1>17, <2>1, Frame
<1>18. QED
  BY <1>15, <1>17 DEF IndexInv


\* The rotation drops some slots and moves the pending keypair into another.
LEMMA RotateIndexed ==
    ASSUME Inv, Typing', NEW w \in Worker, RotateKeypairs(w),
           NEW p \in Peer, p = wk[w].peer
    PROVE  IndexInv'
<1> DEFINE kp == wk[w].kp
           ks == keypairs[p]
           D == Dropped(ks, kp)
           kept == Kept(ks, kp)
<1>1. PeerIndexed(p) /\ Typing /\ KeypairsApart(p) /\ OneRotation(p)
  BY DEF Inv, IndexInv, PeerIndexed
<1>2. /\ keypairs' = [keypairs EXCEPT ![p] = Rotated(@, kp)]
      /\ table' = [table EXCEPT ![DeviceOf[p]] = RotateTable(@, ks, kp)]
      /\ wk' = [wk EXCEPT ![w].pc = "finish"]
      /\ wk[w].pc = "rotate"
      /\ hs' = hs
  BY DEF RotateKeypairs, Rotated
<1>3. kp \in Keypair /\ ks \in Keypairs /\ kp # Nil
  BY SMTT(30), <1>1, <1>2, NoiseAssumption DEF Typing, TypeOK, WorkersOK
<1>4. /\ wk'[w].pc = "finish"
      /\ \A v \in Worker \ {w} : wk'[v] = wk[v]
  BY SMT, <1>1, <1>2 DEF Typing, TypeOK, WorkerState
<1>5. Pending(p) = {kp} /\ Pending(p)' = {} /\ OneRotation(p)'
  BY SMT, <1>1, <1>2, <1>4 DEF Pending, OneRotation, Rotating
<1>6. keypairs'[p] = Rotated(ks, kp) /\ \A q \in Peer \ {p} : keypairs'[q] = keypairs[q]
  BY <1>1, <1>2 DEF Typing, TypeOK
<1>7. /\ RotateTable(table[DeviceOf[p]], ks, kp) \in [Index -> Entry]
      /\ \A j \in Index : RotateTable(table[DeviceOf[p]], ks, kp)[j] =
           IF \E x \in D : j = x.localIndex THEN NoEntry ELSE table[DeviceOf[p]][j]
      /\ \/ /\ keypairs'[p].previous = kept
            /\ keypairs'[p].current = kp
            /\ keypairs'[p].next = Nil
         \/ /\ keypairs'[p].previous = Nil
            /\ keypairs'[p].current = kept
            /\ keypairs'[p].next = kp
  <2>1. table[DeviceOf[p]] \in [Index -> Entry]
    BY <1>1, TableOf
  <2> HIDE DEF kp, ks
  <2>2. QED
    BY SMTT(30), <1>3, <1>6, <2>1, RotateFacts
<1>8. Frees(p, D)
  <2> HIDE DEF D
  <2>1. table \in [Device -> [Index -> Entry]] /\ DeviceOf[p] \in Device
    BY <1>1, TableOf DEF Typing, TypeOK
  <2>2. /\ table'[DeviceOf[p]] = RotateTable(table[DeviceOf[p]], ks, kp)
        /\ \A d \in Device \ {DeviceOf[p]} : table'[d] = table[d]
    BY <1>2, <2>1
  <2>3. \A j \in Index : table'[DeviceOf[p]][j] =
          IF \E x \in D : j = x.localIndex THEN NoEntry ELSE table[DeviceOf[p]][j]
    BY ZenonT(30), <1>7, <2>2
  <2>4. QED
    BY ZenonT(30), <2>2, <2>3 DEF Frees
<1>9. Slots(p)' = NonNil({kept, kp}) /\ Owned(p)' = NonNil({kept, kp})
  <2> HIDE DEF kept, kp
  <2>1. Slots(p)' = NonNil({kept, kp})
    <3>1. CASE keypairs'[p].next = Nil /\ keypairs'[p].current = kp /\ keypairs'[p].previous = kept
      BY <3>1 DEF Slots, NonNil
    <3>2. CASE keypairs'[p].previous = Nil /\ keypairs'[p].current = kept /\ keypairs'[p].next = kp
      BY <3>2 DEF Slots, NonNil
    <3>3. QED
      BY <1>7, <3>1, <3>2
  <2>2. QED
    BY <1>5, <2>1 DEF Owned
<1>10. /\ Slots(p) = D \cup NonNil({kept})
       /\ Owned(p) = D \cup NonNil({kept, kp})
  BY <1>3, <1>5, ZenonT(30) DEF Slots, Owned, Dropped, Kept, NonNil
<1>11. /\ \A x \in Slots(p) : Apart(x, kp)
       /\ \A x \in D : Apart(x, kept)
  <2>1. \A x \in Slots(p) : Apart(x, kp)
    BY <1>1, <1>5 DEF KeypairsApart
  <2>2. /\ Apart(ks.previous, ks.current)
        /\ Apart(ks.previous, ks.next)
        /\ Apart(ks.current, ks.next)
    BY <1>1 DEF KeypairsApart
  <2>3. Apart(ks.next, ks.current)
    BY <2>2, ZenonT(30) DEF Apart
  <2>4. QED
    BY <2>1, <2>2, <2>3, ZenonT(30) DEF Dropped, Kept, NonNil
<1>12. Apart(kept, kp) /\ Apart(kp, kept)
  <2>1. kept # Nil => kept \in Slots(p)
    BY <1>10 DEF NonNil
  <2>2. QED
    BY <1>11, <2>1 DEF Apart
<1>13. KeypairsApart(p)'
  BY <1>5, <1>7, <1>12, ZenonT(30) DEF KeypairsApart, Apart
<1>14. AllApart(D, Owned(p)')
  <2> SUFFICES ASSUME NEW x \in D, NEW y \in Owned(p)', x.localIndex # Zero
               PROVE  x.localIndex # y.localIndex
    BY DEF AllApart
  <2>1. x # Nil /\ x \in Slots(p)
    BY <1>10 DEF Slots
  <2>2. y # Nil /\ (y = kept \/ y = kp)
    BY <1>9 DEF NonNil
  <2>3. Apart(x, y)
    BY <1>11, <2>1, <2>2
  <2>4. QED
    BY <2>1, <2>2, <2>3 DEF Apart
<1>15. ASSUME NEW q \in Peer \ {p}
       PROVE  SameWorkers(q)
  BY <1>2, <1>4 DEF Rotating, SameWorkers
<1> HIDE DEF D, kp, kept, ks
<1>16. /\ D \in SUBSET Owned(p)
       /\ Owned(p)' \subseteq Owned(p)
       /\ Owned(p) \subseteq Owned(p)' \cup D
  BY <1>9, <1>10
<1>17. QED
  BY <1>2, <1>5, <1>6, <1>8, <1>13, <1>14, <1>15, <1>16, DropStep

\* A confirmed keypair becomes current; the previous one is dropped.
LEMMA ReceivedIndexed ==
    ASSUME Inv, Typing', NEW p \in Peer, ReceivedWithKeypair(p)
    PROVE  IndexInv'
<1> DEFINE ks == keypairs[p]
           D == NonNil({ks.previous})
<1>1. PeerIndexed(p) /\ Typing /\ KeypairsApart(p) /\ OneRotation(p)
  BY DEF Inv, IndexInv, PeerIndexed
<1>2. wk' = wk /\ hs' = hs
  BY DEF ReceivedWithKeypair
<1>3. \A q \in Peer : Pending(q)' = Pending(q) /\ SameWorkers(q)
  BY <1>2 DEF Pending, Rotating, SameWorkers
<1>4. CASE ks.next # inbound[p]
  BY <1>2, <1>3, <1>4, Unindexed DEF ReceivedWithKeypair, Confirms
<1>5. CASE ks.next = inbound[p]
  <2>1. /\ keypairs' = [keypairs EXCEPT ![p] = Confirmed(@)]
        /\ table' = [table EXCEPT ![DeviceOf[p]] = DeleteKeypair(@, ks.previous)]
        /\ ks.next # Nil
    BY <1>5 DEF ReceivedWithKeypair, Confirms, Confirmed
  <2>2. /\ keypairs'[p] = Confirmed(ks)
        /\ \A q \in Peer \ {p} : keypairs'[q] = keypairs[q]
    BY <1>1, <2>1 DEF Typing, TypeOK
  <2>3. Frees(p, D)
    <3>1. ks.previous \in Keypair \cup {Nil}
      BY <1>1 DEF Typing, TypeOK, Keypairs
    <3>2. table \in [Device -> [Index -> Entry]] /\ DeviceOf[p] \in Device
      BY <1>1, TableOf DEF Typing, TypeOK
    <3>3. /\ table'[DeviceOf[p]] = DeleteKeypair(table[DeviceOf[p]], ks.previous)
          /\ \A d \in Device \ {DeviceOf[p]} : table'[d] = table[d]
      BY <2>1, <3>2
    <3>4. \A j \in Index : DeleteKeypair(table[DeviceOf[p]], ks.previous)[j] =
            IF ks.previous # Nil /\ j = ks.previous.localIndex
            THEN NoEntry ELSE table[DeviceOf[p]][j]
      BY <3>1, <3>2, DeleteKeypairFacts
    <3>5. QED
      BY SMT, <3>3, <3>4 DEF NonNil, Frees
  <2>4. /\ keypairs'[p].previous = ks.current
        /\ keypairs'[p].current = ks.next
        /\ keypairs'[p].next = Nil
    BY SMT, <2>2 DEF Confirmed
  <2>5. Slots(p)' = NonNil({ks.current, ks.next})
    BY <2>4 DEF Slots, NonNil
  <2>6. /\ D \in SUBSET Owned(p)
        /\ Owned(p)' \subseteq Owned(p)
        /\ Owned(p) \subseteq Owned(p)' \cup D
    BY <1>3, <2>5 DEF Owned, Slots, NonNil
  <2>7. KeypairsApart(p)' /\ OneRotation(p)'
    <3>1. Slots(p)' \subseteq Slots(p)
      BY <2>5 DEF Slots, NonNil
    <3>2. Apart(ks.current, ks.next) /\ \A x \in Slots(p), y \in Pending(p) : Apart(x, y)
      BY <1>1 DEF KeypairsApart
    <3>3. \A x : Apart(x, Nil)
      BY DEF Apart
    <3>4. KeypairsApart(p)'
      BY <1>3, <2>4, <3>1, <3>2, <3>3 DEF KeypairsApart, Apart
    <3>5. QED
      BY <1>1, <1>3, <3>4, SameRotation
  <2>8. AllApart(D, Owned(p)')
    <3>1. \A y \in Pending(p) : ks.previous # Nil => Apart(ks.previous, y)
      BY <1>1 DEF KeypairsApart, Slots
    <3>2. Apart(ks.previous, ks.current) /\ Apart(ks.previous, ks.next)
      BY <1>1 DEF KeypairsApart
    <3>3. Pending(p) \subseteq Keypair
      BY <1>1, OwnedType
    <3>4. QED
      BY <1>3, <2>5, <3>1, <3>2, <3>3, NoiseAssumption, ZenonT(30) DEF Owned, NonNil, Apart, AllApart
  <2> HIDE DEF D, ks
  <2>9. QED
    BY <1>2, <1>3, <2>2, <2>3, <2>6, <2>7, <2>8, DropStep
<1>6. QED
  BY <1>4, <1>5

\* ZeroAndFlushAll drops all three keypairs; one that is still pending survives.
LEMMA ZeroKeypairsIndexed ==
    ASSUME Inv, Typing', NEW p \in Peer, NEW c \in Caller, ZeroKeypairs(p, c)
    PROVE  IndexInv'
<1> DEFINE ks == keypairs[p]
           D == NonNil({ks.previous, ks.current, ks.next})
<1>1. PeerIndexed(p) /\ Typing /\ KeypairsApart(p) /\ OneRotation(p)
  BY DEF Inv, IndexInv, PeerIndexed
<1>2. /\ keypairs' = [keypairs EXCEPT ![p] = NoKeypairs]
      /\ table' = [table EXCEPT ![DeviceOf[p]] = ZeroedTable(@, ks)]
      /\ wk' = wk /\ hs' = hs
  BY DEF ZeroKeypairs, NoKeypairs
<1>3. \A q \in Peer : Pending(q)' = Pending(q) /\ SameWorkers(q)
  BY <1>2 DEF Pending, Rotating, SameWorkers
<1>4. keypairs'[p] = NoKeypairs /\ \A q \in Peer \ {p} : keypairs'[q] = keypairs[q]
  BY <1>1, <1>2 DEF Typing, TypeOK
<1>5. Frees(p, D)
  <2>1. ks \in Keypairs
    BY <1>1 DEF Typing, TypeOK
  <2>2. table \in [Device -> [Index -> Entry]] /\ DeviceOf[p] \in Device
    BY <1>1, TableOf DEF Typing, TypeOK
  <2>3. /\ table'[DeviceOf[p]] = ZeroedTable(table[DeviceOf[p]], ks)
        /\ \A d \in Device \ {DeviceOf[p]} : table'[d] = table[d]
    BY <1>2, <2>2
  <2>4. \A j \in Index : ZeroedTable(table[DeviceOf[p]], ks)[j] =
          IF \E x \in D : j = x.localIndex THEN NoEntry ELSE table[DeviceOf[p]][j]
    BY <2>1, <2>2, ZeroedTableFacts, ZenonT(30)
  <2> HIDE DEF D
  <2>5. QED
    BY ZenonT(30), <2>3, <2>4 DEF Frees
<1>6. Slots(p)' = {} /\ Slots(p) = D
  BY SMT, <1>4 DEF Slots, NoKeypairs, NonNil
<1>7. /\ D \in SUBSET Owned(p)
      /\ Owned(p)' \subseteq Owned(p)
      /\ Owned(p) \subseteq Owned(p)' \cup D
  BY <1>3, <1>6, ZenonT(30) DEF Owned
<1>8. KeypairsApart(p)' /\ OneRotation(p)'
  <2>1. keypairs'[p].previous = Nil /\ keypairs'[p].current = Nil /\ keypairs'[p].next = Nil
    BY SMT, <1>4 DEF NoKeypairs
  <2>2. KeypairsApart(p)'
    BY <1>6, <2>1 DEF KeypairsApart, Apart
  <2>3. OneRotation(p)'
    BY <1>1, <1>3, SameRotation
  <2>4. QED
    BY <2>2, <2>3
<1>9. AllApart(D, Owned(p)')
  <2>1. \A x \in D, y \in Pending(p) : Apart(x, y)
    BY <1>1, <1>6 DEF KeypairsApart
  <2>2. Pending(p) \subseteq Keypair
    BY <1>1, OwnedType
  <2>3. QED
    BY <1>3, <1>6, <2>1, <2>2, NoiseAssumption, ZenonT(30) DEF Owned, Apart, NonNil, AllApart
<1> HIDE DEF D, ks
<1>10. QED
  BY <1>2, <1>3, <1>4, <1>5, <1>7, <1>8, <1>9, DropStep, ZenonT(30)

\* ZeroAndFlushAll deletes the index of the handshake it clears.
LEMMA ZeroHandshakeIndexed ==
    ASSUME Inv, Typing', NEW p \in Peer, NEW c \in Caller, ZeroHandshake(p, c)
    PROVE  IndexInv'
<1> DEFINE d0 == DeviceOf[p]
           i0 == hs[p].localIndex
<1>1. PeerIndexed(p) /\ Typing
  BY DEF Inv, IndexInv
<1>2. /\ table' = [table EXCEPT ![d0] = Delete(@, i0)]
      /\ hs' = [hs EXCEPT ![p] = Clear(@)]
      /\ keypairs' = keypairs /\ wk' = wk
  BY DEF ZeroHandshake
<1>3. /\ d0 \in Device /\ i0 \in Index /\ hs[p] \in Handshake
      /\ table \in [Device -> [Index -> Entry]]
  BY <1>1, TableOf DEF Typing, TypeOK
<1>4. \A d \in Device : \A j \in Index :
        table'[d][j] = IF d = d0 /\ j = i0 THEN NoEntry ELSE table[d][j]
  <2>1. table'[d0] = Delete(table[d0], i0) /\ \A d \in Device \ {d0} : table'[d] = table[d]
    BY <1>2, <1>3
  <2>2. \A j \in Index : Delete(table[d0], i0)[j] = IF j = i0 THEN NoEntry ELSE table[d0][j]
    BY SMT, <1>3, DeleteFacts
  <2>3. QED
    BY <2>1, <2>2
<1>5. hs'[p].localIndex = Zero /\ \A q \in Peer \ {p} : hs'[q] = hs[q]
  BY <1>1, <1>2, <1>3, ClearFacts DEF Typing, TypeOK
<1>6. \A q \in Peer : /\ Slots(q)' = Slots(q)
                      /\ Pending(q)' = Pending(q)
                      /\ SameWorkers(q)
  BY <1>2 DEF Slots, Pending, Rotating, SameWorkers
<1>7. Owned(p)' = Owned(p) /\ Owned(p) \subseteq Keypair
  BY <1>1, <1>6, OwnedType DEF Owned
<1>8. i0 # Zero => table[d0][i0] = HandshakeEntry(p)
  BY <1>1, ZenonT(30) DEF PeerIndexed
<1> HIDE DEF d0, i0
<1>9. \A kp \in Owned(p)' :
        kp.localIndex # Zero => table'[d0][kp.localIndex] = KeypairEntry(p, kp)
  <2> SUFFICES ASSUME NEW kp \in Owned(p), kp.localIndex # Zero
               PROVE  table'[d0][kp.localIndex] = KeypairEntry(p, kp)
    BY <1>7, ZenonT(30)
  <2>1. kp \in Keypair /\ kp.localIndex \in Index
    BY <1>7, ZenonT(30) DEF Keypair
  <2>2. table[d0][kp.localIndex] = KeypairEntry(p, kp)
    BY <1>1 DEF PeerIndexed, d0
  <2>3. KeypairEntry(p, kp) # HandshakeEntry(p)
    BY <2>1, EntryFacts
  <2>4. QED
    BY <1>3, <1>4, <1>8, <2>1, <2>2, <2>3, ZenonT(30)
<1>10. ASSUME NEW d \in Device, NEW j \in Index \ {Zero}
       PROVE  /\ table'[d][j] = HandshakeEntry(p) => d = d0 /\ j = hs'[p].localIndex
              /\ \A kp \in Keypair : table'[d][j] = KeypairEntry(p, kp) =>
                   d = d0 /\ j = kp.localIndex /\ kp \in Owned(p)'
  <2>1. /\ table[d][j] = HandshakeEntry(p) => d = d0 /\ j = i0
        /\ \A kp \in Keypair : table[d][j] = KeypairEntry(p, kp) =>
             d = d0 /\ j = kp.localIndex /\ kp \in Owned(p)
    BY <1>1 DEF PeerIndexed, d0, i0
  <2>2. /\ NoEntry # HandshakeEntry(p)
        /\ \A kp \in Keypair : KeypairEntry(p, kp) # NoEntry
    BY EntryFacts
  <2>3. QED
    BY <1>4, <1>7, <2>1, <2>2
<1>11. KeypairsApart(p)' /\ OneRotation(p)'
  <2>1. KeypairsApart(p) /\ OneRotation(p)
    BY <1>1 DEF PeerIndexed
  <2>2. KeypairsApart(p)'
    BY <1>2, <1>6, <2>1 DEF KeypairsApart
  <2>3. OneRotation(p)'
    BY <1>6, <2>1, SameRotation
  <2>4. QED
    BY <2>2, <2>3
<1>12. PeerIndexed(p)'
  BY <1>5, <1>9, <1>10, <1>11 DEF PeerIndexed, d0
<1>13. TouchesOnly(p)
  BY SMT, <1>4, <1>8 DEF Of, TouchesOnly
<1>14. ASSUME NEW q \in Peer, q # p PROVE PeerIndexed(q)'
  BY <1>2, <1>5, <1>6, <1>13, <1>14, Frame
<1>15. QED
  BY <1>12, <1>14 DEF IndexInv

\* The two operations that draw a new index for the handshake.
LEMMA InitiationIndexed ==
    ASSUME Inv, Typing', NEW p \in Peer, SendHandshakeInitiation(p)
    PROVE  IndexInv'
<1> DEFINE e == eph + 1
           ch == <<e>>
           t == Delete(table[DeviceOf[p]], hs[p].localIndex)
<1>1. PICK i \in FreeIndices(t) :
        /\ table' = [table EXCEPT ![DeviceOf[p]] = [t EXCEPT ![i] = HandshakeEntry(p)]]
        /\ hs' = [hs EXCEPT ![p] = [@ EXCEPT !.state = "InitiationCreated",
                                             !.chain = ch, !.localIndex = i]]
  BY DEF SendHandshakeInitiation
<1> HIDE DEF ch
<1>2. hs'[p].localIndex = i /\ \A q \in Peer \ {p} : hs'[q].localIndex = hs[q].localIndex
  BY SMT, <1>1 DEF Inv, Typing, TypeOK, Handshake
<1>3. keypairs' = keypairs /\ wk' = wk
  BY DEF SendHandshakeInitiation
<1>4. \A q \in Peer : SameWorkers(q)
  BY <1>3 DEF Rotating, SameWorkers
<1>5. QED
  BY <1>1, <1>2, <1>3, <1>4, NewIndexStep

LEMMA CreateResponseIndexed ==
    ASSUME Inv, Typing', NEW w \in Worker, CreateMessageResponse(w),
           NEW p \in Peer, p = wk[w].peer
    PROVE  IndexInv'
<1> DEFINE ch == Append(hs[p].chain, eph + 1)
           t == Delete(table[DeviceOf[p]], hs[p].localIndex)
           out(i) == [type |-> "response", dst |-> Counterpart[p], sender |-> i,
                      receiver |-> hs[p].remoteIndex, ie |-> hs[p].chain[1], re |-> eph + 1]
<1>1. PICK i \in FreeIndices(t) :
        /\ table' = [table EXCEPT ![DeviceOf[p]] = [t EXCEPT ![i] = HandshakeEntry(p)]]
        /\ hs' = [hs EXCEPT ![p] = [@ EXCEPT !.state = "ResponseCreated",
                                             !.chain = ch, !.localIndex = i]]
        /\ wk' = [wk EXCEPT ![w] = [@ EXCEPT !.pc = "derive", !.out = out(i)]]
  BY DEF CreateMessageResponse
<1> HIDE DEF ch, out
<1>2. hs'[p].localIndex = i /\ \A q \in Peer \ {p} : hs'[q].localIndex = hs[q].localIndex
  BY <1>1 DEF Inv, Typing, TypeOK, Handshake
<1>3. keypairs' = keypairs /\ wk[w].pc = "respond"
  BY DEF CreateMessageResponse
<1>4. wk'[w].pc = "derive" /\ \A v \in Worker \ {w} : wk'[v] = wk[v]
  BY SMTT(30), <1>1 DEF Inv, Typing, TypeOK, WorkerState
<1>5. \A q \in Peer : SameWorkers(q)
  BY <1>3, <1>4 DEF Rotating, SameWorkers
<1>6. QED
  BY <1>1, <1>2, <1>3, <1>5, NewIndexStep

\* A worker that neither enters nor leaves the rotation touches no index.
LEMMA WorkerMoves ==
    ASSUME Inv, Typing', NEW w \in Worker,
           table' = table, keypairs' = keypairs,
           \A q \in Peer : hs'[q].localIndex = hs[q].localIndex,
           wk[w].pc # "rotate", wk'[w].pc # "rotate",
           \A v \in Worker \ {w} : wk'[v] = wk[v]
    PROVE  IndexInv'
<1>1. \A q \in Peer : SameWorkers(q)
  BY DEF Rotating, SameWorkers
<1>2. QED
  BY <1>1, Unindexed

LEMMA ConsumeIndexed ==
    ASSUME Inv, Typing', NEW w \in Worker,
           \/ ConsumeInitiationCheck(w) \/ ConsumeInitiationWrite(w)
           \/ ConsumeResponseCheck(w) \/ ConsumeResponseWrite(w)
    PROVE  IndexInv'
<1> DEFINE m == wk[w].msg
           p == wk[w].peer
           c1 == <<m.eph>>
           c2 == <<m.ie, m.re>>
           ts == Latest(m, hs[p])
<1>1. wk \in [Worker -> WorkerState] /\ hs \in [Peer -> Handshake] /\ table' = table /\ keypairs' = keypairs
  BY ZenonT(30) DEF Inv, Typing, TypeOK, ConsumeInitiationCheck, ConsumeInitiationWrite,
         ConsumeResponseCheck, ConsumeResponseWrite
<1>2. /\ wk[w].pc # "rotate" /\ wk'[w].pc # "rotate"
      /\ \A v \in Worker \ {w} : wk'[v] = wk[v]
  <2>1. CASE ConsumeInitiationCheck(w)
    BY <1>1, <2>1, ZenonT(30) DEF ConsumeInitiationCheck, WorkerState
  <2>2. CASE ConsumeInitiationWrite(w)
    BY <1>1, <2>2 DEF ConsumeInitiationWrite, WorkerState
  <2>3. CASE ConsumeResponseCheck(w)
    BY <1>1, <2>3, ZenonT(30) DEF ConsumeResponseCheck, WorkerState
  <2>4. CASE ConsumeResponseWrite(w)
    BY <1>1, <2>4 DEF ConsumeResponseWrite, WorkerState
  <2>5. QED
    BY <2>1, <2>2, <2>3, <2>4
<1>3. \A q \in Peer : hs'[q].localIndex = hs[q].localIndex
  <2>1. CASE ConsumeInitiationCheck(w) \/ ConsumeResponseCheck(w)
    BY <2>1 DEF ConsumeInitiationCheck, ConsumeResponseCheck
  <2>2. CASE ConsumeInitiationWrite(w)
    <3>1. hs' = [hs EXCEPT ![p] = [@ EXCEPT !.state = "InitiationConsumed", !.chain = c1,
                                            !.remoteIndex = m.sender, !.lastTimestamp = ts]]
      BY <2>2 DEF ConsumeInitiationWrite
    <3> HIDE DEF c1, ts, m, p
    <3>2. QED
      BY <1>1, <3>1 DEF Handshake
  <2>3. CASE ConsumeResponseWrite(w)
    <3>1. hs' = [hs EXCEPT ![p] = [@ EXCEPT !.state = "ResponseConsumed", !.chain = c2,
                                            !.remoteIndex = m.sender]]
      BY <2>3 DEF ConsumeResponseWrite
    <3> HIDE DEF c2, m, p
    <3>2. QED
      BY <1>1, <3>1 DEF Handshake
  <2>4. QED
    BY <2>1, <2>2, <2>3
<1>4. QED
  BY <1>1, <1>2, <1>3, WorkerMoves

LEMMA GiveUpIndexed ==
    ASSUME Inv, Typing', NEW w \in Worker,
           \/ CreateMessageResponseFails(w) \/ BeginSymmetricSessionFails(w)
           \/ FinishHandshake(w)
    PROVE  IndexInv'
<1>1. /\ table' = table /\ keypairs' = keypairs /\ hs' = hs
      /\ wk' = [wk EXCEPT ![w] = IdleWorker]
      /\ wk[w].pc # "rotate"
  BY DEF CreateMessageResponseFails, BeginSymmetricSessionFails, FinishHandshake
<1>2. wk'[w].pc # "rotate" /\ \A v \in Worker \ {w} : wk'[v] = wk[v]
  BY <1>1 DEF Inv, Typing, TypeOK, IdleWorker
<1>3. QED
  BY <1>1, <1>2, WorkerMoves

LEMMA QuietIndexed ==
    ASSUME Inv, Typing', UNCHANGED <<table, keypairs, hs, wk>>
    PROVE  IndexInv'
<1>1. \A q \in Peer : SameWorkers(q)
  BY DEF Rotating, SameWorkers
<1>2. QED
  BY <1>1, Unindexed

LEMMA NextInv == Inv /\ [Next]_vars => Inv'
<1> SUFFICES ASSUME Inv, [Next]_vars PROVE IndexInv' /\ Typing'
  BY DEF Inv
<1>0. Typing'
  BY NextTyping DEF Inv
<1>1. \A w \in Worker : wk[w].pc # "idle" => wk[w].peer \in Peer
  BY DEF Inv, Typing, WorkersOK
<1>2. CASE UNCHANGED vars
  BY <1>0, <1>2, QuietIndexed DEF vars
<1>3. ASSUME NEW p \in Peer, SendHandshakeInitiation(p) PROVE IndexInv'
  BY <1>0, <1>3, InitiationIndexed
<1>4. ASSUME NEW p \in Peer, SendTransport(p) \/ ReceiveTransport(p) \/ Start(p) \/ Stop(p)
      PROVE  IndexInv'
  BY <1>0, <1>4, QuietIndexed DEF SendTransport, ReceiveTransport, Start, Stop
<1>5. ASSUME NEW p \in Peer, ReceivedWithKeypair(p) PROVE IndexInv'
  BY <1>0, <1>5, ReceivedIndexed
<1>6. ASSUME NEW p \in Peer, NEW c \in Caller, ZeroKeypairs(p, c) \/ ZeroHandshake(p, c)
      PROVE  IndexInv'
  BY <1>0, <1>6, ZeroKeypairsIndexed, ZeroHandshakeIndexed
<1>7. ASSUME NEW w \in Worker,
             \/ ConsumeInitiationCheck(w) \/ ConsumeInitiationWrite(w)
             \/ ConsumeResponseCheck(w) \/ ConsumeResponseWrite(w)
      PROVE  IndexInv'
  BY <1>0, <1>7, ConsumeIndexed
<1>8. ASSUME NEW w \in Worker,
             \/ CreateMessageResponseFails(w) \/ BeginSymmetricSessionFails(w)
             \/ FinishHandshake(w)
      PROVE  IndexInv'
  BY <1>0, <1>8, GiveUpIndexed
<1>9. ASSUME NEW w \in Worker, CreateMessageResponse(w) PROVE IndexInv'
  <2>1. wk[w].peer \in Peer
    BY <1>1, <1>9 DEF CreateMessageResponse
  <2>2. QED
    BY <1>0, <1>9, <2>1, CreateResponseIndexed
<1>10. ASSUME NEW w \in Worker, BeginSymmetricSession(w) PROVE IndexInv'
  <2>1. wk[w].peer \in Peer
    BY <1>1, <1>10 DEF BeginSymmetricSession
  <2>2. QED
    BY <1>0, <1>10, <2>1, BeginIndexed
<1>11. ASSUME NEW w \in Worker, RotateKeypairs(w) PROVE IndexInv'
  <2>1. wk[w].peer \in Peer
    BY <1>1, <1>11 DEF RotateKeypairs
  <2>2. QED
    BY <1>0, <1>11, <2>1, RotateIndexed
<1>12. QED
  BY <1>0, <1>2, <1>3, <1>4, <1>5, <1>6, <1>7, <1>8, <1>9, <1>10, <1>11 DEF Next

LEMMA SpecInv == Spec => []Inv
<1>1. Init => Inv
  BY InitTyping, InitIndexed DEF Inv
<1>2. QED
  BY <1>1, NextInv, PTL DEF Spec

\* Whatever a peer refers to by a nonzero index is what the index table finds there,
\* in every interleaving of the handshake workers, the timers, Stop and Start, and for
\* any number of them: no rotation or deletion cuts a live handshake or keypair off.
THEOREM IndexReachesOwnerHolds == Spec => []IndexReachesOwner
<1>1. Inv => IndexReachesOwner
  BY ZenonT(30) DEF Inv, IndexInv, PeerIndexed, Owned, IndexReachesOwner
<1>2. QED
  BY <1>1, SpecInv, PTL

\* Every entry the table holds at a nonzero index belongs to a handshake in progress
\* or to a keypair its peer still has: neither the rotation nor ZeroAndFlushAll leaks one.
THEOREM NoLeakedIndexHolds == Spec => []NoLeakedIndex
<1>1. Inv => NoLeakedIndex
  <2> SUFFICES ASSUME Inv, NEW d \in Device, NEW i \in Index \ {Zero}
               PROVE  LET entry == table[d][i]
                      IN  /\ entry.kind = "handshake" =>
                               DeviceOf[entry.peer] = d /\ hs[entry.peer].localIndex = i
                          /\ entry.kind = "keypair" =>
                               /\ DeviceOf[entry.peer] = d
                               /\ entry.keypair \in Slots(entry.peer) \cup Pending(entry.peer)
                               /\ entry.keypair.localIndex = i
    BY DEF NoLeakedIndex
  <2> DEFINE entry == table[d][i]
  <2>1. entry \in Entry
    BY SMT DEF Inv, Typing, TypeOK
  <2> HIDE DEF entry
  <2>2. CASE entry.kind = "handshake"
    <3>1. entry.peer \in Peer /\ entry = HandshakeEntry(entry.peer)
      BY SMT, <2>1, <2>2 DEF Entry, NoEntry, HandshakeEntry
    <3>2. QED
      <4>1. PeerIndexed(entry.peer)
        BY <3>1 DEF Inv, IndexInv
      <4>2. d = DeviceOf[entry.peer] /\ i = hs[entry.peer].localIndex
        BY SMT, <3>1, <4>1, EntriesOf DEF entry
      <4>3. QED
        BY <2>2, <4>2 DEF entry
  <2>3. CASE entry.kind = "keypair"
    <3>1. /\ entry.peer \in Peer /\ entry.keypair \in Keypair
          /\ entry = KeypairEntry(entry.peer, entry.keypair)
      BY SMT, <2>1, <2>3 DEF Entry, NoEntry, KeypairEntry
    <3>2. QED
      <4>1. PeerIndexed(entry.peer)
        BY <3>1 DEF Inv, IndexInv
      <4>2. /\ d = DeviceOf[entry.peer]
            /\ i = entry.keypair.localIndex
            /\ entry.keypair \in Owned(entry.peer)
        BY SMT, <3>1, <4>1, EntriesOf DEF entry
      <4>3. QED
        BY <2>3, <4>2 DEF Owned, entry
  <2>4. QED
    BY <2>2, <2>3, ZenonT(30) DEF entry
<1>2. QED
  BY <1>1, SpecInv, PTL

-----------------------------------------------------------------------------
(* Keypair slots and timestamps *)

LEMMA NextSlots == Typing /\ PreviousOrNext /\ [Next]_vars => PreviousOrNext'
<1> SUFFICES ASSUME Typing, PreviousOrNext, [Next]_vars, NEW q \in Peer
             PROVE  keypairs'[q].previous = Nil \/ keypairs'[q].next = Nil
  BY DEF PreviousOrNext
<1>1. CASE keypairs' = keypairs
  BY <1>1 DEF PreviousOrNext
<1>2. ASSUME NEW p \in Peer, ReceivedWithKeypair(p), keypairs' # keypairs
      PROVE  keypairs'[q].previous = Nil \/ keypairs'[q].next = Nil
  <2>1. keypairs' = [keypairs EXCEPT ![p] = [previous |-> @.current, current |-> @.next,
                                             next |-> Nil]]
    BY <1>2 DEF ReceivedWithKeypair
  <2>2. QED
    BY <2>1 DEF Typing, TypeOK, PreviousOrNext
<1>3. ASSUME NEW p \in Peer, NEW c \in Caller, ZeroKeypairs(p, c)
      PROVE  keypairs'[q].previous = Nil \/ keypairs'[q].next = Nil
  BY <1>3 DEF ZeroKeypairs, Typing, TypeOK, PreviousOrNext
<1>4. ASSUME NEW w \in Worker, RotateKeypairs(w)
      PROVE  keypairs'[q].previous = Nil \/ keypairs'[q].next = Nil
  <2> DEFINE p == wk[w].peer
             kp == wk[w].kp
  <2>1. p \in Peer /\ kp \in Keypair /\ keypairs[p] \in Keypairs
    BY <1>4 DEF RotateKeypairs, Typing, TypeOK, WorkersOK
  <2>2. keypairs' = [keypairs EXCEPT ![p] = Rotated(@, kp)]
    BY <1>4 DEF RotateKeypairs, Rotated
  <2>3. Rotated(keypairs[p], kp).previous = Nil \/ Rotated(keypairs[p], kp).next = Nil
    BY <2>1 DEF Rotated, RotateInitiator, RotateResponder, Keypairs
  <2> HIDE DEF p, kp
  <2>4. QED
    BY <2>1, <2>2, <2>3 DEF Typing, TypeOK, PreviousOrNext
<1>5. QED
  BY <1>1, <1>2, <1>3, <1>4, ZenonT(30)
  DEF Next, vars, SendHandshakeInitiation, SendTransport, ReceiveTransport, Stop, Start,
      ZeroHandshake, ConsumeInitiationCheck, ConsumeInitiationWrite, CreateMessageResponse,
      CreateMessageResponseFails, ConsumeResponseCheck, ConsumeResponseWrite,
      BeginSymmetricSession, BeginSymmetricSessionFails, FinishHandshake

\* The keypair slots previous and next of a peer are never both in use, through any
\* sequence of rotations, confirmations and resets.
THEOREM PreviousOrNextHolds == Spec => []PreviousOrNext
<1>1. Init => PreviousOrNext
  BY SMT DEF Init, PreviousOrNext
<1>2. QED
  BY <1>1, InitTyping, NextTyping, NextSlots, PTL DEF Spec

LEMMA TimestampStep ==
    ASSUME Typing, [Next]_vars, NEW q \in Peer
    PROVE  hs'[q].lastTimestamp >= hs[q].lastTimestamp
<1>1. hs \in [Peer -> Handshake] /\ hs[q].lastTimestamp \in Nat
  BY DEF Typing, TypeOK, Handshake
<1>2. CASE hs' = hs
  BY SMT, <1>1, <1>2
<1>3. ASSUME NEW p \in Peer, hs' = [hs EXCEPT ![p] = Clear(@)]
      PROVE  hs'[q].lastTimestamp >= hs[q].lastTimestamp
  <2>1. Clear(hs[p]).lastTimestamp = hs[p].lastTimestamp
    BY <1>1, ClearFacts
  <2>2. QED
    BY SMT, <1>1, <1>3, <2>1
<1>4. ASSUME NEW p \in Peer, SendHandshakeInitiation(p)
      PROVE  hs'[q].lastTimestamp >= hs[q].lastTimestamp
  <2> DEFINE c == <<eph + 1>>
  <2>1. PICK i : hs' = [hs EXCEPT ![p] = [@ EXCEPT !.state = "InitiationCreated",
                                                   !.chain = c, !.localIndex = i]]
    BY <1>4 DEF SendHandshakeInitiation
  <2> HIDE DEF c
  <2>2. QED
    BY SMT, <1>1, <2>1 DEF Handshake
<1>5. ASSUME NEW w \in Worker, CreateMessageResponse(w)
      PROVE  hs'[q].lastTimestamp >= hs[q].lastTimestamp
  <2> DEFINE p == wk[w].peer
             c == Append(hs[p].chain, eph + 1)
  <2>1. PICK i : hs' = [hs EXCEPT ![p] = [@ EXCEPT !.state = "ResponseCreated",
                                                   !.chain = c, !.localIndex = i]]
    BY <1>5 DEF CreateMessageResponse
  <2> HIDE DEF c, p
  <2>2. QED
    BY SMT, <1>1, <2>1 DEF Handshake
<1>6. ASSUME NEW w \in Worker, ConsumeInitiationWrite(w)
      PROVE  hs'[q].lastTimestamp >= hs[q].lastTimestamp
  <2> DEFINE p == wk[w].peer
             m == wk[w].msg
             c == <<m.eph>>
             ts == Latest(m, hs[p])
  <2>1. p \in Peer /\ m.eph \in Nat
    BY <1>6 DEF ConsumeInitiationWrite, Typing, WorkersOK, Initiation
  <2>2. ts >= hs[p].lastTimestamp
    BY SMT, <1>1, <2>1 DEF Latest, Handshake
  <2>3. hs' = [hs EXCEPT ![p] = [@ EXCEPT !.state = "InitiationConsumed", !.chain = c,
                                          !.remoteIndex = m.sender, !.lastTimestamp = ts]]
    BY <1>6 DEF ConsumeInitiationWrite
  <2> HIDE DEF c, ts, m, p
  <2>4. QED
    BY SMT, <1>1, <2>1, <2>2, <2>3 DEF Handshake
<1>7. ASSUME NEW w \in Worker, ConsumeResponseWrite(w)
      PROVE  hs'[q].lastTimestamp >= hs[q].lastTimestamp
  <2> DEFINE p == wk[w].peer
             m == wk[w].msg
             c == <<m.ie, m.re>>
  <2>1. hs' = [hs EXCEPT ![p] = [@ EXCEPT !.state = "ResponseConsumed", !.chain = c,
                                          !.remoteIndex = m.sender]]
    BY <1>7 DEF ConsumeResponseWrite
  <2> HIDE DEF c, m, p
  <2>2. QED
    BY SMT, <1>1, <2>1 DEF Handshake
<1>8. ASSUME NEW w \in Worker, BeginSymmetricSession(w)
      PROVE  hs'[q].lastTimestamp >= hs[q].lastTimestamp
  <2>1. wk[w].peer \in Peer
    BY <1>8 DEF BeginSymmetricSession, Typing, WorkersOK
  <2>2. QED
    BY <1>3, <1>8, <2>1 DEF BeginSymmetricSession
<1>9. ASSUME NEW p \in Peer, NEW c \in Caller, ZeroHandshake(p, c)
      PROVE  hs'[q].lastTimestamp >= hs[q].lastTimestamp
  BY <1>3, <1>9 DEF ZeroHandshake
<1>10. QED
  BY <1>2, <1>4, <1>5, <1>6, <1>7, <1>8, <1>9, ZenonT(30)
  DEF Next, vars, SendTransport, ReceiveTransport, ReceivedWithKeypair, Stop, Start,
      ZeroKeypairs, ConsumeInitiationCheck, CreateMessageResponseFails, ConsumeResponseCheck,
      BeginSymmetricSessionFails, RotateKeypairs, FinishHandshake

\* The timestamp a peer remembers never goes back, with any number of workers between
\* the check and the write of ConsumeMessageInitiation: a restart of the peer or a late
\* worker cannot reopen the door to an older initiation.
THEOREM TimestampNeverGoesBackHolds == Spec => TimestampNeverGoesBack
<1>1. Typing /\ [Next]_vars
        => [\A p \in Peer : hs'[p].lastTimestamp >= hs[p].lastTimestamp]_vars
  BY TimestampStep
<1>2. QED
  BY <1>1, InitTyping, NextTyping, PTL DEF Spec, TimestampNeverGoesBack

-----------------------------------------------------------------------------
(* Key confirmation *)

\* An initiation with ephemeral e has been sent to p.
Sent(p, e) == \E m \in net : m.type = "initiation" /\ m.dst = p /\ m.eph = e

\* Peer q has derived k as the initiator; some peer has.
DerivedBy(q, k) ==
    \E n \in DOMAIN derived[q] : derived[q][n].isInitiator /\ derived[q][n].key = k
Initiated(k) == \E q \in Peer : DerivedBy(q, k)

\* The key k of peer p grew out of an initiation between p and its counterpart.
KeyOf(p, k, isInitiator) ==
    /\ k # <<>>
    /\ isInitiator => Sent(Counterpart[p], k[1])
    /\ ~isInitiator => Sent(p, k[1])

\* The same of a keypair, and an initiator's keypair is among those derived.
Held(p, kp) ==
    kp # Nil => KeyOf(p, kp.key, kp.isInitiator) /\ (kp.isInitiator => Initiated(kp.key))

OneAddressee ==
    /\ \A m \in net : m.type = "initiation" => m.eph <= eph
    /\ \A m, n \in net : m.type = "initiation" /\ n.type = "initiation" /\ m.eph = n.eph
                           => m.dst = n.dst

HandshakeOrigin(p, h) ==
    /\ h.state \in {"InitiationCreated", "ResponseConsumed"} => KeyOf(p, h.chain, TRUE)
    /\ h.state \in {"InitiationConsumed", "ResponseCreated"} => KeyOf(p, h.chain, FALSE)

WorkerOrigin(x) ==
    /\ x.pc = "checkedInit" => Sent(x.peer, x.msg.eph)
    /\ x.pc = "checkedResp" => Sent(Counterpart[x.peer], x.msg.ie)
    /\ x.pc = "rotate" => Held(x.peer, x.kp)

SlotsHeld(p, ks) == Held(p, ks.previous) /\ Held(p, ks.current) /\ Held(p, ks.next)

DerivedOrigin(p) ==
    \A n \in DOMAIN derived[p] : KeyOf(p, derived[p][n].key, derived[p][n].isInitiator)

PacketsOrigin == \A m \in net : m.type = "transport" /\ m.fromInitiator => Initiated(m.key)

InboundOrigin(kp) == kp # Nil /\ ~kp.isInitiator => Initiated(kp.key)

\* What ConfirmedBeforeUse says of the current keypair of one peer.
UseConfirmed(p, kp) == kp # Nil /\ ~kp.isInitiator => DerivedBy(Counterpart[p], kp.key)

PeerOrigin(p) ==
    /\ HandshakeOrigin(p, hs[p])
    /\ SlotsHeld(p, keypairs[p])
    /\ DerivedOrigin(p)
    /\ InboundOrigin(inbound[p])
    /\ UseConfirmed(p, keypairs[p].current)

\* The inductive invariant, beside Typing.
OriginInv ==
    /\ OneAddressee
    /\ PacketsOrigin
    /\ \A p \in Peer : PeerOrigin(p)
    /\ \A w \in Worker : WorkerOrigin(wk[w])

-----------------------------------------------------------------------------
(* The history only grows, so what has been sent or derived stays so. *)

Grows ==
    /\ net \subseteq net'
    /\ \A p \in Peer : \A n \in DOMAIN derived[p] :
         n \in DOMAIN derived'[p] /\ derived'[p][n] = derived[p][n]

LEMMA GrowsKeeps ==
    ASSUME Grows
    PROVE  /\ \A p, e : Sent(p, e) => Sent(p, e)'
           /\ \A p \in Peer : \A k : DerivedBy(p, k) => DerivedBy(p, k)'
           /\ \A k : Initiated(k) => Initiated(k)'
           /\ \A p, k, i : KeyOf(p, k, i) => KeyOf(p, k, i)'
           /\ \A p, kp : Held(p, kp) => Held(p, kp)'
           /\ \A p, h : HandshakeOrigin(p, h) => HandshakeOrigin(p, h)'
           /\ \A x : WorkerOrigin(x) => WorkerOrigin(x)'
           /\ \A p, ks : SlotsHeld(p, ks) => SlotsHeld(p, ks)'
           /\ \A kp : InboundOrigin(kp) => InboundOrigin(kp)'
           /\ \A p \in Peer : \A kp : UseConfirmed(p, kp) => UseConfirmed(p, kp)'
<1>1. \A p, e : Sent(p, e) => Sent(p, e)'
  BY DEF Grows, Sent
<1>2. \A p \in Peer : \A k : DerivedBy(p, k) => DerivedBy(p, k)'
  BY DEF Grows, DerivedBy
<1>3. \A k : Initiated(k) => Initiated(k)'
  BY <1>2 DEF Initiated
<1>4. \A p, k, i : KeyOf(p, k, i) => KeyOf(p, k, i)'
  BY <1>1 DEF KeyOf
<1>5. \A p, kp : Held(p, kp) => Held(p, kp)'
  BY <1>3, <1>4 DEF Held
<1>6. \A p, h : HandshakeOrigin(p, h) => HandshakeOrigin(p, h)'
  BY <1>4 DEF HandshakeOrigin
<1>7. \A x : WorkerOrigin(x) => WorkerOrigin(x)'
  BY <1>1, <1>5 DEF WorkerOrigin
<1>8. \A p, ks : SlotsHeld(p, ks) => SlotsHeld(p, ks)'
  BY <1>5 DEF SlotsHeld
<1>9. \A kp : InboundOrigin(kp) => InboundOrigin(kp)'
  BY <1>3 DEF InboundOrigin
<1>10. \A p \in Peer : \A kp : UseConfirmed(p, kp) => UseConfirmed(p, kp)'
  BY <1>2, NoiseAssumption DEF UseConfirmed
<1>11. QED
  BY <1>1, <1>2, <1>3, <1>4, <1>5, <1>6, <1>7, <1>8, <1>9, <1>10

\* Whatever a step changes is accounted for.
HandshakesKept == \A p \in Peer : hs'[p] = hs[p] \/ HandshakeOrigin(p, hs[p])'
SlotsKept ==
    \A p \in Peer : \/ keypairs'[p] = keypairs[p]
                    \/ SlotsHeld(p, keypairs[p])' /\ UseConfirmed(p, keypairs[p].current)'
DerivedKept == \A p \in Peer : derived'[p] = derived[p] \/ DerivedOrigin(p)'
InboundKept == \A p \in Peer : inbound'[p] = inbound[p] \/ InboundOrigin(inbound[p])'
WorkersKept == \A w \in Worker : wk'[w] = wk[w] \/ WorkerOrigin(wk[w])'

LEMMA UnchangedKept ==
    /\ hs' = hs => HandshakesKept
    /\ keypairs' = keypairs => SlotsKept
    /\ derived' = derived => DerivedKept
    /\ inbound' = inbound => InboundKept
    /\ wk' = wk => WorkersKept
BY DEF HandshakesKept, SlotsKept, DerivedKept, InboundKept, WorkersKept

LEMMA OriginStep ==
    ASSUME OriginInv, Grows, OneAddressee', PacketsOrigin',
           HandshakesKept, SlotsKept, DerivedKept, InboundKept, WorkersKept
    PROVE  OriginInv'
<1>1. ASSUME NEW p \in Peer PROVE PeerOrigin(p)'
  <2>0. PeerOrigin(p)
    BY DEF OriginInv
  <2>1. HandshakeOrigin(p, hs[p])'
    BY <2>0, GrowsKeeps DEF PeerOrigin, HandshakesKept
  <2>2. SlotsHeld(p, keypairs[p])' /\ UseConfirmed(p, keypairs[p].current)'
    BY <2>0, GrowsKeeps DEF PeerOrigin, SlotsKept
  <2>3. DerivedOrigin(p)'
    BY <2>0, GrowsKeeps DEF PeerOrigin, DerivedOrigin, DerivedKept
  <2>4. InboundOrigin(inbound[p])'
    BY <2>0, GrowsKeeps DEF PeerOrigin, InboundKept
  <2>5. QED
    BY <2>1, <2>2, <2>3, <2>4 DEF PeerOrigin
<1>2. ASSUME NEW w \in Worker PROVE WorkerOrigin(wk[w])'
  BY GrowsKeeps DEF OriginInv, WorkersKept
<1>3. QED
  BY <1>1, <1>2 DEF OriginInv

LEMMA SameHistory ==
    ASSUME OriginInv, net' = net, eph' = eph, derived' = derived
    PROVE  Grows /\ OneAddressee' /\ PacketsOrigin'
<1>1. Grows
  BY DEF Grows
<1>2. QED
  BY <1>1, GrowsKeeps DEF OriginInv, OneAddressee, PacketsOrigin

-----------------------------------------------------------------------------
(* The actions *)

LEMMA InitiationOrigin ==
    ASSUME Typing, OriginInv, NEW p \in Peer, SendHandshakeInitiation(p)
    PROVE  OriginInv'
<1>1. PICK e, i : /\ e = eph + 1
                  /\ hs' = [hs EXCEPT ![p] = [@ EXCEPT !.state = "InitiationCreated",
                                                       !.chain = <<e>>, !.localIndex = i]]
                  /\ net' = net \cup {[type |-> "initiation", dst |-> Counterpart[p],
                                       sender |-> i, eph |-> e]}
  BY DEF SendHandshakeInitiation
<1> DEFINE m == [type |-> "initiation", dst |-> Counterpart[p], sender |-> i, eph |-> e]
<1>2. /\ eph' = e /\ keypairs' = keypairs /\ inbound' = inbound /\ wk' = wk
      /\ derived' = derived
  BY <1>1 DEF SendHandshakeInitiation
<1>3. Grows
  BY <1>1, <1>2 DEF Grows
<1>4. OneAddressee'
  <2>1. eph \in Nat /\ \A x \in net : x.type = "initiation" => x.eph \in Nat /\ x.eph <= eph
    BY DEF Typing, TypeOK, OriginInv, OneAddressee, Message, Initiation, Response, Transport
  <2>2. m.eph = e /\ e <= e /\ \A x \in net : x.type = "initiation" => x.eph # e /\ x.eph <= e
    BY SMT, <1>1, <2>1
  <2>3. net' = net \cup {m}
    BY <1>1
  <2> HIDE DEF m
  <2>4. QED
    BY <1>2, <2>2, <2>3 DEF OriginInv, OneAddressee
<1>5. PacketsOrigin'
  <2>1. m.type # "transport"
    OBVIOUS
  <2>2. QED
    BY <1>1, <1>3, <2>1, GrowsKeeps DEF OriginInv, PacketsOrigin
<1>6. PICK h : h = hs'[p]
  OBVIOUS
<1>7. HandshakeOrigin(p, h)'
  <2>1. h.state = "InitiationCreated" /\ h.chain = <<e>>
    BY SMT, <1>1, <1>6 DEF Typing, TypeOK, Handshake
  <2>2. <<e>> # <<>> /\ <<e>>[1] = e
    OBVIOUS
  <2>3. Sent(Counterpart[p], e)'
    <3>1. m \in net'
      BY <1>1
    <3>2. m.type = "initiation" /\ m.dst = Counterpart[p] /\ m.eph = e
      OBVIOUS
    <3> HIDE DEF m
    <3>3. QED
      BY <3>1, <3>2 DEF Sent
  <2>4. QED
    BY <2>1, <2>2, <2>3 DEF HandshakeOrigin, KeyOf
<1>8. HandshakeOrigin(p, hs[p])'
  BY <1>6, <1>7
<1>9. HandshakesKept
  BY <1>1, <1>8 DEF Typing, TypeOK, HandshakesKept
<1>10. QED
  BY <1>2, <1>3, <1>4, <1>5, <1>9, UnchangedKept, OriginStep

\* A step that writes one handshake and one worker.
LEMMA WriteOrigin ==
    ASSUME Typing, OriginInv, Grows, OneAddressee', PacketsOrigin',
           keypairs' = keypairs, inbound' = inbound, derived' = derived,
           NEW p \in Peer, NEW h, hs' = [hs EXCEPT ![p] = h], HandshakeOrigin(p, h)',
           NEW w \in Worker, NEW x, wk' = [wk EXCEPT ![w] = x], WorkerOrigin(x)'
    PROVE  OriginInv'
<1>1. hs'[p] = h /\ \A q \in Peer \ {p} : hs'[q] = hs[q]
  BY DEF Typing, TypeOK
<1>2. wk'[w] = x /\ \A v \in Worker \ {w} : wk'[v] = wk[v]
  BY DEF Typing, TypeOK
<1>3. HandshakeOrigin(p, hs[p])' /\ WorkerOrigin(wk[w])'
  BY <1>1, <1>2
<1>4. HandshakesKept /\ WorkersKept
  BY <1>1, <1>2, <1>3 DEF HandshakesKept, WorkersKept
<1>5. QED
  BY <1>4, UnchangedKept, OriginStep

LEMMA ConsumeInitiationOrigin ==
    ASSUME Typing, OriginInv, NEW w \in Worker,
           ConsumeInitiationCheck(w) \/ ConsumeInitiationWrite(w)
    PROVE  OriginInv'
<1>0. wk[w] \in WorkerState /\ wk \in [Worker -> WorkerState]
  BY DEF Typing, TypeOK
<1>1. CASE ConsumeInitiationCheck(w)
  <2>1. PICK m \in net : /\ m.type = "initiation"
                         /\ wk' = [wk EXCEPT ![w] = [@ EXCEPT !.pc = "checkedInit",
                                                              !.peer = m.dst, !.msg = m]]
    BY <1>1 DEF ConsumeInitiationCheck
  <2>2. /\ hs' = hs /\ keypairs' = keypairs /\ inbound' = inbound /\ net' = net
        /\ eph' = eph /\ derived' = derived
    BY <1>1 DEF ConsumeInitiationCheck
  <2>3. wk'[w].pc = "checkedInit" /\ wk'[w].peer = m.dst /\ wk'[w].msg = m
    BY <1>0, <2>1 DEF WorkerState
  <2>4. Sent(m.dst, m.eph)'
    BY <2>1, <2>2 DEF Sent
  <2>5. WorkerOrigin(wk[w])'
    BY <2>3, <2>4 DEF WorkerOrigin
  <2>6. WorkersKept
    BY <1>0, <2>1, <2>5 DEF WorkersKept
  <2>7. QED
    BY <2>2, <2>6, SameHistory, UnchangedKept, OriginStep
<1>2. CASE ConsumeInitiationWrite(w)
  <2>1. PICK p, e, h, x : /\ p = wk[w].peer /\ e = wk[w].msg.eph
                          /\ h = [hs[p] EXCEPT !.state = "InitiationConsumed", !.chain = <<e>>,
                                               !.remoteIndex = wk[w].msg.sender,
                                               !.lastTimestamp = Latest(wk[w].msg, hs[p])]
                          /\ x = [wk[w] EXCEPT !.pc = "respond"]
    OBVIOUS
  <2>2. p \in Peer /\ Sent(p, e) /\ hs[p] \in Handshake
    BY <1>2, <2>1 DEF ConsumeInitiationWrite, Typing, TypeOK, WorkersOK, OriginInv, WorkerOrigin
  <2>3. /\ hs' = [hs EXCEPT ![p] = h] /\ wk' = [wk EXCEPT ![w] = x]
        /\ keypairs' = keypairs /\ inbound' = inbound /\ net' = net
        /\ eph' = eph /\ derived' = derived
    BY <1>2, <2>1 DEF ConsumeInitiationWrite
  <2>4. h.state = "InitiationConsumed" /\ h.chain = <<e>> /\ <<e>> # <<>> /\ <<e>>[1] = e
    BY <2>1, <2>2 DEF Handshake
  <2>5. x.pc = "respond"
    BY <1>0, <2>1 DEF WorkerState
  <2>6. Grows /\ OneAddressee' /\ PacketsOrigin'
    BY <2>3, SameHistory
  <2>7. HandshakeOrigin(p, h)'
    <3>1. Sent(p, e)'
      BY <2>2, <2>6, GrowsKeeps
    <3>2. QED
      BY <2>4, <3>1 DEF HandshakeOrigin, KeyOf
  <2>8. WorkerOrigin(x)'
    BY <2>5 DEF WorkerOrigin
  <2>9. QED
    BY <2>2, <2>3, <2>6, <2>7, <2>8, WriteOrigin
<1>3. QED
  BY <1>1, <1>2

\* A step that only ends or advances one worker.
LEMMA WorkerOnlyOrigin ==
    ASSUME Typing, OriginInv, hs' = hs, keypairs' = keypairs, inbound' = inbound,
           net' = net, eph' = eph, derived' = derived,
           NEW w \in Worker, NEW x, wk' = [wk EXCEPT ![w] = x], WorkerOrigin(x)'
    PROVE  OriginInv'
<1>1. wk'[w] = x /\ \A v \in Worker \ {w} : wk'[v] = wk[v]
  BY DEF Typing, TypeOK
<1>2. WorkersKept
  BY <1>1 DEF WorkersKept
<1>3. QED
  BY <1>2, SameHistory, UnchangedKept, OriginStep

LEMMA IdleOrigin == WorkerOrigin(IdleWorker)'
BY DEF WorkerOrigin, IdleWorker

LEMMA CreateResponseOrigin ==
    ASSUME Typing, OriginInv, NEW w \in Worker,
           CreateMessageResponse(w) \/ CreateMessageResponseFails(w)
    PROVE  OriginInv'
<1>0. wk[w] \in WorkerState
  BY DEF Typing, TypeOK
<1>1. CASE CreateMessageResponse(w)
  <2>1. PICK p, c, r : p = wk[w].peer /\ c = hs[p].chain /\ r = eph + 1
    OBVIOUS
  <2>2. wk[w].pc = "respond" /\ hs[p].state = "InitiationConsumed"
    BY <1>1, <2>1 DEF CreateMessageResponse
  <2>3. /\ p \in Peer /\ hs[p] \in Handshake /\ c \in Seq(Nat) /\ r \in Nat
        /\ hs[p].state = "InitiationConsumed"
    BY SMTT(30), <2>1, <2>2 DEF Typing, TypeOK, WorkersOK, Handshake
  <2>4. c # <<>> /\ Sent(p, c[1])
    BY <2>1, <2>3 DEF OriginInv, PeerOrigin, HandshakeOrigin, KeyOf
  <2> DEFINE out(i) == [type |-> "response", dst |-> Counterpart[p], sender |-> i,
                        receiver |-> hs[p].remoteIndex, ie |-> c[1], re |-> r]
  <2>5. PICK i : /\ hs' = [hs EXCEPT ![p] = [@ EXCEPT !.state = "ResponseCreated",
                                                      !.chain = Append(c, r), !.localIndex = i]]
                 /\ wk' = [wk EXCEPT ![w] = [@ EXCEPT !.pc = "derive", !.out = out(i)]]
    BY <1>1, <2>1 DEF CreateMessageResponse
  <2>6. PICK h, x :
           /\ h = [hs[p] EXCEPT !.state = "ResponseCreated", !.chain = Append(c, r),
                                !.localIndex = i]
           /\ x = [wk[w] EXCEPT !.pc = "derive", !.out = out(i)]
           /\ hs' = [hs EXCEPT ![p] = h] /\ wk' = [wk EXCEPT ![w] = x]
    BY <2>5
  <2>7. /\ keypairs' = keypairs /\ inbound' = inbound /\ net' = net
        /\ eph' = r /\ derived' = derived
    BY <1>1, <2>1 DEF CreateMessageResponse
  <2>8. Grows /\ PacketsOrigin'
    <3>1. Grows
      BY <2>7 DEF Grows
    <3>2. QED
      BY <2>7, <3>1, GrowsKeeps DEF OriginInv, PacketsOrigin
  <2>9. OneAddressee'
    <3>1. \A m \in net : m.type = "initiation" => m.eph \in Nat /\ m.eph <= eph /\ eph \in Nat
      BY DEF Typing, TypeOK, OriginInv, OneAddressee, Message, Initiation, Response, Transport
    <3>2. \A m \in net : m.type = "initiation" => m.eph <= r
      BY SMT, <2>1, <3>1
    <3>3. QED
      BY <2>7, <3>2 DEF OriginInv, OneAddressee
  <2>10. HandshakeOrigin(p, h)'
    <3>1. h.state = "ResponseCreated" /\ h.chain = Append(c, r)
      BY <2>3, <2>6 DEF Handshake
    <3>2. Append(c, r) # <<>> /\ Append(c, r)[1] = c[1]
      BY SMT, <2>3, <2>4
    <3>3. Sent(p, c[1])'
      BY <2>4, <2>8, GrowsKeeps
    <3>4. QED
      BY <3>1, <3>2, <3>3 DEF HandshakeOrigin, KeyOf
  <2>11. WorkerOrigin(x)'
    <3>1. x.pc = "derive"
      BY <1>0, <2>6 DEF WorkerState
    <3>2. QED
      BY <3>1 DEF WorkerOrigin
  <2>12. QED
    BY <2>3, <2>6, <2>7, <2>8, <2>9, <2>10, <2>11, WriteOrigin
<1>2. CASE CreateMessageResponseFails(w)
  BY <1>2, IdleOrigin, WorkerOnlyOrigin DEF CreateMessageResponseFails
<1>3. QED
  BY <1>1, <1>2

LEMMA ConsumeResponseOrigin ==
    ASSUME Typing, OriginInv, NEW w \in Worker,
           ConsumeResponseCheck(w) \/ ConsumeResponseWrite(w)
    PROVE  OriginInv'
<1>0. wk[w] \in WorkerState
  BY DEF Typing, TypeOK
<1>1. CASE ConsumeResponseCheck(w)
  <2> DEFINE entry(m) == table[HostOf[w]][m.receiver]
  <2>1. PICK m \in net :
           /\ m.type = "response"
           /\ entry(m).kind = "handshake"
           /\ hs[entry(m).peer].state = "InitiationCreated"
           /\ hs[entry(m).peer].chain = <<m.ie>>
           /\ wk' = [wk EXCEPT ![w] = [@ EXCEPT !.pc = "checkedResp", !.peer = entry(m).peer,
                                               !.msg = m]]
    BY <1>1 DEF ConsumeResponseCheck
  <2>2. PICK p : p = entry(m).peer
    OBVIOUS
  <2>3. hs[p].state = "InitiationCreated" /\ hs[p].chain = <<m.ie>>
    BY <2>1, <2>2
  <2>4. PICK x : /\ x = [wk[w] EXCEPT !.pc = "checkedResp", !.peer = p, !.msg = m]
                 /\ wk' = [wk EXCEPT ![w] = x]
    BY <2>1, <2>2
  <2>5. /\ hs' = hs /\ keypairs' = keypairs /\ inbound' = inbound /\ net' = net
        /\ eph' = eph /\ derived' = derived
    BY <1>1 DEF ConsumeResponseCheck
  <2>6. p \in Peer
    <3>1. m.receiver \in Index
      BY <2>1 DEF Typing, TypeOK, Message, Initiation, Response, Transport
    <3>2. table[HostOf[w]][m.receiver] \in Entry
      BY ZenonT(30), <3>1, NoiseAssumption DEF Typing, TypeOK
    <3>3. QED
      <4>1. entry(m).kind = "handshake"
        BY <2>1
      <4>2. QED
        BY SMT, <2>2, <3>2, <4>1 DEF Entry, NoEntry
  <2>7. Sent(Counterpart[p], m.ie)
    <3>1. KeyOf(p, hs[p].chain, TRUE)
      BY <2>3, <2>6 DEF OriginInv, PeerOrigin, HandshakeOrigin
    <3>2. <<m.ie>>[1] = m.ie
      OBVIOUS
    <3>3. QED
      BY <2>3, <3>1, <3>2 DEF KeyOf
  <2>8. x.pc = "checkedResp" /\ x.peer = p /\ x.msg = m
    BY <1>0, <2>4 DEF WorkerState
  <2>9. WorkerOrigin(x)'
    <3>1. Sent(Counterpart[p], m.ie)'
      BY <2>5, <2>7, SameHistory, GrowsKeeps
    <3>2. QED
      BY <2>8, <3>1 DEF WorkerOrigin
  <2>10. QED
    BY <2>4, <2>5, <2>9, WorkerOnlyOrigin
<1>2. CASE ConsumeResponseWrite(w)
  <2>1. PICK p, e, r, h, x :
           /\ p = wk[w].peer /\ e = wk[w].msg.ie /\ r = wk[w].msg.re
           /\ h = [hs[p] EXCEPT !.state = "ResponseConsumed", !.chain = <<e, r>>,
                                !.remoteIndex = wk[w].msg.sender]
           /\ x = [wk[w] EXCEPT !.pc = "derive"]
    OBVIOUS
  <2>2. p \in Peer /\ Sent(Counterpart[p], e) /\ hs[p] \in Handshake
    BY <1>2, <2>1 DEF ConsumeResponseWrite, Typing, TypeOK, WorkersOK, OriginInv, WorkerOrigin
  <2>3. /\ hs' = [hs EXCEPT ![p] = h] /\ wk' = [wk EXCEPT ![w] = x]
        /\ keypairs' = keypairs /\ inbound' = inbound /\ net' = net
        /\ eph' = eph /\ derived' = derived
    BY <1>2, <2>1 DEF ConsumeResponseWrite
  <2>4. h.state = "ResponseConsumed" /\ h.chain = <<e, r>>
    BY <2>1, <2>2 DEF Handshake
  <2>5. <<e, r>> # <<>> /\ <<e, r>>[1] = e
    OBVIOUS
  <2>6. Grows /\ OneAddressee' /\ PacketsOrigin'
    BY <2>3, SameHistory
  <2>7. HandshakeOrigin(p, h)'
    <3>1. Sent(Counterpart[p], e)'
      BY <2>2, <2>6, GrowsKeeps
    <3>2. QED
      BY <2>4, <2>5, <3>1 DEF HandshakeOrigin, KeyOf
  <2>8. x.pc = "derive"
    BY <1>0, <2>1 DEF WorkerState
  <2>9. WorkerOrigin(x)'
    BY <2>8 DEF WorkerOrigin
  <2>10. QED
    BY <2>2, <2>3, <2>6, <2>7, <2>9, WriteOrigin
<1>3. QED
  BY <1>1, <1>2

LEMMA BeginOrigin ==
    ASSUME Typing, OriginInv, NEW w \in Worker,
           BeginSymmetricSession(w) \/ BeginSymmetricSessionFails(w)
    PROVE  OriginInv'
<1>0. wk[w] \in WorkerState /\ wk \in [Worker -> WorkerState]
  BY DEF Typing, TypeOK
<1>1. CASE BeginSymmetricSession(w)
  <2>1. PICK p, kp, x : /\ p = wk[w].peer /\ kp = NewKeypair(w)
                        /\ x = [wk[w] EXCEPT !.pc = "rotate", !.kp = kp]
    OBVIOUS
  <2>2. /\ hs' = [hs EXCEPT ![p] = Clear(@)]
        /\ derived' = [derived EXCEPT ![p] = Append(@, kp)]
        /\ wk' = [wk EXCEPT ![w] = x]
        /\ keypairs' = keypairs /\ inbound' = inbound /\ net' = net /\ eph' = eph
        /\ wk[w].pc = "derive"
        /\ hs[p].state \in {"ResponseConsumed", "ResponseCreated"}
    BY <1>1, <2>1 DEF BeginSymmetricSession
  <2>3. p \in Peer /\ kp \in Keypair /\ hs[p] \in Handshake /\ derived[p] \in Seq(Keypair)
    <3>1. p \in Peer
      BY <2>1, <2>2 DEF Typing, WorkersOK
    <3>2. QED
      BY <2>1, <3>1, NewKeypairType DEF Typing, TypeOK
  <2>4. kp.key = hs[p].chain /\ kp.isInitiator = (hs[p].state = "ResponseConsumed")
    BY <2>1 DEF NewKeypair
  <2>5. /\ DOMAIN derived'[p] = DOMAIN derived[p] \cup {Len(derived[p]) + 1}
        /\ Len(derived[p]) + 1 \notin DOMAIN derived[p]
        /\ derived'[p][Len(derived[p]) + 1] = kp
        /\ \A n \in DOMAIN derived[p] : derived'[p][n] = derived[p][n]
        /\ \A q \in Peer \ {p} : derived'[q] = derived[q]
    <3>1. derived'[p] = Append(derived[p], kp) /\ \A q \in Peer \ {p} : derived'[q] = derived[q]
      BY <2>2, <2>3 DEF Typing, TypeOK
    <3>2. QED
      BY SMT, <2>3, <3>1
  <2>6. Grows
    BY <2>2, <2>5 DEF Grows
  <2>7. KeyOf(p, kp.key, kp.isInitiator)
    <3>1. HandshakeOrigin(p, hs[p])
      BY <2>3 DEF OriginInv, PeerOrigin
    <3>2. CASE hs[p].state = "ResponseConsumed"
      BY <2>4, <3>1, <3>2 DEF HandshakeOrigin, KeyOf
    <3>3. CASE hs[p].state # "ResponseConsumed"
      <4>1. hs[p].state = "ResponseCreated"
        BY <2>2, <3>3
      <4>2. QED
        BY <2>4, <3>1, <3>3, <4>1 DEF HandshakeOrigin, KeyOf
    <3>4. QED
      BY <3>2, <3>3
  <2>8. KeyOf(p, kp.key, kp.isInitiator)'
    BY <2>6, <2>7, GrowsKeeps
  <2>9. Held(p, kp)'
    <3>1. ASSUME kp.isInitiator PROVE Initiated(kp.key)'
      <4>1. Len(derived[p]) + 1 \in DOMAIN derived'[p]
        BY <2>5
      <4>2. DerivedBy(p, kp.key)'
        BY <2>5, <3>1, <4>1 DEF DerivedBy
      <4>3. QED
        BY <2>3, <4>2 DEF Initiated
    <3>2. QED
      BY <2>8, <3>1 DEF Held
  <2>10. HandshakesKept
    <3>1. PICK h : h = hs'[p]
      OBVIOUS
    <3>2. h.state = "Zeroed"
      BY <2>2, <2>3, <3>1, ClearFacts DEF Typing, TypeOK
    <3>3. HandshakeOrigin(p, h)'
      BY <3>2 DEF HandshakeOrigin
    <3>4. HandshakeOrigin(p, hs[p])'
      BY <3>1, <3>3
    <3>5. QED
      BY <2>2, <3>4 DEF HandshakesKept, Typing, TypeOK
  <2>11. DerivedKept
    <3>1. DerivedOrigin(p)'
      <4>1. DerivedOrigin(p)
        BY <2>3 DEF OriginInv, PeerOrigin
      <4>2. QED
        BY <2>5, <2>6, <2>8, <4>1, GrowsKeeps DEF DerivedOrigin
    <3>2. QED
      BY <2>5, <3>1 DEF DerivedKept
  <2>12. WorkersKept
    <3>1. x.peer = p /\ x.kp = kp /\ x.pc = "rotate"
      BY <1>0, <2>1 DEF WorkerState
    <3>2. WorkerOrigin(x)'
      BY <2>9, <3>1 DEF WorkerOrigin
    <3>3. wk'[w] = x /\ \A v \in Worker \ {w} : wk'[v] = wk[v]
      BY <1>0, <2>2
    <3>4. QED
      BY <3>2, <3>3 DEF WorkersKept
  <2>13. OneAddressee' /\ PacketsOrigin'
    BY <2>2, <2>6, GrowsKeeps DEF OriginInv, OneAddressee, PacketsOrigin
  <2>14. QED
    BY <2>2, <2>6, <2>10, <2>11, <2>12, <2>13, UnchangedKept, OriginStep
<1>2. CASE BeginSymmetricSessionFails(w)
  BY <1>2, IdleOrigin, WorkerOnlyOrigin DEF BeginSymmetricSessionFails
<1>3. QED
  BY <1>1, <1>2

\* A step that writes the keypairs of one peer.
LEMMA SlotsOrigin ==
    ASSUME Typing, OriginInv, Grows, NEW p \in Peer, NEW ks,
           keypairs' = [keypairs EXCEPT ![p] = ks],
           SlotsHeld(p, ks), UseConfirmed(p, ks.current)
    PROVE  SlotsKept
<1>1. keypairs'[p] = ks /\ \A q \in Peer \ {p} : keypairs'[q] = keypairs[q]
  BY DEF Typing, TypeOK
<1>2. PICK kp : kp = ks.current
  OBVIOUS
<1>3. SlotsHeld(p, ks)' /\ UseConfirmed(p, kp)'
  BY <1>2, GrowsKeeps
<1>4. SlotsHeld(p, keypairs[p])' /\ UseConfirmed(p, keypairs[p].current)'
  BY <1>1, <1>2, <1>3
<1>5. QED
  BY <1>1, <1>4 DEF SlotsKept

LEMMA RotateOrigin ==
    ASSUME Typing, OriginInv, NEW w \in Worker, RotateKeypairs(w)
    PROVE  OriginInv'
<1>0. wk[w] \in WorkerState /\ wk \in [Worker -> WorkerState]
  BY DEF Typing, TypeOK
<1>1. PICK p, kp, ks, r, x :
         /\ p = wk[w].peer /\ kp = wk[w].kp /\ ks = keypairs[p]
         /\ r = (IF kp.isInitiator THEN RotateInitiator(ks, kp) ELSE RotateResponder(ks, kp))
         /\ x = [wk[w] EXCEPT !.pc = "finish"]
  OBVIOUS
<1>2. /\ wk[w].pc = "rotate"
      /\ keypairs' = [keypairs EXCEPT ![p] = r]
      /\ wk' = [wk EXCEPT ![w] = x]
      /\ hs' = hs /\ inbound' = inbound /\ net' = net /\ eph' = eph /\ derived' = derived
  BY <1>1 DEF RotateKeypairs
<1>3. p \in Peer /\ ks \in Keypairs /\ Held(p, kp)
  BY <1>1, <1>2 DEF Typing, TypeOK, WorkersOK, OriginInv, WorkerOrigin
<1>4. SlotsHeld(p, ks) /\ UseConfirmed(p, ks.current) /\ Held(p, Nil)
  BY <1>1, <1>3 DEF OriginInv, PeerOrigin, Held
<1>5. SlotsHeld(p, r) /\ UseConfirmed(p, r.current)
  <2>1. CASE kp.isInitiator
    <3>1. r.previous \in {ks.next, ks.current} /\ r.current = kp /\ r.next = Nil
      BY <1>1, <2>1 DEF RotateInitiator
    <3>2. QED
      BY <1>3, <1>4, <2>1, <3>1 DEF SlotsHeld, UseConfirmed
  <2>2. CASE ~kp.isInitiator
    <3>1. r.previous = Nil /\ r.current = ks.current /\ r.next = kp
      BY <1>1, <1>3, <2>2 DEF RotateResponder, Keypairs
    <3>2. QED
      BY <1>3, <1>4, <3>1 DEF SlotsHeld
  <2>3. QED
    BY <2>1, <2>2
<1>6. Grows /\ OneAddressee' /\ PacketsOrigin'
  BY <1>2, SameHistory
<1>7. SlotsKept
  BY <1>2, <1>3, <1>5, <1>6, SlotsOrigin
<1>8. WorkersKept
  <2>1. x.pc = "finish"
    BY <1>0, <1>1 DEF WorkerState
  <2>2. WorkerOrigin(x)'
    BY <2>1 DEF WorkerOrigin
  <2>3. wk'[w] = x /\ \A v \in Worker \ {w} : wk'[v] = wk[v]
    BY <1>0, <1>2
  <2>4. QED
    BY <2>2, <2>3 DEF WorkersKept
<1>9. QED
  BY <1>2, <1>6, <1>7, <1>8, UnchangedKept, OriginStep

\* A step that adds a packet under the current keypair of p, or a response.
LEMMA PacketOrigin ==
    ASSUME Typing, OriginInv, eph' = eph, derived' = derived,
           NEW S, net' = net \cup S,
           \A m \in S : m.type # "initiation",
           \A m \in S : m.type = "transport" /\ m.fromInitiator => Initiated(m.key)
    PROVE  Grows /\ OneAddressee' /\ PacketsOrigin'
<1>1. Grows
  BY DEF Grows
<1>2. OneAddressee'
  BY DEF OriginInv, OneAddressee
<1>3. PacketsOrigin'
  BY <1>1, GrowsKeeps DEF OriginInv, PacketsOrigin
<1>4. QED
  BY <1>1, <1>2, <1>3

LEMMA TransportMessageOrigin ==
    ASSUME OriginInv, NEW p \in Peer, keypairs[p].current # Nil, NEW m, m = TransportMessage(p)
    PROVE  m.type = "transport" /\ (m.fromInitiator => Initiated(m.key))
<1>1. Held(p, keypairs[p].current)
  BY DEF OriginInv, PeerOrigin, SlotsHeld
<1>2. /\ m.type = "transport" /\ m.fromInitiator = keypairs[p].current.isInitiator
      /\ m.key = keypairs[p].current.key
  BY DEF TransportMessage
<1>3. QED
  BY <1>1, <1>2 DEF Held

LEMMA FinishOrigin ==
    ASSUME Typing, OriginInv, NEW w \in Worker, FinishHandshake(w)
    PROVE  OriginInv'
<1>1. PICK S : S = ResponseOrKeepalive(w)
  OBVIOUS
<1>2. /\ wk[w].pc = "finish"
      /\ net' = net \cup S /\ wk' = [wk EXCEPT ![w] = IdleWorker]
      /\ hs' = hs /\ keypairs' = keypairs /\ inbound' = inbound /\ eph' = eph
      /\ derived' = derived
  BY <1>1 DEF FinishHandshake
<1>3. wk[w].peer \in Peer /\ wk[w].msg \in Initiation \cup Response
  BY <1>2 DEF Typing, WorkersOK
<1>4. ASSUME NEW m \in S
      PROVE  m.type # "initiation" /\ (m.type = "transport" /\ m.fromInitiator => Initiated(m.key))
  <2>1. CASE wk[w].msg.type = "initiation"
    <3>1. m \in Response
      <4>1. wk[w].msg \in Initiation
        BY <1>3, <2>1 DEF Initiation, Response
      <4>2. wk[w].out \in Response
        BY <1>2, <4>1 DEF Typing, WorkersOK
      <4>3. QED
        BY <1>1, <2>1, <4>2 DEF ResponseOrKeepalive
    <3>2. m.type = "response"
      BY <3>1 DEF Response
    <3>3. QED
      BY <3>2
  <2>2. CASE wk[w].msg.type # "initiation"
    <3>1. keypairs[wk[w].peer].current # Nil /\ m = TransportMessage(wk[w].peer)
      BY <1>1, <2>2 DEF ResponseOrKeepalive
    <3>2. m.type = "transport" /\ (m.fromInitiator => Initiated(m.key))
      BY <1>3, <3>1, TransportMessageOrigin
    <3>3. QED
      BY <3>2
  <2>3. QED
    BY <2>1, <2>2
<1>5. Grows /\ OneAddressee' /\ PacketsOrigin'
  BY <1>2, <1>4, PacketOrigin
<1>6. WorkersKept
  <2>1. PICK x : x = IdleWorker
    OBVIOUS
  <2>2. wk'[w] = IdleWorker /\ \A v \in Worker \ {w} : wk'[v] = wk[v]
    BY <1>2 DEF Typing, TypeOK
  <2>3. WorkerOrigin(x)'
    BY <2>1 DEF WorkerOrigin, IdleWorker
  <2>4. QED
    BY <2>1, <2>2, <2>3 DEF WorkersKept
<1>7. QED
  BY <1>2, <1>5, <1>6, UnchangedKept, OriginStep

LEMMA TransportOrigin ==
    ASSUME Typing, OriginInv, NEW p \in Peer, SendTransport(p) \/ ReceiveTransport(p)
    PROVE  OriginInv'
<1>1. CASE SendTransport(p)
  <2>1. PICK m, S : m = TransportMessage(p) /\ S = {m}
    OBVIOUS
  <2>2. /\ keypairs[p].current # Nil /\ net' = net \cup S
        /\ hs' = hs /\ keypairs' = keypairs /\ inbound' = inbound /\ eph' = eph
        /\ derived' = derived /\ wk' = wk
    BY <1>1, <2>1 DEF SendTransport
  <2>3. m.type = "transport" /\ (m.fromInitiator => Initiated(m.key))
    BY <2>1, <2>2, TransportMessageOrigin
  <2>4. /\ \A n \in S : n.type # "initiation"
        /\ \A n \in S : n.type = "transport" /\ n.fromInitiator => Initiated(n.key)
    BY <2>1, <2>3
  <2>5. Grows /\ OneAddressee' /\ PacketsOrigin'
    BY <2>2, <2>4, PacketOrigin
  <2>6. QED
    BY <2>2, <2>5, UnchangedKept, OriginStep
<1>2. CASE ReceiveTransport(p)
  <2> DEFINE entry(m) == table[DeviceOf[p]][m.receiver]
  <2>1. PICK m \in net : /\ m.type = "transport"
                         /\ entry(m).kind = "keypair"
                         /\ entry(m).keypair.key = m.key
                         /\ entry(m).keypair.isInitiator # m.fromInitiator
                         /\ inbound' = [inbound EXCEPT ![p] = entry(m).keypair]
    BY <1>2 DEF ReceiveTransport
  <2>2. PICK kp : kp = entry(m).keypair
    OBVIOUS
  <2>3. /\ hs' = hs /\ keypairs' = keypairs /\ net' = net /\ eph' = eph
        /\ derived' = derived /\ wk' = wk
    BY <1>2 DEF ReceiveTransport
  <2>4. m.receiver \in Index /\ m.fromInitiator \in BOOLEAN
    BY <2>1 DEF Typing, TypeOK, Message, Initiation, Response, Transport
  <2>5. kp.isInitiator \in BOOLEAN
    <3>1. entry(m) \in Entry
      BY <2>4, TableOf
    <3>2. kp \in Keypair
      BY SMTT(30), <2>1, <2>2, <3>1 DEF Entry, NoEntry
    <3>3. QED
      BY <3>2 DEF Keypair
  <2>6. ~kp.isInitiator => m.fromInitiator
    BY <2>1, <2>2, <2>4, <2>5
  <2>7. ~kp.isInitiator => Initiated(kp.key)
    BY <2>1, <2>2, <2>6 DEF OriginInv, PacketsOrigin
  <2>8. Grows /\ OneAddressee' /\ PacketsOrigin'
    BY <2>3, SameHistory
  <2>9. InboundOrigin(kp)'
    <3>1. InboundOrigin(kp)
      BY <2>7 DEF InboundOrigin
    <3>2. QED
      BY <2>8, <3>1, GrowsKeeps
  <2>10. InboundKept
    <3>1. inbound'[p] = kp /\ \A q \in Peer \ {p} : inbound'[q] = inbound[q]
      BY <2>1, <2>2 DEF Typing, TypeOK
    <3>2. QED
      BY <2>9, <3>1 DEF InboundKept
  <2>11. QED
    BY <2>3, <2>8, <2>10, UnchangedKept, OriginStep
<1>3. QED
  BY <1>1, <1>2

\* Where the assumption on links is needed: the initiator that derived the key of a
\* responder's keypair is the responder's counterpart.
LEMMA InitiatorIsCounterpart ==
    ASSUME OriginInv, NEW p \in Peer, NEW kp, kp # Nil, ~kp.isInitiator,
           Held(p, kp), Initiated(kp.key)
    PROVE  UseConfirmed(p, kp)
<1>1. PICK q \in Peer : DerivedBy(q, kp.key)
  BY DEF Initiated
<1>2. PICK n \in DOMAIN derived[q] : derived[q][n].isInitiator /\ derived[q][n].key = kp.key
  BY <1>1 DEF DerivedBy
<1>3. Sent(Counterpart[q], kp.key[1])
  BY <1>2 DEF OriginInv, PeerOrigin, DerivedOrigin, KeyOf
<1>4. Sent(p, kp.key[1])
  BY DEF Held, KeyOf
<1>5. p = Counterpart[q]
  BY <1>3, <1>4 DEF Sent, OriginInv, OneAddressee
<1>6. q = Counterpart[p]
  BY <1>5, CounterpartAssumption
<1>7. QED
  BY <1>1, <1>6 DEF UseConfirmed

LEMMA ReceivedOrigin ==
    ASSUME Typing, OriginInv, NEW p \in Peer, ReceivedWithKeypair(p)
    PROVE  OriginInv'
<1>1. /\ inbound[p] # Nil /\ inbound' = [inbound EXCEPT ![p] = Nil]
      /\ hs' = hs /\ net' = net /\ eph' = eph /\ derived' = derived /\ wk' = wk
  BY DEF ReceivedWithKeypair
<1>2. Grows /\ OneAddressee' /\ PacketsOrigin'
  BY <1>1, SameHistory
<1>3. SlotsKept
  <2>1. CASE keypairs[p].next = inbound[p]
    <3>1. PICK ks, r : ks = keypairs[p] /\ r = [previous |-> ks.current, current |-> ks.next,
                                                next |-> Nil]
      OBVIOUS
    <3>2. keypairs' = [keypairs EXCEPT ![p] = r]
      BY <2>1, <3>1 DEF ReceivedWithKeypair, Confirms
    <3>3. r.previous = ks.current /\ r.current = ks.next /\ r.next = Nil
      BY <3>1
    <3>4. SlotsHeld(p, ks) /\ InboundOrigin(ks.next) /\ ks.next # Nil /\ Held(p, Nil)
      BY <1>1, <2>1, <3>1 DEF OriginInv, PeerOrigin, Held
    <3>5. SlotsHeld(p, r)
      BY <3>3, <3>4 DEF SlotsHeld
    <3>6. UseConfirmed(p, r.current)
      <4>1. CASE r.current.isInitiator
        BY <4>1 DEF UseConfirmed
      <4>2. CASE ~r.current.isInitiator
        <5>1. Held(p, r.current) /\ Initiated(r.current.key) /\ r.current # Nil
          BY <3>3, <3>4, <3>5, <4>2 DEF SlotsHeld, InboundOrigin
        <5>2. QED
          BY <4>2, <5>1, InitiatorIsCounterpart
      <4>3. QED
        BY <4>1, <4>2
    <3>7. QED
      BY <1>2, <3>2, <3>5, <3>6, SlotsOrigin
  <2>2. CASE keypairs[p].next # inbound[p]
    BY <2>2, UnchangedKept DEF ReceivedWithKeypair, Confirms
  <2>3. QED
    BY <2>1, <2>2
<1>4. InboundKept
  <2>1. PICK kp : kp = Nil
    OBVIOUS
  <2>2. inbound'[p] = kp /\ \A q \in Peer \ {p} : inbound'[q] = inbound[q]
    BY <1>1, <2>1 DEF Typing, TypeOK
  <2>3. InboundOrigin(kp)'
    BY <2>1 DEF InboundOrigin
  <2>4. QED
    BY <2>2, <2>3 DEF InboundKept
<1>5. QED
  BY <1>1, <1>2, <1>3, <1>4, UnchangedKept, OriginStep

LEMMA ZeroOrigin ==
    ASSUME Typing, OriginInv, NEW p \in Peer, NEW c \in Caller,
           ZeroKeypairs(p, c) \/ ZeroHandshake(p, c)
    PROVE  OriginInv'
<1>1. CASE ZeroKeypairs(p, c)
  <2>1. PICK r : r = [previous |-> Nil, current |-> Nil, next |-> Nil]
    OBVIOUS
  <2>2. /\ keypairs' = [keypairs EXCEPT ![p] = r]
        /\ hs' = hs /\ inbound' = inbound /\ wk' = wk /\ net' = net /\ eph' = eph
        /\ derived' = derived
    BY <1>1, <2>1 DEF ZeroKeypairs
  <2>3. SlotsHeld(p, r) /\ UseConfirmed(p, r.current)
    BY <2>1 DEF SlotsHeld, Held, UseConfirmed
  <2>4. Grows /\ OneAddressee' /\ PacketsOrigin'
    BY <2>2, SameHistory
  <2>5. SlotsKept
    BY <2>2, <2>3, <2>4, SlotsOrigin
  <2>6. QED
    BY <2>2, <2>4, <2>5, UnchangedKept, OriginStep
<1>2. CASE ZeroHandshake(p, c)
  <2>1. /\ hs' = [hs EXCEPT ![p] = Clear(@)]
        /\ keypairs' = keypairs /\ inbound' = inbound /\ wk' = wk /\ net' = net /\ eph' = eph
        /\ derived' = derived
    BY <1>2 DEF ZeroHandshake
  <2>2. PICK h : h = hs'[p]
    OBVIOUS
  <2>3. h.state = "Zeroed" /\ \A q \in Peer \ {p} : hs'[q] = hs[q]
    BY <2>1, <2>2, ClearFacts DEF Typing, TypeOK
  <2>4. HandshakeOrigin(p, h)'
    BY <2>3 DEF HandshakeOrigin
  <2>5. HandshakesKept
    BY <2>2, <2>3, <2>4 DEF HandshakesKept
  <2>6. QED
    BY <2>1, <2>5, SameHistory, UnchangedKept, OriginStep
<1>3. QED
  BY <1>1, <1>2

-----------------------------------------------------------------------------
(* The theorem *)

LEMMA InitOrigin == Init => OriginInv
<1> SUFFICES ASSUME Init PROVE OriginInv
  OBVIOUS
<1>1. OneAddressee /\ PacketsOrigin
  BY DEF Init, OneAddressee, PacketsOrigin
<1>2. ASSUME NEW p \in Peer PROVE PeerOrigin(p)
  <2>1. /\ hs[p].state = "Zeroed" /\ inbound[p] = Nil /\ DOMAIN derived[p] = {}
        /\ keypairs[p].previous = Nil /\ keypairs[p].current = Nil /\ keypairs[p].next = Nil
    BY SMT DEF Init
  <2>2. HandshakeOrigin(p, hs[p]) /\ InboundOrigin(inbound[p])
    BY <2>1 DEF HandshakeOrigin, InboundOrigin
  <2>3. SlotsHeld(p, keypairs[p]) /\ UseConfirmed(p, keypairs[p].current)
    BY <2>1 DEF SlotsHeld, Held, UseConfirmed
  <2>4. DerivedOrigin(p)
    BY <2>1 DEF DerivedOrigin
  <2>5. QED
    BY <2>2, <2>3, <2>4 DEF PeerOrigin
<1>3. ASSUME NEW w \in Worker PROVE WorkerOrigin(wk[w])
  BY DEF Init, WorkerOrigin, IdleWorker
<1>4. QED
  BY <1>1, <1>2, <1>3 DEF OriginInv

LEMMA NextOrigin == Typing /\ OriginInv /\ [Next]_vars => OriginInv'
<1> SUFFICES ASSUME Typing, OriginInv, [Next]_vars PROVE OriginInv'
  OBVIOUS
<1>1. ASSUME NEW p \in Peer, Stop(p) \/ Start(p) PROVE OriginInv'
  <2>1. /\ hs' = hs /\ keypairs' = keypairs /\ inbound' = inbound /\ wk' = wk /\ net' = net
        /\ eph' = eph /\ derived' = derived
    BY <1>1 DEF Stop, Start
  <2>2. QED
    BY <2>1, SameHistory, UnchangedKept, OriginStep
<1>2. CASE UNCHANGED vars
  <2>1. /\ hs' = hs /\ keypairs' = keypairs /\ inbound' = inbound /\ wk' = wk /\ net' = net
        /\ eph' = eph /\ derived' = derived
    BY <1>2 DEF vars
  <2>2. QED
    BY <2>1, SameHistory, UnchangedKept, OriginStep
<1>3. QED
  BY <1>1, <1>2, InitiationOrigin, ConsumeInitiationOrigin, CreateResponseOrigin,
     ConsumeResponseOrigin, BeginOrigin, RotateOrigin, FinishOrigin, TransportOrigin,
     ReceivedOrigin, ZeroOrigin
  DEF Next

\* Key confirmation for any number of devices, peers, workers and indices, whatever
\* the network loses, repeats or reorders: ReceivedWithKeypair lets a responder send
\* under a keypair only after the initiator at the other end has derived it.
THEOREM ConfirmedBeforeUseHolds == Spec => []ConfirmedBeforeUse
<1>1. OriginInv => ConfirmedBeforeUse
  BY DEF OriginInv, PeerOrigin, UseConfirmed, DerivedBy, ConfirmedBeforeUse
<1>2. QED
  BY <1>1, InitTyping, NextTyping, InitOrigin, NextOrigin, PTL DEF Spec

-----------------------------------------------------------------------------
(* One handshake worker per device *)

\* As on a host with one CPU, where RoutineHandshake runs once.
OneWorker == \A v, w \in Worker : HostOf[v] = HostOf[w] => v = w

\* Peer q has derived the key k as the responder, under index i.
Matched(q, k, i) ==
    \E n \in DOMAIN derived[q] : /\ ~derived[q][n].isInitiator
                                 /\ derived[q][n].key = k
                                 /\ derived[q][n].localIndex = i

\* What response m promises: peer q, which built it, has the key under m's index.
Answers(q, m) == Matched(q, <<m.ie, m.re>>, m.sender)

\* Worker w has built a response to an initiation.
Responding(x) == x.pc \in {"derive", "rotate", "finish"} /\ x.msg.type = "initiation"

\* What holds of the state x of worker w when h is the handshake of its peer: nobody
\* has touched the handshake since the worker's last section, or has put it out of use.
AtWork(w, x, h) ==
    /\ x.pc # "idle" => DeviceOf[x.peer] = HostOf[w]
    /\ x.pc = "checkedInit" => x.msg.eph > h.lastTimestamp
    /\ x.pc = "checkedResp" => Answers(Counterpart[x.peer], x.msg)
    /\ Responding(x) => x.out.dst = Counterpart[x.peer] /\ Sent(x.peer, x.out.ie)
    /\ Responding(x) /\ x.pc = "derive" =>
         /\ h.state # "ResponseConsumed"
         /\ h.state = "ResponseCreated" =>
              h.chain = <<x.out.ie, x.out.re>> /\ h.localIndex = x.out.sender
    /\ Responding(x) /\ x.pc # "derive" => Answers(x.peer, x.out)

\* A handshake that is about to become an initiator's keypair has its match.
HandshakeMatched(p, h) ==
    /\ h.state = "ResponseConsumed" => Matched(Counterpart[p], h.chain, h.remoteIndex)
    /\ h.state = "InitiationConsumed" => \E e : h.chain = <<e>>

ResponsesMatched ==
    \A m \in net : m.type = "response" =>
      Answers(Counterpart[m.dst], m) /\ Sent(Counterpart[m.dst], m.ie)

\* The inductive invariant, beside Typing and OriginInv.
SoleInv ==
    /\ \A w \in Worker : AtWork(w, wk[w], hs[wk[w].peer])
    /\ \A p \in Peer : HandshakeMatched(p, hs[p])
    /\ ResponsesMatched
    /\ InitiatorKeyShared

LEMMA GrowsMatched ==
    ASSUME Grows
    PROVE  /\ \A q \in Peer : \A k, i : Matched(q, k, i) => Matched(q, k, i)'
           /\ \A q \in Peer : \A m : Answers(q, m) => Answers(q, m)'
           /\ \A p \in Peer : \A h : HandshakeMatched(p, h) => HandshakeMatched(p, h)'
<1>1. \A q \in Peer : \A k, i : Matched(q, k, i) => Matched(q, k, i)'
  BY DEF Grows, Matched
<1>2. \A q \in Peer : \A m : Answers(q, m) => Answers(q, m)'
  BY <1>1 DEF Answers
<1>3. \A p \in Peer : \A h : HandshakeMatched(p, h) => HandshakeMatched(p, h)'
  BY <1>1, NoiseAssumption DEF HandshakeMatched
<1>4. QED
  BY <1>1, <1>2, <1>3

\* A handshake that others may put out of use under a worker's hands: an initiation of
\* its own or Clear.
OutOfUse(h, g) ==
    /\ g.lastTimestamp = h.lastTimestamp
    /\ g.state # "ResponseConsumed" /\ g.state # "ResponseCreated"

LEMMA AtWorkKept ==
    ASSUME Grows, NEW w \in Worker, NEW x, x.pc # "idle" => x.peer \in Peer,
           NEW h, NEW g, g = h \/ OutOfUse(h, g), AtWork(w, x, h)
    PROVE  AtWork(w, x, g)'
<1>1. CASE x.pc = "idle"
  BY <1>1 DEF AtWork, Responding
<1>2. CASE x.pc # "idle"
  <2>1. x.peer \in Peer /\ Counterpart[x.peer] \in Peer
    BY <1>2, NoiseAssumption
  <2>2. x.pc = "checkedInit" => x.msg.eph > g.lastTimestamp
    BY DEF AtWork, OutOfUse
  <2>3. x.pc = "checkedResp" => Answers(Counterpart[x.peer], x.msg)'
    BY <2>1, GrowsMatched DEF AtWork
  <2>4. Responding(x) => x.out.dst = Counterpart[x.peer] /\ Sent(x.peer, x.out.ie)'
    BY GrowsKeeps DEF AtWork
  <2>5. Responding(x) /\ x.pc = "derive" =>
          /\ g.state # "ResponseConsumed"
          /\ g.state = "ResponseCreated" =>
               g.chain = <<x.out.ie, x.out.re>> /\ g.localIndex = x.out.sender
    BY DEF AtWork, OutOfUse
  <2>6. Responding(x) /\ x.pc # "derive" => Answers(x.peer, x.out)'
    BY <2>1, GrowsMatched DEF AtWork
  <2>7. x.pc # "idle" => DeviceOf[x.peer] = HostOf[w]
    BY DEF AtWork
  <2>8. QED
    BY <2>2, <2>3, <2>4, <2>5, <2>6, <2>7 DEF AtWork
<1>3. QED
  BY <1>1, <1>2

\* Every handshake and every worker is as it was, or accounted for.
HandshakesMatch == \A p \in Peer : hs'[p] = hs[p] \/ HandshakeMatched(p, hs[p])'
WorkersMatch ==
    \A v \in Worker : \/ AtWork(v, wk[v], hs[wk[v].peer])'
                      \/ /\ wk'[v] = wk[v]
                         /\ wk[v].pc = "idle" \/ hs'[wk[v].peer] = hs[wk[v].peer]
                              \/ OutOfUse(hs[wk[v].peer], hs'[wk[v].peer])

LEMMA SoleStep ==
    ASSUME Typing, SoleInv, Grows, ResponsesMatched', InitiatorKeyShared',
           HandshakesMatch, WorkersMatch
    PROVE  SoleInv'
<1>1. ASSUME NEW p \in Peer PROVE HandshakeMatched(p, hs[p])'
  BY GrowsMatched DEF SoleInv, HandshakesMatch
<1>2. ASSUME NEW w \in Worker PROVE AtWork(w, wk[w], hs[wk[w].peer])'
  <2>1. CASE AtWork(w, wk[w], hs[wk[w].peer])'
    BY <2>1
  <2>2. ASSUME wk'[w] = wk[w],
               wk[w].pc = "idle" \/ hs'[wk[w].peer] = hs[wk[w].peer]
                 \/ OutOfUse(hs[wk[w].peer], hs'[wk[w].peer])
        PROVE  AtWork(w, wk[w], hs[wk[w].peer])'
    <3>1. PICK x, h, g : x = wk[w] /\ h = hs[x.peer] /\ g = hs'[x.peer]
      OBVIOUS
    <3>2. AtWork(w, x, h) /\ (x.pc # "idle" => x.peer \in Peer)
      BY <3>1 DEF SoleInv, Typing, WorkersOK
    <3>3. AtWork(w, x, g)'
      <4>1. CASE x.pc = "idle"
        BY <4>1 DEF AtWork, Responding
      <4>2. CASE g = h \/ OutOfUse(h, g)
        BY <3>2, <4>2, AtWorkKept
      <4>3. QED
        BY <2>2, <3>1, <4>1, <4>2
    <3>4. x = wk'[w] /\ g = hs'[wk'[w].peer]
      BY <2>2, <3>1
    <3>5. QED
      BY <3>3, <3>4
  <2>3. QED
    BY <2>1, <2>2 DEF WorkersMatch
<1>3. QED
  BY <1>1, <1>2 DEF SoleInv

\* Nothing new is derived or answered.
LEMMA SameMatches ==
    ASSUME SoleInv, Grows, derived' = derived,
           \A m \in net' : m \in net \/ m.type # "response",
           \A m \in net : m.type = "response" => Counterpart[m.dst] \in Peer
    PROVE  ResponsesMatched' /\ InitiatorKeyShared'
<1>1. InitiatorKeyShared'
  BY DEF SoleInv, InitiatorKeyShared
<1>2. ResponsesMatched'
  BY GrowsMatched, GrowsKeeps DEF SoleInv, ResponsesMatched
<1>3. QED
  BY <1>1, <1>2

LEMMA ResponseType ==
    ASSUME Typing, NEW m \in net, m.type = "response"
    PROVE  m \in Response /\ m.dst \in Peer /\ Counterpart[m.dst] \in Peer
<1>1. m \in Response
  BY DEF Typing, TypeOK, Message, Initiation, Response, Transport
<1>2. m.dst \in Peer
  BY <1>1 DEF Response
<1>3. QED
  BY <1>1, <1>2, NoiseAssumption

LEMMA InitiationSole ==
    ASSUME Typing, SoleInv, NEW p \in Peer, SendHandshakeInitiation(p)
    PROVE  SoleInv'
<1>1. PICK e, i, c : /\ c = <<e>>
                     /\ hs' = [hs EXCEPT ![p] = [@ EXCEPT !.state = "InitiationCreated",
                                                          !.chain = c, !.localIndex = i]]
                     /\ net' = net \cup {[type |-> "initiation", dst |-> Counterpart[p],
                                          sender |-> i, eph |-> e]}
                     /\ wk' = wk /\ derived' = derived
  BY DEF SendHandshakeInitiation
<1>2. PICK m : /\ m = [type |-> "initiation", dst |-> Counterpart[p], sender |-> i, eph |-> e]
               /\ m.type # "response" /\ net' = net \cup {m}
  BY <1>1
<1>3. Grows
  BY <1>1, <1>2 DEF Grows
<1>4. ResponsesMatched' /\ InitiatorKeyShared'
  BY <1>1, <1>2, <1>3, ResponseType, SameMatches
<1>5. PICK g : g = hs'[p]
  OBVIOUS
<1>6. g.state = "InitiationCreated" /\ g.lastTimestamp = hs[p].lastTimestamp
  BY <1>1, <1>5 DEF Typing, TypeOK, Handshake
<1>7. OutOfUse(hs[p], g) /\ HandshakeMatched(p, g)' /\ \A q \in Peer \ {p} : hs'[q] = hs[q]
  BY <1>1, <1>6 DEF OutOfUse, HandshakeMatched, Typing, TypeOK
<1>8. HandshakesMatch /\ WorkersMatch
  BY <1>1, <1>5, <1>7 DEF HandshakesMatch, WorkersMatch, Typing, WorkersOK
<1>9. QED
  BY <1>3, <1>4, <1>8, SoleStep

LEMMA ZeroHandshakeSole ==
    ASSUME Typing, SoleInv, NEW p \in Peer, NEW c \in Caller, ZeroHandshake(p, c)
    PROVE  SoleInv'
<1>1. /\ hs' = [hs EXCEPT ![p] = Clear(@)]
      /\ wk' = wk /\ net' = net /\ derived' = derived
  BY DEF ZeroHandshake
<1>2. Grows /\ ResponsesMatched' /\ InitiatorKeyShared'
  <2>1. Grows
    BY <1>1 DEF Grows
  <2>2. QED
    BY <1>1, <2>1, ResponseType, SameMatches
<1>3. PICK g : g = hs'[p]
  OBVIOUS
<1>4. g.state = "Zeroed" /\ g.lastTimestamp = hs[p].lastTimestamp
  BY <1>1, <1>3, ClearFacts DEF Typing, TypeOK
<1>5. OutOfUse(hs[p], g) /\ HandshakeMatched(p, g)' /\ \A q \in Peer \ {p} : hs'[q] = hs[q]
  BY <1>1, <1>4 DEF OutOfUse, HandshakeMatched, Typing, TypeOK
<1>6. HandshakesMatch /\ WorkersMatch
  BY <1>1, <1>3, <1>5 DEF HandshakesMatch, WorkersMatch, Typing, WorkersOK
<1>7. QED
  BY <1>2, <1>6, SoleStep

\* A step outside the handshakes that sends no response.
LEMMA QuietSole ==
    ASSUME Typing, SoleInv, hs' = hs, wk' = wk, derived' = derived,
           net \subseteq net', \A m \in net' : m \in net \/ m.type # "response"
    PROVE  SoleInv'
<1>1. Grows
  BY DEF Grows
<1>2. ResponsesMatched' /\ InitiatorKeyShared'
  BY <1>1, ResponseType, SameMatches
<1>3. HandshakesMatch /\ WorkersMatch
  BY DEF HandshakesMatch, WorkersMatch
<1>4. QED
  BY <1>1, <1>2, <1>3, SoleStep

\* Two workers that are at work are so on different peers.
LEMMA Alone ==
    ASSUME OneWorker, SoleInv, NEW v \in Worker, NEW w \in Worker, v # w,
           wk[v].pc # "idle", wk[w].pc # "idle"
    PROVE  wk[v].peer # wk[w].peer
<1>1. DeviceOf[wk[v].peer] = HostOf[v] /\ DeviceOf[wk[w].peer] = HostOf[w]
  BY DEF SoleInv, AtWork
<1>2. QED
  BY <1>1 DEF OneWorker

\* A step of worker w, which may write the handshake of its peer.
LEMMA WorkerSole ==
    ASSUME OneWorker, Typing, SoleInv, Grows, ResponsesMatched', InitiatorKeyShared',
           NEW w \in Worker, wk[w].pc # "idle", NEW p, p = wk[w].peer,
           NEW x, wk' = [wk EXCEPT ![w] = x], x.pc = "idle" \/ x.peer = p,
           NEW h, hs' = [hs EXCEPT ![p] = h],
           AtWork(w, x, h)', HandshakeMatched(p, h)'
    PROVE  SoleInv'
<1>1. wk'[w] = x /\ \A v \in Worker \ {w} : wk'[v] = wk[v]
  BY DEF Typing, TypeOK
<1>2. p \in Peer
  BY DEF Typing, WorkersOK
<1>3. hs'[p] = h /\ \A q \in Peer \ {p} : hs'[q] = hs[q]
  BY <1>2 DEF Typing, TypeOK
<1>4. HandshakesMatch
  BY <1>3 DEF HandshakesMatch
<1>5. AtWork(w, wk[w], hs[wk[w].peer])'
  <2>1. CASE x.pc = "idle"
    BY <1>1, <2>1 DEF AtWork, Responding
  <2>2. CASE x.peer = p
    <3>1. x = wk'[w] /\ h = hs'[wk'[w].peer]
      BY <1>1, <1>3, <2>2
    <3>2. QED
      BY <3>1
  <2>3. QED
    BY <2>1, <2>2
<1>6. ASSUME NEW v \in Worker, v # w, wk[v].pc # "idle"
      PROVE  hs'[wk[v].peer] = hs[wk[v].peer]
  BY <1>3, <1>6, Alone DEF Typing, WorkersOK
<1>7. WorkersMatch
  BY <1>1, <1>5, <1>6 DEF WorkersMatch
<1>8. QED
  BY <1>4, <1>7, SoleStep

\* A step of worker w alone.
LEMMA WorkerOnlySole ==
    ASSUME Typing, SoleInv, Grows, ResponsesMatched', InitiatorKeyShared', hs' = hs,
           NEW w \in Worker, NEW x, wk' = [wk EXCEPT ![w] = x],
           NEW h, h = hs[x.peer], AtWork(w, x, h)'
    PROVE  SoleInv'
<1>1. wk'[w] = x /\ \A v \in Worker \ {w} : wk'[v] = wk[v]
  BY DEF Typing, TypeOK
<1>2. AtWork(w, wk[w], hs[wk[w].peer])'
  BY <1>1
<1>3. HandshakesMatch /\ WorkersMatch
  BY <1>1, <1>2 DEF HandshakesMatch, WorkersMatch
<1>4. QED
  BY <1>3, SoleStep

LEMMA IdleSole ==
    ASSUME Typing, SoleInv, hs' = hs, net' = net, derived' = derived,
           NEW w \in Worker, wk' = [wk EXCEPT ![w] = IdleWorker]
    PROVE  SoleInv'
<1>1. Grows
  BY DEF Grows
<1>2. ResponsesMatched' /\ InitiatorKeyShared'
  BY <1>1, ResponseType, SameMatches
<1>3. PICK x, h : x = IdleWorker /\ h = hs[x.peer]
  OBVIOUS
<1>4. AtWork(w, x, h)'
  BY <1>3 DEF AtWork, Responding, IdleWorker
<1>5. QED
  BY <1>1, <1>2, <1>3, <1>4, WorkerOnlySole

LEMMA ConsumeInitiationSole ==
    ASSUME OneWorker, Typing, SoleInv, NEW w \in Worker,
           ConsumeInitiationCheck(w) \/ ConsumeInitiationWrite(w)
    PROVE  SoleInv'
<1>0. wk[w] \in WorkerState
  BY DEF Typing, TypeOK
<1>1. net' = net /\ derived' = derived
  BY DEF ConsumeInitiationCheck, ConsumeInitiationWrite
<1>2. Grows
  BY <1>1 DEF Grows
<1>3. ResponsesMatched' /\ InitiatorKeyShared'
  BY <1>1, <1>2, ResponseType, SameMatches
<1>4. CASE ConsumeInitiationCheck(w)
  <2>1. PICK m \in net :
           /\ DeviceOf[m.dst] = HostOf[w]
           /\ Newer(m, hs[m.dst])
           /\ wk' = [wk EXCEPT ![w] = [@ EXCEPT !.pc = "checkedInit", !.peer = m.dst, !.msg = m]]
    BY <1>4 DEF ConsumeInitiationCheck
  <2>a. PICK x : /\ x = [wk[w] EXCEPT !.pc = "checkedInit", !.peer = m.dst, !.msg = m]
                 /\ wk' = [wk EXCEPT ![w] = x]
    BY <2>1
  <2>2. x.pc = "checkedInit" /\ x.peer = m.dst /\ x.msg = m
    BY <1>0, <2>a DEF WorkerState
  <2>3. PICK h : h = hs[x.peer]
    OBVIOUS
  <2>4. AtWork(w, x, h)'
    BY <2>1, <2>2, <2>3 DEF AtWork, Responding, Newer
  <2>5. hs' = hs
    BY <1>4 DEF ConsumeInitiationCheck
  <2>6. QED
    BY <1>2, <1>3, <2>3, <2>4, <2>5, <2>a, WorkerOnlySole
<1>5. CASE ConsumeInitiationWrite(w)
  <2>1. PICK p, e, c, h, x :
           /\ p = wk[w].peer /\ e = wk[w].msg.eph /\ c = <<e>>
           /\ h = [hs[p] EXCEPT !.state = "InitiationConsumed", !.chain = c,
                                !.remoteIndex = wk[w].msg.sender,
                                !.lastTimestamp = Latest(wk[w].msg, hs[p])]
           /\ x = [wk[w] EXCEPT !.pc = "respond"]
    OBVIOUS
  <2>2. /\ hs' = [hs EXCEPT ![p] = h] /\ wk' = [wk EXCEPT ![w] = x]
        /\ wk[w].pc = "checkedInit"
    BY <1>5, <2>1 DEF ConsumeInitiationWrite
  <2>3. p \in Peer /\ hs[p] \in Handshake /\ DeviceOf[p] = HostOf[w]
    BY <2>1, <2>2 DEF Typing, TypeOK, WorkersOK, SoleInv, AtWork
  <2>4. h.state = "InitiationConsumed" /\ h.chain = c
    BY <2>1, <2>3 DEF Handshake
  <2>5. x.pc = "respond" /\ x.peer = p
    BY <1>0, <2>1 DEF WorkerState
  <2>6. AtWork(w, x, h)'
    BY <2>3, <2>5 DEF AtWork, Responding
  <2>7. HandshakeMatched(p, h)'
    BY <2>1, <2>4 DEF HandshakeMatched
  <2>8. QED
    BY <1>2, <1>3, <2>1, <2>2, <2>5, <2>6, <2>7, WorkerSole
<1>6. QED
  BY <1>4, <1>5

LEMMA OneAppended == \A e, r : <<e>> \in Seq(Nat) /\ r \in Nat => Append(<<e>>, r) = <<e, r>>
<1>1. \A e : <<e>> \in Seq(Nat) => e \in Nat
  <2>1. ASSUME NEW e, NEW s \in Seq(Nat), s = <<e>> PROVE s[1] \in Nat
    BY SMTT(30), <2>1
  <2>2. \A e : <<e>>[1] = e
    OBVIOUS
  <2>3. QED
    BY <2>1, <2>2
<1>2. \A e, r \in Nat : Append(<<e>>, r) = <<e, r>>
  <2> TAKE e, r \in Nat
  <2>1. PICK s, t, a : s = <<e>> /\ t = <<e, r>> /\ a = Append(s, r)
    OBVIOUS
  <2>2. s \in Seq(Nat) /\ Len(s) = 1 /\ s[1] = e
    BY SMTT(30), <2>1
  <2>3. t \in Seq(Nat) /\ Len(t) = 2 /\ t[1] = e /\ t[2] = r
    BY SMTT(30), <2>1
  <2>4. a \in Seq(Nat) /\ Len(a) = 2 /\ a[1] = e /\ a[2] = r
    BY SMTT(30), <2>1, <2>2
  <2>5. a = t
    BY SMTT(30), <2>3, <2>4
  <2>6. QED
    BY <2>1, <2>5
<1>3. QED
  BY <1>1, <1>2

LEMMA CreateResponseSole ==
    ASSUME OneWorker, Typing, OriginInv, SoleInv, NEW w \in Worker, CreateMessageResponse(w)
    PROVE  SoleInv'
<1>0. wk[w] \in WorkerState
  BY DEF Typing, TypeOK
<1>1. net' = net /\ derived' = derived
  BY DEF CreateMessageResponse
<1>2. Grows
  BY <1>1 DEF Grows
<1>3. ResponsesMatched' /\ InitiatorKeyShared'
  BY <1>1, <1>2, ResponseType, SameMatches
<1>4. PICK p, r, c : p = wk[w].peer /\ r = eph + 1 /\ c = Append(hs[p].chain, r)
  OBVIOUS
<1>a. PICK i :
         /\ hs' = [hs EXCEPT ![p] = [@ EXCEPT !.state = "ResponseCreated", !.chain = c,
                                              !.localIndex = i]]
         /\ wk' = [wk EXCEPT ![w] = [@ EXCEPT !.pc = "derive", !.out =
                      [type |-> "response", dst |-> Counterpart[p], sender |-> i,
                       receiver |-> hs[p].remoteIndex, ie |-> hs[p].chain[1], re |-> r]]]
  BY <1>4 DEF CreateMessageResponse
<1>5. PICK h, y, x :
         /\ h = [hs[p] EXCEPT !.state = "ResponseCreated", !.chain = c, !.localIndex = i]
         /\ y = [type |-> "response", dst |-> Counterpart[p], sender |-> i,
                 receiver |-> hs[p].remoteIndex, ie |-> hs[p].chain[1], re |-> r]
         /\ x = [wk[w] EXCEPT !.pc = "derive", !.out = y]
         /\ hs' = [hs EXCEPT ![p] = h] /\ wk' = [wk EXCEPT ![w] = x]
  BY <1>a
<1>6. wk[w].pc = "respond" /\ hs[p].state = "InitiationConsumed"
  BY <1>4 DEF CreateMessageResponse
<1>7. p \in Peer /\ hs[p] \in Handshake /\ DeviceOf[p] = HostOf[w]
  BY <1>4, <1>6 DEF Typing, TypeOK, WorkersOK, SoleInv, AtWork
<1>8. PICK e : hs[p].chain = <<e>>
  BY <1>6, <1>7 DEF SoleInv, HandshakeMatched
<1>9. c = <<e, r>> /\ hs[p].chain[1] = e
  <2>1. hs[p].chain \in Seq(Nat) /\ r \in Nat
    BY SMTT(30), <1>4, <1>7 DEF Typing, TypeOK, Handshake
  <2>2. <<e>>[1] = e
    OBVIOUS
  <2>3. QED
    BY <1>4, <1>8, <2>1, <2>2, OneAppended
<1>10. Sent(p, e)
  BY <1>6, <1>7, <1>9 DEF OriginInv, PeerOrigin, HandshakeOrigin, KeyOf
<1>11. Sent(p, e)'
  BY <1>2, <1>10, GrowsKeeps
<1>12. h.state = "ResponseCreated" /\ h.chain = c /\ h.localIndex = i
  BY <1>5, <1>7 DEF Handshake
<1>13. x.pc = "derive" /\ x.peer = p /\ x.out = y
  BY <1>0, <1>4, <1>5 DEF WorkerState
<1>14. y.dst = Counterpart[p] /\ y.sender = i /\ y.ie = e /\ y.re = r
  BY <1>5, <1>9
<1>15. AtWork(w, x, h)'
  BY <1>7, <1>9, <1>11, <1>12, <1>13, <1>14 DEF AtWork, Responding
<1>16. HandshakeMatched(p, h)'
  BY <1>12 DEF HandshakeMatched
<1>17. QED
  BY <1>2, <1>3, <1>4, <1>5, <1>6, <1>13, <1>15, <1>16, WorkerSole

LEMMA ConsumeResponseSole ==
    ASSUME OneWorker, Typing, OriginInv, SoleInv, NEW w \in Worker,
           ConsumeResponseCheck(w) \/ ConsumeResponseWrite(w)
    PROVE  SoleInv'
<1>0. wk[w] \in WorkerState
  BY DEF Typing, TypeOK
<1>1. net' = net /\ derived' = derived
  BY DEF ConsumeResponseCheck, ConsumeResponseWrite
<1>2. Grows
  BY <1>1 DEF Grows
<1>3. ResponsesMatched' /\ InitiatorKeyShared'
  BY <1>1, <1>2, ResponseType, SameMatches
<1>4. CASE ConsumeResponseCheck(w)
  <2> DEFINE entry(m) == table[HostOf[w]][m.receiver]
  <2>1. PICK m \in net :
           /\ m.type = "response"
           /\ DeviceOf[m.dst] = HostOf[w]
           /\ entry(m).kind = "handshake"
           /\ hs[entry(m).peer].state = "InitiationCreated"
           /\ hs[entry(m).peer].chain = <<m.ie>>
           /\ wk' = [wk EXCEPT ![w] = [@ EXCEPT !.pc = "checkedResp", !.peer = entry(m).peer,
                                               !.msg = m]]
    BY <1>4 DEF ConsumeResponseCheck
  <2>2. PICK p, x : /\ p = entry(m).peer
                    /\ x = [wk[w] EXCEPT !.pc = "checkedResp", !.peer = p, !.msg = m]
                    /\ wk' = [wk EXCEPT ![w] = x]
    BY <2>1
  <2>3. p \in Peer
    <3>1. m.receiver \in Index
      BY <2>1 DEF Typing, TypeOK, Message, Initiation, Response, Transport
    <3>2. entry(m) \in Entry
      BY ZenonT(30), <3>1, NoiseAssumption DEF Typing, TypeOK
    <3>3. entry(m).kind = "handshake"
      BY <2>1
    <3> HIDE DEF entry
    <3>4. QED
      BY SMTT(30), <2>2, <3>2, <3>3 DEF Entry, NoEntry
  <2>4. p = m.dst
    <3>1. hs[p].state = "InitiationCreated" /\ hs[p].chain = <<m.ie>> /\ <<m.ie>>[1] = m.ie
      BY <2>1, <2>2
    <3>2. Sent(Counterpart[p], m.ie)
      BY <2>3, <3>1 DEF OriginInv, PeerOrigin, HandshakeOrigin, KeyOf
    <3>3. Sent(Counterpart[m.dst], m.ie)
      BY <2>1 DEF SoleInv, ResponsesMatched
    <3>4. Counterpart[p] = Counterpart[m.dst]
      BY <3>2, <3>3 DEF Sent, OriginInv, OneAddressee
    <3>5. m.dst \in Peer
      BY <2>1, ResponseType
    <3>6. QED
      BY <2>3, <3>4, <3>5, CounterpartAssumption
  <2>5. Answers(Counterpart[p], m) /\ Counterpart[p] \in Peer
    BY <2>1, <2>3, <2>4, NoiseAssumption DEF SoleInv, ResponsesMatched
  <2>6. Answers(Counterpart[p], m)'
    BY <1>2, <2>5, GrowsMatched
  <2>7. x.pc = "checkedResp" /\ x.peer = p /\ x.msg = m
    BY <1>0, <2>2 DEF WorkerState
  <2>8. PICK h : h = hs[x.peer]
    OBVIOUS
  <2>9. AtWork(w, x, h)'
    BY <2>1, <2>4, <2>6, <2>7 DEF AtWork, Responding
  <2>10. hs' = hs
    BY <1>4 DEF ConsumeResponseCheck
  <2>11. QED
    BY <1>2, <1>3, <2>2, <2>8, <2>9, <2>10, WorkerOnlySole
<1>5. CASE ConsumeResponseWrite(w)
  <2>1. PICK p, m, c, h, x :
           /\ p = wk[w].peer /\ m = wk[w].msg /\ c = <<m.ie, m.re>>
           /\ h = [hs[p] EXCEPT !.state = "ResponseConsumed", !.chain = c,
                                !.remoteIndex = m.sender]
           /\ x = [wk[w] EXCEPT !.pc = "derive"]
    OBVIOUS
  <2>2. /\ hs' = [hs EXCEPT ![p] = h] /\ wk' = [wk EXCEPT ![w] = x]
        /\ wk[w].pc = "checkedResp"
    BY <1>5, <2>1 DEF ConsumeResponseWrite
  <2>3. /\ p \in Peer /\ hs[p] \in Handshake /\ DeviceOf[p] = HostOf[w]
        /\ m \in Response /\ Answers(Counterpart[p], m) /\ Counterpart[p] \in Peer
    BY <2>1, <2>2, NoiseAssumption DEF Typing, TypeOK, WorkersOK, SoleInv, AtWork
  <2>4. h.state = "ResponseConsumed" /\ h.chain = c /\ h.remoteIndex = m.sender
    BY <2>1, <2>3 DEF Handshake
  <2>5. x.pc = "derive" /\ x.peer = p /\ x.msg = m /\ m.type = "response"
    BY <1>0, <2>1, <2>3 DEF WorkerState, Response
  <2>6. AtWork(w, x, h)'
    BY <2>3, <2>5 DEF AtWork, Responding
  <2>7. Matched(Counterpart[p], c, m.sender)'
    BY <1>2, <2>1, <2>3, GrowsMatched DEF Answers
  <2>8. HandshakeMatched(p, h)'
    BY <2>4, <2>7 DEF HandshakeMatched
  <2>9. QED
    BY <1>2, <1>3, <2>1, <2>2, <2>5, <2>6, <2>8, WorkerSole
<1>6. QED
  BY <1>4, <1>5

LEMMA BeginSole ==
    ASSUME OneWorker, Typing, SoleInv, NEW w \in Worker, BeginSymmetricSession(w)
    PROVE  SoleInv'
<1>0. wk[w] \in WorkerState
  BY DEF Typing, TypeOK
<1>1. PICK p, kp, x, h, s : /\ p = wk[w].peer /\ kp = NewKeypair(w) /\ h = Clear(hs[p])
                            /\ x = [wk[w] EXCEPT !.pc = "rotate", !.kp = kp]
                            /\ s = derived[p]
  OBVIOUS
<1>2. /\ hs' = [hs EXCEPT ![p] = h]
      /\ derived' = [derived EXCEPT ![p] = Append(@, kp)]
      /\ wk' = [wk EXCEPT ![w] = x] /\ net' = net
      /\ wk[w].pc = "derive"
      /\ hs[p].state \in {"ResponseConsumed", "ResponseCreated"}
  BY <1>1 DEF BeginSymmetricSession
<1>3. /\ p \in Peer /\ hs[p] \in Handshake /\ s \in Seq(Keypair) /\ DeviceOf[p] = HostOf[w]
      /\ Counterpart[p] \in Peer
  BY <1>1, <1>2, NoiseAssumption DEF Typing, TypeOK, WorkersOK, SoleInv, AtWork
<1>4. /\ kp.key = hs[p].chain /\ kp.isInitiator = (hs[p].state = "ResponseConsumed")
      /\ kp.localIndex = hs[p].localIndex /\ kp.remoteIndex = hs[p].remoteIndex
  BY <1>1 DEF NewKeypair
<1>5. PICK n : n = Len(s) + 1
  OBVIOUS
<1>6. /\ DOMAIN derived'[p] = DOMAIN s \cup {n} /\ n \notin DOMAIN s
      /\ derived'[p][n] = kp /\ \A k \in DOMAIN s : derived'[p][k] = s[k]
      /\ \A q \in Peer \ {p} : derived'[q] = derived[q]
  <2>1. derived'[p] = Append(s, kp) /\ \A q \in Peer \ {p} : derived'[q] = derived[q]
    BY <1>1, <1>2, <1>3 DEF Typing, TypeOK
  <2>2. QED
    BY SMTT(30), <1>3, <1>5, <2>1
<1>7. Grows
  BY <1>1, <1>2, <1>6 DEF Grows
<1>8. h.state = "Zeroed" /\ x.pc = "rotate" /\ x.peer = p /\ x.msg = wk[w].msg /\ x.out = wk[w].out
  BY <1>0, <1>1, <1>3, ClearFacts DEF WorkerState
<1>9. AtWork(w, wk[w], hs[p])
  BY <1>1 DEF SoleInv
<1>10. ASSUME Responding(x)
       PROVE  /\ x.out.dst = Counterpart[p] /\ Sent(p, x.out.ie)'
              /\ Answers(p, x.out)'
  <2>1. Responding(wk[w])
    BY <1>2, <1>8, <1>10 DEF Responding
  <2>2. x.out.dst = Counterpart[p] /\ Sent(p, x.out.ie)
    BY <1>1, <1>8, <1>9, <2>1 DEF AtWork
  <2>3. /\ hs[p].state = "ResponseCreated"
        /\ hs[p].chain = <<x.out.ie, x.out.re>> /\ hs[p].localIndex = x.out.sender
    BY <1>2, <1>8, <1>9, <2>1 DEF AtWork
  <2>4. ~kp.isInitiator /\ kp.key = <<x.out.ie, x.out.re>> /\ kp.localIndex = x.out.sender
    BY <1>4, <2>3
  <2>5. Matched(p, <<x.out.ie, x.out.re>>, x.out.sender)'
    BY <1>6, <2>4 DEF Matched
  <2>6. QED
    BY <1>7, <2>2, <2>5, GrowsKeeps DEF Answers
<1>11. AtWork(w, x, h)'
  BY <1>3, <1>8, <1>10 DEF AtWork, Responding
<1>12. HandshakeMatched(p, h)'
  BY <1>8 DEF HandshakeMatched
<1>13. ResponsesMatched'
  BY <1>2, <1>7, ResponseType, GrowsMatched, GrowsKeeps DEF SoleInv, ResponsesMatched
<1>14. InitiatorKeyShared'
  <2>1. ASSUME NEW q \in Peer, NEW k \in DOMAIN derived'[q], derived'[q][k].isInitiator
        PROVE  Matched(Counterpart[q], derived[q][k].key, derived[q][k].remoteIndex)'
    <3>0. PICK y : y = derived'[q][k]
      OBVIOUS
    <3>1. Matched(Counterpart[q], y.key, y.remoteIndex)
      <4>1. CASE q = p /\ k = n
        <5>1. y = kp /\ hs[p].state = "ResponseConsumed"
          BY <1>4, <1>6, <2>1, <3>0, <4>1
        <5>2. HandshakeMatched(p, hs[p])
          BY <1>3 DEF SoleInv
        <5>3. QED
          BY <1>4, <4>1, <5>1, <5>2 DEF HandshakeMatched
      <4>2. CASE ~(q = p /\ k = n)
        <5>1. k \in DOMAIN derived[q] /\ y = derived[q][k]
          BY <1>1, <1>6, <2>1, <3>0, <4>2
        <5>2. y.isInitiator /\ InitiatorKeyShared
          BY <2>1, <3>0 DEF SoleInv
        <5>3. PICK o \in DOMAIN derived[Counterpart[q]] :
                 /\ ~derived[Counterpart[q]][o].isInitiator
                 /\ derived[Counterpart[q]][o].key = y.key
                 /\ derived[Counterpart[q]][o].localIndex = y.remoteIndex
          BY <5>1, <5>2 DEF InitiatorKeyShared
        <5>4. QED
          BY <5>3 DEF Matched
      <4>3. QED
        BY <4>1, <4>2
    <3>2. Matched(Counterpart[q], y.key, y.remoteIndex)'
      BY <1>7, <3>1, GrowsMatched, NoiseAssumption
    <3>3. QED
      BY <3>0, <3>2
  <2>2. QED
    BY <2>1 DEF InitiatorKeyShared, Matched
<1>15. QED
  BY <1>1, <1>2, <1>7, <1>8, <1>11, <1>12, <1>13, <1>14, WorkerSole

LEMMA RotateSole ==
    ASSUME Typing, SoleInv, NEW w \in Worker, RotateKeypairs(w)
    PROVE  SoleInv'
<1>1. PICK x, h, g : /\ x = [wk[w] EXCEPT !.pc = "finish"] /\ h = hs[wk[w].peer]
                     /\ g = hs[x.peer]
  OBVIOUS
<1>2. /\ hs' = hs /\ derived' = derived /\ net' = net /\ wk' = [wk EXCEPT ![w] = x]
      /\ wk[w].pc = "rotate"
  BY <1>1 DEF RotateKeypairs
<1>3. Grows
  BY <1>2 DEF Grows
<1>4. ResponsesMatched' /\ InitiatorKeyShared'
  BY <1>2, <1>3, ResponseType, SameMatches
<1>5. /\ x.pc = "finish" /\ x.peer = wk[w].peer /\ x.msg = wk[w].msg /\ x.out = wk[w].out
      /\ g = h
  <2>1. wk[w] \in WorkerState
    BY DEF Typing, TypeOK
  <2>2. x.pc = "finish" /\ x.peer = wk[w].peer /\ x.msg = wk[w].msg /\ x.out = wk[w].out
    BY <1>1, <2>1 DEF WorkerState
  <2>3. QED
    BY <1>1, <2>2
<1>6. AtWork(w, wk[w], h) /\ wk[w].peer \in Peer
  BY <1>1, <1>2 DEF SoleInv, Typing, WorkersOK
<1>7. PICK y : y = wk[w]
  OBVIOUS
<1>8. AtWork(w, y, g)'
  BY <1>3, <1>5, <1>6, <1>7, AtWorkKept
<1>9. Responding(x) => Responding(y) /\ y.pc # "derive"
  BY <1>2, <1>5, <1>7 DEF Responding
<1>10. AtWork(w, x, g)'
  BY <1>2, <1>5, <1>7, <1>8, <1>9 DEF AtWork
<1>11. QED
  BY <1>1, <1>2, <1>3, <1>4, <1>10, WorkerOnlySole

LEMMA FinishSole ==
    ASSUME Typing, SoleInv, NEW w \in Worker, FinishHandshake(w)
    PROVE  SoleInv'
<1>1. PICK S, x, h, p, y : /\ S = ResponseOrKeepalive(w) /\ x = IdleWorker /\ h = hs[x.peer]
                           /\ p = wk[w].peer /\ y = wk[w].out
  OBVIOUS
<1>2. /\ hs' = hs /\ derived' = derived /\ net' = net \cup S /\ wk' = [wk EXCEPT ![w] = x]
      /\ wk[w].pc = "finish"
  BY <1>1 DEF FinishHandshake
<1>3. Grows
  BY <1>2 DEF Grows
<1>4. InitiatorKeyShared'
  BY <1>2 DEF SoleInv, InitiatorKeyShared
<1>5. p \in Peer /\ AtWork(w, wk[w], hs[p])
  BY <1>1, <1>2 DEF Typing, WorkersOK, SoleInv
<1>6. ASSUME NEW m \in S, m.type = "response"
      PROVE  Answers(Counterpart[m.dst], m) /\ Sent(Counterpart[m.dst], m.ie)
             /\ Counterpart[m.dst] \in Peer
  <2>1. CASE wk[w].msg.type = "initiation"
    <3>1. m = y /\ Responding(wk[w])
      BY <1>1, <1>2, <2>1 DEF ResponseOrKeepalive, Responding
    <3>2. m.dst = Counterpart[p] /\ Sent(p, m.ie) /\ Answers(p, m)
      BY <1>1, <1>2, <1>5, <3>1 DEF AtWork
    <3>3. Counterpart[m.dst] = p
      BY <1>5, <3>2, CounterpartAssumption
    <3>4. QED
      BY <1>5, <3>2, <3>3
  <2>2. CASE wk[w].msg.type # "initiation"
    <3>1. m = TransportMessage(p)
      BY <1>1, <2>2 DEF ResponseOrKeepalive
    <3>2. m.type = "transport"
      BY <3>1 DEF TransportMessage
    <3>3. QED
      BY <1>6, <3>2
  <2>3. QED
    BY <2>1, <2>2
<1>7. ResponsesMatched'
  <2>1. ASSUME NEW m \in net', m.type = "response"
        PROVE  /\ Answers(Counterpart[m.dst], m) /\ Sent(Counterpart[m.dst], m.ie)
               /\ Counterpart[m.dst] \in Peer
    BY <1>2, <1>6, <2>1, ResponseType DEF SoleInv, ResponsesMatched
  <2>2. QED
    BY <1>3, <2>1, GrowsMatched, GrowsKeeps DEF ResponsesMatched
<1>8. AtWork(w, x, h)'
  BY <1>1 DEF AtWork, Responding, IdleWorker
<1>9. QED
  BY <1>1, <1>2, <1>3, <1>4, <1>7, <1>8, WorkerOnlySole

LEMMA InitSole == Init => SoleInv
<1> SUFFICES ASSUME Init PROVE SoleInv
  OBVIOUS
<1>1. ASSUME NEW w \in Worker PROVE AtWork(w, wk[w], hs[wk[w].peer])
  BY DEF Init, AtWork, Responding, IdleWorker
<1>2. ASSUME NEW p \in Peer PROVE HandshakeMatched(p, hs[p])
  BY DEF Init, HandshakeMatched
<1>3. InitiatorKeyShared
  <2>1. \A p \in Peer : DOMAIN derived[p] = {}
    BY SMTT(30) DEF Init
  <2>2. QED
    BY <2>1 DEF InitiatorKeyShared
<1>4. QED
  BY <1>1, <1>2, <1>3 DEF Init, SoleInv, ResponsesMatched

LEMMA NextSole == OneWorker /\ Typing /\ OriginInv /\ SoleInv /\ [Next]_vars => SoleInv'
<1> SUFFICES ASSUME OneWorker, Typing, OriginInv, SoleInv, [Next]_vars PROVE SoleInv'
  OBVIOUS
<1>1. ASSUME NEW p \in Peer, SendTransport(p) PROVE SoleInv'
  <2>0. TransportMessage(p).type = "transport"
    BY DEF TransportMessage
  <2>1. PICK m : m = TransportMessage(p) /\ m.type = "transport"
    BY <2>0
  <2>2. hs' = hs /\ wk' = wk /\ derived' = derived /\ net' = net \cup {m}
    BY <1>1, <2>1 DEF SendTransport
  <2>3. QED
    BY <2>1, <2>2, QuietSole
<1>2. ASSUME NEW p \in Peer, ReceiveTransport(p) \/ ReceivedWithKeypair(p) \/ Stop(p) \/ Start(p)
      PROVE  SoleInv'
  BY <1>2, QuietSole DEF ReceiveTransport, ReceivedWithKeypair, Stop, Start
<1>3. ASSUME NEW p \in Peer, NEW c \in Caller, ZeroKeypairs(p, c) PROVE SoleInv'
  BY <1>3, QuietSole DEF ZeroKeypairs
<1>4. ASSUME NEW w \in Worker, CreateMessageResponseFails(w) \/ BeginSymmetricSessionFails(w)
      PROVE  SoleInv'
  BY <1>4, IdleSole DEF CreateMessageResponseFails, BeginSymmetricSessionFails
<1>5. CASE UNCHANGED vars
  BY <1>5, QuietSole DEF vars
<1>6. QED
  BY <1>1, <1>2, <1>3, <1>4, <1>5, InitiationSole, ZeroHandshakeSole, ConsumeInitiationSole,
     CreateResponseSole, ConsumeResponseSole, BeginSole, RotateSole, FinishSole, ZenonT(30)
  DEF Next

\* With one handshake worker per device, every keypair an initiator derives has its match
\* at the other end under the index it sends to, for any number of devices, peers and
\* indices and whatever the network loses, repeats or reorders: SendHandshakeResponse
\* derives from the handshake its response was built from before it sends it.
THEOREM InitiatorKeySharedHolds ==
    ASSUME OneWorker
    PROVE  Spec => []InitiatorKeyShared
<1>1. SoleInv => InitiatorKeyShared
  BY DEF SoleInv
<1>2. Typing /\ OriginInv /\ SoleInv /\ [Next]_vars => SoleInv'
  BY NextSole
<1>3. QED
  BY <1>1, <1>2, InitTyping, NextTyping, InitOrigin, NextOrigin, InitSole, PTL DEF Spec

\* The step of NoInitiationReplayed.
FirstUse ==
    \A p \in Peer : hs'[p].state = "InitiationConsumed" /\ hs'[p] # hs[p]
                      => hs'[p].lastTimestamp > hs[p].lastTimestamp

LEMMA FirstUseStep == Typing /\ SoleInv /\ [Next]_vars => FirstUse
<1> SUFFICES ASSUME Typing, SoleInv, [Next]_vars, NEW q \in Peer,
                    hs'[q].state = "InitiationConsumed", hs'[q] # hs[q]
             PROVE  hs'[q].lastTimestamp > hs[q].lastTimestamp
  BY DEF FirstUse
<1>1. hs \in [Peer -> Handshake] /\ hs[q] \in Handshake
  BY DEF Typing, TypeOK
<1>2. ASSUME NEW p \in Peer, NEW h, hs' = [hs EXCEPT ![p] = h] PROVE p = q /\ hs'[q] = h
  BY <1>1, <1>2
<1>3. ASSUME NEW p \in Peer, hs' = [hs EXCEPT ![p] = Clear(@)] PROVE FALSE
  <2>1. hs'[q] = Clear(hs[q])
    BY <1>2, <1>3
  <2>2. QED
    BY <1>1, <2>1, ClearFacts
<1>4. ASSUME NEW p \in Peer, SendHandshakeInitiation(p) PROVE FALSE
  <2>1. PICK i, c : hs' = [hs EXCEPT ![p] = [@ EXCEPT !.state = "InitiationCreated",
                                                      !.chain = c, !.localIndex = i]]
    BY <1>4 DEF SendHandshakeInitiation
  <2>2. hs'[q] = [hs[q] EXCEPT !.state = "InitiationCreated", !.chain = c, !.localIndex = i]
    BY <1>2, <2>1
  <2>3. QED
    BY <1>1, <2>2 DEF Handshake
<1>5. ASSUME NEW w \in Worker, CreateMessageResponse(w) PROVE FALSE
  <2>0. PICK p, c : p = wk[w].peer /\ c = Append(hs[p].chain, eph + 1)
    OBVIOUS
  <2>1. PICK i : hs' = [hs EXCEPT ![p] = [@ EXCEPT !.state = "ResponseCreated", !.chain = c,
                                                   !.localIndex = i]]
    BY <1>5, <2>0 DEF CreateMessageResponse
  <2>2. p \in Peer
    BY <1>5, <2>0 DEF CreateMessageResponse, Typing, WorkersOK
  <2>3. hs'[q] = [hs[q] EXCEPT !.state = "ResponseCreated", !.chain = c, !.localIndex = i]
    BY <1>2, <2>1, <2>2
  <2>4. QED
    BY <1>1, <2>3 DEF Handshake
<1>6. ASSUME NEW w \in Worker, ConsumeResponseWrite(w) PROVE FALSE
  <2>1. PICK p, r, c :
           /\ p = wk[w].peer
           /\ hs' = [hs EXCEPT ![p] = [@ EXCEPT !.state = "ResponseConsumed", !.chain = c,
                                                !.remoteIndex = r]]
    BY <1>6 DEF ConsumeResponseWrite
  <2>2. p \in Peer
    BY <1>6, <2>1 DEF ConsumeResponseWrite, Typing, WorkersOK
  <2>3. hs'[q] = [hs[q] EXCEPT !.state = "ResponseConsumed", !.chain = c, !.remoteIndex = r]
    BY <1>2, <2>1, <2>2
  <2>4. QED
    BY <1>1, <2>3 DEF Handshake
<1>7. ASSUME NEW w \in Worker, ConsumeInitiationWrite(w)
      PROVE  hs'[q].lastTimestamp > hs[q].lastTimestamp
  <2>1. PICK p, m, c, r, ts :
           /\ p = wk[w].peer /\ m = wk[w].msg /\ ts = Latest(m, hs[p])
           /\ hs' = [hs EXCEPT ![p] = [@ EXCEPT !.state = "InitiationConsumed", !.chain = c,
                                                !.remoteIndex = r, !.lastTimestamp = ts]]
    BY <1>7 DEF ConsumeInitiationWrite
  <2>2. p \in Peer /\ m.eph > hs[p].lastTimestamp
    BY <1>7, <2>1 DEF ConsumeInitiationWrite, Typing, WorkersOK, SoleInv, AtWork
  <2>3. /\ hs'[q] = [hs[q] EXCEPT !.state = "InitiationConsumed", !.chain = c,
                                  !.remoteIndex = r, !.lastTimestamp = ts]
        /\ p = q
    BY <1>2, <2>1, <2>2
  <2>4. hs'[q].lastTimestamp = ts
    BY <1>1, <2>3 DEF Handshake
  <2>5. QED
    BY <2>1, <2>2, <2>3, <2>4 DEF Latest
<1>8. ASSUME NEW w \in Worker, BeginSymmetricSession(w) PROVE FALSE
  <2>1. wk[w].peer \in Peer
    BY <1>8 DEF BeginSymmetricSession, Typing, WorkersOK
  <2>2. QED
    BY <1>3, <1>8, <2>1 DEF BeginSymmetricSession
<1>9. ASSUME NEW p \in Peer, NEW c \in Caller, ZeroHandshake(p, c) PROVE FALSE
  BY <1>3, <1>9 DEF ZeroHandshake
<1>10. CASE hs' = hs
  BY <1>10
<1>11. QED
  BY <1>4, <1>5, <1>6, <1>7, <1>8, <1>9, <1>10, ZenonT(30)
  DEF Next, vars, SendTransport, ReceiveTransport, ReceivedWithKeypair, Stop, Start,
      ZeroKeypairs, ConsumeInitiationCheck, CreateMessageResponseFails, ConsumeResponseCheck,
      BeginSymmetricSessionFails, RotateKeypairs, FinishHandshake

\* With one handshake worker per device, ConsumeMessageInitiation consumes an initiation
\* only if it is newer than every one consumed before, although the check is made under a
\* lock that is given up before the write: nobody else writes the timestamp in between.
THEOREM NoInitiationReplayedHolds ==
    ASSUME OneWorker
    PROVE  Spec => NoInitiationReplayed
<1>1. Typing /\ SoleInv /\ [Next]_vars => [FirstUse]_vars
  BY FirstUseStep
<1>2. Typing /\ OriginInv /\ SoleInv /\ [Next]_vars => SoleInv'
  BY NextSole
<1>3. QED
  BY <1>1, <1>2, InitTyping, NextTyping, InitOrigin, NextOrigin, InitSole, PTL
  DEF Spec, NoInitiationReplayed, FirstUse

-----------------------------------------------------------------------------
(* Each key once *)

\* Peer p has derived a key from the initiation with ephemeral e.
Used(p, e) == \E n \in DOMAIN derived[p] : derived[p][n].key[1] = e

\* A handshake under way, and a message that a worker has let pass, belong to an
\* initiation that no key was derived from.
HandshakeUnused(p, h) ==
    /\ h.state # "Zeroed" => ~Used(p, h.chain[1])
    /\ h.state \in {"InitiationConsumed", "ResponseCreated"} => h.chain[1] <= h.lastTimestamp
WorkerUnused(x) ==
    /\ x.pc = "checkedInit" => ~Used(x.peer, x.msg.eph)
    /\ x.pc = "checkedResp" => ~Used(x.peer, x.msg.ie)

\* The timestamp is not behind any initiation that a key was derived from as the
\* responder, and there is one key for each initiation.
Past(p) ==
    \A n \in DOMAIN derived[p] :
      ~derived[p][n].isInitiator => derived[p][n].key[1] <= hs[p].lastTimestamp
OneKeyEach(p) ==
    \A m, n \in DOMAIN derived[p] : derived[p][m].key[1] = derived[p][n].key[1] => m = n

UnusedInv ==
    /\ \A p \in Peer : HandshakeUnused(p, hs[p]) /\ Past(p) /\ OneKeyEach(p)
    /\ \A w \in Worker : WorkerUnused(wk[w])

\* No peer is its own counterpart.
NoSelfLink == \A p \in Peer : Counterpart[p] # p

Forward == \A p \in Peer : hs'[p].lastTimestamp >= hs[p].lastTimestamp

LEMMA FirstType ==
    ASSUME Typing, OriginInv, NEW p \in Peer, NEW n \in DOMAIN derived[p]
    PROVE  derived[p][n].key[1] \in Nat /\ derived[p][n].key[1] <= eph
<1>1. PICK s, kp, k : s = derived[p] /\ kp = s[n] /\ k = kp.key
  OBVIOUS
<1>2. s \in Seq(Keypair) /\ n \in DOMAIN s
  BY <1>1 DEF Typing, TypeOK
<1>3. kp \in Keypair
  BY SMTT(30), <1>1, <1>2
<1>4. k \in Seq(Nat)
  BY SMTT(30), <1>1, <1>3 DEF Keypair
<1>5. KeyOf(p, k, kp.isInitiator)
  BY <1>1 DEF OriginInv, PeerOrigin, DerivedOrigin
<1>6. k[1] \in Nat
  <2>1. k # <<>>
    BY <1>5 DEF KeyOf
  <2>2. QED
    BY SMTT(30), <1>4, <2>1
<1>7. PICK q : Sent(q, k[1])
  BY <1>5 DEF KeyOf
<1>8. k[1] <= eph
  BY <1>7 DEF Sent, OriginInv, OneAddressee
<1>9. QED
  BY <1>1, <1>6, <1>8

LEMMA FreshUnused ==
    ASSUME Typing, OriginInv, NEW p \in Peer
    PROVE  ~Used(p, eph + 1)
<1>1. eph \in Nat
  BY DEF Typing, TypeOK
<1>2. ASSUME NEW n \in DOMAIN derived[p] PROVE derived[p][n].key[1] # eph + 1
  <2>1. PICK e : e = derived[p][n].key[1] /\ e \in Nat /\ e <= eph
    BY FirstType
  <2>2. e # eph + 1
    BY SMT, <1>1, <2>1
  <2>3. QED
    BY <2>1, <2>2
<1>3. QED
  BY <1>2 DEF Used

\* An initiation that passes the replay check has not been used: as the responder the
\* peer has used older ones only, and as the initiator ones of its own.
LEMMA NewerUnused ==
    ASSUME Typing, OriginInv, UnusedInv, NoSelfLink, NEW p \in Peer, NEW e, Sent(p, e),
           e > hs[p].lastTimestamp
    PROVE  ~Used(p, e)
<1> SUFFICES ASSUME NEW n \in DOMAIN derived[p], derived[p][n].key[1] = e PROVE FALSE
  BY DEF Used
<1>1. e \in Nat
  BY FirstType
<1>2. KeyOf(p, derived[p][n].key, derived[p][n].isInitiator)
  BY DEF OriginInv, PeerOrigin, DerivedOrigin
<1>3. CASE derived[p][n].isInitiator
  <2>1. Sent(Counterpart[p], e)
    BY <1>2, <1>3 DEF KeyOf
  <2>2. Counterpart[p] = p
    BY <2>1 DEF Sent, OriginInv, OneAddressee
  <2>3. QED
    BY <2>2 DEF NoSelfLink
<1>4. CASE ~derived[p][n].isInitiator
  <2>1. e <= hs[p].lastTimestamp
    BY <1>4 DEF UnusedInv, Past
  <2>2. hs[p].lastTimestamp \in Nat
    BY DEF Typing, TypeOK, Handshake
  <2>3. QED
    BY SMT, <1>1, <2>1, <2>2
<1>5. QED
  BY <1>3, <1>4

\* A step that derives no key.
HandshakesUnused == \A p \in Peer : hs'[p] = hs[p] \/ HandshakeUnused(p, hs'[p])
WorkersUnused == \A w \in Worker : wk'[w] = wk[w] \/ WorkerUnused(wk'[w])

LEMMA UnusedStep ==
    ASSUME Typing, Typing', OriginInv, UnusedInv, Forward, derived' = derived,
           HandshakesUnused, WorkersUnused
    PROVE  UnusedInv'
<1>1. \A p, e : Used(p, e)' <=> Used(p, e)
  BY DEF Used
<1>2. ASSUME NEW p \in Peer PROVE HandshakeUnused(p, hs[p])'
  <2>1. HandshakeUnused(p, hs'[p])
    BY DEF HandshakesUnused, UnusedInv
  <2>2. QED
    BY <1>1, <2>1 DEF HandshakeUnused
<1>3. ASSUME NEW w \in Worker PROVE WorkerUnused(wk[w])'
  <2>1. WorkerUnused(wk'[w])
    BY DEF WorkersUnused, UnusedInv
  <2>2. QED
    BY <1>1, <2>1 DEF WorkerUnused
<1>4. ASSUME NEW p \in Peer PROVE Past(p)'
  <2>1. /\ hs[p].lastTimestamp \in Nat /\ hs'[p].lastTimestamp \in Nat
        /\ hs'[p].lastTimestamp >= hs[p].lastTimestamp
    BY DEF Typing, TypeOK, Handshake, Forward
  <2>2. ASSUME NEW n \in DOMAIN derived[p], ~derived[p][n].isInitiator
        PROVE  derived[p][n].key[1] <= hs'[p].lastTimestamp
    <3>1. PICK e : e = derived[p][n].key[1] /\ e \in Nat /\ e <= hs[p].lastTimestamp
      BY <2>2, FirstType DEF UnusedInv, Past
    <3>2. e <= hs'[p].lastTimestamp
      BY SMT, <2>1, <3>1
    <3>3. QED
      BY <3>1, <3>2
  <2>3. QED
    BY <2>2 DEF Past
<1>5. ASSUME NEW p \in Peer PROVE OneKeyEach(p)'
  BY DEF UnusedInv, OneKeyEach
<1>6. QED
  BY <1>2, <1>3, <1>4, <1>5 DEF UnusedInv

LEMMA InitiationUnused ==
    ASSUME Typing, Typing', OriginInv, UnusedInv, Forward, NEW p \in Peer,
           SendHandshakeInitiation(p)
    PROVE  UnusedInv'
<1>1. PICK e, i, c : /\ e = eph + 1 /\ c = <<e>>
                     /\ hs' = [hs EXCEPT ![p] = [@ EXCEPT !.state = "InitiationCreated",
                                                          !.chain = c, !.localIndex = i]]
                     /\ wk' = wk /\ derived' = derived
  BY DEF SendHandshakeInitiation
<1>2. PICK h : h = [hs[p] EXCEPT !.state = "InitiationCreated", !.chain = c, !.localIndex = i]
  OBVIOUS
<1>3. hs \in [Peer -> Handshake]
  BY DEF Typing, TypeOK
<1>4. h.state = "InitiationCreated" /\ h.chain = c
  BY <1>2, <1>3 DEF Handshake
<1>5. c[1] = e
  BY <1>1
<1>6. HandshakeUnused(p, h)
  BY <1>1, <1>4, <1>5, FreshUnused DEF HandshakeUnused
<1>7. hs'[p] = h /\ \A q \in Peer \ {p} : hs'[q] = hs[q]
  BY <1>1, <1>2, <1>3
<1>8. HandshakesUnused /\ WorkersUnused
  BY <1>1, <1>6, <1>7 DEF HandshakesUnused, WorkersUnused
<1>9. QED
  BY <1>1, <1>8, UnusedStep

LEMMA ZeroHandshakeUnused ==
    ASSUME Typing, Typing', OriginInv, UnusedInv, Forward, NEW p \in Peer, NEW c \in Caller,
           ZeroHandshake(p, c)
    PROVE  UnusedInv'
<1>1. hs' = [hs EXCEPT ![p] = Clear(@)] /\ wk' = wk /\ derived' = derived
  BY DEF ZeroHandshake
<1>2. PICK h : h = Clear(hs[p])
  OBVIOUS
<1>3. hs \in [Peer -> Handshake]
  BY DEF Typing, TypeOK
<1>4. h.state = "Zeroed"
  BY <1>2, <1>3, ClearFacts
<1>5. HandshakeUnused(p, h)
  BY <1>4 DEF HandshakeUnused
<1>6. hs'[p] = h /\ \A q \in Peer \ {p} : hs'[q] = hs[q]
  BY <1>1, <1>2, <1>3
<1>7. HandshakesUnused /\ WorkersUnused
  BY <1>1, <1>5, <1>6 DEF HandshakesUnused, WorkersUnused
<1>8. QED
  BY <1>1, <1>7, UnusedStep

\* A step of worker w that derives no key, and writes at most the handshake of p.
LEMMA WorkerMoveUnused ==
    ASSUME Typing, Typing', OriginInv, UnusedInv, Forward, derived' = derived,
           NEW w \in Worker, NEW x, wk' = [wk EXCEPT ![w] = x], WorkerUnused(x),
           NEW p \in Peer, NEW h, hs' = hs \/ (hs' = [hs EXCEPT ![p] = h] /\ HandshakeUnused(p, h))
    PROVE  UnusedInv'
<1>1. hs \in [Peer -> Handshake] /\ wk \in [Worker -> WorkerState]
  BY DEF Typing, TypeOK
<1>2. wk'[w] = x /\ \A v \in Worker \ {w} : wk'[v] = wk[v]
  BY <1>1
<1>3. WorkersUnused
  BY <1>2 DEF WorkersUnused
<1>4. CASE hs' = hs
  BY <1>3, <1>4, UnusedStep DEF HandshakesUnused
<1>5. CASE hs' = [hs EXCEPT ![p] = h] /\ HandshakeUnused(p, h)
  <2>1. hs'[p] = h /\ \A q \in Peer \ {p} : hs'[q] = hs[q]
    BY <1>1, <1>5
  <2>2. HandshakesUnused
    BY <1>5, <2>1 DEF HandshakesUnused
  <2>3. QED
    BY <1>3, <2>2, UnusedStep
<1>6. QED
  BY <1>4, <1>5

LEMMA ConsumeInitiationUnused ==
    ASSUME Typing, Typing', OriginInv, UnusedInv, NoSelfLink, Forward, NEW w \in Worker,
           ConsumeInitiationCheck(w) \/ ConsumeInitiationWrite(w)
    PROVE  UnusedInv'
<1>0. wk[w] \in WorkerState
  BY DEF Typing, TypeOK
<1>1. derived' = derived
  BY DEF ConsumeInitiationCheck, ConsumeInitiationWrite
<1>2. CASE ConsumeInitiationCheck(w)
  <2>1. PICK m \in net :
           /\ m.type = "initiation"
           /\ Newer(m, hs[m.dst])
           /\ wk' = [wk EXCEPT ![w] = [@ EXCEPT !.pc = "checkedInit", !.peer = m.dst, !.msg = m]]
           /\ hs' = hs
    BY <1>2 DEF ConsumeInitiationCheck
  <2>2. PICK x : /\ x = [wk[w] EXCEPT !.pc = "checkedInit", !.peer = m.dst, !.msg = m]
                 /\ wk' = [wk EXCEPT ![w] = x]
    BY <2>1
  <2>3. x.pc = "checkedInit" /\ x.peer = m.dst /\ x.msg = m
    BY <1>0, <2>2 DEF WorkerState
  <2>4. m.dst \in Peer
    BY <2>1 DEF Typing, TypeOK, Message, Initiation, Response, Transport
  <2>5. Sent(m.dst, m.eph) /\ m.eph > hs[m.dst].lastTimestamp
    BY <2>1 DEF Sent, Newer
  <2>6. ~Used(m.dst, m.eph)
    BY <2>4, <2>5, NewerUnused
  <2>7. WorkerUnused(x)
    BY <2>3, <2>6 DEF WorkerUnused
  <2>8. QED
    BY <1>1, <2>1, <2>2, <2>4, <2>7, WorkerMoveUnused
<1>3. CASE ConsumeInitiationWrite(w)
  <2>1. PICK p, m, e, c, h, x :
           /\ p = wk[w].peer /\ m = wk[w].msg /\ e = m.eph /\ c = <<e>>
           /\ h = [hs[p] EXCEPT !.state = "InitiationConsumed", !.chain = c,
                                !.remoteIndex = m.sender,
                                !.lastTimestamp = Latest(m, hs[p])]
           /\ x = [wk[w] EXCEPT !.pc = "respond"]
    OBVIOUS
  <2>2. /\ hs' = [hs EXCEPT ![p] = h] /\ wk' = [wk EXCEPT ![w] = x]
        /\ wk[w].pc = "checkedInit"
    BY <1>3, <2>1 DEF ConsumeInitiationWrite
  <2>3. p \in Peer /\ hs[p] \in Handshake /\ m \in Initiation
    BY <2>1, <2>2 DEF Typing, TypeOK, WorkersOK
  <2>4. h.state = "InitiationConsumed" /\ h.chain = c /\ h.lastTimestamp = Latest(m, hs[p])
    BY <2>1, <2>3 DEF Handshake
  <2>5. x.pc = "respond"
    BY <1>0, <2>1 DEF WorkerState
  <2>6. ~Used(p, e)
    BY <2>1, <2>2 DEF UnusedInv, WorkerUnused
  <2>7. e <= Latest(m, hs[p])
    <3>1. e \in Nat /\ hs[p].lastTimestamp \in Nat
      BY <2>1, <2>3 DEF Initiation, Handshake
    <3>2. PICK t : t = hs[p].lastTimestamp
      OBVIOUS
    <3>3. e <= IF e > t THEN e ELSE t
      BY SMT, <3>1, <3>2
    <3>4. QED
      BY <2>1, <3>2, <3>3 DEF Latest
  <2>8. c[1] = e
    BY <2>1
  <2>9. HandshakeUnused(p, h)
    BY <2>4, <2>6, <2>7, <2>8 DEF HandshakeUnused
  <2>10. WorkerUnused(x)
    BY <2>5 DEF WorkerUnused
  <2>11. QED
    BY <1>1, <2>2, <2>3, <2>9, <2>10, WorkerMoveUnused
<1>4. QED
  BY <1>2, <1>3

LEMMA CreateResponseUnused ==
    ASSUME Typing, Typing', OriginInv, SoleInv, UnusedInv, Forward, NEW w \in Worker,
           CreateMessageResponse(w)
    PROVE  UnusedInv'
<1>0. wk[w] \in WorkerState
  BY DEF Typing, TypeOK
<1>1. PICK p, r, c : p = wk[w].peer /\ r = eph + 1 /\ c = Append(hs[p].chain, r)
  OBVIOUS
<1>2. PICK i :
         /\ hs' = [hs EXCEPT ![p] = [@ EXCEPT !.state = "ResponseCreated", !.chain = c,
                                              !.localIndex = i]]
         /\ wk' = [wk EXCEPT ![w] = [@ EXCEPT !.pc = "derive", !.out =
                      [type |-> "response", dst |-> Counterpart[p], sender |-> i,
                       receiver |-> hs[p].remoteIndex, ie |-> hs[p].chain[1], re |-> r]]]
  BY <1>1 DEF CreateMessageResponse
<1>3. PICK h, y, x :
         /\ h = [hs[p] EXCEPT !.state = "ResponseCreated", !.chain = c, !.localIndex = i]
         /\ y = [type |-> "response", dst |-> Counterpart[p], sender |-> i,
                 receiver |-> hs[p].remoteIndex, ie |-> hs[p].chain[1], re |-> r]
         /\ x = [wk[w] EXCEPT !.pc = "derive", !.out = y]
         /\ hs' = [hs EXCEPT ![p] = h] /\ wk' = [wk EXCEPT ![w] = x]
  BY <1>2
<1>4. derived' = derived /\ wk[w].pc = "respond" /\ hs[p].state = "InitiationConsumed"
  BY <1>1 DEF CreateMessageResponse
<1>5. p \in Peer /\ hs[p] \in Handshake
  BY <1>1, <1>4 DEF Typing, TypeOK, WorkersOK
<1>6. h.state = "ResponseCreated" /\ h.chain = c /\ h.lastTimestamp = hs[p].lastTimestamp
  BY <1>3, <1>5 DEF Handshake
<1>7. c[1] = hs[p].chain[1]
  <2>1. PICK e : hs[p].chain = <<e>>
    BY <1>4, <1>5 DEF SoleInv, HandshakeMatched
  <2>2. hs[p].chain \in Seq(Nat) /\ r \in Nat
    BY SMTT(30), <1>1, <1>5 DEF Typing, TypeOK, Handshake
  <2>3. c = <<e, r>> /\ <<e, r>>[1] = e /\ <<e>>[1] = e
    BY <1>1, <2>1, <2>2, OneAppended
  <2>4. QED
    BY <2>1, <2>3
<1>8. HandshakeUnused(p, hs[p])
  BY <1>5 DEF UnusedInv
<1>9. HandshakeUnused(p, h)
  BY <1>4, <1>6, <1>7, <1>8 DEF HandshakeUnused
<1>10. x.pc = "derive"
  BY <1>0, <1>3 DEF WorkerState
<1>11. WorkerUnused(x)
  BY <1>10 DEF WorkerUnused
<1>12. QED
  BY <1>3, <1>4, <1>5, <1>9, <1>11, WorkerMoveUnused

LEMMA ConsumeResponseUnused ==
    ASSUME Typing, Typing', OriginInv, UnusedInv, Forward, NEW w \in Worker,
           ConsumeResponseCheck(w) \/ ConsumeResponseWrite(w)
    PROVE  UnusedInv'
<1>0. wk[w] \in WorkerState
  BY DEF Typing, TypeOK
<1>1. derived' = derived
  BY DEF ConsumeResponseCheck, ConsumeResponseWrite
<1>2. CASE ConsumeResponseCheck(w)
  <2> DEFINE entry(m) == table[HostOf[w]][m.receiver]
  <2>1. PICK m \in net :
           /\ m.type = "response"
           /\ entry(m).kind = "handshake"
           /\ hs[entry(m).peer].state = "InitiationCreated"
           /\ hs[entry(m).peer].chain = <<m.ie>>
           /\ wk' = [wk EXCEPT ![w] = [@ EXCEPT !.pc = "checkedResp", !.peer = entry(m).peer,
                                               !.msg = m]]
           /\ hs' = hs
    BY <1>2 DEF ConsumeResponseCheck
  <2>2. PICK p, x : /\ p = entry(m).peer
                    /\ x = [wk[w] EXCEPT !.pc = "checkedResp", !.peer = p, !.msg = m]
                    /\ wk' = [wk EXCEPT ![w] = x]
    BY <2>1
  <2>3. p \in Peer
    <3>1. m.receiver \in Index
      BY <2>1 DEF Typing, TypeOK, Message, Initiation, Response, Transport
    <3>2. entry(m) \in Entry
      BY ZenonT(30), <3>1, NoiseAssumption DEF Typing, TypeOK
    <3>3. entry(m).kind = "handshake"
      BY <2>1
    <3> HIDE DEF entry
    <3>4. QED
      BY SMTT(30), <2>2, <3>2, <3>3 DEF Entry, NoEntry
  <2>4. hs[p].state = "InitiationCreated" /\ hs[p].chain = <<m.ie>> /\ <<m.ie>>[1] = m.ie
    BY <2>1, <2>2
  <2>5. ~Used(p, m.ie)
    BY <2>3, <2>4 DEF UnusedInv, HandshakeUnused
  <2>6. x.pc = "checkedResp" /\ x.peer = p /\ x.msg = m
    BY <1>0, <2>2 DEF WorkerState
  <2>7. WorkerUnused(x)
    BY <2>5, <2>6 DEF WorkerUnused
  <2>8. QED
    BY <1>1, <2>1, <2>2, <2>3, <2>7, WorkerMoveUnused
<1>3. CASE ConsumeResponseWrite(w)
  <2>1. PICK p, m, c, h, x :
           /\ p = wk[w].peer /\ m = wk[w].msg /\ c = <<m.ie, m.re>>
           /\ h = [hs[p] EXCEPT !.state = "ResponseConsumed", !.chain = c,
                                !.remoteIndex = m.sender]
           /\ x = [wk[w] EXCEPT !.pc = "derive"]
    OBVIOUS
  <2>2. /\ hs' = [hs EXCEPT ![p] = h] /\ wk' = [wk EXCEPT ![w] = x]
        /\ wk[w].pc = "checkedResp"
    BY <1>3, <2>1 DEF ConsumeResponseWrite
  <2>3. p \in Peer /\ hs[p] \in Handshake
    BY <2>1, <2>2 DEF Typing, TypeOK, WorkersOK
  <2>4. h.state = "ResponseConsumed" /\ h.chain = c /\ c[1] = m.ie
    BY <2>1, <2>3 DEF Handshake
  <2>5. ~Used(p, m.ie)
    BY <2>1, <2>2 DEF UnusedInv, WorkerUnused
  <2>6. x.pc = "derive"
    BY <1>0, <2>1 DEF WorkerState
  <2>7. HandshakeUnused(p, h) /\ WorkerUnused(x)
    BY <2>4, <2>5, <2>6 DEF HandshakeUnused, WorkerUnused
  <2>8. QED
    BY <1>1, <2>2, <2>3, <2>7, WorkerMoveUnused
<1>4. QED
  BY <1>2, <1>3

LEMMA BeginUnused ==
    ASSUME OneWorker, Typing, Typing', OriginInv, SoleInv, UnusedInv, NEW w \in Worker,
           BeginSymmetricSession(w)
    PROVE  UnusedInv'
<1>0. wk[w] \in WorkerState
  BY DEF Typing, TypeOK
<1>1. PICK p, kp, x, h, s : /\ p = wk[w].peer /\ kp = NewKeypair(w) /\ h = Clear(hs[p])
                            /\ x = [wk[w] EXCEPT !.pc = "rotate", !.kp = kp]
                            /\ s = derived[p]
  OBVIOUS
<1>2. /\ hs' = [hs EXCEPT ![p] = h]
      /\ derived' = [derived EXCEPT ![p] = Append(@, kp)]
      /\ wk' = [wk EXCEPT ![w] = x]
      /\ wk[w].pc = "derive"
      /\ hs[p].state \in {"ResponseConsumed", "ResponseCreated"}
  BY <1>1 DEF BeginSymmetricSession
<1>3. p \in Peer /\ hs[p] \in Handshake /\ s \in Seq(Keypair)
  BY <1>1, <1>2 DEF Typing, TypeOK, WorkersOK
<1>4. kp.key = hs[p].chain /\ kp.isInitiator = (hs[p].state = "ResponseConsumed")
  BY <1>1 DEF NewKeypair
<1>5. PICK n : n = Len(s) + 1
  OBVIOUS
<1>6. /\ DOMAIN derived'[p] = DOMAIN s \cup {n} /\ n \notin DOMAIN s
      /\ derived'[p][n] = kp /\ \A k \in DOMAIN s : derived'[p][k] = s[k]
      /\ \A q \in Peer \ {p} : derived'[q] = derived[q]
  <2>1. derived'[p] = Append(s, kp) /\ \A q \in Peer \ {p} : derived'[q] = derived[q]
    BY <1>1, <1>2, <1>3 DEF Typing, TypeOK
  <2>2. QED
    BY SMTT(30), <1>3, <1>5, <2>1
<1>7. /\ h.state = "Zeroed" /\ h.lastTimestamp = hs[p].lastTimestamp
      /\ x.pc = "rotate"
  BY <1>0, <1>1, <1>3, ClearFacts DEF WorkerState
<1>8. hs'[p] = h /\ \A q \in Peer \ {p} : hs'[q] = hs[q]
  BY <1>2, <1>3 DEF Typing, TypeOK
<1>9. wk'[w] = x /\ \A v \in Worker \ {w} : wk'[v] = wk[v]
  BY <1>2 DEF Typing, TypeOK
<1>10. ~Used(p, kp.key[1])
  BY <1>2, <1>3, <1>4 DEF UnusedInv, HandshakeUnused
<1>11. \A q \in Peer \ {p} : \A e : Used(q, e)' <=> Used(q, e)
  BY <1>6 DEF Used
<1>12. ASSUME NEW q \in Peer PROVE HandshakeUnused(q, hs[q])'
  <2>1. CASE q = p
    <3>1. hs'[p].state = "Zeroed"
      BY <1>7, <1>8
    <3>2. QED
      BY <2>1, <3>1 DEF HandshakeUnused
  <2>2. CASE q # p
    <3>1. HandshakeUnused(q, hs'[q])
      BY <1>8, <2>2 DEF UnusedInv
    <3>2. QED
      BY <1>11, <2>2, <3>1 DEF HandshakeUnused
  <2>3. QED
    BY <2>1, <2>2
<1>13. ASSUME NEW q \in Peer PROVE Past(q)'
  <2>1. CASE q = p
    <3>1. ASSUME NEW k \in DOMAIN derived'[p], ~derived'[p][k].isInitiator
          PROVE  derived'[p][k].key[1] <= hs'[p].lastTimestamp
      <4>1. CASE k = n
        <5>1. hs[p].state = "ResponseCreated"
          BY <1>2, <1>4, <1>6, <3>1, <4>1
        <5>2. hs[p].chain[1] <= hs[p].lastTimestamp
          BY <1>3, <5>1 DEF UnusedInv, HandshakeUnused
        <5>3. QED
          BY <1>4, <1>6, <1>7, <1>8, <4>1, <5>2
      <4>2. CASE k \in DOMAIN s
        BY <1>1, <1>3, <1>6, <1>7, <1>8, <3>1, <4>2 DEF UnusedInv, Past
      <4>3. QED
        BY <1>6, <3>1, <4>1, <4>2
    <3>2. QED
      BY <2>1, <3>1 DEF Past
  <2>2. CASE q # p
    BY <1>6, <1>8, <2>2 DEF UnusedInv, Past
  <2>3. QED
    BY <2>1, <2>2
<1>14. ASSUME NEW q \in Peer PROVE OneKeyEach(q)'
  <2>1. CASE q = p
    <3>1. ASSUME NEW j \in DOMAIN derived'[p], NEW k \in DOMAIN derived'[p],
                 derived'[p][j].key[1] = derived'[p][k].key[1]
          PROVE  j = k
      <4>1. CASE j \in DOMAIN s /\ k \in DOMAIN s
        <5>1. s[j].key[1] = s[k].key[1]
          BY <1>6, <3>1, <4>1
        <5>2. OneKeyEach(p)
          BY <1>3 DEF UnusedInv
        <5>3. QED
          BY <1>1, <4>1, <5>1, <5>2 DEF OneKeyEach
      <4>2. ASSUME NEW o \in DOMAIN s, derived'[p][o].key[1] = kp.key[1] PROVE FALSE
        BY <1>1, <1>6, <1>10, <4>2 DEF Used
      <4>3. QED
        BY <1>6, <3>1, <4>1, <4>2
    <3>2. QED
      BY <2>1, <3>1 DEF OneKeyEach
  <2>2. CASE q # p
    BY <1>6, <2>2 DEF UnusedInv, OneKeyEach
  <2>3. QED
    BY <2>1, <2>2
<1>15. ASSUME NEW v \in Worker PROVE WorkerUnused(wk[v])'
  <2>1. CASE v = w
    <3>1. wk'[w].pc = "rotate"
      BY <1>7, <1>9
    <3>2. QED
      BY <2>1, <3>1 DEF WorkerUnused
  <2>2. CASE v # w
    <3>1. PICK y : y = wk[v]
      OBVIOUS
    <3>2. WorkerUnused(y)
      BY <3>1 DEF UnusedInv
    <3>3. WorkerUnused(y)'
      <4>1. CASE y.pc = "idle"
        BY <4>1 DEF WorkerUnused
      <4>2. CASE y.pc # "idle"
        <5>1. y.peer # p /\ y.peer \in Peer
          BY <1>1, <1>2, <2>2, <3>1, <4>2, Alone DEF Typing, WorkersOK
        <5>2. QED
          BY <1>11, <3>2, <5>1 DEF WorkerUnused
      <4>3. QED
        BY <4>1, <4>2
    <3>4. wk'[v] = y
      BY <1>9, <2>2, <3>1
    <3>5. QED
      BY <3>3, <3>4
  <2>3. QED
    BY <2>1, <2>2
<1>16. QED
  BY <1>12, <1>13, <1>14, <1>15 DEF UnusedInv

\* A worker that has let no message pass.
LEMMA QuietUnused ==
    ASSUME Typing, Typing', OriginInv, UnusedInv, Forward, hs' = hs, derived' = derived,
           wk' = wk \/ \E w \in Worker : \E x : /\ wk' = [wk EXCEPT ![w] = x]
                                                /\ x.pc # "checkedInit" /\ x.pc # "checkedResp"
    PROVE  UnusedInv'
<1>1. wk \in [Worker -> WorkerState]
  BY DEF Typing, TypeOK
<1>2. HandshakesUnused
  BY DEF HandshakesUnused
<1>3. CASE wk' = wk
  BY <1>2, <1>3, UnusedStep DEF WorkersUnused
<1>4. ASSUME NEW w \in Worker, NEW x, wk' = [wk EXCEPT ![w] = x],
             x.pc # "checkedInit", x.pc # "checkedResp"
      PROVE  UnusedInv'
  <2>1. wk'[w] = x /\ \A v \in Worker \ {w} : wk'[v] = wk[v]
    BY <1>1, <1>4
  <2>2. WorkersUnused
    BY <1>4, <2>1 DEF WorkersUnused, WorkerUnused
  <2>3. QED
    BY <1>2, <2>2, UnusedStep
<1>5. QED
  BY <1>3, <1>4

LEMMA InitUnused == Init => UnusedInv
<1> SUFFICES ASSUME Init PROVE UnusedInv
  OBVIOUS
<1>1. \A p \in Peer : DOMAIN derived[p] = {}
  BY SMTT(30) DEF Init
<1>2. ASSUME NEW p \in Peer PROVE HandshakeUnused(p, hs[p]) /\ Past(p) /\ OneKeyEach(p)
  <2>1. hs[p].state = "Zeroed"
    BY DEF Init
  <2>2. QED
    BY <1>1, <2>1 DEF HandshakeUnused, Past, OneKeyEach
<1>3. ASSUME NEW w \in Worker PROVE WorkerUnused(wk[w])
  <2>1. wk[w].pc = "idle"
    BY DEF Init, IdleWorker
  <2>2. QED
    BY <2>1 DEF WorkerUnused
<1>4. QED
  BY <1>2, <1>3 DEF UnusedInv

LEMMA NextUnused ==
    OneWorker /\ NoSelfLink /\ Typing /\ OriginInv /\ SoleInv /\ UnusedInv /\ [Next]_vars
      => UnusedInv'
<1> SUFFICES ASSUME OneWorker, NoSelfLink, Typing, OriginInv, SoleInv, UnusedInv, [Next]_vars
             PROVE  UnusedInv'
  OBVIOUS
<1>1. Typing' /\ Forward
  BY NextTyping, TimestampStep DEF Forward
<1>2. ASSUME NEW p \in Peer,
             SendTransport(p) \/ ReceiveTransport(p) \/ ReceivedWithKeypair(p) \/ Stop(p) \/ Start(p)
      PROVE  UnusedInv'
  BY <1>1, <1>2, QuietUnused
  DEF SendTransport, ReceiveTransport, ReceivedWithKeypair, Stop, Start
<1>3. ASSUME NEW p \in Peer, NEW c \in Caller, ZeroKeypairs(p, c) PROVE UnusedInv'
  BY <1>1, <1>3, QuietUnused DEF ZeroKeypairs
<1>4. ASSUME NEW w \in Worker,
             CreateMessageResponseFails(w) \/ BeginSymmetricSessionFails(w) \/ FinishHandshake(w)
      PROVE  UnusedInv'
  <2>0. IdleWorker.pc = "idle"
    BY DEF IdleWorker
  <2>1. PICK x : x = IdleWorker /\ x.pc = "idle"
    BY <2>0
  <2>2. hs' = hs /\ derived' = derived /\ wk' = [wk EXCEPT ![w] = x]
    BY <1>4, <2>1 DEF CreateMessageResponseFails, BeginSymmetricSessionFails, FinishHandshake
  <2>3. QED
    BY <1>1, <2>1, <2>2, QuietUnused
<1>5. ASSUME NEW w \in Worker, RotateKeypairs(w) PROVE UnusedInv'
  <2>1. PICK x : x = [wk[w] EXCEPT !.pc = "finish"]
    OBVIOUS
  <2>2. hs' = hs /\ derived' = derived /\ wk' = [wk EXCEPT ![w] = x]
    BY <1>5, <2>1 DEF RotateKeypairs
  <2>3. x.pc = "finish"
    BY <2>1 DEF Typing, TypeOK, WorkerState
  <2>4. QED
    BY <1>1, <2>2, <2>3, QuietUnused
<1>6. CASE UNCHANGED vars
  BY <1>1, <1>6, QuietUnused DEF vars
<1>7. QED
  BY <1>1, <1>2, <1>3, <1>4, <1>5, <1>6, InitiationUnused, ZeroHandshakeUnused,
     ConsumeInitiationUnused, CreateResponseUnused, ConsumeResponseUnused, BeginUnused, ZenonT(30)
  DEF Next

\* With one handshake worker per device, BeginSymmetricSession never derives the same key
\* twice on a peer, so that no two keypairs start from nonce 0 under one key: for any
\* number of devices, peers and indices and whatever the network repeats or reorders, as
\* long as no device is its own peer (handlePublicKeyLine ignores such a peer).
THEOREM NoKeyDerivedTwiceHolds ==
    ASSUME OneWorker, NoSelfLink
    PROVE  Spec => []NoKeyDerivedTwice
<1>1. UnusedInv => NoKeyDerivedTwice
  BY DEF UnusedInv, OneKeyEach, NoKeyDerivedTwice
<1>2. Typing /\ OriginInv /\ SoleInv /\ [Next]_vars => SoleInv'
  BY NextSole
<1>3. Typing /\ OriginInv /\ SoleInv /\ UnusedInv /\ [Next]_vars => UnusedInv'
  BY NextUnused
<1>4. QED
  BY <1>1, <1>2, <1>3, InitTyping, NextTyping, InitOrigin, NextOrigin, InitSole, InitUnused, PTL
  DEF Spec

=============================================================================
