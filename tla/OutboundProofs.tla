--------------------------- MODULE OutboundProofs ---------------------------
(***************************************************************************)
(* What holds of the outbound pipeline for any number of callers, workers, *)
(* containers and keypairs, and any limit.                                 *)
(*                                                                         *)
(* The send counters implement NonceCounter.  A caller that has seen the   *)
(* limit stores it, which may take back what others have added meanwhile:  *)
(* that is harmless only because the counter has reached the limit by      *)
(* then, and no step takes it below the limit again, which is what         *)
(* NonceInv says.                                                          *)
(*                                                                         *)
(* No container is in the pool while somebody refers to it.  OwnInv says   *)
(* where a container may be: in the pool, staged, with one caller, or in   *)
(* the outbound queue and with the sender; and that one on its way to      *)
(* encryption, in the queue to it, with a caller that is about to put it   *)
(* there or with a worker, is a locked one that waits for its turn.        *)
(*                                                                         *)
(* Whatever is sent was sealed, and no two packets with the same key and   *)
(* nonce.  SealInv says that a nonce that was given is at one place: with  *)
(* a caller that has not packed it yet, in the container of a caller or of *)
(* the outbound queue, or on the wire (Divided); and that a container that *)
(* waits for its turn holds elements with a nonce each, which are sealed   *)
(* once it is unlocked, so the sender may send them (Ready).               *)
(***************************************************************************)
EXTENDS Outbound, TLAPS

\* Zenon proves the leaves that name no prover; those that cite SMT need arithmetic,
\* records or sequences.
USE Zenon

Fields == {"pc", "keypair", "box", "todo", "kept", "ooo"}

\* The steps of a caller that has a keypair, and those that pick one up or give it back.
WithKeypair == {"take", "nonce", "over", "running", "outbound", "encryption"}

\* A caller's state is a record, and it has a keypair where it uses one.
CallerOK(c) ==
    /\ DOMAIN c = Fields
    /\ c.pc \in WithKeypair => c.keypair \in Keypair

\* A caller that has seen the limit has seen it reached.
Reached(c) == c.pc = "over" => sendNonce[c.keypair] >= limit

NonceInv ==
    /\ sendNonce \in [Keypair -> Nat]
    /\ current \in Keypair \cup {None}
    /\ DOMAIN caller = Callers
    /\ \A t \in Callers : CallerOK(caller[t]) /\ Reached(caller[t])

LEMMA InitNonce == Init => NonceInv
  BY SMT, OutboundAssumption DEF Init, NonceInv, CallerOK, Reached, Idle, Fields, WithKeypair

\* What a step does to the callers: it moves caller t, which is left with a record, and no other.
Moves(t) ==
    /\ DOMAIN caller' = Callers
    /\ \A u \in Callers \ {t} : caller'[u] = caller[u]
    /\ DOMAIN caller'[t] = Fields

LEMMA GoMoves ==
    ASSUME NEW t \in Callers, DOMAIN caller = Callers, DOMAIN caller[t] = Fields, NEW pc, Go(t, pc)
    PROVE  Moves(t) /\ caller'[t].pc = pc /\ caller'[t].keypair = caller[t].keypair
  BY DEF Go, Fields, Moves

LEMMA IdleFacts == DOMAIN Idle = Fields /\ Idle.pc = "idle"
  BY DEF Idle, Fields

LEMMA IdleMoves ==
    ASSUME NEW t \in Callers, DOMAIN caller = Callers, caller' = [caller EXCEPT ![t] = Idle]
    PROVE  Moves(t) /\ caller'[t].pc = "idle"
  BY IdleFacts DEF Moves

LEMMA AgainMoves ==
    ASSUME NEW t \in Callers, DOMAIN caller = Callers, DOMAIN caller[t] = Fields, Again(t)
    PROVE  Moves(t) /\ caller'[t].pc \in {"top", "take"} /\ caller'[t].keypair = caller[t].keypair
  <1> DEFINE r == [Idle EXCEPT !.pc = IF caller[t].ooo # <<>> THEN "top" ELSE "take", !.keypair = caller[t].keypair]
  <1>1. caller' = [caller EXCEPT ![t] = r]
    BY DEF Again
  <1>2. DOMAIN r = Fields /\ r.pc \in {"top", "take"} /\ r.keypair = caller[t].keypair
    BY DEF Idle, Fields
  <1> HIDE DEF r
  <1> QED BY <1>1, <1>2 DEF Moves

\* A step of caller t keeps the invariant if it keeps it for t, and the counters of
\* others stay at the limit.
LEMMA MoveInv ==
    ASSUME NonceInv, NEW t \in Callers, Moves(t),
           sendNonce' \in [Keypair -> Nat], current' \in Keypair \cup {None},
           \A k \in Keypair : sendNonce[k] >= limit => sendNonce'[k] >= limit,
           caller'[t].pc \in WithKeypair => caller'[t].keypair \in Keypair,
           caller'[t].pc = "over" => sendNonce'[caller'[t].keypair] >= limit
    PROVE  NonceInv'
  <1>1. ASSUME NEW u \in Callers PROVE CallerOK(caller[u])' /\ Reached(caller[u])'
    <2>1. CASE u = t
      BY <2>1 DEF CallerOK, Reached, Moves
    <2>2. CASE u # t
      <3>1. caller'[u] = caller[u]
        BY <2>2 DEF Moves
      <3>2. CallerOK(caller[u]) /\ Reached(caller[u])
        BY DEF NonceInv
      <3> QED BY <3>1, <3>2 DEF CallerOK, Reached, WithKeypair
    <2> QED BY <2>1, <2>2
  <1>2. DOMAIN caller' = Callers
    BY DEF Moves
  <1> QED BY <1>1, <1>2 DEF NonceInv

\* A step that leaves the callers alone keeps the invariant if counters stay at the limit.
LEMMA StillInv ==
    ASSUME NonceInv, caller' = caller,
           sendNonce' \in [Keypair -> Nat], current' \in Keypair \cup {None},
           \A k \in Keypair : sendNonce[k] >= limit => sendNonce'[k] >= limit
    PROVE  NonceInv'
  <1>1. ASSUME NEW u \in Callers PROVE CallerOK(caller[u])' /\ Reached(caller[u])'
    BY DEF NonceInv, CallerOK, Reached, WithKeypair
  <1> QED BY <1>1 DEF NonceInv

-----------------------------------------------------------------------------
(* The steps *)

\* A step of a caller that touches no counter.
LEMMA QuietMove ==
    ASSUME NonceInv, NEW t \in Callers, Moves(t), UNCHANGED keys,
           caller'[t].pc \in WithKeypair => caller'[t].keypair \in Keypair,
           caller'[t].pc # "over"
    PROVE  NonceInv'
  BY MoveInv DEF keys, NonceInv

LEMMA CallerFacts ==
    ASSUME NonceInv, NEW t \in Callers
    PROVE  /\ DOMAIN caller = Callers /\ DOMAIN caller[t] = Fields
           /\ caller[t].pc \in WithKeypair => caller[t].keypair \in Keypair
           /\ caller[t].pc = "over" => sendNonce[caller[t].keypair] >= limit
  BY DEF NonceInv, CallerOK, Reached

LEMMA StagingInv ==
    ASSUME NonceInv, NEW t \in Callers, ReadFromTUN(t) \/ SendKeepalive(t) \/ StageKeepalive(t)
    PROVE  NonceInv'
  <1> USE CallerFacts
  <1>0. UNCHANGED keys
    BY DEF ReadFromTUN, SendKeepalive, StageKeepalive
  <1>1. CASE caller' = caller
    BY <1>0, <1>1, StillInv DEF keys, NonceInv
  <1>2. CASE Go(t, "top") \/ Go(t, "keepalive")
    <2>1. Moves(t) /\ caller'[t].pc \in {"top", "keepalive"}
      BY <1>2, GoMoves
    <2> QED BY <1>0, <2>1, QuietMove DEF WithKeypair
  <1>3. caller' = caller \/ Go(t, "top") \/ Go(t, "keepalive")
    BY DEF ReadFromTUN, SendKeepalive, StageKeepalive
  <1> QED BY <1>1, <1>2, <1>3

LEMMA TopInv ==
    ASSUME NonceInv, NEW t \in Callers, Top(t)
    PROVE  NonceInv'
  <1> USE CallerFacts
  <1>0. UNCHANGED keys
    BY DEF Top
  <1>1. CASE caller' = [caller EXCEPT ![t] = Idle]
    <2>1. Moves(t) /\ caller'[t].pc = "idle"
      BY <1>1, IdleMoves
    <2> QED BY <1>0, <2>1, QuietMove DEF WithKeypair
  <1>2. CASE Usable(current) /\ caller' = [caller EXCEPT ![t].pc = "take", ![t].keypair = current]
    <2>1. Moves(t) /\ caller'[t].pc = "take" /\ caller'[t].keypair = current
      BY <1>2 DEF Moves, Fields
    <2>2. current \in Keypair
      BY <1>2 DEF Usable, NonceInv
    <2> QED BY <1>0, <2>1, <2>2, QuietMove DEF WithKeypair
  <1> QED BY <1>1, <1>2 DEF Top

LEMMA TakeInv ==
    ASSUME NonceInv, NEW t \in Callers, Take(t)
    PROVE  NonceInv'
  <1> USE CallerFacts
  <1>0. UNCHANGED keys
    BY DEF Take
  <1>1. CASE caller' = [caller EXCEPT ![t] = Idle]
    <2>1. Moves(t) /\ caller'[t].pc = "idle"
      BY <1>1, IdleMoves
    <2> QED BY <1>0, <2>1, QuietMove DEF WithKeypair
  <1>2. CASE caller' = [caller EXCEPT ![t] = [@ EXCEPT !.pc = "nonce", !.box = Head(staged), !.todo = elems[Head(staged)]]]
    <2>1. Moves(t) /\ caller'[t].pc = "nonce" /\ caller'[t].keypair = caller[t].keypair
      BY <1>2 DEF Moves, Fields
    <2>2. caller[t].keypair \in Keypair
      BY DEF Take, WithKeypair
    <2> QED BY <1>0, <2>1, <2>2, QuietMove DEF WithKeypair
  <1> QED BY <1>1, <1>2 DEF Take

\* The next nonce: below the limit the caller keeps the element, at the limit it has seen
\* the limit reached.
LEMMA AssignNonceFacts ==
    ASSUME NonceInv, NEW t \in Callers, AssignNonce(t), NEW k, k = caller[t].keypair
    PROVE  /\ k \in Keypair /\ sendNonce[k] \in Nat /\ UNCHANGED current
           /\ sendNonce' = [sendNonce EXCEPT ![k] = sendNonce[k] + 1]
           /\ Moves(t) /\ caller'[t].keypair = k /\ caller'[t].pc \in {"nonce", "over"}
           /\ caller'[t].box = caller[t].box
           /\ sendNonce[k] < limit => caller'[t].pc = "nonce" /\ issued' = issued \cup {<<k, sendNonce[k]>>}
           /\ ~(sendNonce[k] < limit) => UNCHANGED issued
  <1> USE CallerFacts
  <1> DEFINE elem == [Head(caller[t].todo) EXCEPT !.keypair = k, !.nonce = sendNonce[k]]
  <1>1. k \in Keypair /\ sendNonce[k] \in Nat /\ UNCHANGED current
    BY DEF AssignNonce, WithKeypair, NonceInv
  <1>2. sendNonce' = [sendNonce EXCEPT ![k] = sendNonce[k] + 1]
    BY DEF AssignNonce
  <1>3. CASE sendNonce[k] < limit
    <2>1. /\ caller' = [caller EXCEPT ![t] = [caller[t] EXCEPT !.todo = Tail(@), !.kept = Append(@, elem)]]
          /\ issued' = issued \cup {<<k, sendNonce[k]>>} /\ caller[t].pc = "nonce"
      BY <1>3 DEF AssignNonce, BelowLimit
    <2> HIDE DEF elem
    <2>2. Moves(t) /\ caller'[t].pc = "nonce" /\ caller'[t].keypair = k /\ caller'[t].box = caller[t].box
      BY <2>1 DEF Moves, Fields
    <2> QED BY <1>1, <1>2, <1>3, <2>1, <2>2
  <1>4. CASE ~(sendNonce[k] < limit)
    <2>1. /\ caller' = [caller EXCEPT ![t] = [caller[t] EXCEPT !.todo = Tail(@), !.pc = "over", !.ooo = Append(@, Elem(elem.pkt))]]
          /\ UNCHANGED issued
      BY <1>4 DEF AssignNonce, BelowLimit
    <2> HIDE DEF elem
    <2>2. Moves(t) /\ caller'[t].pc = "over" /\ caller'[t].keypair = k /\ caller'[t].box = caller[t].box
      BY <2>1 DEF Moves, Fields
    <2> QED BY <1>1, <1>2, <1>4, <2>1, <2>2
  <1> QED BY <1>3, <1>4

LEMMA AssignNonceInv ==
    ASSUME NonceInv, NEW t \in Callers, AssignNonce(t)
    PROVE  NonceInv'
  <1> DEFINE k == caller[t].keypair
  <1>1. /\ k \in Keypair /\ sendNonce[k] \in Nat /\ UNCHANGED current
        /\ sendNonce' = [sendNonce EXCEPT ![k] = sendNonce[k] + 1]
        /\ Moves(t) /\ caller'[t].keypair = k /\ caller'[t].pc \in {"nonce", "over"}
        /\ sendNonce[k] < limit => caller'[t].pc = "nonce"
    BY AssignNonceFacts
  <1> HIDE DEF k
  <1>2. sendNonce \in [Keypair -> Nat] /\ current \in Keypair \cup {None} /\ limit \in Nat
    BY OutboundAssumption DEF NonceInv
  <1>3. /\ sendNonce' \in [Keypair -> Nat] /\ sendNonce'[k] = sendNonce[k] + 1
        /\ \A j \in Keypair : sendNonce[j] >= limit => sendNonce'[j] >= limit
    BY SMT, <1>1, <1>2
  <1>4. caller'[t].pc = "over" => sendNonce'[k] >= limit
    BY SMT, <1>1, <1>2, <1>3
  <1> QED BY <1>1, <1>2, <1>3, <1>4, MoveInv

LEMMA StoreLimitInv ==
    ASSUME NonceInv, NEW t \in Callers, StoreLimit(t)
    PROVE  NonceInv'
  <1> DEFINE k == caller[t].keypair
  <1>1. k \in Keypair /\ UNCHANGED current /\ sendNonce' = [sendNonce EXCEPT ![k] = limit] /\ Go(t, "nonce")
    BY CallerFacts DEF StoreLimit, WithKeypair
  <1>2. Moves(t) /\ caller'[t].pc = "nonce" /\ caller'[t].keypair = k
    BY <1>1, CallerFacts, GoMoves
  <1> HIDE DEF k
  <1>3. sendNonce \in [Keypair -> Nat] /\ current \in Keypair \cup {None} /\ limit \in Nat
    BY OutboundAssumption DEF NonceInv
  <1>4. /\ sendNonce' \in [Keypair -> Nat]
        /\ \A j \in Keypair : sendNonce[j] >= limit => sendNonce'[j] >= limit
    BY SMT, <1>1, <1>3
  <1> QED BY <1>1, <1>2, <1>3, <1>4, MoveInv

LEMMA LockBoxInv ==
    ASSUME NonceInv, NEW t \in Callers, LockBox(t)
    PROVE  NonceInv'
  <1> USE CallerFacts
  <1>0. UNCHANGED keys /\ caller[t].keypair \in Keypair
    BY DEF LockBox, WithKeypair
  <1>1. CASE caller' = [caller EXCEPT ![t] = [Idle EXCEPT !.pc = "top"]]
    <2>1. DOMAIN [Idle EXCEPT !.pc = "top"] = Fields /\ [Idle EXCEPT !.pc = "top"].pc = "top"
      BY DEF Idle, Fields
    <2>2. Moves(t) /\ caller'[t].pc = "top"
      BY <1>1, <2>1 DEF Moves
    <2> QED BY <1>0, <2>2, QuietMove DEF WithKeypair
  <1>2. CASE caller' = [caller EXCEPT ![t] = [@ EXCEPT !.pc = "running", !.kept = <<>>]]
    <2>1. Moves(t) /\ caller'[t].pc = "running" /\ caller'[t].keypair = caller[t].keypair
      BY <1>2 DEF Moves, Fields
    <2> QED BY <1>0, <2>1, QuietMove
  <1> QED BY <1>1, <1>2 DEF LockBox

LEMMA QueueInv ==
    ASSUME NonceInv, NEW t \in Callers, CheckRunning(t) \/ PushOutbound(t) \/ PushEncryption(t)
    PROVE  NonceInv'
  <1> USE CallerFacts
  <1>0. UNCHANGED keys /\ caller[t].keypair \in Keypair
    BY DEF CheckRunning, PushOutbound, PushEncryption, WithKeypair
  <1>1. CASE Go(t, "outbound") \/ Go(t, "encryption")
    <2>1. Moves(t) /\ caller'[t].pc # "over" /\ caller'[t].keypair = caller[t].keypair
      BY SMT, <1>1, GoMoves
    <2> QED BY <1>0, <2>1, QuietMove
  <1>2. CASE Again(t)
    <2>1. Moves(t) /\ caller'[t].pc # "over" /\ caller'[t].keypair = caller[t].keypair
      BY <1>2, AgainMoves
    <2> QED BY <1>0, <2>1, QuietMove
  <1> QED BY <1>1, <1>2 DEF CheckRunning, PushOutbound, PushEncryption

-----------------------------------------------------------------------------
(* The keypairs that become current *)

BoundOK ==
    /\ DOMAIN bound = {"batch", "keypair", "keepalives", "expiries", "stops"}
    /\ bound.keypair \in Nat \ {0} /\ bound.batch \in Nat \ {0}

LEMMA InitBound == Init => BoundOK
  BY SMT DEF Init, BoundOK

LEMMA NextBound == BoundOK /\ [Next]_vars => BoundOK'
  <1> SUFFICES ASSUME BoundOK, [Next]_vars PROVE BoundOK'
    OBVIOUS
  <1>1. CASE UNCHANGED bound
    BY <1>1 DEF BoundOK
  <1>2. CASE \E v : bound' = [bound EXCEPT !.keepalives = v]
    BY <1>2 DEF BoundOK
  <1>3. CASE \E v : bound' = [bound EXCEPT !.expiries = v]
    BY <1>3 DEF BoundOK
  <1>4. CASE \E v : bound' = [bound EXCEPT !.stops = v]
    BY <1>4 DEF BoundOK
  <1>5. CASE NewSession
    <2>1. bound' = [bound EXCEPT !.keypair = bound.keypair + 1]
      BY <1>5 DEF NewSession
    <2>2. DOMAIN bound' = DOMAIN bound /\ bound'.keypair = bound.keypair + 1 /\ bound'.batch = bound.batch
      BY <2>1 DEF BoundOK
    <2> QED BY SMT, <2>2 DEF BoundOK
  <1>6. CASE UNCHANGED vars
    BY <1>1, <1>6 DEF vars
  <1>7. CASE \E t \in Callers : ReadFromTUN(t)
    <2>1. bound' = [bound EXCEPT !.batch = bound.batch + 1]
      BY <1>7 DEF ReadFromTUN
    <2>2. DOMAIN bound' = DOMAIN bound /\ bound'.batch = bound.batch + 1 /\ bound'.keypair = bound.keypair
      BY <2>1 DEF BoundOK
    <2> QED BY SMT, <2>2 DEF BoundOK
  <1>8. CASE \E t \in Callers : SendKeepalive(t)
    BY <1>2, <1>8 DEF SendKeepalive
  <1>9. CASE \E t \in Callers : Call(t)
    BY ZenonT(30), <1>1, <1>9 DEF Call, StageKeepalive, Top, Take, AssignNonce, StoreLimit, LockBox, CheckRunning, PushOutbound, PushEncryption
  <1>10. CASE (\E w \in Encrypters : Encrypt(w)) \/ Send \/ Lifecycle \/ Start \/ FlushStagedPackets
    BY <1>1, <1>10 DEF Encrypt, StartEncryption, FinishEncryption, Send, SenderReceive, SenderDrop, SenderSend,
                       Lifecycle, StopSignal, StopWait, StartFlush, StartRoutine, Start, FlushStagedPackets
  <1>11. CASE Stop
    BY <1>4, <1>11 DEF Stop
  <1>12. CASE Age \/ ExpireCurrentKeypairs
    BY <1>3, <1>12 DEF Age, ExpireCurrentKeypairs
  <1> QED BY <1>5, <1>6, <1>7, <1>8, <1>9, <1>10, <1>11, <1>12 DEF Next

-----------------------------------------------------------------------------
(* The invariant *)

LEMMA QuietInv ==
    ASSUME NonceInv, UNCHANGED <<caller, sendNonce>>, current' \in Keypair \cup {None}
    PROVE  NonceInv'
  BY StillInv DEF NonceInv

LEMMA ExpireInv == NonceInv /\ ExpireCurrentKeypairs => NonceInv'
  <1> SUFFICES ASSUME NonceInv, ExpireCurrentKeypairs PROVE NonceInv'
    OBVIOUS
  <1>1. /\ sendNonce \in [Keypair -> Nat] /\ current \in Keypair /\ limit \in Nat
        /\ UNCHANGED <<current, caller>> /\ sendNonce' = [sendNonce EXCEPT ![current] = limit]
    BY OutboundAssumption DEF NonceInv, ExpireCurrentKeypairs
  <1>2. /\ sendNonce' \in [Keypair -> Nat]
        /\ \A j \in Keypair : sendNonce[j] >= limit => sendNonce'[j] >= limit
    BY SMT, <1>1
  <1> QED BY <1>1, <1>2, StillInv

LEMMA NextInv == NonceInv /\ BoundOK /\ [Next]_vars => NonceInv'
  <1> SUFFICES ASSUME NonceInv, BoundOK, [Next]_vars PROVE NonceInv'
    OBVIOUS
  <1>1. CASE UNCHANGED vars
    BY <1>1, QuietInv DEF vars, keys, NonceInv
  <1>2. CASE \E t \in Callers : ReadFromTUN(t) \/ SendKeepalive(t) \/ Call(t)
    BY <1>2, StagingInv, TopInv, TakeInv, AssignNonceInv, StoreLimitInv, LockBoxInv, QueueInv DEF Call
  <1>3. CASE (\E w \in Encrypters : Encrypt(w)) \/ Send \/ Stop \/ Start \/ FlushStagedPackets \/ Age
    BY <1>3, QuietInv DEF NonceInv, keys, Encrypt, StartEncryption, FinishEncryption,
       Send, SenderReceive, SenderDrop, SenderSend, Stop, Start, FlushStagedPackets, Age
  <1>4. CASE Lifecycle
    BY <1>4, QuietInv DEF NonceInv, keys, Lifecycle, StopSignal, StopWait, StartFlush, StartRoutine
  <1>5. CASE NewSession
    <2>1. bound.keypair \in Keypair
      BY SMT, <1>5, OutboundAssumption DEF NewSession, BoundOK, Keypair
    <2> QED BY <1>5, <2>1, QuietInv DEF NewSession
  <1>6. CASE ExpireCurrentKeypairs
    BY <1>6, ExpireInv
  <1> QED BY <1>1, <1>2, <1>3, <1>4, <1>5, <1>6 DEF Next

LEMMA SpecInv == Spec => [](NonceInv /\ BoundOK)
  <1>1. Init => NonceInv /\ BoundOK
    BY InitNonce, InitBound
  <1>2. (NonceInv /\ BoundOK) /\ [Next]_vars => (NonceInv /\ BoundOK)'
    BY NextInv, NextBound
  <1> QED BY <1>1, <1>2, PTL DEF Spec

-----------------------------------------------------------------------------
(* The refinement *)

\* A step that changes no counter, or changes one only beyond the limit, is a stutter.
LEMMA Stutter ==
    ASSUME UNCHANGED issued, NextNonce' = NextNonce
    PROVE  [Counter!Next]_<<NextNonce, issued>>
  OBVIOUS

LEMMA AssignNonceRefines ==
    ASSUME NonceInv, NEW t \in Callers, AssignNonce(t)
    PROVE  [Counter!Next]_<<NextNonce, issued>>
  <1> DEFINE k == caller[t].keypair
  <1>1. /\ k \in Keypair /\ sendNonce[k] \in Nat
        /\ sendNonce' = [sendNonce EXCEPT ![k] = sendNonce[k] + 1]
        /\ sendNonce[k] < limit => issued' = issued \cup {<<k, sendNonce[k]>>}
        /\ ~(sendNonce[k] < limit) => UNCHANGED issued
    BY AssignNonceFacts
  <1> HIDE DEF k
  <1>2. sendNonce \in [Keypair -> Nat] /\ limit \in Nat
    BY OutboundAssumption DEF NonceInv
  <1>3. CASE sendNonce[k] < limit
    <2>1. NextNonce[k] = sendNonce[k] /\ NextNonce[k] < limit
      BY <1>1, <1>3 DEF NextNonce
    <2>2. NextNonce' = [NextNonce EXCEPT ![k] = NextNonce[k] + 1]
      <3>1. sendNonce'[k] = sendNonce[k] + 1 /\ \A j \in Keypair \ {k} : sendNonce'[j] = sendNonce[j]
        BY <1>1, <1>2
      <3>2. NextNonce'[k] = NextNonce[k] + 1
        BY SMT, <1>1, <1>2, <1>3, <3>1 DEF NextNonce
      <3>3. \A j \in Keypair \ {k} : NextNonce'[j] = NextNonce[j]
        BY <3>1 DEF NextNonce
      <3>4. DOMAIN NextNonce = Keypair /\ NextNonce' = [j \in Keypair |-> NextNonce'[j]]
        BY DEF NextNonce
      <3> HIDE DEF NextNonce
      <3> QED BY <1>1, <3>2, <3>3, <3>4
    <2>3. Counter!Issue(k)
      BY <1>1, <1>3, <2>1, <2>2 DEF Counter!Issue
    <2> QED BY <1>1, <2>3 DEF Counter!Next
  <1>4. CASE ~(sendNonce[k] < limit)
    <2>1. NextNonce' = NextNonce
      BY SMT, <1>1, <1>2, <1>4 DEF NextNonce
    <2> QED BY <1>1, <1>4, <2>1, Stutter
  <1> QED BY <1>3, <1>4

LEMMA StoreLimitRefines ==
    ASSUME NonceInv, NEW t \in Callers, StoreLimit(t)
    PROVE  [Counter!Next]_<<NextNonce, issued>>
  <1> DEFINE k == caller[t].keypair
  <1>1. k \in Keypair /\ UNCHANGED issued /\ sendNonce' = [sendNonce EXCEPT ![k] = limit] /\ sendNonce[k] >= limit
    BY CallerFacts DEF StoreLimit, WithKeypair
  <1> HIDE DEF k
  <1>2. sendNonce \in [Keypair -> Nat] /\ limit \in Nat
    BY OutboundAssumption DEF NonceInv
  <1>3. NextNonce' = NextNonce
    BY SMT, <1>1, <1>2 DEF NextNonce
  <1> QED BY <1>1, <1>3, Stutter

LEMMA ExpireRefines ==
    ASSUME NonceInv, ExpireCurrentKeypairs
    PROVE  [Counter!Next]_<<NextNonce, issued>>
  <1>1. current \in Keypair /\ UNCHANGED issued /\ sendNonce' = [sendNonce EXCEPT ![current] = limit]
    BY DEF ExpireCurrentKeypairs, NonceInv
  <1>2. sendNonce \in [Keypair -> Nat] /\ limit \in Nat
    BY OutboundAssumption DEF NonceInv
  <1>3. NextNonce' = [j \in Keypair |-> IF j \in {current} THEN limit ELSE NextNonce[j]]
    BY <1>1, <1>2 DEF NextNonce
  <1>4. Counter!Expire({current})
    BY <1>1, <1>3 DEF Counter!Expire
  <1> QED BY <1>1, <1>4 DEF Counter!Next

LEMMA StepRefines == NonceInv /\ [Next]_vars => [Counter!Next]_<<NextNonce, issued>>
  <1> SUFFICES ASSUME NonceInv, [Next]_vars PROVE [Counter!Next]_<<NextNonce, issued>>
    OBVIOUS
  <1>1. CASE UNCHANGED <<sendNonce, issued>>
    BY <1>1, Stutter DEF NextNonce
  <1>2. CASE \E t \in Callers : AssignNonce(t)
    BY <1>2, AssignNonceRefines
  <1>3. CASE \E t \in Callers : StoreLimit(t)
    BY <1>3, StoreLimitRefines
  <1>4. CASE ExpireCurrentKeypairs
    BY <1>4, ExpireRefines
  <1>5. CASE UNCHANGED vars
    BY <1>1, <1>5 DEF vars, keys
  <1>6. CASE \E t \in Callers : ReadFromTUN(t) \/ SendKeepalive(t) \/ StageKeepalive(t) \/ Top(t) \/ Take(t)
                                \/ LockBox(t) \/ CheckRunning(t) \/ PushOutbound(t) \/ PushEncryption(t)
    BY ZenonT(30), <1>1, <1>6 DEF keys, ReadFromTUN, SendKeepalive, StageKeepalive, Top, Take, LockBox, CheckRunning, PushOutbound, PushEncryption
  <1>7. CASE (\E w \in Encrypters : Encrypt(w)) \/ Send \/ Lifecycle \/ Stop \/ Start \/ FlushStagedPackets \/ NewSession \/ Age
    BY <1>1, <1>7 DEF keys, Encrypt, StartEncryption, FinishEncryption, Send, SenderReceive, SenderDrop, SenderSend,
       Lifecycle, StopSignal, StopWait, StartFlush, StartRoutine, Stop, Start, FlushStagedPackets, NewSession, Age
  <1> QED BY <1>2, <1>3, <1>4, <1>5, <1>6, <1>7 DEF Next, Call

\* The send counters implement NonceCounter: however callers interleave, and although
\* SendStagedPackets and ExpireCurrentKeypairs store the limit over what others have
\* added, no nonce of a keypair is given to two elements, and none at or above the limit.
THEOREM NonceGivenOnceHolds == Spec => NonceGivenOnce
  <1>1. Init => Counter!Init
    <2> SUFFICES ASSUME Init PROVE Counter!Init
      OBVIOUS
    <2>1. NextNonce = [k \in Keypair |-> 0]
      BY SMT, OutboundAssumption DEF Init, NextNonce
    <2> QED BY <2>1 DEF Init, Counter!Init
  <1>2. (NonceInv /\ BoundOK) /\ [Next]_vars => [Counter!Next]_<<NextNonce, issued>>
    BY StepRefines
  <1> QED BY <1>1, <1>2, SpecInv, PTL DEF Spec, NonceGivenOnce, Counter!Spec

-----------------------------------------------------------------------------
(* Who has a container *)

\* P is the pool, S what is staged, O what waits for its turn to be sent, L what is locked,
\* own[t] what caller t alone has; E, enc[t] and of[w] are on their way to encryption.
\* A container is in one of P, S, O and own, and one on its way to encryption is locked,
\* waits for its turn, and goes there once.
Apart(P, S, O, own) ==
    /\ P \cap S = {} /\ P \cap O = {} /\ S \cap O = {}
    /\ \A t \in Callers : own[t] \cap (P \cup S \cup O) = {}
    /\ \A t, u \in Callers : t # u => own[t] \cap own[u] = {}

Encrypted(O, L, E, enc, of) ==
    /\ E \subseteq O \cap L
    /\ \A t \in Callers : enc[t] \subseteq (O \cap L) \ E
    /\ \A w \in Encrypters : of[w] \subseteq (O \cap L) \ E
    /\ \A t \in Callers, w \in Encrypters : enc[t] \cap of[w] = {}
    /\ \A t, u \in Callers : t # u => enc[t] \cap enc[u] = {}
    /\ \A w, v \in Encrypters : w # v => of[w] \cap of[v] = {}

\* A container from the pool is staged, and containers D that were staged are put back.
LEMMA StageApart ==
    ASSUME NEW P, NEW S, NEW O, NEW own, Apart(P, S, O, own), NEW c \in P, NEW D \in SUBSET S
    PROVE  Apart((P \ {c}) \cup D, (S \ D) \cup {c}, O, own)
  BY DEF Apart

\* Containers D that were staged are put back.
LEMMA FlushApart ==
    ASSUME NEW P, NEW S, NEW O, NEW own, Apart(P, S, O, own), NEW D \in SUBSET S
    PROVE  Apart(P \cup D, S \ D, O, own)
  BY DEF Apart

LEMMA TakeApart ==
    ASSUME NEW P, NEW S, NEW O, NEW own, NEW mine, Apart(P, S, O, own), NEW c \in S, NEW t \in Callers, own[t] = {},
           mine[t] = {c}, \A u \in Callers \ {t} : mine[u] = own[u]
    PROVE  Apart(P, S \ {c}, O, mine)
  BY SMT DEF Apart

\* A caller puts what it has back.
LEMMA PutApart ==
    ASSUME NEW P, NEW S, NEW O, NEW own, NEW mine, Apart(P, S, O, own), NEW t \in Callers,
           mine[t] = {}, \A u \in Callers \ {t} : mine[u] = own[u]
    PROVE  Apart(P \cup own[t], S, O, mine)
  BY DEF Apart

\* A caller puts what it has into the outbound queue.
LEMMA PushApart ==
    ASSUME NEW P, NEW S, NEW O, NEW own, NEW mine, Apart(P, S, O, own), NEW t \in Callers,
           mine[t] = {}, \A u \in Callers \ {t} : mine[u] = own[u]
    PROVE  Apart(P, S, O \cup own[t], mine)
  BY DEF Apart

\* What had its turn is put back, or lost.
LEMMA DoneApart ==
    ASSUME NEW P, NEW S, NEW O, NEW own, Apart(P, S, O, own), NEW c \in O
    PROVE  Apart(P \cup {c}, S, O \ {c}, own) /\ Apart(P, S, O \ {c}, own)
  BY DEF Apart

\* Nothing on its way to encryption is touched by what others lock and unlock.
LEMMA OtherEncrypted ==
    ASSUME NEW O, NEW L, NEW E, NEW enc, NEW of, Encrypted(O, L, E, enc, of),
           NEW O2, NEW L2, O \cap L \subseteq O2 \cap L2
    PROVE  Encrypted(O2, L2, E, enc, of)
  BY DEF Encrypted

LEMMA PushEncrypted ==
    ASSUME NEW O, NEW L, NEW E, NEW enc, NEW of, NEW mine, Encrypted(O, L, E, enc, of),
           NEW c \in L \ O, NEW t \in Callers,
           mine[t] = {c}, \A u \in Callers \ {t} : mine[u] = enc[u]
    PROVE  Encrypted(O \cup {c}, L, E, mine, of)
  BY SMT DEF Encrypted

LEMMA QueueEncrypted ==
    ASSUME NEW O, NEW L, NEW E, NEW enc, NEW of, NEW mine, Encrypted(O, L, E, enc, of),
           NEW t \in Callers, mine[t] = {}, \A u \in Callers \ {t} : mine[u] = enc[u]
    PROVE  Encrypted(O, L, E \cup enc[t], mine, of)
  BY SMT DEF Encrypted

LEMMA StartEncrypted ==
    ASSUME NEW O, NEW L, NEW E, NEW enc, NEW of, NEW its, Encrypted(O, L, E, enc, of),
           NEW c \in E, NEW w \in Encrypters, of[w] = {},
           its[w] = {c}, \A v \in Encrypters \ {w} : its[v] = of[v]
    PROVE  Encrypted(O, L, E \ {c}, enc, its)
  BY SMT DEF Encrypted

LEMMA FinishEncrypted ==
    ASSUME NEW O, NEW L, NEW E, NEW enc, NEW of, NEW its, Encrypted(O, L, E, enc, of),
           NEW c, NEW w \in Encrypters, of[w] = {c},
           its[w] = {}, \A v \in Encrypters \ {w} : its[v] = of[v]
    PROVE  Encrypted(O, L \ {c}, E, enc, its)
  BY SMT DEF Encrypted

-----------------------------------------------------------------------------
(* The queues *)

Once(q) == \A i, j \in DOMAIN q : i # j => q[i] # q[j]

LEMMA AppendOnce ==
    ASSUME NEW X, NEW q \in Seq(X), NEW x \in X
    PROVE  /\ Append(q, x) \in Seq(X) /\ Range(Append(q, x)) = Range(q) \cup {x}
           /\ Once(q) /\ x \notin Range(q) => Once(Append(q, x))
  <1> DEFINE n == Len(q)  r == Append(q, x)
  <1>1. n \in Nat /\ DOMAIN q = 1 .. n /\ DOMAIN r = 1 .. n + 1 /\ r \in Seq(X)
    BY SMT
  <1>2. r[n + 1] = x /\ \A i \in 1 .. n : r[i] = q[i]
    BY SMT
  <1> HIDE DEF n, r
  <1>3. Range(r) = Range(q) \cup {x}
    BY SMT, <1>1, <1>2 DEF Range
  <1>4. Once(q) /\ x \notin Range(q) => Once(r)
    BY SMT, <1>1, <1>2 DEF Once, Range
  <1> QED BY <1>1, <1>3, <1>4 DEF r

LEMMA TailOnce ==
    ASSUME NEW X, NEW q \in Seq(X), q # <<>>, Once(q)
    PROVE  /\ Tail(q) \in Seq(X) /\ Once(Tail(q)) /\ Head(q) \in X
           /\ Range(Tail(q)) = Range(q) \ {Head(q)} /\ Head(q) \in Range(q)
  <1> DEFINE n == Len(q)  r == Tail(q)
  <1>1. n \in Nat \ {0} /\ DOMAIN q = 1 .. n /\ DOMAIN r = 1 .. n - 1 /\ r \in Seq(X) /\ Head(q) = q[1]
    BY SMT
  <1>2. \A i \in 1 .. n - 1 : r[i] = q[i + 1]
    BY SMT
  <1> HIDE DEF n, r
  <1>3. Once(r)
    <2> SUFFICES ASSUME NEW i \in 1 .. n - 1, NEW j \in 1 .. n - 1, i # j PROVE r[i] # r[j]
      BY <1>1 DEF Once
    <2>1. i + 1 \in DOMAIN q /\ j + 1 \in DOMAIN q /\ i + 1 # j + 1
      BY SMT, <1>1
    <2> QED BY <1>2, <2>1 DEF Once
  <1>4. \A y : y \in Range(r) <=> y \in Range(q) /\ y # q[1]
    <2> TAKE y
    <2>1. ASSUME y \in Range(r) PROVE y \in Range(q) /\ y # q[1]
      <3>1. PICK i \in 1 .. n - 1 : y = r[i]
        BY <2>1, <1>1 DEF Range
      <3>2. y = q[i + 1] /\ i + 1 \in DOMAIN q /\ i + 1 # 1 /\ 1 \in DOMAIN q
        BY SMT, <3>1, <1>1, <1>2
      <3> QED BY <3>2 DEF Range, Once
    <2>2. ASSUME y \in Range(q), y # q[1] PROVE y \in Range(r)
      <3>1. PICK i \in 1 .. n : y = q[i]
        BY <2>2, <1>1 DEF Range
      <3>2. i - 1 \in 1 .. n - 1 /\ r[i - 1] = y
        BY SMT, <2>2, <3>1, <1>1, <1>2
      <3> QED BY <3>2, <1>1 DEF Range
    <2> QED BY <2>1, <2>2
  <1>5. q[1] \in Range(q) /\ q[1] \in X
    BY SMT, <1>1 DEF Range
  <1> QED BY <1>1, <1>3, <1>4, <1>5 DEF r

-----------------------------------------------------------------------------
(* The invariant *)

Held == {"nonce", "over", "running", "outbound"}

Turn == (Range(outbound) \ {Nil}) \cup ({sender.box} \ {None})
Owned == [t \in Callers |-> IF caller[t].pc \in Held THEN {caller[t].box} ELSE {}]
ToEncrypt == [t \in Callers |-> IF caller[t].pc = "encryption" THEN {caller[t].box} ELSE {}]
AtWorker == [w \in Encrypters |-> {encrypting[w]} \ {None}]

\* A caller has a container exactly in the steps that use one, and locks it before it
\* looks whether the peer runs.
BoxOK(c) ==
    /\ c.pc \in Held \cup {"encryption"} => c.box \in Containers
    /\ c.pc \notin Held \cup {"encryption"} => c.box = None
    /\ c.pc \in {"running", "outbound"} => c.box \in locked

Shapes ==
    /\ pool \subseteq Containers
    /\ staged \in Seq(Containers) /\ Once(staged)
    /\ encryption \in Seq(Containers) /\ Once(encryption)
    /\ encrypting \in [Encrypters -> Containers \cup {None}]

\* The sender has left its container's place in the queue, and the one sentinel that Stop
\* puts there is gone when the sender is.
SenderOK ==
    /\ outbound \in Seq(Containers \cup {Nil}) /\ Once(outbound)
    /\ sender \in [pc : {"recv", "send", "drop", "off"}, box : Containers \cup {None}]
    /\ sender.box = None <=> sender.pc \in {"recv", "off"}
    /\ sender.box \notin Range(outbound)
    /\ Nil \in Range(outbound) => life = "waiting" /\ sender.pc # "off"
    /\ sender.pc = "off" <=> life \in {"stopped", "starting"} \/ (life = "waiting" /\ Nil \notin Range(outbound))

OwnInv ==
    /\ Shapes /\ SenderOK
    /\ \A t \in Callers : BoxOK(caller[t])
    /\ Apart(pool, Range(staged), Turn, Owned)
    /\ Encrypted(Turn, locked, Range(encryption), ToEncrypt, AtWorker)

LEMMA RangeEmpty == Range(<<>>) = {} /\ Once(<<>>)
  BY SMT DEF Range, Once

LEMMA InitOwn == Init => OwnInv
  <1> SUFFICES ASSUME Init PROVE OwnInv
    OBVIOUS
  <1>0. None \notin Containers /\ Nil \notin Containers
    BY OutboundAssumption
  <1>1. Shapes
    BY SMT, RangeEmpty DEF Init, Shapes
  <1>2. SenderOK
    BY SMT, <1>0, RangeEmpty DEF Init, SenderOK
  <1>3. \A t \in Callers : caller[t].pc = "idle" /\ caller[t].box = None
    BY DEF Init, Idle
  <1>4. Turn = {} /\ (\A t \in Callers : Owned[t] = {} /\ ToEncrypt[t] = {}) /\ \A w \in Encrypters : AtWorker[w] = {}
    BY <1>3, RangeEmpty DEF Init, Turn, Owned, ToEncrypt, AtWorker, Held
  <1>5. \A t \in Callers : BoxOK(caller[t])
    BY <1>3 DEF BoxOK, Held
  <1>6. Apart(pool, Range(staged), Turn, Owned)
    BY <1>4, RangeEmpty DEF Init, Apart
  <1>7. Encrypted(Turn, locked, Range(encryption), ToEncrypt, AtWorker)
    BY <1>4, RangeEmpty DEF Init, Encrypted
  <1> QED BY <1>1, <1>2, <1>5, <1>6, <1>7 DEF OwnInv

-----------------------------------------------------------------------------
(* The steps that touch no container *)

LEMMA BoxDistinct == None \notin Containers /\ Nil \notin Containers /\ None # Nil
  BY OutboundAssumption

\* Step by step it is enough to look at the caller that moves.
LEMMA MovesOthers ==
    ASSUME NEW t \in Callers, Moves(t)
    PROVE  \A u \in Callers \ {t} : Owned'[u] = Owned[u] /\ ToEncrypt'[u] = ToEncrypt[u]
  BY DEF Moves, Owned, ToEncrypt, Held

LEMMA MovesBoxes ==
    ASSUME OwnInv, NEW t \in Callers, Moves(t), BoxOK(caller[t])',
           \A u \in Callers \ {t} : Owned[u] \cap locked \subseteq locked'
    PROVE  \A u \in Callers : BoxOK(caller[u])'
  <1> SUFFICES ASSUME NEW u \in Callers, u # t PROVE BoxOK(caller[u])'
    OBVIOUS
  <1>1. caller'[u] = caller[u] /\ BoxOK(caller[u]) /\ Owned[u] \cap locked \subseteq locked'
    BY DEF Moves, OwnInv
  <1> QED BY <1>1 DEF BoxOK, Owned, Held

\* The steps at which a caller has no container.
Free == {"idle", "keepalive", "top", "take"}

LEMMA FreeMove ==
    ASSUME OwnInv, NEW t \in Callers, Moves(t), caller[t].pc \in Free, caller'[t].pc \in Free, caller'[t].box = None,
           \A u \in Callers \ {t} : Owned[u] \cap locked \subseteq locked'
    PROVE  Owned' = Owned /\ ToEncrypt' = ToEncrypt /\ \A u \in Callers : BoxOK(caller[u])'
  <1>1. BoxOK(caller[t])'
    BY DEF BoxOK, Free, Held
  <1>2. Owned[t] = {} /\ Owned'[t] = {} /\ ToEncrypt[t] = {} /\ ToEncrypt'[t] = {}
    BY DEF Owned, ToEncrypt, Free, Held
  <1>3. \A u \in Callers : Owned'[u] = Owned[u] /\ ToEncrypt'[u] = ToEncrypt[u]
    BY <1>2, MovesOthers
  <1>4. Owned' = Owned /\ ToEncrypt' = ToEncrypt
    BY <1>3 DEF Owned, ToEncrypt
  <1> QED BY <1>1, <1>4, MovesBoxes

\* What the ownership is about, except for the callers.
boxes == <<pool, locked, queues, encrypting, sender, life>>

LEMMA QuietOwn ==
    ASSUME OwnInv, UNCHANGED boxes, Owned' = Owned, ToEncrypt' = ToEncrypt, \A u \in Callers : BoxOK(caller[u])'
    PROVE  OwnInv'
  <1>1. UNCHANGED <<pool, locked, staged, outbound, encryption, encrypting, sender, life>>
    BY DEF boxes, queues
  <1>2. Turn' = Turn /\ AtWorker' = AtWorker
    BY <1>1 DEF Turn, AtWorker
  <1>3. Shapes' /\ SenderOK'
    BY <1>1 DEF OwnInv, Shapes, SenderOK
  <1> QED BY <1>1, <1>2, <1>3 DEF OwnInv

LEMMA SameCallers ==
    ASSUME OwnInv, UNCHANGED caller, \A u \in Callers : Owned[u] \cap locked \subseteq locked'
    PROVE  Owned' = Owned /\ ToEncrypt' = ToEncrypt /\ \A u \in Callers : BoxOK(caller[u])'
  <1>1. Owned' = Owned /\ ToEncrypt' = ToEncrypt
    BY DEF Owned, ToEncrypt
  <1>2. ASSUME NEW u \in Callers PROVE BoxOK(caller[u])'
    <2>1. BoxOK(caller[u]) /\ Owned[u] \cap locked \subseteq locked'
      BY DEF OwnInv
    <2> QED BY <2>1 DEF BoxOK, Owned, Held
  <1> QED BY <1>1, <1>2

LEMMA FreeBox ==
    ASSUME OwnInv, NEW t \in Callers, caller[t].pc \in Free
    PROVE  caller[t].box = None
  BY DEF OwnInv, BoxOK, Free, Held

LEMMA GoBox ==
    ASSUME NEW t \in Callers, DOMAIN caller = Callers, DOMAIN caller[t] = Fields, NEW pc, Go(t, pc)
    PROVE  caller'[t].box = caller[t].box
  BY DEF Go, Fields

LEMMA CallerQuietOwn ==
    ASSUME OwnInv, NonceInv, NEW t \in Callers, SendKeepalive(t) \/ Top(t) \/ AssignNonce(t) \/ StoreLimit(t)
    PROVE  OwnInv'
  <1>c. DOMAIN caller = Callers /\ DOMAIN caller[t] = Fields
    BY CallerFacts
  <1>0. UNCHANGED boxes
    BY DEF SendKeepalive, Top, AssignNonce, StoreLimit, boxes, peer
  <1>1. CASE SendKeepalive(t) \/ Top(t)
    <2>1. CASE SendKeepalive(t)
      <3>1. PICK pc \in {"keepalive", "top"} : Go(t, pc)
        BY <2>1 DEF SendKeepalive
      <3>2. Moves(t) /\ caller[t].pc \in Free /\ caller'[t].pc \in Free /\ caller'[t].box = None
        BY <1>c, <2>1, <3>1, GoMoves, GoBox, FreeBox DEF SendKeepalive, Free
      <3> QED BY <1>0, <3>2, FreeMove, QuietOwn DEF boxes
    <2>2. CASE Top(t)
      <3>1. caller[t].pc \in Free /\ caller[t].box = None
        BY <2>2, FreeBox DEF Top, Free
      <3>2. CASE caller' = [caller EXCEPT ![t] = Idle]
        BY <1>c, <1>0, <3>1, <3>2, IdleMoves, FreeMove, QuietOwn DEF boxes, Free, Idle
      <3>3. CASE caller' = [caller EXCEPT ![t].pc = "take", ![t].keypair = current]
        <4>1. Moves(t) /\ caller'[t].pc = "take" /\ caller'[t].box = None
          BY <1>c, <3>1, <3>3 DEF Moves, Fields
        <4> QED BY <1>0, <3>1, <4>1, FreeMove, QuietOwn DEF boxes, Free
      <3> QED BY <2>2, <3>2, <3>3 DEF Top
    <2> QED BY <1>1, <2>1, <2>2
  <1>2. CASE AssignNonce(t) \/ StoreLimit(t)
    <2>1. caller[t].pc \in {"nonce", "over"}
      BY <1>2 DEF AssignNonce, StoreLimit
    <2>2. Moves(t) /\ caller'[t].pc \in {"nonce", "over"} /\ caller'[t].box = caller[t].box
      <3>1. CASE AssignNonce(t)
        BY <3>1, AssignNonceFacts
      <3>2. CASE StoreLimit(t)
        BY <1>c, <3>2, GoMoves, GoBox DEF StoreLimit
      <3> QED BY <1>2, <3>1, <3>2
    <2>3. Owned'[t] = Owned[t] /\ ToEncrypt'[t] = ToEncrypt[t]
      BY <2>1, <2>2 DEF Owned, ToEncrypt, Held
    <2>4. Owned' = Owned /\ ToEncrypt' = ToEncrypt
      <3>1. \A u \in Callers : Owned'[u] = Owned[u] /\ ToEncrypt'[u] = ToEncrypt[u]
        BY <2>2, <2>3, MovesOthers
      <3> QED BY <3>1 DEF Owned, ToEncrypt
    <2>5. BoxOK(caller[t])'
      <3>1. BoxOK(caller[t])
        BY DEF OwnInv
      <3> QED BY <2>1, <2>2, <3>1 DEF BoxOK, Held
    <2> QED BY <1>0, <2>2, <2>4, <2>5, MovesBoxes, QuietOwn DEF boxes
  <1> QED BY <1>1, <1>2

-----------------------------------------------------------------------------
(* Staging and flushing *)

\* Nobody on the way to encryption, and no caller, loses a lock when a container of the
\* pool gets a new one.
LEMMA PoolUnlocks ==
    ASSUME OwnInv, NEW c \in pool
    PROVE  /\ \A u \in Callers : Owned[u] \cap locked \subseteq locked \ {c}
           /\ Turn \cap locked \subseteq Turn \cap (locked \ {c})
  BY DEF OwnInv, Apart

LEMMA StagePacketsFacts ==
    ASSUME OwnInv, NEW c \in pool
    PROVE  /\ StagePackets(c).queue \in Seq(Containers) /\ Once(StagePackets(c).queue)
           /\ StagePackets(c).dropped \subseteq Range(staged)
           /\ Range(StagePackets(c).queue) = (Range(staged) \ StagePackets(c).dropped) \cup {c}
  <1>1. c \in Containers /\ staged \in Seq(Containers) /\ Once(staged) /\ c \notin Range(staged)
    BY DEF OwnInv, Shapes, Apart
  <1>2. CASE Len(staged) < QueueStagedSize
    <2>1. StagePackets(c).queue = Append(staged, c) /\ StagePackets(c).dropped = {}
      BY <1>2 DEF StagePackets
    <2> QED BY SMT, <1>1, <2>1, AppendOnce
  <1>3. CASE ~(Len(staged) < QueueStagedSize)
    <2>1. StagePackets(c).queue = Append(Tail(staged), c) /\ StagePackets(c).dropped = {Head(staged)}
      BY <1>3 DEF StagePackets
    <2>2. staged # <<>>
      BY <1>1, <1>3, OutboundAssumption
    <2>3. /\ Tail(staged) \in Seq(Containers) /\ Once(Tail(staged))
          /\ Range(Tail(staged)) = Range(staged) \ {Head(staged)} /\ Head(staged) \in Range(staged)
      BY <1>1, <2>2, TailOnce
    <2> DEFINE q == Tail(staged)
    <2> HIDE DEF q
    <2>4. q \in Seq(Containers) /\ Once(q) /\ c \notin Range(q)
      BY <1>1, <2>3 DEF q
    <2>5. Append(q, c) \in Seq(Containers) /\ Once(Append(q, c)) /\ Range(Append(q, c)) = Range(q) \cup {c}
      BY SMT, <1>1, <2>4, AppendOnce
    <2> QED BY <2>1, <2>3, <2>5 DEF q
  <1> QED BY <1>2, <1>3

LEMMA GetFromPool == pool # {} => GetContainer \in pool
  BY DEF GetContainer

\* A container of the pool is staged, by a caller that has none.
LEMMA StageOwn ==
    ASSUME OwnInv, NEW c \in pool, NEW s, Stage(c, s), Owned' = Owned, ToEncrypt' = ToEncrypt,
           \A u \in Callers : BoxOK(caller[u])', UNCHANGED <<outbound, encryption, encrypting, sender, life>>
    PROVE  OwnInv'
  <1> DEFINE D == StagePackets(c).dropped
  <1>1. /\ staged' = StagePackets(c).queue /\ pool' = (pool \ {c}) \cup D /\ locked' = locked \ {c}
    BY DEF Stage
  <1>2. /\ staged' \in Seq(Containers) /\ Once(staged') /\ D \in SUBSET Range(staged)
        /\ Range(staged') = (Range(staged) \ D) \cup {c}
    BY <1>1, StagePacketsFacts
  <1> HIDE DEF D
  <1>3. Turn' = Turn /\ AtWorker' = AtWorker /\ Range(encryption)' = Range(encryption) /\ Range(staged)' = Range(staged')
    BY DEF Turn, AtWorker
  <1>4. Apart(pool, Range(staged), Turn, Owned)'
    <2>1. Apart((pool \ {c}) \cup D, (Range(staged) \ D) \cup {c}, Turn, Owned)
      BY <1>2, StageApart DEF OwnInv
    <2> QED BY <1>1, <1>2, <1>3, <2>1
  <1>5. Encrypted(Turn, locked, Range(encryption), ToEncrypt, AtWorker)'
    <2>1. Encrypted(Turn, locked', Range(encryption), ToEncrypt, AtWorker)
      BY <1>1, PoolUnlocks, OtherEncrypted DEF OwnInv
    <2> QED BY <1>3, <2>1
  <1>6. Shapes'
    <2>1. pool \subseteq Containers /\ Range(staged) \subseteq Containers
      BY SMT DEF OwnInv, Shapes, Range
    <2> QED BY <1>1, <1>2, <2>1 DEF OwnInv, Shapes
  <1>7. SenderOK'
    BY DEF OwnInv, SenderOK
  <1> QED BY <1>4, <1>5, <1>6, <1>7 DEF OwnInv

LEMMA StagingOwn ==
    ASSUME OwnInv, NonceInv, NEW t \in Callers, ReadFromTUN(t) \/ StageKeepalive(t)
    PROVE  OwnInv'
  <1>c. DOMAIN caller = Callers /\ DOMAIN caller[t] = Fields
    BY CallerFacts
  <1>0. caller[t].pc \in Free /\ UNCHANGED <<outbound, encryption, encrypting, sender, life>>
    BY DEF ReadFromTUN, StageKeepalive, Free, peer
  <1>1. ASSUME NEW s, pool # {}, Stage(GetContainer, s), Go(t, "top") PROVE OwnInv'
    <2>1. GetContainer \in pool /\ locked' = locked \ {GetContainer}
      BY <1>1, GetFromPool DEF Stage
    <2>2. Moves(t) /\ caller'[t].pc \in Free /\ caller'[t].box = None
      BY <1>c, <1>0, <1>1, GoMoves, GoBox, FreeBox DEF Free
    <2>3. \A u \in Callers : Owned[u] \cap locked \subseteq locked'
      BY <2>1, PoolUnlocks
    <2>4. Owned' = Owned /\ ToEncrypt' = ToEncrypt /\ \A u \in Callers : BoxOK(caller[u])'
      BY <1>0, <2>2, <2>3, FreeMove
    <2> QED BY <1>0, <1>1, <2>1, <2>4, StageOwn
  <1>2. ASSUME UNCHANGED <<pool, locked, staged>>, Go(t, "top") PROVE OwnInv'
    <2>1. Moves(t) /\ caller'[t].pc \in Free /\ caller'[t].box = None
      BY <1>c, <1>0, <1>2, GoMoves, GoBox, FreeBox DEF Free
    <2>2. UNCHANGED boxes
      BY <1>0, <1>2 DEF boxes, queues
    <2> QED BY <1>0, <1>2, <2>1, <2>2, FreeMove, QuietOwn
  <1>3. ASSUME UNCHANGED <<pool, locked, staged, caller>> PROVE OwnInv'
    <2>1. UNCHANGED boxes
      BY <1>0, <1>3 DEF boxes, queues
    <2> QED BY <1>3, <2>1, SameCallers, QuietOwn
  <1>4. CASE ReadFromTUN(t)
    BY <1>1, <1>3, <1>4 DEF ReadFromTUN
  <1>5. CASE StageKeepalive(t)
    BY <1>1, <1>2, <1>5 DEF StageKeepalive
  <1> QED BY <1>4, <1>5

\* FlushStagedPackets, by the timer or by Stop.
LEMMA FlushOwn ==
    ASSUME OwnInv, Flushed, UNCHANGED <<caller, locked, outbound, encryption, encrypting, sender>>, SenderOK'
    PROVE  OwnInv'
  <1>1. staged' = <<>> /\ pool' = pool \cup Range(staged)
    BY DEF Flushed
  <1>2. Turn' = Turn /\ AtWorker' = AtWorker
    BY DEF Turn, AtWorker
  <1>3. Owned' = Owned /\ ToEncrypt' = ToEncrypt /\ \A u \in Callers : BoxOK(caller[u])'
    BY SameCallers
  <1>4. Range(staged)' = Range(staged) \ Range(staged)
    BY <1>1, RangeEmpty
  <1>5. Apart(pool, Range(staged), Turn, Owned)'
    <2>1. Apart(pool \cup Range(staged), Range(staged) \ Range(staged), Turn, Owned)
      BY FlushApart DEF OwnInv
    <2> QED BY <1>1, <1>2, <1>3, <1>4, <2>1
  <1>6. Shapes'
    BY SMT, <1>1, RangeEmpty DEF OwnInv, Shapes, Range
  <1> QED BY <1>2, <1>3, <1>5, <1>6 DEF OwnInv

LEMMA FlushStagedOwn == OwnInv /\ FlushStagedPackets => OwnInv'
  <1> SUFFICES ASSUME OwnInv, FlushStagedPackets PROVE OwnInv'
    OBVIOUS
  <1>1. Flushed /\ UNCHANGED <<caller, locked, outbound, encryption, encrypting, sender, life>>
    BY DEF FlushStagedPackets, peer
  <1>2. SenderOK'
    BY <1>1 DEF OwnInv, SenderOK
  <1> QED BY <1>1, <1>2, FlushOwn

LEMMA StopWaitOwn == OwnInv /\ StopWait => OwnInv'
  <1> SUFFICES ASSUME OwnInv, StopWait PROVE OwnInv'
    OBVIOUS
  <1>1. Flushed /\ UNCHANGED <<caller, locked, outbound, encryption, encrypting, sender>>
    BY DEF StopWait
  <1>2. SenderOK'
    BY <1>1 DEF OwnInv, SenderOK, StopWait, SenderStopped
  <1> QED BY <1>1, <1>2, FlushOwn

-----------------------------------------------------------------------------
(* SendStagedPackets *)

LEMMA TakeOwn ==
    ASSUME OwnInv, NonceInv, NEW t \in Callers, Take(t)
    PROVE  OwnInv'
  <1>c. DOMAIN caller = Callers /\ DOMAIN caller[t] = Fields
    BY CallerFacts
  <1>0. caller[t].pc = "take" /\ caller[t].box = None /\ caller[t].pc \in Free
    BY FreeBox DEF Take, Free
  <1>1. CASE staged = <<>>
    <2>1. UNCHANGED boxes /\ caller' = [caller EXCEPT ![t] = Idle]
      BY <1>1 DEF Take, boxes, queues, peer
    <2>2. Moves(t) /\ caller'[t].pc \in Free /\ caller'[t].box = None
      BY <1>c, <2>1, IdleMoves DEF Free, Idle
    <2> QED BY <1>0, <2>1, <2>2, FreeMove, QuietOwn DEF boxes
  <1>2. CASE staged # <<>>
    <2> DEFINE c == Head(staged)
    <2>1. /\ caller' = [caller EXCEPT ![t] = [@ EXCEPT !.pc = "nonce", !.box = c, !.todo = elems[c]]]
          /\ staged' = Tail(staged)
          /\ UNCHANGED <<pool, locked, outbound, encryption, encrypting, sender, life>>
      BY <1>2 DEF Take, peer
    <2>2. staged \in Seq(Containers) /\ Once(staged)
      BY DEF OwnInv, Shapes
    <2>3. /\ staged' \in Seq(Containers) /\ Once(staged') /\ c \in Containers
          /\ Range(staged)' = Range(staged) \ {c} /\ c \in Range(staged)
      BY <1>2, <2>1, <2>2, TailOnce
    <2> HIDE DEF c
    <2>4. Moves(t) /\ caller'[t].pc = "nonce" /\ caller'[t].box = c
      BY <1>c, <2>1 DEF Moves, Fields
    <2>5. Owned[t] = {} /\ Owned'[t] = {c} /\ ToEncrypt'[t] = {} /\ ToEncrypt[t] = {}
      BY <1>0, <2>4 DEF Owned, ToEncrypt, Held
    <2>6. ToEncrypt' = ToEncrypt
      <3>1. \A u \in Callers : ToEncrypt'[u] = ToEncrypt[u]
        BY <2>4, <2>5, MovesOthers
      <3> QED BY <3>1 DEF ToEncrypt
    <2>7. Turn' = Turn /\ AtWorker' = AtWorker
      BY <2>1 DEF Turn, AtWorker
    <2>8. Apart(pool, Range(staged), Turn, Owned)'
      <3>1. Apart(pool, Range(staged) \ {c}, Turn, Owned')
        BY SMTT(30), <2>3, <2>4, <2>5, MovesOthers, TakeApart DEF OwnInv
      <3> QED BY <2>1, <2>3, <2>7, <3>1
    <2>9. BoxOK(caller[t])'
      BY <2>3, <2>4 DEF BoxOK, Held
    <2>10. \A u \in Callers : BoxOK(caller[u])'
      BY <2>1, <2>4, <2>9, MovesBoxes
    <2>11. Shapes' /\ SenderOK'
      BY <2>1, <2>3 DEF OwnInv, Shapes, SenderOK
    <2> QED BY <2>1, <2>6, <2>7, <2>8, <2>10, <2>11 DEF OwnInv
  <1> QED BY <1>1, <1>2

\* A caller that gives up its container, or passes it on, is left with none.
LEMMA GiveUp ==
    ASSUME OwnInv, NEW t \in Callers, Moves(t), caller[t].pc \in Held, caller'[t].pc \in Free, caller'[t].box = None
    PROVE  /\ Owned[t] = {caller[t].box} /\ Owned'[t] = {} /\ ToEncrypt' = ToEncrypt /\ BoxOK(caller[t])'
           /\ \A u \in Callers \ {t} : Owned'[u] = Owned[u]
  <1>1. Owned[t] = {caller[t].box} /\ Owned'[t] = {} /\ ToEncrypt[t] = {} /\ ToEncrypt'[t] = {}
    BY DEF Owned, ToEncrypt, Held, Free
  <1>2. \A u \in Callers : ToEncrypt'[u] = ToEncrypt[u]
    BY <1>1, MovesOthers
  <1>3. ToEncrypt' = ToEncrypt
    BY <1>2 DEF ToEncrypt
  <1>4. BoxOK(caller[t])'
    BY DEF BoxOK, Held, Free
  <1> QED BY <1>1, <1>3, <1>4, MovesOthers

\* A caller that has its container for itself goes on with it.
LEMMA GoOn ==
    ASSUME OwnInv, NEW t \in Callers, Moves(t), caller[t].pc \in Held, caller'[t].pc \in Held,
           caller'[t].box = caller[t].box
    PROVE  Owned' = Owned /\ ToEncrypt' = ToEncrypt
  <1>1. Owned'[t] = Owned[t] /\ ToEncrypt[t] = {} /\ ToEncrypt'[t] = {}
    BY DEF Owned, ToEncrypt, Held
  <1>2. \A u \in Callers : Owned'[u] = Owned[u] /\ ToEncrypt'[u] = ToEncrypt[u]
    BY <1>1, MovesOthers
  <1> QED BY <1>2 DEF Owned, ToEncrypt

LEMMA AgainBox ==
    ASSUME NEW t \in Callers, DOMAIN caller = Callers, DOMAIN caller[t] = Fields, Again(t)
    PROVE  caller'[t].box = None /\ caller'[t].pc \in Free
  <1> DEFINE r == [Idle EXCEPT !.pc = IF caller[t].ooo # <<>> THEN "top" ELSE "take", !.keypair = caller[t].keypair]
  <1>1. caller' = [caller EXCEPT ![t] = r]
    BY DEF Again
  <1>2. r.box = None /\ r.pc \in Free
    BY DEF Idle, Free
  <1> HIDE DEF r
  <1> QED BY <1>1, <1>2

LEMMA CheckRunningOwn ==
    ASSUME OwnInv, NonceInv, NEW t \in Callers, CheckRunning(t)
    PROVE  OwnInv'
  <1>c. DOMAIN caller = Callers /\ DOMAIN caller[t] = Fields
    BY CallerFacts
  <1>0. /\ caller[t].pc = "running" /\ caller[t].pc \in Held
        /\ UNCHANGED <<locked, staged, outbound, encryption, encrypting, sender, life>>
    BY DEF CheckRunning, queues, peer, Held
  <1>1. CASE running
    <2>1. Go(t, "outbound") /\ UNCHANGED pool
      BY <1>1 DEF CheckRunning
    <2>2. Moves(t) /\ caller'[t].pc = "outbound" /\ caller'[t].box = caller[t].box
      BY <1>c, <2>1, GoMoves, GoBox
    <2>3. Owned' = Owned /\ ToEncrypt' = ToEncrypt
      BY <1>0, <2>2, GoOn DEF Held
    <2>4. BoxOK(caller[t])'
      <3>1. BoxOK(caller[t])
        BY DEF OwnInv
      <3> QED BY <1>0, <2>2, <3>1 DEF BoxOK, Held
    <2>5. UNCHANGED boxes
      BY <1>0, <2>1 DEF boxes, queues
    <2> QED BY <1>0, <2>2, <2>3, <2>4, <2>5, MovesBoxes, QuietOwn
  <1>2. CASE ~running
    <2>1. Again(t) /\ pool' = pool \cup {caller[t].box}
      BY <1>2 DEF CheckRunning
    <2>2. Moves(t) /\ caller'[t].pc \in Free /\ caller'[t].box = None
      BY <1>c, <2>1, AgainMoves, AgainBox
    <2>3. /\ Owned[t] = {caller[t].box} /\ Owned'[t] = {} /\ ToEncrypt' = ToEncrypt /\ BoxOK(caller[t])'
          /\ \A u \in Callers \ {t} : Owned'[u] = Owned[u]
      BY <1>0, <2>2, GiveUp
    <2>4. Turn' = Turn /\ AtWorker' = AtWorker
      BY <1>0 DEF Turn, AtWorker
    <2>5. Apart(pool, Range(staged), Turn, Owned)'
      <3>1. Apart(pool \cup Owned[t], Range(staged), Turn, Owned')
        BY <2>3, PutApart DEF OwnInv
      <3> QED BY <1>0, <2>1, <2>3, <2>4, <3>1
    <2>6. \A u \in Callers : BoxOK(caller[u])'
      BY <1>0, <2>2, <2>3, MovesBoxes
    <2>7. caller[t].box \in Containers
      BY <1>0 DEF OwnInv, BoxOK
    <2>8. Shapes' /\ SenderOK'
      BY <1>0, <2>1, <2>7 DEF OwnInv, Shapes, SenderOK
    <2> QED BY <1>0, <2>3, <2>4, <2>5, <2>6, <2>8 DEF OwnInv
  <1> QED BY <1>1, <1>2
\* The container is locked, and what got no nonce is staged in a container of the pool.
LEMMA LockBoxOwn ==
    ASSUME OwnInv, NonceInv, NEW t \in Callers, LockBox(t)
    PROVE  OwnInv'
  <1>c. DOMAIN caller = Callers /\ DOMAIN caller[t] = Fields
    BY CallerFacts
  <1> DEFINE box == caller[t].box
             g == GetContainer
             fresh == IF caller[t].ooo = <<>> THEN {} ELSE {g}
             empty == IF caller[t].kept = <<>> THEN {box} ELSE {}
  <1>0. /\ caller[t].pc = "nonce" /\ caller[t].pc \in Held
        /\ locked' = (locked \cup {box}) \ fresh
        /\ UNCHANGED <<outbound, encryption, encrypting, sender, life>>
    BY DEF LockBox, peer, Held
  <1>1. box \in Containers /\ Owned[t] = {box} /\ box \notin pool
    BY <1>0 DEF OwnInv, BoxOK, Owned, Apart
  <1>2. PICK P : /\ pool' = P \cup empty /\ P \subseteq Containers /\ fresh \subseteq pool
                 /\ staged' \in Seq(Containers) /\ Once(staged')
                 /\ Apart(P, Range(staged'), Turn, Owned)
    <2>1. CASE caller[t].ooo = <<>>
      <3>1. pool' = pool \cup empty /\ fresh = {} /\ staged' = staged
        BY <2>1 DEF LockBox
      <3> HIDE DEF empty, fresh
      <3> QED BY <3>1 DEF OwnInv, Shapes
    <2>2. CASE caller[t].ooo # <<>>
      <3> DEFINE D == StagePackets(g).dropped
      <3>1. /\ pool # {} /\ staged' = StagePackets(g).queue
            /\ pool' = (pool \ {g}) \cup D \cup empty /\ fresh = {g}
        BY <2>2 DEF LockBox
      <3>2. g \in pool
        BY <3>1, GetFromPool
      <3> HIDE DEF g, empty, fresh
      <3>3. /\ staged' \in Seq(Containers) /\ Once(staged') /\ D \in SUBSET Range(staged)
            /\ Range(staged') = (Range(staged) \ D) \cup {g}
        BY <3>1, <3>2, StagePacketsFacts
      <3> HIDE DEF D
      <3>4. Apart((pool \ {g}) \cup D, (Range(staged) \ D) \cup {g}, Turn, Owned)
        BY <3>2, <3>3, StageApart DEF OwnInv
      <3>5. (pool \ {g}) \cup D \subseteq Containers
        BY SMT, <3>3 DEF OwnInv, Shapes, Range
      <3> QED BY <3>1, <3>2, <3>3, <3>4, <3>5
    <2> QED BY <2>1, <2>2
  <1>3. (\A u \in Callers : Owned[u] \cap locked \subseteq locked') /\ Turn \cap locked \subseteq Turn \cap locked'
    BY <1>0, <1>2 DEF OwnInv, Apart
  <1>4. Turn' = Turn /\ AtWorker' = AtWorker /\ SenderOK'
    BY <1>0 DEF Turn, AtWorker, OwnInv, SenderOK
  <1>5. /\ Shapes' /\ Apart(pool, Range(staged), Turn, Owned)' /\ ToEncrypt' = ToEncrypt
        /\ \A u \in Callers : BoxOK(caller[u])'
    <2>1. CASE caller[t].kept = <<>>
      <3>1. caller' = [caller EXCEPT ![t] = [Idle EXCEPT !.pc = "top"]] /\ empty = {box}
        BY <2>1 DEF LockBox
      <3>2. Moves(t) /\ caller'[t].pc \in Free /\ caller'[t].box = None
        BY <1>c, <3>1 DEF Moves, Idle, Free, Fields
      <3>3. /\ Owned'[t] = {} /\ ToEncrypt' = ToEncrypt /\ BoxOK(caller[t])'
            /\ \A u \in Callers \ {t} : Owned'[u] = Owned[u]
        BY <1>0, <3>2, GiveUp
      <3> HIDE DEF box, fresh, empty, g
      <3>4. Apart(P \cup Owned[t], Range(staged'), Turn, Owned')
        BY <1>2, <3>3, PutApart
      <3>5. Apart(pool, Range(staged), Turn, Owned)'
        BY <1>1, <1>2, <1>4, <3>1, <3>4
      <3>6. Shapes'
        BY <1>0, <1>1, <1>2, <3>1 DEF OwnInv, Shapes
      <3>7. \A u \in Callers : BoxOK(caller[u])'
        BY <1>3, <3>2, <3>3, MovesBoxes
      <3> QED BY <3>3, <3>5, <3>6, <3>7
    <2>2. CASE caller[t].kept # <<>>
      <3>1. caller' = [caller EXCEPT ![t] = [@ EXCEPT !.pc = "running", !.kept = <<>>]] /\ empty = {}
        BY <2>2 DEF LockBox
      <3>2. Moves(t) /\ caller'[t].pc = "running" /\ caller'[t].box = box
        BY <1>c, <3>1 DEF Moves, Fields
      <3>3. Owned' = Owned /\ ToEncrypt' = ToEncrypt
        BY <1>0, <3>2, GoOn DEF Held
      <3> HIDE DEF fresh, empty, g
      <3>4. BoxOK(caller[t])'
        BY <1>0, <1>1, <1>2, <3>2 DEF BoxOK, Held
      <3> HIDE DEF box
      <3>5. Apart(pool, Range(staged), Turn, Owned)'
        BY <1>2, <1>4, <3>1, <3>3
      <3>6. Shapes'
        BY <1>0, <1>2, <3>1 DEF OwnInv, Shapes
      <3>7. \A u \in Callers : BoxOK(caller[u])'
        BY <1>3, <3>2, <3>4, MovesBoxes
      <3> QED BY <3>3, <3>5, <3>6, <3>7
    <2> QED BY <2>1, <2>2
  <1>6. Encrypted(Turn, locked, Range(encryption), ToEncrypt, AtWorker)'
    <2>1. Encrypted(Turn, locked', Range(encryption), ToEncrypt, AtWorker)
      BY SMT, <1>3, OtherEncrypted DEF OwnInv
    <2> QED BY <1>0, <1>4, <1>5, <2>1
  <1> QED BY <1>4, <1>5, <1>6 DEF OwnInv

LEMMA PushOutboundOwn ==
    ASSUME OwnInv, NonceInv, NEW t \in Callers, PushOutbound(t)
    PROVE  OwnInv'
  <1>c. DOMAIN caller = Callers /\ DOMAIN caller[t] = Fields
    BY CallerFacts
  <1> DEFINE c == caller[t].box
  <1>0. /\ caller[t].pc = "outbound" /\ outbound' = Append(outbound, c) /\ Go(t, "encryption")
        /\ UNCHANGED <<pool, locked, staged, encryption, encrypting, sender, life>>
    BY DEF PushOutbound, peer
  <1>1. Moves(t) /\ caller'[t].pc = "encryption" /\ caller'[t].box = c
    BY <1>c, <1>0, GoMoves, GoBox
  <1>2. Owned[t] = {c} /\ Owned'[t] = {} /\ ToEncrypt'[t] = {c} /\ c \in Containers \cap locked
    BY <1>0, <1>1 DEF Owned, ToEncrypt, Held, OwnInv, BoxOK
  <1> HIDE DEF c
  <1>3. c \notin Turn /\ c \notin Range(outbound) /\ c # Nil /\ c # None /\ c # sender.box
    BY ZenonT(30), <1>2, BoxDistinct DEF OwnInv, Apart, Turn
  <1>4. /\ outbound' \in Seq(Containers \cup {Nil}) /\ Once(outbound')
        /\ Range(outbound') = Range(outbound) \cup {c}
    BY SMT, <1>0, <1>2, <1>3, AppendOnce DEF OwnInv, SenderOK
  <1>5. Turn' = Turn \cup {c} /\ AtWorker' = AtWorker
    BY <1>0, <1>3, <1>4 DEF Turn, AtWorker
  <1>6. \A u \in Callers \ {t} : Owned'[u] = Owned[u] /\ ToEncrypt'[u] = ToEncrypt[u]
    BY <1>1, MovesOthers
  <1>7. Apart(pool, Range(staged), Turn, Owned)'
    <2>1. Apart(pool, Range(staged), Turn \cup Owned[t], Owned')
      BY <1>2, <1>6, PushApart DEF OwnInv
    <2> QED BY <1>0, <1>2, <1>5, <2>1
  <1>8. Encrypted(Turn, locked, Range(encryption), ToEncrypt, AtWorker)'
    <2>1. Encrypted(Turn \cup {c}, locked, Range(encryption), ToEncrypt', AtWorker)
      BY SMT, <1>2, <1>3, <1>6, PushEncrypted DEF OwnInv
    <2> QED BY <1>0, <1>5, <2>1
  <1>9. BoxOK(caller[t])'
    BY <1>1, <1>2 DEF BoxOK, Held
  <1>10. \A u \in Callers : BoxOK(caller[u])'
    BY <1>0, <1>1, <1>9, MovesBoxes
  <1>11. Shapes' /\ SenderOK'
    BY <1>0, <1>3, <1>4 DEF OwnInv, Shapes, SenderOK
  <1> QED BY <1>7, <1>8, <1>10, <1>11 DEF OwnInv

LEMMA PushEncryptionOwn ==
    ASSUME OwnInv, NonceInv, NEW t \in Callers, PushEncryption(t)
    PROVE  OwnInv'
  <1>c. DOMAIN caller = Callers /\ DOMAIN caller[t] = Fields
    BY CallerFacts
  <1> DEFINE c == caller[t].box
  <1>0. /\ caller[t].pc = "encryption" /\ encryption' = Append(encryption, c) /\ Again(t)
        /\ UNCHANGED <<pool, locked, staged, outbound, encrypting, sender, life>>
    BY DEF PushEncryption, peer
  <1>1. Moves(t) /\ caller'[t].pc \in Free /\ caller'[t].box = None
    BY <1>c, <1>0, AgainMoves, AgainBox
  <1>2. Owned[t] = {} /\ Owned'[t] = {} /\ ToEncrypt[t] = {c} /\ ToEncrypt'[t] = {} /\ c \in Containers
    BY <1>0, <1>1 DEF Owned, ToEncrypt, Held, Free, OwnInv, BoxOK
  <1> HIDE DEF c
  <1>3. \A u \in Callers \ {t} : Owned'[u] = Owned[u] /\ ToEncrypt'[u] = ToEncrypt[u]
    BY <1>1, MovesOthers
  <1>4. Owned' = Owned
    <2>1. \A u \in Callers : Owned'[u] = Owned[u]
      BY <1>2, <1>3
    <2> QED BY <2>1 DEF Owned
  <1>5. c \notin Range(encryption)
    BY <1>2 DEF OwnInv, Encrypted
  <1>6. encryption' \in Seq(Containers) /\ Once(encryption') /\ Range(encryption') = Range(encryption) \cup {c}
    BY SMT, <1>0, <1>2, <1>5, AppendOnce DEF OwnInv, Shapes
  <1>7. Turn' = Turn /\ AtWorker' = AtWorker
    BY <1>0 DEF Turn, AtWorker
  <1>8. Encrypted(Turn, locked, Range(encryption), ToEncrypt, AtWorker)'
    <2>1. Encrypted(Turn, locked, Range(encryption) \cup ToEncrypt[t], ToEncrypt', AtWorker)
      BY <1>2, <1>3, QueueEncrypted DEF OwnInv
    <2> QED BY <1>0, <1>2, <1>6, <1>7, <2>1
  <1>9. BoxOK(caller[t])'
    BY <1>1 DEF BoxOK, Held, Free
  <1>10. \A u \in Callers : BoxOK(caller[u])'
    BY <1>0, <1>1, <1>9, MovesBoxes
  <1>11. Shapes' /\ SenderOK'
    BY <1>0, <1>6 DEF OwnInv, Shapes, SenderOK
  <1> QED BY <1>0, <1>4, <1>7, <1>8, <1>10, <1>11 DEF OwnInv

-----------------------------------------------------------------------------
(* Encryption, the sender, Stop and Start *)

LEMMA StartEncryptionOwn ==
    ASSUME OwnInv, NEW w \in Encrypters, StartEncryption(w)
    PROVE  OwnInv'
  <1> DEFINE c == Head(encryption)
  <1>0. /\ encrypting[w] = None /\ encryption # <<>> /\ encryption' = Tail(encryption)
        /\ encrypting' = [encrypting EXCEPT ![w] = c]
        /\ UNCHANGED <<pool, locked, staged, outbound, caller, sender, life>>
    BY DEF StartEncryption, peer
  <1>1. /\ encryption' \in Seq(Containers) /\ Once(encryption') /\ c \in Containers
        /\ Range(encryption') = Range(encryption) \ {c} /\ c \in Range(encryption)
    BY <1>0, TailOnce DEF OwnInv, Shapes
  <1> HIDE DEF c
  <1>2. encrypting' \in [Encrypters -> Containers \cup {None}]
    BY <1>0, <1>1 DEF OwnInv, Shapes
  <1>3. AtWorker[w] = {} /\ AtWorker'[w] = {c} /\ \A v \in Encrypters \ {w} : AtWorker'[v] = AtWorker[v]
    BY <1>0, <1>1, <1>2, BoxDistinct DEF AtWorker, OwnInv, Shapes
  <1>4. Turn' = Turn /\ Owned' = Owned /\ ToEncrypt' = ToEncrypt /\ \A u \in Callers : BoxOK(caller[u])'
    BY <1>0, SameCallers DEF Turn
  <1>5. Encrypted(Turn, locked, Range(encryption), ToEncrypt, AtWorker)'
    <2>1. Encrypted(Turn, locked, Range(encryption) \ {c}, ToEncrypt, AtWorker')
      BY <1>1, <1>3, StartEncrypted DEF OwnInv
    <2> QED BY <1>0, <1>1, <1>4, <2>1
  <1>6. Shapes' /\ SenderOK'
    BY <1>0, <1>1, <1>2 DEF OwnInv, Shapes, SenderOK
  <1> QED BY <1>0, <1>4, <1>5, <1>6 DEF OwnInv

LEMMA FinishEncryptionOwn ==
    ASSUME OwnInv, NEW w \in Encrypters, FinishEncryption(w)
    PROVE  OwnInv'
  <1> DEFINE c == encrypting[w]
  <1>0. /\ c # None /\ locked' = locked \ {c} /\ encrypting' = [encrypting EXCEPT ![w] = None]
        /\ UNCHANGED <<pool, staged, outbound, encryption, caller, sender, life>>
    BY DEF FinishEncryption, queues, peer
  <1>1. encrypting' \in [Encrypters -> Containers \cup {None}]
    BY <1>0 DEF OwnInv, Shapes
  <1>2. AtWorker[w] = {c} /\ AtWorker'[w] = {} /\ \A v \in Encrypters \ {w} : AtWorker'[v] = AtWorker[v]
    BY <1>0, <1>1 DEF AtWorker, OwnInv, Shapes
  <1> HIDE DEF c
  <1>3. c \in Turn /\ \A u \in Callers : Owned[u] \cap locked \subseteq locked'
    BY <1>0, <1>2 DEF OwnInv, Encrypted, Apart
  <1>4. Turn' = Turn /\ Owned' = Owned /\ ToEncrypt' = ToEncrypt /\ \A u \in Callers : BoxOK(caller[u])'
    BY <1>0, <1>3, SameCallers DEF Turn
  <1>5. Encrypted(Turn, locked, Range(encryption), ToEncrypt, AtWorker)'
    <2>1. Encrypted(Turn, locked \ {c}, Range(encryption), ToEncrypt, AtWorker')
      BY <1>2, FinishEncrypted DEF OwnInv
    <2> QED BY <1>0, <1>4, <2>1
  <1>6. Shapes' /\ SenderOK'
    BY <1>0, <1>1 DEF OwnInv, Shapes, SenderOK
  <1> QED BY <1>0, <1>4, <1>5, <1>6 DEF OwnInv

LEMMA SenderReceiveOwn == OwnInv /\ SenderReceive => OwnInv'
  <1> SUFFICES ASSUME OwnInv, SenderReceive PROVE OwnInv'
    OBVIOUS
  <1> DEFINE c == Head(outbound)
  <1>0. /\ sender.pc = "recv" /\ outbound # <<>> /\ outbound' = Tail(outbound)
        /\ sender' = IF c = Nil THEN [pc |-> "off", box |-> None] ELSE [pc |-> IF running THEN "send" ELSE "drop", box |-> c]
        /\ UNCHANGED <<pool, locked, staged, encryption, encrypting, caller, life>>
    BY DEF SenderReceive, peer
  <1>1. /\ outbound' \in Seq(Containers \cup {Nil}) /\ Once(outbound') /\ c \in Containers \cup {Nil}
        /\ Range(outbound') = Range(outbound) \ {c} /\ c \in Range(outbound)
    BY <1>0, TailOnce DEF OwnInv, SenderOK
  <1> HIDE DEF c
  <1>2. sender.box = None
    BY <1>0 DEF OwnInv, SenderOK
  <1>3. Turn' = Turn /\ SenderOK'
    <2>1. CASE c = Nil
      <3>1. sender' = [pc |-> "off", box |-> None] /\ life = "waiting"
        BY <1>0, <1>1, <2>1 DEF OwnInv, SenderOK
      <3>2. None \notin Range(outbound')
        BY SMT, <1>1, BoxDistinct DEF Range
      <3>3. Turn' = Turn
        BY <1>1, <1>2, <2>1, <3>1 DEF Turn
      <3>4. SenderOK'
        BY SMT, <1>0, <1>1, <2>1, <3>1, <3>2 DEF SenderOK
      <3> QED BY <3>3, <3>4
    <2>2. CASE c # Nil
      <3>1. PICK pc \in {"send", "drop"} : sender' = [pc |-> pc, box |-> c]
        BY <1>0, <2>2
      <3>2. c \in Containers /\ c # None
        BY <1>1, <2>2, BoxDistinct
      <3>3. Turn' = Turn
        BY <1>1, <1>2, <2>2, <3>1, <3>2 DEF Turn
      <3>4. SenderOK'
        BY SMT, <1>0, <1>1, <2>2, <3>1, <3>2 DEF OwnInv, SenderOK
      <3> QED BY <3>3, <3>4
    <2> QED BY <2>1, <2>2
  <1>4. Owned' = Owned /\ ToEncrypt' = ToEncrypt /\ \A u \in Callers : BoxOK(caller[u])'
    BY <1>0, SameCallers
  <1>5. AtWorker' = AtWorker /\ Shapes'
    BY <1>0 DEF AtWorker, OwnInv, Shapes
  <1> QED BY <1>0, <1>3, <1>4, <1>5 DEF OwnInv

\* A container whose turn has come, and which nobody has locked, leaves: back to the pool,
\* or nowhere when the sender drops it.
LEMMA LeaveOwn ==
    ASSUME OwnInv, NEW c \in Turn \ locked, Turn' = Turn \ {c}, pool' \in {pool, pool \cup {c}},
           locked \subseteq locked', UNCHANGED <<staged, encryption, encrypting, caller>>, SenderOK'
    PROVE  OwnInv'
  <1>1. c \in Containers
    BY SMTT(30) DEF OwnInv, SenderOK, Turn, Range
  <1>2. Owned' = Owned /\ ToEncrypt' = ToEncrypt /\ \A u \in Callers : BoxOK(caller[u])'
    BY SameCallers
  <1>3. AtWorker' = AtWorker /\ Shapes'
    BY <1>1 DEF AtWorker, OwnInv, Shapes
  <1>4. Apart(pool, Range(staged), Turn, Owned)'
    <2>1. Apart(pool \cup {c}, Range(staged), Turn \ {c}, Owned) /\ Apart(pool, Range(staged), Turn \ {c}, Owned)
      BY DoneApart DEF OwnInv
    <2> QED BY <1>2, <2>1
  <1>5. Encrypted(Turn, locked, Range(encryption), ToEncrypt, AtWorker)'
    <2>1. Encrypted(Turn \ {c}, locked', Range(encryption), ToEncrypt, AtWorker)
      BY SMT, OtherEncrypted DEF OwnInv
    <2> QED BY <1>2, <1>3, <2>1
  <1> QED BY <1>2, <1>3, <1>4, <1>5 DEF OwnInv

LEMMA SenderOwn == OwnInv /\ (SenderDrop \/ SenderSend) => OwnInv'
  <1> SUFFICES ASSUME OwnInv, SenderDrop \/ SenderSend PROVE OwnInv'
    OBVIOUS
  <1> DEFINE c == sender.box
  <1>0. /\ sender.pc \in {"send", "drop"} /\ c \notin locked /\ sender' = [pc |-> "recv", box |-> None]
        /\ pool' \in {pool, pool \cup {c}} /\ locked \subseteq locked'
        /\ UNCHANGED <<staged, outbound, encryption, encrypting, caller, life>>
    BY DEF SenderDrop, SenderSend, queues, peer
  <1>1. c \in Containers /\ c \notin Range(outbound) /\ c # None /\ sender'.box = None
    BY <1>0, BoxDistinct DEF OwnInv, SenderOK
  <1>2. c \in Turn \ locked /\ Turn' = Turn \ {c}
    BY <1>0, <1>1 DEF Turn
  <1>3. SenderOK'
    <2>1. None \notin Range(outbound)
      BY SMT, BoxDistinct DEF OwnInv, SenderOK, Range
    <2> QED BY <1>0, <2>1 DEF OwnInv, SenderOK
  <1> QED BY <1>0, <1>2, <1>3, LeaveOwn

LEMMA StartFlushOwn == OwnInv /\ StartFlush => OwnInv'
  <1> SUFFICES ASSUME OwnInv, StartFlush PROVE OwnInv'
    OBVIOUS
  <1> DEFINE c == Head(outbound)
  <1>0. /\ life = "starting" /\ outbound # <<>> /\ c \notin locked /\ outbound' = Tail(outbound)
        /\ pool' = pool \cup {c}
        /\ UNCHANGED <<locked, staged, encryption, encrypting, caller, sender, life>>
    BY DEF StartFlush, Flushable, peer
  <1>1. /\ outbound' \in Seq(Containers \cup {Nil}) /\ Once(outbound')
        /\ Range(outbound') = Range(outbound) \ {c} /\ c \in Range(outbound)
    BY <1>0, TailOnce DEF OwnInv, SenderOK
  <1> HIDE DEF c
  <1>2. sender.box = None /\ c # Nil
    BY <1>0, <1>1 DEF OwnInv, SenderOK
  <1>3. c \in Turn \ locked /\ Turn' = Turn \ {c}
    BY <1>0, <1>1, <1>2 DEF Turn
  <1>4. SenderOK'
    BY <1>0, <1>1 DEF OwnInv, SenderOK
  <1> QED BY <1>0, <1>3, <1>4, LeaveOwn

\* The sentinel is no container; Start finds the queue without one.
LEMMA LifeOwn ==
    ASSUME OwnInv, StopSignal \/ StartRoutine \/ Stop \/ Start
    PROVE  OwnInv'
  <1>0. UNCHANGED <<pool, locked, staged, encryption, encrypting, caller>>
    BY DEF StopSignal, StartRoutine, Stop, Start, queues
  <1>1. Turn' = Turn /\ SenderOK'
    <2>1. CASE StopSignal
      <3>1. life = "stopping" /\ life' = "waiting" /\ outbound' = Append(outbound, Nil) /\ sender' = sender
        BY <2>1 DEF StopSignal
      <3>2. Nil \notin Range(outbound) /\ sender.pc # "off"
        BY <3>1 DEF OwnInv, SenderOK
      <3>3. /\ outbound' \in Seq(Containers \cup {Nil}) /\ Once(outbound')
            /\ Range(outbound') = Range(outbound) \cup {Nil}
        BY SMT, <3>1, <3>2, AppendOnce DEF OwnInv, SenderOK
      <3>4. Turn' = Turn
        BY <3>1, <3>3 DEF Turn
      <3>5. SenderOK'
        BY <3>1, <3>2, <3>3, BoxDistinct DEF OwnInv, SenderOK
      <3> QED BY <3>4, <3>5
    <2>2. CASE StartRoutine
      <3>1. life = "starting" /\ life' = "started" /\ outbound' = outbound /\ sender' = [pc |-> "recv", box |-> None]
            /\ outbound = <<>>
        BY <2>2 DEF StartRoutine, queues
      <3>2. sender.box = None /\ Range(outbound) = {}
        BY <3>1, RangeEmpty DEF OwnInv, SenderOK
      <3>3. Turn' = Turn
        BY <3>1, <3>2 DEF Turn
      <3>4. SenderOK'
        BY <3>1, <3>2 DEF OwnInv, SenderOK
      <3> QED BY <3>3, <3>4
    <2>3. CASE Stop
      <3>1. life = "started" /\ life' = "stopping" /\ UNCHANGED <<outbound, sender>>
        BY <2>3 DEF Stop, queues
      <3> QED BY <3>1 DEF OwnInv, SenderOK, Turn
    <2>4. CASE Start
      <3>1. life = "stopped" /\ life' = "starting" /\ UNCHANGED <<outbound, sender>>
        BY <2>4 DEF Start, queues
      <3> QED BY <3>1 DEF OwnInv, SenderOK, Turn
    <2> QED BY <2>1, <2>2, <2>3, <2>4
  <1>2. Owned' = Owned /\ ToEncrypt' = ToEncrypt /\ \A u \in Callers : BoxOK(caller[u])'
    BY <1>0, SameCallers
  <1>3. AtWorker' = AtWorker /\ Shapes'
    BY <1>0 DEF AtWorker, OwnInv, Shapes
  <1> QED BY <1>0, <1>1, <1>2, <1>3 DEF OwnInv

LEMMA OtherOwn ==
    ASSUME OwnInv, UNCHANGED <<boxes, caller>>
    PROVE  OwnInv'
  BY SameCallers, QuietOwn DEF boxes

LEMMA NextOwn == OwnInv /\ NonceInv /\ [Next]_vars => OwnInv'
  <1> SUFFICES ASSUME OwnInv, NonceInv, [Next]_vars PROVE OwnInv'
    OBVIOUS
  <1>1. CASE \E t \in Callers : ReadFromTUN(t) \/ SendKeepalive(t) \/ Call(t)
    BY <1>1, StagingOwn, CallerQuietOwn, TakeOwn, LockBoxOwn, CheckRunningOwn, PushOutboundOwn, PushEncryptionOwn DEF Call
  <1>2. CASE \E w \in Encrypters : Encrypt(w)
    BY <1>2, StartEncryptionOwn, FinishEncryptionOwn DEF Encrypt
  <1>3. CASE Send
    BY <1>3, SenderReceiveOwn, SenderOwn DEF Send
  <1>4. CASE Lifecycle \/ Stop \/ Start
    BY <1>4, StopWaitOwn, StartFlushOwn, LifeOwn DEF Lifecycle
  <1>5. CASE FlushStagedPackets
    BY <1>5, FlushStagedOwn
  <1>6. CASE NewSession \/ Age \/ ExpireCurrentKeypairs
    BY <1>6, OtherOwn DEF NewSession, Age, ExpireCurrentKeypairs, boxes, peer
  <1>7. CASE UNCHANGED vars
    BY <1>7, OtherOwn DEF vars, boxes, peer
  <1> QED BY <1>1, <1>2, <1>3, <1>4, <1>5, <1>6, <1>7 DEF Next

LEMMA OwnNoUse == OwnInv => NoUseAfterPut
  <1> SUFFICES ASSUME OwnInv, NEW c \in pool, c \in Referred PROVE FALSE
    BY DEF NoUseAfterPut
  <1>1. c \in Containers /\ c # None /\ c \notin Range(staged) /\ c \notin Turn /\ \A t \in Callers : c \notin Owned[t]
    BY BoxDistinct DEF OwnInv, Shapes, Apart
  <1>2. c \notin Range(encryption) /\ (\A t \in Callers : c \notin ToEncrypt[t]) /\ \A w \in Encrypters : c \notin AtWorker[w]
    BY <1>1 DEF OwnInv, Encrypted
  <1>3. c \notin Range(outbound) \ {Nil} /\ c # sender.box
    BY <1>1 DEF Turn
  <1>4. \A w \in Encrypters : c # encrypting[w]
    BY <1>1, <1>2 DEF AtWorker
  <1>5. \A t \in Callers : c # caller[t].box
    BY <1>1, <1>2 DEF OwnInv, BoxOK, Owned, ToEncrypt
  <1> QED BY <1>1, <1>2, <1>3, <1>4, <1>5 DEF Referred

LEMMA SpecOwn == Spec => [](NonceInv /\ BoundOK /\ OwnInv)
  <1>1. Init => OwnInv
    BY InitOwn
  <1>2. NonceInv /\ OwnInv /\ [Next]_vars => OwnInv'
    BY NextOwn
  <1> QED BY <1>1, <1>2, SpecInv, PTL DEF Spec

\* No container is in the pool while a queue or a routine refers to it, for any number of
\* callers, workers and containers: whoever puts one back, the sender, a caller, staging,
\* or Stop and Start, is the last to have it.
THEOREM NoUseAfterPutHolds == Spec => []NoUseAfterPut
  BY SpecOwn, OwnNoUse, PTL

-----------------------------------------------------------------------------
(* What the containers hold *)

Pair(e) == <<e.keypair, e.nonce>>
Blank(es) == \A i \in DOMAIN es : es[i].keypair = None
Keyed(es) == \A i \in DOMAIN es : es[i].keypair # None
Sealed(es) == \A i \in DOMAIN es : es[i].sealed

\* The nonces that elements have, each for one element.
Given(es) == {Pair(es[i]) : i \in {j \in DOMAIN es : es[j].keypair # None}}
Unique(es) == \A i, j \in DOMAIN es : i # j /\ es[i].keypair # None => Pair(es[i]) # Pair(es[j])

LEMMA BlankFacts == ASSUME NEW es, Blank(es) PROVE Given(es) = {} /\ Unique(es)
  BY DEF Blank, Given, Unique

LEMMA EmptyFacts ==
    /\ <<>> \in Seq(ElemType) /\ Blank(<<>>) /\ Keyed(<<>>) /\ Unique(<<>>) /\ Given(<<>>) = {}
  <1>1. <<>> \in Seq(ElemType) /\ Blank(<<>>) /\ Keyed(<<>>)
    BY SMT DEF Blank, Keyed
  <1> QED BY <1>1, BlankFacts

LEMMA AppendFacts ==
    ASSUME NEW es \in Seq(ElemType), NEW e \in ElemType, e.keypair # None, Pair(e) \notin Given(es), Unique(es), Keyed(es)
    PROVE  /\ Append(es, e) \in Seq(ElemType) /\ Keyed(Append(es, e)) /\ Unique(Append(es, e))
           /\ Given(Append(es, e)) = Given(es) \cup {Pair(e)}
  <1> DEFINE n == Len(es)  r == Append(es, e)
  <1>1. n \in Nat /\ DOMAIN es = 1 .. n /\ DOMAIN r = 1 .. n + 1 /\ r \in Seq(ElemType)
    BY SMT
  <1>2. r[n + 1] = e /\ \A i \in 1 .. n : r[i] = es[i]
    BY SMT
  <1> HIDE DEF n, r
  <1>3. Keyed(r)
    BY SMT, <1>1, <1>2 DEF Keyed
  <1>4. \A i \in 1 .. n : Pair(es[i]) # Pair(e)
    BY <1>1 DEF Given, Keyed
  <1>5. Unique(r)
    <2> SUFFICES ASSUME NEW i \in 1 .. n + 1, NEW j \in 1 .. n + 1, i # j PROVE Pair(r[i]) # Pair(r[j])
      BY <1>1 DEF Unique
    <2>1. CASE i \in 1 .. n /\ j \in 1 .. n
      BY <1>1, <1>2, <2>1 DEF Unique, Keyed
    <2>2. CASE i = n + 1 /\ j \in 1 .. n
      BY <1>2, <1>4, <2>2
    <2>3. CASE j = n + 1 /\ i \in 1 .. n
      BY <1>2, <1>4, <2>3
    <2> QED BY SMT, <1>1, <2>1, <2>2, <2>3
  <1>6. Given(es) = {Pair(es[i]) : i \in 1 .. n} /\ Given(r) = {Pair(r[i]) : i \in 1 .. n + 1}
    BY <1>1, <1>3 DEF Given, Keyed
  <1>7. Given(r) = Given(es) \cup {Pair(e)}
    BY SMT, <1>1, <1>2, <1>6
  <1> QED BY <1>1, <1>3, <1>5, <1>7 DEF r

LEMMA ConcatFacts ==
    ASSUME NEW es \in Seq(ElemType), NEW fs \in Seq(ElemType), Given(es) \cap Given(fs) = {},
           Unique(es), Keyed(es), Sealed(es), Unique(fs), Keyed(fs), Sealed(fs)
    PROVE  /\ es \o fs \in Seq(ElemType) /\ Keyed(es \o fs) /\ Unique(es \o fs) /\ Sealed(es \o fs)
           /\ Given(es \o fs) = Given(es) \cup Given(fs)
  <1> DEFINE m == Len(es)  n == Len(fs)  r == es \o fs
  <1>1. m \in Nat /\ n \in Nat /\ DOMAIN es = 1 .. m /\ DOMAIN fs = 1 .. n /\ DOMAIN r = 1 .. m + n /\ r \in Seq(ElemType)
    BY SMT
  <1>2. (\A i \in 1 .. m : r[i] = es[i]) /\ \A i \in 1 .. n : r[m + i] = fs[i]
    BY SMT
  <1>3. \A i \in 1 .. m + n : i \in 1 .. m \/ (i - m \in 1 .. n /\ i = m + (i - m))
    BY SMT, <1>1
  <1> HIDE DEF m, n, r
  <1>4. \A i \in 1 .. m + n : i \in 1 .. m \/ (i - m \in 1 .. n /\ r[i] = fs[i - m])
    BY <1>2, <1>3
  <1>5. Keyed(r) /\ Sealed(r)
    <2> SUFFICES ASSUME NEW i \in 1 .. m + n PROVE r[i].keypair # None /\ r[i].sealed
      BY <1>1 DEF Keyed, Sealed
    <2>1. CASE i \in 1 .. m
      BY <1>1, <1>2, <2>1 DEF Keyed, Sealed
    <2>2. CASE i - m \in 1 .. n /\ r[i] = fs[i - m]
      BY <1>1, <2>2 DEF Keyed, Sealed
    <2> QED BY <1>4, <2>1, <2>2
  <1>6. \A i \in 1 .. m, j \in 1 .. n : Pair(es[i]) # Pair(fs[j])
    BY <1>1 DEF Given, Keyed
  <1>7. Unique(r)
    <2> SUFFICES ASSUME NEW i \in 1 .. m + n, NEW j \in 1 .. m + n, i # j PROVE Pair(r[i]) # Pair(r[j])
      BY <1>1 DEF Unique
    <2>1. CASE i \in 1 .. m /\ j \in 1 .. m
      BY <1>1, <1>2, <2>1 DEF Unique, Keyed
    <2>2. CASE i \in 1 .. m /\ j \notin 1 .. m
      BY SMT, <1>2, <1>4, <1>6, <2>2
    <2>3. CASE i \notin 1 .. m /\ j \in 1 .. m
      BY SMT, <1>2, <1>4, <1>6, <2>3
    <2>4. CASE i \notin 1 .. m /\ j \notin 1 .. m
      <3>1. i - m \in DOMAIN fs /\ j - m \in DOMAIN fs /\ i - m # j - m /\ r[i] = fs[i - m] /\ r[j] = fs[j - m]
        BY SMT, <1>1, <1>4, <2>4
      <3> QED BY <3>1 DEF Unique, Keyed
    <2> QED BY <2>1, <2>2, <2>3, <2>4
  <1>8. Given(es) = {Pair(es[i]) : i \in 1 .. m} /\ Given(fs) = {Pair(fs[i]) : i \in 1 .. n} /\ Given(r) = {Pair(r[i]) : i \in 1 .. m + n}
    BY <1>1, <1>5 DEF Given, Keyed
  <1>9. Given(r) = Given(es) \cup Given(fs)
    <2>1. ASSUME NEW p \in Given(r) PROVE p \in Given(es) \cup Given(fs)
      BY <1>2, <1>4, <1>8, <2>1
    <2>2. \A i \in 1 .. m : i \in 1 .. m + n
      BY SMT, <1>1
    <2>3. \A i \in 1 .. n : m + i \in 1 .. m + n
      BY SMT, <1>1
    <2>4. ASSUME NEW p \in Given(es) \cup Given(fs) PROVE p \in Given(r)
      BY SMT, <1>2, <1>8, <2>2, <2>3, <2>4
    <2> QED BY <2>1, <2>4
  <1> QED BY <1>1, <1>5, <1>7, <1>9 DEF r

LEMMA SealFacts ==
    ASSUME NEW es \in Seq(ElemType)
    PROVE  /\ SealAll(es) \in Seq(ElemType) /\ Sealed(SealAll(es)) /\ Given(SealAll(es)) = Given(es)
           /\ Unique(es) => Unique(SealAll(es))
           /\ Keyed(es) => Keyed(SealAll(es))
  <1> DEFINE r == SealAll(es)
  <1>1. \A i \in DOMAIN es : es[i] \in ElemType
    BY SMT
  <1>2. /\ DOMAIN r = DOMAIN es
        /\ \A i \in DOMAIN es : r[i] \in ElemType /\ r[i].keypair = es[i].keypair /\ r[i].nonce = es[i].nonce /\ r[i].sealed
    BY <1>1 DEF SealAll, ElemType
  <1>3. r \in Seq(ElemType)
    <2>1. r = [i \in 1 .. Len(es) |-> [es[i] EXCEPT !.sealed = TRUE]]
      BY SMT DEF SealAll
    <2>2. ASSUME NEW e \in ElemType PROVE [e EXCEPT !.sealed = TRUE] \in ElemType
      BY DEF ElemType
    <2>3. \A i \in 1 .. Len(es) : [es[i] EXCEPT !.sealed = TRUE] \in ElemType
      BY SMT, <2>2
    <2> QED BY SMT, <2>1, <2>3
  <1> HIDE DEF r
  <1>4. \A i \in DOMAIN es : Pair(r[i]) = Pair(es[i])
    BY <1>2 DEF Pair
  <1>5. Sealed(r) /\ Given(r) = Given(es) /\ (Unique(es) => Unique(r)) /\ (Keyed(es) => Keyed(r))
    BY SMT, <1>2, <1>4 DEF Sealed, Given, Unique, Keyed
  <1> QED BY <1>3, <1>5 DEF r

-----------------------------------------------------------------------------
(* The invariant *)

\* Of the nonces I that were given, W are on the wire, B[c] in container c, and caller t
\* is about to put H[t] into its container: no nonce is in two places.
Divided(I, W, B, H) ==
    /\ W \subseteq I
    /\ \A c \in Containers : B[c] \subseteq I /\ B[c] \cap W = {}
    /\ \A t \in Callers : H[t] \subseteq I /\ H[t] \cap W = {}
    /\ \A c, d \in Containers : c # d => B[c] \cap B[d] = {}
    /\ \A t, u \in Callers : t # u => H[t] \cap H[u] = {}
    /\ \A c \in Containers, t \in Callers : B[c] \cap H[t] = {}

LEMMA FadeDivided ==
    ASSUME NEW I, NEW W, NEW B, NEW H, NEW C, NEW J, Divided(I, W, B, H),
           \A c \in Containers : C[c] \subseteq B[c], \A t \in Callers : J[t] \subseteq H[t]
    PROVE  Divided(I, W, C, J)
  BY SMT DEF Divided

LEMMA GiveDivided ==
    ASSUME NEW I, NEW W, NEW B, NEW H, NEW J, NEW t \in Callers, NEW p, Divided(I, W, B, H), p \notin I,
           J[t] = H[t] \cup {p}, \A u \in Callers \ {t} : J[u] = H[u]
    PROVE  Divided(I \cup {p}, W, B, J)
  BY SMT DEF Divided

LEMMA FillDivided ==
    ASSUME NEW I, NEW W, NEW B, NEW H, NEW C, NEW J, NEW t \in Callers, NEW b \in Containers, Divided(I, W, B, H),
           C[b] = H[t], J[t] = {}, \A c \in Containers \ {b} : C[c] \subseteq B[c], \A u \in Callers \ {t} : J[u] = H[u]
    PROVE  Divided(I, W, C, J)
  BY SMT DEF Divided

LEMMA SendDivided ==
    ASSUME NEW I, NEW W, NEW B, NEW H, NEW C, NEW b \in Containers, Divided(I, W, B, H),
           C[b] = {}, \A c \in Containers \ {b} : C[c] = B[c]
    PROVE  Divided(I, W \cup B[b], C, H)
  BY DEF Divided

InBox == [c \in Containers |-> Given(elems[c])]
InHand == [t \in Callers |-> Given(caller[t].kept)]

\* What a caller has in its variables.
PacketsOK(c) ==
    /\ c.todo \in Seq(ElemType) /\ c.kept \in Seq(ElemType) /\ c.ooo \in Seq(ElemType)
    /\ Keyed(c.kept) /\ Unique(c.kept) /\ Blank(c.ooo)

Contents ==
    /\ elems \in [Containers -> Seq(ElemType)] /\ \A c \in Containers : Unique(elems[c])
    /\ wire \in Seq(ElemType) /\ Keyed(wire) /\ Unique(wire) /\ Sealed(wire)

\* The steps at which a caller's container has what will be encrypted.
Late == {"running", "outbound"}

\* What waits for its turn has its nonces, and is sealed once it is unlocked.
Ready ==
    /\ \A c \in Turn : Keyed(elems[c]) /\ (c \in locked \/ Sealed(elems[c]))
    /\ \A t \in Callers : caller[t].pc \in Late => Keyed(elems[caller[t].box])

\* A nonce that was given is behind its counter, and below the limit.
Behind == \A k \in Keypair, n \in Nat : <<k, n>> \in issued => n < sendNonce[k] /\ n < limit

SealInv ==
    /\ Contents /\ Ready
    /\ \A t \in Callers : PacketsOK(caller[t])
    /\ Divided(issued, Given(wire), InBox, InHand)

\* What waits for its turn is a container, before a step and after it.
LEMMA TurnBoxes == (OwnInv => Turn \subseteq Containers) /\ (OwnInv' => Turn' \subseteq Containers)
  <1>1. ASSUME OwnInv PROVE Turn \subseteq Containers
    <2>1. outbound \in Seq(Containers \cup {Nil}) /\ sender.box \in Containers \cup {None}
      BY <1>1 DEF OwnInv, SenderOK
    <2>2. Range(outbound) \subseteq Containers \cup {Nil}
      BY SMT, <2>1 DEF Range
    <2> QED BY <2>1, <2>2 DEF Turn
  <1>2. ASSUME OwnInv' PROVE Turn' \subseteq Containers
    <2>1. outbound' \in Seq(Containers \cup {Nil}) /\ sender'.box \in Containers \cup {None}
      BY <1>2 DEF OwnInv, SenderOK
    <2>2. Range(outbound)' \subseteq Containers \cup {Nil}
      BY SMT, <2>1 DEF Range
    <2> QED BY <2>1, <2>2 DEF Turn
  <1> QED BY <1>1, <1>2

\* The sender and Start take the queue's first place.
LEMMA OutboundTail ==
    ASSUME OwnInv, outbound # <<>>, outbound' = Tail(outbound)
    PROVE  Range(outbound') \subseteq Range(outbound) /\ Head(outbound) \in Range(outbound)
  <1>1. outbound \in Seq(Containers \cup {Nil}) /\ Once(outbound)
    BY DEF OwnInv, SenderOK
  <1>2. Range(Tail(outbound)) = Range(outbound) \ {Head(outbound)} /\ Head(outbound) \in Range(outbound)
    BY <1>1, TailOnce
  <1> QED BY <1>2

LEMMA InitSeal == Init => SealInv /\ Behind
  <1> SUFFICES ASSUME Init PROVE SealInv /\ Behind
    OBVIOUS
  <1>1. \A t \in Callers : caller[t].pc = "idle" /\ caller[t].todo = <<>> /\ caller[t].kept = <<>> /\ caller[t].ooo = <<>>
    BY DEF Init, Idle
  <1>2. \A t \in Callers : PacketsOK(caller[t])
    BY <1>1, EmptyFacts DEF PacketsOK
  <1>3. Contents
    BY SMT, EmptyFacts DEF Init, Contents, Sealed
  <1>4. Ready
    BY <1>1, RangeEmpty DEF Init, Ready, Turn, Late
  <1>5. Divided(issued, Given(wire), InBox, InHand)
    <2>1. issued = {} /\ Given(wire) = {} /\ (\A c \in Containers : InBox[c] = {}) /\ \A t \in Callers : InHand[t] = {}
      BY <1>1, EmptyFacts DEF Init, InBox, InHand
    <2> QED BY <2>1 DEF Divided
  <1> QED BY <1>2, <1>3, <1>4, <1>5 DEF SealInv, Behind, Init

-----------------------------------------------------------------------------
(* The steps that give, seal and send nothing *)

\* A container keeps its content, or is put back, or is staged with elements that have no nonce.
Fades ==
    /\ elems' \in [Containers -> Seq(ElemType)]
    /\ \A c \in Containers : \/ elems'[c] = elems[c]
                             \/ Blank(elems'[c]) /\ c \in pool' \cup Range(staged)'

\* A caller keeps what has a nonce or gives it up, and gets no container ready.
Rests(t) ==
    /\ PacketsOK(caller[t])'
    /\ caller'[t].kept \in {caller[t].kept, <<>>}
    /\ caller'[t].pc \in Late => caller[t].pc \in Late /\ caller'[t].box = caller[t].box

LEMMA FadeSeal ==
    ASSUME SealInv, OwnInv', Fades, UNCHANGED <<wire, issued>>, \A t \in Callers : Rests(t),
           Turn' \subseteq Turn, Turn' \cap locked \subseteq locked'
    PROVE  SealInv'
  <1>1. \A c \in Turn' : c \in Containers /\ elems'[c] = elems[c]
    <2>1. Turn' \subseteq Containers
      BY TurnBoxes
    <2>2. Turn' \cap (pool' \cup Range(staged)') = {}
      BY DEF OwnInv, Apart
    <2> QED BY <2>1, <2>2 DEF Fades
  <1>2. ASSUME NEW t \in Callers, caller'[t].pc \in Late PROVE elems'[caller'[t].box] = elems[caller[t].box]
    <2>1. caller'[t].box \in Containers /\ Owned'[t] = {caller'[t].box}
      BY <1>2 DEF OwnInv, BoxOK, Owned, Late, Held
    <2>2. Owned'[t] \cap (pool' \cup Range(staged)') = {}
      BY DEF OwnInv, Apart
    <2>3. caller'[t].box = caller[t].box
      BY <1>2 DEF Rests
    <2> QED BY SMT, <2>1, <2>2, <2>3 DEF Fades
  <1>3. Ready'
    BY <1>1, <1>2 DEF SealInv, Ready, Rests
  <1>4. Contents'
    BY BlankFacts DEF SealInv, Contents, Fades
  <1>5. Divided(issued, Given(wire), InBox, InHand)'
    <2>1. \A c \in Containers : InBox'[c] \subseteq InBox[c]
      BY BlankFacts DEF Fades, InBox
    <2>2. \A t \in Callers : InHand'[t] \subseteq InHand[t]
      BY EmptyFacts DEF Rests, InHand
    <2>3. Divided(issued, Given(wire), InBox', InHand')
      BY <2>1, <2>2, FadeDivided DEF SealInv
    <2> QED BY <2>3
  <1> QED BY <1>3, <1>4, <1>5 DEF SealInv, Rests

LEMMA KeepElems == SealInv /\ elems' = elems => Fades
  BY DEF SealInv, Contents, Fades

LEMMA EmptyElems ==
    ASSUME SealInv, NEW D, elems' = Emptied(D), D \subseteq pool'
    PROVE  Fades
  <1>1. elems \in [Containers -> Seq(ElemType)]
    BY DEF SealInv, Contents
  <1>2. elems' \in [Containers -> Seq(ElemType)] /\ \A c \in Containers : elems'[c] = IF c \in D THEN <<>> ELSE elems[c]
    BY <1>1, EmptyFacts DEF Emptied
  <1> QED BY <1>2, EmptyFacts DEF Fades

LEMMA StageElems ==
    ASSUME SealInv, OwnInv, NEW c \in pool, NEW s \in Seq(ElemType), Blank(s), Stage(c, s)
    PROVE  Fades
  <1> DEFINE D == StagePackets(c).dropped
  <1>1. staged' = StagePackets(c).queue /\ pool' = (pool \ {c}) \cup D /\ elems' = [Emptied(D) EXCEPT ![c] = s]
    BY DEF Stage
  <1>2. c \in Range(staged)' /\ c \in Containers
    BY <1>1, StagePacketsFacts DEF OwnInv, Shapes
  <1> HIDE DEF D
  <1>3. elems \in [Containers -> Seq(ElemType)]
    BY DEF SealInv, Contents
  <1>4. /\ elems' \in [Containers -> Seq(ElemType)]
        /\ \A d \in Containers : elems'[d] = IF d = c THEN s ELSE IF d \in D THEN <<>> ELSE elems[d]
    BY <1>1, <1>3, EmptyFacts DEF Emptied
  <1> QED BY <1>1, <1>2, <1>4, EmptyFacts DEF Fades

LEMMA MovesRest ==
    ASSUME SealInv, NEW t \in Callers, Moves(t), Rests(t)
    PROVE  \A u \in Callers : Rests(u)
  <1> SUFFICES ASSUME NEW u \in Callers, u # t PROVE Rests(u)
    OBVIOUS
  <1>1. caller'[u] = caller[u] /\ PacketsOK(caller[u])
    BY DEF Moves, SealInv
  <1> QED BY <1>1 DEF Rests, PacketsOK

LEMMA SameRest == SealInv /\ caller' = caller => \A u \in Callers : Rests(u)
  BY DEF SealInv, Rests, PacketsOK

LEMMA GoRests ==
    ASSUME SealInv, NonceInv, NEW t \in Callers, NEW pc, Go(t, pc), pc \in Late => caller[t].pc \in Late
    PROVE  \A u \in Callers : Rests(u)
  <1>1. Moves(t) /\ caller'[t].pc = pc /\ caller'[t].box = caller[t].box
    BY CallerFacts, GoMoves, GoBox
  <1>2. caller'[t].todo = caller[t].todo /\ caller'[t].kept = caller[t].kept /\ caller'[t].ooo = caller[t].ooo
    BY CallerFacts DEF Go, Fields
  <1>3. PacketsOK(caller[t])
    BY DEF SealInv
  <1>4. Rests(t)
    BY <1>1, <1>2, <1>3 DEF Rests, PacketsOK
  <1> QED BY <1>1, <1>4, MovesRest

\* A caller that starts over has nothing left.
LEMMA ClearRests ==
    ASSUME SealInv, NEW t \in Callers, Moves(t), caller'[t].pc \notin Late,
           caller'[t].todo = <<>>, caller'[t].kept = <<>>, caller'[t].ooo = <<>>
    PROVE  \A u \in Callers : Rests(u)
  <1>1. Rests(t)
    BY EmptyFacts DEF Rests, PacketsOK
  <1> QED BY <1>1, MovesRest

LEMMA IdleRests ==
    ASSUME SealInv, NonceInv, NEW t \in Callers, caller' = [caller EXCEPT ![t] = Idle]
    PROVE  \A u \in Callers : Rests(u)
  <1>1. Moves(t) /\ caller'[t] = Idle
    BY CallerFacts, IdleMoves
  <1>2. caller'[t].pc \notin Late /\ caller'[t].todo = <<>> /\ caller'[t].kept = <<>> /\ caller'[t].ooo = <<>>
    BY SMT, <1>1 DEF Idle, Late
  <1> QED BY <1>1, <1>2, ClearRests

LEMMA AgainRests ==
    ASSUME SealInv, NonceInv, NEW t \in Callers, Again(t)
    PROVE  \A u \in Callers : Rests(u)
  <1> DEFINE r == [Idle EXCEPT !.pc = IF caller[t].ooo # <<>> THEN "top" ELSE "take", !.keypair = caller[t].keypair]
  <1>1. caller' = [caller EXCEPT ![t] = r] /\ Moves(t)
    BY CallerFacts, AgainMoves DEF Again
  <1>2. r.pc \notin Late /\ r.todo = <<>> /\ r.kept = <<>> /\ r.ooo = <<>>
    BY DEF Idle, Late
  <1>3. caller'[t] = r
    BY <1>1, CallerFacts
  <1> HIDE DEF r
  <1> QED BY <1>1, <1>2, <1>3, ClearRests

LEMMA SameTurn == UNCHANGED <<outbound, sender>> => Turn' = Turn
  BY DEF Turn

LEMMA StagingSeal ==
    ASSUME SealInv, OwnInv, NonceInv, BoundOK, OwnInv', NEW t \in Callers, ReadFromTUN(t) \/ StageKeepalive(t)
    PROVE  SealInv'
  <1>0. UNCHANGED <<outbound, sender, wire, issued>> /\ (caller' = caller \/ Go(t, "top"))
    BY DEF ReadFromTUN, StageKeepalive
  <1>1. \A u \in Callers : Rests(u)
    <2>1. CASE caller' = caller
      BY <2>1, SameRest
    <2>2. CASE Go(t, "top")
      BY <2>2, GoRests DEF Late
    <2> QED BY <1>0, <2>1, <2>2
  <1>2. CASE UNCHANGED <<elems, locked>>
    BY <1>0, <1>1, <1>2, KeepElems, SameTurn, FadeSeal
  <1>3. ASSUME NEW s \in Seq(ElemType), Blank(s), pool # {}, Stage(GetContainer, s) PROVE SealInv'
    <2>1. GetContainer \in pool /\ locked' = locked \ {GetContainer}
      BY <1>3, GetFromPool DEF Stage
    <2>2. Turn' = Turn /\ Turn \cap locked \subseteq locked'
      BY <1>0, <2>1, SameTurn, PoolUnlocks
    <2>3. Fades
      BY <1>3, <2>1, StageElems
    <2> QED BY <1>0, <1>1, <2>2, <2>3, FadeSeal
  <1>4. CASE ReadFromTUN(t)
    <2> DEFINE b == Batches[bound.batch]  s == [i \in DOMAIN b |-> Elem(b[i])]
    <2>1. bound.batch \in 1 .. Len(Batches)
      BY SMTT(30), <1>4, OutboundAssumption DEF ReadFromTUN, BoundOK
    <2>2. b \in Seq(Nat)
      BY SMT, <2>1, OutboundAssumption
    <2>3. \A n \in Nat : Elem(n) \in ElemType /\ Elem(n).keypair = None
      BY DEF Elem, ElemType
    <2>4. (running /\ pool # {} /\ Stage(GetContainer, s)) \/ UNCHANGED <<elems, locked>>
      BY <1>4 DEF ReadFromTUN
    <2> HIDE DEF b
    <2>5. s \in Seq(ElemType) /\ Blank(s)
      <3>1. s = [i \in 1 .. Len(b) |-> Elem(b[i])] /\ \A i \in 1 .. Len(b) : b[i] \in Nat
        BY SMT, <2>2
      <3>2. \A i \in 1 .. Len(b) : s[i] \in ElemType /\ s[i].keypair = None
        BY <2>3, <3>1
      <3> HIDE DEF s
      <3>3. s \in [1 .. Len(b) -> ElemType] /\ Len(b) \in Nat
        BY SMT, <2>2, <3>1, <3>2
      <3> QED BY SMT, <3>2, <3>3 DEF Blank
    <2> HIDE DEF s
    <2> QED BY <1>2, <1>3, <2>4, <2>5
  <1>5. CASE StageKeepalive(t)
    <2> DEFINE s == <<Elem(Keepalive)>>
    <2>1. Elem(Keepalive) \in ElemType /\ Elem(Keepalive).keypair = None
      BY DEF Elem, ElemType
    <2>2. s \in Seq(ElemType) /\ Blank(s)
      BY SMT, <2>1 DEF Blank
    <2>3. (pool # {} /\ Stage(GetContainer, s)) \/ UNCHANGED <<elems, locked>>
      BY <1>5 DEF StageKeepalive
    <2> HIDE DEF s
    <2> QED BY <1>2, <1>3, <2>2, <2>3
  <1> QED BY <1>4, <1>5

LEMMA CallerQuietSeal ==
    ASSUME SealInv, NonceInv, OwnInv', NEW t \in Callers, SendKeepalive(t) \/ Top(t) \/ StoreLimit(t) \/ PushEncryption(t)
    PROVE  SealInv'
  <1>0. UNCHANGED <<elems, locked, outbound, sender, wire, issued>>
    BY DEF SendKeepalive, Top, StoreLimit, PushEncryption, queues
  <1>1. \A u \in Callers : Rests(u)
    <2>1. CASE SendKeepalive(t) \/ StoreLimit(t)
      <3>1. PICK pc \in {"keepalive", "top", "nonce"} : Go(t, pc)
        BY <2>1 DEF SendKeepalive, StoreLimit
      <3> QED BY <3>1, GoRests DEF Late
    <2>2. CASE Top(t)
      <3>1. CASE caller' = [caller EXCEPT ![t] = Idle]
        BY <3>1, IdleRests
      <3>2. CASE caller' = [caller EXCEPT ![t].pc = "take", ![t].keypair = current]
        <4>1. /\ Moves(t) /\ caller'[t].pc = "take" /\ caller'[t].todo = caller[t].todo
              /\ caller'[t].kept = caller[t].kept /\ caller'[t].ooo = caller[t].ooo
          BY <3>2, CallerFacts DEF Moves, Fields
        <4>2. Rests(t)
          BY <4>1 DEF Rests, SealInv, PacketsOK, Late
        <4> QED BY <4>1, <4>2, MovesRest
      <3> QED BY <2>2, <3>1, <3>2 DEF Top
    <2>3. CASE PushEncryption(t)
      BY <2>3, AgainRests DEF PushEncryption
    <2> QED BY <2>1, <2>2, <2>3
  <1> QED BY <1>0, <1>1, KeepElems, SameTurn, FadeSeal

LEMMA TakeSeal ==
    ASSUME SealInv, OwnInv, NonceInv, OwnInv', NEW t \in Callers, Take(t)
    PROVE  SealInv'
  <1>0. UNCHANGED <<elems, locked, outbound, sender, wire, issued>>
    BY DEF Take
  <1>1. \A u \in Callers : Rests(u)
    <2>1. CASE staged = <<>>
      BY <2>1, IdleRests DEF Take
    <2>2. CASE staged # <<>>
      <3>1. Head(staged) \in Containers
        BY SMT, <2>2 DEF OwnInv, Shapes
      <3>2. caller' = [caller EXCEPT ![t] = [@ EXCEPT !.pc = "nonce", !.box = Head(staged), !.todo = elems[Head(staged)]]]
        BY <2>2 DEF Take
      <3>3. /\ Moves(t) /\ caller'[t].pc = "nonce" /\ caller'[t].todo = elems[Head(staged)]
            /\ caller'[t].kept = caller[t].kept /\ caller'[t].ooo = caller[t].ooo
        BY <3>2, CallerFacts DEF Moves, Fields
      <3>4. PacketsOK(caller[t]) /\ elems[Head(staged)] \in Seq(ElemType)
        BY <3>1 DEF SealInv, Contents
      <3>5. Rests(t)
        BY <3>3, <3>4 DEF Rests, PacketsOK, Late
      <3> QED BY <3>3, <3>5, MovesRest
    <2> QED BY <2>1, <2>2
  <1> QED BY <1>0, <1>1, KeepElems, SameTurn, FadeSeal

LEMMA CheckRunningSeal ==
    ASSUME SealInv, NonceInv, OwnInv', NEW t \in Callers, CheckRunning(t)
    PROVE  SealInv'
  <1>0. caller[t].pc \in Late /\ UNCHANGED <<locked, outbound, sender, wire, issued>>
    BY DEF CheckRunning, queues, Late
  <1>1. CASE running
    <2>1. Go(t, "outbound") /\ elems' = elems
      BY <1>1 DEF CheckRunning
    <2> QED BY <1>0, <2>1, GoRests, KeepElems, SameTurn, FadeSeal
  <1>2. CASE ~running
    <2>1. Again(t) /\ elems' = Emptied({caller[t].box}) /\ pool' = pool \cup {caller[t].box}
      BY <1>2 DEF CheckRunning
    <2>2. Fades
      BY <2>1, EmptyElems
    <2> QED BY <1>0, <2>1, <2>2, AgainRests, SameTurn, FadeSeal
  <1> QED BY <1>1, <1>2

-----------------------------------------------------------------------------
(* Giving nonces, and passing containers on *)

LEMMA BlankAppend ==
    ASSUME NEW es \in Seq(ElemType), NEW e \in ElemType, Blank(es), e.keypair = None
    PROVE  Append(es, e) \in Seq(ElemType) /\ Blank(Append(es, e))
  BY SMT DEF Blank

\* The nonce is one the counter has not given yet, because those are behind it.
LEMMA AssignNonceSeal ==
    ASSUME SealInv, NonceInv, Behind, NEW t \in Callers, AssignNonce(t)
    PROVE  SealInv'
  <1> USE CallerFacts
  <1> DEFINE me == caller[t]
             k == me.keypair
             nonce == sendNonce[k]
             first == Head(me.todo)
             elem == [first EXCEPT !.keypair = k, !.nonce = nonce]
  <1>0. /\ me.pc = "nonce" /\ me.todo # <<>>
        /\ UNCHANGED <<elems, locked, outbound, sender, wire>>
    BY DEF AssignNonce, queues
  <1>1. k \in Keypair /\ nonce \in Nat /\ k # None
    <2>1. k \in Keypair /\ sendNonce \in [Keypair -> Nat]
      BY <1>0, CallerFacts DEF NonceInv, WithKeypair
    <2>2. None \notin Keypair
      BY SMT, OutboundAssumption DEF Keypair
    <2> QED BY <2>1, <2>2
  <1>2. PacketsOK(me)
    BY DEF SealInv
  <1>3. first \in ElemType /\ Tail(me.todo) \in Seq(ElemType)
    BY SMT, <1>0, <1>2 DEF PacketsOK
  <1>4. elem \in ElemType /\ elem.keypair = k /\ elem.nonce = nonce /\ elem.pkt = first.pkt
    <2> HIDE DEF first, k, nonce
    <2> QED BY <1>1, <1>3 DEF ElemType
  <1>5. Contents'
    BY <1>0 DEF SealInv, Contents
  <1>6. ASSUME Moves(t), caller'[t].pc \notin Late PROVE Ready'
    <2>1. Turn' = Turn
      BY <1>0, SameTurn
    <2> QED BY <1>0, <1>6, <2>1 DEF SealInv, Ready, Moves
  <1>7. InBox' = InBox
    BY <1>0 DEF InBox
  <1>8. CASE BelowLimit(nonce)
    <2>1. /\ caller' = [caller EXCEPT ![t] = [me EXCEPT !.todo = Tail(@), !.kept = Append(@, elem)]]
          /\ issued' = issued \cup {<<k, nonce>>}
      BY <1>8 DEF AssignNonce
    <2> HIDE DEF elem
    <2>2. /\ Moves(t) /\ caller'[t].pc = "nonce" /\ caller'[t].todo = Tail(me.todo)
          /\ caller'[t].kept = Append(me.kept, elem) /\ caller'[t].ooo = me.ooo
      <3>1. DOMAIN caller = Callers /\ DOMAIN me = Fields
        OBVIOUS
      <3>2. caller'[t] = [me EXCEPT !.todo = Tail(@), !.kept = Append(@, elem)]
        BY <2>1, <3>1
      <3>3. Moves(t)
        BY <2>1, <3>1, AssignNonceFacts
      <3> DEFINE r == caller'[t]
      <3>4. r = caller'[t]
        OBVIOUS
      <3> HIDE DEF me, elem, r
      <3>5. r.pc = me.pc /\ r.todo = Tail(me.todo) /\ r.kept = Append(me.kept, elem) /\ r.ooo = me.ooo
        BY <3>1, <3>2, <3>4 DEF Fields
      <3> QED BY <1>0, <3>3, <3>4, <3>5
    <2>3. <<k, nonce>> \notin issued /\ Pair(elem) = <<k, nonce>>
      BY SMT, <1>1, <1>4 DEF Behind, Pair
    <2>4. InHand[t] \subseteq issued /\ InHand[t] = Given(me.kept)
      BY DEF SealInv, Divided, InHand
    <2> HIDE DEF me, k, nonce
    <2>5. /\ Append(me.kept, elem) \in Seq(ElemType) /\ Keyed(Append(me.kept, elem)) /\ Unique(Append(me.kept, elem))
          /\ Given(Append(me.kept, elem)) = Given(me.kept) \cup {Pair(elem)}
      BY ZenonT(30), <1>1, <1>2, <1>4, <2>3, <2>4, AppendFacts DEF PacketsOK
    <2>6. PacketsOK(caller'[t])
      BY <1>2, <1>3, <2>2, <2>5 DEF PacketsOK, me
    <2>7. \A u \in Callers : PacketsOK(caller'[u])
      BY <2>2, <2>6 DEF SealInv, Moves
    <2>8. Divided(issued', Given(wire), InBox, InHand')
      <3>1. InHand'[t] = InHand[t] \cup {<<k, nonce>>} /\ \A u \in Callers \ {t} : InHand'[u] = InHand[u]
        BY <2>2, <2>3, <2>4, <2>5 DEF InHand, Moves
      <3> QED BY <2>1, <2>3, <3>1, GiveDivided DEF SealInv
    <2>9. Ready'
      BY <1>6, <2>2 DEF Late
    <2> QED BY <1>0, <1>5, <1>7, <2>7, <2>8, <2>9 DEF SealInv, PacketsOK
  <1>9. CASE ~BelowLimit(nonce)
    <2>1. /\ caller' = [caller EXCEPT ![t] = [me EXCEPT !.todo = Tail(@), !.pc = "over", !.ooo = Append(@, Elem(elem.pkt))]]
          /\ issued' = issued
      BY <1>9 DEF AssignNonce
    <2> HIDE DEF elem
    <2>2. /\ Moves(t) /\ caller'[t].pc = "over" /\ caller'[t].todo = Tail(me.todo)
          /\ caller'[t].kept = me.kept /\ caller'[t].ooo = Append(me.ooo, Elem(elem.pkt))
      <3>1. DOMAIN caller = Callers /\ DOMAIN me = Fields
        OBVIOUS
      <3>2. caller'[t] = [me EXCEPT !.todo = Tail(@), !.pc = "over", !.ooo = Append(@, Elem(elem.pkt))]
        BY <2>1, <3>1
      <3>3. Moves(t)
        BY <2>1, <3>1, AssignNonceFacts
      <3> DEFINE r == caller'[t]
      <3>4. r = caller'[t]
        OBVIOUS
      <3> HIDE DEF me, elem, r
      <3>5. r.pc = "over" /\ r.todo = Tail(me.todo) /\ r.kept = me.kept /\ r.ooo = Append(me.ooo, Elem(elem.pkt))
        BY <3>1, <3>2, <3>4 DEF Fields
      <3> QED BY <1>0, <3>3, <3>4, <3>5
    <2>3. Elem(elem.pkt) \in ElemType /\ Elem(elem.pkt).keypair = None
      BY <1>3, <1>4 DEF Elem, ElemType
    <2> HIDE DEF me, k, nonce
    <2>4. Append(me.ooo, Elem(elem.pkt)) \in Seq(ElemType) /\ Blank(Append(me.ooo, Elem(elem.pkt)))
      BY <1>2, <2>3, BlankAppend DEF PacketsOK
    <2>5. PacketsOK(caller'[t])
      BY <1>2, <1>3, <2>2, <2>4 DEF PacketsOK, me
    <2>6. \A u \in Callers : PacketsOK(caller'[u])
      BY <2>2, <2>5 DEF SealInv, Moves
    <2>7. \A u \in Callers : InHand'[u] = InHand[u]
      BY <2>2 DEF InHand, Moves, me
    <2>8. Divided(issued, Given(wire), InBox, InHand')
      BY <2>7, FadeDivided DEF SealInv
    <2>9. Ready'
      BY <1>6, <2>2 DEF Late
    <2> QED BY <1>0, <1>5, <1>7, <2>1, <2>6, <2>8, <2>9 DEF SealInv, PacketsOK
  <1> QED BY <1>8, <1>9

LEMMA LockBoxElems ==
    ASSUME SealInv, OwnInv, NonceInv, NEW t \in Callers, LockBox(t)
    PROVE  /\ elems' \in [Containers -> Seq(ElemType)] /\ elems'[caller[t].box] = caller[t].kept
           /\ \A c \in Containers \ {caller[t].box} :
                 \/ elems'[c] = elems[c]
                 \/ Blank(elems'[c]) /\ c \in pool' \cup Range(staged)'
  <1> DEFINE box == caller[t].box
             g == GetContainer
             D == StagePackets(g).dropped
  <1>1. caller[t].pc = "nonce" /\ PacketsOK(caller[t]) /\ elems \in [Containers -> Seq(ElemType)]
    BY DEF LockBox, SealInv, Contents
  <1>2. box \in Containers /\ Owned[t] = {box} /\ box \notin pool
    BY <1>1 DEF OwnInv, BoxOK, Owned, Apart, Held
  <1>3. CASE caller[t].ooo = <<>>
    <2>1. elems' = [elems EXCEPT ![box] = caller[t].kept]
      BY <1>3 DEF LockBox
    <2> QED BY <1>1, <1>2, <2>1 DEF PacketsOK
  <1>4. CASE caller[t].ooo # <<>>
    <2>1. /\ pool # {} /\ staged' = StagePackets(g).queue /\ D \subseteq pool'
          /\ elems' = [Emptied(D) EXCEPT ![g] = caller[t].ooo, ![box] = caller[t].kept]
      BY <1>4 DEF LockBox
    <2>2. g \in pool /\ g \in Containers
      BY <2>1, GetFromPool DEF OwnInv, Shapes
    <2>3. g \in Range(staged)'
      BY <2>1, <2>2, StagePacketsFacts
    <2> HIDE DEF g, D, box
    <2>4. /\ elems' \in [Containers -> Seq(ElemType)]
          /\ \A c \in Containers : elems'[c] = IF c = box THEN caller[t].kept ELSE IF c = g THEN caller[t].ooo
                                               ELSE IF c \in D THEN <<>> ELSE elems[c]
      BY <1>1, <1>2, <2>1, <2>2, EmptyFacts DEF Emptied, PacketsOK
    <2> QED BY <1>1, <1>2, <2>1, <2>3, <2>4, EmptyFacts DEF PacketsOK, box
  <1> QED BY <1>3, <1>4

LEMMA LockBoxSeal ==
    ASSUME SealInv, OwnInv, NonceInv, OwnInv', NEW t \in Callers, LockBox(t)
    PROVE  SealInv'
  <1> USE CallerFacts
  <1> DEFINE box == caller[t].box
  <1>0. caller[t].pc = "nonce" /\ UNCHANGED <<outbound, sender, wire, issued>> /\ Turn' = Turn
    BY SameTurn DEF LockBox
  <1>1. PacketsOK(caller[t]) /\ box \in Containers /\ Owned[t] = {box} /\ Owned[t] \cap Turn = {}
    BY <1>0 DEF SealInv, OwnInv, BoxOK, Owned, Apart, Held
  <1>2. /\ Moves(t) /\ caller'[t].kept = <<>> /\ PacketsOK(caller'[t])
        /\ caller'[t].pc \in Late => caller'[t].box = box
    <2>1. CASE caller[t].kept = <<>>
      <3>1. caller' = [caller EXCEPT ![t] = [Idle EXCEPT !.pc = "top"]]
        BY <2>1 DEF LockBox
      <3>2. Moves(t) /\ caller'[t].kept = <<>> /\ caller'[t].pc = "top" /\ caller'[t].todo = <<>> /\ caller'[t].ooo = <<>>
        BY <3>1 DEF Moves, Idle, Fields
      <3> QED BY <3>2, EmptyFacts DEF PacketsOK, Late
    <2>2. CASE caller[t].kept # <<>>
      <3>1. caller' = [caller EXCEPT ![t] = [@ EXCEPT !.pc = "running", !.kept = <<>>]]
        BY <2>2 DEF LockBox
      <3>2. /\ Moves(t) /\ caller'[t].kept = <<>> /\ caller'[t].box = box
            /\ caller'[t].todo = caller[t].todo /\ caller'[t].ooo = caller[t].ooo
        BY <3>1 DEF Moves, Fields
      <3> QED BY <1>1, <3>2, EmptyFacts DEF PacketsOK
    <2> QED BY <2>1, <2>2
  <1>3. /\ elems' \in [Containers -> Seq(ElemType)] /\ elems'[box] = caller[t].kept
        /\ \A c \in Containers \ {box} : elems'[c] = elems[c] \/ (Blank(elems'[c]) /\ c \in pool' \cup Range(staged)')
    BY LockBoxElems
  <1> HIDE DEF box
  <1>4. Contents'
    BY <1>0, <1>1, <1>3, BlankFacts DEF SealInv, Contents, PacketsOK
  <1>5. \A c \in Turn' : c \in Containers /\ elems'[c] = elems[c]
    <2>1. Turn' \subseteq Containers
      BY TurnBoxes
    <2>2. Turn' \cap (pool' \cup Range(staged)') = {}
      BY DEF OwnInv, Apart
    <2> QED BY <1>0, <1>1, <1>3, <2>1, <2>2
  <1>6. Turn \cap locked \subseteq locked'
    <2>1. CASE caller[t].ooo = <<>>
      BY <2>1 DEF LockBox
    <2>2. CASE caller[t].ooo # <<>>
      <3>1. pool # {} /\ locked' = (locked \cup {caller[t].box}) \ {GetContainer}
        BY <2>2 DEF LockBox
      <3> QED BY <3>1, GetFromPool, PoolUnlocks
    <2> QED BY <2>1, <2>2
  <1>7. ASSUME NEW u \in Callers, caller'[u].pc \in Late PROVE Keyed(elems'[caller'[u].box])
    <2>1. CASE u = t
      BY <1>1, <1>2, <1>3, <1>7, <2>1 DEF PacketsOK
    <2>2. CASE u # t
      <3>1. caller'[u] = caller[u] /\ Owned'[u] = Owned[u] /\ Owned[u] = {caller[u].box} /\ caller[u].box \in Containers
        BY ZenonT(30), <1>2, <1>7, <2>2, MovesOthers DEF Moves, Owned, Held, Late, OwnInv, BoxOK
      <3>2. caller[u].box # box /\ caller[u].box \notin pool' \cup Range(staged)'
        BY <1>1, <2>2, <3>1 DEF OwnInv, Apart
      <3>3. elems'[caller[u].box] = elems[caller[u].box]
        BY <1>3, <3>1, <3>2
      <3> QED BY <1>7, <3>1, <3>3 DEF SealInv, Ready
    <2> QED BY <2>1, <2>2
  <1>8. Ready'
    BY <1>0, <1>5, <1>6, <1>7 DEF SealInv, Ready
  <1>9. Divided(issued, Given(wire), InBox', InHand')
    <2>1. InBox'[box] = InHand[t] /\ \A c \in Containers \ {box} : InBox'[c] \subseteq InBox[c]
      BY <1>1, <1>3, BlankFacts DEF InBox, InHand
    <2>2. InHand'[t] = {} /\ \A u \in Callers \ {t} : InHand'[u] = InHand[u]
      BY <1>2, EmptyFacts DEF InHand, Moves
    <2>3. Divided(issued, Given(wire), InBox, InHand)
      BY DEF SealInv
    <2> HIDE DEF InBox, InHand
    <2> QED BY SMT, <1>1, <2>1, <2>2, <2>3, FillDivided
  <1>10. \A u \in Callers : PacketsOK(caller'[u])
    BY <1>2 DEF SealInv, Moves
  <1> QED BY <1>0, <1>4, <1>8, <1>9, <1>10 DEF SealInv, PacketsOK

\* The container gets its turn with its nonces, and locked.
LEMMA PushOutboundSeal ==
    ASSUME SealInv, OwnInv, NonceInv, NEW t \in Callers, PushOutbound(t)
    PROVE  SealInv'
  <1> USE CallerFacts
  <1> DEFINE c == caller[t].box
  <1>0. /\ caller[t].pc = "outbound" /\ outbound' = Append(outbound, c) /\ Go(t, "encryption")
        /\ UNCHANGED <<elems, locked, sender, wire, issued>>
    BY DEF PushOutbound
  <1>1. Moves(t) /\ caller'[t].pc = "encryption"
    BY <1>0, GoMoves
  <1>2. \A u \in Callers : Rests(u)
    BY <1>0, GoRests DEF Late
  <1>3. c \in locked /\ c \in Containers /\ Keyed(elems[c]) /\ outbound \in Seq(Containers \cup {Nil})
    BY <1>0 DEF OwnInv, BoxOK, SenderOK, SealInv, Ready, Late, Held
  <1> HIDE DEF c
  <1>4. Turn' \subseteq Turn \cup {c}
    <2>1. Range(outbound') \subseteq Range(outbound) \cup {c}
      BY SMT, <1>0, <1>3 DEF Range
    <2> QED BY <1>0, <2>1 DEF Turn
  <1>5. Ready'
    <2>1. \A d \in Turn' : Keyed(elems'[d]) /\ (d \in locked' \/ Sealed(elems'[d]))
      BY <1>0, <1>3, <1>4 DEF SealInv, Ready
    <2>2. \A u \in Callers : caller'[u].pc \in Late => Keyed(elems'[caller'[u].box])
      BY <1>0, <1>2 DEF Rests, SealInv, Ready
    <2> QED BY <2>1, <2>2 DEF Ready
  <1>6. Contents' /\ InBox' = InBox
    BY <1>0 DEF SealInv, Contents, InBox
  <1>7. Divided(issued, Given(wire), InBox, InHand')
    <2>1. \A u \in Callers : InHand'[u] \subseteq InHand[u]
      BY <1>2, EmptyFacts DEF Rests, InHand
    <2> QED BY <2>1, FadeDivided DEF SealInv
  <1> QED BY <1>0, <1>2, <1>5, <1>6, <1>7 DEF SealInv, Rests

LEMMA FinishEncryptionSeal ==
    ASSUME SealInv, OwnInv, NEW w \in Encrypters, FinishEncryption(w)
    PROVE  SealInv'
  <1> DEFINE c == encrypting[w]
  <1>0. /\ c # None /\ elems' = [elems EXCEPT ![c] = SealAll(elems[c])] /\ locked' = locked \ {c}
        /\ UNCHANGED <<outbound, caller, sender, wire, issued>>
    BY DEF FinishEncryption, queues
  <1>1. c \in Containers /\ elems \in [Containers -> Seq(ElemType)] /\ AtWorker[w] = {c}
    BY <1>0 DEF OwnInv, Shapes, SealInv, Contents, AtWorker
  <1>2. c \in Turn
    BY <1>1 DEF OwnInv, Encrypted
  <1> HIDE DEF c
  <1>3. /\ SealAll(elems[c]) \in Seq(ElemType) /\ Sealed(SealAll(elems[c])) /\ Given(SealAll(elems[c])) = Given(elems[c])
        /\ Unique(SealAll(elems[c])) /\ Keyed(SealAll(elems[c]))
    BY <1>1, <1>2, SealFacts DEF SealInv, Contents, Ready
  <1>4. /\ elems' \in [Containers -> Seq(ElemType)] /\ elems'[c] = SealAll(elems[c])
        /\ \A d \in Containers \ {c} : elems'[d] = elems[d]
    BY <1>0, <1>1, <1>3
  <1>5. Turn' = Turn /\ Turn \subseteq Containers
    BY <1>0, SameTurn, TurnBoxes
  <1>6. Ready'
    <2>1. \A d \in Turn : Keyed(elems'[d]) /\ (d \in locked' \/ Sealed(elems'[d]))
      BY <1>0, <1>3, <1>4, <1>5 DEF SealInv, Ready
    <2>2. \A u \in Callers : caller[u].pc \in Late => caller[u].box \in Containers /\ Keyed(elems[caller[u].box])
      BY DEF OwnInv, BoxOK, SealInv, Ready, Late, Held
    <2>3. \A u \in Callers : caller[u].pc \in Late => Keyed(elems'[caller[u].box])
      BY <1>3, <1>4, <2>2
    <2> QED BY <1>0, <1>5, <2>1, <2>3 DEF Ready
  <1>7. Contents'
    BY <1>0, <1>3, <1>4 DEF SealInv, Contents
  <1>8. Divided(issued, Given(wire), InBox', InHand)
    <2>1. \A d \in Containers : InBox'[d] \subseteq InBox[d]
      BY <1>3, <1>4 DEF InBox
    <2> QED BY <2>1, FadeDivided DEF SealInv
  <1>9. InHand' = InHand /\ \A u \in Callers : PacketsOK(caller'[u])
    BY <1>0 DEF InHand, SealInv
  <1> QED BY <1>0, <1>6, <1>7, <1>8, <1>9 DEF SealInv, PacketsOK

\* What is sent is unlocked, so it is sealed, and its nonces leave the container.
LEMMA SenderSendSeal ==
    ASSUME SealInv, OwnInv, OwnInv', SenderSend
    PROVE  SealInv'
  <1> DEFINE c == sender.box
  <1>0. /\ sender.pc = "send" /\ c \notin locked /\ sender'.box = None /\ pool' = pool \cup {c}
        /\ wire' \in {wire, wire \o elems[c]} /\ elems' = Emptied({c})
        /\ UNCHANGED <<locked, outbound, caller, issued>>
    BY DEF SenderSend, queues
  <1>1. c \in Containers /\ c \in Turn /\ Turn' \subseteq Turn
    BY <1>0, BoxDistinct DEF OwnInv, SenderOK, Turn
  <1>2. Fades /\ \A u \in Callers : Rests(u)
    BY <1>0, EmptyElems, SameRest
  <1>3. CASE wire' = wire
    BY <1>0, <1>1, <1>2, <1>3, FadeSeal
  <1>4. CASE wire' = wire \o elems[c]
    <2> HIDE DEF c
    <2>1. Keyed(elems[c]) /\ Sealed(elems[c]) /\ Unique(elems[c]) /\ elems[c] \in Seq(ElemType)
      BY <1>0, <1>1 DEF SealInv, Ready, Contents
    <2>2. wire \in Seq(ElemType) /\ Keyed(wire) /\ Unique(wire) /\ Sealed(wire)
      BY DEF SealInv, Contents
    <2>3. InBox[c] = Given(elems[c]) /\ Given(wire) \cap Given(elems[c]) = {}
      BY <1>1 DEF SealInv, Divided, InBox
    <2>4. /\ wire' \in Seq(ElemType) /\ Keyed(wire') /\ Unique(wire') /\ Sealed(wire')
          /\ Given(wire') = Given(wire) \cup InBox[c]
      BY SMT, <1>4, <2>1, <2>2, <2>3, ConcatFacts
    <2>5. elems \in [Containers -> Seq(ElemType)] /\ \A d \in Containers : Unique(elems[d])
      BY DEF SealInv, Contents
    <2>6. /\ elems' \in [Containers -> Seq(ElemType)] /\ elems'[c] = <<>>
          /\ \A d \in Containers \ {c} : elems'[d] = elems[d]
      BY <1>0, <1>1, <2>5, EmptyFacts DEF Emptied
    <2>7. Contents'
      BY <2>4, <2>5, <2>6, EmptyFacts DEF Contents
    <2>8. Divided(issued, Given(wire'), InBox', InHand)
      <3>1. InBox'[c] = {} /\ \A d \in Containers \ {c} : InBox'[d] = InBox[d]
        BY <1>1, <2>6, EmptyFacts DEF InBox
      <3>2. Divided(issued, Given(wire) \cup InBox[c], InBox', InHand)
        BY <1>1, <3>1, SendDivided DEF SealInv
      <3> QED BY SMT, <2>4, <3>2
    <2>9. Ready'
      <3>1. c \notin Turn' /\ Turn' \subseteq Containers
        BY <1>0, TurnBoxes DEF OwnInv, Apart
      <3>2. \A d \in Turn' : Keyed(elems'[d]) /\ (d \in locked' \/ Sealed(elems'[d]))
        BY <1>0, <1>1, <2>6, <3>1 DEF SealInv, Ready
      <3>3. \A u \in Callers : caller[u].pc \in Late => caller[u].box \in Containers /\ caller[u].box # c
        BY <1>1 DEF OwnInv, BoxOK, Apart, Owned, Late, Held
      <3>4. \A u \in Callers : caller[u].pc \in Late => Keyed(elems'[caller[u].box])
        BY <2>6, <3>3 DEF SealInv, Ready
      <3> QED BY <1>0, <3>2, <3>4 DEF Ready
    <2>10. InHand' = InHand
      BY <1>0 DEF InHand
    <2> QED BY <1>0, <1>2, <2>7, <2>8, <2>9, <2>10 DEF SealInv, Rests
  <1> QED BY <1>0, <1>3, <1>4

-----------------------------------------------------------------------------
(* The other steps *)

\* A step that moves no caller, and puts back what it empties.
LEMMA OtherSeal ==
    ASSUME SealInv, OwnInv', UNCHANGED <<caller, wire, issued>>, Fades, Turn' \subseteq Turn, locked \subseteq locked'
    PROVE  SealInv'
  BY SameRest, FadeSeal

LEMMA LifeSeal ==
    ASSUME SealInv, OwnInv, OwnInv', Lifecycle \/ Stop \/ Start \/ FlushStagedPackets
    PROVE  SealInv'
  <1>0. UNCHANGED <<caller, wire, issued, locked>>
    BY DEF Lifecycle, StopSignal, StopWait, StartFlush, StartRoutine, Stop, Start, FlushStagedPackets
  <1>1. CASE StopWait \/ FlushStagedPackets
    <2>1. elems' = Emptied(Range(staged)) /\ Range(staged) \subseteq pool' /\ UNCHANGED <<outbound, sender>>
      BY <1>1 DEF StopWait, FlushStagedPackets, Flushed
    <2> QED BY <1>0, <2>1, EmptyElems, SameTurn, OtherSeal
  <1>2. CASE StopSignal
    <2>1. outbound' = Append(outbound, Nil) /\ UNCHANGED <<elems, sender>> /\ outbound \in Seq(Containers \cup {Nil})
      BY <1>2 DEF StopSignal, OwnInv, SenderOK
    <2>2. Range(outbound') \subseteq Range(outbound) \cup {Nil}
      BY SMT, <2>1 DEF Range
    <2>3. Turn' \subseteq Turn
      BY <2>1, <2>2 DEF Turn
    <2> QED BY <1>0, <2>1, <2>3, KeepElems, OtherSeal
  <1>3. CASE StartFlush
    <2>1. /\ outbound # <<>> /\ outbound' = Tail(outbound) /\ UNCHANGED sender
          /\ elems' = Emptied({Head(outbound)}) /\ pool' = pool \cup {Head(outbound)}
      BY <1>3 DEF StartFlush
    <2>2. Range(outbound') \subseteq Range(outbound)
      BY <2>1, OutboundTail
    <2>3. Turn' \subseteq Turn
      BY <2>1, <2>2 DEF Turn
    <2>4. Fades
      BY <2>1, EmptyElems
    <2> QED BY <1>0, <2>3, <2>4, OtherSeal
  <1>4. CASE StartRoutine
    <2>1. sender'.box = None /\ UNCHANGED <<elems, outbound>>
      BY <1>4 DEF StartRoutine, queues
    <2>2. Turn' \subseteq Turn
      BY <2>1 DEF Turn
    <2> QED BY <1>0, <2>1, <2>2, KeepElems, OtherSeal
  <1>5. CASE Stop \/ Start
    BY <1>0, <1>5, KeepElems, SameTurn, OtherSeal DEF Stop, Start, queues
  <1> QED BY <1>1, <1>2, <1>3, <1>4, <1>5 DEF Lifecycle

LEMMA SenderSeal ==
    ASSUME SealInv, OwnInv, OwnInv', SenderReceive \/ SenderDrop
    PROVE  SealInv'
  <1>0. UNCHANGED <<elems, caller, wire, issued>> /\ locked \subseteq locked'
    BY DEF SenderReceive, SenderDrop
  <1>1. Turn' \subseteq Turn
    <2>1. CASE SenderReceive
      <3> DEFINE c == Head(outbound)
      <3>1. outbound # <<>> /\ outbound' = Tail(outbound) /\ sender'.box \in {None, c} /\ (sender'.box = c => c # Nil \/ c = None)
        BY <2>1 DEF SenderReceive
      <3>2. Range(outbound') \subseteq Range(outbound) /\ c \in Range(outbound)
        BY <3>1, OutboundTail
      <3> HIDE DEF c
      <3> QED BY <3>1, <3>2 DEF Turn
    <2>2. CASE SenderDrop
      <3>1. sender'.box = None /\ outbound' = outbound
        BY <2>2 DEF SenderDrop, queues
      <3> QED BY <3>1 DEF Turn
    <2> QED BY <2>1, <2>2
  <1> QED BY <1>0, <1>1, KeepElems, OtherSeal

LEMMA NextSeal ==
    ASSUME SealInv, OwnInv, OwnInv', NonceInv, BoundOK, Behind, [Next]_vars
    PROVE  SealInv'
  <1>1. CASE \E t \in Callers : ReadFromTUN(t) \/ SendKeepalive(t) \/ Call(t)
    BY <1>1, StagingSeal, CallerQuietSeal, TakeSeal, AssignNonceSeal, LockBoxSeal, CheckRunningSeal, PushOutboundSeal DEF Call
  <1>2. CASE \E w \in Encrypters : StartEncryption(w)
    <2>1. UNCHANGED <<elems, caller, wire, issued, locked, outbound, sender>>
      BY <1>2 DEF StartEncryption
    <2> QED BY <2>1, KeepElems, SameTurn, OtherSeal
  <1>3. CASE \E w \in Encrypters : FinishEncryption(w)
    BY <1>3, FinishEncryptionSeal
  <1>4. CASE Send
    BY <1>4, SenderSeal, SenderSendSeal DEF Send
  <1>5. CASE Lifecycle \/ Stop \/ Start \/ FlushStagedPackets
    BY <1>5, LifeSeal
  <1>6. CASE NewSession \/ Age \/ ExpireCurrentKeypairs \/ UNCHANGED vars
    <2>1. UNCHANGED <<elems, caller, wire, issued, locked, outbound, sender>>
      BY <1>6 DEF NewSession, Age, ExpireCurrentKeypairs, vars, queues
    <2> QED BY <2>1, KeepElems, SameTurn, OtherSeal
  <1> QED BY <1>1, <1>2, <1>3, <1>4, <1>5, <1>6 DEF Next, Encrypt

-----------------------------------------------------------------------------
(* The counters *)

LEMMA SetBehind ==
    ASSUME NonceInv, Behind, NEW k \in Keypair, sendNonce' = [sendNonce EXCEPT ![k] = limit], issued' = issued
    PROVE  Behind'
  <1>1. \A j \in Keypair : sendNonce'[j] \in {sendNonce[j], limit}
    BY DEF NonceInv
  <1> QED BY <1>1 DEF Behind

LEMMA NextBehind == NonceInv /\ Behind /\ [Next]_vars => Behind'
  <1> SUFFICES ASSUME NonceInv, Behind, [Next]_vars PROVE Behind'
    OBVIOUS
  <1>1. CASE UNCHANGED <<sendNonce, issued>>
    BY <1>1 DEF Behind
  <1>2. ASSUME NEW t \in Callers, AssignNonce(t) PROVE Behind'
    <2> DEFINE k == caller[t].keypair
    <2>1. /\ k \in Keypair /\ sendNonce[k] \in Nat /\ sendNonce' = [sendNonce EXCEPT ![k] = sendNonce[k] + 1]
          /\ sendNonce[k] < limit => issued' = issued \cup {<<k, sendNonce[k]>>}
          /\ ~(sendNonce[k] < limit) => UNCHANGED issued
      BY <1>2, AssignNonceFacts
    <2> HIDE DEF k
    <2>2. sendNonce'[k] = sendNonce[k] + 1 /\ \A j \in Keypair : j # k => sendNonce'[j] = sendNonce[j]
      BY <2>1 DEF NonceInv
    <2>3. sendNonce \in [Keypair -> Nat] /\ limit \in Nat
      BY OutboundAssumption DEF NonceInv
    <2> SUFFICES ASSUME NEW j \in Keypair, NEW n \in Nat, <<j, n>> \in issued' PROVE n < sendNonce'[j] /\ n < limit
      BY DEF Behind
    <2>4. CASE <<j, n>> \in issued
      BY SMT, <2>1, <2>2, <2>3, <2>4 DEF Behind
    <2>5. CASE <<j, n>> \notin issued
      <3>1. j = k /\ n = sendNonce[k] /\ sendNonce[k] < limit
        BY SMT, <2>1, <2>5
      <3> QED BY SMT, <2>1, <2>2, <3>1
    <2> QED BY <2>4, <2>5
  <1>3. ASSUME NEW t \in Callers, StoreLimit(t) PROVE Behind'
    <2>1. caller[t].keypair \in Keypair /\ issued' = issued /\ sendNonce' = [sendNonce EXCEPT ![caller[t].keypair] = limit]
      BY <1>3, CallerFacts DEF StoreLimit, WithKeypair
    <2> QED BY <2>1, SetBehind
  <1>4. CASE ExpireCurrentKeypairs
    <2>1. current \in Keypair /\ issued' = issued /\ sendNonce' = [sendNonce EXCEPT ![current] = limit]
      BY <1>4 DEF ExpireCurrentKeypairs, NonceInv
    <2> QED BY <2>1, SetBehind
  <1>5. CASE \E t \in Callers : ReadFromTUN(t) \/ SendKeepalive(t) \/ StageKeepalive(t) \/ Top(t) \/ Take(t) \/ LockBox(t)
    BY <1>1, <1>5 DEF ReadFromTUN, SendKeepalive, StageKeepalive, Top, Take, LockBox, keys
  <1>6. CASE \E t \in Callers : CheckRunning(t) \/ PushOutbound(t) \/ PushEncryption(t)
    BY <1>1, <1>6 DEF CheckRunning, PushOutbound, PushEncryption, keys
  <1>7. CASE (\E w \in Encrypters : Encrypt(w)) \/ Send \/ Lifecycle \/ Stop \/ Start
    BY <1>1, <1>7 DEF Encrypt, StartEncryption, FinishEncryption, Send, SenderReceive, SenderDrop, SenderSend,
                             Lifecycle, StopSignal, StopWait, StartFlush, StartRoutine, Stop, Start, keys
  <1>8. CASE FlushStagedPackets \/ NewSession \/ Age \/ UNCHANGED vars
    BY <1>1, <1>8 DEF FlushStagedPackets, NewSession, Age, vars, keys
  <1> QED BY <1>2, <1>3, <1>4, <1>5, <1>6, <1>7, <1>8 DEF Next, Call

LEMMA SealOnce == SealInv => SealedOnce
  <1> SUFFICES ASSUME SealInv PROVE SealedOnce
    OBVIOUS
  <1>1. Keyed(wire) /\ Unique(wire) /\ Sealed(wire)
    BY DEF SealInv, Contents
  <1> QED BY <1>1 DEF SealedOnce, Keyed, Unique, Sealed, Pair

LEMMA SpecSeal == Spec => [](SealInv /\ Behind)
  <1>1. Init => SealInv /\ Behind
    BY InitSeal
  <1>2. SealInv /\ OwnInv /\ OwnInv' /\ NonceInv /\ BoundOK /\ Behind /\ [Next]_vars => SealInv' /\ Behind'
    BY NextSeal, NextBehind
  <1> QED BY <1>1, <1>2, SpecOwn, PTL DEF Spec

\* Whatever is sent was sealed, and no two packets with the same key and nonce, for any
\* number of callers, workers, containers and keypairs: although callers race for the
\* counter, containers are encrypted in parallel and are put back while others go on.
THEOREM SealedOnceHolds == Spec => []SealedOnce
  BY SpecSeal, SealOnce, PTL

=============================================================================
