------------------------------ MODULE Outbound ------------------------------
(***************************************************************************)
(* The outbound flow of one peer (device/send.go, channels.go, peer.go):   *)
(* packets are staged, get a nonce, are encrypted in parallel and are sent *)
(* in sequence, while the peer is stopped and started.                     *)
(*                                                                         *)
(* SendStagedPackets runs in any of Callers at once: the reader of the TUN *)
(* device, timers, handshake workers.  A container is locked before it is  *)
(* put into the outbound and the encryption queue, an encryption worker    *)
(* unlocks it, and the sequential sender waits for the lock.               *)
(*                                                                         *)
(* A packet is a number, in the order the TUN device was read; keepalives  *)
(* are all Keepalive.  The session a keypair comes from is in Noise.       *)
(***************************************************************************)
EXTENDS Naturals, Sequences, Functions

CONSTANTS Callers,            \* the goroutines that call SendStagedPackets
          Reader,             \* the caller that is RoutineReadFromTUN
          Encrypters,         \* the encryption workers
          Containers,         \* the containers of the outbound pool
          None, Nil, Keepalive,
          limit,              \* RejectAfterMessages
          QueueStagedSize, QueueOutboundSize,
          Batches,            \* bound: the packets of each read of the TUN device
          MaxKeypairs, MaxKeepalives, MaxExpiries, MaxStops  \* bounds

ASSUME OutboundAssumption ==
    /\ Reader \in Callers
    /\ {limit, QueueStagedSize, QueueOutboundSize, MaxKeypairs, MaxKeepalives} \subseteq Nat
    /\ {MaxExpiries, MaxStops} \subseteq Nat
    /\ QueueStagedSize > 0
    /\ {None, Nil} \cap Containers = {} /\ None # Nil /\ None \notin Nat
    /\ Batches \in Seq(Seq(Nat))

Keypair == 1 .. MaxKeypairs

VARIABLES current,     \* keypairs.current, or None
          aged,        \* the keypairs older than RejectAfterTime
          sendNonce,   \* Keypair.sendNonce
          elems,       \* the elements of a container
          pool,        \* the containers in the pool
          locked,      \* the containers whose mutex is held
          staged,      \* peer.queue.staged
          outbound,    \* peer.queue.outbound.c
          encryption,  \* device.queue.encryption.c
          caller,      \* where a caller is, and its local variables
          encrypting,  \* the container an encryption worker has, or None
          sender,      \* RoutineSequentialSender
          running,     \* peer.isRunning
          up,          \* device.isUp
          life,        \* where Stop or Start is
          bound,       \* what is left of the bounds
          issued,      \* history: the nonces given to elements
          wire         \* history: the elements sent

queues == <<staged, outbound, encryption>>
keys == <<current, aged, sendNonce>>
peer == <<running, up, life>>
vars == <<keys, elems, pool, locked, queues, caller, encrypting, sender, peer, bound, issued, wire>>

Elem(pkt) == [pkt |-> pkt, keypair |-> None, nonce |-> 0, sealed |-> FALSE]

Idle == [pc |-> "idle", keypair |-> None, box |-> None, todo |-> <<>>, kept |-> <<>>, ooo |-> <<>>]

Init ==
    /\ current = None /\ aged = {}
    /\ sendNonce = [k \in Keypair |-> 0]
    /\ elems = [c \in Containers |-> <<>>]
    /\ pool = Containers /\ locked = {}
    /\ staged = <<>> /\ outbound = <<>> /\ encryption = <<>>
    /\ caller = [t \in Callers |-> Idle]
    /\ encrypting = [w \in Encrypters |-> None]
    /\ sender = [pc |-> "recv", box |-> None]
    /\ running = TRUE /\ up = TRUE /\ life = "started"
    /\ bound = [batch |-> 1, keypair |-> 1, keepalives |-> MaxKeepalives,
                expiries |-> MaxExpiries, stops |-> MaxStops]
    /\ issued = {} /\ wire = <<>>

-----------------------------------------------------------------------------
(* Staging *)

\* PutOutboundElementsContainer empties a container; its lock is reset by the next Get.
Emptied(C) == [c \in Containers |-> IF c \in C THEN <<>> ELSE elems[c]]

\* GetOutboundElementsContainer blocks while the pool is empty; which container it gets
\* makes no difference.
GetContainer == CHOOSE c \in pool : TRUE

\* A full queue drops its oldest container.
StagePackets(c) ==
    IF Len(staged) < QueueStagedSize
    THEN [queue |-> Append(staged, c), dropped |-> {}]
    ELSE [queue |-> Append(Tail(staged), c), dropped |-> {Head(staged)}]

\* The content of container c is s, and the containers that staging it dropped are back.
Stage(c, s) ==
    LET result == StagePackets(c)
    IN  /\ staged' = result.queue
        /\ elems' = [Emptied(result.dropped) EXCEPT ![c] = s]
        /\ pool' = (pool \ {c}) \cup result.dropped
        /\ locked' = locked \ {c}

Go(t, pc) == caller' = [caller EXCEPT ![t].pc = pc]

\* RoutineReadFromTUN reads a batch for this peer and stages it; a peer that does not
\* run gets nothing, and the elements are put back.
ReadFromTUN(t) ==
    /\ t = Reader /\ caller[t].pc = "idle" /\ bound.batch <= Len(Batches)
    /\ bound' = [bound EXCEPT !.batch = @ + 1]
    /\ IF running
       THEN /\ pool # {}
            /\ Stage(GetContainer, [i \in DOMAIN Batches[bound.batch] |-> Elem(Batches[bound.batch][i])])
            /\ Go(t, "top")
       ELSE UNCHANGED <<elems, pool, locked, staged, caller>>
    /\ UNCHANGED <<keys, outbound, encryption, encrypting, sender, peer, issued, wire>>

\* SendKeepalive: the test of the queue.
SendKeepalive(t) ==
    /\ caller[t].pc = "idle" /\ bound.keepalives > 0
    /\ bound' = [bound EXCEPT !.keepalives = @ - 1]
    /\ Go(t, IF staged = <<>> /\ running THEN "keepalive" ELSE "top")
    /\ UNCHANGED <<keys, elems, pool, locked, queues, encrypting, sender, peer, issued, wire>>

\* The keepalive is staged if there is room by now.
StageKeepalive(t) ==
    /\ caller[t].pc = "keepalive"
    /\ IF Len(staged) < QueueStagedSize
       THEN pool # {} /\ Stage(GetContainer, <<Elem(Keepalive)>>)
       ELSE UNCHANGED <<elems, pool, locked, staged>>
    /\ Go(t, "top")
    /\ UNCHANGED <<keys, outbound, encryption, encrypting, sender, peer, bound, issued, wire>>

Flushed ==
    /\ staged' = <<>>
    /\ elems' = Emptied(Range(staged))
    /\ pool' = pool \cup Range(staged)

\* The retransmission timer gives up and drops what is staged.
FlushStagedPackets ==
    /\ running /\ staged # <<>> /\ Flushed
    /\ UNCHANGED <<keys, locked, outbound, encryption, caller, encrypting, sender, peer, bound, issued, wire>>

-----------------------------------------------------------------------------
(* SendStagedPackets *)

Usable(k) == k # None /\ sendNonce[k] < limit /\ k \notin aged

\* The label top.  Without a usable keypair a handshake is initiated, and the caller returns.
Top(t) ==
    /\ caller[t].pc = "top"
    /\ IF staged # <<>> /\ up /\ Usable(current)
       THEN caller' = [caller EXCEPT ![t].pc = "take", ![t].keypair = current]
       ELSE caller' = [caller EXCEPT ![t] = Idle]
    /\ UNCHANGED <<keys, elems, pool, locked, queues, encrypting, sender, peer, bound, issued, wire>>

Take(t) ==
    /\ caller[t].pc = "take"
    /\ IF staged = <<>>
       THEN caller' = [caller EXCEPT ![t] = Idle] /\ UNCHANGED staged
       ELSE /\ caller' = [caller EXCEPT ![t] = [@ EXCEPT !.pc = "nonce", !.box = Head(staged),
                                                         !.todo = elems[Head(staged)]]]
            /\ staged' = Tail(staged)
    /\ UNCHANGED <<keys, elems, pool, locked, outbound, encryption, encrypting, sender, peer, bound, issued, wire>>

BelowLimit(nonce) == nonce < limit

\* sendNonce.Add(1) - 1 for the next element.
AssignNonce(t) ==
    LET me == caller[t]
        k == me.keypair
        nonce == sendNonce[k]
        elem == [Head(me.todo) EXCEPT !.keypair = k, !.nonce = nonce]
    IN  /\ me.pc = "nonce" /\ me.todo # <<>>
        /\ sendNonce' = [sendNonce EXCEPT ![k] = @ + 1]
        /\ IF BelowLimit(nonce)
           THEN /\ caller' = [caller EXCEPT ![t] = [me EXCEPT !.todo = Tail(@), !.kept = Append(@, elem)]]
                /\ issued' = issued \cup {<<k, nonce>>}
           ELSE /\ caller' = [caller EXCEPT ![t] = [me EXCEPT !.todo = Tail(@), !.pc = "over",
                                                              !.ooo = Append(@, Elem(elem.pkt))]]
                /\ UNCHANGED issued
        /\ UNCHANGED <<current, aged, elems, pool, locked, queues, encrypting, sender, peer, bound, wire>>

\* Fault: the counter is put back to its beginning.
StoreZero(t) ==
    /\ caller[t].pc = "over"
    /\ sendNonce' = [sendNonce EXCEPT ![caller[t].keypair] = 0]
    /\ Go(t, "nonce")
    /\ UNCHANGED <<current, aged, elems, pool, locked, queues, encrypting, sender, peer, bound, issued, wire>>

\* sendNonce.Store(RejectAfterMessages), which may undo the increments of other callers.
StoreLimit(t) ==
    /\ caller[t].pc = "over"
    /\ sendNonce' = [sendNonce EXCEPT ![caller[t].keypair] = limit]
    /\ Go(t, "nonce")
    /\ UNCHANGED <<current, aged, elems, pool, locked, queues, encrypting, sender, peer, bound, issued, wire>>

\* The container is locked and holds what got a nonce; the rest is staged again in a
\* container of its own, whose lock is new.  An empty container goes back to the pool.
LockBox(t) ==
    LET me == caller[t]
        empty == IF me.kept = <<>> THEN {me.box} ELSE {}
        fresh == IF me.ooo = <<>> THEN {} ELSE {GetContainer}
    IN  /\ me.pc = "nonce" /\ me.todo = <<>> /\ me.box \notin locked
        /\ IF me.ooo = <<>>
           THEN /\ elems' = [elems EXCEPT ![me.box] = me.kept]
                /\ pool' = pool \cup empty
                /\ UNCHANGED staged
           ELSE LET result == StagePackets(GetContainer)
                IN  /\ pool # {}
                    /\ staged' = result.queue
                    /\ elems' = [Emptied(result.dropped) EXCEPT ![GetContainer] = me.ooo, ![me.box] = me.kept]
                    /\ pool' = (pool \ {GetContainer}) \cup result.dropped \cup empty
        /\ locked' = (locked \cup {me.box}) \ fresh
        /\ IF me.kept = <<>>
           THEN caller' = [caller EXCEPT ![t] = [Idle EXCEPT !.pc = "top"]]
           ELSE caller' = [caller EXCEPT ![t] = [@ EXCEPT !.pc = "running", !.kept = <<>>]]
        /\ UNCHANGED <<keys, outbound, encryption, encrypting, sender, peer, bound, issued, wire>>

\* Back to the label top, or to the next container.
Again(t) ==
    caller' = [caller EXCEPT ![t] = [Idle EXCEPT !.pc = IF caller[t].ooo # <<>> THEN "top" ELSE "take",
                                                 !.keypair = caller[t].keypair]]

\* isRunning is read once; a peer that does not run gets its elements put back.
CheckRunning(t) ==
    LET c == caller[t].box
    IN  /\ caller[t].pc = "running"
        /\ IF running
           THEN Go(t, "outbound") /\ UNCHANGED <<elems, pool>>
           ELSE Again(t) /\ elems' = Emptied({c}) /\ pool' = pool \cup {c}
        /\ UNCHANGED <<keys, locked, queues, encrypting, sender, peer, bound, issued, wire>>

PushOutbound(t) ==
    /\ caller[t].pc = "outbound" /\ Len(outbound) < QueueOutboundSize
    /\ outbound' = Append(outbound, caller[t].box)
    /\ Go(t, "encryption")
    /\ UNCHANGED <<keys, elems, pool, locked, staged, encryption, encrypting, sender, peer, bound, issued, wire>>

PushEncryption(t) ==
    /\ caller[t].pc = "encryption" /\ Len(encryption) < QueueOutboundSize
    /\ encryption' = Append(encryption, caller[t].box)
    /\ Again(t)
    /\ UNCHANGED <<keys, elems, pool, locked, staged, outbound, encrypting, sender, peer, bound, issued, wire>>

-----------------------------------------------------------------------------
(* RoutineEncryption *)

StartEncryption(w) ==
    /\ encrypting[w] = None /\ encryption # <<>>
    /\ encrypting' = [encrypting EXCEPT ![w] = Head(encryption)]
    /\ encryption' = Tail(encryption)
    /\ UNCHANGED <<keys, elems, pool, locked, staged, outbound, caller, sender, peer, bound, issued, wire>>

\* Fault: the first element is left out.
SealRest(es) == [i \in DOMAIN es |-> [es[i] EXCEPT !.sealed = i > 1]]

SealAll(es) == [i \in DOMAIN es |-> [es[i] EXCEPT !.sealed = TRUE]]

FinishEncryption(w) ==
    LET c == encrypting[w]
    IN  /\ c # None
        /\ elems' = [elems EXCEPT ![c] = SealAll(@)]
        /\ locked' = locked \ {c}
        /\ encrypting' = [encrypting EXCEPT ![w] = None]
        /\ UNCHANGED <<keys, pool, queues, caller, sender, peer, bound, issued, wire>>

-----------------------------------------------------------------------------
(* RoutineSequentialSender *)

\* nil ends the routine; for a container, isRunning is read before its lock is awaited.
SenderReceive ==
    /\ sender.pc = "recv" /\ outbound # <<>>
    /\ outbound' = Tail(outbound)
    /\ sender' = IF Head(outbound) = Nil THEN [pc |-> "off", box |-> None]
                 ELSE [pc |-> IF running THEN "send" ELSE "drop", box |-> Head(outbound)]
    /\ UNCHANGED <<keys, elems, pool, locked, staged, encryption, caller, encrypting, peer, bound, issued, wire>>

\* The elements are put back, the container is not.
SenderDrop ==
    /\ sender.pc = "drop" /\ sender.box \notin locked
    /\ locked' = locked \cup {sender.box}
    /\ sender' = [pc |-> "recv", box |-> None]
    /\ UNCHANGED <<keys, elems, pool, queues, caller, encrypting, peer, bound, issued, wire>>

\* SendBuffers may fail, which loses the packets.
SenderSend ==
    /\ sender.pc = "send" /\ sender.box \notin locked
    /\ wire' \in {wire, wire \o elems[sender.box]}
    /\ elems' = Emptied({sender.box})
    /\ pool' = pool \cup {sender.box}
    /\ sender' = [pc |-> "recv", box |-> None]
    /\ UNCHANGED <<keys, locked, queues, caller, encrypting, peer, bound, issued>>

-----------------------------------------------------------------------------
(* The session, Stop and Start *)

\* A handshake makes the next keypair current.
NewSession ==
    /\ running /\ bound.keypair <= MaxKeypairs
    /\ current' = bound.keypair
    /\ bound' = [bound EXCEPT !.keypair = @ + 1]
    /\ UNCHANGED <<aged, sendNonce, elems, pool, locked, queues, caller, encrypting, sender, peer, issued, wire>>

\* RejectAfterTime passes for the current keypair.
Age ==
    /\ current \in Keypair \ aged /\ bound.expiries > 0
    /\ aged' = aged \cup {current}
    /\ bound' = [bound EXCEPT !.expiries = @ - 1]
    /\ UNCHANGED <<current, sendNonce, elems, pool, locked, queues, caller, encrypting, sender, peer, issued, wire>>

\* The current keypair may send no more; the peer forgets its handshake.
ExpireCurrentKeypairs ==
    /\ current # None /\ bound.expiries > 0
    /\ sendNonce' = [sendNonce EXCEPT ![current] = limit]
    /\ bound' = [bound EXCEPT !.expiries = @ - 1]
    /\ UNCHANGED <<current, aged, elems, pool, locked, queues, caller, encrypting, sender, peer, issued, wire>>

\* The peer is removed (the device stays up) or the device goes down.
Stop ==
    /\ life = "started" /\ bound.stops > 0
    /\ running' = FALSE /\ up' \in BOOLEAN /\ life' = "stopping"
    /\ bound' = [bound EXCEPT !.stops = @ - 1]
    /\ UNCHANGED <<keys, elems, pool, locked, queues, caller, encrypting, sender, issued, wire>>

StopSignal ==
    /\ life = "stopping" /\ Len(outbound) < QueueOutboundSize
    /\ outbound' = Append(outbound, Nil)
    /\ life' = "waiting"
    /\ UNCHANGED <<keys, elems, pool, locked, staged, encryption, caller, encrypting, sender, running, up, bound, issued, wire>>

SenderStopped == sender.pc = "off"

\* peer.stopping.Wait, then ZeroAndFlushAll.
StopWait ==
    /\ life = "waiting" /\ SenderStopped
    /\ current' = None /\ Flushed
    /\ life' = "stopped"
    /\ UNCHANGED <<aged, sendNonce, locked, outbound, encryption, caller, encrypting, sender, running, up, bound, issued, wire>>

Start ==
    /\ life = "stopped"
    /\ up' = TRUE /\ life' = "starting"
    /\ UNCHANGED <<keys, elems, pool, locked, queues, caller, encrypting, sender, running, bound, issued, wire>>

\* Fault: the lock of a container is not awaited.
FlushAnyway(c) == TRUE

Flushable(c) == c \notin locked

\* flushOutboundQueue waits for the lock of each container that is left.
StartFlush ==
    /\ life = "starting" /\ outbound # <<>> /\ Flushable(Head(outbound))
    /\ outbound' = Tail(outbound)
    /\ elems' = Emptied({Head(outbound)})
    /\ pool' = pool \cup {Head(outbound)}
    /\ UNCHANGED <<keys, locked, staged, encryption, caller, encrypting, sender, peer, bound, issued, wire>>

StartRoutine ==
    /\ life = "starting" /\ outbound = <<>>
    /\ sender' = [pc |-> "recv", box |-> None]
    /\ running' = TRUE /\ life' = "started"
    /\ UNCHANGED <<keys, elems, pool, locked, queues, caller, encrypting, up, bound, issued, wire>>

-----------------------------------------------------------------------------
Call(t) ==
    \/ StageKeepalive(t) \/ Top(t) \/ Take(t) \/ AssignNonce(t) \/ StoreLimit(t)
    \/ LockBox(t) \/ CheckRunning(t) \/ PushOutbound(t) \/ PushEncryption(t)

Encrypt(w) == StartEncryption(w) \/ FinishEncryption(w)

Send == SenderReceive \/ SenderDrop \/ SenderSend

Lifecycle == StopSignal \/ StopWait \/ StartFlush \/ StartRoutine

Next ==
    \/ \E t \in Callers : ReadFromTUN(t) \/ SendKeepalive(t) \/ Call(t)
    \/ \E w \in Encrypters : Encrypt(w)
    \/ Send \/ Lifecycle \/ Stop \/ Start
    \/ FlushStagedPackets \/ NewSession \/ Age \/ ExpireCurrentKeypairs

Spec == Init /\ [][Next]_vars

-----------------------------------------------------------------------------
(* Properties *)

ElemType == [pkt : Nat \cup {Keepalive}, keypair : Keypair \cup {None}, nonce : Nat, sealed : BOOLEAN]

TypeOK ==
    /\ current \in Keypair \cup {None} /\ aged \subseteq Keypair
    /\ sendNonce \in [Keypair -> Nat]
    /\ elems \in [Containers -> Seq(ElemType)]
    /\ pool \subseteq Containers /\ locked \subseteq Containers
    /\ staged \in Seq(Containers) /\ Len(staged) <= QueueStagedSize
    /\ outbound \in Seq(Containers \cup {Nil}) /\ encryption \in Seq(Containers)
    /\ \A t \in Callers : caller[t].box \in Containers \cup {None}
    /\ running \in BOOLEAN /\ up \in BOOLEAN

\* The send counter is what NonceCounter promises although callers race for it and
\* StoreLimit overwrites it: no nonce of a keypair is given to two elements.
NextNonce == [k \in Keypair |-> IF sendNonce[k] < limit THEN sendNonce[k] ELSE limit]

Counter == INSTANCE NonceCounter WITH next <- NextNonce

NonceGivenOnce == Counter!Spec

\* The containers some routine still refers to.
Referred ==
    Range(staged) \cup Range(encryption) \cup (Range(outbound) \ {Nil})
      \cup {encrypting[w] : w \in Encrypters} \cup {sender.box} \cup {caller[t].box : t \in Callers}

\* A container is put back only when no queue and no routine refers to it any more,
\* whoever put it back: the sender, a caller, staging, or Stop and Start.
NoUseAfterPut == pool \cap Referred = {}

\* What is sent was sealed, and no two packets were sealed with the same key and nonce:
\* no container is sent before its worker is done with it, or twice.
SealedOnce ==
    /\ \A i \in DOMAIN wire : wire[i].sealed
    /\ \A i, j \in DOMAIN wire :
          i # j => <<wire[i].keypair, wire[i].nonce>> # <<wire[j].keypair, wire[j].nonce>>

=============================================================================
