------------------------------ MODULE Inbound -------------------------------
(***************************************************************************)
(* The inbound flow of transport messages (device/receive.go, channels.go, *)
(* peer.go): receive routines sort datagrams into one container for each   *)
(* peer, decryption workers decrypt them in parallel, and the sequential   *)
(* receiver of a peer checks and delivers them in order, while the peer is *)
(* stopped and started.                                                    *)
(*                                                                         *)
(* A datagram is a record of what the code tells apart: its kind, the      *)
(* keypair its index leads to, its counter, whether it decrypts, what is   *)
(* inside (data, a keepalive, or a packet the checks refuse) and where it  *)
(* comes from.  It lives in a message buffer, which the next read of the   *)
(* same slot overwrites.  What a handshake message does is in Noise.       *)
(***************************************************************************)
EXTENDS Naturals, Sequences, Functions

CONSTANTS Receivers,   \* the receive routines, one for each socket
          Decrypters,  \* the decryption workers
          Peers, Containers, Buffers,
          None, Nil,
          BatchSize,   \* the slots of a receive routine
          QueueInboundSize, QueueHandshakeSize,
          Owner,       \* the peer of a keypair
          Batches,     \* bound: what a receive routine reads, batch by batch
          MaxStops     \* bound

InboundAssumption ==
    /\ {BatchSize, QueueInboundSize, QueueHandshakeSize, MaxStops} \subseteq Nat
    /\ None \notin Containers /\ Nil \notin Containers /\ None # Nil
    \* every slot can have a buffer, and every datagram of a batch a slot
    /\ \E f \in [Receivers \X (1 .. BatchSize) -> Buffers] : IsInjective(f)
    /\ \A r \in Receivers :
         /\ Len(Batches[r]) \in Nat
         /\ \A n \in 1 .. Len(Batches[r]) : Len(Batches[r][n]) \in 1 .. BatchSize

VARIABLES content,     \* the datagram in a buffer
          freeBufs,    \* the buffers in the pool
          slots,       \* bufsArrs of a receive routine
          elems,       \* the elements of a container
          pool,        \* the containers in the pool
          locked,      \* the containers whose mutex is held
          rx,          \* where a receive routine is: batch, slot, elemsByPeer, and the queue
                       \* the container of a peer goes to next
          inbound,     \* peer.queue.inbound.c
          decryption,  \* device.queue.decryption.c
          handshake,   \* device.queue.handshake.c
          decrypting,  \* the container a decryption worker has, or None
          seqrx,       \* RoutineSequentialReceiver of a peer
          running,     \* peer.isRunning
          life,        \* where Stop or Start of a peer is
          seen,        \* what the replay filters of the keypairs have accepted
          endpoint,    \* peer.endpoint.val
          stops,       \* how many stops are left
          delivered    \* history: what was written to the TUN device, for each peer

buffers == <<content, freeBufs, slots>>
boxes == <<elems, pool, locked>>
peer == <<running, life, stops>>
vars == <<buffers, boxes, rx, inbound, decryption, handshake, decrypting, seqrx, peer, seen, endpoint, delivered>>

Slots == 1 .. BatchSize
NoBoxes == [p \in Peers |-> None]

Init ==
    /\ LET f == CHOOSE f \in [Receivers \X Slots -> Buffers] : IsInjective(f)
       IN  /\ slots = [r \in Receivers |-> [i \in Slots |-> f[<<r, i>>]]]
           /\ freeBufs = Buffers \ Range(f)
    /\ content = [b \in Buffers |-> None]
    /\ elems = [c \in Containers |-> <<>>] /\ pool = Containers /\ locked = {}
    /\ rx = [r \in Receivers |-> [batch |-> 0, i |-> 0, boxes |-> NoBoxes, to |-> "none", peer |-> None, box |-> None]]
    /\ inbound = [p \in Peers |-> <<>>] /\ decryption = <<>> /\ handshake = <<>>
    /\ decrypting = [w \in Decrypters |-> None]
    /\ seqrx = [p \in Peers |-> [pc |-> "recv", box |-> None]]
    /\ running = [p \in Peers |-> TRUE] /\ life = [p \in Peers |-> "started"]
    /\ seen = {} /\ endpoint = [p \in Peers |-> None]
    /\ stops = MaxStops /\ delivered = [p \in Peers |-> <<>>]

-----------------------------------------------------------------------------
(* The pools.  Which object a Get returns makes no difference. *)

GetBuffer == CHOOSE b \in freeBufs : TRUE
GetContainer == CHOOSE c \in pool : TRUE
BuffersOf(c) == {elems[c][i].buffer : i \in DOMAIN elems[c]}

\* The elements and the container go back.
PutContainer(c) ==
    /\ elems' = [elems EXCEPT ![c] = <<>>]
    /\ pool' = pool \cup {c}
    /\ freeBufs' = freeBufs \cup BuffersOf(c)

-----------------------------------------------------------------------------
(* RoutineReceiveIncoming *)

CurrentBatch(r) == Batches[r][rx[r].batch]

\* The bind fills the slots with the next batch.
Receive(r) ==
    LET batch == Batches[r][rx[r].batch + 1]
    IN  /\ rx[r].i = 0 /\ rx[r].boxes = NoBoxes /\ rx[r].to = "none"
        /\ rx[r].batch < Len(Batches[r])
        /\ rx' = [rx EXCEPT ![r].batch = @ + 1, ![r].i = 1]
        /\ content' = [b \in Buffers |->
                         IF \E i \in DOMAIN batch : slots[r][i] = b
                         THEN batch[CHOOSE i \in DOMAIN batch : slots[r][i] = b]
                         ELSE content[b]]
        /\ UNCHANGED <<freeBufs, slots, boxes, inbound, decryption, handshake, decrypting, seqrx, peer, seen, endpoint, delivered>>

\* After the last slot comes the hand over of the containers.
NextSlot(r) == IF rx[r].i < Len(CurrentBatch(r)) THEN rx[r].i + 1 ELSE 0

\* Fault: a slot keeps the buffer it has handed on.
KeepSlot(r) == UNCHANGED <<slots, freeBufs>>

\* The slot gets a new buffer for the one it has handed on.
NewSlotBuffer(r) ==
    /\ freeBufs # {}
    /\ slots' = [slots EXCEPT ![r][rx[r].i] = GetBuffer]
    /\ freeBufs' = freeBufs \ {GetBuffer}

LockForBatch(c) == locked \cup {c}

\* A transport message with a live keypair: it joins the container of its peer,
\* which was locked when it was taken from the pool.
SortTransport(r, p) ==
    LET buffer == slots[r][rx[r].i]
        d == content[buffer]
        c == IF rx[r].boxes[p] = None THEN GetContainer ELSE rx[r].boxes[p]
    IN  /\ rx[r].i > 0 /\ d.kind = "transport" /\ d.key # None /\ p = Owner[d.key]
        /\ rx[r].boxes[p] = None => pool # {}
        /\ elems' = [elems EXCEPT ![c] = Append(@, [buffer |-> buffer, key |-> d.key, packet |-> None,
                                                    from |-> d.from])]
        /\ pool' = pool \ {c} /\ locked' = LockForBatch(c)
        /\ NewSlotBuffer(r)
        /\ rx' = [rx EXCEPT ![r].i = NextSlot(r), ![r].boxes[p] = c]
        /\ UNCHANGED <<content, inbound, decryption, handshake, decrypting, seqrx, peer, seen, endpoint, delivered>>

\* A handshake message goes to the handshake queue unless that is full.
SortHandshake(r) ==
    LET buffer == slots[r][rx[r].i]
    IN  /\ rx[r].i > 0 /\ content[buffer].kind = "handshake"
        /\ IF Len(handshake) < QueueHandshakeSize
           THEN handshake' = Append(handshake, buffer) /\ NewSlotBuffer(r)
           ELSE UNCHANGED <<handshake, slots, freeBufs>>
        /\ rx' = [rx EXCEPT ![r].i = NextSlot(r)]
        /\ UNCHANGED <<content, boxes, inbound, decryption, decrypting, seqrx, peer, seen, endpoint, delivered>>

\* Too short, of an unknown type, for an unknown index or an expired keypair.
SortIgnored(r) ==
    LET d == content[slots[r][rx[r].i]]
    IN  /\ rx[r].i > 0
        /\ d.kind = "ignored" \/ (d.kind = "transport" /\ d.key = None)
        /\ rx' = [rx EXCEPT ![r].i = NextSlot(r)]
        /\ UNCHANGED <<buffers, boxes, inbound, decryption, handshake, decrypting, seqrx, peer, seen, endpoint, delivered>>

\* The containers are handed over in any order (a map is ranged over); isRunning is
\* read once, and a peer that does not run gets its elements put back.
HandOver(r, p) ==
    LET c == rx[r].boxes[p]
    IN  /\ rx[r].i = 0 /\ rx[r].to = "none" /\ c # None
        /\ IF running[p]
           THEN /\ rx' = [rx EXCEPT ![r].boxes[p] = None, ![r].to = "inbound", ![r].peer = p, ![r].box = c]
                /\ UNCHANGED <<elems, pool, freeBufs>>
           ELSE rx' = [rx EXCEPT ![r].boxes[p] = None] /\ PutContainer(c)
        /\ UNCHANGED <<content, slots, locked, inbound, decryption, handshake, decrypting, seqrx, peer, seen, endpoint, delivered>>

\* Fault: the newest container is taken first.
PushInboundFront(p, c) == [inbound EXCEPT ![p] = <<c>> \o @]

PushInboundAt(p, c) == [inbound EXCEPT ![p] = Append(@, c)]

PushInbound(r) ==
    LET p == rx[r].peer
        c == rx[r].box
    IN  /\ rx[r].to = "inbound"
        /\ Len(inbound[p]) < QueueInboundSize
        /\ inbound' = PushInboundAt(p, c)
        /\ rx' = [rx EXCEPT ![r].to = "decryption"]
        /\ UNCHANGED <<buffers, boxes, decryption, handshake, decrypting, seqrx, peer, seen, endpoint, delivered>>

PushDecryption(r) ==
    /\ rx[r].to = "decryption"
    /\ Len(decryption) < QueueInboundSize
    /\ decryption' = Append(decryption, rx[r].box)
    /\ rx' = [rx EXCEPT ![r].to = "none", ![r].peer = None, ![r].box = None]
    /\ UNCHANGED <<buffers, boxes, inbound, handshake, decrypting, seqrx, peer, seen, endpoint, delivered>>

\* A handshake worker is done with a message and puts its buffer back.
RoutineHandshake ==
    /\ handshake # <<>>
    /\ handshake' = Tail(handshake)
    /\ freeBufs' = freeBufs \cup {Head(handshake)}
    /\ UNCHANGED <<content, slots, boxes, rx, inbound, decryption, decrypting, seqrx, peer, seen, endpoint, delivered>>

-----------------------------------------------------------------------------
(* RoutineDecryption *)

StartDecryption(w) ==
    /\ decrypting[w] = None /\ decryption # <<>>
    /\ decrypting' = [decrypting EXCEPT ![w] = Head(decryption)]
    /\ decryption' = Tail(decryption)
    /\ UNCHANGED <<buffers, boxes, rx, inbound, handshake, seqrx, peer, seen, endpoint, delivered>>

\* What a buffer holds by now is decrypted: nothing, if that fails.
Decrypted(elem) ==
    LET d == content[elem.buffer]
    IN  [elem EXCEPT !.packet = IF d.good /\ d.key = elem.key THEN d ELSE None]

Unlock(c) == locked \ {c}

FinishDecryption(w) ==
    LET c == decrypting[w]
    IN  /\ c # None
        /\ elems' = [elems EXCEPT ![c] = [i \in DOMAIN elems[c] |-> Decrypted(elems[c][i])]]
        /\ locked' = Unlock(c)
        /\ decrypting' = [decrypting EXCEPT ![w] = None]
        /\ UNCHANGED <<buffers, pool, rx, inbound, decryption, handshake, seqrx, peer, seen, endpoint, delivered>>

-----------------------------------------------------------------------------
(* RoutineSequentialReceiver *)

ReceiverTakes(p) ==
    /\ seqrx[p].pc = "recv" /\ inbound[p] # <<>>
    /\ inbound' = [inbound EXCEPT ![p] = Tail(@)]
    /\ seqrx' = [seqrx EXCEPT ![p] = IF Head(inbound[p]) = Nil THEN [pc |-> "off", box |-> None]
                                     ELSE [pc |-> "process", box |-> Head(inbound[p])]]
    /\ UNCHANGED <<buffers, boxes, rx, decryption, handshake, decrypting, peer, seen, endpoint, delivered>>

\* ValidateCounter accepts a counter of a keypair once.
Fresh(s, i) ==
    /\ <<s[i].key, s[i].packet.counter>> \notin seen
    /\ \A j \in 1 .. i - 1 : s[j].packet # None =>
         <<s[j].key, s[j].packet.counter>> # <<s[i].key, s[i].packet.counter>>

\* The elements that decrypted and are no replay.
Valid(s) == {i \in DOMAIN s : s[i].packet # None /\ Fresh(s, i)}

validTailPacket(s) == CHOOSE i \in Valid(s) : \A j \in Valid(s) : j <= i

\* The packet is data whose header holds and whose source belongs to the peer.
ToTUN(packet) == packet.inner = "data"

\* A container whose lock is free: every element is checked, the endpoint is that of the
\* last valid one, and what is to go to the TUN device is written at once.
ReceiverProcesses(p) ==
    LET c == seqrx[p].box
        s == elems[c]
        valid == Valid(s)
        ToWrite(i) == i \in valid /\ ToTUN(s[i].packet)
        written == SelectSeq([i \in DOMAIN s |-> i], ToWrite)
    IN  /\ seqrx[p].pc = "process" /\ c \notin locked
        /\ seen' = seen \cup {<<s[i].key, s[i].packet.counter>> : i \in valid}
        /\ endpoint' = IF valid = {} THEN endpoint ELSE [endpoint EXCEPT ![p] = s[validTailPacket(s)].from]
        /\ delivered' = [delivered EXCEPT ![p] = @ \o [k \in DOMAIN written |-> s[written[k]].packet]]
        /\ PutContainer(c)
        /\ seqrx' = [seqrx EXCEPT ![p] = [pc |-> "recv", box |-> None]]
        /\ UNCHANGED <<content, slots, locked, rx, inbound, decryption, handshake, decrypting, peer>>

-----------------------------------------------------------------------------
(* Stop and Start *)

Stop(p) ==
    /\ life[p] = "started" /\ stops > 0
    /\ stops' = stops - 1
    /\ running' = [running EXCEPT ![p] = FALSE]
    /\ life' = [life EXCEPT ![p] = "stopping"]
    /\ UNCHANGED <<buffers, boxes, rx, inbound, decryption, handshake, decrypting, seqrx, seen, endpoint, delivered>>

StopSignal(p) ==
    /\ life[p] = "stopping" /\ Len(inbound[p]) < QueueInboundSize
    /\ inbound' = [inbound EXCEPT ![p] = Append(@, Nil)]
    /\ life' = [life EXCEPT ![p] = "waiting"]
    /\ UNCHANGED <<buffers, boxes, rx, decryption, handshake, decrypting, seqrx, running, stops, seen, endpoint, delivered>>

StopWait(p) ==
    /\ life[p] = "waiting" /\ seqrx[p].pc = "off"
    /\ life' = [life EXCEPT ![p] = "stopped"]
    /\ UNCHANGED <<buffers, boxes, rx, inbound, decryption, handshake, decrypting, seqrx, running, stops, seen, endpoint, delivered>>

Flushable(c) == c \notin locked

\* flushInboundQueue waits for the lock of each container that is left.
StartFlush(p) ==
    LET c == Head(inbound[p])
    IN  /\ life[p] = "stopped" /\ inbound[p] # <<>> /\ Flushable(c)
        /\ inbound' = [inbound EXCEPT ![p] = Tail(@)]
        /\ PutContainer(c)
        /\ UNCHANGED <<content, slots, locked, rx, decryption, handshake, decrypting, seqrx, peer, seen, endpoint, delivered>>

StartRoutine(p) ==
    /\ life[p] = "stopped" /\ inbound[p] = <<>>
    /\ seqrx' = [seqrx EXCEPT ![p].pc = "recv"]
    /\ running' = [running EXCEPT ![p] = TRUE]
    /\ life' = [life EXCEPT ![p] = "started"]
    /\ UNCHANGED <<buffers, boxes, rx, inbound, decryption, handshake, decrypting, stops, seen, endpoint, delivered>>

-----------------------------------------------------------------------------
ReceiveIncoming(r) ==
    \/ (\E p \in Peers : SortTransport(r, p) \/ HandOver(r, p))
    \/ SortHandshake(r) \/ SortIgnored(r) \/ PushInbound(r) \/ PushDecryption(r)

Decrypt(w) == StartDecryption(w) \/ FinishDecryption(w)

SequentialReceiver(p) == ReceiverTakes(p) \/ ReceiverProcesses(p)

Lifecycle(p) == StopSignal(p) \/ StopWait(p) \/ StartFlush(p) \/ StartRoutine(p)

Next ==
    \/ \E r \in Receivers : Receive(r) \/ ReceiveIncoming(r)
    \/ RoutineHandshake
    \/ \E w \in Decrypters : Decrypt(w)
    \/ \E p \in Peers : SequentialReceiver(p) \/ Stop(p) \/ Lifecycle(p)

Spec == Init /\ [][Next]_vars

-----------------------------------------------------------------------------
(* Properties *)

\* The containers that a queue or a routine refers to.
Referred ==
    Range(decryption) \cup Range(decrypting)
      \cup (UNION {Range(inbound[p]) \cup {seqrx[p].box} : p \in Peers})
      \cup (UNION {Range(rx[r].boxes) \cup {rx[r].box} : r \in Receivers})

\* A message buffer has one owner: a slot, an element, a handshake message or the pool.
\* Were there two, the next read would overwrite a packet on its way.  And nobody refers
\* to a container that was put back, whose elements the next batch would overwrite.
BufferHasOneOwner ==
    LET inSlots == [x \in Receivers \X Slots |-> slots[x[1]][x[2]]]
        inElems == [x \in {x \in (Containers \ pool) \X Slots : x[2] \in DOMAIN elems[x[1]]} |->
                      elems[x[1]][x[2]].buffer]
    IN  /\ IsInjective(inSlots) /\ IsInjective(inElems) /\ IsInjective(handshake)
        /\ Range(inSlots) \cap Range(inElems) = {}
        /\ Range(handshake) \cap (Range(inSlots) \cup Range(inElems)) = {}
        /\ freeBufs \cap (Range(inSlots) \cup Range(inElems) \cup Range(handshake)) = {}
        /\ pool \cap Referred = {}

\* Packets of one socket reach the TUN device in the order they came.
DeliveredInOrder ==
    \A p \in Peers : \A i, j \in DOMAIN delivered[p] :
        i < j /\ delivered[p][i].from = delivered[p][j].from => delivered[p][i].nr < delivered[p][j].nr

=============================================================================
