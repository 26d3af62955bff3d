--------------------------- MODULE InboundProofs ----------------------------
(***************************************************************************)
(* BufferHasOneOwner of Inbound holds for any number of receive routines,  *)
(* decryption workers, peers, containers and buffers.                      *)
(*                                                                         *)
(* Both halves of the invariant give each object one place.  A container   *)
(* is in the pool, in the batch of a receive routine, on its way into the  *)
(* queue of a peer, or waiting there for its turn; one that is on its way  *)
(* to decryption waits for its turn and is locked, so the peer's receiver, *)
(* which takes the lock, and Start, which does too, put back only what no  *)
(* worker has.  A buffer is free, in a slot, in an element or in the       *)
(* handshake queue.                                                        *)
(***************************************************************************)
EXTENDS Inbound, TLAPS

\* Zenon proves the leaves that name no prover; the others need arithmetic, records,
\* sequences or much instantiation.
USE Zenon

-----------------------------------------------------------------------------
(* Queues and functions *)

Once(q) == \A i, j \in DOMAIN q : i # j => q[i] # q[j]

LEMMA RangeEmpty == Range(<<>>) = {} /\ Once(<<>>)
  BY SMTT(30) DEF Range, Once

LEMMA AppendOnce ==
    ASSUME NEW X, NEW q \in Seq(X), NEW x \in X
    PROVE  /\ Append(q, x) \in Seq(X) /\ Range(Append(q, x)) = Range(q) \cup {x}
           /\ Once(q) /\ x \notin Range(q) => Once(Append(q, x))
  <1> DEFINE n == Len(q)  r == Append(q, x)
  <1>1. n \in Nat /\ DOMAIN q = 1 .. n /\ DOMAIN r = 1 .. n + 1 /\ r \in Seq(X)
    BY SMTT(30)
  <1>2. r[n + 1] = x /\ \A i \in 1 .. n : r[i] = q[i]
    BY SMTT(30)
  <1> HIDE DEF n, r
  <1>3. Range(r) = Range(q) \cup {x}
    BY SMTT(30), <1>1, <1>2 DEF Range
  <1>4. Once(q) /\ x \notin Range(q) => Once(r)
    BY SMTT(30), <1>1, <1>2 DEF Once, Range
  <1> QED BY <1>1, <1>3, <1>4 DEF r

LEMMA TailOnce ==
    ASSUME NEW X, NEW q \in Seq(X), q # <<>>, Once(q)
    PROVE  /\ Tail(q) \in Seq(X) /\ Once(Tail(q)) /\ Head(q) \in X
           /\ Range(Tail(q)) = Range(q) \ {Head(q)} /\ Head(q) \in Range(q)
  <1> DEFINE n == Len(q)  r == Tail(q)
  <1>1. n \in Nat \ {0} /\ DOMAIN q = 1 .. n /\ DOMAIN r = 1 .. n - 1 /\ r \in Seq(X) /\ Head(q) = q[1]
    BY SMTT(30)
  <1>2. \A i \in 1 .. n - 1 : r[i] = q[i + 1]
    BY SMTT(30)
  <1> HIDE DEF n, r
  <1>3. Once(r)
    <2> SUFFICES ASSUME NEW i \in 1 .. n - 1, NEW j \in 1 .. n - 1, i # j PROVE r[i] # r[j]
      BY <1>1 DEF Once
    <2>1. i + 1 \in DOMAIN q /\ j + 1 \in DOMAIN q /\ i + 1 # j + 1
      BY SMTT(30), <1>1
    <2> QED BY <1>2, <2>1 DEF Once
  <1>4. \A y : y \in Range(r) <=> y \in Range(q) /\ y # q[1]
    <2> TAKE y
    <2>1. ASSUME y \in Range(r) PROVE y \in Range(q) /\ y # q[1]
      <3>1. PICK i \in 1 .. n - 1 : y = r[i]
        BY <2>1, <1>1 DEF Range
      <3>2. y = q[i + 1] /\ i + 1 \in DOMAIN q /\ i + 1 # 1 /\ 1 \in DOMAIN q
        BY SMTT(30), <3>1, <1>1, <1>2
      <3> QED BY <3>2 DEF Range, Once
    <2>2. ASSUME y \in Range(q), y # q[1] PROVE y \in Range(r)
      <3>1. PICK i \in 1 .. n : y = q[i]
        BY <2>2, <1>1 DEF Range
      <3>2. i - 1 \in 1 .. n - 1 /\ r[i - 1] = y
        BY SMTT(30), <2>2, <3>1, <1>1, <1>2
      <3> QED BY <3>2, <1>1 DEF Range
    <2> QED BY <2>1, <2>2
  <1>5. q[1] \in Range(q) /\ q[1] \in X
    BY SMTT(30), <1>1 DEF Range
  <1> QED BY <1>1, <1>3, <1>4, <1>5 DEF r

\* f with one value changed.
Moved(f, c, x, g) == g[c] = x /\ \A d \in Containers \ {c} : g[d] = f[d]

LEMMA MovedExists ==
    ASSUME NEW f, NEW c \in Containers, NEW x
    PROVE  \E g : Moved(f, c, x, g)
  <1> DEFINE g == [d \in Containers |-> IF d = c THEN x ELSE f[d]]
  <1>1. Moved(f, c, x, g)
    BY DEF Moved
  <1> QED BY <1>1

-----------------------------------------------------------------------------
(* Where a container is *)

Rx == [batch : Nat, i : Nat, boxes : [Peers -> Containers \cup {None}],
       to : {"none", "inbound", "decryption"}, peer : Peers \cup {None}, box : Containers \cup {None}]

Shapes ==
    /\ pool \subseteq Containers
    /\ rx \in [Receivers -> Rx]
    /\ inbound \in [Peers -> Seq(Containers \cup {Nil})]
    /\ decryption \in Seq(Containers) /\ Once(decryption)
    /\ decrypting \in [Decrypters -> Containers \cup {None}]
    /\ seqrx \in [Peers -> [pc : {"recv", "process", "off"}, box : Containers \cup {None}]]
    /\ life \in [Peers -> {"started", "stopping", "waiting", "stopped"}]

\* A receive routine is at a slot that its batch fills, and carries a container exactly
\* while it pushes one.
RxOK(r) ==
    /\ rx[r].batch \in 0 .. Len(Batches[r])
    /\ rx[r].i # 0 => rx[r].batch # 0 /\ rx[r].i \in 1 .. Len(Batches[r][rx[r].batch])
    /\ rx[r].to # "none" => rx[r].box \in Containers /\ rx[r].peer \in Peers
    /\ rx[r].to = "none" => rx[r].box = None

\* The receiver's container has left the queue, and the one sentinel that Stop puts there
\* is gone when the receiver is.
ReceiverOK(p) ==
    /\ Once(inbound[p])
    /\ seqrx[p].box = None <=> seqrx[p].pc # "process"
    /\ seqrx[p].box \notin Range(inbound[p])
    /\ Nil \in Range(inbound[p]) => life[p] = "waiting" /\ seqrx[p].pc # "off"
    /\ seqrx[p].pc = "off" <=> life[p] = "stopped" \/ (life[p] = "waiting" /\ Nil \notin Range(inbound[p]))

Turn(p) == (Range(inbound[p]) \ {Nil}) \cup ({seqrx[p].box} \ {None})

\* at[c] is where a container is: in the pool, in the batch of routine who[c] for peer
\* of[c], with routine who[c] on its way to the queue, or waiting for its turn with peer
\* who[c].
Located(at, who, of) ==
    /\ \A c \in pool : at[c] = "pool"
    /\ \A r \in Receivers, p \in Peers : rx[r].boxes[p] # None =>
         at[rx[r].boxes[p]] = "batch" /\ who[rx[r].boxes[p]] = r /\ of[rx[r].boxes[p]] = p
    /\ \A r \in Receivers : rx[r].to = "inbound" => at[rx[r].box] = "push" /\ who[rx[r].box] = r
    /\ \A p \in Peers : \A c \in Turn(p) : at[c] = "turn" /\ who[c] = p

\* st[c] is how far it is on its way to decryption: with a routine that pushes it, in the
\* queue, with a worker, or not on its way.
Decrypting(st, by) ==
    /\ \A r \in Receivers : rx[r].to = "decryption" => st[rx[r].box] = "push" /\ by[rx[r].box] = r
    /\ \A c \in Range(decryption) : st[c] = "queue"
    /\ \A w \in Decrypters : decrypting[w] # None => st[decrypting[w]] = "worker" /\ by[decrypting[w]] = w

\* What is on its way to decryption waits for its turn under a lock, and so does what a
\* receive routine is about to push.
Locking(at, st) ==
    \A c \in Containers :
        /\ st[c] # "none" => at[c] = "turn" /\ c \in locked
        /\ at[c] \in {"batch", "push"} => c \in locked

OwnInv ==
    /\ Shapes
    /\ \A r \in Receivers : RxOK(r)
    /\ \A p \in Peers : ReceiverOK(p)
    /\ \E at, who, of, st, by : Located(at, who, of) /\ Decrypting(st, by) /\ Locking(at, st)

LEMMA BoxDistinct == InboundAssumption => None \notin Containers /\ Nil \notin Containers /\ None # Nil
  BY DEF InboundAssumption

LEMMA InitOwn == InboundAssumption /\ Init => OwnInv
  <1> SUFFICES ASSUME InboundAssumption, Init PROVE OwnInv
    OBVIOUS
  <1>0. None \notin Containers /\ Nil \notin Containers
    BY BoxDistinct
  <1>1. \A r \in Receivers : /\ rx[r].batch = 0 /\ rx[r].i = 0 /\ rx[r].to = "none" /\ rx[r].box = None
                             /\ \A p \in Peers : rx[r].boxes[p] = None
    BY DEF Init, NoBoxes
  <1>2. Shapes
    <2>1. rx \in [Receivers -> Rx]
      BY DEF Init, NoBoxes, Rx
    <2>2. inbound \in [Peers -> Seq(Containers \cup {Nil})] /\ decryption \in Seq(Containers)
      BY SMTT(30) DEF Init
    <2>3. seqrx \in [Peers -> [pc : {"recv", "process", "off"}, box : Containers \cup {None}]]
      BY DEF Init
    <2> QED BY <2>1, <2>2, <2>3, RangeEmpty DEF Init, Shapes
  <1>3. \A r \in Receivers : RxOK(r)
    <2> SUFFICES ASSUME NEW r \in Receivers PROVE RxOK(r)
      OBVIOUS
    <2>1. Len(Batches[r]) \in Nat
      BY DEF InboundAssumption
    <2>2. 0 \in 0 .. Len(Batches[r])
      BY SMTT(30), <2>1
    <2> QED BY <1>1, <2>2 DEF RxOK
  <1>4. \A p \in Peers : ReceiverOK(p) /\ Turn(p) = {}
    BY RangeEmpty DEF Init, ReceiverOK, Turn
  <1> DEFINE at == [c \in Containers |-> "pool"]
             st == [c \in Containers |-> "none"]
  <1>5. Located(at, at, at)
    BY <1>1, <1>4 DEF Located, Init
  <1>6. Decrypting(st, st)
    BY <1>1, RangeEmpty DEF Decrypting, Init
  <1>7. Locking(at, st)
    BY DEF Locking
  <1> QED BY <1>2, <1>3, <1>4, <1>5, <1>6, <1>7 DEF OwnInv

-----------------------------------------------------------------------------
(* The steps that touch no container *)

LEMMA QuietOwn ==
    ASSUME OwnInv, UNCHANGED <<pool, locked, inbound, decryption, decrypting, seqrx, life>>,
           rx' \in [Receivers -> Rx], \A q \in Receivers : RxOK(q)',
           \A q \in Receivers : rx'[q].boxes = rx[q].boxes /\ rx'[q].to = rx[q].to /\ rx'[q].box = rx[q].box
    PROVE  OwnInv'
  <1>1. Shapes' /\ \A p \in Peers : ReceiverOK(p)'
    BY DEF OwnInv, Shapes, ReceiverOK
  <1>2. PICK at, who, of, st, by : Located(at, who, of) /\ Decrypting(st, by) /\ Locking(at, st)
    BY DEF OwnInv
  <1>3. Located(at, who, of)'
    BY SMTT(30), <1>2 DEF Located, Turn
  <1>4. Decrypting(st, by)' /\ Locking(at, st)'
    BY SMTT(30), <1>2 DEF Decrypting, Locking
  <1> QED BY <1>1, <1>3, <1>4 DEF OwnInv

\* A receive routine moves, and the others stay.
LEMMA RxMoves ==
    ASSUME rx \in [Receivers -> Rx], NEW r \in Receivers, NEW y \in Rx, rx' = [rx EXCEPT ![r] = y]
    PROVE  rx' \in [Receivers -> Rx] /\ rx'[r] = y /\ \A q \in Receivers \ {r} : rx'[q] = rx[q]
  OBVIOUS

LEMMA BatchLength ==
    ASSUME InboundAssumption, NEW r \in Receivers, NEW n \in 1 .. Len(Batches[r])
    PROVE  Len(Batches[r]) \in Nat /\ Len(Batches[r][n]) \in 1 .. BatchSize /\ BatchSize \in Nat
  BY DEF InboundAssumption

\* The next slot of a routine is one its batch fills, or none.
LEMMA NextSlotOK ==
    ASSUME InboundAssumption, OwnInv, NEW r \in Receivers, rx[r].i > 0
    PROVE  /\ NextSlot(r) \in Nat
           /\ NextSlot(r) # 0 => NextSlot(r) \in 1 .. Len(Batches[r][rx[r].batch])
           /\ rx[r].batch # 0 /\ rx[r].i \in Slots
  <1>0. rx[r] \in Rx /\ RxOK(r)
    BY DEF OwnInv, Shapes
  <1> DEFINE n == rx[r].batch  i == rx[r].i
  <1>1. n \in Nat /\ i \in Nat /\ n \in 0 .. Len(Batches[r]) /\ Len(Batches[r]) \in Nat
    BY <1>0 DEF Rx, RxOK, InboundAssumption
  <1>2. i # 0
    BY SMTT(30), <1>1
  <1>3. n # 0 /\ i \in 1 .. Len(Batches[r][n])
    BY <1>0, <1>2 DEF RxOK
  <1>4. n \in 1 .. Len(Batches[r])
    BY SMTT(30), <1>1, <1>3
  <1>5. Len(Batches[r][n]) \in 1 .. BatchSize /\ BatchSize \in Nat
    BY <1>4, BatchLength
  <1>6. NextSlot(r) = IF i < Len(Batches[r][n]) THEN i + 1 ELSE 0
    BY DEF NextSlot, CurrentBatch
  <1> HIDE DEF n, i
  <1>7. /\ NextSlot(r) \in Nat
        /\ NextSlot(r) # 0 => NextSlot(r) \in 1 .. Len(Batches[r][n])
        /\ i \in 1 .. BatchSize
    BY SMTT(30), <1>1, <1>3, <1>5, <1>6
  <1> QED BY <1>3, <1>7 DEF n, i, Slots

\* A routine goes to its next slot and leaves the containers alone.
LEMMA SlotOwn ==
    ASSUME InboundAssumption, OwnInv, NEW r \in Receivers, rx[r].i > 0, rx' = [rx EXCEPT ![r].i = NextSlot(r)],
           UNCHANGED <<pool, locked, inbound, decryption, decrypting, seqrx, life>>
    PROVE  OwnInv'
  <1>0. rx \in [Receivers -> Rx] /\ \A q \in Receivers : RxOK(q)
    BY DEF OwnInv, Shapes
  <1>1. /\ NextSlot(r) \in Nat
        /\ NextSlot(r) # 0 => NextSlot(r) \in 1 .. Len(Batches[r][rx[r].batch])
        /\ rx[r].batch # 0
    BY NextSlotOK
  <1> DEFINE n == NextSlot(r)
  <1> HIDE DEF n
  <1>2. /\ rx' \in [Receivers -> Rx] /\ rx'[r].i = n /\ rx'[r].batch = rx[r].batch
        /\ rx'[r].boxes = rx[r].boxes /\ rx'[r].to = rx[r].to /\ rx'[r].box = rx[r].box /\ rx'[r].peer = rx[r].peer
        /\ \A q \in Receivers \ {r} : rx'[q] = rx[q]
    <2> DEFINE y == [rx[r] EXCEPT !.i = n]
    <2>1. rx[r] \in Rx /\ n \in Nat /\ rx' = [rx EXCEPT ![r] = y]
      BY <1>0, <1>1 DEF n
    <2>2. y \in Rx
      BY <2>1 DEF Rx
    <2>3. /\ y.i = n /\ y.batch = rx[r].batch /\ y.boxes = rx[r].boxes /\ y.to = rx[r].to
          /\ y.box = rx[r].box /\ y.peer = rx[r].peer
      BY <2>1 DEF Rx
    <2> HIDE DEF y
    <2> QED BY <1>0, <2>1, <2>2, <2>3, RxMoves
  <1>3. RxOK(r)'
    BY <1>0, <1>1, <1>2 DEF RxOK, n
  <1>4. \A q \in Receivers : RxOK(q)'
    BY <1>0, <1>2, <1>3 DEF RxOK
  <1> QED BY <1>2, <1>4, QuietOwn

LEMMA ReceiveOwn ==
    ASSUME InboundAssumption, OwnInv, NEW r \in Receivers, Receive(r)
    PROVE  OwnInv'
  <1>0. rx \in [Receivers -> Rx] /\ \A q \in Receivers : RxOK(q)
    BY DEF OwnInv, Shapes
  <1>1. /\ rx[r].batch < Len(Batches[r]) /\ rx' = [rx EXCEPT ![r].batch = @ + 1, ![r].i = 1]
        /\ UNCHANGED <<pool, locked, inbound, decryption, decrypting, seqrx, life>>
    BY DEF Receive, boxes, peer
  <1> DEFINE n == rx[r].batch + 1
  <1>2. rx[r].batch \in Nat /\ n \in 1 .. Len(Batches[r]) /\ n \in Nat /\ n # 0 /\ n \in 0 .. Len(Batches[r])
    BY SMTT(30), <1>0, <1>1 DEF Rx, InboundAssumption
  <1>3. Len(Batches[r][n]) \in 1 .. BatchSize /\ BatchSize \in Nat
    BY <1>2, BatchLength
  <1>4. 1 \in 1 .. Len(Batches[r][n])
    BY SMTT(30), <1>3
  <1>5. /\ rx' \in [Receivers -> Rx] /\ rx'[r].i = 1 /\ rx'[r].batch = n
        /\ rx'[r].boxes = rx[r].boxes /\ rx'[r].to = rx[r].to /\ rx'[r].box = rx[r].box /\ rx'[r].peer = rx[r].peer
        /\ \A q \in Receivers \ {r} : rx'[q] = rx[q]
    <2> DEFINE y == [rx[r] EXCEPT !.batch = n, !.i = 1]
    <2>1. rx[r] \in Rx /\ 1 \in Nat /\ rx' = [rx EXCEPT ![r] = y]
      BY <1>0, <1>1
    <2> HIDE DEF n
    <2>2. y \in Rx
      BY <1>2, <2>1 DEF Rx
    <2>3. /\ y.i = 1 /\ y.batch = n /\ y.boxes = rx[r].boxes /\ y.to = rx[r].to
          /\ y.box = rx[r].box /\ y.peer = rx[r].peer
      BY <2>1 DEF Rx
    <2> HIDE DEF y
    <2> QED BY <1>0, <2>1, <2>2, <2>3, RxMoves
  <1> HIDE DEF n
  <1>6. RxOK(r)'
    BY <1>0, <1>2, <1>4, <1>5 DEF RxOK
  <1>7. \A q \in Receivers : RxOK(q)'
    BY <1>0, <1>5, <1>6, ZenonT(30) DEF RxOK
  <1> QED BY <1>1, <1>5, <1>7, QuietOwn

LEMMA SortOtherOwn ==
    ASSUME InboundAssumption, OwnInv, NEW r \in Receivers, SortHandshake(r) \/ SortIgnored(r)
    PROVE  OwnInv'
  <1>1. /\ rx[r].i > 0 /\ rx' = [rx EXCEPT ![r].i = NextSlot(r)]
        /\ UNCHANGED <<pool, locked, inbound, decryption, decrypting, seqrx, life>>
    BY DEF SortHandshake, SortIgnored, boxes, peer
  <1> QED BY <1>1, SlotOwn

-----------------------------------------------------------------------------
(* A container moves *)

\* A container c moves to place a, and nothing else does.
Relocating(c, a, h, o) ==
    /\ \A d \in pool' : d \in Containers /\ IF d = c THEN a = "pool" ELSE d \in pool
    /\ \A q \in Receivers, z \in Peers : rx'[q].boxes[z] # None =>
         /\ rx'[q].boxes[z] \in Containers
         /\ IF rx'[q].boxes[z] = c THEN a = "batch" /\ h = q /\ o = z ELSE rx'[q].boxes[z] = rx[q].boxes[z]
    /\ \A q \in Receivers : rx'[q].to = "inbound" =>
         /\ rx'[q].box \in Containers
         /\ IF rx'[q].box = c THEN a = "push" /\ h = q ELSE rx[q].to = "inbound" /\ rx'[q].box = rx[q].box
    /\ \A z \in Peers : \A d \in Turn(z)' :
         d \in Containers /\ IF d = c THEN a = "turn" /\ h = z ELSE d \in Turn(z)

LEMMA Relocated ==
    ASSUME NEW at, NEW who, NEW of, Located(at, who, of), NEW c \in Containers, NEW a, NEW h, NEW o,
           NEW at2, NEW who2, NEW of2, Moved(at, c, a, at2), Moved(who, c, h, who2), Moved(of, c, o, of2),
           Relocating(c, a, h, o)
    PROVE  Located(at2, who2, of2)'
  <1>1. at2[c] = a /\ who2[c] = h /\ of2[c] = o
    BY DEF Moved
  <1>2. \A d \in Containers : d # c => at2[d] = at[d] /\ who2[d] = who[d] /\ of2[d] = of[d]
    BY DEF Moved
  <1>3. ASSUME NEW d \in pool' PROVE at2[d] = "pool"
    BY SMTT(30), <1>1, <1>2 DEF Located, Relocating
  <1>4. ASSUME NEW q \in Receivers, NEW z \in Peers, rx'[q].boxes[z] # None
        PROVE  at2[rx'[q].boxes[z]] = "batch" /\ who2[rx'[q].boxes[z]] = q /\ of2[rx'[q].boxes[z]] = z
    BY SMTT(30), <1>1, <1>2, <1>4 DEF Located, Relocating
  <1>5. ASSUME NEW q \in Receivers, rx'[q].to = "inbound" PROVE at2[rx'[q].box] = "push" /\ who2[rx'[q].box] = q
    BY SMTT(30), <1>1, <1>2, <1>5 DEF Located, Relocating
  <1>6. ASSUME NEW z \in Peers, NEW d \in Turn(z)' PROVE at2[d] = "turn" /\ who2[d] = z
    BY SMTT(30), <1>1, <1>2, <1>6 DEF Located, Relocating
  <1> QED BY <1>3, <1>4, <1>5, <1>6 DEF Located

\* The same for a step on the way to decryption.
Advancing(c, s, b) ==
    /\ \A q \in Receivers : rx'[q].to = "decryption" =>
         /\ rx'[q].box \in Containers
         /\ IF rx'[q].box = c THEN s = "push" /\ b = q ELSE rx[q].to = "decryption" /\ rx'[q].box = rx[q].box
    /\ \A d \in Range(decryption') : d \in Containers /\ IF d = c THEN s = "queue" ELSE d \in Range(decryption)
    /\ \A w \in Decrypters : decrypting'[w] # None =>
         /\ decrypting'[w] \in Containers
         /\ IF decrypting'[w] = c THEN s = "worker" /\ b = w ELSE decrypting'[w] = decrypting[w]

LEMMA Advanced ==
    ASSUME NEW st, NEW by, Decrypting(st, by), NEW c \in Containers, NEW s, NEW b,
           NEW st2, NEW by2, Moved(st, c, s, st2), Moved(by, c, b, by2), Advancing(c, s, b)
    PROVE  Decrypting(st2, by2)'
  <1>1. st2[c] = s /\ by2[c] = b
    BY DEF Moved
  <1>2. \A d \in Containers : d # c => st2[d] = st[d] /\ by2[d] = by[d]
    BY DEF Moved
  <1>3. ASSUME NEW q \in Receivers, rx'[q].to = "decryption" PROVE st2[rx'[q].box] = "push" /\ by2[rx'[q].box] = q
    BY SMTT(30), <1>1, <1>2, <1>3 DEF Decrypting, Advancing
  <1>4. ASSUME NEW d \in Range(decryption') PROVE st2[d] = "queue"
    BY SMTT(30), <1>1, <1>2 DEF Decrypting, Advancing
  <1>5. ASSUME NEW w \in Decrypters, decrypting'[w] # None
        PROVE  st2[decrypting'[w]] = "worker" /\ by2[decrypting'[w]] = w
    BY SMTT(30), <1>1, <1>2, <1>5 DEF Decrypting, Advancing
  <1> QED BY <1>3, <1>4, <1>5 DEF Decrypting

LEMMA TurnType ==
    ASSUME OwnInv, NEW p \in Peers
    PROVE  Turn(p) \subseteq Containers
  BY SMTT(30) DEF Turn, OwnInv, Shapes, Range

LEMMA StillLocated ==
    ASSUME NEW at, NEW who, NEW of, Located(at, who, of), UNCHANGED <<pool, inbound, seqrx>>,
           \A q \in Receivers : rx'[q].boxes = rx[q].boxes,
           \A q \in Receivers : rx'[q].to = "inbound" => rx[q].to = "inbound" /\ rx'[q].box = rx[q].box
    PROVE  Located(at, who, of)'
  <1>1. \A z \in Peers : Turn(z)' = Turn(z)
    BY DEF Turn
  <1> QED BY SMTT(30), <1>1 DEF Located

\* A container that is not on its way is neither in the queue nor with a worker.
LEMMA OnTheWay ==
    ASSUME OwnInv, NEW st, NEW by, Decrypting(st, by), NEW c, st[c] = "none"
    PROVE  /\ \A d \in Range(decryption) : d \in Containers /\ d # c
           /\ \A w \in Decrypters : decrypting[w] # None => decrypting[w] \in Containers /\ decrypting[w] # c
  <1>1. \A d \in Range(decryption) : d \in Containers
    BY SMTT(30) DEF OwnInv, Shapes, Range
  <1>2. \A w \in Decrypters : decrypting[w] # None => decrypting[w] \in Containers
    BY DEF OwnInv, Shapes
  <1> QED BY <1>1, <1>2 DEF Decrypting

-----------------------------------------------------------------------------
(* The receive routines *)

LEMMA GetFromPool == pool # {} => GetContainer \in pool
  BY DEF GetContainer

LEMMA SortTransportOwn ==
    ASSUME InboundAssumption, OwnInv, NEW r \in Receivers, NEW p \in Peers, SortTransport(r, p)
    PROVE  OwnInv'
  <1>0. rx \in [Receivers -> Rx] /\ rx[r] \in Rx /\ pool \subseteq Containers /\ None \notin Containers
    BY BoxDistinct DEF OwnInv, Shapes
  <1>k. \A q \in Receivers : RxOK(q)
    BY DEF OwnInv
  <1> DEFINE c == IF rx[r].boxes[p] = None THEN GetContainer ELSE rx[r].boxes[p]
  <1>1. /\ rx[r].i > 0 /\ (rx[r].boxes[p] = None => pool # {})
        /\ pool' = pool \ {c} /\ locked' = locked \cup {c}
        /\ rx' = [rx EXCEPT ![r].i = NextSlot(r), ![r].boxes[p] = c]
        /\ UNCHANGED <<inbound, decryption, decrypting, seqrx, life>>
    BY DEF SortTransport, LockForBatch, peer
  <1>2. rx[r].boxes[p] \in Containers \cup {None}
    BY <1>0 DEF Rx
  <1>3. rx[r].boxes[p] = None => c \in pool
    BY <1>1, GetFromPool
  <1>4. rx[r].boxes[p] # None => c = rx[r].boxes[p]
    OBVIOUS
  <1> HIDE DEF c
  <1>5. c \in Containers /\ c # None
    BY <1>0, <1>2, <1>3, <1>4
  <1>6. /\ NextSlot(r) \in Nat
        /\ NextSlot(r) # 0 => NextSlot(r) \in 1 .. Len(Batches[r][rx[r].batch])
        /\ rx[r].batch # 0
    BY <1>1, NextSlotOK
  <1> DEFINE n == NextSlot(r)
  <1> HIDE DEF n
  <1>7. /\ rx' \in [Receivers -> Rx] /\ rx'[r].i = n /\ rx'[r].batch = rx[r].batch
        /\ rx'[r].to = rx[r].to /\ rx'[r].box = rx[r].box /\ rx'[r].peer = rx[r].peer
        /\ rx'[r].boxes[p] = c /\ (\A q \in Peers \ {p} : rx'[r].boxes[q] = rx[r].boxes[q])
        /\ \A q \in Receivers \ {r} : rx'[q] = rx[q]
    <2> DEFINE b == [rx[r].boxes EXCEPT ![p] = c]
               y == [rx[r] EXCEPT !.i = n, !.boxes = b]
    <2>1. n \in Nat /\ rx' = [rx EXCEPT ![r] = y]
      BY <1>0, <1>1, <1>6 DEF n
    <2>2. rx[r].boxes \in [Peers -> Containers \cup {None}]
      BY <1>0 DEF Rx
    <2>3. /\ b \in [Peers -> Containers \cup {None}] /\ b[p] = c
          /\ \A q \in Peers \ {p} : b[q] = rx[r].boxes[q]
      BY <1>5, <2>2
    <2> HIDE DEF b
    <2>4. y \in Rx
      BY <1>0, <2>1, <2>3 DEF Rx
    <2>5. y.i = n /\ y.batch = rx[r].batch /\ y.boxes = b /\ y.to = rx[r].to /\ y.box = rx[r].box /\ y.peer = rx[r].peer
      BY <1>0 DEF Rx
    <2> HIDE DEF y
    <2> QED BY <1>0, <2>1, <2>3, <2>4, <2>5, RxMoves
  <1>8. \A q \in Receivers : RxOK(q)'
    <2>1. RxOK(r)'
      BY <1>k, <1>6, <1>7 DEF RxOK, n
    <2> QED BY <1>k, <1>7, <2>1, ZenonT(30) DEF RxOK
  <1>9. Shapes' /\ \A q \in Peers : ReceiverOK(q)'
    <2>1. Shapes'
      BY <1>1, <1>7 DEF OwnInv, Shapes
    <2> QED BY <1>1, <2>1 DEF OwnInv, ReceiverOK
  <1>10. PICK at, who, of, st, by : Located(at, who, of) /\ Decrypting(st, by) /\ Locking(at, st)
    BY DEF OwnInv
  <1>11. PICK at2 : Moved(at, c, "batch", at2)
    BY <1>5, MovedExists
  <1>12. PICK who2 : Moved(who, c, r, who2)
    BY <1>5, MovedExists
  <1>13. PICK of2 : Moved(of, c, p, of2)
    BY <1>5, MovedExists
  \* c was in the pool, or it is the container that the peer has in this batch
  <1>14. at[c] = "pool" \/ (at[c] = "batch" /\ who[c] = r /\ of[c] = p)
    BY SMTT(30), <1>3, <1>4, <1>5, <1>10 DEF Located
  <1>15. Located(at2, who2, of2)'
    <2>1. \A d \in pool' : d \in Containers /\ IF d = c THEN "batch" = "pool" ELSE d \in pool
      BY <1>0, <1>1
    <2>2. ASSUME NEW q \in Receivers, NEW z \in Peers, rx'[q].boxes[z] # None
          PROVE  /\ rx'[q].boxes[z] \in Containers
                 /\ IF rx'[q].boxes[z] = c THEN "batch" = "batch" /\ r = q /\ p = z ELSE rx'[q].boxes[z] = rx[q].boxes[z]
      <3>1. CASE q = r /\ z = p
        BY <1>5, <1>7, <3>1
      <3>2. CASE ~(q = r /\ z = p)
        <4>1. rx'[q].boxes[z] = rx[q].boxes[z]
          BY <1>7, <3>2
        <4>2. rx[q].boxes[z] \in Containers
          BY SMTT(30), <1>0, <2>2, <4>1 DEF Rx
        <4>3. rx[q].boxes[z] # c
          BY SMTT(30), <1>10, <1>14, <2>2, <3>2, <4>1 DEF Located
        <4> QED BY <4>1, <4>2, <4>3
      <3> QED BY <3>1, <3>2
    <2>3. ASSUME NEW q \in Receivers, rx'[q].to = "inbound"
          PROVE  /\ rx'[q].box \in Containers
                 /\ IF rx'[q].box = c THEN "batch" = "push" /\ r = q ELSE rx[q].to = "inbound" /\ rx'[q].box = rx[q].box
      <3>1. rx'[q].to = rx[q].to /\ rx'[q].box = rx[q].box
        BY <1>7
      <3> QED BY SMTT(30), <1>k, <1>10, <1>14, <2>3, <3>1 DEF RxOK, Located
    <2>4. ASSUME NEW z \in Peers, NEW d \in Turn(z)'
          PROVE  d \in Containers /\ IF d = c THEN "batch" = "turn" /\ r = z ELSE d \in Turn(z)
      <3>1. d \in Turn(z)
        BY <1>1 DEF Turn
      <3> QED BY SMTT(30), <1>10, <1>14, <3>1, TurnType DEF Located
    <2>5. Relocating(c, "batch", r, p)
      BY <2>1, <2>2, <2>3, <2>4 DEF Relocating
    <2> QED BY <1>5, <1>10, <1>11, <1>12, <1>13, <2>5, Relocated
  <1>16. Decrypting(st, by)'
    BY SMTT(30), <1>1, <1>7, <1>10 DEF Decrypting
  <1>17. Locking(at2, st)'
    BY <1>1, <1>10, <1>11, <1>14 DEF Locking, Moved
  <1> QED BY <1>8, <1>9, <1>15, <1>16, <1>17 DEF OwnInv

\* The container of a peer leaves the batch: for the queue of a peer that runs, for the
\* pool otherwise.
LEMMA HandOverOwn ==
    ASSUME InboundAssumption, OwnInv, NEW r \in Receivers, NEW p \in Peers, HandOver(r, p)
    PROVE  OwnInv'
  <1>0. rx \in [Receivers -> Rx] /\ rx[r] \in Rx /\ pool \subseteq Containers /\ None \notin Containers
    BY BoxDistinct DEF OwnInv, Shapes
  <1>k. \A q \in Receivers : RxOK(q)
    BY DEF OwnInv
  <1> DEFINE c == rx[r].boxes[p]
             b == [rx[r].boxes EXCEPT ![p] = None]
  <1>1. /\ rx[r].i = 0 /\ rx[r].to = "none" /\ c # None
        /\ UNCHANGED <<locked, inbound, decryption, decrypting, seqrx, life>>
    BY DEF HandOver, peer
  <1>2. rx[r].boxes \in [Peers -> Containers \cup {None}]
    BY <1>0 DEF Rx
  <1>3. c \in Containers
    BY <1>1, <1>2
  <1>4. /\ b \in [Peers -> Containers \cup {None}] /\ b[p] = None
        /\ \A z \in Peers \ {p} : b[z] = rx[r].boxes[z]
    BY <1>2
  <1>5. \/ rx' = [rx EXCEPT ![r] = [rx[r] EXCEPT !.boxes = b, !.to = "inbound", !.peer = p, !.box = c]] /\ pool' = pool
        \/ rx' = [rx EXCEPT ![r] = [rx[r] EXCEPT !.boxes = b]] /\ pool' = pool \cup {c}
    BY <1>0 DEF HandOver, PutContainer
  <1> HIDE DEF b, c
  <1>6. /\ rx' \in [Receivers -> Rx] /\ rx'[r].boxes = b /\ rx'[r].i = 0 /\ rx'[r].batch = rx[r].batch
        /\ \/ rx'[r].to = "inbound" /\ rx'[r].peer = p /\ rx'[r].box = c /\ pool' = pool
           \/ rx'[r].to = "none" /\ rx'[r].box = None /\ pool' = pool \cup {c}
        /\ \A q \in Receivers \ {r} : rx'[q] = rx[q]
    <2>1. CASE rx' = [rx EXCEPT ![r] = [rx[r] EXCEPT !.boxes = b, !.to = "inbound", !.peer = p, !.box = c]] /\ pool' = pool
      <3> DEFINE y == [rx[r] EXCEPT !.boxes = b, !.to = "inbound", !.peer = p, !.box = c]
      <3>1. y \in Rx
        BY <1>0, <1>3, <1>4 DEF Rx
      <3>2. y.boxes = b /\ y.i = rx[r].i /\ y.batch = rx[r].batch /\ y.to = "inbound" /\ y.peer = p /\ y.box = c
        BY <1>0 DEF Rx
      <3>3. rx' = [rx EXCEPT ![r] = y]
        BY <2>1
      <3> HIDE DEF y
      <3> QED BY <1>0, <1>1, <2>1, <3>1, <3>2, <3>3, RxMoves, ZenonT(30)
    <2>2. CASE rx' = [rx EXCEPT ![r] = [rx[r] EXCEPT !.boxes = b]] /\ pool' = pool \cup {c}
      <3> DEFINE y == [rx[r] EXCEPT !.boxes = b]
      <3>1. y \in Rx
        BY <1>0, <1>4 DEF Rx
      <3>2. y.boxes = b /\ y.i = rx[r].i /\ y.batch = rx[r].batch /\ y.to = rx[r].to /\ y.box = rx[r].box
        BY <1>0 DEF Rx
      <3>3. rx' = [rx EXCEPT ![r] = y] /\ rx[r].box = None
        BY <1>k, <1>1, <2>2 DEF RxOK
      <3> HIDE DEF y
      <3> QED BY <1>0, <1>1, <2>2, <3>1, <3>2, <3>3, RxMoves
    <2> QED BY <1>5, <2>1, <2>2
  <1>7. \A q \in Receivers : RxOK(q)'
    <2>1. RxOK(r)'
      BY <1>k, <1>1, <1>3, <1>6 DEF RxOK
    <2>2. ASSUME NEW q \in Receivers, q # r PROVE RxOK(q)'
      <3>1. rx'[q] = rx[q]
        BY <1>6, <2>2
      <3> QED BY <1>k, <3>1 DEF RxOK
    <2> QED BY <2>1, <2>2
  <1>8. Shapes' /\ \A q \in Peers : ReceiverOK(q)'
    <2>1. Shapes'
      BY <1>1, <1>3, <1>6 DEF OwnInv, Shapes
    <2> QED BY <1>1, <2>1 DEF OwnInv, ReceiverOK
  <1>9. PICK at, who, of, st, by : Located(at, who, of) /\ Decrypting(st, by) /\ Locking(at, st)
    BY DEF OwnInv
  <1>10. at[c] = "batch" /\ who[c] = r /\ of[c] = p /\ c \in locked /\ st[c] = "none"
    BY SMTT(30), <1>1, <1>3, <1>9 DEF Located, Locking, c
  <1> DEFINE a == IF rx'[r].to = "inbound" THEN "push" ELSE "pool"
  <1>11. PICK at2 : Moved(at, c, a, at2)
    BY <1>3, MovedExists
  <1>12. PICK who2 : Moved(who, c, r, who2)
    BY <1>3, MovedExists
  <1>13. PICK of2 : Moved(of, c, p, of2)
    BY <1>3, MovedExists
  <1>14. Located(at2, who2, of2)'
    <2>1. \A d \in pool' : d \in Containers /\ IF d = c THEN a = "pool" ELSE d \in pool
      BY SMTT(30), <1>0, <1>3, <1>6, <1>9, <1>10 DEF Located
    <2>2. ASSUME NEW q \in Receivers, NEW z \in Peers, rx'[q].boxes[z] # None
          PROVE  /\ rx'[q].boxes[z] \in Containers
                 /\ IF rx'[q].boxes[z] = c THEN a = "batch" /\ r = q /\ p = z ELSE rx'[q].boxes[z] = rx[q].boxes[z]
      <3>1. ~(q = r /\ z = p) /\ rx'[q].boxes[z] = rx[q].boxes[z]
        BY <1>4, <1>6, <2>2
      <3>2. rx[q].boxes[z] \in Containers
        BY SMTT(30), <1>0, <2>2, <3>1 DEF Rx
      <3>3. rx[q].boxes[z] # c
        BY SMTT(30), <1>9, <1>10, <2>2, <3>1 DEF Located
      <3> QED BY <3>1, <3>2, <3>3
    <2>3. ASSUME NEW q \in Receivers, rx'[q].to = "inbound"
          PROVE  /\ rx'[q].box \in Containers
                 /\ IF rx'[q].box = c THEN a = "push" /\ r = q ELSE rx[q].to = "inbound" /\ rx'[q].box = rx[q].box
      <3>1. CASE q = r
        BY <1>3, <1>6, <2>3, <3>1
      <3>2. CASE q # r
        BY SMTT(30), <1>k, <1>6, <1>9, <1>10, <2>3, <3>2 DEF RxOK, Located
      <3> QED BY <3>1, <3>2
    <2>4. ASSUME NEW z \in Peers, NEW d \in Turn(z)'
          PROVE  d \in Containers /\ IF d = c THEN a = "turn" /\ r = z ELSE d \in Turn(z)
      <3>1. d \in Turn(z)
        BY <1>1 DEF Turn
      <3> QED BY SMTT(30), <1>9, <1>10, <3>1, TurnType DEF Located
    <2> HIDE DEF a
    <2>5. Relocating(c, a, r, p)
      BY <2>1, <2>2, <2>3, <2>4 DEF Relocating
    <2> QED BY <1>3, <1>9, <1>11, <1>12, <1>13, <2>5, Relocated
  <1>15. Decrypting(st, by)'
    <2>1. \A q \in Receivers : rx'[q].to = "decryption" => rx[q].to = "decryption" /\ rx'[q].box = rx[q].box
      BY <1>6
    <2> QED BY SMTT(30), <1>1, <1>9, <2>1 DEF Decrypting
  <1>16. Locking(at2, st)'
    BY <1>1, <1>9, <1>10, <1>11 DEF Locking, Moved
  <1> QED BY <1>7, <1>8, <1>14, <1>15, <1>16 DEF OwnInv

\* A container enters the queue of its peer, locked, before any worker can have it.
LEMMA PushInboundOwn ==
    ASSUME InboundAssumption, OwnInv, NEW r \in Receivers, PushInbound(r)
    PROVE  OwnInv'
  <1>0. /\ rx \in [Receivers -> Rx] /\ rx[r] \in Rx /\ pool \subseteq Containers
        /\ None \notin Containers /\ Nil \notin Containers
        /\ inbound \in [Peers -> Seq(Containers \cup {Nil})]
    BY BoxDistinct DEF OwnInv, Shapes
  <1>k. \A q \in Receivers : RxOK(q)
    BY DEF OwnInv
  <1>a. rx[r].to = "inbound"
    BY DEF PushInbound
  <1>b. rx[r].box \in Containers /\ rx[r].peer \in Peers
    BY <1>k, <1>a DEF RxOK
  <1>c. PICK c \in Containers : c = rx[r].box
    BY <1>b
  <1>p. PICK p \in Peers : p = rx[r].peer
    BY <1>b
  <1> DEFINE y == [rx[r] EXCEPT !.to = "decryption"]
  <1>1. /\ rx[r].to = "inbound" /\ inbound' = [inbound EXCEPT ![p] = Append(inbound[p], c)]
        /\ rx' = [rx EXCEPT ![r] = y]
        /\ UNCHANGED <<pool, locked, decryption, decrypting, seqrx, life>>
    BY <1>c, <1>p DEF PushInbound, PushInboundAt, boxes, peer
  <1>2. c \in Containers /\ p \in Peers
    OBVIOUS
  <1>3. y \in Rx
    BY <1>0 DEF Rx
  <1>4. y.boxes = rx[r].boxes /\ y.i = rx[r].i /\ y.batch = rx[r].batch /\ y.to = "decryption" /\ y.box = c /\ y.peer = p
    BY <1>0, <1>c, <1>p DEF Rx
  <1> HIDE DEF y
  <1>5. /\ rx' \in [Receivers -> Rx] /\ rx'[r] = y
        /\ \A q \in Receivers \ {r} : rx'[q] = rx[q]
    BY <1>0, <1>1, <1>3, RxMoves
  <1>6. \A q \in Receivers : RxOK(q)'
    <2>1. RxOK(r)'
      BY <1>k, <1>2, <1>4, <1>5 DEF RxOK
    <2>2. ASSUME NEW q \in Receivers, q # r PROVE RxOK(q)'
      <3>1. rx'[q] = rx[q]
        BY <1>5, <2>2
      <3> QED BY <1>k, <3>1 DEF RxOK
    <2> QED BY <2>1, <2>2
  <1>7. PICK at, who, of, st, by : Located(at, who, of) /\ Decrypting(st, by) /\ Locking(at, st)
    BY DEF OwnInv
  <1>8. at[c] = "push" /\ who[c] = r /\ c \in locked /\ st[c] = "none"
    BY <1>1, <1>c, <1>7 DEF Located, Locking
  <1>9. \A z \in Peers : c \notin Turn(z)
    BY <1>7, <1>8 DEF Located
  <1>10. /\ inbound' \in [Peers -> Seq(Containers \cup {Nil})]
         /\ Range(inbound'[p]) = Range(inbound[p]) \cup {c} /\ Once(inbound'[p])
         /\ \A z \in Peers \ {p} : inbound'[z] = inbound[z]
    <2>1. c \notin Range(inbound[p]) /\ Once(inbound[p])
      BY <1>0, <1>2, <1>9 DEF Turn, OwnInv, ReceiverOK
    <2>2. /\ Append(inbound[p], c) \in Seq(Containers \cup {Nil}) /\ Once(Append(inbound[p], c))
          /\ Range(Append(inbound[p], c)) = Range(inbound[p]) \cup {c}
      <3>1. inbound[p] \in Seq(Containers \cup {Nil}) /\ c \in Containers \cup {Nil}
        BY <1>0
      <3> QED BY SMTT(30), <2>1, <3>1, AppendOnce
    <2> QED BY <1>0, <1>1, <1>2, <2>2
  <1>11. Shapes' /\ \A z \in Peers : ReceiverOK(z)'
    <2>1. Shapes'
      BY <1>1, <1>5, <1>10 DEF OwnInv, Shapes
    <2>2. ReceiverOK(p)'
      <3>1. seqrx[p].box # c
        BY <1>0, <1>2, <1>9 DEF Turn
      <3>2. ReceiverOK(p) /\ c # Nil
        BY <1>0, <1>2 DEF OwnInv
      <3> QED BY <1>1, <1>10, <3>1, <3>2 DEF ReceiverOK
    <2>3. ASSUME NEW z \in Peers, z # p PROVE ReceiverOK(z)'
      <3>1. inbound'[z] = inbound[z] /\ seqrx'[z] = seqrx[z] /\ life'[z] = life[z] /\ ReceiverOK(z)
        BY <1>1, <1>10, <2>3 DEF OwnInv
      <3> QED BY <3>1 DEF ReceiverOK
    <2> QED BY <2>1, <2>2, <2>3
  <1>12. PICK at2 : Moved(at, c, "turn", at2)
    BY <1>2, MovedExists
  <1>13. PICK who2 : Moved(who, c, p, who2)
    BY <1>2, MovedExists
  <1>14. PICK of2 : Moved(of, c, p, of2)
    BY <1>2, MovedExists
  <1>15. PICK st2 : Moved(st, c, "push", st2)
    BY <1>2, MovedExists
  <1>16. PICK by2 : Moved(by, c, r, by2)
    BY <1>2, MovedExists
  <1>17. Located(at2, who2, of2)'
    <2>1. \A d \in pool' : d \in Containers /\ IF d = c THEN "turn" = "pool" ELSE d \in pool
      BY SMTT(30), <1>0, <1>1, <1>7, <1>8 DEF Located
    <2>2. ASSUME NEW q \in Receivers, NEW z \in Peers, rx'[q].boxes[z] # None
          PROVE  /\ rx'[q].boxes[z] \in Containers
                 /\ IF rx'[q].boxes[z] = c THEN "turn" = "batch" /\ p = q /\ p = z ELSE rx'[q].boxes[z] = rx[q].boxes[z]
      <3>1. rx'[q].boxes[z] = rx[q].boxes[z]
        BY <1>4, <1>5
      <3>2. rx[q].boxes[z] \in Containers
        BY SMTT(30), <1>0, <2>2, <3>1 DEF Rx
      <3>3. rx[q].boxes[z] # c
        BY SMTT(30), <1>7, <1>8, <2>2, <3>1 DEF Located
      <3> QED BY <3>1, <3>2, <3>3
    <2>3. ASSUME NEW q \in Receivers, rx'[q].to = "inbound"
          PROVE  /\ rx'[q].box \in Containers
                 /\ IF rx'[q].box = c THEN "turn" = "push" /\ p = q ELSE rx[q].to = "inbound" /\ rx'[q].box = rx[q].box
      <3>1. q # r /\ rx'[q] = rx[q]
        BY <1>4, <1>5, <2>3
      <3> QED BY SMTT(30), <1>k, <1>7, <1>8, <2>3, <3>1 DEF RxOK, Located
    <2>4. ASSUME NEW z \in Peers, NEW d \in Turn(z)'
          PROVE  d \in Containers /\ IF d = c THEN "turn" = "turn" /\ p = z ELSE d \in Turn(z)
      <3>1. CASE z = p
        <4>1. d = c \/ d \in Turn(p)
          BY <1>1, <1>10, <3>1 DEF Turn
        <4> QED BY <1>2, <3>1, <4>1, TurnType
      <3>2. CASE z # p
        <4>1. d \in Turn(z)
          BY <1>1, <1>10, <3>2 DEF Turn
        <4> QED BY <1>9, <4>1, TurnType
      <3> QED BY <3>1, <3>2
    <2>5. Relocating(c, "turn", p, p)
      BY <2>1, <2>2, <2>3, <2>4 DEF Relocating
    <2> QED BY <1>2, <1>7, <1>12, <1>13, <1>14, <2>5, Relocated
  <1>18. Decrypting(st2, by2)'
    <2>1. ASSUME NEW q \in Receivers, rx'[q].to = "decryption"
          PROVE  /\ rx'[q].box \in Containers
                 /\ IF rx'[q].box = c THEN "push" = "push" /\ r = q ELSE rx[q].to = "decryption" /\ rx'[q].box = rx[q].box
      <3>1. CASE q = r
        BY <1>2, <1>4, <1>5, <3>1
      <3>2. CASE q # r
        <4>1. rx'[q] = rx[q]
          BY <1>5, <3>2
        <4> QED BY SMTT(30), <1>k, <1>7, <1>8, <2>1, <4>1 DEF RxOK, Decrypting
      <3> QED BY <3>1, <3>2
    <2>2. \A d \in Range(decryption') : d \in Containers /\ IF d = c THEN "push" = "queue" ELSE d \in Range(decryption)
      BY <1>1, <1>7, <1>8, OnTheWay
    <2>3. ASSUME NEW w \in Decrypters, decrypting'[w] # None
          PROVE  /\ decrypting'[w] \in Containers
                 /\ IF decrypting'[w] = c THEN "push" = "worker" /\ r = w ELSE decrypting'[w] = decrypting[w]
      BY <1>1, <1>7, <1>8, <2>3, OnTheWay
    <2>4. Advancing(c, "push", r)
      BY <2>1, <2>2, <2>3 DEF Advancing
    <2> QED BY <1>2, <1>7, <1>15, <1>16, <2>4, Advanced
  <1>19. Locking(at2, st2)'
    BY <1>1, <1>7, <1>8, <1>12, <1>15 DEF Locking, Moved
  <1> QED BY <1>6, <1>11, <1>17, <1>18, <1>19 DEF OwnInv

\* The routine lets go of a container as the queue of the workers takes it.
LEMMA PushDecryptionOwn ==
    ASSUME InboundAssumption, OwnInv, NEW r \in Receivers, PushDecryption(r)
    PROVE  OwnInv'
  <1>0. rx \in [Receivers -> Rx] /\ rx[r] \in Rx /\ None \notin Containers
    BY BoxDistinct DEF OwnInv, Shapes
  <1>k. \A q \in Receivers : RxOK(q)
    BY DEF OwnInv
  <1>a. rx[r].to = "decryption"
    BY DEF PushDecryption
  <1>b. PICK c \in Containers : c = rx[r].box
    BY <1>k, <1>a DEF RxOK
  <1> DEFINE y == [rx[r] EXCEPT !.to = "none", !.peer = None, !.box = None]
  <1>1. /\ decryption' = Append(decryption, c) /\ rx' = [rx EXCEPT ![r] = y]
        /\ UNCHANGED <<pool, locked, inbound, decrypting, seqrx, life>>
    BY <1>b DEF PushDecryption, boxes, peer
  <1>2. y \in Rx
    BY <1>0 DEF Rx
  <1>3. y.boxes = rx[r].boxes /\ y.i = rx[r].i /\ y.batch = rx[r].batch /\ y.to = "none" /\ y.box = None
    BY <1>0 DEF Rx
  <1> HIDE DEF y
  <1>4. /\ rx' \in [Receivers -> Rx] /\ rx'[r] = y
        /\ \A q \in Receivers \ {r} : rx'[q] = rx[q]
    BY <1>0, <1>1, <1>2, RxMoves
  <1>5. \A q \in Receivers : RxOK(q)'
    <2>1. RxOK(r)'
      BY <1>k, <1>3, <1>4 DEF RxOK
    <2>2. ASSUME NEW q \in Receivers, q # r PROVE RxOK(q)'
      <3>1. rx'[q] = rx[q]
        BY <1>4, <2>2
      <3> QED BY <1>k, <3>1 DEF RxOK
    <2> QED BY <2>1, <2>2
  <1>6. PICK at, who, of, st, by : Located(at, who, of) /\ Decrypting(st, by) /\ Locking(at, st)
    BY DEF OwnInv
  <1>7. st[c] = "push" /\ by[c] = r /\ at[c] = "turn" /\ c \in locked
    BY <1>a, <1>b, <1>6 DEF Decrypting, Locking
  <1>8. c \notin Range(decryption) /\ \A d \in Range(decryption) : d \in Containers
    <2>1. c \notin Range(decryption)
      BY <1>6, <1>7 DEF Decrypting
    <2>2. \A d \in Range(decryption) : d \in Containers
      BY SMTT(30) DEF OwnInv, Shapes, Range
    <2> QED BY <2>1, <2>2
  <1>9. decryption' \in Seq(Containers) /\ Once(decryption') /\ Range(decryption') = Range(decryption) \cup {c}
    BY SMTT(30), <1>1, <1>8, AppendOnce DEF OwnInv, Shapes
  <1>10. Shapes' /\ \A z \in Peers : ReceiverOK(z)'
    <2>1. Shapes'
      BY <1>1, <1>4, <1>9 DEF OwnInv, Shapes
    <2> QED BY <1>1, <2>1 DEF OwnInv, ReceiverOK
  <1>11. Located(at, who, of)'
    <2>1. \A q \in Receivers : rx'[q].boxes = rx[q].boxes
      BY <1>3, <1>4
    <2>2. \A q \in Receivers : rx'[q].to = "inbound" => rx[q].to = "inbound" /\ rx'[q].box = rx[q].box
      BY <1>3, <1>4
    <2> QED BY <1>1, <1>6, <2>1, <2>2, StillLocated
  <1>12. PICK st2 : Moved(st, c, "queue", st2)
    BY MovedExists
  <1>13. Decrypting(st2, by)'
    <2>1. ASSUME NEW q \in Receivers, rx'[q].to = "decryption"
          PROVE  /\ rx'[q].box \in Containers
                 /\ IF rx'[q].box = c THEN "queue" = "push" /\ by[c] = q
                    ELSE rx[q].to = "decryption" /\ rx'[q].box = rx[q].box
      <3>1. q # r /\ rx'[q] = rx[q]
        BY <1>3, <1>4, <2>1
      <3> QED BY SMTT(30), <1>k, <1>6, <1>7, <2>1, <3>1 DEF RxOK, Decrypting
    <2>2. \A d \in Range(decryption') : d \in Containers /\ IF d = c THEN "queue" = "queue" ELSE d \in Range(decryption)
      BY <1>8, <1>9
    <2>3. ASSUME NEW w \in Decrypters, decrypting'[w] # None
          PROVE  /\ decrypting'[w] \in Containers
                 /\ IF decrypting'[w] = c THEN "queue" = "worker" /\ by[c] = w ELSE decrypting'[w] = decrypting[w]
      <3>1. decrypting[w] \in Containers
        BY <1>1, <2>3 DEF OwnInv, Shapes
      <3> QED BY <1>1, <1>6, <1>7, <2>3, <3>1 DEF Decrypting
    <2>4. Advancing(c, "queue", by[c])
      BY <2>1, <2>2, <2>3 DEF Advancing
    <2>5. Moved(by, c, by[c], by)
      BY DEF Moved
    <2> QED BY <1>6, <1>12, <2>4, <2>5, Advanced
  <1>14. Locking(at, st2)'
    BY <1>1, <1>6, <1>7, <1>12 DEF Locking, Moved
  <1> QED BY <1>5, <1>10, <1>11, <1>13, <1>14 DEF OwnInv

-----------------------------------------------------------------------------
(* The handshake and decryption workers *)

LEMMA RoutineHandshakeOwn == ASSUME OwnInv, RoutineHandshake PROVE OwnInv'
  <1>1. UNCHANGED <<pool, locked, inbound, decryption, decrypting, seqrx, life, rx>>
    BY DEF RoutineHandshake, boxes, peer
  <1>2. rx' \in [Receivers -> Rx] /\ \A q \in Receivers : RxOK(q)'
    BY <1>1 DEF OwnInv, Shapes, RxOK
  <1> QED BY <1>1, <1>2, QuietOwn

LEMMA StartDecryptionOwn ==
    ASSUME OwnInv, NEW w \in Decrypters, StartDecryption(w)
    PROVE  OwnInv'
  <1>1. /\ decrypting[w] = None /\ decryption # <<>> /\ decryption' = Tail(decryption)
        /\ decrypting' = [decrypting EXCEPT ![w] = Head(decryption)]
        /\ UNCHANGED <<pool, locked, inbound, seqrx, life, rx>>
    BY DEF StartDecryption, boxes, peer
  <1>2. /\ decryption \in Seq(Containers) /\ Once(decryption) /\ decrypting \in [Decrypters -> Containers \cup {None}]
        /\ rx \in [Receivers -> Rx]
    BY DEF OwnInv, Shapes
  <1>3. PICK c \in Containers : c = Head(decryption)
    BY SMTT(30), <1>1, <1>2
  <1>4. /\ decryption' \in Seq(Containers) /\ Once(decryption')
        /\ Range(decryption') = Range(decryption) \ {c} /\ c \in Range(decryption)
    BY <1>1, <1>2, <1>3, TailOnce
  <1>5. /\ decrypting' \in [Decrypters -> Containers \cup {None}] /\ decrypting'[w] = c
        /\ \A v \in Decrypters \ {w} : decrypting'[v] = decrypting[v]
    BY <1>1, <1>2, <1>3
  <1>6. Shapes' /\ (\A q \in Receivers : RxOK(q)') /\ \A z \in Peers : ReceiverOK(z)'
    <2>1. Shapes'
      BY <1>1, <1>4, <1>5 DEF OwnInv, Shapes
    <2> QED BY <1>1, <2>1 DEF OwnInv, ReceiverOK, RxOK
  <1>7. PICK at, who, of, st, by : Located(at, who, of) /\ Decrypting(st, by) /\ Locking(at, st)
    BY DEF OwnInv
  <1>8. st[c] = "queue" /\ at[c] = "turn" /\ c \in locked
    BY <1>4, <1>7 DEF Decrypting, Locking
  <1>9. Located(at, who, of)'
    BY <1>1, <1>7, StillLocated
  <1>10. PICK st2 : Moved(st, c, "worker", st2)
    BY MovedExists
  <1>11. PICK by2 : Moved(by, c, w, by2)
    BY MovedExists
  <1>12. Decrypting(st2, by2)'
    <2>1. ASSUME NEW q \in Receivers, rx'[q].to = "decryption"
          PROVE  /\ rx'[q].box \in Containers
                 /\ IF rx'[q].box = c THEN "worker" = "push" /\ w = q ELSE rx[q].to = "decryption" /\ rx'[q].box = rx[q].box
      <3>1. rx[q].box \in Containers
        BY <1>1, <2>1 DEF OwnInv, RxOK
      <3> QED BY <1>1, <1>7, <1>8, <2>1, <3>1 DEF Decrypting
    <2>2. \A d \in Range(decryption') : d \in Containers /\ IF d = c THEN "worker" = "queue" ELSE d \in Range(decryption)
      <3>1. \A d \in Range(decryption) : d \in Containers
        BY SMTT(30), <1>2 DEF Range
      <3> QED BY <1>4, <3>1
    <2>3. ASSUME NEW v \in Decrypters, decrypting'[v] # None
          PROVE  /\ decrypting'[v] \in Containers
                 /\ IF decrypting'[v] = c THEN "worker" = "worker" /\ w = v ELSE decrypting'[v] = decrypting[v]
      <3>1. CASE v = w
        BY <1>5, <3>1
      <3>2. CASE v # w
        <4>1. decrypting'[v] = decrypting[v] /\ decrypting[v] \in Containers
          BY <1>2, <1>5, <2>3, <3>2
        <4> QED BY SMTT(30), <1>7, <1>8, <2>3, <4>1 DEF Decrypting
      <3> QED BY <3>1, <3>2
    <2>4. Advancing(c, "worker", w)
      BY <2>1, <2>2, <2>3 DEF Advancing
    <2> QED BY <1>7, <1>10, <1>11, <2>4, Advanced
  <1>13. Locking(at, st2)'
    BY <1>1, <1>7, <1>8, <1>10 DEF Locking, Moved
  <1> QED BY <1>6, <1>9, <1>12, <1>13 DEF OwnInv

\* A worker unlocks the container it is done with, which nobody decrypts any more.
LEMMA FinishDecryptionOwn ==
    ASSUME InboundAssumption, OwnInv, NEW w \in Decrypters, FinishDecryption(w)
    PROVE  OwnInv'
  <1>1. decrypting \in [Decrypters -> Containers \cup {None}] /\ rx \in [Receivers -> Rx] /\ decryption \in Seq(Containers)
    BY DEF OwnInv, Shapes
  <1>2. PICK c \in Containers : c = decrypting[w]
    BY <1>1 DEF FinishDecryption
  <1>3. /\ locked' = locked \ {c} /\ decrypting' = [decrypting EXCEPT ![w] = None] /\ c # None
        /\ UNCHANGED <<pool, inbound, decryption, seqrx, life, rx>>
    BY <1>2 DEF FinishDecryption, Unlock, boxes, peer
  <1>4. /\ decrypting' \in [Decrypters -> Containers \cup {None}] /\ decrypting'[w] = None
        /\ \A v \in Decrypters \ {w} : decrypting'[v] = decrypting[v]
    BY <1>1, <1>3
  <1>5. Shapes' /\ (\A q \in Receivers : RxOK(q)') /\ \A z \in Peers : ReceiverOK(z)'
    <2>1. Shapes'
      BY <1>3, <1>4 DEF OwnInv, Shapes
    <2> QED BY <1>3, <2>1 DEF OwnInv, ReceiverOK, RxOK
  <1>6. PICK at, who, of, st, by : Located(at, who, of) /\ Decrypting(st, by) /\ Locking(at, st)
    BY DEF OwnInv
  <1>7. st[c] = "worker" /\ by[c] = w /\ at[c] = "turn"
    BY <1>2, <1>3, <1>6 DEF Decrypting, Locking
  <1>8. Located(at, who, of)'
    BY <1>3, <1>6, StillLocated
  <1>9. PICK st2 : Moved(st, c, "none", st2)
    BY MovedExists
  <1>10. Decrypting(st2, by)'
    <2>1. ASSUME NEW q \in Receivers, rx'[q].to = "decryption"
          PROVE  /\ rx'[q].box \in Containers
                 /\ IF rx'[q].box = c THEN "none" = "push" /\ by[c] = q ELSE rx[q].to = "decryption" /\ rx'[q].box = rx[q].box
      <3>1. rx[q].box \in Containers
        BY <1>3, <2>1 DEF OwnInv, RxOK
      <3> QED BY <1>3, <1>6, <1>7, <2>1, <3>1 DEF Decrypting
    <2>2. \A d \in Range(decryption') : d \in Containers /\ IF d = c THEN "none" = "queue" ELSE d \in Range(decryption)
      <3>1. \A d \in Range(decryption) : d \in Containers
        BY SMTT(30), <1>1 DEF Range
      <3> QED BY <1>3, <1>6, <1>7, <3>1 DEF Decrypting
    <2>3. ASSUME NEW v \in Decrypters, decrypting'[v] # None
          PROVE  /\ decrypting'[v] \in Containers
                 /\ IF decrypting'[v] = c THEN "none" = "worker" /\ by[c] = v ELSE decrypting'[v] = decrypting[v]
      <3>1. v # w /\ decrypting'[v] = decrypting[v] /\ decrypting[v] \in Containers
        BY <1>1, <1>4, <2>3
      <3> QED BY SMTT(30), <1>6, <1>7, <2>3, <3>1 DEF Decrypting
    <2>4. Advancing(c, "none", by[c])
      BY <2>1, <2>2, <2>3 DEF Advancing
    <2>5. Moved(by, c, by[c], by)
      BY DEF Moved
    <2> QED BY <1>6, <1>9, <2>4, <2>5, Advanced
  <1>11. Locking(at, st2)'
    BY <1>3, <1>6, <1>7, <1>9 DEF Locking, Moved
  <1> QED BY <1>5, <1>8, <1>10, <1>11 DEF OwnInv

-----------------------------------------------------------------------------
(* The sequential receiver, Stop and Start *)

\* A step of a peer that keeps what waits for its turn.
LEMMA TurnKept ==
    ASSUME OwnInv, UNCHANGED <<pool, locked, rx, decryption, decrypting>>,
           Shapes', \A z \in Peers : ReceiverOK(z)', \A z \in Peers : Turn(z)' \subseteq Turn(z)
    PROVE  OwnInv'
  <1>1. PICK at, who, of, st, by : Located(at, who, of) /\ Decrypting(st, by) /\ Locking(at, st)
    BY DEF OwnInv
  <1>2. Located(at, who, of)'
    BY SMTT(30), <1>1 DEF Located
  <1>3. Decrypting(st, by)' /\ Locking(at, st)'
    BY <1>1 DEF Decrypting, Locking
  <1>4. \A q \in Receivers : RxOK(q)'
    BY DEF OwnInv, RxOK
  <1> QED BY <1>2, <1>3, <1>4 DEF OwnInv

LEMMA ReceiverTakesOwn ==
    ASSUME InboundAssumption, OwnInv, NEW p \in Peers, ReceiverTakes(p)
    PROVE  OwnInv'
  <1>1. /\ seqrx[p].pc = "recv" /\ inbound[p] # <<>> /\ inbound' = [inbound EXCEPT ![p] = Tail(inbound[p])]
        /\ UNCHANGED <<pool, locked, rx, decryption, decrypting, life>>
    BY DEF ReceiverTakes, boxes, peer
  <1>2. /\ inbound \in [Peers -> Seq(Containers \cup {Nil})] /\ inbound[p] \in Seq(Containers \cup {Nil})
        /\ seqrx \in [Peers -> [pc : {"recv", "process", "off"}, box : Containers \cup {None}]]
        /\ ReceiverOK(p) /\ None \notin Containers /\ Nil \notin Containers /\ None # Nil
    BY BoxDistinct DEF OwnInv, Shapes
  <1>3. PICK c \in Containers \cup {Nil} : c = Head(inbound[p])
    BY SMTT(30), <1>1, <1>2
  <1>4. /\ Tail(inbound[p]) \in Seq(Containers \cup {Nil}) /\ Once(Tail(inbound[p]))
        /\ Range(Tail(inbound[p])) = Range(inbound[p]) \ {c} /\ c \in Range(inbound[p])
    BY <1>1, <1>2, <1>3, TailOnce DEF ReceiverOK
  <1>5. /\ inbound' \in [Peers -> Seq(Containers \cup {Nil})] /\ inbound'[p] = Tail(inbound[p])
        /\ \A z \in Peers \ {p} : inbound'[z] = inbound[z]
    BY <1>1, <1>2, <1>4
  <1> DEFINE y == IF c = Nil THEN [pc |-> "off", box |-> None] ELSE [pc |-> "process", box |-> c]
  <1>6. seqrx' = [seqrx EXCEPT ![p] = y]
    BY <1>3 DEF ReceiverTakes
  <1>7. /\ y \in [pc : {"recv", "process", "off"}, box : Containers \cup {None}]
        /\ c = Nil => y.pc = "off" /\ y.box = None
        /\ c # Nil => y.pc = "process" /\ y.box = c
    OBVIOUS
  <1> HIDE DEF y
  <1>8. /\ seqrx' \in [Peers -> [pc : {"recv", "process", "off"}, box : Containers \cup {None}]] /\ seqrx'[p] = y
        /\ \A z \in Peers \ {p} : seqrx'[z] = seqrx[z]
    BY <1>2, <1>6, <1>7
  <1>9. Shapes'
    BY <1>1, <1>5, <1>8 DEF OwnInv, Shapes
  <1>10. ASSUME NEW z \in Peers PROVE ReceiverOK(z)'
    <2>1. CASE z = p
      <3>1. /\ Range(inbound'[p]) = Range(inbound[p]) \ {c} /\ c \in Range(inbound[p]) /\ Once(inbound'[p])
            /\ life' = life
        BY <1>1, <1>4, <1>5
      <3>2. \A x \in Range(inbound[p]) : x # None
        BY SMTT(30), <1>2 DEF Range
      <3>3. CASE c = Nil
        <4>1. seqrx'[p].pc = "off" /\ seqrx'[p].box = None
          BY <1>7, <1>8, <3>3
        <4> QED BY <1>1, <1>2, <2>1, <3>1, <3>2, <3>3, <4>1 DEF ReceiverOK
      <3>4. CASE c # Nil
        <4>1. seqrx'[p].pc = "process" /\ seqrx'[p].box = c /\ c \in Containers
          BY <1>7, <1>8, <3>4
        <4> QED BY <1>1, <1>2, <2>1, <3>1, <3>2, <3>4, <4>1 DEF ReceiverOK
      <3> QED BY <3>3, <3>4
    <2>2. CASE z # p
      <3>1. inbound'[z] = inbound[z] /\ seqrx'[z] = seqrx[z] /\ life'[z] = life[z] /\ ReceiverOK(z)
        BY <1>1, <1>5, <1>8, <2>2 DEF OwnInv
      <3> QED BY <3>1 DEF ReceiverOK
    <2> QED BY <2>1, <2>2
  <1>11. ASSUME NEW z \in Peers PROVE Turn(z)' \subseteq Turn(z)
    <2>1. CASE z = p
      BY <1>4, <1>5, <1>7, <1>8, <2>1 DEF Turn
    <2>2. CASE z # p
      BY <1>5, <1>8, <2>2 DEF Turn
    <2> QED BY <2>1, <2>2
  <1> QED BY <1>1, <1>9, <1>10, <1>11, TurnKept

\* A container whose turn has come and that is not locked goes back: no worker has it.
LEMMA TurnOver ==
    ASSUME InboundAssumption, OwnInv, NEW p \in Peers, NEW c \in Turn(p), c \notin locked,
           pool' = pool \cup {c}, UNCHANGED <<locked, rx, decryption, decrypting>>,
           Shapes', \A z \in Peers : ReceiverOK(z)',
           \A z \in Peers : Turn(z)' \subseteq Turn(z), c \notin Turn(p)'
    PROVE  OwnInv'
  <1>0. pool \subseteq Containers /\ c \in Containers /\ rx \in [Receivers -> Rx] /\ None \notin Containers
    BY BoxDistinct, TurnType DEF OwnInv, Shapes
  <1>1. PICK at, who, of, st, by : Located(at, who, of) /\ Decrypting(st, by) /\ Locking(at, st)
    BY DEF OwnInv
  <1>2. at[c] = "turn" /\ who[c] = p /\ st[c] = "none"
    BY <1>0, <1>1 DEF Located, Locking
  <1>3. PICK at2 : Moved(at, c, "pool", at2)
    BY <1>0, MovedExists
  <1>4. Located(at2, who, of)'
    <2>1. \A d \in pool' : d \in Containers /\ IF d = c THEN "pool" = "pool" ELSE d \in pool
      BY <1>0
    <2>2. ASSUME NEW q \in Receivers, NEW z \in Peers, rx'[q].boxes[z] # None
          PROVE  /\ rx'[q].boxes[z] \in Containers
                 /\ IF rx'[q].boxes[z] = c THEN "pool" = "batch" /\ who[c] = q /\ of[c] = z
                    ELSE rx'[q].boxes[z] = rx[q].boxes[z]
      <3>1. rx[q].boxes[z] \in Containers
        BY SMTT(30), <1>0, <2>2 DEF Rx
      <3>2. rx[q].boxes[z] # c
        BY <1>1, <1>2, <2>2, ZenonT(30) DEF Located
      <3> QED BY <3>1, <3>2
    <2>3. ASSUME NEW q \in Receivers, rx'[q].to = "inbound"
          PROVE  /\ rx'[q].box \in Containers
                 /\ IF rx'[q].box = c THEN "pool" = "push" /\ who[c] = q ELSE rx[q].to = "inbound" /\ rx'[q].box = rx[q].box
      <3>1. rx[q].box \in Containers
        BY <2>3 DEF OwnInv, RxOK
      <3> QED BY <1>1, <1>2, <2>3, <3>1, ZenonT(30) DEF Located
    <2>4. ASSUME NEW z \in Peers, NEW d \in Turn(z)'
          PROVE  d \in Containers /\ IF d = c THEN "pool" = "turn" /\ who[c] = z ELSE d \in Turn(z)
      <3>1. d \in Turn(z) /\ d \in Containers
        BY TurnType
      <3>2. d # c
        BY SMTT(30), <1>1, <1>2, <3>1 DEF Located
      <3> QED BY <3>1, <3>2
    <2>5. Relocating(c, "pool", who[c], of[c])
      BY <2>1, <2>2, <2>3, <2>4 DEF Relocating
    <2>6. Moved(who, c, who[c], who) /\ Moved(of, c, of[c], of)
      BY DEF Moved
    <2> QED BY <1>0, <1>1, <1>3, <2>5, <2>6, Relocated
  <1>5. Decrypting(st, by)'
    BY <1>1 DEF Decrypting
  <1>6. Locking(at2, st)'
    BY <1>1, <1>2, <1>3 DEF Locking, Moved
  <1>7. \A q \in Receivers : RxOK(q)'
    BY DEF OwnInv, RxOK
  <1> QED BY <1>4, <1>5, <1>6, <1>7 DEF OwnInv

LEMMA ReceiverProcessesOwn ==
    ASSUME InboundAssumption, OwnInv, NEW p \in Peers, ReceiverProcesses(p)
    PROVE  OwnInv'
  <1> DEFINE R == [pc : {"recv", "process", "off"}, box : Containers \cup {None}]
             y == [pc |-> "recv", box |-> None]
  <1>1. seqrx \in [Peers -> R] /\ ReceiverOK(p) /\ pool \subseteq Containers /\ None \notin Containers
    BY BoxDistinct DEF OwnInv, Shapes
  <1>2. seqrx[p].pc = "process" /\ seqrx[p].box # None /\ seqrx[p].box \in Containers
    <2>1. seqrx[p].pc = "process"
      BY DEF ReceiverProcesses
    <2> QED BY <1>1, <2>1 DEF ReceiverOK
  <1>3. PICK c \in Containers : c = seqrx[p].box
    BY <1>2
  <1>4. /\ c \notin locked /\ pool' = pool \cup {c} /\ seqrx' = [seqrx EXCEPT ![p] = y]
        /\ UNCHANGED <<locked, rx, inbound, decryption, decrypting, life>>
    BY <1>3 DEF ReceiverProcesses, PutContainer, peer
  <1>5. y \in R /\ y.pc = "recv" /\ y.box = None
    OBVIOUS
  <1> HIDE DEF y, R
  <1>6. seqrx' \in [Peers -> R] /\ seqrx'[p] = y /\ \A z \in Peers \ {p} : seqrx'[z] = seqrx[z]
    BY <1>1, <1>4, <1>5
  <1>7. Shapes'
    BY <1>1, <1>4, <1>6 DEF OwnInv, Shapes, R
  <1>8. ASSUME NEW z \in Peers PROVE ReceiverOK(z)'
    <2>1. CASE z = p
      <3>1. \A x \in Range(inbound[p]) : x # None
        BY SMTT(30), BoxDistinct DEF Range, OwnInv, Shapes
      <3> QED BY <1>1, <1>2, <1>4, <1>5, <1>6, <2>1, <3>1 DEF ReceiverOK
    <2>2. CASE z # p
      <3>1. inbound'[z] = inbound[z] /\ seqrx'[z] = seqrx[z] /\ life'[z] = life[z] /\ ReceiverOK(z)
        BY <1>4, <1>6, <2>2 DEF OwnInv
      <3> QED BY <3>1 DEF ReceiverOK
    <2> QED BY <2>1, <2>2
  <1>9. ASSUME NEW z \in Peers PROVE Turn(z)' \subseteq Turn(z)
    BY <1>4, <1>5, <1>6 DEF Turn
  <1>10. c \in Turn(p) /\ c \notin Turn(p)'
    <2>1. c # None /\ c # Nil /\ c \notin Range(inbound[p])
      BY <1>1, <1>3, BoxDistinct DEF ReceiverOK
    <2> QED BY <1>3, <1>4, <1>5, <1>6, <2>1 DEF Turn
  <1> QED BY <1>4, <1>7, <1>8, <1>9, <1>10, TurnOver

\* The receiver is gone, and its sentinel with it: what is left in the queue is a container.
LEMMA StartFlushOwn ==
    ASSUME InboundAssumption, OwnInv, NEW p \in Peers, StartFlush(p)
    PROVE  OwnInv'
  <1>1. /\ inbound \in [Peers -> Seq(Containers \cup {Nil})] /\ inbound[p] \in Seq(Containers \cup {Nil})
        /\ ReceiverOK(p) /\ pool \subseteq Containers
    BY DEF OwnInv, Shapes
  <1>2. life[p] = "stopped" /\ inbound[p] # <<>>
    BY DEF StartFlush
  <1>3. Nil \notin Range(inbound[p]) /\ seqrx[p].pc = "off" /\ seqrx[p].box = None
    BY <1>1, <1>2 DEF ReceiverOK
  <1>4. Head(inbound[p]) \in Range(inbound[p]) /\ Head(inbound[p]) \in Containers \cup {Nil}
    BY <1>1, <1>2, TailOnce DEF ReceiverOK
  <1>5. PICK c \in Containers : c = Head(inbound[p])
    BY <1>3, <1>4
  <1>6. /\ c \notin locked /\ pool' = pool \cup {c} /\ inbound' = [inbound EXCEPT ![p] = Tail(inbound[p])]
        /\ UNCHANGED <<locked, rx, decryption, decrypting, seqrx, life>>
    BY <1>5 DEF StartFlush, Flushable, PutContainer, peer
  <1>7. /\ Tail(inbound[p]) \in Seq(Containers \cup {Nil}) /\ Once(Tail(inbound[p]))
        /\ Range(Tail(inbound[p])) = Range(inbound[p]) \ {c}
    BY <1>1, <1>2, <1>5, TailOnce DEF ReceiverOK
  <1>8. /\ inbound' \in [Peers -> Seq(Containers \cup {Nil})] /\ inbound'[p] = Tail(inbound[p])
        /\ \A z \in Peers \ {p} : inbound'[z] = inbound[z]
    BY <1>1, <1>6, <1>7
  <1>9. Shapes'
    BY <1>6, <1>8 DEF OwnInv, Shapes
  <1>10. ASSUME NEW z \in Peers PROVE ReceiverOK(z)'
    <2>1. CASE z = p
      <3>1. Range(inbound'[p]) \subseteq Range(inbound[p]) /\ Once(inbound'[p])
        BY <1>7, <1>8
      <3> QED BY <1>1, <1>2, <1>3, <1>6, <2>1, <3>1 DEF ReceiverOK
    <2>2. CASE z # p
      <3>1. inbound'[z] = inbound[z] /\ seqrx'[z] = seqrx[z] /\ life'[z] = life[z] /\ ReceiverOK(z)
        BY <1>6, <1>8, <2>2 DEF OwnInv
      <3> QED BY <3>1 DEF ReceiverOK
    <2> QED BY <2>1, <2>2
  <1>11. ASSUME NEW z \in Peers PROVE Turn(z)' \subseteq Turn(z)
    BY <1>6, <1>7, <1>8 DEF Turn
  <1>12. c \in Turn(p) /\ c \notin Turn(p)'
    BY <1>3, <1>4, <1>5, <1>6, <1>7, <1>8, BoxDistinct DEF Turn
  <1> QED BY <1>6, <1>9, <1>10, <1>11, <1>12, TurnOver

\* Stop, the sentinel, the wait for the receiver, and the receiver of the next start.
LEMMA LifeOwn ==
    ASSUME InboundAssumption, OwnInv, NEW p \in Peers, Stop(p) \/ StopSignal(p) \/ StopWait(p) \/ StartRoutine(p)
    PROVE  OwnInv'
  <1> DEFINE R == [pc : {"recv", "process", "off"}, box : Containers \cup {None}]
             L == {"started", "stopping", "waiting", "stopped"}
  <1>1. /\ inbound \in [Peers -> Seq(Containers \cup {Nil})] /\ inbound[p] \in Seq(Containers \cup {Nil})
        /\ seqrx \in [Peers -> R] /\ seqrx[p] \in R /\ life \in [Peers -> L]
        /\ ReceiverOK(p)
    BY DEF OwnInv, Shapes
  <1>2. UNCHANGED <<pool, locked, rx, decryption, decrypting>>
    BY DEF Stop, StopSignal, StopWait, StartRoutine, boxes
  <1>3. /\ Shapes' /\ ReceiverOK(p)' /\ Turn(p)' \subseteq Turn(p)
        /\ \A z \in Peers \ {p} : inbound'[z] = inbound[z] /\ seqrx'[z] = seqrx[z] /\ life'[z] = life[z]
    <2>1. CASE Stop(p)
      <3>1. /\ life[p] = "started" /\ life' = [life EXCEPT ![p] = "stopping"] /\ UNCHANGED <<inbound, seqrx>>
        BY <2>1 DEF Stop
      <3>2. life' \in [Peers -> L] /\ life'[p] = "stopping" /\ \A z \in Peers \ {p} : life'[z] = life[z]
        BY <1>1, <3>1
      <3>3. Shapes'
        BY <1>2, <3>1, <3>2 DEF OwnInv, Shapes
      <3>4. ReceiverOK(p)'
        BY <1>1, <3>1, <3>2 DEF ReceiverOK
      <3>5. Turn(p)' \subseteq Turn(p)
        BY <3>1 DEF Turn
      <3> QED BY <3>1, <3>2, <3>3, <3>4, <3>5
    <2>2. CASE StopSignal(p)
      <3>1. /\ life[p] = "stopping" /\ life' = [life EXCEPT ![p] = "waiting"] /\ seqrx' = seqrx
            /\ inbound' = [inbound EXCEPT ![p] = Append(inbound[p], Nil)]
        BY <2>2 DEF StopSignal
      <3>2. life' \in [Peers -> L] /\ life'[p] = "waiting" /\ \A z \in Peers \ {p} : life'[z] = life[z]
        BY <1>1, <3>1
      <3>3. Nil \notin Range(inbound[p]) /\ seqrx[p].pc # "off"
        BY <1>1, <3>1 DEF ReceiverOK
      <3>4. /\ Append(inbound[p], Nil) \in Seq(Containers \cup {Nil}) /\ Once(Append(inbound[p], Nil))
            /\ Range(Append(inbound[p], Nil)) = Range(inbound[p]) \cup {Nil}
        BY SMTT(30), <1>1, <3>3, AppendOnce DEF ReceiverOK
      <3>5. /\ inbound' \in [Peers -> Seq(Containers \cup {Nil})] /\ inbound'[p] = Append(inbound[p], Nil)
            /\ \A z \in Peers \ {p} : inbound'[z] = inbound[z]
        BY <1>1, <3>1, <3>4
      <3>6. Shapes'
        BY <1>2, <3>1, <3>2, <3>5 DEF OwnInv, Shapes
      <3>7. seqrx[p].box # Nil
        BY <1>1, BoxDistinct
      <3>8. ReceiverOK(p)'
        <4>1. Range(inbound'[p]) = Range(inbound[p]) \cup {Nil} /\ Once(inbound'[p])
          BY <3>4, <3>5
        <4> QED BY <1>1, <3>1, <3>2, <3>3, <3>7, <4>1 DEF ReceiverOK
      <3>9. Turn(p)' \subseteq Turn(p)
        BY <3>1, <3>4, <3>5 DEF Turn
      <3> QED BY <3>1, <3>2, <3>5, <3>6, <3>8, <3>9
    <2>3. CASE StopWait(p)
      <3>1. /\ life[p] = "waiting" /\ seqrx[p].pc = "off" /\ life' = [life EXCEPT ![p] = "stopped"]
            /\ UNCHANGED <<inbound, seqrx>>
        BY <2>3 DEF StopWait
      <3>2. life' \in [Peers -> L] /\ life'[p] = "stopped" /\ \A z \in Peers \ {p} : life'[z] = life[z]
        BY <1>1, <3>1
      <3>3. Shapes'
        BY <1>2, <3>1, <3>2 DEF OwnInv, Shapes
      <3>4. ReceiverOK(p)'
        BY <1>1, <3>1, <3>2 DEF ReceiverOK
      <3>5. Turn(p)' \subseteq Turn(p)
        BY <3>1 DEF Turn
      <3> QED BY <3>1, <3>2, <3>3, <3>4, <3>5
    <2>4. CASE StartRoutine(p)
      <3> DEFINE y == [seqrx[p] EXCEPT !.pc = "recv"]
      <3>1. /\ life[p] = "stopped" /\ inbound[p] = <<>> /\ life' = [life EXCEPT ![p] = "started"]
            /\ inbound' = inbound /\ seqrx' = [seqrx EXCEPT ![p] = y]
        BY <2>4 DEF StartRoutine
      <3>2. life' \in [Peers -> L] /\ life'[p] = "started" /\ \A z \in Peers \ {p} : life'[z] = life[z]
        BY <1>1, <3>1
      <3>3. y \in R
        BY <1>1
      <3>4. y.pc = "recv" /\ y.box = seqrx[p].box
        BY <1>1
      <3> HIDE DEF y
      <3>5. seqrx' \in [Peers -> R] /\ seqrx'[p] = y /\ \A z \in Peers \ {p} : seqrx'[z] = seqrx[z]
        BY <1>1, <3>1, <3>3
      <3>6. Shapes'
        BY <1>2, <3>1, <3>2, <3>5 DEF OwnInv, Shapes
      <3>7. seqrx[p].pc = "off" /\ Range(inbound[p]) = {}
        BY <1>1, <3>1, RangeEmpty DEF ReceiverOK
      <3>8. ReceiverOK(p)'
        BY <1>1, <3>1, <3>2, <3>4, <3>5, <3>7 DEF ReceiverOK
      <3>9. Turn(p)' \subseteq Turn(p)
        BY <3>1, <3>4, <3>5 DEF Turn
      <3> QED BY <3>1, <3>2, <3>5, <3>6, <3>8, <3>9
    <2> QED BY <2>1, <2>2, <2>3, <2>4
  <1>4. ASSUME NEW z \in Peers PROVE ReceiverOK(z)' /\ Turn(z)' \subseteq Turn(z)
    <2>1. CASE z = p
      BY <1>3, <2>1
    <2>2. CASE z # p
      <3>1. inbound'[z] = inbound[z] /\ seqrx'[z] = seqrx[z] /\ life'[z] = life[z] /\ ReceiverOK(z)
        BY <1>3, <2>2 DEF OwnInv
      <3> QED BY <3>1 DEF ReceiverOK, Turn
    <2> QED BY <2>1, <2>2
  <1> QED BY <1>2, <1>3, <1>4, TurnKept

LEMMA NextOwn == ASSUME InboundAssumption, OwnInv, [Next]_vars PROVE OwnInv'
  <1>1. CASE UNCHANGED vars
    <2>1. UNCHANGED <<pool, locked, inbound, decryption, decrypting, seqrx, life, rx>>
      BY <1>1 DEF vars, boxes, peer
    <2>2. rx' \in [Receivers -> Rx] /\ \A q \in Receivers : RxOK(q)'
      BY <2>1 DEF OwnInv, Shapes, RxOK
    <2> QED BY <2>1, <2>2, QuietOwn
  <1>2. ASSUME NEW r \in Receivers, Receive(r) \/ ReceiveIncoming(r) PROVE OwnInv'
    <2>1. CASE Receive(r)
      BY <2>1, ReceiveOwn
    <2>2. ASSUME NEW p \in Peers, SortTransport(r, p) \/ HandOver(r, p) PROVE OwnInv'
      BY <2>2, SortTransportOwn, HandOverOwn
    <2>3. CASE SortHandshake(r) \/ SortIgnored(r)
      BY <2>3, SortOtherOwn
    <2>4. CASE PushInbound(r) \/ PushDecryption(r)
      BY <2>4, PushInboundOwn, PushDecryptionOwn
    <2> QED BY <1>2, <2>1, <2>2, <2>3, <2>4 DEF ReceiveIncoming
  <1>3. CASE RoutineHandshake
    BY <1>3, RoutineHandshakeOwn
  <1>4. ASSUME NEW w \in Decrypters, Decrypt(w) PROVE OwnInv'
    BY <1>4, StartDecryptionOwn, FinishDecryptionOwn DEF Decrypt
  <1>5. ASSUME NEW p \in Peers, SequentialReceiver(p) \/ Stop(p) \/ Lifecycle(p) PROVE OwnInv'
    <2>1. CASE SequentialReceiver(p)
      BY <2>1, ReceiverTakesOwn, ReceiverProcessesOwn DEF SequentialReceiver
    <2>2. CASE StartFlush(p)
      BY <2>2, StartFlushOwn
    <2>3. CASE Stop(p) \/ StopSignal(p) \/ StopWait(p) \/ StartRoutine(p)
      BY <2>3, LifeOwn
    <2> QED BY <1>5, <2>1, <2>2, <2>3 DEF Lifecycle
  <1> QED BY <1>1, <1>2, <1>3, <1>4, <1>5 DEF Next

-----------------------------------------------------------------------------
(* Where a message buffer is *)

IsElem(e) == \E b \in Buffers : \E k, x, f : e = [buffer |-> b, key |-> k, packet |-> x, from |-> f]

IsElems(s) == (\E S : s \in Seq(S)) /\ \A i \in DOMAIN s : IsElem(s[i])

BufferShapes ==
    /\ freeBufs \subseteq Buffers
    /\ slots \in [Receivers -> [Slots -> Buffers]]
    /\ handshake \in Seq(Buffers) /\ Once(handshake)
    /\ elems = [c \in Containers |-> elems[c]]
    /\ \A c \in Containers : IsElems(elems[c])

\* in[b] is where a buffer is: free, in slot nr[b] of routine who[b], in element nr[b] of
\* container who[b], or in the handshake queue.
Placed(in, who, nr) ==
    /\ \A b \in freeBufs : in[b] = "free"
    /\ \A r \in Receivers, i \in Slots :
         in[slots[r][i]] = "slot" /\ who[slots[r][i]] = r /\ nr[slots[r][i]] = i
    /\ \A c \in Containers : \A i \in DOMAIN elems[c] :
         in[elems[c][i].buffer] = "elem" /\ who[elems[c][i].buffer] = c /\ nr[elems[c][i].buffer] = i
    /\ \A b \in Range(handshake) : in[b] = "handshake"

BufferInv == BufferShapes /\ \E in, who, nr : Placed(in, who, nr)

LEMMA ElemBuffer ==
    ASSUME NEW e, IsElem(e)
    PROVE  e.buffer \in Buffers
  BY SMTT(30) DEF IsElem

LEMMA NoElems == IsElems(<<>>) /\ DOMAIN <<>> = {}
  <1>1. <<>> \in Seq({}) /\ DOMAIN <<>> = {}
    BY SMTT(30)
  <1> QED BY <1>1 DEF IsElems

LEMMA InitBuffers == InboundAssumption /\ Init => BufferInv
  <1> SUFFICES ASSUME InboundAssumption, Init PROVE BufferInv
    OBVIOUS
  <1> DEFINE f == CHOOSE g \in [Receivers \X Slots -> Buffers] : IsInjective(g)
  <1>1. f \in [Receivers \X Slots -> Buffers] /\ IsInjective(f)
    BY DEF InboundAssumption, Slots
  <1>2. /\ slots = [r \in Receivers |-> [i \in Slots |-> f[<<r, i>>]]]
        /\ freeBufs = Buffers \ Range(f)
        /\ elems = [c \in Containers |-> <<>>] /\ handshake = <<>>
    BY DEF Init
  <1> HIDE DEF f
  <1>3. BufferShapes
    <2>1. handshake \in Seq(Buffers) /\ Once(handshake)
      BY SMTT(30), <1>2, RangeEmpty
    <2>2. slots \in [Receivers -> [Slots -> Buffers]]
      BY <1>1, <1>2
    <2>3. \A c \in Containers : IsElems(elems[c])
      BY <1>2, NoElems
    <2> QED BY <1>2, <2>1, <2>2, <2>3 DEF BufferShapes
  <1> DEFINE in == [b \in Buffers |-> IF b \in Range(f) THEN "slot" ELSE "free"]
             at(b) == CHOOSE x \in Receivers \X Slots : f[x] = b
             who == [b \in Buffers |-> at(b)[1]]
             nr == [b \in Buffers |-> at(b)[2]]
  <1>4. \A b \in freeBufs : in[b] = "free"
    BY <1>2
  <1>5. ASSUME NEW r \in Receivers, NEW i \in Slots
        PROVE  in[slots[r][i]] = "slot" /\ who[slots[r][i]] = r /\ nr[slots[r][i]] = i
    <2>1. slots[r][i] = f[<<r, i>>] /\ <<r, i>> \in Receivers \X Slots /\ f[<<r, i>>] \in Buffers /\ f[<<r, i>>] \in Range(f)
      BY <1>1, <1>2 DEF Range
    <2>2. at(f[<<r, i>>]) = <<r, i>>
      BY <1>1, <2>1 DEF IsInjective
    <2>3. in[slots[r][i]] = "slot"
      BY <2>1
    <2>4. who[slots[r][i]] = <<r, i>>[1] /\ nr[slots[r][i]] = <<r, i>>[2]
      BY <2>1, <2>2
    <2> QED BY <2>3, <2>4
  <1>6. \A c \in Containers : DOMAIN elems[c] = {}
    BY <1>2, NoElems
  <1>7. Range(handshake) = {}
    BY <1>2, RangeEmpty
  <1> HIDE DEF in, who, nr
  <1>8. Placed(in, who, nr)
    BY <1>4, <1>5, <1>6, <1>7 DEF Placed
  <1> QED BY <1>3, <1>8 DEF BufferInv

LEMMA QuietBuffers == ASSUME BufferInv, UNCHANGED <<freeBufs, slots, handshake, elems>> PROVE BufferInv'
  <1>1. BufferShapes'
    BY DEF BufferInv, BufferShapes
  <1>2. PICK in, who, nr : Placed(in, who, nr)
    BY DEF BufferInv
  <1>3. Placed(in, who, nr)'
    BY SMTT(30), <1>2 DEF Placed
  <1> QED BY <1>1, <1>3 DEF BufferInv

\* A routine that sorts is at one of its slots.
LEMMA AtSlot ==
    ASSUME InboundAssumption, OwnInv, NEW r \in Receivers, rx[r].i > 0
    PROVE  rx[r].i \in Slots
  <1>1. rx[r].i \in Nat /\ RxOK(r)
    BY DEF OwnInv, Shapes, Rx
  <1>2. rx[r].batch \in 1 .. Len(Batches[r]) /\ rx[r].i \in 1 .. Len(Batches[r][rx[r].batch])
    BY SMTT(30), <1>1 DEF RxOK, InboundAssumption
  <1>3. Len(Batches[r][rx[r].batch]) \in 1 .. BatchSize /\ BatchSize \in Nat
    BY <1>2, BatchLength
  <1> QED BY SMTT(30), <1>2, <1>3 DEF Slots

\* A container and the buffers of its elements go back.
LEMMA PutBuffers ==
    ASSUME BufferInv, NEW c \in Containers, PutContainer(c), UNCHANGED <<slots, handshake>>
    PROVE  BufferInv'
  <1>0. BufferShapes /\ elems = [d \in Containers |-> elems[d]]
    BY DEF BufferInv, BufferShapes
  <1>1. /\ elems' = [elems EXCEPT ![c] = <<>>] /\ freeBufs' = freeBufs \cup BuffersOf(c)
    BY DEF PutContainer
  <1>2. elems'[c] = <<>> /\ \A d \in Containers \ {c} : elems'[d] = elems[d]
    BY <1>0, <1>1
  <1>3. \A b \in BuffersOf(c) : \E i \in DOMAIN elems[c] : b = elems[c][i].buffer
    BY DEF BuffersOf
  <1>4. BuffersOf(c) \subseteq Buffers
    BY <1>0, <1>3, ElemBuffer DEF BufferShapes, IsElems
  <1>5. BufferShapes'
    <2>1. elems' = [d \in Containers |-> elems'[d]]
      BY <1>0, <1>1
    <2>2. \A d \in Containers : IsElems(elems'[d])
      BY <1>0, <1>2, NoElems DEF BufferShapes
    <2> QED BY <1>0, <1>1, <1>4, <2>1, <2>2 DEF BufferShapes
  <1>6. PICK in, who, nr : Placed(in, who, nr)
    BY DEF BufferInv
  <1>7. PICK in2 : \A b \in Buffers : in2[b] = IF b \in BuffersOf(c) THEN "free" ELSE in[b]
    <2> WITNESS [b \in Buffers |-> IF b \in BuffersOf(c) THEN "free" ELSE in[b]]
    <2> QED OBVIOUS
  <1>8. \A b \in BuffersOf(c) : in[b] = "elem" /\ who[b] = c
    BY SMTT(30), <1>3, <1>6 DEF Placed
  <1>9. \A b \in freeBufs' : in2[b] = "free"
    BY SMTT(30), <1>0, <1>1, <1>4, <1>6, <1>7 DEF Placed, BufferShapes
  <1>10. ASSUME NEW b \in Buffers, in[b] # "elem" \/ who[b] # c PROVE in2[b] = in[b]
    BY <1>7, <1>8, <1>10
  <1>11. ASSUME NEW r \in Receivers, NEW i \in Slots
         PROVE  in2[slots'[r][i]] = "slot" /\ who[slots'[r][i]] = r /\ nr[slots'[r][i]] = i
    <2>1. slots'[r][i] = slots[r][i] /\ slots[r][i] \in Buffers
      BY <1>0 DEF BufferShapes
    <2>2. in[slots[r][i]] = "slot" /\ who[slots[r][i]] = r /\ nr[slots[r][i]] = i
      BY SMTT(30), <1>6 DEF Placed
    <2> QED BY <1>10, <2>1, <2>2
  <1>12. ASSUME NEW d \in Containers, NEW i \in DOMAIN elems'[d]
         PROVE  in2[elems'[d][i].buffer] = "elem" /\ who[elems'[d][i].buffer] = d /\ nr[elems'[d][i].buffer] = i
    <2>1. d # c
      BY <1>2, NoElems
    <2>2. elems'[d] = elems[d] /\ i \in DOMAIN elems[d]
      BY <1>2, <2>1
    <2>3. elems[d][i].buffer \in Buffers
      BY <1>0, <2>2, ElemBuffer DEF BufferShapes, IsElems
    <2>4. in[elems[d][i].buffer] = "elem" /\ who[elems[d][i].buffer] = d /\ nr[elems[d][i].buffer] = i
      BY <1>6, <2>2 DEF Placed
    <2> QED BY <1>10, <2>1, <2>2, <2>3, <2>4
  <1>13. ASSUME NEW b \in Range(handshake') PROVE in2[b] = "handshake"
    <2>1. b \in Range(handshake) /\ b \in Buffers
      BY SMTT(30), <1>0 DEF BufferShapes, Range
    <2>2. in[b] = "handshake"
      BY <1>6, <2>1 DEF Placed
    <2> QED BY <1>10, <2>1, <2>2
  <1>14. Placed(in2, who, nr)'
    BY <1>9, <1>11, <1>12, <1>13 DEF Placed
  <1> QED BY <1>5, <1>14 DEF BufferInv

\* A slot hands its buffer on and gets another.
Handed(f, b, x, g, y, h) == h[b] = x /\ h[g] = y /\ \A d \in Buffers \ {b, g} : h[d] = f[d]

LEMMA HandedExists ==
    ASSUME NEW f, NEW b \in Buffers, NEW x, NEW g \in Buffers, NEW y, b # g
    PROVE  \E h : Handed(f, b, x, g, y, h)
  <1> DEFINE h == [d \in Buffers |-> IF d = b THEN x ELSE IF d = g THEN y ELSE f[d]]
  <1>1. Handed(f, b, x, g, y, h)
    BY DEF Handed
  <1> QED BY <1>1

\* Slot i of a routine hands buffer b on, and gets g from the pool.
HandsOn(r, i, b, g) ==
    /\ b = slots[r][i] /\ b \in Buffers /\ g \in freeBufs /\ g \in Buffers
    /\ freeBufs' = freeBufs \ {g}
    /\ slots' \in [Receivers -> [Slots -> Buffers]]
    /\ slots'[r][i] = g
    /\ \A q \in Receivers, j \in Slots : ~(q = r /\ j = i) => slots'[q][j] = slots[q][j]

LEMMA NewBuffer ==
    ASSUME BufferInv, NEW r \in Receivers, NEW i \in Slots, i = rx[r].i, NewSlotBuffer(r)
    PROVE  \E b \in Buffers, g \in Buffers : HandsOn(r, i, b, g)
  <1>1. freeBufs # {} /\ slots' = [slots EXCEPT ![r][i] = GetBuffer] /\ freeBufs' = freeBufs \ {GetBuffer}
    BY DEF NewSlotBuffer
  <1>2. PICK g \in freeBufs : g = GetBuffer
    BY <1>1 DEF GetBuffer
  <1>3. slots \in [Receivers -> [Slots -> Buffers]] /\ g \in Buffers /\ slots[r][i] \in Buffers
    BY DEF BufferInv, BufferShapes
  <1>4. slots' = [slots EXCEPT ![r] = [slots[r] EXCEPT ![i] = g]]
    BY <1>1, <1>2
  <1>5. [slots[r] EXCEPT ![i] = g] \in [Slots -> Buffers]
    BY <1>3
  <1>6. slots' \in [Receivers -> [Slots -> Buffers]]
    BY <1>3, <1>4, <1>5
  <1>7. slots'[r][i] = g
    BY <1>3, <1>4
  <1>8. \A q \in Receivers, j \in Slots : ~(q = r /\ j = i) => slots'[q][j] = slots[q][j]
    BY <1>3, <1>4
  <1>9. HandsOn(r, i, slots[r][i], g)
    BY <1>1, <1>2, <1>3, <1>6, <1>7, <1>8 DEF HandsOn
  <1> QED BY <1>3, <1>9

\* b goes to place x, g to the slot, and all others stay.
Rehomed(in, who, nr, r, i, b, g, x, h, n, in2, who2, nr2) ==
    /\ Handed(in, b, x, g, "slot", in2) /\ Handed(who, b, h, g, r, who2) /\ Handed(nr, b, n, g, i, nr2)
    /\ \A d \in freeBufs' : in2[d] = "free"
    /\ \A q \in Receivers, j \in Slots :
         in2[slots'[q][j]] = "slot" /\ who2[slots'[q][j]] = q /\ nr2[slots'[q][j]] = j
    /\ \A d \in Buffers : in[d] \notin {"slot", "free"} => in2[d] = in[d] /\ who2[d] = who[d] /\ nr2[d] = nr[d]

LEMMA SlotHandsOn ==
    ASSUME BufferShapes, NEW in, NEW who, NEW nr, Placed(in, who, nr), NEW r \in Receivers, NEW i \in Slots,
           NEW b, NEW g, HandsOn(r, i, b, g), NEW x, NEW h, NEW n
    PROVE  \E in2, who2, nr2 : Rehomed(in, who, nr, r, i, b, g, x, h, n, in2, who2, nr2)
  <1>1. b \in Buffers /\ g \in Buffers /\ in[b] = "slot" /\ who[b] = r /\ nr[b] = i /\ in[g] = "free"
    <2>1. b \in Buffers /\ g \in Buffers /\ b = slots[r][i] /\ g \in freeBufs
      BY DEF HandsOn
    <2> QED BY SMTT(30), <2>1 DEF Placed
  <1>a. b # g
    BY <1>1
  <1>b. PICK in2 : Handed(in, b, x, g, "slot", in2)
    BY <1>1, <1>a, HandedExists
  <1>c. PICK who2 : Handed(who, b, h, g, r, who2)
    BY <1>1, <1>a, HandedExists
  <1>d. PICK nr2 : Handed(nr, b, n, g, i, nr2)
    BY <1>1, <1>a, HandedExists
  <1>2. \A d \in Buffers : d # b /\ d # g => in2[d] = in[d] /\ who2[d] = who[d] /\ nr2[d] = nr[d]
    BY <1>b, <1>c, <1>d DEF Handed
  <1>3. in2[g] = "slot" /\ who2[g] = r /\ nr2[g] = i
    BY <1>b, <1>c, <1>d DEF Handed
  <1>4. ASSUME NEW d \in freeBufs' PROVE in2[d] = "free"
    <2>1. d \in freeBufs /\ d # g /\ d \in Buffers
      BY DEF BufferShapes, HandsOn
    <2>2. in[d] = "free"
      BY <2>1 DEF Placed
    <2> QED BY <1>1, <1>2, <2>1, <2>2
  <1>5. ASSUME NEW q \in Receivers, NEW j \in Slots
        PROVE  in2[slots'[q][j]] = "slot" /\ who2[slots'[q][j]] = q /\ nr2[slots'[q][j]] = j
    <2>1. CASE q = r /\ j = i
      BY <1>3, <2>1 DEF HandsOn
    <2>2. CASE ~(q = r /\ j = i)
      <3>1. slots'[q][j] = slots[q][j] /\ slots[q][j] \in Buffers
        BY <2>2 DEF BufferShapes, HandsOn
      <3>2. in[slots[q][j]] = "slot" /\ who[slots[q][j]] = q /\ nr[slots[q][j]] = j
        BY SMTT(30) DEF Placed
      <3>3. slots[q][j] # b /\ slots[q][j] # g
        BY <1>1, <2>2, <3>2
      <3> QED BY <1>2, <3>1, <3>2, <3>3
    <2> QED BY <2>1, <2>2
  <1>6. ASSUME NEW d \in Buffers, in[d] \notin {"slot", "free"}
        PROVE  in2[d] = in[d] /\ who2[d] = who[d] /\ nr2[d] = nr[d]
    BY <1>1, <1>2, <1>6
  <1>7. Rehomed(in, who, nr, r, i, b, g, x, h, n, in2, who2, nr2)
    BY <1>b, <1>c, <1>d, <1>4, <1>5, <1>6 DEF Rehomed
  <1> QED BY <1>7

AddsElem(s, b, t) == \E k, f : t = Append(s, [buffer |-> b, key |-> k, packet |-> None, from |-> f])

\* s becomes t by an element with buffer b at n.
LongerBy(s, t, b, n) ==
    /\ IsElems(t) /\ DOMAIN t = DOMAIN s \cup {n} /\ n \notin DOMAIN s /\ t[n].buffer = b
    /\ \A i \in DOMAIN s : t[i] = s[i]

LEMMA AppendElem ==
    ASSUME NEW s, IsElems(s), NEW b \in Buffers, NEW t, AddsElem(s, b, t)
    PROVE  LongerBy(s, t, b, Len(s) + 1)
  <1>0. PICK k, f : t = Append(s, [buffer |-> b, key |-> k, packet |-> None, from |-> f])
    BY DEF AddsElem
  <1> DEFINE e == [buffer |-> b, key |-> k, packet |-> None, from |-> f]
  <1>1. IsElem(e) /\ e.buffer = b
    <2>1. IsElem(e)
      BY DEF IsElem
    <2> QED BY <2>1
  <1> HIDE DEF e
  <1>2. t = Append(s, e)
    BY <1>0 DEF e
  <1>3. PICK S : s \in Seq(S)
    BY DEF IsElems
  <1>4. /\ Len(s) \in Nat /\ DOMAIN s = 1 .. Len(s) /\ t \in Seq(S \cup {e})
        /\ DOMAIN t = 1 .. Len(s) + 1 /\ t[Len(s) + 1] = e
        /\ \A i \in 1 .. Len(s) : t[i] = s[i]
    BY SMTT(30), <1>2, <1>3
  <1>5. /\ DOMAIN t = DOMAIN s \cup {Len(s) + 1} /\ Len(s) + 1 \notin DOMAIN s
    BY SMTT(30), <1>4
  <1>6. \A i \in DOMAIN t : IsElem(t[i])
    BY <1>1, <1>4, <1>5 DEF IsElems
  <1>7. IsElems(t)
    BY <1>4, <1>6 DEF IsElems
  <1> QED BY <1>1, <1>4, <1>5, <1>7 DEF LongerBy

LEMMA SortTransportBuffers ==
    ASSUME InboundAssumption, OwnInv, BufferInv, NEW r \in Receivers, NEW p \in Peers, SortTransport(r, p)
    PROVE  BufferInv'
  <1>0. BufferShapes
    BY DEF BufferInv
  <1>1. rx[r].i > 0 /\ NewSlotBuffer(r) /\ handshake' = handshake
    BY DEF SortTransport
  <1>2. PICK i \in Slots : i = rx[r].i
    BY <1>1, AtSlot
  <1>3. PICK b \in Buffers, g \in Buffers : HandsOn(r, i, b, g)
    BY <1>1, <1>2, NewBuffer
  <1>a. b = slots[r][i] /\ freeBufs' \subseteq freeBufs /\ slots' \in [Receivers -> [Slots -> Buffers]]
    BY <1>3 DEF HandsOn
  <1>b. PICK c \in Containers : \E k, f :
          elems' = [elems EXCEPT ![c] = Append(elems[c], [buffer |-> b, key |-> k, packet |-> None, from |-> f])]
    <2>1. pool \subseteq Containers /\ rx[r].boxes[p] \in Containers \cup {None}
      BY SMTT(30) DEF OwnInv, Shapes, Rx
    <2>2. rx[r].boxes[p] = None => GetContainer \in pool
      BY GetFromPool DEF SortTransport
    <2>3. PICK c \in Containers : c = IF rx[r].boxes[p] = None THEN GetContainer ELSE rx[r].boxes[p]
      BY <2>1, <2>2
    <2> QED BY <1>2, <1>a, <2>3 DEF SortTransport
  <1>4. PICK k, f :
          elems' = [elems EXCEPT ![c] = Append(elems[c], [buffer |-> b, key |-> k, packet |-> None, from |-> f])]
    BY <1>b
  <1>5. PICK in, who, nr : Placed(in, who, nr)
    BY DEF BufferInv
  <1>6. PICK n : n = Len(elems[c]) + 1
    OBVIOUS
  <1>7. PICK in2, who2, nr2 : Rehomed(in, who, nr, r, i, b, g, "elem", c, n, in2, who2, nr2)
    BY <1>0, <1>3, <1>5, SlotHandsOn
  <1>8. in2[b] = "elem" /\ who2[b] = c /\ nr2[b] = n
    BY <1>7 DEF Rehomed, Handed
  <1>9. \A d \in Buffers : in[d] \notin {"slot", "free"} => in2[d] = in[d] /\ who2[d] = who[d] /\ nr2[d] = nr[d]
    BY <1>7 DEF Rehomed
  <1>10. elems = [d \in Containers |-> elems[d]] /\ \A d \in Containers : IsElems(elems[d])
    BY <1>0 DEF BufferShapes
  <1>11. /\ elems' = [d \in Containers |-> elems'[d]]
         /\ elems'[c] = Append(elems[c], [buffer |-> b, key |-> k, packet |-> None, from |-> f])
         /\ \A d \in Containers \ {c} : elems'[d] = elems[d]
    BY <1>4, <1>10
  <1>12. /\ IsElems(elems'[c]) /\ DOMAIN elems'[c] = DOMAIN elems[c] \cup {n} /\ n \notin DOMAIN elems[c]
         /\ elems'[c][n].buffer = b /\ \A j \in DOMAIN elems[c] : elems'[c][j] = elems[c][j]
    <2>1. IsElems(elems[c])
      BY <1>10
    <2>2. AddsElem(elems[c], b, elems'[c])
      BY <1>11 DEF AddsElem
    <2>3. LongerBy(elems[c], elems'[c], b, Len(elems[c]) + 1)
      BY <2>1, <2>2, AppendElem
    <2> QED BY <1>6, <2>3 DEF LongerBy
  <1>13. BufferShapes'
    BY <1>0, <1>1, <1>a, <1>10, <1>11, <1>12 DEF BufferShapes
  <1>14. ASSUME NEW d \in Containers, NEW j \in DOMAIN elems'[d]
         PROVE  in2[elems'[d][j].buffer] = "elem" /\ who2[elems'[d][j].buffer] = d /\ nr2[elems'[d][j].buffer] = j
    <2>1. CASE d = c /\ j = n
      BY <1>8, <1>12, <2>1
    <2>2. CASE ~(d = c /\ j = n)
      <3>1. j \in DOMAIN elems[d] /\ elems'[d][j] = elems[d][j]
        <4>1. CASE d = c
          <5>1. j \in DOMAIN elems[c]
            BY <1>12, <2>2, <4>1
          <5> QED BY <1>12, <4>1, <5>1
        <4>2. CASE d # c
          BY <1>11, <4>2
        <4> QED BY <4>1, <4>2
      <3>2. elems[d][j].buffer \in Buffers
        BY <1>10, <3>1, ElemBuffer DEF IsElems
      <3>3. in[elems[d][j].buffer] = "elem" /\ who[elems[d][j].buffer] = d /\ nr[elems[d][j].buffer] = j
        BY <1>5, <3>1 DEF Placed
      <3>4. in[elems[d][j].buffer] \notin {"slot", "free"}
        BY <3>3
      <3>5. PICK x \in Buffers : x = elems[d][j].buffer
        BY <3>2
      <3> QED BY <1>9, <3>1, <3>3, <3>4, <3>5
    <2> QED BY <2>1, <2>2
  <1>15. ASSUME NEW d \in Range(handshake') PROVE in2[d] = "handshake"
    <2>1. d \in Range(handshake) /\ d \in Buffers
      BY SMTT(30), <1>0, <1>1 DEF BufferShapes, Range
    <2>2. in[d] = "handshake"
      BY <1>5, <2>1 DEF Placed
    <2>3. in[d] \notin {"slot", "free"}
      BY <2>2
    <2> QED BY <1>9, <2>1, <2>2, <2>3
  <1>16. Placed(in2, who2, nr2)'
    BY <1>7, <1>14, <1>15 DEF Placed, Rehomed
  <1> QED BY <1>13, <1>16 DEF BufferInv

LEMMA SortHandshakeBuffers ==
    ASSUME InboundAssumption, OwnInv, BufferInv, NEW r \in Receivers, SortHandshake(r)
    PROVE  BufferInv'
  <1>0. BufferShapes
    BY DEF BufferInv
  <1>1. rx[r].i > 0 /\ elems' = elems
    BY DEF SortHandshake, boxes
  <1>2. PICK i \in Slots : i = rx[r].i
    BY <1>1, AtSlot
  <1>3. \/ UNCHANGED <<handshake, slots, freeBufs>>
        \/ handshake' = Append(handshake, slots[r][i]) /\ NewSlotBuffer(r)
    BY <1>2 DEF SortHandshake
  <1>4. CASE UNCHANGED <<handshake, slots, freeBufs>>
    BY <1>1, <1>4, QuietBuffers
  <1>5. CASE handshake' = Append(handshake, slots[r][i]) /\ NewSlotBuffer(r)
    <2>1. PICK b \in Buffers, g \in Buffers : HandsOn(r, i, b, g)
      BY <1>2, <1>5, NewBuffer
    <2>2. b = slots[r][i] /\ freeBufs' \subseteq freeBufs /\ slots' \in [Receivers -> [Slots -> Buffers]]
      BY <2>1 DEF HandsOn
    <2>3. PICK in, who, nr : Placed(in, who, nr)
      BY DEF BufferInv
    <2>4. PICK in2, who2, nr2 : Rehomed(in, who, nr, r, i, b, g, "handshake", r, i, in2, who2, nr2)
      BY <1>0, <2>1, <2>3, SlotHandsOn
    <2>5. in2[b] = "handshake"
      BY <2>4 DEF Rehomed, Handed
    <2>6. \A d \in Buffers : in[d] \notin {"slot", "free"} => in2[d] = in[d] /\ who2[d] = who[d] /\ nr2[d] = nr[d]
      BY <2>4 DEF Rehomed
    <2>7. in[b] = "slot"
      BY SMTT(30), <2>2, <2>3 DEF Placed
    <2>8. b \notin Range(handshake)
      BY <2>3, <2>7 DEF Placed
    <2>9. handshake' \in Seq(Buffers) /\ Once(handshake') /\ Range(handshake') = Range(handshake) \cup {b}
      BY SMTT(30), <1>0, <1>5, <2>2, <2>8, AppendOnce DEF BufferShapes
    <2>10. BufferShapes'
      BY <1>0, <1>1, <2>2, <2>9 DEF BufferShapes
    <2>11. ASSUME NEW d \in Containers, NEW j \in DOMAIN elems'[d]
           PROVE  in2[elems'[d][j].buffer] = "elem" /\ who2[elems'[d][j].buffer] = d /\ nr2[elems'[d][j].buffer] = j
      <3>1. j \in DOMAIN elems[d] /\ elems'[d][j] = elems[d][j]
        BY <1>1
      <3>2. PICK x \in Buffers : x = elems[d][j].buffer
        BY <1>0, <3>1, ElemBuffer DEF BufferShapes, IsElems
      <3>3. in[x] = "elem" /\ who[x] = d /\ nr[x] = j
        BY SMTT(30), <2>3, <3>1, <3>2 DEF Placed
      <3>4. in[x] \notin {"slot", "free"}
        BY <3>3
      <3> QED BY <2>6, <3>1, <3>2, <3>3, <3>4
    <2>12. ASSUME NEW d \in Range(handshake') PROVE in2[d] = "handshake"
      <3>1. CASE d = b
        BY <2>5, <3>1
      <3>2. CASE d # b
        <4>1. d \in Range(handshake) /\ d \in Buffers
          <5>1. d \in Range(handshake)
            BY <2>9, <3>2
          <5> QED BY SMTT(30), <1>0, <5>1 DEF BufferShapes, Range
        <4>2. in[d] = "handshake"
          BY <2>3, <4>1 DEF Placed
        <4>3. in[d] \notin {"slot", "free"}
          BY <4>2
        <4> QED BY <2>6, <4>1, <4>2, <4>3
      <3> QED BY <3>1, <3>2
    <2>13. Placed(in2, who2, nr2)'
      BY <2>4, <2>11, <2>12 DEF Placed, Rehomed
    <2> QED BY <2>10, <2>13 DEF BufferInv
  <1> QED BY <1>3, <1>4, <1>5

\* A handshake worker puts the buffer of its message back.
LEMMA RoutineHandshakeBuffers == ASSUME BufferInv, RoutineHandshake PROVE BufferInv'
  <1>0. BufferShapes
    BY DEF BufferInv
  <1>1. handshake # <<>> /\ handshake' = Tail(handshake) /\ freeBufs' = freeBufs \cup {Head(handshake)} /\ UNCHANGED <<slots, elems>>
    BY DEF RoutineHandshake, boxes
  <1>2. handshake \in Seq(Buffers) /\ Once(handshake)
    BY <1>0 DEF BufferShapes
  <1>3. PICK b \in Buffers : b = Head(handshake)
    BY SMTT(30), <1>1, <1>2
  <1>4. /\ handshake' \in Seq(Buffers) /\ Once(handshake') /\ Range(handshake') = Range(handshake) \ {b}
        /\ b \in Range(handshake)
    BY <1>1, <1>2, <1>3, TailOnce
  <1>5. BufferShapes'
    BY <1>0, <1>1, <1>3, <1>4 DEF BufferShapes
  <1>6. PICK in, who, nr : Placed(in, who, nr)
    BY DEF BufferInv
  <1>7. in[b] = "handshake"
    BY <1>4, <1>6 DEF Placed
  <1>8. PICK in2 : in2[b] = "free" /\ \A d \in Buffers \ {b} : in2[d] = in[d]
    <2> DEFINE h == [d \in Buffers |-> IF d = b THEN "free" ELSE in[d]]
    <2>1. h[b] = "free" /\ \A d \in Buffers \ {b} : h[d] = in[d]
      OBVIOUS
    <2> QED BY <2>1
  <1>9. ASSUME NEW d \in Buffers, in[d] # "handshake" PROVE in2[d] = in[d]
    BY <1>7, <1>8, <1>9
  <1>10. ASSUME NEW d \in freeBufs' PROVE in2[d] = "free"
    <2>1. CASE d = b
      BY <1>8, <2>1
    <2>2. CASE d # b
      <3>1. d \in freeBufs /\ d \in Buffers
        BY <1>0, <1>1, <1>3, <2>2 DEF BufferShapes
      <3>2. in[d] = "free"
        BY <1>6, <3>1 DEF Placed
      <3> QED BY <1>8, <2>2, <3>1, <3>2
    <2> QED BY <2>1, <2>2
  <1>11. ASSUME NEW r \in Receivers, NEW i \in Slots
         PROVE  in2[slots'[r][i]] = "slot" /\ who[slots'[r][i]] = r /\ nr[slots'[r][i]] = i
    <2>1. slots'[r][i] = slots[r][i] /\ slots[r][i] \in Buffers
      BY <1>0, <1>1 DEF BufferShapes
    <2>2. in[slots[r][i]] = "slot" /\ who[slots[r][i]] = r /\ nr[slots[r][i]] = i
      BY SMTT(30), <1>6 DEF Placed
    <2> QED BY <1>9, <2>1, <2>2
  <1>12. ASSUME NEW d \in Containers, NEW j \in DOMAIN elems'[d]
         PROVE  in2[elems'[d][j].buffer] = "elem" /\ who[elems'[d][j].buffer] = d /\ nr[elems'[d][j].buffer] = j
    <2>1. j \in DOMAIN elems[d] /\ elems'[d][j] = elems[d][j]
      BY <1>1
    <2>2. PICK x \in Buffers : x = elems[d][j].buffer
      BY <1>0, <2>1, ElemBuffer DEF BufferShapes, IsElems
    <2>3. in[x] = "elem" /\ who[x] = d /\ nr[x] = j
      BY SMTT(30), <1>6, <2>1, <2>2 DEF Placed
    <2>4. in2[x] = in[x]
      BY <1>9, <2>3
    <2> QED BY <2>1, <2>2, <2>3, <2>4
  <1>13. ASSUME NEW d \in Range(handshake') PROVE in2[d] = "handshake"
    <2>1. d \in Range(handshake) /\ d # b
      BY <1>4
    <2>2. d \in Buffers
      BY SMTT(30), <1>2, <2>1 DEF Range
    <2>3. in[d] = "handshake"
      BY <1>6, <2>1 DEF Placed
    <2> QED BY <1>8, <2>1, <2>2, <2>3
  <1>14. Placed(in2, who, nr)'
    BY <1>10, <1>11, <1>12, <1>13 DEF Placed
  <1> QED BY <1>5, <1>14 DEF BufferInv

LEMMA DecryptedElem == ASSUME NEW e, IsElem(e) PROVE IsElem(Decrypted(e)) /\ Decrypted(e).buffer = e.buffer
  <1>a. PICK b \in Buffers : \E k, x, f : e = [buffer |-> b, key |-> k, packet |-> x, from |-> f]
    BY DEF IsElem
  <1>1. PICK k, x, f : e = [buffer |-> b, key |-> k, packet |-> x, from |-> f]
    BY <1>a
  <1>2. PICK y : Decrypted(e) = [e EXCEPT !.packet = y]
    BY DEF Decrypted
  <1>3. Decrypted(e) = [buffer |-> b, key |-> k, packet |-> y, from |-> f]
    BY <1>1, <1>2
  <1>4. IsElem(Decrypted(e))
    BY <1>3 DEF IsElem
  <1> QED BY SMTT(30), <1>1, <1>3, <1>4

\* Decryption works in place.
LEMMA FinishDecryptionBuffers ==
    ASSUME OwnInv, BufferInv, NEW w \in Decrypters, FinishDecryption(w)
    PROVE  BufferInv'
  <1>0. BufferShapes /\ elems = [d \in Containers |-> elems[d]] /\ \A d \in Containers : IsElems(elems[d])
    BY DEF BufferInv, BufferShapes
  <1>1. PICK c \in Containers : c = decrypting[w]
    BY DEF FinishDecryption, OwnInv, Shapes
  <1>2. /\ elems' = [elems EXCEPT ![c] = [i \in DOMAIN elems[c] |-> Decrypted(elems[c][i])]]
        /\ UNCHANGED <<freeBufs, slots, handshake>>
    BY <1>1 DEF FinishDecryption, buffers
  <1>3. /\ elems' = [d \in Containers |-> elems'[d]]
        /\ elems'[c] = [i \in DOMAIN elems[c] |-> Decrypted(elems[c][i])]
        /\ \A d \in Containers \ {c} : elems'[d] = elems[d]
    BY <1>0, <1>2
  <1>4. /\ DOMAIN elems'[c] = DOMAIN elems[c]
        /\ \A i \in DOMAIN elems[c] : IsElem(elems'[c][i]) /\ elems'[c][i].buffer = elems[c][i].buffer
    <2>1. \A i \in DOMAIN elems[c] : IsElem(elems[c][i])
      BY <1>0 DEF IsElems
    <2>2. DOMAIN elems'[c] = DOMAIN elems[c] /\ \A i \in DOMAIN elems[c] : elems'[c][i] = Decrypted(elems[c][i])
      BY <1>3
    <2>3. ASSUME NEW i \in DOMAIN elems[c] PROVE IsElem(elems'[c][i]) /\ elems'[c][i].buffer = elems[c][i].buffer
      <3>1. IsElem(elems[c][i])
        BY <2>1
      <3>2. IsElem(Decrypted(elems[c][i])) /\ Decrypted(elems[c][i]).buffer = elems[c][i].buffer
        BY <3>1, DecryptedElem
      <3> QED BY <2>2, <3>2
    <2> QED BY <2>2, <2>3
  <1>5. IsElems(elems'[c])
    <2>1. PICK S : elems[c] \in Seq(S)
      BY <1>0 DEF IsElems
    <2>2. elems'[c] \in Seq({Decrypted(elems[c][i]) : i \in DOMAIN elems[c]})
      BY SMTT(30), <1>3, <2>1
    <2> QED BY <1>4, <2>2 DEF IsElems
  <1>6. BufferShapes'
    BY <1>0, <1>2, <1>3, <1>5 DEF BufferShapes
  <1>7. PICK in, who, nr : Placed(in, who, nr)
    BY DEF BufferInv
  <1>8. ASSUME NEW d \in Containers PROVE DOMAIN elems'[d] = DOMAIN elems[d] /\ \A j \in DOMAIN elems[d] : elems'[d][j].buffer = elems[d][j].buffer
    <2>1. CASE d = c
      BY <1>4, <2>1
    <2>2. CASE d # c
      BY <1>3, <2>2
    <2> QED BY <2>1, <2>2
  <1>9. Placed(in, who, nr)'
    BY SMTT(30), <1>2, <1>7, <1>8 DEF Placed
  <1> QED BY <1>6, <1>9 DEF BufferInv

LEMMA NextBuffers == ASSUME InboundAssumption, OwnInv, BufferInv, [Next]_vars PROVE BufferInv'
  <1>1. CASE UNCHANGED vars
    BY <1>1, QuietBuffers DEF vars, buffers, boxes
  <1>2. ASSUME NEW r \in Receivers, Receive(r) \/ ReceiveIncoming(r) PROVE BufferInv'
    <2>1. CASE Receive(r) \/ SortIgnored(r) \/ PushInbound(r) \/ PushDecryption(r)
      <3>1. UNCHANGED <<freeBufs, slots, handshake, elems>>
        BY <2>1 DEF Receive, SortIgnored, PushInbound, PushDecryption, buffers, boxes
      <3> QED BY <3>1, QuietBuffers
    <2>2. ASSUME NEW p \in Peers, SortTransport(r, p) PROVE BufferInv'
      BY <2>2, SortTransportBuffers
    <2>3. ASSUME NEW p \in Peers, HandOver(r, p) PROVE BufferInv'
      <3>1. rx[r].boxes[p] \in Containers
        <4>1. rx[r].boxes[p] # None
          BY <2>3 DEF HandOver
        <4> QED BY SMTT(30), <4>1 DEF OwnInv, Shapes, Rx
      <3>2. UNCHANGED <<slots, handshake>> /\ (UNCHANGED <<elems, freeBufs>> \/ PutContainer(rx[r].boxes[p]))
        BY <2>3 DEF HandOver
      <3> QED BY <3>1, <3>2, QuietBuffers, PutBuffers
    <2>4. CASE SortHandshake(r)
      BY <2>4, SortHandshakeBuffers
    <2> QED BY <1>2, <2>1, <2>2, <2>3, <2>4 DEF ReceiveIncoming
  <1>3. CASE RoutineHandshake
    BY <1>3, RoutineHandshakeBuffers
  <1>4. ASSUME NEW w \in Decrypters, Decrypt(w) PROVE BufferInv'
    <2>1. CASE StartDecryption(w)
      <3>1. UNCHANGED <<freeBufs, slots, handshake, elems>>
        BY <2>1 DEF StartDecryption, buffers, boxes
      <3> QED BY <3>1, QuietBuffers
    <2> QED BY <1>4, <2>1, FinishDecryptionBuffers DEF Decrypt
  <1>5. ASSUME NEW p \in Peers, SequentialReceiver(p) \/ Stop(p) \/ Lifecycle(p) PROVE BufferInv'
    <2>1. CASE ReceiverTakes(p) \/ Stop(p) \/ StopSignal(p) \/ StopWait(p) \/ StartRoutine(p)
      <3>1. UNCHANGED <<freeBufs, slots, handshake, elems>>
        BY <2>1 DEF ReceiverTakes, Stop, StopSignal, StopWait, StartRoutine, buffers, boxes
      <3> QED BY <3>1, QuietBuffers
    <2>2. CASE ReceiverProcesses(p)
      <3>1. PutContainer(seqrx[p].box) /\ UNCHANGED <<slots, handshake>> /\ seqrx[p].pc = "process"
        BY <2>2 DEF ReceiverProcesses
      <3>2. seqrx[p].box \in Containers
        BY <3>1 DEF OwnInv, Shapes, ReceiverOK
      <3> QED BY <3>1, <3>2, PutBuffers
    <2>3. CASE StartFlush(p)
      <3>1. PutContainer(Head(inbound[p])) /\ UNCHANGED <<slots, handshake>> /\ life[p] = "stopped" /\ inbound[p] # <<>>
        BY <2>3 DEF StartFlush
      <3>2. Nil \notin Range(inbound[p]) /\ Once(inbound[p]) /\ inbound[p] \in Seq(Containers \cup {Nil})
        BY <3>1 DEF OwnInv, Shapes, ReceiverOK
      <3>3. Head(inbound[p]) \in Range(inbound[p]) /\ Head(inbound[p]) \in Containers \cup {Nil}
        BY <3>1, <3>2, TailOnce
      <3>4. Head(inbound[p]) \in Containers
        BY <3>2, <3>3
      <3> QED BY <3>1, <3>4, PutBuffers
    <2> QED BY <1>5, <2>1, <2>2, <2>3 DEF SequentialReceiver, Lifecycle
  <1> QED BY <1>1, <1>2, <1>3, <1>4, <1>5 DEF Next

-----------------------------------------------------------------------------
(* BufferHasOneOwner *)

LEMMA PoolUnreferred == ASSUME InboundAssumption, OwnInv PROVE pool \cap Referred = {}
  <1> SUFFICES ASSUME NEW c \in pool, c \in Referred PROVE FALSE
    OBVIOUS
  <1>1. PICK at, who, of, st, by : Located(at, who, of) /\ Decrypting(st, by) /\ Locking(at, st)
    BY DEF OwnInv
  <1>2. c \in Containers /\ c # None /\ c # Nil /\ at[c] = "pool"
    <2>1. c \in Containers
      BY DEF OwnInv, Shapes
    <2> QED BY SMTT(30), <1>1, <2>1, BoxDistinct DEF Located
  <1>3. st[c] = "none"
    BY <1>1, <1>2 DEF Locking
  <1>4. CASE c \in Range(decryption) \/ \E w \in Decrypters : c = decrypting[w]
    BY <1>1, <1>2, <1>3, <1>4, OnTheWay
  <1>5. ASSUME NEW p \in Peers, c \in Range(inbound[p]) \/ c = seqrx[p].box PROVE FALSE
    <2>1. c \in Turn(p)
      BY <1>2, <1>5 DEF Turn
    <2> QED BY <1>1, <1>2, <2>1 DEF Located
  <1>6. ASSUME NEW r \in Receivers, NEW p \in Peers, c = rx[r].boxes[p] PROVE FALSE
    BY <1>1, <1>2, <1>6 DEF Located
  <1>7. ASSUME NEW r \in Receivers, c = rx[r].box PROVE FALSE
    <2>1. rx[r].to = "inbound" \/ rx[r].to = "decryption"
      BY SMTT(30), <1>2, <1>7 DEF OwnInv, Shapes, Rx, RxOK
    <2>2. CASE rx[r].to = "inbound"
      BY <1>1, <1>2, <1>7, <2>2 DEF Located
    <2>3. CASE rx[r].to = "decryption"
      BY <1>1, <1>3, <1>7, <2>3 DEF Decrypting
    <2> QED BY <2>1, <2>2, <2>3
  <1>8. \A r \in Receivers : DOMAIN rx[r].boxes = Peers
    BY DEF OwnInv, Shapes, Rx
  <1>9. DOMAIN decrypting = Decrypters
    BY DEF OwnInv, Shapes
  <1> DEFINE D == Range(decryption) \cup Range(decrypting)
             P == UNION {Range(inbound[p]) \cup {seqrx[p].box} : p \in Peers}
             R == UNION {Range(rx[r].boxes) \cup {rx[r].box} : r \in Receivers}
  <1>10. c \notin D
    BY <1>4, <1>9 DEF Range
  <1>11. c \notin P
    BY <1>5
  <1>12. c \notin R
    BY <1>6, <1>7, <1>8 DEF Range
  <1>13. Referred = D \cup P \cup R
    BY DEF Referred
  <1> HIDE DEF D, P, R
  <1> QED BY <1>10, <1>11, <1>12, <1>13

LEMMA OneOwner == ASSUME InboundAssumption, OwnInv, BufferInv PROVE BufferHasOneOwner
  <1> DEFINE X == {x \in (Containers \ pool) \X Slots : x[2] \in DOMAIN elems[x[1]]}
             inSlots == [x \in Receivers \X Slots |-> slots[x[1]][x[2]]]
             inElems == [x \in X |-> elems[x[1]][x[2]].buffer]
  <1>1. PICK in, who, nr : Placed(in, who, nr)
    BY DEF BufferInv
  <1>2. ASSUME NEW x \in Receivers \X Slots
        PROVE  /\ inSlots[x] = slots[x[1]][x[2]] /\ in[inSlots[x]] = "slot" /\ who[inSlots[x]] = x[1] /\ nr[inSlots[x]] = x[2]
               /\ x = <<x[1], x[2]>>
    <2>1. x[1] \in Receivers /\ x[2] \in Slots /\ x = <<x[1], x[2]>> /\ inSlots[x] = slots[x[1]][x[2]]
      BY SMTT(30)
    <2> HIDE DEF inSlots
    <2> QED BY SMTT(30), <1>1, <2>1 DEF Placed
  <1>3. ASSUME NEW x \in X
        PROVE  /\ in[inElems[x]] = "elem" /\ who[inElems[x]] = x[1] /\ nr[inElems[x]] = x[2]
               /\ x = <<x[1], x[2]>>
    <2>1. x[1] \in Containers /\ x[2] \in DOMAIN elems[x[1]] /\ x = <<x[1], x[2]>> /\ inElems[x] = elems[x[1]][x[2]].buffer
      BY SMTT(30)
    <2> HIDE DEF inElems
    <2> QED BY SMTT(30), <1>1, <2>1 DEF Placed
  <1>d. DOMAIN inSlots = Receivers \X Slots /\ DOMAIN inElems = X
    OBVIOUS
  <1> HIDE DEF inSlots, inElems, X
  <1>4. IsInjective(inSlots)
    <2> SUFFICES ASSUME NEW x \in Receivers \X Slots, NEW y \in Receivers \X Slots, inSlots[x] = inSlots[y] PROVE x = y
      BY <1>d DEF IsInjective
    <2>1. x[1] = y[1] /\ x[2] = y[2]
      BY SMTT(30), <1>2
    <2> QED BY <1>2, <2>1
  <1>5. IsInjective(inElems)
    <2> SUFFICES ASSUME NEW x \in X, NEW y \in X, inElems[x] = inElems[y] PROVE x = y
      BY <1>d DEF IsInjective
    <2>1. x[1] = y[1] /\ x[2] = y[2]
      BY SMTT(30), <1>3
    <2> QED BY <1>3, <2>1
  <1>6. IsInjective(handshake)
    BY DEF IsInjective, BufferInv, BufferShapes, Once
  <1>7. /\ \A b \in Range(inSlots) : in[b] = "slot"
        /\ \A b \in Range(inElems) : in[b] = "elem"
        /\ \A b \in Range(handshake) : in[b] = "handshake"
        /\ \A b \in freeBufs : in[b] = "free"
    <2>1. \A b \in Range(inSlots) : in[b] = "slot"
      BY SMTT(30), <1>2, <1>d DEF Range
    <2>2. \A b \in Range(inElems) : in[b] = "elem"
      BY SMTT(30), <1>3, <1>d DEF Range
    <2>3. (\A b \in Range(handshake) : in[b] = "handshake") /\ \A b \in freeBufs : in[b] = "free"
      BY <1>1 DEF Placed
    <2> QED BY <2>1, <2>2, <2>3
  <1>8. /\ Range(inSlots) \cap Range(inElems) = {}
        /\ Range(handshake) \cap (Range(inSlots) \cup Range(inElems)) = {}
        /\ freeBufs \cap (Range(inSlots) \cup Range(inElems) \cup Range(handshake)) = {}
    BY <1>7
  <1> QED BY <1>4, <1>5, <1>6, <1>8, PoolUnreferred DEF BufferHasOneOwner, inSlots, inElems, X

\* For any number of routines, peers, containers and buffers: a message buffer has one
\* owner, whoever reads, decrypts, delivers, stops or starts meanwhile, and nobody refers
\* to a container that was put back.
THEOREM BufferHasOneOwnerHolds ==
    ASSUME InboundAssumption
    PROVE  Spec => []BufferHasOneOwner
  <1>1. Init => OwnInv /\ BufferInv
    BY InitOwn, InitBuffers
  <1>2. OwnInv /\ BufferInv /\ [Next]_vars => OwnInv' /\ BufferInv'
    BY NextOwn, NextBuffers
  <1>3. OwnInv /\ BufferInv => BufferHasOneOwner
    BY OneOwner
  <1> QED BY <1>1, <1>2, <1>3, PTL DEF Spec

=============================================================================
