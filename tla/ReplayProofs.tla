---------------------------- MODULE ReplayProofs ----------------------------
(***************************************************************************)
(* Proofs about module Replay, for any size of a block and of the ring, any *)
(* limit and any counters: the ring stands for the counters accepted, and   *)
(* the filter implements the sliding window.                                *)
(***************************************************************************)
EXTENDS Replay, TLAPS

-----------------------------------------------------------------------------
(* Division *)

\* Quotient and remainder.
LEMMA DivMod ==
    ASSUME NEW a \in Nat, NEW b \in Nat \ {0}
    PROVE  /\ a \div b \in Nat
           /\ (a % b) \in 0 .. b - 1
           /\ a = b * (a \div b) + (a % b)
OBVIOUS

\* A product grows by its other factor at least.
LEMMA Times ==
    ASSUME NEW a \in Nat, NEW b \in Nat, NEW c \in Nat, a < b
    PROVE  c * a \in Nat /\ c * b \in Nat /\ c * a + c <= c * b
OBVIOUS

\* Two numbers with the same remainder are equal or at least n apart.
LEMMA RemaindersDiffer ==
    ASSUME NEW n \in Nat \ {0}, NEW q \in Nat, NEW r \in Nat,
           NEW s \in 0 .. n - 1, NEW t \in 0 .. n - 1
    PROVE  /\ n * q + s = n * r + t => q = r /\ s = t
           /\ n * q + s < n * r + t /\ n * r + t < n * q + s + n => s # t
<1>1. CASE q < r
  BY <1>1, Times
<1>2. CASE r < q
  BY <1>2, Times
<1>3. CASE q = r
  BY <1>3
<1>4. QED
  BY <1>1, <1>2, <1>3

\* The slot of a block lies in the ring.
LEMMA SlotType == \A b \in Nat : Slot(b) \in BlockIndex
BY ReplayAssumption, DivMod DEF Slot, BlockIndex

\* Blocks less than a whole ring apart have different slots.
LEMMA SlotsDiffer ==
    ASSUME NEW a \in Nat, NEW b \in Nat, a < b, b < a + ringBlocks
    PROVE  Slot(a) # Slot(b)
<1> DEFINE q == a \div ringBlocks
           r == b \div ringBlocks
           s == a % ringBlocks
           t == b % ringBlocks
<1>1. q \in Nat /\ s \in 0 .. ringBlocks - 1 /\ a = ringBlocks * q + s
  BY Zenon, ReplayAssumption, DivMod
<1>2. r \in Nat /\ t \in 0 .. ringBlocks - 1 /\ b = ringBlocks * r + t
  BY Zenon, ReplayAssumption, DivMod
<1> HIDE DEF q, r, s, t
<1>3. s # t
  BY <1>1, <1>2, ReplayAssumption, RemaindersDiffer
<1>4. QED
  BY <1>3 DEF s, t, Slot

\* Blocks a multiple of the ring apart share a slot.
LEMMA SlotPeriod ==
    ASSUME NEW a \in Nat, NEW k \in Nat
    PROVE  Slot(a + ringBlocks * k) = Slot(a)
<1> DEFINE b == a + ringBlocks * k
           q == a \div ringBlocks
           r == b \div ringBlocks
           s == a % ringBlocks
           t == b % ringBlocks
<1>1. q \in Nat /\ s \in 0 .. ringBlocks - 1 /\ a = ringBlocks * q + s
  BY Zenon, ReplayAssumption, DivMod
<1>2. b \in Nat
  BY ReplayAssumption
<1>3. r \in Nat /\ t \in 0 .. ringBlocks - 1 /\ b = ringBlocks * r + t
  BY Zenon, <1>2, ReplayAssumption, DivMod
<1> HIDE DEF q, r, s, t
<1>4. b = ringBlocks * (q + k) + s
  BY <1>1, ReplayAssumption
<1>5. s = t
  BY <1>1, <1>3, <1>4, ReplayAssumption, RemaindersDiffer
<1>6. QED
  BY <1>5 DEF s, t, Slot

\* Going round the ring once from any block reaches the slot of every later block.
LEMMA WholeRing ==
    ASSUME NEW a \in Nat, NEW b \in Nat, a < b
    PROVE  \E i \in a + 1 .. a + ringBlocks : Slot(i) = Slot(b)
<1> DEFINE x == b - (a + 1)
           k == x \div ringBlocks
           m == x % ringBlocks
<1>1. x \in Nat
  OBVIOUS
<1>2. k \in Nat /\ m \in 0 .. ringBlocks - 1 /\ x = ringBlocks * k + m
  BY Zenon, <1>1, ReplayAssumption, DivMod
<1> HIDE DEF k, m
<1>3. a + 1 + m \in a + 1 .. a + ringBlocks /\ a + 1 + m \in Nat
  BY <1>2, ReplayAssumption
<1>4. b = (a + 1 + m) + ringBlocks * k
  BY <1>2, ReplayAssumption
<1>5. Slot(b) = Slot(a + 1 + m)
  BY <1>2, <1>3, <1>4, SlotPeriod
<1>6. QED
  BY <1>3, <1>5

\* A counter is its block and its bit.
LEMMA BlockFacts ==
    ASSUME NEW c \in Nat
    PROVE  /\ Block(c) \in Nat
           /\ Bit(c) \in BitIndex
           /\ c = blockBits * Block(c) + Bit(c)
BY Zenon, ReplayAssumption, DivMod DEF Block, Bit, BitIndex

\* No two counters share a block and a bit, and a later block has later counters.
LEMMA BlockOrder ==
    ASSUME NEW c \in Nat, NEW d \in Nat
    PROVE  /\ Block(c) = Block(d) /\ Bit(c) = Bit(d) => c = d
           /\ Block(c) < Block(d) => c < d
           /\ c <= d => Block(c) <= Block(d)
<1>1. /\ Block(c) \in Nat /\ Bit(c) \in 0 .. blockBits - 1
      /\ c = blockBits * Block(c) + Bit(c)
  BY BlockFacts DEF BitIndex
<1>2. /\ Block(d) \in Nat /\ Bit(d) \in 0 .. blockBits - 1
      /\ d = blockBits * Block(d) + Bit(d)
  BY BlockFacts DEF BitIndex
<1>3. Block(c) = Block(d) /\ Bit(c) = Bit(d) => c = d
  BY <1>1, <1>2
<1>4. Block(c) < Block(d) => c < d
  BY <1>1, <1>2, ReplayAssumption, Times
<1>5. Block(d) < Block(c) => d < c
  BY <1>1, <1>2, ReplayAssumption, Times
<1>6. QED
  BY <1>1, <1>2, <1>3, <1>4, <1>5

\* A counter in the window of d is in a block the ring still holds.
LEMMA WindowInRing ==
    ASSUME NEW c \in Nat, NEW d \in Nat, d - c <= windowSize
    PROVE  Block(d) < Block(c) + ringBlocks
<1> SUFFICES ASSUME Block(c) + ringBlocks <= Block(d)
             PROVE  FALSE
  BY BlockFacts, ReplayAssumption
<1> DEFINE k == Block(c)
           n == Block(d)
<1>1. k \in Nat /\ Bit(c) \in 0 .. blockBits - 1 /\ c = blockBits * k + Bit(c)
  BY BlockFacts DEF BitIndex
<1>2. n \in Nat /\ Bit(d) \in 0 .. blockBits - 1 /\ d = blockBits * n + Bit(d)
  BY BlockFacts DEF BitIndex
<1>3. k + ringBlocks <= n
  OBVIOUS
<1> HIDE DEF k, n
<1>4. blockBits * (k + ringBlocks) <= blockBits * n
  BY <1>1, <1>2, <1>3, ReplayAssumption, Times
<1>5. /\ blockBits * (k + ringBlocks) = blockBits * k + blockBits * ringBlocks
      /\ windowSize = blockBits * ringBlocks - blockBits
      /\ blockBits * ringBlocks \in Nat /\ blockBits * k \in Nat
  BY <1>1, ReplayAssumption DEF windowSize
<1>6. QED
  BY <1>1, <1>2, <1>4, <1>5, ReplayAssumption

-----------------------------------------------------------------------------
(* The ring stands for the counters accepted *)

\* d has the counter c in the part of the ring that a filter with highest counter d uses.
Held(c, d) == Block(c) <= Block(d) /\ Block(d) < Block(c) + ringBlocks

\* RingMatches over all counters, for any ring and any highest counter.
Matches(r, d) ==
    \A c \in Nat : Held(c, d) => (Bit(c) \in r[Slot(Block(c))] <=> c \in accepted)

\* No counter above the highest one has been accepted.
NoneAbove == \A c \in accepted : c <= last

Inv == TypeOK /\ NoneAbove /\ Matches(ring, last)

\* The highest counter once n has been let past the first two tests.
Highest(n) == IF n > last THEN n ELSE last

LEMMA InvInit == Init => Inv
<1> SUFFICES ASSUME Init PROVE Inv
  OBVIOUS
<1>1. TypeOK
  BY ReplayAssumption DEF Init, TypeOK
<1>2. NoneAbove
  BY DEF Init, NoneAbove
<1>3. ASSUME NEW c \in Nat PROVE Bit(c) \notin ring[Slot(Block(c))]
  BY BlockFacts, SlotType DEF Init
<1>4. QED
  BY Zenon, <1>1, <1>2, <1>3 DEF Inv, Matches, Init

\* Moving the window keeps the type of the ring.
LEMMA ForwardType ==
    ASSUME TypeOK, NEW n \in Nat
    PROVE  Forward(n) \in [BlockIndex -> SUBSET BitIndex]
BY DEF TypeOK, Forward

\* The slots emptied are those of the blocks between the old and the new highest counter.
LEMMA ClearedFacts ==
    ASSUME last \in Nat, NEW n \in Nat, n > last, NEW b \in Nat,
           b <= Block(n), Block(n) < b + ringBlocks
    PROVE  Slot(b) \in Cleared(n) <=> Block(last) < b
<1> DEFINE k == Block(last)
           m == Block(n)
<1>1. k \in Nat /\ m \in Nat /\ k <= m
  BY BlockFacts, BlockOrder
<1> HIDE DEF k, m
<1>2. Diff(n) \in Nat /\ (Diff(n) = m - k \/ (Diff(n) = ringBlocks /\ m - k > ringBlocks))
  BY <1>1, ReplayAssumption DEF Diff, k, m
<1>3. ASSUME k < b PROVE Slot(b) \in Cleared(n)
  <2>1. CASE Diff(n) = m - k
    <3>1. b \in k + 1 .. k + Diff(n)
      BY <1>1, <1>3, <2>1 DEF m
    <3>2. QED
      BY <3>1 DEF Cleared, k
  <2>2. CASE Diff(n) = ringBlocks
    <3>1. PICK i \in k + 1 .. k + ringBlocks : Slot(i) = Slot(b)
      BY <1>1, <1>3, WholeRing
    <3>2. QED
      BY <2>2, <3>1 DEF Cleared, k
  <2>3. QED
    BY <1>2, <2>1, <2>2
<1>4. ASSUME b <= k, Slot(b) \in Cleared(n) PROVE FALSE
  <2>1. m - k < ringBlocks
    BY <1>1, <1>4, ReplayAssumption DEF m
  <2>2. Diff(n) = m - k
    BY <1>1, <1>2, <2>1, ReplayAssumption
  <2>3. PICK i \in k + 1 .. k + Diff(n) : Slot(i) = Slot(b)
    BY <1>4 DEF Cleared, k
  <2>4. i \in Nat /\ b < i /\ i < b + ringBlocks
    BY <1>1, <1>4, <2>2, <2>3, ReplayAssumption DEF m
  <2>5. QED
    BY <2>3, <2>4, SlotsDiffer
<1>5. QED
  BY <1>1, <1>3, <1>4 DEF k

\* When the bit is checked, the ring matches the counters accepted so far.
LEMMA ForwardMatches ==
    ASSUME Inv, NEW n \in Nat
    PROVE  Matches(Forward(n), Highest(n))
<1>1. last \in Nat /\ accepted \subseteq Nat
  BY ReplayAssumption DEF Inv, TypeOK
<1>2. CASE n <= last
  BY <1>1, <1>2 DEF Inv, Forward, Highest
<1>3. CASE n > last
  <2> SUFFICES ASSUME NEW c \in Nat, Held(c, n)
               PROVE  Bit(c) \in Forward(n)[Slot(Block(c))] <=> c \in accepted
    BY <1>3 DEF Matches, Highest
  <2>1. Block(c) \in Nat /\ Block(last) \in Nat /\ Block(n) \in Nat /\ Block(last) <= Block(n)
    BY <1>1, <1>3, BlockFacts, BlockOrder
  <2>2. Slot(Block(c)) \in Cleared(n) <=> Block(last) < Block(c)
    BY <1>1, <1>3, <2>1, ClearedFacts DEF Held
  <2>3. Forward(n)[Slot(Block(c))] = IF Slot(Block(c)) \in Cleared(n) THEN {} ELSE ring[Slot(Block(c))]
    BY <1>3, <2>1, SlotType DEF Forward
  <2>4. CASE Block(last) < Block(c)
    <3>1. last < c
      BY <1>1, <2>4, BlockOrder
    <3>2. c \notin accepted
      BY <1>1, <3>1 DEF Inv, NoneAbove
    <3>3. QED
      BY <2>2, <2>3, <2>4, <3>2
  <2>5. CASE Block(c) <= Block(last)
    <3>1. Held(c, last)
      BY <2>1, <2>5, ReplayAssumption DEF Held
    <3>2. Forward(n)[Slot(Block(c))] = ring[Slot(Block(c))]
      BY <2>1, <2>2, <2>3, <2>5
    <3>3. QED
      BY <3>1, <3>2 DEF Inv, Matches
  <2>6. QED
    BY <2>1, <2>4, <2>5
<1>4. QED
  BY <1>1, <1>2, <1>3

\* The bit that is checked says whether the counter has been accepted.
LEMMA BitChecked ==
    ASSUME Inv, NEW n \in Nat, ~BehindWindow(n)
    PROVE  /\ Held(n, Highest(n))
           /\ Bit(n) \in Forward(n)[Slot(Block(n))] <=> n \in accepted
<1>1. last \in Nat
  BY ReplayAssumption DEF Inv, TypeOK
<1>2. Block(n) \in Nat
  BY BlockFacts
<1>3. ASSUME n > last PROVE Held(n, Highest(n))
  BY <1>2, <1>3, ReplayAssumption DEF Held, Highest
<1>4. ASSUME n <= last PROVE Held(n, Highest(n))
  <2>1. windowSize \in Nat
    BY ReplayAssumption DEF windowSize
  <2>2. last - n <= windowSize
    BY <1>1, <1>4, <2>1 DEF BehindWindow
  <2>3. Block(last) < Block(n) + ringBlocks /\ Block(n) <= Block(last)
    BY <1>1, <1>4, <2>2, WindowInRing, BlockOrder
  <2>4. QED
    BY <1>1, <1>4, <2>3 DEF Held, Highest
<1>5. Held(n, Highest(n))
  BY <1>1, <1>3, <1>4
<1>6. QED
  BY <1>5, ForwardMatches DEF Matches

\* CheckAndSetBit records the counter in the ring and in no other counter's bit.
LEMMA CheckAndSetBitInv ==
    ASSUME Inv, NEW n \in Nat, CheckAndSetBit(n)
    PROVE  Inv' /\ accepted' = accepted \cup {n}
<1> DEFINE old == Forward(n)
           b == Slot(Block(n))
<1>1. /\ last \in 0 .. limit - 1 /\ last \in Nat /\ limit \in Nat
      /\ accepted \subseteq Nat
  BY ReplayAssumption DEF Inv, TypeOK
<1>2. /\ ~BehindWindow(n) /\ n < limit
      /\ last' = Highest(n)
      /\ ring' = [old EXCEPT ![b] = @ \cup {Bit(n)}]
      /\ accepted' = IF Bit(n) \notin old[b] THEN accepted \cup {n} ELSE accepted
      /\ call' = [counter |-> n, ok |-> Bit(n) \notin old[b]]
  BY <1>1 DEF CheckAndSetBit, Overlimit, Highest
<1>3. old \in [BlockIndex -> SUBSET BitIndex]
  BY ForwardType DEF Inv
<1>4. /\ Block(n) \in Nat /\ Bit(n) \in BitIndex /\ b \in BlockIndex
      /\ Held(n, Highest(n))
      /\ Bit(n) \in old[b] <=> n \in accepted
      /\ Matches(old, Highest(n))
  BY <1>2, BlockFacts, SlotType, BitChecked, ForwardMatches
<1> HIDE DEF old, b
<1>5. accepted' = accepted \cup {n}
  BY <1>2, <1>4
<1>6. TypeOK'
  <2>1. last' \in 0 .. limit - 1
    BY <1>1, <1>2 DEF Highest
  <2>2. ring' \in [BlockIndex -> SUBSET BitIndex]
    BY <1>2, <1>3, <1>4
  <2>3. call' \in [counter : Nat, ok : BOOLEAN]
    BY <1>2
  <2>4. QED
    BY <1>1, <1>5, <2>1, <2>2, <2>3 DEF TypeOK
<1>7. NoneAbove'
  BY <1>1, <1>2, <1>5 DEF Inv, NoneAbove, Highest
<1>8. ASSUME NEW c \in Nat, Held(c, last')
      PROVE  Bit(c) \in ring'[Slot(Block(c))] <=> c \in accepted'
  <2>1. Block(c) \in Nat /\ Slot(Block(c)) \in BlockIndex
    BY BlockFacts, SlotType
  <2>2. Bit(c) \in old[Slot(Block(c))] <=> c \in accepted
    BY <1>2, <1>4, <1>8 DEF Matches
  <2>3. CASE Slot(Block(c)) # b
    BY <1>2, <1>3, <1>5, <2>1, <2>2, <2>3 DEF b
  <2>4. CASE Slot(Block(c)) = b
    <3>1. Block(Highest(n)) \in Nat
      BY <1>1, BlockFacts DEF Highest
    <3>2. Block(c) = Block(n)
      <4>1. Block(c) < Block(n) + ringBlocks /\ Block(n) < Block(c) + ringBlocks
        BY <1>2, <1>4, <1>8, <2>1, <3>1, ReplayAssumption DEF Held
      <4>2. QED
        BY <1>4, <2>1, <2>4, <4>1, SlotsDiffer DEF b
    <3>3. Bit(c) = Bit(n) <=> c = n
      BY <3>2, BlockOrder
    <3>4. ring'[Slot(Block(c))] = old[Slot(Block(c))] \cup {Bit(n)}
      BY <1>2, <1>3, <1>4, <2>4
    <3>5. QED
      BY <1>5, <2>2, <3>3, <3>4
  <2>5. QED
    BY <2>3, <2>4
<1>9. QED
  BY <1>5, <1>6, <1>7, <1>8 DEF Inv, Matches, Held

\* Reset empties the one slot that an empty filter uses.
LEMMA ResetInv == Inv /\ Reset => Inv'
<1> SUFFICES ASSUME Inv, Reset PROVE Inv'
  OBVIOUS
<1>1. /\ last' = 0 /\ ring' = [ring EXCEPT ![0] = {}] /\ accepted' = {} /\ call' = call
  BY DEF Reset
<1>2. ring \in [BlockIndex -> SUBSET BitIndex] /\ 0 \in BlockIndex
  BY ReplayAssumption DEF Inv, TypeOK, BlockIndex
<1>3. TypeOK'
  BY <1>1, <1>2, ReplayAssumption DEF Inv, TypeOK
<1>4. NoneAbove'
  BY <1>1 DEF NoneAbove
<1>5. ASSUME NEW c \in Nat, Held(c, last') PROVE Bit(c) \notin ring'[Slot(Block(c))]
  <2>1. Block(0) = 0 /\ Slot(0) = 0
    BY ReplayAssumption DEF Block, Slot
  <2>2. Block(c) = 0
    BY <1>1, <1>5, <2>1, BlockFacts DEF Held
  <2>3. QED
    BY <1>1, <1>2, <2>1, <2>2
<1>6. QED
  BY <1>1, <1>3, <1>4, <1>5 DEF Inv, Matches, Held

\* Every step keeps the invariant.
LEMMA InvStep == Inv /\ [Next]_vars => Inv'
<1> SUFFICES ASSUME Inv, [Next]_vars PROVE Inv'
  OBVIOUS
<1>1. CASE Reset
  BY <1>1, ResetInv
<1>2. ASSUME NEW n \in Counter, RejectCounter(n) PROVE Inv'
  <2>1. n \in Nat
    BY ReplayAssumption DEF Counter
  <2>2. call' \in [counter : Nat, ok : BOOLEAN] /\ UNCHANGED <<last, ring, accepted>>
    BY <1>2, <2>1 DEF RejectCounter
  <2>3. QED
    BY <2>2 DEF Inv, TypeOK, NoneAbove, Matches, Held
<1>3. ASSUME NEW n \in Counter, CheckAndSetBit(n) PROVE Inv'
  BY <1>3, ReplayAssumption, CheckAndSetBitInv DEF Counter
<1>4. CASE UNCHANGED vars
  BY <1>4 DEF vars, Inv, TypeOK, NoneAbove, Matches, Held
<1>5. QED
  BY <1>1, <1>2, <1>3, <1>4 DEF Next, ValidateCounter

LEMMA SpecInv == Spec => []Inv
BY InvInit, InvStep, PTL DEF Spec

\* The highest counter stays below the limit and every bit in its block, for every
\* sequence of calls of ValidateCounter and Reset.
THEOREM ReplayTypeCorrect == Spec => []TypeOK
<1>1. Inv => TypeOK
  BY DEF Inv
<1>2. QED
  BY <1>1, SpecInv, PTL

\* Every bit of the ring in use says whether its counter was accepted, for every size
\* of the ring: what Reset leaves behind and what a jump skips are never read.
THEOREM RingMatchesHolds == Spec => []RingMatches
<1>1. Inv => RingMatches
  <2> SUFFICES ASSUME Inv, NEW c \in 0 .. last + blockBits, InRing(c)
               PROVE  Bit(c) \in ring[Slot(Block(c))] <=> c \in accepted
    BY DEF RingMatches
  <2>1. c \in Nat
    BY ReplayAssumption DEF Inv, TypeOK
  <2>2. QED
    BY <2>1 DEF Inv, Matches, Held, InRing
<1>2. QED
  BY <1>1, SpecInv, PTL

-----------------------------------------------------------------------------
(* The filter implements the sliding window *)

\* Every step of the filter is one of the sliding window.
LEMMA WindowStep ==
    Inv /\ [Next]_vars => [Window!Next]_<<last, accepted, call>>
<1> SUFFICES ASSUME Inv, [Next]_vars
             PROVE  [Window!Next]_<<last, accepted, call>>
  OBVIOUS
<1>1. last \in Nat /\ windowSize \in Nat /\ limit \in Nat
  BY ReplayAssumption DEF Inv, TypeOK, windowSize
<1>2. CASE Reset
  BY <1>2 DEF Reset, Window!Next, Window!Reset
<1>3. ASSUME NEW n \in Counter, RejectCounter(n) PROVE Window!Refuse(n)
  <2>1. n \in Nat
    BY ReplayAssumption DEF Counter
  <2>2. ~Window!Fresh(n)
    BY <1>1, <1>3, <2>1 DEF RejectCounter, Overlimit, BehindWindow, Window!Fresh
  <2>3. QED
    BY <1>3, <2>2 DEF RejectCounter, Window!Refuse
<1>4. ASSUME NEW n \in Counter, CheckAndSetBit(n)
      PROVE  Window!Accept(n) \/ Window!Refuse(n)
  <2>1. n \in Nat
    BY ReplayAssumption DEF Counter
  <2>2. /\ n < limit
        /\ n > last \/ last - n <= windowSize
        /\ ~BehindWindow(n)
        /\ last' = IF n > last THEN n ELSE last
        /\ call' = [counter |-> n, ok |-> Bit(n) \notin Forward(n)[Slot(Block(n))]]
    BY <1>1, <1>4, <2>1 DEF CheckAndSetBit, Overlimit, BehindWindow
  <2>3. Bit(n) \in Forward(n)[Slot(Block(n))] <=> n \in accepted
    BY <2>1, <2>2, BitChecked
  <2>4. accepted' = accepted \cup {n}
    BY <1>4, <2>1, CheckAndSetBitInv
  <2>5. CASE n \notin accepted
    <3>1. call' = [counter |-> n, ok |-> TRUE]
      BY Zenon, <2>2, <2>3, <2>5
    <3>2. QED
      BY Zenon, <2>2, <2>4, <2>5, <3>1 DEF Window!Accept, Window!Fresh
  <2>6. CASE n \in accepted
    <3>1. call' = [counter |-> n, ok |-> FALSE]
      BY Zenon, <2>2, <2>3, <2>6
    <3>2. n <= last
      BY <2>6 DEF Inv, NoneAbove
    <3>3. last' = last /\ accepted' = accepted
      BY <1>1, <2>1, <2>2, <2>4, <2>6, <3>2
    <3>4. QED
      BY <2>6, <3>1, <3>3 DEF Window!Refuse, Window!Fresh
  <2>7. QED
    BY <2>5, <2>6
<1>5. CASE UNCHANGED vars
  BY <1>5 DEF vars
<1>6. QED
  BY <1>2, <1>3, <1>4, <1>5 DEF Next, ValidateCounter, Window!Next

\* ValidateCounter answers as the sliding window does, for every size of a block and of
\* the ring, every limit and every sequence of counters.
THEOREM ImplementsWindowHolds == Spec => ImplementsWindow
<1>1. Init => Window!Init
  BY DEF Init, Window!Init
<1>2. QED
  BY <1>1, WindowStep, SpecInv, PTL DEF Spec, ImplementsWindow, Window!Spec

=============================================================================
