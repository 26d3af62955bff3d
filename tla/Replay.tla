------------------------------- MODULE Replay -------------------------------
(***************************************************************************)
(* The anti-replay filter of a keypair (replay/replay.go): a ring of       *)
(* bitmaps that stands for a window of counters behind the highest one.    *)
(*                                                                         *)
(* A block of the ring is the set of its bits that are 1.  Masks and       *)
(* shifts by powers of two are written as % and \div.  Nothing wraps: no   *)
(* counter at or above the limit, which is far below 2^64, gets past the   *)
(* first test, and every subtraction is guarded by a comparison.           *)
(***************************************************************************)
EXTENDS Naturals

CONSTANTS blockBits,   \* the bits in a block
          ringBlocks,  \* the blocks in the ring
          limit,       \* RejectAfterMessages
          MaxCounter   \* the largest counter a message can carry

ASSUME ReplayAssumption ==
    /\ blockBits \in Nat \ {0}
    /\ ringBlocks \in Nat \ {0}
    /\ limit \in Nat \ {0}
    /\ MaxCounter \in Nat

VARIABLES last,      \* Filter.last
          ring,      \* Filter.ring
          accepted,  \* history: the counters accepted since the last Reset
          call       \* history: the last call and its answer

vars == <<last, ring, accepted, call>>

Counter == 0 .. MaxCounter
BlockIndex == 0 .. ringBlocks - 1
BitIndex == 0 .. blockBits - 1

\* One block is held back: the newest is only partly filled.
windowSize == (ringBlocks - 1) * blockBits

Block(counter) == counter \div blockBits
Slot(block) == block % ringBlocks
Bit(counter) == counter % blockBits

Init ==
    /\ last = 0
    /\ ring = [b \in BlockIndex |-> {}]
    /\ accepted = {}
    /\ call = [counter |-> 0, ok |-> FALSE]

\* Only the first block is emptied: the others are when the window reaches them.
Reset ==
    /\ last' = 0
    /\ ring' = [ring EXCEPT ![0] = {}]
    /\ accepted' = {}
    /\ UNCHANGED call

-----------------------------------------------------------------------------
(* ValidateCounter *)

Overlimit(counter) == counter >= limit

\* Fault: the oldest counter of the window is refused.
BehindWindowOrOldest(counter) == counter <= last /\ last - counter >= windowSize

BehindWindow(counter) == counter <= last /\ last - counter > windowSize

\* How many blocks the window moves, at most the whole ring.
Diff(counter) ==
    LET diff == Block(counter) - Block(last)
    IN  IF diff > ringBlocks THEN ringBlocks ELSE diff

\* The slots of the blocks the window moves into.
Cleared(counter) == {Slot(i) : i \in Block(last) + 1 .. Block(last) + Diff(counter)}

\* The ring when the bit is checked.
Forward(counter) ==
    IF counter > last
    THEN [b \in BlockIndex |-> IF b \in Cleared(counter) THEN {} ELSE ring[b]]
    ELSE ring

\* The counter is over the limit or behind the window.
RejectCounter(counter) ==
    /\ Overlimit(counter) \/ BehindWindow(counter)
    /\ call' = [counter |-> counter, ok |-> FALSE]
    /\ UNCHANGED <<last, ring, accepted>>

\* The window moves to the counter if it has to, and the bit is checked and set.
CheckAndSetBit(counter) ==
    LET old == Forward(counter)
        block == Slot(Block(counter))
        ok == Bit(counter) \notin old[block]
    IN  /\ ~Overlimit(counter) /\ ~BehindWindow(counter)
        /\ last' = IF counter > last THEN counter ELSE last
        /\ ring' = [old EXCEPT ![block] = @ \cup {Bit(counter)}]
        /\ accepted' = IF ok THEN accepted \cup {counter} ELSE accepted
        /\ call' = [counter |-> counter, ok |-> ok]

ValidateCounter(counter) == RejectCounter(counter) \/ CheckAndSetBit(counter)

Next == Reset \/ \E counter \in Counter : ValidateCounter(counter)

Spec == Init /\ [][Next]_vars

-----------------------------------------------------------------------------
(* Properties *)

\* The highest counter stays below the limit, and no block has a bit it has no room for.
TypeOK ==
    /\ last \in 0 .. limit - 1
    /\ ring \in [BlockIndex -> SUBSET BitIndex]
    /\ accepted \subseteq Nat
    /\ call \in [counter : Nat, ok : BOOLEAN]

\* A counter that a slot of the ring stands for: its block is one of the last
\* ringBlocks up to the block of the highest counter.
InRing(c) == Block(c) <= Block(last) /\ Block(last) < Block(c) + ringBlocks

\* A bit of the ring is 1 if and only if the counter it now stands for was accepted,
\* although Reset leaves old bits behind in every slot but the first and a jump
\* ahead empties only the slots it moves into.
RingMatches ==
    \A c \in 0 .. last + blockBits :
      InRing(c) => (Bit(c) \in ring[Slot(Block(c))] <=> c \in accepted)

Window == INSTANCE SlidingWindow WITH last <- last, accepted <- accepted, call <- call

\* ValidateCounter answers as the sliding window does: it never accepts a counter
\* twice, and never refuses a new one that is below the limit and in the window.
ImplementsWindow == Window!Spec
=============================================================================
