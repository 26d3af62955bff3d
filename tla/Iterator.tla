------------------------------ MODULE Iterator ------------------------------
(***************************************************************************)
(* The address generator of the endpoint scanner (ipscanner/internal/      *)
(* iterator/iterator.go).  Every CIDR range is walked in a pseudo-random   *)
(* order by a linear congruential generator of its own; a batch holds one  *)
(* address of every range that is not exhausted, and when all of them are, *)
(* the generators are drawn anew and the next round begins.                *)
(*                                                                         *)
(* An address is an integer.  Prefixes is a sequence of records [family,   *)
(* addr, bits] with addr the first address of the range, as in the lists   *)
(* of warp/endpoint.go and statute/default.go.                             *)
(***************************************************************************)
EXTENDS Integers, Sequences, FiniteSets

CONSTANTS
  Prefixes,     \* opts.CidrList
  Families,     \* the families opts.UseIPv4 and opts.UseIPv6 allow
  AddrBits      \* bits of an address: 32 or 128 in the code

VARIABLES
  ipRanges,     \* the generator: a sequence of [start, size, index, lcg]
  batch,        \* what the last NextBatch returned, <<>> after an error
  round         \* per range, the addresses returned since its index was 0

vars == <<ipRanges, batch, round>>

RECURSIVE GCD(_, _)
GCD(a, b) == IF b = 0 THEN a ELSE GCD(b, a % b)

\* Fault: any increment is accepted, relatively prime to the modulus or not.
AnyIncrement(modulus, multiplier, increment) ==
  (modulus % 4 = 0) => (multiplier - 1) % 4 = 0

checkHullDobell(modulus, multiplier, increment) ==
  /\ GCD(increment, modulus) = 1
  /\ (modulus % 4 = 0) => (multiplier - 1) % 4 = 0

\* Every generator NewLCG can draw; its loop ends with probability one.
NewLCG(size) ==
  {g \in [modulus : {size}, multiplier : 0..(size - 1), increment : 0..(size - 1), current : {0}] :
      checkHullDobell(g.modulus, g.multiplier, g.increment)}

\* LCG.Next.  current is below the modulus always, so the early return of the
\* code is never taken.
LcgNext(g) == (g.multiplier * g.current + g.increment) % g.modulus

ipRangeSize(prefix) == 2 ^ (AddrBits - prefix.bits)

\* Every value of newIPRange for a prefix.
newIPRange(prefix) ==
  {[start |-> prefix.addr, size |-> ipRangeSize(prefix), index |-> 0, lcg |-> g] :
      g \in NewLCG(ipRangeSize(prefix))}

Kept == SelectSeq(Prefixes, LAMBDA p : p.family \in Families)

\* NewIterator: the prefixes of the wanted families, in any order.
NewIterator ==
  {r \in [1..Len(Kept) -> UNION {newIPRange(Kept[i]) : i \in 1..Len(Kept)}] :
      \E perm \in [1..Len(Kept) -> 1..Len(Kept)] :
        /\ \A i, j \in 1..Len(Kept) : i # j => perm[i] # perm[j]
        /\ \A i \in 1..Len(Kept) : r[i] \in newIPRange(Kept[perm[i]])}

Init ==
  /\ ipRanges \in NewIterator
  /\ batch = <<>>
  /\ round = [i \in 1..Len(ipRanges) |-> {}]

\* The ranges that still have addresses in this round.
Left(ranges) == {i \in 1..Len(ranges) : ranges[i].index < ranges[i].size}

addIP(ip, num) == ip + num

Advance(r) == [r EXCEPT !.lcg.current = LcgNext(r.lcg), !.index = @ + 1]

\* The first loop of NextBatch over the given ranges, which are not all
\* exhausted; seen holds what the round has returned before.
Deliver(ranges, seen) ==
  LET given(i) == addIP(ranges[i].start, LcgNext(ranges[i].lcg))
      order    == SelectSeq([i \in 1..Len(ranges) |-> i], LAMBDA i : i \in Left(ranges))
  IN  /\ batch' = [k \in 1..Len(order) |-> given(order[k])]
      /\ ipRanges' = [i \in 1..Len(ranges) |->
                        IF i \in Left(ranges) THEN Advance(ranges[i]) ELSE ranges[i]]
      /\ round' = [i \in 1..Len(ranges) |->
                        IF i \in Left(ranges) THEN seen[i] \cup {given(i)} ELSE seen[i]]

\* The end of a round: every index is 0 again and every generator is drawn anew.
Reshuffle(ranges) ==
  {r \in [1..Len(ranges) -> UNION {{[ranges[i] EXCEPT !.index = 0, !.lcg = g] : g \in NewLCG(ranges[i].size)} : i \in 1..Len(ranges)}] :
      \A i \in 1..Len(ranges) : r[i].start = ranges[i].start /\ r[i].size = ranges[i].size}

NextBatch ==
  \/ /\ Left(ipRanges) # {}
     /\ Deliver(ipRanges, round)
  \/ /\ Left(ipRanges) = {}
     /\ \E r \in Reshuffle(ipRanges) :
          IF \E i \in 1..Len(ipRanges) : ipRanges[i].index > 0 /\ Left(r) # {}
          THEN Deliver(r, [i \in 1..Len(r) |-> {}])
          ELSE batch' = <<>> /\ ipRanges' = r /\ UNCHANGED round

Next == NextBatch

\* The engine asks for batches for as long as it scans.
Spec == Init /\ [][Next]_vars

\* The code leaves out one condition of the theorem it checks, that multiplier - 1 is
\* divisible by the prime factors of the modulus.  Only for a range of two addresses does
\* the condition on four not stand for it: with the multiplier 0 the generator stays at 1.
Stuck(r) == r.size = 2 /\ r.lcg.multiplier = 0

\* NextBatch returns every address of a range once before it returns one of
\* them again: as many different addresses as the index says, all of the
\* range's prefix.  A range of two may be stuck, and then its second address is
\* returned twice and its first one never; no other range can be.
NoRepeatInRound ==
  \A i \in 1..Len(ipRanges) :
    LET r == ipRanges[i]
    IN  /\ Cardinality(round[i]) = IF Stuck(r) /\ r.index = 2 THEN 1 ELSE r.index
        /\ round[i] \subseteq r.start..(r.start + r.size - 1)

=============================================================================
