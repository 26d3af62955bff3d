---------------------------- MODULE NonceCounter ----------------------------
(***************************************************************************)
(* What the send counters of a peer's keypairs promise: each keypair gives *)
(* out the nonces 0, 1, 2, ... below the limit, each of them once, and     *)
(* none after it has expired.                                              *)
(***************************************************************************)
EXTENDS Naturals

CONSTANTS Keypair, limit

VARIABLES next,   \* the nonce a keypair gives out next; at the limit it gives out none
          issued  \* the pairs of keypair and nonce given out

Init ==
    /\ next = [k \in Keypair |-> 0]
    /\ issued = {}

Issue(k) ==
    /\ next[k] < limit
    /\ issued' = issued \cup {<<k, next[k]>>}
    /\ next' = [next EXCEPT ![k] = @ + 1]

Expire(K) ==
    /\ next' = [k \in Keypair |-> IF k \in K THEN limit ELSE next[k]]
    /\ UNCHANGED issued

Next == (\E k \in Keypair : Issue(k)) \/ (\E K \in SUBSET Keypair : Expire(K))

Spec == Init /\ [][Next]_<<next, issued>>
=============================================================================
