---------------------------- MODULE MCNoisePeers ----------------------------
(***************************************************************************)
(* Noise for TLC: device A with two peers, B and C, which share A's index   *)
(* table and A's handshake worker.                                          *)
(***************************************************************************)
EXTENDS Noise, TLC

CONSTANTS A, B, C, ab, ba, ac, ca, wa, wb, wc

MCDeviceOf == ab :> A @@ ac :> A @@ ba :> B @@ ca :> C
MCCounterpart == ab :> ba @@ ba :> ab @@ ac :> ca @@ ca :> ac
MCHostOf == wa :> A @@ wb :> B @@ wc :> C

\* Nonzero indices are interchangeable, and so are B and C.
Swap == B :> C @@ C :> B @@ ab :> ac @@ ac :> ab @@ ba :> ca @@ ca :> ba @@ wb :> wc @@ wc :> wb
Same == [x \in DOMAIN Swap |-> x]
Symmetry == {f @@ g : f \in Permutations(Index \ {Zero}), g \in {Swap, Same}}

\* Bounds the search to behaviours in which no peer is stopped or zeroed.
NeverZeroed == \A p \in Peer : \A c \in Caller : zeroing[p][c] = "idle"

\* Bounds the search to behaviours in which randUint32 never returns 0.
ZeroNotDrawn == \A d \in Device : table[d][Zero] = NoEntry

=============================================================================
