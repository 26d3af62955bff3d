--------------------------- MODULE MCNoiseWorkers ---------------------------
(***************************************************************************)
(* Noise for TLC: as MCNoise, with two handshake workers on device A        *)
(* (NewDevice starts one per CPU).                                          *)
(***************************************************************************)
EXTENDS Noise, TLC

CONSTANTS A, B, ab, ba, wa1, wa2, wb

MCDeviceOf == ab :> A @@ ba :> B
MCCounterpart == ab :> ba @@ ba :> ab
MCHostOf == wa1 :> A @@ wa2 :> A @@ wb :> B

\* Nonzero indices are interchangeable, and so are the two workers of A.
Symmetry == {f @@ g : f \in Permutations(Index \ {Zero}), g \in Permutations({wa1, wa2})}

\* Bounds the search to behaviours in which no peer is stopped or zeroed.
NeverZeroed == \A p \in Peer : \A c \in Caller : zeroing[p][c] = "idle"

\* Bounds the search to behaviours in which randUint32 never returns 0.
ZeroNotDrawn == \A d \in Device : table[d][Zero] = NoEntry

=============================================================================
