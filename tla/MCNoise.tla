------------------------------ MODULE MCNoise -------------------------------
(***************************************************************************)
(* Noise for TLC: two devices A and B with one link between them and one    *)
(* handshake worker each (NewDevice starts one per CPU).                    *)
(***************************************************************************)
EXTENDS Noise, FiniteSets, TLC

CONSTANTS A, B, ab, ba, wa, wb

MCDeviceOf == ab :> A @@ ba :> B
MCCounterpart == ab :> ba @@ ba :> ab
MCHostOf == wa :> A @@ wb :> B

\* Nonzero indices are interchangeable, and so are the two ends of the link.
Swap == A :> B @@ B :> A @@ ab :> ba @@ ba :> ab @@ wa :> wb @@ wb :> wa
Same == [x \in DOMAIN Swap |-> x]
Symmetry == {f @@ g : f \in Permutations(Index \ {Zero}), g \in {Swap, Same}}

\* Bounds the search to behaviours in which no peer is stopped or zeroed.
NeverZeroed == \A p \in Peer : \A c \in Caller : zeroing[p][c] = "idle"

\* Bounds the search to behaviours in which randUint32 never returns 0.
ZeroNotDrawn == \A d \in Device : table[d][Zero] = NoEntry

\* Bounds the search to behaviours in which a new handshake starts only once the last
\* initiation has been answered: several handshakes one after the other.
OneHandshakeAtATime ==
    LET responders(p) == {n \in DOMAIN derived[p] : ~derived[p][n].isInitiator}
    IN  Cardinality({m \in net : m.type = "initiation"})
          <= Cardinality(responders(ab)) + Cardinality(responders(ba)) + 1

=============================================================================
