----------------------------- MODULE RouteTable -----------------------------
(***************************************************************************)
(* What the table of allowed IPs promises: every prefix has at most one    *)
(* peer, the last one it was given to, and a peer can be taken out.        *)
(***************************************************************************)
CONSTANTS Prefix, Peer, None
VARIABLE routes

Init == routes = [p \in Prefix |-> None]

Insert(p, peer) == routes' = [routes EXCEPT ![p] = peer]

RemoveByPeer(peer) ==
    LET before == routes IN routes' = [p \in Prefix |-> IF before[p] = peer THEN None ELSE before[p]]

Next == \E peer \in Peer : RemoveByPeer(peer) \/ \E p \in Prefix : Insert(p, peer)

Spec == Init /\ [][Next]_routes
=============================================================================
