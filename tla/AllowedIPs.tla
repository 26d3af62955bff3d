----------------------------- MODULE AllowedIPs -----------------------------
(***************************************************************************)
(* The table of allowed IPs (device/allowedips.go): a binary trie with     *)
(* path compression, in which a node may be the home of a prefix or only a *)
(* fork, and knows the pointer that points to it.                          *)
(*                                                                         *)
(* An address has W bits and is a number; a prefix is its masked address   *)
(* and its length.  The heap names a node after its prefix and a number,   *)
(* in case there were two for one prefix.  A slot is a pointer to a        *)
(* pointer: a child of a node, or the root.                                *)
(***************************************************************************)
EXTENDS Naturals, Sequences, SequencesExt, FiniteSets

CONSTANTS W,        \* bits of an address: 32 or 128 in the code
          Peer, None,
          MaxPrefixes   \* bound on the prefixes at a time

TrieAssumption == W \in Nat \ {0} /\ MaxPrefixes \in Nat /\ None \notin Peer

VARIABLES heap,     \* the nodes
          root,     \* table.IPv4 or table.IPv6
          entries   \* peer.trieEntries: the list of a peer's nodes
vars == <<heap, root, entries>>

Addr == 0 .. 2^W - 1
Mask(ip, cidr) == (ip \div 2^(W - cidr)) * 2^(W - cidr)
Prefix == {<<ip, cidr>> \in Addr \X (0 .. W) : Mask(ip, cidr) = ip}

Nil == <<0, 0, 0>>
Root == [of |-> Nil, bit |-> 2]
Child(n, b) == [of |-> n, bit |-> b]

-----------------------------------------------------------------------------
(* Bits *)

\* The leading bits two addresses share.
CommonBits(a, b) == CHOOSE n \in 0 .. W : /\ Mask(a, n) = Mask(b, n)
                                         /\ n < W => Mask(a, n + 1) # Mask(b, n + 1)

\* node.choose: the bit after the prefix.
Choose(node, ip) == (ip \div 2^(W - node.cidr - 1)) % 2

-----------------------------------------------------------------------------
(* A trie t is a record of heap, root and entries. *)

Deref(t, slot) == IF slot.of = Nil THEN t.root ELSE t.heap[slot.of].child[slot.bit]

Point(t, slot, n) ==
    IF slot.of = Nil THEN [t EXCEPT !.root = n] ELSE [t EXCEPT !.heap[slot.of].child[slot.bit] = n]

\* A pointer is set together with the parent of the node it points to.
Link(t, slot, n) ==
    LET u == Point(t, slot, n) IN IF n = Nil THEN u ELSE [u EXCEPT !.heap[n].parent = slot]

Fresh(t, ip, cidr) ==
    LET taken == {m \in DOMAIN t.heap : m[1] = Mask(ip, cidr) /\ m[2] = cidr}
    IN  <<Mask(ip, cidr), cidr, 1 + Cardinality(taken)>>

Allocate(t, ip, cidr, peer) ==
    LET n == Fresh(t, ip, cidr)
        node == [peer |-> peer, child |-> [b \in {0, 1} |-> Nil], parent |-> Root, cidr |-> cidr, bits |-> Mask(ip, cidr)]
    IN  [t EXCEPT !.heap = [m \in DOMAIN @ \cup {n} |-> IF m = n THEN node ELSE @[m]]]

Free(t, n) == [t EXCEPT !.heap = [m \in DOMAIN @ \ {n} |-> @[m]]]

AddToPeerEntries(t, n, peer) == [t EXCEPT !.entries[peer] = Append(@, n)]
RemoveFromPeerEntries(t, n) ==
    IF t.heap[n].peer = None THEN t
    ELSE [t EXCEPT !.entries[t.heap[n].peer] = SelectSeq(@, LAMBDA m : m # n)]

\* The deepest node on the way to ip whose prefix contains it, not longer than cidr.
RECURSIVE NodePlacement(_, _, _, _, _)
NodePlacement(t, n, ip, cidr, parent) ==
    IF n = Nil \/ t.heap[n].cidr > cidr \/ CommonBits(t.heap[n].bits, ip) < t.heap[n].cidr THEN parent
    ELSE IF t.heap[n].cidr = cidr THEN n
    ELSE NodePlacement(t, t.heap[n].child[Choose(t.heap[n], ip)], ip, cidr, n)

\* A fork gets the two nodes it separates.
Fork(t, node, down, new) ==
    LET a == Link(t, Child(node, Choose(t.heap[node], t.heap[down].bits)), down)
    IN  Link(a, Child(node, Choose(t.heap[node], t.heap[new].bits)), new)

\* insert below or above what is there: at an empty slot, above down, or beside it.
InsertNew(t, node, ip, cidr, peer) ==
    LET new == Fresh(t, ip, cidr)
        a == AddToPeerEntries(Allocate(t, ip, cidr, peer), new, peer)
        slot == IF node = Nil THEN Root ELSE Child(node, Choose(t.heap[node], ip))
        down == Deref(t, slot)
        common == CommonBits(t.heap[down].bits, ip)
        fork == Fresh(a, ip, common)
    IN  IF down = Nil THEN Link(a, slot, new)
        ELSE IF cidr <= common
        THEN Link(Link(a, Child(new, Choose(a.heap[new], a.heap[down].bits)), down), slot, new)
        ELSE Link(Fork(Allocate(a, ip, common, None), fork, down, new), slot, fork)

InsertPrefix(t, ip, cidr, peer) ==
    LET node == NodePlacement(t, t.root, ip, cidr, Nil)
    IN  IF node # Nil /\ t.heap[node].cidr = cidr
        THEN AddToPeerEntries([RemoveFromPeerEntries(t, node) EXCEPT !.heap[node].peer = peer], node, peer)
        ELSE InsertNew(t, node, ip, cidr, peer)

\* The parent of a leaf that is gone, when it is only a fork, gives way to its other child.
DropFork(t, slot) ==
    LET parent == slot.of
    IN  IF slot.of = Nil \/ t.heap[parent].peer # None THEN t
        ELSE Free(Link(t, t.heap[parent].parent, t.heap[parent].child[1 - slot.bit]), parent)

\* One round of RemoveByPeer.
RemoveNode(t, n) ==
    LET node == t.heap[n]
        a == [RemoveFromPeerEntries(t, n) EXCEPT !.heap[n].peer = None]
        child == IF node.child[0] = Nil THEN node.child[1] ELSE node.child[0]
    IN  IF node.child[0] # Nil /\ node.child[1] # Nil THEN a
        ELSE LET b == Free(Link(a, node.parent, child), n)
             IN  IF child # Nil THEN b ELSE DropFork(b, node.parent)

\* Fault: only the first node of the list is removed.
RemoveFirstEntry(t, peer) == IF t.entries[peer] = <<>> THEN t ELSE RemoveNode(t, Head(t.entries[peer]))

RemovePeerEntries(t, peer) == FoldLeft(RemoveNode, t, t.entries[peer])

\* Fault: the first node with a peer is taken.
FirstFound(node, found) == IF found = None THEN node.peer ELSE found

Better(node, found) == IF node.peer # None THEN node.peer ELSE found

\* lookup: the last node with a peer on the way to ip.
RECURSIVE LookupFrom(_, _, _, _)
LookupFrom(t, n, ip, found) ==
    IF n = Nil \/ CommonBits(t.heap[n].bits, ip) < t.heap[n].cidr THEN found
    ELSE LET better == Better(t.heap[n], found)
         IN  IF t.heap[n].cidr = W THEN better
             ELSE LookupFrom(t, t.heap[n].child[Choose(t.heap[n], ip)], ip, better)

-----------------------------------------------------------------------------
trie == [heap |-> heap, root |-> root, entries |-> entries]

Lookup(ip) == LookupFrom(trie, root, ip, None)

Become(t) == heap' = t.heap /\ root' = t.root /\ entries' = t.entries

Init ==
    /\ heap = [n \in {} |-> 0] /\ root = Nil
    /\ entries = [p \in Peer |-> <<>>]

Insert(ip, cidr, peer) ==
    /\ Cardinality({n \in DOMAIN heap : heap[n].peer # None /\ n # <<Mask(ip, cidr), cidr, 1>>}) < MaxPrefixes
    /\ Become(InsertPrefix(trie, ip, cidr, peer))

RemoveByPeer(peer) == Become(RemovePeerEntries(trie, peer))

\* An address is inserted with whatever bits it has behind its prefix.
Next ==
    \E peer \in Peer : RemoveByPeer(peer) \/ \E ip \in Addr, cidr \in 0 .. W : Insert(ip, cidr, peer)

Spec == Init /\ [][Next]_vars

-----------------------------------------------------------------------------
(* Properties *)

\* The table that the nodes stand for.
routes == [p \in Prefix |->
             LET at == {n \in DOMAIN heap : <<heap[n].bits, heap[n].cidr>> = p}
             IN  IF at = {} THEN None ELSE heap[CHOOSE n \in at : TRUE].peer]

\* A lookup finds the peer of the longest prefix that contains the address.
LongestPrefixWins ==
    LET table == routes
    IN  \A ip \in Addr :
          LET containing == {cidr \in 0 .. W : table[<<Mask(ip, cidr), cidr>>] # None}
              longest == CHOOSE c \in containing : \A d \in containing : d <= c
          IN  Lookup(ip) = IF containing = {} THEN None ELSE table[<<Mask(ip, longest), longest>>]

Table == INSTANCE RouteTable WITH routes <- routes

\* The trie implements the table of prefixes and their peers.
ImplementsTable == Table!Spec
=============================================================================
