---------------------------- MODULE RouteListener ----------------------------
(***************************************************************************)
(* Sticky sources (wireguard/device/sticky_linux.go).  A peer's endpoint   *)
(* keeps the interface its last datagram came in on; when routes change,   *)
(* routineRouteListener starts a goroutine that asks the kernel for the    *)
(* route to each peer, the sequence number of the question being the       *)
(* position of the peer in that round, and an answer with another          *)
(* interface marks the source to be cleared.  All rounds share one map     *)
(* from sequence numbers to peers.  The listener tells answers from        *)
(* changes by the sequence number alone: a change carries the number of    *)
(* the request that made it, or 0.                                         *)
(***************************************************************************)
EXTENDS Naturals, Sequences, FiniteSets, SequencesExt

CONSTANTS Peers,
          Ifaces,     \* interface indices, all positive
          MaxChanges  \* bound: route changes

RouteListenerAssumption == Ifaces \subseteq Nat \ {0} /\ IsFiniteSet(Peers)

NoSource == 0

VARIABLES route,      \* the interface the kernel routes each peer over
          changes,
          srcIfidx, clearSrcOnTx,   \* of each peer's endpoint
          sock,       \* netlink messages: number, interface; history: whom an answer is about
          rounds,     \* the goroutines: the peers still to be asked, the next number
          reqPeer,
          listener, cancelled,
          asked,      \* history: the peers asked for since the listener heard of a change
          astray,     \* history: the peers whose last answer was not taken for theirs
          overlapped  \* history: a round began before the one before it was over

netVars  == <<route, changes>>
peerVars == <<srcIfidx, clearSrcOnTx>>
history  == <<asked, astray, overlapped>>
vars == <<netVars, peerVars, sock, rounds, reqPeer, listener, cancelled, history>>

Empty == [n \in {} |-> 0]

Init ==
    /\ route \in [Peers -> Ifaces] /\ changes = 0
    /\ srcIfidx \in [Peers -> Ifaces \cup {NoSource}]
    /\ \A p \in Peers : srcIfidx[p] \in {NoSource, route[p]}
    /\ clearSrcOnTx = [p \in Peers |-> FALSE]
    /\ sock = <<>> /\ rounds = <<>> /\ reqPeer = Empty
    /\ listener = "recv" /\ cancelled = FALSE
    /\ asked = {} /\ astray = {} /\ overlapped = FALSE

\* The routes change, by a request with number n, or by no request.
ChangeRoutes(r, n, ifidx) ==
    /\ changes < MaxChanges /\ r # route
    /\ route' = r /\ changes' = changes + 1
    /\ sock' = IF listener = "done" THEN sock
               ELSE Append(sock, [seq |-> n, ifidx |-> ifidx, about |-> {}])
    /\ UNCHANGED <<peerVars, rounds, reqPeer, listener, cancelled, history>>

AnswerOnItsWay(p) == \E k \in DOMAIN sock : sock[k].about = {p}

\* A datagram comes in from a peer: SetEndpointFromPacket replaces the endpoint, whose
\* source is the interface of the datagram.
PacketFrom(p, ifidx) ==
    /\ srcIfidx' = [srcIfidx EXCEPT ![p] = ifidx]
    /\ clearSrcOnTx' = [clearSrcOnTx EXCEPT ![p] = FALSE]
    /\ asked' = IF AnswerOnItsWay(p) THEN asked ELSE asked \ {p}
    /\ UNCHANGED <<netVars, sock, rounds, reqPeer, listener, cancelled, astray, overlapped>>

\* A datagram goes out to a peer whose source is to be cleared.
PacketTo(p) ==
    /\ clearSrcOnTx[p]
    /\ srcIfidx' = [srcIfidx EXCEPT ![p] = NoSource]
    /\ clearSrcOnTx' = [clearSrcOnTx EXCEPT ![p] = FALSE]
    /\ UNCHANGED <<netVars, sock, rounds, reqPeer, listener, cancelled, history>>

RoundsOver ==
    /\ \A k \in DOMAIN rounds : rounds[k].todo = <<>>
    /\ \A p \in Peers : ~AnswerOnItsWay(p)

\* hdr.Seq is the position of a peer.  (MaxPeers is beyond every number here.)
TakenForAnswer(m) == m.seq > 0

\* A change: a new map, and a goroutine that goes through keyMap in any order.
HearChange ==
    /\ listener = "recv" /\ sock # <<>> /\ ~TakenForAnswer(Head(sock))
    /\ reqPeer' = Empty
    /\ \E order \in SetToSeqs(Peers) : rounds' = Append(rounds, [todo |-> order, i |-> 1])
    /\ sock' = Tail(sock)
    /\ asked' = {}
    /\ overlapped' = (overlapped \/ ~RoundsOver)
    /\ UNCHANGED <<netVars, peerVars, listener, cancelled, astray>>


ClearIfOther(p, ifidx) == srcIfidx[p] # ifidx

\* The peer whose number the message has.
Meant(m) == {reqPeer[n] : n \in DOMAIN reqPeer \cap {m.seq}}

\* An answer, or a change with a number that a peer may have.  The comparison of the
\* endpoint's address with the one in the map is of the address of the same field
\* and always succeeds.
HearAnswer ==
    /\ listener = "recv" /\ sock # <<>> /\ TakenForAnswer(Head(sock))
    /\ LET m == Head(sock)
       IN  /\ clearSrcOnTx' = [p \in Peers |-> clearSrcOnTx[p] \/ (p \in Meant(m) /\ ClearIfOther(p, m.ifidx))]
           /\ asked' = IF m.about = {} THEN {} ELSE asked
           /\ astray' = (astray \ Meant(m)) \cup (m.about \ Meant(m))
    /\ sock' = Tail(sock)
    /\ UNCHANGED <<netVars, srcIfidx, rounds, reqPeer, listener, cancelled, overlapped>>

\* One peer of a round, up to the question, which the kernel answers at once.  A
\* peer without a source, or with an IPv6 address, ends the round, and so does a
\* closed socket.
Ask(k) ==
    /\ rounds[k].todo # <<>>
    /\ LET p == Head(rounds[k].todo)
           i == rounds[k].i
       IN  IF srcIfidx[p] = NoSource \/ listener = "done"
           THEN /\ rounds' = [rounds EXCEPT ![k].todo = <<>>]
                /\ UNCHANGED <<sock, reqPeer, asked>>
           ELSE /\ rounds' = [rounds EXCEPT ![k] = [todo |-> Tail(@.todo), i |-> i + 1]]
                /\ reqPeer' = [n \in DOMAIN reqPeer \cup {i} |-> IF n = i THEN p ELSE reqPeer[n]]
                /\ sock' = Append(sock, [seq |-> i, ifidx |-> route[p], about |-> {p}])
                /\ asked' = asked \cup {p}
    /\ UNCHANGED <<netVars, peerVars, listener, cancelled, astray, overlapped>>

\* closeBindLocked cancels; the listener closes the socket when it has polled.
Cancel ==
    /\ ~cancelled
    /\ cancelled' = TRUE
    /\ UNCHANGED <<netVars, peerVars, sock, rounds, reqPeer, listener, history>>

Poll ==
    /\ listener = "recv" /\ sock = <<>>
    /\ listener' = "poll"
    /\ UNCHANGED <<netVars, peerVars, sock, rounds, reqPeer, cancelled, history>>

ReadyRead == IF cancelled THEN "done" ELSE "recv"

Wake ==
    /\ listener = "poll" /\ (cancelled \/ sock # <<>>)
    /\ listener' = ReadyRead
    /\ UNCHANGED <<netVars, peerVars, sock, rounds, reqPeer, cancelled, history>>

Next ==
    \/ \E r \in [Peers -> Ifaces], n \in {0, 1}, ifidx \in Ifaces : ChangeRoutes(r, n, ifidx)
    \/ \E p \in Peers : PacketTo(p) \/ \E ifidx \in Ifaces : PacketFrom(p, ifidx)
    \/ \E k \in DOMAIN rounds : Ask(k)
    \/ HearChange \/ HearAnswer \/ Cancel \/ Poll \/ Wake

Spec == Init /\ [][Next]_vars

-----------------------------------------------------------------------------
Quiet == sock = <<>> /\ RoundsOver


=============================================================================
