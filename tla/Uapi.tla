-------------------------------- MODULE Uapi --------------------------------
(***************************************************************************)
(* The set operation of the configuration protocol (device/uapi.go), line  *)
(* by line, on a device that is up or down.                                *)
(*                                                                         *)
(* A line is a record of its key and its value.  preshared_key, endpoint,  *)
(* persistent_keepalive_interval, trick and reserved each store one field  *)
(* of a peer; Attr is the set of those fields and 0 their first value.     *)
(* The key "invalid" stands for every line that is refused before it       *)
(* changes anything: an unknown key, or a value that does not parse.       *)
(***************************************************************************)
EXTENDS Naturals

CONSTANTS Key, Prefix, Attr, None,
          MaxLines, MaxSets     \* bounds on the lines of a set and on the sets

UapiAssumption == None \notin Key /\ MaxLines \in Nat /\ MaxSets \in Nat

VARIABLES dev,      \* the device: own key, port, mark, peers, routes, whether it is up, who runs, what is sent
          cur,      \* ipcSetPeer: the peer of the current section
          busy,     \* a set operation is in progress
          lines, sets, \* lines and sets so far
          named,    \* history: the peers of the sections of the last set
          refused   \* history: the peers whose last section ended with a refused line
vars == <<dev, cur, busy, lines, sets, named, refused>>

NoPeer == [attr |-> [a \in Attr |-> 0]]
Empty == [own |-> None, port |-> 0, mark |-> 0, peers |-> [k \in {} |-> NoPeer],
          routes |-> [p \in Prefix |-> None], up |-> FALSE, running |-> {}, sent |-> {}]
NoSection == [peer |-> None, dummy |-> FALSE, created |-> FALSE]

Peers(d) == DOMAIN d.peers

-----------------------------------------------------------------------------
(* The operations on the device that a line calls *)

\* removePeerLocked, for every peer of ks.
Without(d, ks) ==
    [d EXCEPT !.peers = [k \in Peers(d) \ ks |-> d.peers[k]],
              !.routes = [p \in Prefix |-> IF d.routes[p] \in ks THEN None ELSE d.routes[p]],
              !.running = @ \ ks]

\* SetPrivateKey removes the peer with that key.
SetPrivateKey(d, k) == IF k = d.own THEN d ELSE [Without(d, {k}) EXCEPT !.own = k]

NewPeer(d, k) == [d EXCEPT !.peers = [j \in Peers(d) \cup {k} |-> IF j = k THEN NoPeer ELSE d.peers[j]]]

-----------------------------------------------------------------------------
(* The lines.  Each gives the device, the section and whether it is accepted. *)

Result(d, c) == [dev |-> d, cur |-> c, ok |-> TRUE]
Refuse(d, c) == [dev |-> d, cur |-> c, ok |-> FALSE]

\* handlePostConfig, at the end of a section: the peer is started and a handshake begun.
PostConfig(d, c) ==
    IF c.peer = None \/ c.dummy \/ ~d.up THEN d ELSE
        [d EXCEPT !.running = @ \cup {c.peer}, !.sent = @ \cup {c.peer}]

\* The section of k begins.
Section(d, k) ==
    LET own == k = d.own
        new == ~own /\ k \notin Peers(d)
    IN  Result(IF new THEN NewPeer(d, k) ELSE d, [peer |-> k, dummy |-> own, created |-> new])

\* Fault: only the end of the input completes a section.
LoseSection(d, c, k) == {Section(d, k), Refuse(d, c)}

\* The section before ends with the line, also when the key is refused, or NewPeer fails.
HandlePublicKeyLine(d, c, k) ==
    LET e == PostConfig(d, c)
    IN  {Section(e, k), Refuse(e, NoSection)}

\* listen_port binds anew, and fwmark marks the sockets, both of which may fail on a
\* device that is up; a port that cannot be bound is forgotten.
HandleDeviceLine(d, c, line) ==
    CASE line.key = "private_key" -> {Result(SetPrivateKey(d, line.value), c)}
      [] line.key = "listen_port" ->
            {Result([d EXCEPT !.port = line.value], c)}
            \cup IF d.up THEN {Refuse([d EXCEPT !.port = 0], c)} ELSE {}
      [] line.key = "fwmark" ->
            {Result([d EXCEPT !.mark = line.value], c)}
            \cup IF d.up /\ d.mark # line.value THEN {Refuse([d EXCEPT !.mark = line.value], c)} ELSE {}
      [] line.key = "replace_peers" -> {Result(Without(d, Peers(d)), c)}
      [] OTHER -> {Refuse(d, c)}

UpdateOnly(d, c) ==
    IF c.created /\ ~c.dummy THEN Result(Without(d, {c.peer}), [c EXCEPT !.dummy = TRUE]) ELSE Result(d, c)

RemoveLine(d, c) == Result(IF c.dummy THEN d ELSE Without(d, {c.peer}), [c EXCEPT !.dummy = TRUE])

Insert(d, c, p) == IF c.dummy THEN d ELSE [d EXCEPT !.routes[p] = c.peer]

HandlePeerLine(d, c, line) ==
    CASE line.key = "update_only" -> {UpdateOnly(d, c)}
      [] line.key = "remove" -> {RemoveLine(d, c)}
      [] line.key \in Attr ->
            {Result(IF c.dummy THEN d ELSE [d EXCEPT !.peers[c.peer].attr[line.key] = line.value], c)}
      [] line.key = "replace_allowed_ips" ->
            {Result(IF c.dummy THEN d
                    ELSE [d EXCEPT !.routes = [p \in Prefix |-> IF @[p] = c.peer THEN None ELSE @[p]]], c)}
      [] line.key = "allowed_ip" -> {Result(Insert(d, c, line.value), c)}
      [] OTHER -> {Refuse(d, c)}

\* What a line may do in a set operation.
Handle(d, c, line) ==
    IF line.key = "public_key" THEN HandlePublicKeyLine(d, c, line.value)
    ELSE IF c.peer = None THEN HandleDeviceLine(d, c, line)
    ELSE HandlePeerLine(d, c, line)

Line ==
    [key : {"private_key"}, value : Key] \cup [key : {"public_key"}, value : Key]
    \cup [key : {"listen_port", "fwmark"}, value : {1}] \cup [key : Attr, value : {0, 1}]
    \cup [key : {"allowed_ip"}, value : Prefix]
    \cup [key : {"replace_peers", "update_only", "remove", "replace_allowed_ips", "invalid"}, value : {None}]

-----------------------------------------------------------------------------
Init ==
    /\ dev = Empty /\ cur = NoSection /\ busy = FALSE
    /\ lines = 0 /\ sets = 0
    /\ named = {} /\ refused = {}

BeginSet ==
    /\ ~busy /\ sets < MaxSets
    /\ busy' = TRUE /\ sets' = sets + 1 /\ lines' = 0
    /\ cur' = NoSection
    /\ dev' = [dev EXCEPT !.sent = {}] /\ named' = {}
    /\ UNCHANGED refused

\* The peer whose section it is, unless the section is of a placeholder.
Configured(c) == IF c.peer = None \/ c.dummy THEN {} ELSE {c.peer}

\* A refused line ends the operation: what came before it stays, and the section
\* is not completed.
SetLine(line) ==
    /\ busy /\ lines < MaxLines
    /\ \E r \in Handle(dev, cur, line) :
          /\ dev' = r.dev /\ cur' = r.cur /\ busy' = r.ok
          /\ named' = named \cup Configured(r.cur)
          /\ refused' = (refused \ r.dev.sent) \cup IF r.ok THEN {} ELSE Configured(r.cur)
    /\ lines' = lines + 1
    /\ UNCHANGED sets

\* A blank line, or the end of the input, also when reading it failed.
EndSet ==
    /\ busy
    /\ dev' = PostConfig(dev, cur) /\ busy' = FALSE
    /\ refused' = refused \ dev'.sent
    /\ UNCHANGED <<cur, lines, sets, named>>

\* Up starts every peer, Down stops them.
ChangeState ==
    /\ ~busy /\ sets < MaxSets
    /\ dev' = [dev EXCEPT !.up = ~@, !.running = IF dev.up THEN {} ELSE Peers(dev)]
    /\ named' = {} /\ refused' = {}
    /\ UNCHANGED <<cur, busy, lines, sets>>

Next == BeginSet \/ EndSet \/ ChangeState \/ \E line \in Line : SetLine(line)

Spec == Init /\ [][Next]_vars

-----------------------------------------------------------------------------
(* Properties *)

\* Between the sets on a device that is up, every peer it has runs, and every peer
\* the last set named was sent an initiation, except the peers whose own section a
\* refused line cut short: such a peer may be configured, and its routes lead to
\* it, but nothing starts it before a later section of it, or the device, does.
StartedUnlessRefused ==
    ~busy /\ dev.up =>
        /\ Peers(dev) \ dev.running \subseteq refused
        /\ (named \cap Peers(dev)) \ dev.sent \subseteq refused

=============================================================================
