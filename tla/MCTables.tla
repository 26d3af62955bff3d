------------------------------- MODULE MCTables -------------------------------
(***************************************************************************)
(* The tables and the computations on packets.  The anti-replay filter     *)
(* (Replay), with two bits in a block and four blocks in the ring, so that *)
(* the window is six counters, and twelve counters below the limit: a      *)
(* counter can jump over the whole ring, and can be at the limit or beyond *)
(* it.  Next to it the trie of allowed addresses, the configuration        *)
(* protocol, the rate limiter of handshake messages, with two workers on   *)
(* one address and with one on two, and the merging and cutting of packets *)
(* for the kernel.  They share no state, so a behaviour runs one of them,  *)
(* which the initial state chooses, and the others stay where they start.  *)
(***************************************************************************)
EXTENDS Replay, Integers, Sequences

CONSTANT None

Tcp(seqs, lens, pshs, oks) ==
    [proto : {"tcp"}, flow : {1}, tos : {0}, seq : seqs, len : lens, psh : pshs, ok : oks, whole : {TRUE}]
Udp(flows, toss, lens, oks, wholes) ==
    [proto : {"udp"}, flow : flows, tos : toss, seq : {0}, len : lens, psh : {FALSE}, ok : oks, whole : wholes]

\* Segments of one flow around the end of the sequence space: plain ones, ones with PSH
\* and ones with a wrong checksum.
TcpKinds == Tcp({7, 0, 1}, {1, 2}, {FALSE}, {TRUE}) \cup Tcp({0, 1}, {1}, {TRUE}, {TRUE})
               \cup Tcp({0}, {1}, {FALSE}, {FALSE})

\* Datagrams of two flows and of packets that are not candidates.
UdpKinds == Udp({1}, {0}, {1, 2}, BOOLEAN, {TRUE}) \cup Udp({1}, {1}, {1}, {TRUE}, {TRUE})
              \cup Udp({2}, {0}, {1}, {TRUE}, {TRUE}) \cup Tcp({0}, {0}, {FALSE}, {TRUE})

\* The component that runs in this behaviour; the others keep their initial state.
VARIABLE component

\* device/allowedips.go
VARIABLES heap, root, entries
trieVars == <<heap, root, entries>>

\* device/uapi.go
VARIABLES dev, cur, busy, lines, sets, named, refused
uapiVars == <<dev, cur, busy, lines, sets, named, refused>>

\* ratelimiter/ratelimiter.go
VARIABLES table, tokens, idle, mu, pc, ip, entry, collector, ticker, tick, closed,
          budget, crowded
rateVars == <<table, tokens, idle, mu, pc, ip, entry, collector, ticker, tick, closed,
              budget, crowded>>

\* tun/offload_linux.go: handleGRO
VARIABLES pkts, groI, bufs, items, toWrite, hdr, accounted
groVars == <<pkts, groI, bufs, items, toWrite, hdr, accounted>>

\* tun/tun_linux.go and offload_linux.go: handleVirtioRead
VARIABLES in, nbufs, gsoI, at, out, n, err
gsoVars == <<in, nbufs, gsoI, at, out, n, err>>

Trie == INSTANCE AllowedIPs WITH
    W <- 3, Peer <- {"p1", "p2"}, MaxPrefixes <- 3

Small == INSTANCE AllowedIPs WITH
    W <- 2, Peer <- {"p1", "p2"}, MaxPrefixes <- 3

Conf == INSTANCE Uapi WITH
    Key <- {"k1", "k2"}, Prefix <- {"a"}, Attr <- {"persistent_keepalive_interval"},
    MaxLines <- 4, MaxSets <- 2

Rate == INSTANCE RateLimiter WITH
    Worker <- {"w1", "w2"}, IP <- {"i1", "i2"}, packetCost <- 1,
    packetsBurstable <- 3, garbageCollectTime <- 3

GroTcp == INSTANCE Gro WITH
    Kinds <- TcpKinds, MaxPackets <- 4, Cap <- 5, SeqWrap <- 8, CanUDPGRO <- TRUE,
    i <- groI

GroUdp == INSTANCE Gro WITH
    Kinds <- UdpKinds, MaxPackets <- 4, Cap <- 4, SeqWrap <- 8, CanUDPGRO <- TRUE,
    i <- groI

Cut == INSTANCE Gso WITH
    W <- 16, SeqWrap <- 32, MaxPayload <- 8, HdrLen <- 4, MaxBufs <- 4, Ids <- {0, 14},
    Seqs <- {0, 30}, i <- gsoI

ASSUME Trie!TrieAssumption /\ Small!TrieAssumption /\ Conf!UapiAssumption /\
       Rate!RateLimiterAssumption /\ GroTcp!GroAssumption /\ GroUdp!GroAssumption /\
       Cut!GsoAssumption

components == <<vars, trieVars, uapiVars, rateVars, groVars, gsoVars>>

MCInit ==
    /\ component \in {"replay", "allowed_ips", "routes", "uapi", "ratelimiter",
                      "ratelimiter_alone", "gro_tcp", "gro_udp", "gso"}
    /\ Init
    /\ Trie!Init
    /\ Conf!Init
    /\ Rate!Init
    /\ CASE component = "gro_tcp" -> GroTcp!Init
         [] component = "gro_udp" -> GroUdp!Init
         [] OTHER -> pkts = <<>> /\ groI = 1 /\ bufs = <<>> /\ items = <<>> /\ toWrite = <<>> /\ hdr = <<>> /\ accounted = FALSE
    /\ IF component = "gso" THEN Cut!Init ELSE in = 0 /\ nbufs = 1 /\ gsoI = 0 /\ at = 0 /\ out = <<>> /\ n = 0 /\ err = "none"

MCNext ==
    /\ UNCHANGED component
    /\ \/ component = "replay" /\ Next
          /\ UNCHANGED <<trieVars, uapiVars, rateVars, groVars, gsoVars>>
       \/ component = "allowed_ips" /\ Trie!Next
          /\ UNCHANGED <<vars, uapiVars, rateVars, groVars, gsoVars>>
       \/ component = "routes" /\ Small!Next
          /\ UNCHANGED <<vars, uapiVars, rateVars, groVars, gsoVars>>
       \/ component = "uapi" /\ Conf!Next
          /\ UNCHANGED <<vars, trieVars, rateVars, groVars, gsoVars>>
       \/ component = "ratelimiter" /\ Rate!Next /\ ip'["w1"] # "i2" /\ ip'["w2"] # "i2"
          /\ UNCHANGED <<vars, trieVars, uapiVars, groVars, gsoVars>>
       \/ component = "ratelimiter_alone" /\ Rate!Next /\ ip'["w2"] = None
          /\ UNCHANGED <<vars, trieVars, uapiVars, groVars, gsoVars>>
       \/ component = "gro_tcp" /\ GroTcp!Next
          /\ UNCHANGED <<vars, trieVars, uapiVars, rateVars, gsoVars>>
       \/ component = "gro_udp" /\ GroUdp!Next
          /\ UNCHANGED <<vars, trieVars, uapiVars, rateVars, gsoVars>>
       \/ component = "gso" /\ Cut!Next
          /\ UNCHANGED <<vars, trieVars, uapiVars, rateVars, groVars>>

MCSpec ==
    /\ MCInit /\ [][MCNext]_<<components, component>>
    /\ Rate!Fairness

------------------------------------------------------------------------------
\* A lookup finds the peer of the longest prefix that contains the address.
\* (AllowedIPs.)
LongestPrefixWins == component = "allowed_ips" => Trie!LongestPrefixWins

\* The trie implements the table of prefixes and their peers. (AllowedIPs.)
ImplementsTable == Small!Table!Init /\ [][component = "routes" => [Small!Table!Next]_(Small!routes)]_trieVars

\* Cutting every written buffer where its header says gives back the packets of
\* the vector, each once, with its own length and sequence number, except for a
\* segment whose checksum was found wrong, which has no header. (Gro.)
CutsBack == component \in {"gro_tcp", "gro_udp"} => GroTcp!CutsBack

\* What a read returns is a prefix of the payload, in order and without a gap; it is
\* the whole payload unless the read says that there were too many segments. (Gso.)
SegmentsArePrefix == component = "gso" => Cut!SegmentsArePrefix

\* Between the sets on a device that is up, every peer runs and every peer the last
\* set named was sent an initiation, except those whose own section a refused line
\* cut short. (Uapi.)
StartedUnlessRefused == component = "uapi" => Conf!StartedUnlessRefused

\* An address whose packets come one after the other is allowed no more than an
\* ideal bucket would allow it, up to one packet: the one a worker lets pass with
\* an entry that was removed after it was looked up. (RateLimiter.)
WithinBudget == component \in {"ratelimiter", "ratelimiter_alone"} => Rate!WithinBudget


==============================================================================
