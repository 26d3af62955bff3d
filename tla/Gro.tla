-------------------------------- MODULE Gro --------------------------------
(***************************************************************************)
(* Generic receive offload in wireguard/tun/offload_linux.go: handleGRO     *)
(* looks at a vector of packets from the tunnel one by one, merges each    *)
(* with an earlier packet of its flow where it can, and at the end writes  *)
(* the virtio headers that tell the kernel how to cut the merged packets   *)
(* up again.  A packet is a record of what the code looks at; a buffer is  *)
(* the packets whose payloads it holds, the first one's header in front.   *)
(* Lengths are payload lengths.                                            *)
(***************************************************************************)
EXTENDS Integers, Sequences, FiniteSets, SequencesExt

CONSTANTS Kinds,       \* the packets a vector is made of
          MaxPackets,  \* bound: packets in a vector
          Cap,         \* the payload a buffer has room for
          SeqWrap,     \* TCP sequence numbers count modulo SeqWrap (2^32)
          CanUDPGRO    \* the kernel has segmentation offload for UDP

Packet == [proto : {"tcp", "udp"}, flow : Nat, tos : Nat, seq : 0 .. SeqWrap - 1, len : Nat,
           psh : BOOLEAN, ok : BOOLEAN, whole : BOOLEAN]

GroAssumption == Kinds \subseteq Packet

VARIABLES pkts,        \* the vector as it came
          i,           \* the packet looked at next
          bufs,        \* bufs[n]: the payloads it holds, the PSH flag of its header
          items,       \* itemsByFlow of both tables
          toWrite,     \* the buffers to be written
          hdr,         \* the gsoSize of each virtio header, Stale when not written
          accounted

vars == <<pkts, i, bufs, items, toWrite, hdr, accounted>>

Stale == -1

Flow(p) == <<p.proto, p.flow>>

EmptyTables == [f \in {Flow(p) : p \in Kinds} |-> <<>>]

Size(parts) == FoldSeq(LAMBDA k, n : pkts[k].len + n, 0, parts)

Init ==
    /\ pkts \in UNION {[1 .. n -> Kinds] : n \in 1 .. MaxPackets}
    /\ i = 1
    /\ bufs = [n \in DOMAIN pkts |-> [parts |-> <<n>>, psh |-> pkts[n].psh]]
    /\ items = EmptyTables
    /\ toWrite = <<>> /\ hdr = [n \in DOMAIN pkts |-> Stale] /\ accounted = FALSE

\* insert: the item of a packet that is not merged.
NewTcpItem(n) ==
    [buf |-> n, gsoSize |-> pkts[n].len, numMerged |-> 0, invalid |-> FALSE,
     seq |-> pkts[n].seq, psh |-> pkts[n].psh]

NewUdpItem(n, invalid) ==
    [buf |-> n, gsoSize |-> pkts[n].len, numMerged |-> 0, invalid |-> invalid]

\* The header of the buffer an item is about is the one of its first packet.
SameHeaders(p, item, bs) == p.tos = pkts[Head(bs[item.buf].parts)].tos

\* Fault: a packet is appended behind a shorter one.
AppendsAnything(p, item, bs) == p.len <= item.gsoSize

\* Nothing may follow a packet shorter than gsoSize, and nothing longer either.
Appendable(p, item, bs) == Size(bs[item.buf].parts) % item.gsoSize = 0 /\ p.len <= item.gsoSize

UdpCanCoalesce(p, item, bs) == SameHeaders(p, item, bs) /\ Appendable(p, item, bs)

\* tcpPacketsCanCoalesce: behind the item or in front of it, by sequence number.
TcpCanCoalesce(p, item, bs) ==
    IF ~SameHeaders(p, item, bs) THEN "no"
    ELSE IF p.seq = (item.seq + item.gsoSize * (item.numMerged + 1)) % SeqWrap
         THEN IF ~item.psh /\ Appendable(p, item, bs) THEN "append" ELSE "no"
    ELSE IF (p.seq + p.len) % SeqWrap = item.seq
         THEN IF ~p.psh /\ p.len >= item.gsoSize /\ ~(p.len > item.gsoSize /\ item.numMerged > 0)
              THEN "prepend" ELSE "no"
    ELSE "no"

\* The order in which checksums are looked at; a merged item was valid before.
Validity(n, item, bs) ==
    IF item.numMerged = 0 /\ (item.invalid \/ ~pkts[Head(bs[item.buf].parts)].ok) THEN "item"
    ELSE IF ~pkts[n].ok THEN "packet" ELSE "valid"

\* What is tried before a merge: the room in the buffer, then the checksums.
MergeResult(n, item, bs) ==
    IF Size(bs[item.buf].parts) + pkts[n].len > Cap THEN "full"
    ELSE IF Validity(n, item, bs) # "valid" THEN Validity(n, item, bs) ELSE "success"

Appended(n, b) == [parts |-> Append(b.parts, n), psh |-> b.psh \/ pkts[n].psh]

\* coalesceUDPPackets: the result, the item and the buffers.
UdpMerge(n, item, bs) ==
    IF MergeResult(n, item, bs) # "success"
    THEN [result |-> MergeResult(n, item, bs), item |-> item, bufs |-> bs]
    ELSE [result |-> "success", item |-> [item EXCEPT !.numMerged = @ + 1],
          bufs |-> [bs EXCEPT ![item.buf] = Appended(n, @)]]

\* coalesceTCPPackets.  To put a packet in front the two buffers are swapped.
TcpMerge(can, n, item, bs) ==
    LET p     == pkts[n]
        grown == [item EXCEPT !.numMerged = @ + 1,
                              !.gsoSize = IF p.len > @ THEN p.len ELSE @,
                              !.seq = IF can = "prepend" THEN p.seq ELSE @,
                              !.psh = @ \/ (can = "append" /\ p.psh)]
    IN  IF MergeResult(n, item, bs) # "success"
        THEN [result |-> MergeResult(n, item, bs), item |-> item, bufs |-> bs]
        ELSE [result |-> "success", item |-> grown,
              bufs |-> IF can = "append" THEN [bs EXCEPT ![item.buf] = Appended(n, @)]
                       ELSE [bs EXCEPT ![item.buf] = [parts |-> <<n>> \o @.parts, psh |-> p.psh],
                                       ![n] = bs[item.buf]]]

\* One round of tcpGRO's loop over the items of the flow, from the last.  An item
\* whose checksum turns out to be wrong leaves the table.
TryItem(n, acc, k) ==
    LET item == acc.items[k]
        can  == TcpCanCoalesce(pkts[n], item, acc.bufs)
        m    == TcpMerge(can, n, item, acc.bufs)
    IN  IF acc.result # "none" \/ can = "no" THEN acc
        ELSE CASE m.result = "success" -> [result |-> "coalesced", bufs |-> m.bufs,
                                           items |-> [acc.items EXCEPT ![k] = m.item]]
               [] m.result = "item"    -> [acc EXCEPT !.items = RemoveAt(@, k)]
               [] m.result = "packet"  -> [acc EXCEPT !.result = "noop"]
               [] m.result = "full"    -> acc

TcpGRO(n) ==
    LET old == items[Flow(pkts[n])]
        end == FoldLeft(LAMBDA acc, k : TryItem(n, acc, k),
                        [result |-> "none", items |-> old, bufs |-> bufs],
                        [k \in 1 .. Len(old) |-> Len(old) + 1 - k])
    IN  IF end.result = "none"
        THEN [end EXCEPT !.result = "insert", !.items = Append(@, NewTcpItem(n))] ELSE end

LastItem(its) == Len(its)

\* udpGRO: only the last item of the flow is tried.
UdpGRO(n) ==
    LET old  == items[Flow(pkts[n])]
        k    == LastItem(old)
        can  == old # <<>> /\ UdpCanCoalesce(pkts[n], old[k], bufs)
        m    == UdpMerge(n, old[k], bufs)
    IN  IF can /\ m.result = "success"
        THEN [result |-> "coalesced", items |-> [old EXCEPT ![k] = m.item], bufs |-> m.bufs]
        ELSE [result |-> "insert", bufs |-> bufs,
              items |-> Append(old, NewUdpItem(n, can /\ m.result = "packet"))]

\* packetIsGROCandidate, and the early returns of tcpGRO and udpGRO: fragments,
\* wrong lengths, other flags, no payload.
Candidate(p) == p.whole /\ p.len > 0 /\ (p.proto = "udp" => CanUDPGRO)

Noop ==
    /\ i <= Len(pkts) /\ ~Candidate(pkts[i])
    /\ hdr' = [hdr EXCEPT ![i] = 0]
    /\ toWrite' = Append(toWrite, i)
    /\ i' = i + 1
    /\ UNCHANGED <<pkts, bufs, items, accounted>>

\* One packet of handleGRO.
Look(proto, gro) ==
    /\ i <= Len(pkts) /\ Candidate(pkts[i]) /\ pkts[i].proto = proto
    /\ items' = [items EXCEPT ![Flow(pkts[i])] = gro.items]
    /\ bufs' = gro.bufs
    /\ hdr' = IF gro.result = "noop" THEN [hdr EXCEPT ![i] = 0] ELSE hdr
    /\ toWrite' = IF gro.result = "coalesced" THEN toWrite ELSE Append(toWrite, i)
    /\ i' = i + 1
    /\ UNCHANGED <<pkts, accounted>>

\* applyTCPCoalesceAccounting and applyUDPCoalesceAccounting: the items still in
\* the tables get their headers.  Write resets the tables when it returns.
Account ==
    /\ i > Len(pkts) /\ ~accounted
    /\ hdr' = [n \in DOMAIN hdr |->
                 LET of == {it \in UNION {ToSet(items[f]) : f \in DOMAIN items} : it.buf = n}
                 IN  IF of = {} THEN hdr[n]
                     ELSE LET it == CHOOSE x \in of : TRUE
                          IN  IF it.numMerged > 0 THEN it.gsoSize ELSE 0]
    /\ accounted' = TRUE
    /\ items' = EmptyTables
    /\ UNCHANGED <<pkts, i, bufs, toWrite>>

Next ==
    \/ Noop
    \/ Look("tcp", TcpGRO(i))
    \/ Look("udp", UdpGRO(i))
    \/ Account

Spec == Init /\ [][Next]_vars

-----------------------------------------------------------------------------
Written == [k \in DOMAIN toWrite |-> bufs[toWrite[k]].parts]

Merged(n) == Len(bufs[n].parts) > 1

\* The one packet of the buffer is a TCP segment with a wrong checksum: when a later
\* segment is compared with it, its item leaves the table, and nothing writes its header.
LeftTable(n) == LET p == pkts[Head(bufs[n].parts)] IN p.proto = "tcp" /\ ~p.ok

\* Cutting every written buffer where its header says gives back the packets of
\* the vector, each once, with its own length and sequence number: a merged buffer
\* is cut into its packets, and any other one has a header that says not to cut it.
\* The exception is a TCP segment whose checksum was found wrong, which is written
\* behind whatever the ten bytes before it held.
CutsBack ==
    accounted =>
        /\ IsInjective(FlattenSeq(Written)) /\ ToSet(FlattenSeq(Written)) = DOMAIN pkts
        /\ \A n \in ToSet(toWrite) :
              IF Merged(n)
              THEN LET b == bufs[n].parts
                   IN  \A k \in DOMAIN b :
                         /\ IF k < Len(b) THEN pkts[b[k]].len = hdr[n] ELSE pkts[b[k]].len <= hdr[n]
                         /\ pkts[b[k]].proto = "tcp" =>
                              pkts[b[k]].seq = (pkts[b[1]].seq + (k - 1) * hdr[n]) % SeqWrap
              ELSE hdr[n] = 0 \/ (hdr[n] = Stale /\ LeftTable(n))

=============================================================================
