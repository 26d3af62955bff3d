-------------------------------- MODULE Gso --------------------------------
(***************************************************************************)
(* Reading from a TUN device with virtio headers: handleVirtioRead          *)
(* (wireguard/tun/tun_linux.go) checks the header and gsoSplit             *)
(* (wireguard/tun/offload_linux.go) cuts the packet into segments.  One     *)
(* step is one segment.  A packet is its payload length, the fields the    *)
(* segments are given and whether the lengths in its headers fit it; ids   *)
(* and the offset of a sequence number have 16 bits and wrap at W.         *)
(***************************************************************************)
EXTENDS Naturals, Sequences, SequencesExt

CONSTANTS W,          \* 2^16: the lengths, sizes and ids of the headers wrap
          SeqWrap,    \* 2^32
          MaxPayload, \* bound: the payload of a packet, below W
          HdrLen,     \* IP and transport header: with the payload it fits 16 bits
          MaxBufs,    \* bound: buffers given to Read
          Ids, Seqs   \* the IPv4 ids and sequence numbers of packets

GsoAssumption == MaxPayload + HdrLen < W /\ HdrLen > 0

VARIABLES in,         \* the packet and its virtio header
          nbufs,      \* len(outBuffs)
          i, at,      \* the segment made next and where its payload begins
          out,        \* the buffers populated
          n, err      \* what is returned

vars == <<in, nbufs, i, at, out, n, err>>

GsoType == {"none", "tcp4", "tcp6", "udp", "other"}

Input == [gsoType : GsoType, version : {4, 6}, len : 1 .. MaxPayload, gsoSize : 1 .. MaxPayload,
          id : Ids, seq : Seqs, end : BOOLEAN, fits : BOOLEAN]

Init ==
    /\ in \in Input /\ nbufs \in 1 .. MaxBufs
    /\ i = 0 /\ at = 0 /\ out = <<>> /\ n = 0 /\ err = "none"

Fresh == i = 0 /\ n = 0 /\ err = "none"

\* The checks of handleVirtioRead on a packet that has to be cut: the type of the
\* virtio header and the IP version agree, the packet is not shorter than its TCP
\* header and its headers together, and the checksum is inside it.
Accepted ==
    /\ in.fits
    /\ \/ in.gsoType = "udp"
       \/ in.gsoType = "tcp4" /\ in.version = 4
       \/ in.gsoType = "tcp6" /\ in.version = 6

ReadWhole ==
    /\ Fresh /\ in.gsoType = "none" /\ in.fits
    /\ n' = 1
    /\ out' = <<[from |-> 0, to |-> in.len, id |-> in.id, seq |-> in.seq, end |-> in.end]>>
    /\ UNCHANGED <<in, nbufs, i, at, err>>

\* A packet that is not cut may be too long for its buffer.
Refuse ==
    /\ Fresh /\ ~Accepted /\ (in.gsoType = "none" => ~in.fits)
    /\ err' = "refused"
    /\ UNCHANGED <<in, nbufs, i, at, out, n>>

Splitting == Accepted /\ n = 0 /\ err = "none" /\ at < in.len

\* Fault: the end of the last segment is not brought back to the end of the packet.
FullSegmentEnd == at + in.gsoSize

SegmentEnd == IF at + in.gsoSize > in.len THEN in.len ELSE at + in.gsoSize

LastFlags(end) == in.end /\ end = in.len

\* The id of IPv4 and the sequence number of TCP go on from segment to segment;
\* the offset of the sequence number is a 16-bit product.
Segment(end) ==
    [from |-> at, to |-> end,
     id   |-> IF in.version = 4 THEN (in.id + i) % W ELSE in.id,
     seq  |-> IF in.gsoType = "udp" THEN in.seq ELSE (in.seq + ((in.gsoSize * i) % W)) % SeqWrap,
     end  |-> IF in.gsoType = "udp" THEN in.end ELSE LastFlags(end)]

Split ==
    /\ Splitting /\ i < nbufs
    /\ out' = Append(out, Segment(SegmentEnd))
    /\ i' = i + 1
    /\ at' = at + in.gsoSize
    /\ UNCHANGED <<in, nbufs, n, err>>

\* The last buffer that was populated is not counted.
TooManySegments ==
    /\ Splitting /\ i = nbufs
    /\ n' = i - 1 /\ err' = "too many"
    /\ UNCHANGED <<in, nbufs, i, at, out>>

Return ==
    /\ Accepted /\ n = 0 /\ err = "none" /\ at >= in.len
    /\ n' = i
    /\ UNCHANGED <<in, nbufs, i, at, out, err>>

Next == ReadWhole \/ Refuse \/ Split \/ TooManySegments \/ Return

Spec == Init /\ [][Next]_vars

-----------------------------------------------------------------------------
\* What a read returns is a prefix of the payload, in order and without a gap, each
\* TCP segment with the sequence number of its first byte.  Without an error it is
\* the whole payload, and only then FIN and PSH are returned; with too many
\* segments it is all but one of the buffers.
SegmentsArePrefix ==
    LET got == SubSeq(out, 1, n)
        tcp == in.gsoType \in {"tcp4", "tcp6"}
    IN  n > 0 \/ err # "none" =>
          /\ \A k \in DOMAIN got :
                /\ got[k].from = IF k = 1 THEN 0 ELSE got[k - 1].to
                /\ tcp => got[k].seq = (in.seq + got[k].from) % SeqWrap
                /\ tcp /\ in.end => got[k].end = (err = "none" /\ k = n)
          /\ err = "none" => got[n].to = in.len
          /\ err = "too many" => n = nbufs - 1

=============================================================================
