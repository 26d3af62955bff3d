------------------------------ MODULE BindStd ------------------------------
(***************************************************************************)
(* StdNetBind (wireguard/conn/bind_std.go): opening the two sockets on one  *)
(* port, closing them, receiving until the socket is closed, and sending a *)
(* batch with the fallback from UDP segmentation offload (GSO) to single   *)
(* datagrams.  The mutex is held over the whole of Open, so nothing reads  *)
(* the fields between its steps; Send copies the fields and lets go of it. *)
(* How a batch is packed into messages is left open: it is any split of    *)
(* the batch into runs.                                                    *)
(***************************************************************************)
EXTENDS Naturals, Sequences, FiniteSets, SequencesExt

CONSTANTS Hosts,       \* the sets of address families a host may support
          Sender,      \* the goroutines that call Send
          Port,        \* the UDP ports of the host, 0 not among them
          Batch,       \* the datagrams of one call of Send
          MaxTries,    \* how often Open may start again (100 in the code)
          MaxOpens,    \* bound: calls of Open
          MaxSends,    \* bound: calls of Send
          None

BindStdAssumption == /\ 0 \notin Port /\ Port # {}
                            /\ Batch \in Nat \ {0}

VARIABLES host,        \* the families the host supports
          conn, tx,    \* s.ipv4 and s.ipv6; their TxOffload flags
          blackhole,   \* s.blackhole4 and s.blackhole6
          live,        \* the sockets that are open
          leaked,      \* history: the sockets listenNet opened and did not return
          receivers,   \* the sockets some ReceiveFunc is reading
          open,        \* the call of Open that holds the mutex
          send,        \* the calls of Send
          opens, sends \* calls made so far

vars == <<host, conn, tx, blackhole, live, leaked, receivers, open, send,
          opens, sends>>

Family == {4, 6}

Idle == [pc |-> "idle"]

\* A message of one datagram has no segmentation size, a longer one has.
Segmented(msg) == Len(msg) > 1

Whole == [i \in 1 .. Batch |-> i]

Singles == [i \in 1 .. Batch |-> <<i>>]

\* Every way of packing the batch into consecutive runs.
Packings ==
    LET Ends(cut) == SetToSortSeq(cut \cup {0, Batch}, <)
    IN  {[k \in 1 .. Len(Ends(cut)) - 1 |-> SubSeq(Whole, Ends(cut)[k] + 1, Ends(cut)[k + 1])] :
            cut \in SUBSET (1 .. Batch - 1)}

Unlocked == open.pc = "idle"

-----------------------------------------------------------------------------
Init ==
    /\ host \in Hosts
    /\ conn = [f \in Family |-> None]
    /\ tx = [f \in Family |-> FALSE]
    /\ blackhole = [f \in Family |-> FALSE]
    /\ live = {} /\ leaked = {} /\ receivers = {}
    /\ open = Idle
    /\ send = [s \in Sender |-> Idle]
    /\ opens = 0 /\ sends = 0

\* The outcomes of listenNet: a socket on the port asked for, or on any port for
\* 0; no such family; the port in use; another error.  An error leaves port 0, and
\* when it is the one of finding out the port, the socket stays open.
ListenNet(f, port) ==
    LET Sock(p)  == [family |-> f, port |-> p, open |-> opens, try |-> open.tries]
        Bound    == {Sock(p) : p \in IF port = 0 THEN Port ELSE {port}}
        Error(e) == [err |-> e, sock |-> None, port |-> 0, left |-> None]
    IN  IF f \notin host THEN {Error("EAFNOSUPPORT")}
        ELSE {Error("EADDRINUSE"), Error("other")}
             \cup {[Error("other") EXCEPT !.left = s] : s \in Bound}
             \cup {[err |-> "nil", sock |-> s, port |-> s.port, left |-> None] : s \in Bound}

\* The sockets a call of listenNet opens, and those among them that nothing knows.
Listened(r, others) ==
    /\ live' = others \cup ({r.sock, r.left} \ {None})
    /\ leaked' = leaked \cup ({r.left} \ {None})

OpenCalled(uport) ==
    /\ Unlocked /\ opens < MaxOpens
    /\ opens' = opens + 1
    /\ open' = IF \A f \in Family : conn[f] = None
               THEN [pc |-> "v4", uport |-> uport, tries |-> 0, v4 |-> None, port |-> uport]
               ELSE Idle   \* ErrBindAlreadyOpen
    /\ UNCHANGED <<host, conn, tx, blackhole, live, leaked, receivers, send, sends>>

OpenV4 ==
    /\ open.pc = "v4"
    /\ \E r \in ListenNet(4, open.port) :
          /\ Listened(r, live)
          /\ open' = IF r.err \in {"nil", "EAFNOSUPPORT"}
                     THEN [open EXCEPT !.pc = "v6", !.v4 = r.sock, !.port = r.port]
                     ELSE Idle
    /\ UNCHANGED <<host, conn, tx, blackhole, receivers, send, opens, sends>>

\* Fault: the IPv4 socket is left open when the IPv6 one fails.
KeepV4(v4) == live

CloseV4(v4) == live \ {v4}

\* The end of Open with the sockets it has: the fields, the offload the kernel
\* offers for each, one receive function per socket, and the port.
Opened(v4, v6) ==
    LET socks == [f \in Family |-> IF f = 4 THEN v4 ELSE v6]
        has   == {f \in Family : socks[f] # None}
    IN  /\ conn' = socks
        /\ tx' \in {t \in [Family -> BOOLEAN] : \A f \in Family : t[f] => f \in has}
        /\ receivers' = receivers \cup {socks[f] : f \in has}
        /\ open' = Idle

V4Port == open.port

\* What follows v4conn.Close(): on a host without IPv4 the pointer is nil, and the
\* call panics.
AfterClose(o) == IF open.v4 = None THEN [pc |-> "panicked"] ELSE o

\* With the port in use and any port allowed, both are tried again.
OpenV6 ==
    /\ open.pc = "v6"
    /\ \E r \in ListenNet(6, V4Port) :
          \/ /\ r.err = "EADDRINUSE" /\ open.uport = 0 /\ open.tries < MaxTries
             /\ Listened(r, CloseV4(open.v4))
             /\ open' = AfterClose([open EXCEPT !.pc = "v4", !.v4 = None, !.port = open.uport,
                                                !.tries = @ + 1])
             /\ UNCHANGED <<conn, tx, receivers>>
          \/ /\ r.err = "other" \/ (r.err = "EADDRINUSE" /\ (open.uport # 0 \/ open.tries = MaxTries))
             /\ Listened(r, CloseV4(open.v4))
             /\ open' = AfterClose(Idle)
             /\ UNCHANGED <<conn, tx, receivers>>
          \/ /\ r.err \in {"nil", "EAFNOSUPPORT"}
             /\ Listened(r, live)
             /\ Opened(open.v4, r.sock)
    /\ UNCHANGED <<host, blackhole, send, opens, sends>>

Close ==
    /\ Unlocked
    /\ \E f \in Family : conn[f] # None
    /\ live' = live \ {conn[f] : f \in Family}
    /\ conn' = [f \in Family |-> None]
    /\ blackhole' = [f \in Family |-> FALSE]
    /\ tx' = [f \in Family |-> FALSE]
    /\ UNCHANGED <<host, leaked, receivers, open, send, opens, sends>>

\* A receive function reads the socket it was made with, never the fields: once
\* the socket is closed the read fails and the function is not called again.
ReceiveClosed(s) ==
    /\ s \in receivers /\ s \notin live
    /\ receivers' = receivers \ {s}
    /\ UNCHANGED <<host, conn, tx, blackhole, live, leaked, open, send, opens, sends>>

BindSocketToInterface(f, hole) ==
    /\ Unlocked /\ conn[f] # None
    /\ blackhole' = [blackhole EXCEPT ![f] = hole]
    /\ UNCHANGED <<host, conn, tx, live, leaked, receivers, open, send, opens, sends>>

-----------------------------------------------------------------------------
\* The fields are copied under the mutex; what follows uses the copies.
SendCalled(s, f) ==
    /\ Unlocked /\ send[s].pc = "idle" /\ sends < MaxSends
    /\ sends' = sends + 1
    /\ \E msgs \in (IF tx[f] THEN Packings ELSE {Singles}) :
         send' = [send EXCEPT ![s] =
            [pc |-> IF blackhole[f] \/ conn[f] = None THEN "done" ELSE "write",
             sock |-> conn[f], offload |-> tx[f], msgs |-> msgs, retried |-> FALSE,
             wire |-> <<>>, again |-> <<>>,
             err |-> IF conn[f] = None /\ ~blackhole[f] THEN "EAFNOSUPPORT" ELSE "nil",
             hole |-> blackhole[f]]]
    /\ UNCHANGED <<host, conn, tx, blackhole, live, leaked, receivers, open, opens>>

\* Fault: the next write starts from the beginning of the batch.
SameMsgs(msgs, n) == IF n = Len(msgs) THEN <<>> ELSE msgs

Rest(msgs, n) == SubSeq(msgs, n + 1, Len(msgs))

\* What has been put on the wire, in the first attempt or in the second.
Put(x, n) ==
    LET sent == FlattenSeq(SubSeq(x.msgs, 1, n))
    IN  IF x.retried THEN [x EXCEPT !.again = @ \o sent] ELSE [x EXCEPT !.wire = @ \o sent]

\* One WriteBatch: some messages from the front are written.
WriteSome(s) ==
    /\ send[s].pc = "write" /\ send[s].sock \in live
    /\ \E n \in 1 .. Len(send[s].msgs) :
         send' = [send EXCEPT ![s] =
            [Put(send[s], n) EXCEPT !.msgs = Rest(send[s].msgs, n),
                                    !.pc = IF n = Len(send[s].msgs) THEN "done" ELSE "write"]]
    /\ UNCHANGED <<host, conn, tx, blackhole, live, leaked, receivers, open, opens, sends>>

\* The write fails: the socket is closed, or the kernel refuses the message.
WriteFails(s) ==
    /\ send[s].pc = "write"
    /\ send' = [send EXCEPT ![s].pc = "done", ![s].err = "other"]
    /\ UNCHANGED <<host, conn, tx, blackhole, live, leaked, receivers, open, opens, sends>>

\* EIO for a segmented message: the call goes on without the offload.
WriteRefused(s) ==
    /\ send[s].pc = "write" /\ send[s].sock \in live
    /\ Segmented(Head(send[s].msgs))
    /\ send' = [send EXCEPT ![s].pc = "disable"]
    /\ UNCHANGED <<host, conn, tx, blackhole, live, leaked, receivers, open, opens, sends>>

ClearOffload(f) == [tx EXCEPT ![f] = FALSE]

Disable(s) ==
    /\ send[s].pc = "disable" /\ Unlocked
    /\ tx' = ClearOffload(send[s].sock.family)
    /\ send' = [send EXCEPT ![s].pc = "write", ![s].offload = FALSE, ![s].retried = TRUE,
                            ![s].msgs = Singles]
    /\ UNCHANGED <<host, conn, blackhole, live, leaked, receivers, open, opens, sends>>

Return(s) ==
    /\ send[s].pc = "done"
    /\ send' = [send EXCEPT ![s] = Idle]
    /\ UNCHANGED <<host, conn, tx, blackhole, live, leaked, receivers, open, opens, sends>>

SendStep(s) == WriteSome(s) \/ WriteRefused(s) \/ Disable(s) \/ Return(s)

Next ==
    \/ \E p \in Port \cup {0} : OpenCalled(p)
    \/ OpenV4 \/ OpenV6 \/ Close
    \/ \E s \in receivers : ReceiveClosed(s)
    \/ \E f \in Family, b \in BOOLEAN : BindSocketToInterface(f, b)
    \/ \E s \in Sender : SendStep(s) \/ WriteFails(s) \/ \E f \in Family : SendCalled(s, f)

Spec == Init /\ [][Next]_vars

-----------------------------------------------------------------------------
\* Between calls of Open the open sockets are the ones in the fields: no path
\* through the retries and the errors of Open, or through Close, leaves one behind,
\* except a socket whose port listenNet could not find out, which it does not
\* close.  Open panics only on a host without IPv4.
NoSocketLeaks ==
    /\ Unlocked => live \ leaked = {conn[f] : f \in Family} \ {None}
    /\ open.pc = "panicked" => 4 \notin host

\* What a call has put on the wire is a prefix of its batch, in order, and after
\* the fallback a prefix again; a call that returns without an error has put the
\* whole batch there in its last attempt.  A datagram is on the wire twice only
\* after a fallback.
BatchInOrder ==
    \A s \in Sender : send[s] # Idle =>
        /\ IsPrefix(send[s].wire, Whole) /\ IsPrefix(send[s].again, Whole)
        /\ send[s].again # <<>> => send[s].retried
        /\ (send[s].pc = "done" /\ send[s].err = "nil" /\ ~send[s].hole) =>
              (IF send[s].retried THEN send[s].again ELSE send[s].wire) = Whole

=============================================================================
