------------------------------ MODULE MCPlatform ------------------------------
(***************************************************************************)
(* The components next to the operating system and to the clients.  The    *)
(* named pipe file of Windows (PipeFile), with two operations and two      *)
(* deadlines; the UDP binds of Windows (WinRing) and of the other systems  *)
(* (BindStd), the route listener and the TUN listeners of Linux, the proxy *)
(* servers, and the dialler of the userspace stack.  They share no state   *)
(* here, so a behaviour runs one of them, which the initial state chooses, *)
(* and the others stay where they start.                                   *)
(***************************************************************************)
EXTENDS PipeFile, Integers, Sequences

CONSTANT None

NoDeadline == -1

\* The component that runs in this behaviour; the others keep their initial state.
VARIABLE component

\* conn/bind_windows.go
VARIABLES isOpen, readers, writers, rx, ringTx, rxPosted, rxDone, data, txPosted,
          txDone, iocp, armed, recv, ringSend, txMu, panicked, arrivals, ringSends,
          ringOpens, failures, lost
ringVars == <<isOpen, readers, writers, rx, ringTx, rxPosted, rxDone, data, txPosted,
              txDone, iocp, armed, recv, ringSend, txMu, panicked, arrivals, ringSends,
              ringOpens, failures, lost>>

\* conn/bind_std.go
VARIABLES host, conn, bindTx, blackhole, live, leaked, receivers, bindOpen, bindSend, bindOpens,
          bindSends
bindVars == <<host, conn, bindTx, blackhole, live, leaked, receivers, bindOpen, bindSend,
              bindOpens, bindSends>>

\* device/sticky_linux.go
VARIABLES route, routeChanges, srcIfidx, clearSrcOnTx, routeSock, rounds, reqPeer,
          listener, routeCancelled, asked, astray, overlapped
routeVars == <<route, routeChanges, srcIfidx, clearSrcOnTx, routeSock, rounds, reqPeer,
               listener, routeCancelled, asked, astray, overlapped>>

\* tun/tun_linux.go
VARIABLES link, tunChanges, tunSock, sockOpen, nl, todo, out, wasEverUp, hack, last,
          tunFound, hackListenerClosed, events, eventsClosed, shutdown, tunCancelled,
          fileOpen, tunCloser, mtu
tunVars == <<link, tunChanges, tunSock, sockOpen, nl, todo, out, wasEverUp, hack, last,
             tunFound, hackListenerClosed, events, eventsClosed, shutdown, tunCancelled,
             fileOpen, tunCloser, mtu>>

\* proxy/pkg/mixed, socks5, socks4 and http
VARIABLES user, ctx, proxyServer, request, proxyPhase, gone, proxyOpen, target, udp,
          answers
proxyVars == <<user, ctx, proxyServer, request, proxyPhase, gone, proxyOpen, target,
               udp, answers>>

\* tun/netstack/tun.go
VARIABLES has, accept, lane, dialServer, round, answer, channel, dialFound, lastErr,
          dialPhase, addrs, next, left, start, dialResult
dialVars == <<has, accept, lane, dialServer, round, answer, channel, dialFound, lastErr,
              dialPhase, addrs, next, left, start, dialResult>>

Ring == INSTANCE WinRing WITH
    Sender <- {"s1", "s2"}, R <- 2, Wrap <- 4, MaxArrivals <- 3, MaxSends <- 3,
    MaxOpens <- 2, MaxFailures <- 1, tx <- ringTx, send <- ringSend, sends <- ringSends,
    opens <- ringOpens

Bind == INSTANCE BindStd WITH
    Hosts <- {{4}, {6}, {4, 6}}, Sender <- {"s1"}, Port <- {1, 2}, Batch <- 1,
    MaxTries <- 1, MaxOpens <- 2, MaxSends <- 1, tx <- bindTx, open <- bindOpen,
    send <- bindSend, opens <- bindOpens, sends <- bindSends

BindSend == INSTANCE BindStd WITH
    Hosts <- {{4}}, Sender <- {"s1", "s2"}, Port <- {1}, Batch <- 3, MaxTries <- 0,
    MaxOpens <- 2, MaxSends <- 2, tx <- bindTx, open <- bindOpen, send <- bindSend,
    opens <- bindOpens, sends <- bindSends

Routes == INSTANCE RouteListener WITH
    Peers <- {"p1", "p2"}, Ifaces <- {1, 2}, MaxChanges <- 2, changes <- routeChanges,
    sock <- routeSock, cancelled <- routeCancelled

Tun == INSTANCE TunLinux WITH
    EventCap <- 2, MaxChanges <- 2, changes <- tunChanges, sock <- tunSock,
    found <- tunFound, cancelled <- tunCancelled, closer <- tunCloser

Proxy == INSTANCE ProxyServe WITH
    Conns <- {"c1", "c2"}, server <- proxyServer, phase <- proxyPhase, open <- proxyOpen

Dial == INSTANCE NetDial WITH
    Servers <- 2, MaxAnswers <- 2, Deadlines <- {NoDeadline, 1, 5, 8}, saneMinimum <- 2,
    server <- dialServer, found <- dialFound, phase <- dialPhase, result <- dialResult

ASSUME Ring!WinRingAssumption /\ Bind!BindStdAssumption /\ BindSend!BindStdAssumption /\
       Routes!RouteListenerAssumption /\ Tun!TunLinuxAssumption

components == <<vars, ringVars, bindVars, routeVars, tunVars, proxyVars, dialVars>>

\* Both peers are routed over the first interface.
NoRoutes == \A p \in {"p1", "p2"} : route[p] = 1 /\ srcIfidx[p] = 0

\* What the second client may ask for.
PlainRequests == {r \in Proxy!Requests : r.proto = "socks5" /\ r.auth /\ r.addr = "ok"}

NoClients ==
    /\ user = FALSE /\ ctx = TRUE /\ proxyServer = "returned"
    /\ request = [c \in {"c1", "c2"} |-> CHOOSE r \in PlainRequests : TRUE]
    /\ proxyPhase = [c \in {"c1", "c2"} |-> "none"] /\ gone = {} /\ proxyOpen = {}
    /\ target = proxyPhase /\ udp = proxyPhase /\ answers = [c \in {"c1", "c2"} |-> <<>>]

MCInit ==
    /\ component \in {"pipe", "ring", "bind", "bind_send", "route", "tun", "proxy",
                      "dial"}
    /\ Init
    /\ Ring!Init
    /\ CASE component = "bind" -> Bind!Init
         [] component = "bind_send" -> BindSend!Init
         [] OTHER -> BindSend!Init
    /\ Routes!Init
    /\ component # "route" => NoRoutes
    /\ Tun!Init
    /\ component # "tun" => link = "down" /\ Tun!Unmonitored
    /\ IF component = "proxy" THEN Proxy!Init /\ request["c2"] \in PlainRequests ELSE NoClients
    /\ Dial!Init
    /\ component # "dial" => has = {4} /\ accept = {4} /\ left = 1

MCNext ==
    /\ UNCHANGED component
    /\ \/ component = "pipe" /\ Next
          /\ UNCHANGED <<ringVars, bindVars, routeVars, tunVars, proxyVars, dialVars>>
       \/ component = "ring" /\ Ring!Next
          /\ UNCHANGED <<vars, bindVars, routeVars, tunVars, proxyVars, dialVars>>
       \/ component = "bind" /\ Bind!Next
          /\ UNCHANGED <<vars, ringVars, routeVars, tunVars, proxyVars, dialVars>>
       \/ component = "bind_send" /\ BindSend!Next
          /\ UNCHANGED <<vars, ringVars, routeVars, tunVars, proxyVars, dialVars>>
       \/ component = "route" /\ Routes!Next
          /\ UNCHANGED <<vars, ringVars, bindVars, tunVars, proxyVars, dialVars>>
       \/ component = "tun" /\ Tun!Next
          /\ UNCHANGED <<vars, ringVars, bindVars, routeVars, proxyVars, dialVars>>
       \/ component = "proxy" /\ Proxy!Next
          /\ UNCHANGED <<vars, ringVars, bindVars, routeVars, tunVars, dialVars>>
       \/ component = "dial" /\ Dial!Next
          /\ UNCHANGED <<vars, ringVars, bindVars, routeVars, tunVars, proxyVars>>

MCSpec ==
    /\ MCInit /\ [][MCNext]_<<components, component>>

------------------------------------------------------------------------------
\* The slot of a datagram is handed back to the kernel before its bytes are
\* copied: what Receive returns is the datagram of its completion, unless as many
\* later datagrams have arrived as there are slots the kernel fills in turn; and
\* neither ring is pushed when it is full, which would panic. (WinRing.)
CopiedUnlessLapped == component = "ring" => Ring!CopiedUnlessLapped

\* Between calls of Open the open sockets are the ones in the fields, except one
\* whose port listenNet could not find out; Open panics only on a host without
\* IPv4. (BindStd.)
NoSocketLeaks == component = "bind" => Bind!NoSocketLeaks

\* What a call has put on the wire is a prefix of its batch, in order, and
\* after the fallback a prefix again; a call that returns without an error has
\* put the whole batch there in its last attempt.  A datagram is on the wire
\* twice only after a fallback. (BindStd.)
BatchInOrder == component = "bind_send" => BindSend!BatchInOrder


\* No listener sends on the closed channel, which would panic: when it is
\* closed the hack listener has returned and the netlink listener has nothing
\* to send. (TunLinux.)
NeverSendsOnClosed == component = "tun" => Tun!NeverSendsOnClosed

\* A client gets one reply; success means that the target was dialled, or a UDP
\* socket bound, or that a user handler is about to dial, and closes the connection
\* when it cannot. (ProxyServe.)
SuccessMeansConnected == component = "proxy" => Proxy!SuccessMeansConnected

\* With two seconds for each address every address is tried before the dial
\* fails, also when those before it use up their whole share. (NetDial.)
EveryAddressTried == component = "dial" => Dial!EveryAddressTried

==============================================================================
