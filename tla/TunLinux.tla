------------------------------ MODULE TunLinux ------------------------------
(***************************************************************************)
(* The status listeners of a TUN device on Linux                           *)
(* (wireguard/tun/tun_linux.go).  routineHackListener probes the device    *)
(* with empty writes every second, routineNetlinkListener receives link    *)
(* messages; both send events into one channel that the device reads, and  *)
(* Close ends both.  The channel is closed by the netlink listener, once   *)
(* the hack listener has let go of hackListenerClosed.                     *)
(***************************************************************************)
EXTENDS Naturals, Sequences, SequencesExt

CONSTANTS EventCap,   \* capacity of the events channel (5 in the code)
          MaxChanges  \* bound: link messages of the kernel

TunLinuxAssumption == EventCap > 0 /\ MaxChanges \in Nat

VARIABLES link,        \* what the kernel knows of the interface
          changes,
          sock,        \* link messages waiting in the netlink socket
          sockOpen,
          nl, todo, out, wasEverUp,   \* the netlink listener
          hack, last, found,          \* the hack listener
          hackListenerClosed,         \* TRUE while locked
          events, eventsClosed,
          shutdown, cancelled, fileOpen, closer,
          mtu          \* setMTU, the last step of CreateTUNFromFile

kernelVars == <<link, changes>>
nlVars     == <<nl, todo, out, wasEverUp>>
hackVars   == <<hack, last, found, hackListenerClosed>>
closeVars  == <<shutdown, cancelled, fileOpen, closer>>
vars == <<kernelVars, sock, sockOpen, nlVars, hackVars, events, eventsClosed, closeVars, mtu>>

\* CreateTUNFromFile has locked hackListenerClosed and started both listeners.
Monitored == nl = "recv" /\ hack = "probe" /\ sockOpen = TRUE /\ hackListenerClosed = TRUE /\ mtu = "pending"

\* CreateUnmonitoredTUNFromFD starts none.
Unmonitored == nl = "none" /\ hack = "done" /\ sockOpen = FALSE /\ hackListenerClosed = FALSE /\ mtu = "set"

Init ==
    /\ link \in {"up", "down"} /\ changes = 0 /\ sock = <<>>
    /\ Monitored \/ Unmonitored
    /\ todo = <<>> /\ out = <<>> /\ wasEverUp = FALSE
    /\ last = "none" /\ found = "none"
    /\ events = <<>> /\ eventsClosed = FALSE
    /\ shutdown = FALSE /\ cancelled = FALSE /\ fileOpen = TRUE /\ closer = "none"

\* The kernel tells of the interface, with or without a change of its state.
LinkMessage(l) ==
    /\ changes < MaxChanges /\ link # "gone"
    /\ link' = l /\ changes' = changes + 1
    /\ sock' = IF sockOpen THEN Append(sock, l) ELSE sock
    /\ UNCHANGED <<sockOpen, nlVars, hackVars, events, eventsClosed, closeVars, mtu>>

\* A failure closes the socket under the listener; the device is not returned.
SetMTU(ok) ==
    /\ mtu = "pending"
    /\ mtu' = IF ok THEN "set" ELSE "failed"
    /\ sockOpen' = (sockOpen /\ ok)
    /\ UNCHANGED <<kernelVars, sock, nlVars, hackVars, events, eventsClosed, closeVars>>

-----------------------------------------------------------------------------
\* routineHackListener

\* The deferred unlock.
HackReturn == hack' = "done" /\ hackListenerClosed' = FALSE /\ UNCHANGED <<last, found>>

HackProbe ==
    /\ hack = "probe"
    /\ IF ~fileOpen \/ link = "gone" THEN HackReturn
       ELSE /\ hack' = IF link # last THEN "send" ELSE "wait"
            /\ found' = link
            /\ UNCHANGED <<last, hackListenerClosed>>
    /\ UNCHANGED <<kernelVars, sock, sockOpen, nlVars, events, eventsClosed, closeVars, mtu>>

Remember == found

HackSend ==
    /\ hack = "send" /\ Len(events) < EventCap
    /\ events' = Append(events, found)
    /\ last' = Remember
    /\ hack' = "wait"
    /\ UNCHANGED <<kernelVars, sock, sockOpen, nlVars, found, hackListenerClosed, eventsClosed,
                   closeVars, mtu>>

HackWait ==
    /\ hack = "wait"
    /\ \/ hack' = "probe" /\ UNCHANGED <<last, found, hackListenerClosed>>
       \/ shutdown /\ HackReturn
    /\ UNCHANGED <<kernelVars, sock, sockOpen, nlVars, events, eventsClosed, closeVars, mtu>>

-----------------------------------------------------------------------------
\* routineNetlinkListener

Goto(pc) == nl' = pc /\ UNCHANGED <<todo, out, wasEverUp>>

\* Recvmsg, and the look at statusListenersShutdown after it.
NlRecv ==
    /\ nl = "recv"
    /\ IF ~sockOpen THEN Goto("close") /\ UNCHANGED sock
       ELSE IF sock = <<>> THEN Goto("poll") /\ UNCHANGED sock
       ELSE \E n \in 1 .. Len(sock) :
              /\ sock' = SubSeq(sock, n + 1, Len(sock))
              /\ IF shutdown THEN Goto("close")
                 ELSE nl' = "handle" /\ todo' = SubSeq(sock, 1, n) /\ out' = <<>> /\ wasEverUp' = FALSE
    /\ UNCHANGED <<kernelVars, sockOpen, hackVars, events, eventsClosed, closeVars, mtu>>

\* ReadyRead: a cancellation wins over messages.
Polled == IF cancelled THEN "close" ELSE "recv"

NlPoll ==
    /\ nl = "poll" /\ (cancelled \/ sock # <<>> \/ ~sockOpen)
    /\ Goto(Polled)
    /\ UNCHANGED <<kernelVars, sock, sockOpen, hackVars, events, eventsClosed, closeVars, mtu>>

\* The events of one link message.
NlMessage ==
    /\ nl = "handle" /\ out = <<>> /\ todo # <<>>
    /\ LET m == Head(todo)
       IN  /\ out' = CASE m = "up" -> <<"up", "mtu">>
                       [] m = "down" -> IF wasEverUp THEN <<"down", "mtu">> ELSE <<"mtu">>
                       [] OTHER -> <<>>
           /\ wasEverUp' = (wasEverUp \/ m = "up")
    /\ todo' = Tail(todo)
    /\ UNCHANGED <<kernelVars, sock, sockOpen, nl, hackVars, events, eventsClosed, closeVars, mtu>>

NlSend ==
    /\ nl = "handle" /\ out # <<>> /\ Len(events) < EventCap
    /\ events' = Append(events, Head(out))
    /\ out' = Tail(out)
    /\ UNCHANGED <<kernelVars, sock, sockOpen, nl, todo, wasEverUp, hackVars, eventsClosed,
                   closeVars, mtu>>

NlBatchEnd ==
    /\ nl = "handle" /\ out = <<>> /\ todo = <<>>
    /\ Goto("recv")
    /\ UNCHANGED <<kernelVars, sock, sockOpen, hackVars, events, eventsClosed, closeVars, mtu>>

\* The deferred function: the socket, then the channel under the lock.
NlCloseSocket ==
    /\ nl = "close"
    /\ sockOpen' = FALSE
    /\ Goto("lock")
    /\ UNCHANGED <<kernelVars, sock, hackVars, events, eventsClosed, closeVars, mtu>>

\* Fault: the channel is closed without the lock.
NlCloseEventsAtOnce ==
    /\ nl = "lock"
    /\ eventsClosed' = TRUE
    /\ Goto("done")
    /\ UNCHANGED <<kernelVars, sock, sockOpen, hackVars, events, closeVars, mtu>>

NlCloseEvents ==
    /\ nl = "lock" /\ ~hackListenerClosed
    /\ hackListenerClosed' = TRUE
    /\ eventsClosed' = TRUE
    /\ Goto("done")
    /\ UNCHANGED <<kernelVars, sock, sockOpen, hack, last, found, events, closeVars, mtu>>

-----------------------------------------------------------------------------
\* RoutineTUNEventReader: Up and Down of the device follow the events.
ReadEvent ==
    /\ events # <<>>
    /\ events' = Tail(events)
    /\ UNCHANGED <<kernelVars, sock, sockOpen, nlVars, hackVars, eventsClosed, closeVars, mtu>>

\* Without listeners Close closes the channel itself.
CloseUnmonitored ==
    /\ nl = "none" /\ closer = "none"
    /\ closer' = "file" /\ eventsClosed' = TRUE
    /\ UNCHANGED <<kernelVars, sock, sockOpen, nlVars, hackVars, events, shutdown, cancelled,
                   fileOpen, mtu>>

\* Close, its three effects one after the other.
Close ==
    /\ mtu = "set"
    /\ \/ /\ closer = "none" /\ nl # "none"
          /\ closer' = "cancel" /\ shutdown' = TRUE /\ UNCHANGED <<cancelled, fileOpen>>
       \/ closer = "cancel" /\ closer' = "file" /\ cancelled' = TRUE /\ UNCHANGED <<shutdown, fileOpen>>
       \/ closer = "file" /\ closer' = "done" /\ fileOpen' = FALSE /\ UNCHANGED <<shutdown, cancelled>>
    /\ UNCHANGED <<kernelVars, sock, sockOpen, nlVars, hackVars, events, eventsClosed, mtu>>

Hack == HackProbe \/ HackSend \/ HackWait

Netlink == NlRecv \/ NlPoll \/ NlMessage \/ NlSend \/ NlBatchEnd \/ NlCloseSocket \/ NlCloseEvents

Next ==
    \/ \E l \in {"up", "down", "gone"} : LinkMessage(l)
    \/ \E ok \in BOOLEAN : SetMTU(ok)
    \/ Hack \/ Netlink \/ ReadEvent \/ Close \/ CloseUnmonitored

Spec == Init /\ [][Next]_vars

-----------------------------------------------------------------------------
\* No listener sends on the closed channel, which would panic: when it is closed
\* the hack listener has returned and the netlink listener has nothing to send.
NeverSendsOnClosed == eventsClosed => hack = "done" /\ nl \in {"done", "none"} /\ out = <<>>

=============================================================================
