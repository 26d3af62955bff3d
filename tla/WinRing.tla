------------------------------ MODULE WinRing ------------------------------
(***************************************************************************)
(* WinRingBind (wireguard/conn/bind_windows.go): the bind over Windows     *)
(* registered I/O.  Packets live in two rings of slots, one for receiving, *)
(* one for sending; a slot is handed to the kernel with a request and      *)
(* comes back through a completion queue, and a caller that finds the      *)
(* queue empty asks for a notification and waits on a completion port.     *)
(* Close wakes the waiting callers through the same ports and then waits   *)
(* for the lock they hold.  One of the two address families is modelled:   *)
(* they share only the lock and isOpen.  The kernel completes requests in  *)
(* the order in which they were made.                                      *)
(***************************************************************************)
EXTENDS Naturals, Sequences, FiniteSets, SequencesExt

CONSTANTS Sender,        \* the goroutines that call Send
          R,             \* packetsPerRing
          Wrap,          \* head and tail count modulo Wrap (2^32 in the code)
          MaxArrivals,   \* bound: datagrams that arrive
          MaxSends,      \* bound: calls of Send
          MaxOpens,      \* bound: calls of Open
          MaxFailures,   \* bound: calls of the kernel that fail
          None

WinRingAssumption == R \in Nat \ {0} /\ Wrap % R = 0 /\ Wrap > R

VARIABLES isOpen,        \* 0 closed, 1 open, 2 closing
          readers,       \* who holds mu for reading
          writers,       \* who waits for mu: "Open", "Close"
          rx, tx,        \* the rings: head, tail and isFull
          rxPosted,      \* receive requests in the kernel, by slot
          rxDone,        \* the receive completion queue: slot, datagram, size
          data,          \* what the receive slots hold
          txPosted, txDone, \* send requests in the kernel, completions
          iocp, armed,   \* statuses queued at each port; a notification asked for
          recv,          \* the receiving goroutine
          send, txMu,    \* the senders and who holds tx.mu
          panicked,      \* "ring is full"
          arrivals, sends, opens, failures,
          lost           \* history: receive requests refused since the last Open

vars == <<isOpen, readers, writers, rx, tx, rxPosted, rxDone, data, txPosted, txDone, iocp, armed,
          recv, send, txMu, panicked, arrivals, sends, opens, failures, lost>>
lockVars == <<isOpen, readers, writers>>
rxVars == <<rx, rxPosted, rxDone, data>>
txVars == <<tx, txPosted, txDone>>
bounds == <<arrivals, sends, opens, failures, lost>>

Slot == 0 .. R - 1
Side == {"rx", "tx"}
Empty == [head |-> 0, tail |-> 0, isFull |-> FALSE]

\* Push: the slot at the tail, and the ring with one more slot taken.
Push(ring) ==
    LET tail == (ring.tail + 1) % Wrap
    IN  [slot |-> ring.tail % R,
         ring |-> [ring EXCEPT !.tail = tail, !.isFull = tail % R = ring.head % R]]

ReturnSlots(ring, count) ==
    IF ring.head % R = ring.tail % R /\ ~ring.isFull THEN ring
    ELSE [ring EXCEPT !.head = (@ + count) % Wrap, !.isFull = FALSE]

\* A new reader waits while a writer does.
CanRead == writers = {}

Init ==
    /\ isOpen = 0 /\ readers = {} /\ writers = {}
    /\ rx = Empty /\ tx = Empty
    /\ rxPosted = <<>> /\ rxDone = <<>> /\ data = [s \in Slot |-> None]
    /\ txPosted = <<>> /\ txDone = <<>>
    /\ iocp = [p \in Side |-> 0] /\ armed = [p \in Side |-> FALSE]
    /\ recv = [pc |-> "ended"]
    /\ send = [s \in Sender |-> "idle"] /\ txMu = None
    /\ panicked = FALSE
    /\ arrivals = 0 /\ sends = 0 /\ opens = 0 /\ failures = 0 /\ lost = 0

-----------------------------------------------------------------------------
\* A call of the kernel fails.
Fails == failures < MaxFailures /\ failures' = failures + 1

CloseAndZero ==
    /\ isOpen' = 0
    /\ rx' = Empty /\ tx' = Empty
    /\ rxPosted' = <<>> /\ rxDone' = <<>> /\ data' = [s \in Slot |-> None]
    /\ txPosted' = <<>> /\ txDone' = <<>>
    /\ iocp' = [p \in Side |-> 0] /\ armed' = [p \in Side |-> FALSE]

OpenCalled ==
    /\ opens < MaxOpens /\ "Open" \notin writers
    /\ opens' = opens + 1
    /\ writers' = writers \cup {"Open"}
    /\ UNCHANGED <<isOpen, readers, rxVars, txVars, iocp, armed, recv, send, txMu, panicked,
                   arrivals, sends, failures, lost>>

\* A ring of receive requests, all of its slots posted.
Filled == FoldLeftDomain(LAMBDA ring, k : Push(ring).ring, Empty, [k \in 1 .. R |-> k])

\* Open with the lock: it fails, on an open bind or at any of its steps, and the
\* deferred function then closes everything, or the rings are made and filled.
OpenLocked ==
    /\ "Open" \in writers /\ readers = {}
    /\ writers' = writers \ {"Open"}
    /\ \/ CloseAndZero /\ UNCHANGED <<recv, lost>>
       \/ /\ isOpen = 0
          /\ isOpen' = 1
          /\ rx' = Filled /\ rxPosted' = [k \in 1 .. R |-> k - 1]
          /\ recv' = [pc |-> "idle"] /\ lost' = 0
          /\ UNCHANGED <<rxDone, data, txVars, iocp, armed>>
    /\ UNCHANGED <<readers, send, txMu, panicked, arrivals, sends, opens, failures>>

WakeAll == [p \in Side |-> iocp[p] + 1]

CloseCalled ==
    /\ isOpen = 1 /\ CanRead
    /\ isOpen' = 2
    /\ iocp' = WakeAll
    /\ writers' = writers \cup {"Close"}
    /\ UNCHANGED <<readers, rxVars, txVars, armed, recv, send, txMu, panicked, bounds>>

CloseLocked ==
    /\ "Close" \in writers /\ readers = {}
    /\ writers' = writers \ {"Close"}
    /\ CloseAndZero
    /\ UNCHANGED <<readers, recv, send, txMu, panicked, bounds>>

-----------------------------------------------------------------------------
\* The kernel, as src/wireguard/conn/winrio presents it.
Signal(p) == IF armed[p] THEN /\ iocp' = [iocp EXCEPT ![p] = @ + 1]
                              /\ armed' = [armed EXCEPT ![p] = FALSE]
             ELSE UNCHANGED <<iocp, armed>>

\* A request completes with a datagram, with a part of one that is longer than a
\* slot (WSAEMSGSIZE), or with another status.
Arrive(status) ==
    /\ rxPosted # <<>> /\ arrivals < MaxArrivals
    /\ arrivals' = arrivals + 1
    /\ data' = [data EXCEPT ![Head(rxPosted)] = arrivals']
    /\ rxDone' = Append(rxDone, [slot |-> Head(rxPosted), id |-> arrivals', status |-> status])
    /\ rxPosted' = Tail(rxPosted)
    /\ Signal("rx")
    /\ UNCHANGED <<lockVars, rx, txVars, recv, send, txMu, panicked, sends, opens, failures, lost>>

Transmitted ==
    /\ txPosted # <<>>
    /\ txDone' = Append(txDone, Head(txPosted))
    /\ txPosted' = Tail(txPosted)
    /\ Signal("tx")
    /\ UNCHANGED <<lockVars, rxVars, tx, recv, send, txMu, panicked, bounds>>

\* Notify: at once when the queue is not empty, else at the next completion.
Notify(p, done) ==
    IF done # <<>> THEN /\ iocp' = [iocp EXCEPT ![p] = @ + 1] /\ UNCHANGED armed
    ELSE /\ armed' = [armed EXCEPT ![p] = TRUE] /\ UNCHANGED iocp

-----------------------------------------------------------------------------
\* The receiving goroutine leaves Receive and gives up the lock; it ends after
\* net.ErrClosed, and ends or calls again after another error.
Leave(pc) ==
    /\ recv' = [pc |-> pc]
    /\ readers' = readers \ {"recv"}

LeaveWithError == \E pc \in {"idle", "ended"} : Leave(pc)

ReceiveCalled ==
    /\ recv.pc = "idle" /\ CanRead
    /\ IF isOpen = 1 THEN recv' = [pc |-> "poll"] /\ readers' = readers \cup {"recv"}
       ELSE recv' = [pc |-> "ended"] /\ UNCHANGED readers
    /\ UNCHANGED <<isOpen, writers, rxVars, txVars, iocp, armed, send, txMu, panicked, bounds>>

Got == [pc |-> "insert", slot |-> Head(rxDone).slot, id |-> Head(rxDone).id, status |-> Head(rxDone).status,
        got |-> None]

\* receiveSpins polls of the completion queue, then a notification.
Poll ==
    /\ recv.pc = "poll"
    /\ \/ /\ rxDone # <<>>
          /\ recv' = Got /\ rxDone' = Tail(rxDone)
          /\ UNCHANGED <<readers, iocp, armed>>
       \/ /\ rxDone = <<>> /\ isOpen # 1
          /\ Leave("ended") /\ UNCHANGED <<rxDone, iocp, armed>>
       \/ /\ rxDone = <<>>
          /\ recv' = [pc |-> "notify"]
          /\ UNCHANGED <<readers, rxDone, iocp, armed>>
    /\ UNCHANGED <<isOpen, writers, rx, rxPosted, data, txVars, send, txMu, panicked, bounds>>

ReceiveNotify ==
    /\ recv.pc = "notify"
    /\ \/ /\ Notify("rx", rxDone)
          /\ recv' = [pc |-> "wait"]
          /\ UNCHANGED <<readers, failures>>
       \/ Fails /\ LeaveWithError /\ UNCHANGED <<iocp, armed>>
    /\ UNCHANGED <<isOpen, writers, rxVars, txVars, send, txMu, panicked, arrivals, sends,
                   opens, lost>>

\* GetQueuedCompletionStatus returns an error.
ReceiveWaitFails ==
    /\ recv.pc = "wait" /\ Fails /\ LeaveWithError
    /\ UNCHANGED <<isOpen, writers, rxVars, txVars, iocp, armed, send, txMu, panicked, arrivals,
                   sends, opens, lost>>

\* A status was queued: by Close, or for a completion.
ReceiveWoken ==
    /\ recv.pc = "wait" /\ iocp["rx"] > 0
    /\ iocp' = [iocp EXCEPT !["rx"] = @ - 1]
    /\ \/ isOpen # 1 /\ Leave("ended") /\ UNCHANGED rxDone
       \/ isOpen = 1 /\ rxDone = <<>> /\ LeaveWithError /\ UNCHANGED rxDone   \* io.ErrNoProgress
       \/ isOpen = 1 /\ rxDone # <<>> /\ recv' = Got /\ rxDone' = Tail(rxDone) /\ UNCHANGED readers
    /\ UNCHANGED <<isOpen, writers, rx, rxPosted, data, txVars, armed, send, txMu, panicked, bounds>>

\* Return(1) and InsertReceiveRequest, before the packet is looked at.
Reinsert ==
    /\ recv.pc = "insert"
    /\ LET push == Push(ReturnSlots(rx, 1))
       IN  /\ rx' = push.ring
           /\ panicked' = (panicked \/ ReturnSlots(rx, 1).isFull)
           /\ \/ /\ rxPosted' = Append(rxPosted, push.slot)
                 /\ recv' = [recv EXCEPT !.pc = "copy"]
                 /\ UNCHANGED <<readers, failures, lost>>
              \/ /\ Fails /\ lost' = lost + 1
                 /\ LeaveWithError /\ UNCHANGED rxPosted
    /\ UNCHANGED <<isOpen, writers, rxDone, data, txVars, iocp, armed, send, txMu, arrivals,
                   sends, opens>>

\* Fault: the packet is looked for at the head of the ring.
HeadSlot == rx.head % R

CompletedSlot == recv.slot

\* A datagram longer than a slot is dropped and the loop starts again.
Copy ==
    /\ recv.pc = "copy"
    /\ \/ /\ recv.status = "big" /\ isOpen = 1
          /\ recv' = [pc |-> "poll"] /\ UNCHANGED readers
       \/ recv.status = "big" /\ isOpen # 1 /\ Leave("ended")
       \/ recv.status = "error" /\ LeaveWithError
       \/ /\ recv.status = "ok"
          /\ recv' = [recv EXCEPT !.pc = "returned", !.got = data[CompletedSlot]]
          /\ UNCHANGED readers
    /\ UNCHANGED <<isOpen, writers, rxVars, txVars, iocp, armed, send, txMu, panicked, bounds>>

ReceiveReturned ==
    /\ recv.pc = "returned" /\ Leave("idle")
    /\ UNCHANGED <<isOpen, writers, rxVars, txVars, iocp, armed, send, txMu, panicked, bounds>>

Receive ==
    \/ ReceiveCalled \/ Poll \/ ReceiveNotify \/ ReceiveWoken \/ ReceiveWaitFails
    \/ Reinsert \/ Copy \/ ReceiveReturned

-----------------------------------------------------------------------------
\* Send leaves with tx.mu and the lock given up.
Sent(s) ==
    /\ send' = [send EXCEPT ![s] = "idle"]
    /\ readers' = readers \ {s}
    /\ txMu' = IF txMu = s THEN None ELSE txMu

\* isOpen is looked at before tx.mu is taken.
SendCalled(s) ==
    /\ send[s] = "idle" /\ sends < MaxSends /\ CanRead /\ isOpen = 1
    /\ sends' = sends + 1
    /\ send' = [send EXCEPT ![s] = "lock"]
    /\ readers' = readers \cup {s}
    /\ UNCHANGED <<isOpen, writers, rxVars, txVars, iocp, armed, recv, txMu, panicked, arrivals,
                   opens, failures, lost>>

MustWait == txDone = <<>> /\ tx.isFull

\* Every completion is taken from the queue; with none and a full ring the
\* sender asks for a notification.
SendLock(s) ==
    /\ send[s] = "lock" /\ txMu = None
    /\ \/ /\ MustWait /\ Notify("tx", txDone)
          /\ send' = [send EXCEPT ![s] = "wait"] /\ txMu' = s
          /\ UNCHANGED <<readers, txVars, failures>>
       \/ /\ MustWait /\ Fails /\ Sent(s)
          /\ UNCHANGED <<txVars, iocp, armed>>
       \/ /\ ~MustWait
          /\ tx' = IF txDone = <<>> THEN tx ELSE ReturnSlots(tx, Len(txDone))
          /\ txDone' = <<>>
          /\ send' = [send EXCEPT ![s] = "push"] /\ txMu' = s
          /\ UNCHANGED <<readers, txPosted, iocp, armed, failures>>
    /\ UNCHANGED <<isOpen, writers, rxVars, recv, panicked, arrivals, sends, opens, lost>>

\* GetQueuedCompletionStatus returns an error.
SendWaitFails(s) ==
    /\ send[s] = "wait" /\ Fails /\ Sent(s)
    /\ UNCHANGED <<isOpen, writers, rxVars, txVars, iocp, armed, recv, panicked, arrivals, sends,
                   opens, lost>>

SendWoken(s) ==
    /\ send[s] = "wait" /\ iocp["tx"] > 0
    /\ iocp' = [iocp EXCEPT !["tx"] = @ - 1]
    /\ IF isOpen # 1 \/ txDone = <<>>
       THEN Sent(s) /\ UNCHANGED txVars   \* net.ErrClosed, io.ErrNoProgress
       ELSE /\ tx' = ReturnSlots(tx, Len(txDone))
            /\ txDone' = <<>>
            /\ send' = [send EXCEPT ![s] = "push"]
            /\ UNCHANGED <<txPosted, readers, txMu>>
    /\ UNCHANGED <<isOpen, writers, rxVars, armed, recv, panicked, bounds>>

\* The slot is taken and filled, and the request made; when the kernel refuses
\* it, the slot stays taken.
SendPush(s) ==
    /\ send[s] = "push"
    /\ panicked' = (panicked \/ tx.isFull)
    /\ tx' = Push(tx).ring
    /\ \/ txPosted' = Append(txPosted, Push(tx).slot) /\ UNCHANGED failures
       \/ Fails /\ UNCHANGED txPosted
    /\ Sent(s)
    /\ UNCHANGED <<isOpen, writers, rxVars, txDone, iocp, armed, recv, arrivals, sends, opens, lost>>

Send(s) == SendLock(s) \/ SendWoken(s) \/ SendWaitFails(s) \/ SendPush(s)

Next ==
    \/ OpenCalled \/ OpenLocked \/ CloseCalled \/ CloseLocked
    \/ (\E status \in {"ok", "big", "error"} : Arrive(status)) \/ Transmitted
    \/ Receive \/ \E s \in Sender : SendCalled(s) \/ Send(s)

Spec == Init /\ [][Next]_vars

-----------------------------------------------------------------------------
\* The slot of a datagram is handed back to the kernel before its bytes are
\* copied: what Receive returns is the datagram of its completion, unless as many
\* later datagrams have arrived as there are slots the kernel fills in turn, which
\* are all of the ring but those whose request it refused; and neither ring is
\* pushed when it is full, which would panic.
CopiedUnlessLapped ==
    /\ ~panicked
    /\ recv.pc = "returned" => recv.got = recv.id \/ arrivals >= recv.id + R - lost

=============================================================================
