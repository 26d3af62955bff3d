------------------------------- MODULE Device -------------------------------
(***************************************************************************)
(* The life of a device (device/device.go): Up, Down, Close, BindUpdate,   *)
(* peers added, started, stopped and removed, and the reference counts of  *)
(* its queues (channels.go), which decide when a queue is closed.          *)
(*                                                                         *)
(* Callers run one operation at a time, in steps that end where a lock is  *)
(* taken or something is awaited.  The processes that write to the         *)
(* encryption queue read peer.isRunning in one step and write in a later   *)
(* one; those that send a message wait for net.RLock in SendBuffers.  A    *)
(* receiver waits when the inbound queue of a peer is full and the peer's  *)
(* sequential receiver does not empty it.  The decryption and the          *)
(* handshake queue have the same references and one counter stands for     *)
(* both.                                                                   *)
(***************************************************************************)
EXTENDS Naturals, FiniteSets

CONSTANTS Caller, Peer, None,
          Routine,     \* of a peer: its timer callbacks and its sequential routines
          SequentialReceiver,  \* one of them
          Sockets,     \* how many receive functions Open returns
          MaxOps,      \* bound on the operations
          Failures     \* whether Open, the route listener and SetMark may fail, and lines of a set

ASSUME DeviceAssumption ==
    /\ Sockets \in Nat \ {0} /\ MaxOps \in Nat /\ Failures \in BOOLEAN
    /\ SequentialReceiver \in Routine
    /\ None \notin Caller \cup Peer
    /\ {"up", "down", "close", "port"} \cap Peer = {}

VARIABLES state,      \* device.state.state
          stateMu, ipcMu, netMu, peersMu,  \* owners of locks; peersMu held for writing
          readers,    \* the callers that hold peers.RLock
          pc, op, todo, \* of each caller: step, operation, peers it still has to stop
          current,    \* of each caller: the peer it works on
          ops,        \* operations left
          keyMap,     \* device.peers.keyMap
          running,    \* the peers that are running
          bind,       \* whether the sockets are open
          receivers,  \* RoutineReceiveIncoming goroutines
          tun,        \* the TUN reader: "open", "closed" once its device is, "gone"
          closing,    \* a goroutine is about to call Close
          worker,     \* the handshake worker: "on" or "gone"
          enc, dec,   \* references to the encryption queue, and to the other two
          encClosed, decClosed,
          writing,    \* the writers that have read isRunning and not written yet
          sending,    \* the writers that are in SendBuffers for a peer
          handing,    \* the peers for whose full inbound queue a receiver waits
          broken,     \* history: a closed queue was written to, or referred to anew
          closed      \* device.closed

locks == <<stateMu, ipcMu, netMu, peersMu, readers>>
peers == <<keyMap, running>>
queues == <<enc, dec, encClosed, decClosed>>
blocked == <<sending, handing>>
vars == <<state, locks, pc, op, todo, current, ops, peers, bind, receivers, closing, tun, worker, queues, writing, blocked, broken, closed>>

Init ==
    /\ state = "down"
    /\ stateMu = None /\ ipcMu = None /\ netMu = None /\ peersMu = None /\ readers = {}
    /\ pc = [c \in Caller |-> "idle"] /\ op = [c \in Caller |-> "none"]
    /\ todo = [c \in Caller |-> {}] /\ current = [c \in Caller |-> None]
    /\ ops = MaxOps
    /\ keyMap = {} /\ running = {}
    /\ bind = FALSE /\ receivers = 0
    /\ tun = "open" /\ worker = "on" /\ closing = FALSE
    /\ enc = 3 /\ dec = 1 /\ encClosed = FALSE /\ decClosed = FALSE
    /\ writing = {} /\ sending = {} /\ handing = {} /\ broken = FALSE /\ closed = FALSE

Goto(c, step) == pc' = [pc EXCEPT ![c] = step]

-----------------------------------------------------------------------------
(* changeState and Close *)

\* changeState under the state lock: nothing to do when the device is closed or there.
ChangeState(c, want) ==
    /\ pc[c] = "idle" /\ ops > 0 /\ stateMu = None
    /\ ops' = ops - 1
    /\ IF state \in {"closed", want}
       THEN UNCHANGED <<state, stateMu, pc, op>>
       ELSE /\ stateMu' = c /\ state' = want
            /\ op' = [op EXCEPT ![c] = want]
            /\ Goto(c, IF want = "up" THEN "bindUpdate" ELSE "bindClose")
    /\ UNCHANGED <<ipcMu, netMu, peersMu, readers, todo, current, peers, bind, receivers, closing, tun, worker, queues, writing, blocked, broken, closed>>

\* Close holds the state lock and waits for the IPC lock; a read error of the TUN reader
\* calls it too, from a goroutine of its own.
StartClose(c) ==
    /\ pc[c] = "idle" /\ stateMu = None
    /\ \/ closing /\ closing' = FALSE /\ UNCHANGED ops
       \/ ops > 0 /\ ops' = ops - 1 /\ UNCHANGED closing
    /\ stateMu' = c /\ op' = [op EXCEPT ![c] = "close"] /\ Goto(c, "closeIpc")
    /\ UNCHANGED <<state, ipcMu, netMu, peersMu, readers, todo, current, peers, bind, receivers, tun, worker, queues, writing, blocked, broken, closed>>

CloseIpc(c) ==
    /\ pc[c] = "closeIpc" /\ ipcMu = None
    /\ IF state = "closed"
       THEN /\ stateMu' = None /\ Goto(c, "idle") /\ UNCHANGED <<state, ipcMu, tun>>
       ELSE /\ ipcMu' = c /\ state' = "closed"
            /\ tun' = IF tun = "open" THEN "closed" ELSE tun
            /\ Goto(c, "bindClose") /\ UNCHANGED stateMu
    /\ UNCHANGED <<netMu, peersMu, readers, op, todo, current, ops, peers, bind, receivers, closing, worker, queues, writing, blocked, broken, closed>>

-----------------------------------------------------------------------------
(* BindUpdate and BindClose *)

\* closeBindLocked closes the sockets and waits for the receivers with the lock held.
LockNet(c) ==
    /\ pc[c] \in {"bindUpdate", "bindClose"} /\ netMu = None
    /\ netMu' = c /\ bind' = FALSE
    /\ Goto(c, IF pc[c] = "bindUpdate" THEN "updateWait" ELSE "closeWait")
    /\ UNCHANGED <<state, stateMu, ipcMu, peersMu, readers, op, todo, current, ops, peers, receivers, closing, tun, worker, queues, writing, blocked, broken, closed>>

BindClosed(c) ==
    /\ pc[c] = "closeWait" /\ receivers = 0
    /\ netMu' = None /\ Goto(c, "stopPeers")
    /\ UNCHANGED <<state, stateMu, ipcMu, peersMu, readers, op, todo, current, ops, peers, bind, receivers, closing, tun, worker, queues, writing, blocked, broken, closed>>

\* Where an operation goes on after BindUpdate.
AfterUpdate(c, ok) ==
    IF op[c] = "port" THEN Goto(c, "ipcDone") /\ UNCHANGED state
    ELSE IF ok THEN Goto(c, "upIpc") /\ UNCHANGED state
    ELSE Goto(c, "bindClose") /\ state' = "down"

OpensSockets == state = "up"

\* The lock is kept when the sockets are open.
OpenBind(c) ==
    /\ pc[c] = "updateWait" /\ receivers = 0
    /\ \/ /\ OpensSockets
          /\ bind' = TRUE /\ Goto(c, "markSources") /\ UNCHANGED <<netMu, state>>
       \/ /\ ~OpensSockets
          /\ netMu' = None /\ AfterUpdate(c, TRUE) /\ UNCHANGED bind
       \/ /\ OpensSockets /\ Failures     \* Open or the route listener fails, or SetMark
          /\ bind' \in BOOLEAN
          /\ netMu' = None /\ AfterUpdate(c, FALSE)
    /\ UNCHANGED <<stateMu, ipcMu, peersMu, readers, op, todo, current, ops, peers, receivers, closing, tun, worker, queues, writing, blocked, broken, closed>>

\* The cached source addresses are cleared under peers.RLock, then the receivers start.
MarkSources(c) ==
    /\ pc[c] = "markSources" /\ peersMu = None
    /\ receivers' = receivers + Sockets
    /\ dec' = dec + Sockets /\ broken' = (broken \/ decClosed)
    /\ netMu' = None /\ AfterUpdate(c, TRUE)
    /\ UNCHANGED <<stateMu, ipcMu, peersMu, readers, op, todo, current, ops, peers, bind, closing, tun, worker, enc, encClosed, decClosed, writing, blocked, closed>>

\* A receiver waits for room in the inbound queue of a peer, whose sequential receiver is
\* held up in SendBuffers.
QueueFull(p) ==
    /\ receivers > Cardinality(handing) /\ p \notin handing
    /\ p \in running /\ <<SequentialReceiver, p>> \in sending
    /\ handing' = handing \cup {p}
    /\ UNCHANGED <<state, locks, pc, op, todo, current, ops, peers, bind, receivers, closing, tun, worker, queues, writing, sending, broken, closed>>

HandOver(p) ==
    /\ p \in handing /\ <<SequentialReceiver, p>> \notin sending
    /\ handing' = handing \ {p}
    /\ UNCHANGED <<state, locks, pc, op, todo, current, ops, peers, bind, receivers, closing, tun, worker, queues, writing, sending, broken, closed>>

\* RoutineReceiveIncoming returns when its socket is closed.
ReceiverReturns ==
    /\ receivers > Cardinality(handing) /\ ~bind
    /\ receivers' = receivers - 1 /\ dec' = dec - 1
    /\ UNCHANGED <<state, locks, pc, op, todo, current, ops, peers, bind, closing, tun, worker, enc, encClosed, decClosed, writing, blocked, broken, closed>>

-----------------------------------------------------------------------------
(* Starting and stopping peers *)

\* Peer.Start for the peers of S: each keeps a reference to the encryption queue.
StartPeers(S) ==
    LET started == IF state = "closed" THEN {} ELSE S \ running
    IN  /\ running' = running \cup started
        /\ enc' = enc + Cardinality(started)
        /\ broken' = (broken \/ (started # {} /\ encClosed))

\* The end of upLocked.
UpStarts(c) ==
    /\ pc[c] = "upIpc" /\ ipcMu = None /\ peersMu = None
    /\ StartPeers(keyMap)
    /\ stateMu' = None /\ Goto(c, "idle")
    /\ UNCHANGED <<state, ipcMu, netMu, peersMu, readers, op, todo, current, ops, keyMap, bind, receivers, closing, tun, worker, dec, encClosed, decClosed, writing, blocked, closed>>

\* downLocked takes peers.RLock and stops every peer.
LockPeers(c) ==
    /\ pc[c] = "stopPeers" /\ peersMu = None
    /\ readers' = readers \cup {c} /\ todo' = [todo EXCEPT ![c] = keyMap]
    /\ Goto(c, "stop")
    /\ UNCHANGED <<state, stateMu, ipcMu, netMu, peersMu, op, current, ops, peers, bind, receivers, closing, tun, worker, queues, writing, blocked, broken, closed>>

\* Peer.Stop begins: isRunning is swapped.
BeginStop(c, p) ==
    /\ pc[c] = "stop" /\ current[c] = None /\ p \in todo[c]
    /\ todo' = [todo EXCEPT ![c] = @ \ {p}]
    /\ IF p \in running THEN running' = running \ {p} /\ current' = [current EXCEPT ![c] = p]
                        ELSE UNCHANGED <<running, current>>
    /\ UNCHANGED <<state, locks, pc, op, ops, keyMap, bind, receivers, closing, tun, worker, queues, writing, blocked, broken, closed>>

\* Fault: the peer's own routines are not awaited.
AwaitNobody(p) == TRUE

\* timersStop and stopping.Wait: the timer callbacks and the sequential routines are done.
RoutinesDone(p) == \A r \in Routine : <<r, p>> \notin writing \cup sending

EndStop(c) ==
    /\ pc[c] = "stop" /\ current[c] # None /\ RoutinesDone(current[c])
    /\ enc' = enc - 1 /\ current' = [current EXCEPT ![c] = None]
    /\ UNCHANGED <<state, locks, pc, op, todo, ops, peers, bind, receivers, closing, tun, worker, dec, encClosed, decClosed, writing, blocked, broken, closed>>

\* The peers are stopped: Down returns, Close goes on, and a removal forgets its peer.
PeersStopped(c) ==
    /\ pc[c] = "stop" /\ current[c] = None /\ todo[c] = {}
    /\ readers' = readers \ {c}
    /\ peersMu' = IF peersMu = c THEN None ELSE peersMu
    /\ \/ /\ op[c] \in {"up", "down"}
          /\ stateMu' = None /\ Goto(c, "idle") /\ UNCHANGED keyMap
       \/ /\ op[c] = "close" /\ peersMu # c
          /\ Goto(c, "removeAll") /\ UNCHANGED <<stateMu, keyMap>>
       \/ /\ op[c] = "close" /\ peersMu = c
          /\ keyMap' = {} /\ Goto(c, "release") /\ UNCHANGED stateMu
       \/ /\ op[c] \in Peer
          /\ keyMap' = keyMap \ {op[c]} /\ Goto(c, "ipcDone") /\ UNCHANGED stateMu
    /\ UNCHANGED <<state, ipcMu, netMu, op, todo, current, ops, running, bind, receivers, closing, tun, worker, queues, writing, blocked, broken, closed>>

\* RemoveAllPeers.
RemoveAllPeers(c) ==
    /\ pc[c] = "removeAll" /\ peersMu = None /\ readers = {}
    /\ peersMu' = c /\ todo' = [todo EXCEPT ![c] = keyMap] /\ Goto(c, "stop")
    /\ UNCHANGED <<state, stateMu, ipcMu, netMu, readers, op, current, ops, peers, bind, receivers, closing, tun, worker, queues, writing, blocked, broken, closed>>


ReleaseQueues == enc' = enc - 1 /\ dec' = dec - 1

Release(c) ==
    /\ pc[c] = "release"
    /\ ReleaseQueues
    /\ Goto(c, "awaitTun")
    /\ UNCHANGED <<state, locks, op, todo, current, ops, peers, bind, receivers, closing, tun, worker, encClosed, decClosed, writing, blocked, broken, closed>>

TunReaderGone == tun = "gone"

\* The rate limiter's cleaner is ended too (RateLimiter), which nothing here waits for.
CloseReturns(c) ==
    /\ pc[c] = "awaitTun" /\ TunReaderGone
    /\ closed' = TRUE /\ stateMu' = None /\ ipcMu' = None /\ Goto(c, "idle")
    /\ UNCHANGED <<state, netMu, peersMu, readers, op, todo, current, ops, peers, bind, receivers, closing, tun, worker, queues, writing, blocked, broken>>

-----------------------------------------------------------------------------
(* IPC set operations: a peer is added and started, a peer is removed, the port changes *)

StartIpc(c, what) ==
    /\ pc[c] = "idle" /\ ops > 0 /\ ipcMu = None
    /\ ops' = ops - 1 /\ ipcMu' = c
    /\ op' = [op EXCEPT ![c] = what]
    /\ Goto(c, IF what = "port" THEN "bindUpdate" ELSE IF what \in keyMap THEN "remove" ELSE "add")
    /\ UNCHANGED <<state, stateMu, netMu, peersMu, readers, todo, current, peers, bind, receivers, closing, tun, worker, queues, writing, blocked, broken, closed>>

\* NewPeer; a later line of the set may be refused, and then the peer is not started.
AddPeer(c) ==
    /\ pc[c] = "add" /\ peersMu = None /\ readers = {}
    /\ IF state = "closed" THEN UNCHANGED keyMap /\ Goto(c, "ipcDone")
       ELSE /\ keyMap' = keyMap \cup {op[c]}
            /\ \/ Goto(c, "postConfig")
               \/ Failures /\ Goto(c, "ipcDone")
    /\ UNCHANGED <<state, locks, op, todo, current, ops, running, bind, receivers, closing, tun, worker, queues, writing, blocked, broken, closed>>

\* handlePostConfig reads isUp and starts the peer later.
PostConfig(c) ==
    /\ pc[c] = "postConfig"
    /\ Goto(c, IF state = "up" THEN "start" ELSE "ipcDone")
    /\ UNCHANGED <<state, locks, op, todo, current, ops, peers, bind, receivers, closing, tun, worker, queues, writing, blocked, broken, closed>>

\* Peer.Start waits for the lock of a peer that is being stopped.
PostConfigStarts(c) ==
    /\ pc[c] = "start" /\ \A d \in Caller : current[d] # op[c]
    /\ StartPeers({op[c]}) /\ Goto(c, "ipcDone")
    /\ UNCHANGED <<state, locks, op, todo, current, ops, keyMap, bind, receivers, closing, tun, worker, dec, encClosed, decClosed, writing, blocked, closed>>

RemovePeer(c) ==
    /\ pc[c] = "remove" /\ peersMu = None /\ readers = {}
    /\ peersMu' = c /\ todo' = [todo EXCEPT ![c] = {op[c]}] /\ Goto(c, "stop")
    /\ UNCHANGED <<state, stateMu, ipcMu, netMu, readers, op, current, ops, peers, bind, receivers, closing, tun, worker, queues, writing, blocked, broken, closed>>

IpcDone(c) ==
    /\ pc[c] = "ipcDone" /\ ipcMu' = None /\ Goto(c, "idle")
    /\ UNCHANGED <<state, stateMu, netMu, peersMu, readers, op, todo, current, ops, peers, bind, receivers, closing, tun, worker, queues, writing, blocked, broken, closed>>

-----------------------------------------------------------------------------
(* The writers of the encryption queue *)

Writer == Routine \cup {"tun", "worker"}

Alive(w) == (w = "tun" => tun # "gone") /\ (w = "worker" => worker = "on")

\* A routine of a peer has one packet at a time, and so have the TUN reader and the worker.
Free(w, p) == \A x \in writing \cup sending : x[1] # w \/ (w \in Routine /\ x[2] # p)

\* SendStagedPackets reads isRunning and writes later.
CheckRunning(w, p) ==
    /\ Alive(w) /\ p \in running /\ Free(w, p)
    /\ writing' = writing \cup {<<w, p>>}
    /\ UNCHANGED <<state, locks, pc, op, todo, current, ops, peers, bind, receivers, closing, tun, worker, queues, blocked, broken, closed>>

Write(w, p) ==
    /\ <<w, p>> \in writing
    /\ writing' = writing \ {<<w, p>>} /\ broken' = (broken \/ encClosed)
    /\ UNCHANGED <<state, locks, pc, op, todo, current, ops, peers, bind, receivers, closing, tun, worker, queues, blocked, closed>>

\* SendBuffers, for data, a handshake message or a trick packet, takes net.RLock.
CallSendBuffers(w, p) ==
    /\ Alive(w) /\ p \in running /\ Free(w, p)
    /\ sending' = sending \cup {<<w, p>>}
    /\ UNCHANGED <<state, locks, pc, op, todo, current, ops, peers, bind, receivers, closing, tun, worker, queues, writing, handing, broken, closed>>

SendBuffers(w, p) ==
    /\ <<w, p>> \in sending /\ netMu = None
    /\ sending' = sending \ {<<w, p>>}
    /\ UNCHANGED <<state, locks, pc, op, todo, current, ops, peers, bind, receivers, closing, tun, worker, queues, writing, handing, broken, closed>>

Busy(w) == \E x \in writing \cup sending : x[1] = w

\* The TUN reader ends when its device is closed, or on a read error, after which a
\* goroutine closes the device.
TunReaderReturns ==
    /\ tun = "closed" \/ (tun = "open" /\ Failures)
    /\ ~Busy("tun")
    /\ tun' = "gone" /\ enc' = enc - 1
    /\ closing' = (state # "closed")
    /\ UNCHANGED <<state, locks, pc, op, todo, current, ops, peers, bind, receivers, worker, dec, encClosed, decClosed, writing, blocked, broken, closed>>

\* The handshake worker ends when its queue is closed.
WorkerReturns ==
    /\ worker = "on" /\ decClosed /\ ~Busy("worker")
    /\ worker' = "gone" /\ enc' = enc - 1
    /\ UNCHANGED <<state, locks, pc, op, todo, current, ops, peers, bind, receivers, closing, tun, dec, encClosed, decClosed, writing, blocked, broken, closed>>

\* The goroutines that close the queues when the last reference is gone.
CloseQueue ==
    /\ \/ enc = 0 /\ ~encClosed /\ encClosed' = TRUE /\ UNCHANGED decClosed
       \/ dec = 0 /\ ~decClosed /\ decClosed' = TRUE /\ UNCHANGED encClosed
    /\ UNCHANGED <<state, locks, pc, op, todo, current, ops, peers, bind, receivers, closing, tun, worker, enc, dec, writing, blocked, broken, closed>>

-----------------------------------------------------------------------------
Request(c) ==
    \/ ChangeState(c, "up") \/ ChangeState(c, "down") \/ StartClose(c)
    \/ StartIpc(c, "port") \/ \E p \in Peer : StartIpc(c, p)

Proceed(c) ==
    \/ CloseIpc(c) \/ LockNet(c) \/ BindClosed(c) \/ OpenBind(c) \/ MarkSources(c) \/ UpStarts(c) \/ LockPeers(c)
    \/ (\E p \in Peer : BeginStop(c, p)) \/ EndStop(c) \/ PeersStopped(c) \/ RemoveAllPeers(c)
    \/ Release(c) \/ CloseReturns(c) \/ AddPeer(c) \/ PostConfig(c) \/ PostConfigStarts(c)
    \/ RemovePeer(c) \/ IpcDone(c)

\* A goroutine closes the device after a read error.
CloseAfterError(c) == closing /\ StartClose(c)

WriterGoes(w) ==
    \/ \E p \in Peer : Write(w, p) \/ SendBuffers(w, p)
    \/ w = "tun" /\ tun = "closed" /\ TunReaderReturns
    \/ w = "worker" /\ WorkerReturns

Next ==
    \/ \E c \in Caller : Request(c) \/ Proceed(c)
    \/ (\E w \in Writer, p \in Peer : CheckRunning(w, p) \/ CallSendBuffers(w, p)) \/ (\E w \in Writer : WriterGoes(w))
    \/ (\E p \in Peer : QueueFull(p) \/ HandOver(p))
    \/ TunReaderReturns \/ ReceiverReturns \/ CloseQueue

\* Every goroutine that can go on does so.  The operations are bounded, so nobody is kept
\* from a lock by others for ever, and weak fairness is enough for those who wait for one.
Fairness ==
    /\ \A c \in Caller : WF_vars(Proceed(c) \/ CloseAfterError(c))
    /\ \A w \in Writer : WF_vars(WriterGoes(w))
    /\ \A p \in Peer : WF_vars(HandOver(p))
    /\ WF_vars(ReceiverReturns) /\ WF_vars(CloseQueue)

Spec == Init /\ [][Next]_vars /\ Fairness

-----------------------------------------------------------------------------
(* Properties *)

\* Nobody writes to a queue that is closed, which would be a panic, and nobody takes a
\* new reference to one: every process that may still write is counted.
NoWriteAfterClose == ~broken

\* BindUpdate holds net.Lock and waits for peers.RLock; who removes a peer holds peers.Lock
\* and waits for a routine of the peer; and the routine waits for net.RLock.
RemovalCycle ==
    \E c, d \in Caller, r \in Routine :
        pc[c] = "markSources" /\ peersMu = d /\ <<r, current[d]>> \in sending

\* closeBindLocked holds net.Lock and waits for a receiver; the receiver waits for room in
\* the inbound queue of a peer; and the peer's sequential receiver waits for net.RLock.
QueueCycle ==
    \E c \in Caller, p \in handing :
        pc[c] \in {"updateWait", "closeWait"} /\ <<SequentialReceiver, p>> \in sending

=============================================================================
