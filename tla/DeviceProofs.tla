---------------------------- MODULE DeviceProofs ----------------------------
(***************************************************************************)
(* Nobody writes to a closed queue of a device or refers to one anew, for  *)
(* any number of callers, peers, routines of a peer and sockets.           *)
(*                                                                         *)
(* Refs says who the references to the queues belong to: the device itself *)
(* until Close has given up its own (Kept), the TUN reader, the handshake  *)
(* worker, each running peer, each caller in the middle of stopping one,   *)
(* and each receiver.  Writes says that a process that is about to write   *)
(* has one of them.  Close gives up the references of the device once: the *)
(* holder of the state lock is the only one who changes the state, which   *)
(* is what CallerOK keeps track of.  The receivers that BindUpdate starts  *)
(* find the queues open: Close needs the IPC lock, and who changes the     *)
(* port holds it, which is what IpcOK keeps track of.                      *)
(***************************************************************************)
EXTENDS Device, FiniteSetTheorems, TLAPS

\* Zenon proves the leaves that name no prover; those that cite SMT need arithmetic,
\* records or sequences.
USE Zenon

UpSteps == {"bindUpdate", "updateWait", "markSources", "upIpc", "bindClose", "closeWait", "stopPeers", "stop"}
DownSteps == {"bindClose", "closeWait", "stopPeers", "stop"}
CloseSteps == {"bindClose", "closeWait", "stopPeers", "stop", "removeAll", "release"}
PortSteps == {"bindUpdate", "updateWait", "markSources", "ipcDone"}
PeerSteps == {"add", "postConfig", "start", "remove", "stop", "ipcDone"}

\* The steps of each operation.
StepOf(o, s) ==
    \/ o = "up" /\ s \in UpSteps
    \/ o = "down" /\ s \in DownSteps
    \/ o = "close" /\ s \in CloseSteps \cup {"closeIpc", "awaitTun"}
    \/ o = "port" /\ s \in PortSteps
    \/ o \in Peer /\ s \in PeerSteps

StateOps == {"up", "down", "close"}

\* A caller at step s of operation o, when the state is st and mu has the state lock.
StepOK(c, o, s, st, mu) ==
    \/ s = "idle"
    \/ /\ StepOf(o, s)
       /\ o \in StateOps => mu = c
       /\ o = "up" /\ s \in {"bindUpdate", "updateWait", "markSources"} => st # "closed"
       /\ o = "close" /\ s # "closeIpc" => st = "closed"

CallerOK(c) == StepOK(c, op[c], pc[c], state, stateMu)

\* Close has closed the device and not given up the references yet.
Releasing(c) == op[c] = "close" /\ pc[c] \in CloseSteps
Kept == state # "closed" \/ \E c \in Caller : Releasing(c)
Stopping == {c \in Caller : current[c] # None}

Bit(b) == IF b THEN 1 ELSE 0

Refs ==
    /\ IsFiniteSet(running) /\ IsFiniteSet(Stopping)
    /\ enc = Bit(Kept) + Bit(tun # "gone") + Bit(worker = "on") + Cardinality(running) + Cardinality(Stopping)
    /\ receivers \in Nat /\ dec = Bit(Kept) + receivers
    /\ encClosed => enc = 0
    /\ decClosed => dec = 0

\* The one who is about to write to the encryption queue holds a reference to it.
Covered(w, p) ==
    \/ w = "tun" /\ tun # "gone"
    \/ w = "worker" /\ worker = "on"
    \/ w \in Routine /\ (p \in running \/ \E c \in Caller : current[c] = p)
Writes == writing \subseteq Writer \X Peer /\ \A w \in Writer, p \in Peer : <<w, p>> \in writing => Covered(w, p)

Shapes ==
    /\ DOMAIN pc = Caller /\ DOMAIN op = Caller
    /\ current \in [Caller -> Peer \cup {None}]
    /\ keyMap \subseteq Peer /\ IsFiniteSet(keyMap)

DeviceInv ==
    /\ Shapes
    /\ \A c \in Caller : CallerOK(c)
    /\ Refs /\ Writes
    /\ ~broken

\* The IPC lock mu is held by who configures the device, and by Close once it has it.
\* Sockets are opened on a device that is not closed.
IpcStepOK(c, o, s, st, mu) ==
    /\ s # "idle" /\ o \in Peer \cup {"port"} => mu = c
    /\ o = "close" /\ s \notin {"idle", "closeIpc"} => mu = c
    /\ o = "port" /\ s = "markSources" => st # "closed"

IpcOK(c) == IpcStepOK(c, op[c], pc[c], state, ipcMu)
IpcInv == \A c \in Caller : IpcOK(c)

-----------------------------------------------------------------------------
(* The initial state *)

LEMMA InitInv == Init => DeviceInv
  <1> SUFFICES ASSUME Init PROVE DeviceInv
    OBVIOUS
  <1>1. Shapes
    BY FS_EmptySet DEF Init, Shapes
  <1>2. \A c \in Caller : CallerOK(c)
    BY DEF Init, CallerOK, StepOK
  <1>3. Stopping = {}
    BY DEF Init, Stopping
  <1>4. Kept
    BY DEF Init, Kept
  <1>5. Refs
    BY SMT, <1>3, <1>4, FS_EmptySet DEF Init, Refs, Bit
  <1>6. Writes
    BY DEF Init, Writes
  <1> QED BY <1>1, <1>2, <1>5, <1>6 DEF Init, DeviceInv

-----------------------------------------------------------------------------
(* What the references say *)

LEMMA SomeCounted ==
    ASSUME NEW S, IsFiniteSet(S)
    PROVE  Cardinality(S) \in Nat /\ (S # {} => Cardinality(S) > 0)
  <1>1. Cardinality(S) \in Nat
    BY FS_CardinalityType
  <1>2. Cardinality(S) = 0 <=> S = {}
    BY FS_EmptySet
  <1> QED BY SMT, <1>1, <1>2

\* The numbers that make up enc.
LEMMA EncParts ==
    ASSUME Refs
    PROVE  /\ Cardinality(running) \in Nat /\ Cardinality(Stopping) \in Nat
           /\ \A b : Bit(b) \in {0, 1}
           /\ running # {} \/ Stopping # {} \/ tun # "gone" \/ worker = "on" \/ Kept => enc > 0
           /\ Kept => dec > 0
  <1>1. Cardinality(running) \in Nat /\ (running # {} => Cardinality(running) > 0)
    BY SomeCounted DEF Refs
  <1>2. Cardinality(Stopping) \in Nat /\ (Stopping # {} => Cardinality(Stopping) > 0)
    BY SomeCounted DEF Refs
  <1>3. \A b : Bit(b) \in {0, 1}
    BY DEF Bit
  <1>4. Bit(Kept) \in {0, 1} /\ Bit(tun # "gone") \in {0, 1} /\ Bit(worker = "on") \in {0, 1}
    BY <1>3
  <1>5. /\ Kept => Bit(Kept) = 1
        /\ tun # "gone" => Bit(tun # "gone") = 1
        /\ worker = "on" => Bit(worker = "on") = 1
    BY SMT DEF Bit
  <1>6. enc = Bit(Kept) + Bit(tun # "gone") + Bit(worker = "on") + Cardinality(running) + Cardinality(Stopping)
    BY DEF Refs
  <1>7. receivers \in Nat /\ dec = Bit(Kept) + receivers
    BY DEF Refs
  <1>8. running # {} \/ Stopping # {} \/ tun # "gone" \/ worker = "on" \/ Kept => enc > 0
    BY SMT, <1>1, <1>2, <1>4, <1>5, <1>6
  <1>9. ASSUME Kept PROVE dec > 0
    <2>1. dec = 1 + receivers
      BY <1>5, <1>7, <1>9
    <2> QED BY SMT, <1>7, <2>1
  <1> QED BY <1>1, <1>2, <1>3, <1>8, <1>9

\* Whoever is about to write has kept the queue open.
LEMMA CoveredOpen ==
    ASSUME Refs, NEW w, NEW p \in Peer, Covered(w, p)
    PROVE  ~encClosed
  <1>1. running # {} \/ Stopping # {} \/ tun # "gone" \/ worker = "on"
    <2>0. p # None
      BY DeviceAssumption
    <2>1. ASSUME NEW c \in Caller, current[c] = p PROVE Stopping # {}
      BY <2>0, <2>1 DEF Stopping
    <2> QED BY <2>1 DEF Covered
  <1>2. enc > 0
    BY <1>1, EncParts
  <1>3. encClosed => enc = 0
    BY DEF Refs
  <1> QED BY SMT, <1>2, <1>3

\* As long as the device is not closed, its queues are open.
LEMMA KeptOpen ==
    ASSUME Refs, Kept
    PROVE  ~encClosed /\ ~decClosed
  <1>1. enc > 0 /\ dec > 0
    BY EncParts
  <1>2. (encClosed => enc = 0) /\ (decClosed => dec = 0)
    BY DEF Refs
  <1> QED BY SMT, <1>1, <1>2

-----------------------------------------------------------------------------
(* A caller goes on *)

\* Caller c is at step s of operation o after the step, and the others stay where they are.
Moves(c, o, s) ==
    /\ DOMAIN pc' = Caller /\ DOMAIN op' = Caller
    /\ pc'[c] = s /\ op'[c] = o
    /\ \A d \in Caller \ {c} : pc'[d] = pc[d] /\ op'[d] = op[d]

LEMMA GotoMoves ==
    ASSUME Shapes, NEW c \in Caller, NEW s, Goto(c, s)
    PROVE  /\ op' = op => Moves(c, op[c], s)
           /\ \A o : op' = [op EXCEPT ![c] = o] => Moves(c, o, s)
  BY DEF Shapes, Goto, Moves

\* The others: only the holder of the state lock changes it or the state.
LEMMA CallersStep ==
    ASSUME Shapes, \A d \in Caller : CallerOK(d),
           NEW c \in Caller, NEW o, NEW s, Moves(c, o, s),
           (state' = state /\ stateMu' = stateMu) \/ stateMu \in {c, None},
           StepOK(c, o, s, state', stateMu')
    PROVE  \A d \in Caller : CallerOK(d)'
  <1>1. \A d \in Caller \ {c} : pc'[d] = pc[d] /\ op'[d] = op[d]
    BY DEF Moves
  <1>2. pc'[c] = s /\ op'[c] = o
    BY DEF Moves
  <1>3. CallerOK(c)'
    BY <1>2 DEF CallerOK
  <1>4. ASSUME NEW d \in Caller \ {c} PROVE CallerOK(d)'
    <2>1. pc'[d] = pc[d] /\ op'[d] = op[d] /\ StepOK(d, op[d], pc[d], state, stateMu)
      BY <1>1 DEF CallerOK
    <2>2. d # None /\ d # c
      BY DeviceAssumption
    <2>3. StepOK(d, op[d], pc[d], state', stateMu')
      BY <2>1, <2>2 DEF StepOK, StateOps
    <2> QED BY <2>1, <2>3 DEF CallerOK
  <1> QED BY <1>3, <1>4

\* The references of the device stay, unless the state becomes closed or a caller
\* enters or leaves the part of Close that holds them.
LEMMA KeptStays ==
    ASSUME Shapes, NEW c \in Caller, NEW o, NEW s, Moves(c, o, s),
           state' = "closed" <=> state = "closed",
           Releasing(c) <=> (o = "close" /\ s \in CloseSteps)
    PROVE  Kept' <=> Kept
  <1>1. \A d \in Caller \ {c} : pc'[d] = pc[d] /\ op'[d] = op[d]
    BY DEF Moves
  <1>2. pc'[c] = s /\ op'[c] = o
    BY DEF Moves
  <1>3. \A d \in Caller : Releasing(d)' <=> Releasing(d)
    BY <1>1, <1>2 DEF Releasing
  <1> QED BY <1>3 DEF Kept

LEMMA RefsStay ==
    ASSUME Refs, Kept' <=> Kept, tun' # "gone" <=> tun # "gone",
           UNCHANGED <<current, running, receivers, worker, queues>>
    PROVE  Refs'
  <1>1. Stopping' = Stopping
    BY DEF Stopping
  <1>2. Bit(Kept)' = Bit(Kept) /\ Bit(tun # "gone")' = Bit(tun # "gone") /\ Bit(worker = "on")' = Bit(worker = "on")
    BY DEF Bit
  <1> QED BY <1>1, <1>2 DEF Refs, queues

LEMMA WritesStay ==
    ASSUME Writes, tun' # "gone" <=> tun # "gone", UNCHANGED <<current, running, worker, writing>>
    PROVE  Writes'
  BY DEF Writes, Covered

\* A caller goes on and holds, gives up or takes nothing but locks.
LEMMA QuietStep ==
    ASSUME DeviceInv, NEW c \in Caller, NEW o, NEW s, Moves(c, o, s),
           (state' = state /\ stateMu' = stateMu) \/ stateMu \in {c, None},
           StepOK(c, o, s, state', stateMu'),
           Kept' <=> Kept, tun' # "gone" <=> tun # "gone",
           keyMap' \subseteq Peer /\ IsFiniteSet(keyMap'),
           UNCHANGED <<current, running, receivers, worker, queues, writing, broken>>
    PROVE  DeviceInv'
  <1>0. Shapes /\ (\A d \in Caller : CallerOK(d)) /\ Refs /\ Writes /\ ~broken
    BY DEF DeviceInv
  <1>1. Shapes'
    BY <1>0 DEF Shapes, Moves
  <1>2. \A d \in Caller : CallerOK(d)'
    BY <1>0, CallersStep
  <1>3. Refs'
    BY <1>0, RefsStay
  <1>4. Writes'
    BY <1>0, WritesStay
  <1> QED BY <1>0, <1>1, <1>2, <1>3, <1>4 DEF DeviceInv

\* The same for a step within an operation that changes neither the state nor its lock.
LEMMA WithinStep ==
    ASSUME DeviceInv, NEW c \in Caller, NEW s, Goto(c, s), op' = op, state' = state, stateMu' = stateMu,
           StepOK(c, op[c], s, state, stateMu),
           op[c] = "close" => (pc[c] \in CloseSteps <=> s \in CloseSteps),
           keyMap' \subseteq Peer /\ IsFiniteSet(keyMap'), tun' = tun,
           UNCHANGED <<current, running, receivers, worker, queues, writing, broken>>
    PROVE  DeviceInv'
  <1>1. Shapes
    BY DEF DeviceInv
  <1>2. Moves(c, op[c], s)
    BY <1>1, GotoMoves
  <1>3. Kept' <=> Kept
    BY <1>1, <1>2, KeptStays DEF Releasing
  <1> QED BY <1>2, <1>3, QuietStep

\* What the invariant says of one caller.
LEMMA AtStep ==
    ASSUME DeviceInv, NEW c \in Caller
    PROVE  StepOK(c, op[c], pc[c], state, stateMu) /\ keyMap \subseteq Peer /\ IsFiniteSet(keyMap) /\ Shapes
  BY DEF DeviceInv, CallerOK, Shapes

LEMMA NamesApart == "up" \notin Peer /\ "down" \notin Peer /\ "close" \notin Peer /\ "port" \notin Peer
  BY DeviceAssumption

LEMMA WithinSteps ==
    ASSUME DeviceInv, NEW c \in Caller,
           LockNet(c) \/ BindClosed(c) \/ LockPeers(c) \/ RemoveAllPeers(c) \/ PostConfig(c) \/ RemovePeer(c)
    PROVE  DeviceInv'
  <1>0. StepOK(c, op[c], pc[c], state, stateMu) /\ keyMap \subseteq Peer /\ IsFiniteSet(keyMap)
    BY AtStep
  <1>1. PICK s : /\ Goto(c, s)
                 /\ \/ pc[c] = "bindUpdate" /\ s = "updateWait"
                    \/ pc[c] = "bindClose" /\ s = "closeWait"
                    \/ pc[c] = "closeWait" /\ s = "stopPeers"
                    \/ pc[c] = "stopPeers" /\ s = "stop"
                    \/ pc[c] = "removeAll" /\ s = "stop"
                    \/ pc[c] = "postConfig" /\ s \in {"start", "ipcDone"}
                    \/ pc[c] = "remove" /\ s = "stop"
    BY SMT DEF LockNet, BindClosed, LockPeers, RemoveAllPeers, PostConfig, RemovePeer
  <1>2. UNCHANGED <<op, state, stateMu, keyMap, tun, current, running, receivers, worker, queues, writing, broken>>
    BY DEF LockNet, BindClosed, LockPeers, RemoveAllPeers, PostConfig, RemovePeer, peers, locks
  <1>3. StepOK(c, op[c], s, state, stateMu)
    BY SMT, <1>0, <1>1, NamesApart DEF StepOK, StepOf, UpSteps, DownSteps, CloseSteps, PortSteps, PeerSteps, StateOps
  <1>4. op[c] = "close" => (pc[c] \in CloseSteps <=> s \in CloseSteps)
    BY SMT, <1>0, <1>1, NamesApart DEF StepOK, StepOf, CloseSteps, PeerSteps
  <1> QED BY <1>0, <1>1, <1>2, <1>3, <1>4, WithinStep

\* A step that changes nothing the invariant speaks of.
LEMMA Stutter ==
    ASSUME DeviceInv, UNCHANGED <<state, stateMu, pc, op, current, keyMap, running, receivers, tun, worker,
                                  queues, writing, broken>>
    PROVE  DeviceInv'
  <1>1. (Kept' <=> Kept) /\ Shapes' /\ \A c \in Caller : CallerOK(c)'
    BY DEF DeviceInv, Kept, Releasing, Shapes, CallerOK
  <1> QED BY <1>1, RefsStay, WritesStay DEF DeviceInv

LEMMA ChangeStateInv ==
    ASSUME DeviceInv, NEW c \in Caller, NEW want \in {"up", "down"}, ChangeState(c, want)
    PROVE  DeviceInv'
  <1>0. StepOK(c, op[c], pc[c], state, stateMu) /\ keyMap \subseteq Peer /\ IsFiniteSet(keyMap) /\ Shapes
    BY AtStep
  <1>1. UNCHANGED <<keyMap, tun, current, running, receivers, worker, queues, writing, broken>>
    BY DEF ChangeState, peers
  <1>2. CASE state \in {"closed", want}
    BY <1>1, <1>2, Stutter DEF ChangeState
  <1>3. CASE state \notin {"closed", want}
    <2> DEFINE s == IF want = "up" THEN "bindUpdate" ELSE "bindClose"
    <2>1. /\ pc[c] = "idle" /\ stateMu = None /\ stateMu' = c /\ state' = want
          /\ op' = [op EXCEPT ![c] = want] /\ Goto(c, s)
      BY <1>3 DEF ChangeState
    <2> HIDE DEF s
    <2>2. Moves(c, want, s)
      BY <1>0, <2>1, GotoMoves
    <2>3. StepOK(c, want, s, state', stateMu')
      BY SMT, <2>1 DEF StepOK, StepOf, UpSteps, DownSteps, s
    <2>4. state' # "closed" /\ state # "closed"
      BY <1>3, <2>1
    <2>5. Kept' <=> Kept
      BY <2>4 DEF Kept
    <2> QED BY <1>0, <1>1, <2>1, <2>2, <2>3, <2>5, QuietStep
  <1> QED BY <1>2, <1>3

LEMMA StartCloseInv ==
    ASSUME DeviceInv, NEW c \in Caller, StartClose(c)
    PROVE  DeviceInv'
  <1>0. keyMap \subseteq Peer /\ IsFiniteSet(keyMap) /\ Shapes
    BY AtStep
  <1>1. /\ UNCHANGED <<state, keyMap, tun, current, running, receivers, worker, queues, writing, broken>>
        /\ pc[c] = "idle" /\ stateMu = None /\ stateMu' = c
        /\ op' = [op EXCEPT ![c] = "close"] /\ Goto(c, "closeIpc")
    BY DEF StartClose, peers
  <1>2. Moves(c, "close", "closeIpc")
    BY <1>0, <1>1, GotoMoves
  <1>3. StepOK(c, "close", "closeIpc", state', stateMu')
    BY SMT, <1>1 DEF StepOK, StepOf
  <1>4. pc[c] \notin CloseSteps /\ "closeIpc" \notin CloseSteps
    BY <1>1 DEF CloseSteps
  <1>5. Kept' <=> Kept
    BY <1>0, <1>1, <1>2, <1>4, KeptStays DEF Releasing
  <1> QED BY <1>0, <1>1, <1>2, <1>3, <1>5, QuietStep

LEMMA CloseIpcInv ==
    ASSUME DeviceInv, NEW c \in Caller, CloseIpc(c)
    PROVE  DeviceInv'
  <1>0. StepOK(c, op[c], pc[c], state, stateMu) /\ keyMap \subseteq Peer /\ IsFiniteSet(keyMap) /\ Shapes
    BY AtStep
  <1>1. /\ UNCHANGED <<op, keyMap, current, running, receivers, worker, queues, writing, broken>>
        /\ pc[c] = "closeIpc"
    BY DEF CloseIpc, peers
  <1>2. op[c] = "close" /\ stateMu = c
    BY SMT, <1>0, <1>1, NamesApart DEF StepOK, StepOf, UpSteps, DownSteps, PortSteps, PeerSteps, StateOps
  <1>3. CASE state = "closed"
    <2>1. Goto(c, "idle") /\ state' = state /\ tun' = tun
      BY <1>3 DEF CloseIpc
    <2>2. Moves(c, "close", "idle")
      BY <1>0, <1>1, <1>2, <2>1, GotoMoves
    <2>3. pc[c] \notin CloseSteps /\ "idle" \notin CloseSteps
      BY <1>1 DEF CloseSteps
    <2>4. Kept' <=> Kept
      BY <1>0, <2>1, <2>2, <2>3, KeptStays DEF Releasing
    <2>5. StepOK(c, "close", "idle", state', stateMu')
      BY DEF StepOK
    <2> QED BY <1>0, <1>1, <1>2, <2>1, <2>2, <2>4, <2>5, QuietStep
  <1>4. CASE state # "closed"
    <2>1. /\ Goto(c, "bindClose") /\ state' = "closed" /\ stateMu' = stateMu
          /\ tun' = IF tun = "open" THEN "closed" ELSE tun
      BY <1>4 DEF CloseIpc
    <2>2. Moves(c, "close", "bindClose")
      BY <1>0, <1>1, <1>2, <2>1, GotoMoves
    <2>3. Releasing(c)'
      BY <2>2 DEF Moves, Releasing, CloseSteps
    <2>4. Kept' /\ Kept
      BY <1>4, <2>3 DEF Kept
    <2>5. StepOK(c, "close", "bindClose", state', stateMu')
      BY SMT, <1>2, <2>1 DEF StepOK, StepOf, CloseSteps
    <2>6. tun' # "gone" <=> tun # "gone"
      BY <2>1
    <2> QED BY <1>0, <1>1, <1>2, <2>2, <2>4, <2>5, <2>6, QuietStep
  <1> QED BY <1>3, <1>4

LEMMA PeersStoppedInv ==
    ASSUME DeviceInv, NEW c \in Caller, PeersStopped(c)
    PROVE  DeviceInv'
  <1>0. StepOK(c, op[c], pc[c], state, stateMu) /\ keyMap \subseteq Peer /\ IsFiniteSet(keyMap) /\ Shapes
    BY AtStep
  <1>1. /\ UNCHANGED <<op, state, tun, current, running, receivers, worker, queues, writing, broken>>
        /\ pc[c] = "stop"
    BY DEF PeersStopped
  <1>2. CASE op[c] \in {"up", "down"} /\ stateMu' = None /\ Goto(c, "idle") /\ UNCHANGED keyMap
    <2>1. Moves(c, op[c], "idle")
      BY <1>0, <1>1, <1>2, GotoMoves
    <2>2. stateMu = c
      BY SMT, <1>0, <1>1, <1>2 DEF StepOK, StateOps
    <2>3. StepOK(c, op[c], "idle", state', stateMu')
      BY DEF StepOK
    <2>4. Kept' <=> Kept
      BY <1>0, <1>1, <1>2, <2>1, KeptStays DEF Releasing
    <2> QED BY <1>0, <1>1, <1>2, <2>1, <2>2, <2>3, <2>4, QuietStep
  <1>3. CASE \E s \in {"removeAll", "release"} :
               op[c] = "close" /\ Goto(c, s) /\ UNCHANGED stateMu /\ keyMap' \in {keyMap, {}}
    <2>1. PICK s \in {"removeAll", "release"} : Goto(c, s)
      BY <1>3
    <2>2. StepOK(c, op[c], s, state, stateMu)
      BY SMT, <1>0, <1>1, <1>3, NamesApart DEF StepOK, StepOf, CloseSteps
    <2>3. pc[c] \in CloseSteps /\ s \in CloseSteps
      BY <1>1 DEF CloseSteps
    <2>4. keyMap' \subseteq Peer /\ IsFiniteSet(keyMap')
      BY <1>0, <1>3, FS_EmptySet
    <2> QED BY <1>1, <1>3, <2>1, <2>2, <2>3, <2>4, WithinStep
  <1>4. CASE op[c] \in Peer /\ keyMap' = keyMap \ {op[c]} /\ Goto(c, "ipcDone") /\ UNCHANGED stateMu
    <2>1. StepOK(c, op[c], "ipcDone", state, stateMu)
      BY SMT, <1>4, NamesApart DEF StepOK, StepOf, PeerSteps, StateOps
    <2>2. op[c] # "close"
      BY <1>4, NamesApart
    <2>3. keyMap' \subseteq Peer /\ IsFiniteSet(keyMap')
      BY <1>0, <1>4, FS_RemoveElement
    <2> QED BY <1>1, <1>4, <2>1, <2>2, <2>3, WithinStep
  <1> QED BY <1>2, <1>3, <1>4 DEF PeersStopped

LEMMA CloseReturnsInv ==
    ASSUME DeviceInv, NEW c \in Caller, CloseReturns(c)
    PROVE  DeviceInv'
  <1>0. StepOK(c, op[c], pc[c], state, stateMu) /\ keyMap \subseteq Peer /\ IsFiniteSet(keyMap) /\ Shapes
    BY AtStep
  <1>1. /\ UNCHANGED <<op, state, keyMap, tun, current, running, receivers, worker, queues, writing, broken>>
        /\ pc[c] = "awaitTun" /\ Goto(c, "idle")
    BY DEF CloseReturns, peers
  <1>2. op[c] = "close" /\ stateMu = c
    BY SMT, <1>0, <1>1, NamesApart DEF StepOK, StepOf, UpSteps, DownSteps, PortSteps, PeerSteps, StateOps
  <1>3. Moves(c, op[c], "idle")
    BY <1>0, <1>1, GotoMoves
  <1>4. pc[c] \notin CloseSteps /\ "idle" \notin CloseSteps
    BY <1>1 DEF CloseSteps
  <1>5. Kept' <=> Kept
    BY <1>0, <1>1, <1>3, <1>4, KeptStays DEF Releasing
  <1>6. StepOK(c, op[c], "idle", state', stateMu')
    BY DEF StepOK
  <1> QED BY <1>0, <1>1, <1>2, <1>3, <1>5, <1>6, QuietStep

LEMMA StartIpcInv ==
    ASSUME DeviceInv, NEW c \in Caller, NEW what \in Peer \cup {"port"}, StartIpc(c, what)
    PROVE  DeviceInv'
  <1>0. keyMap \subseteq Peer /\ IsFiniteSet(keyMap) /\ Shapes
    BY AtStep
  <1>1. /\ UNCHANGED <<state, stateMu, keyMap, tun, current, running, receivers, worker, queues, writing, broken>>
        /\ pc[c] = "idle" /\ op' = [op EXCEPT ![c] = what]
    BY DEF StartIpc, peers
  <1>2. PICK s : Goto(c, s) /\ (what = "port" => s = "bindUpdate") /\ (what # "port" => s \in {"add", "remove"})
    BY DEF StartIpc
  <1>3. Moves(c, what, s)
    BY <1>0, <1>1, <1>2, GotoMoves
  <1>4. StepOK(c, what, s, state, stateMu)
    BY SMT, <1>2, NamesApart DEF StepOK, StepOf, PortSteps, PeerSteps, StateOps
  <1>5. pc[c] \notin CloseSteps /\ what # "close"
    BY <1>1, NamesApart DEF CloseSteps
  <1>6. Kept' <=> Kept
    BY <1>0, <1>1, <1>3, <1>5, KeptStays DEF Releasing
  <1> QED BY <1>0, <1>1, <1>3, <1>4, <1>6, QuietStep

LEMMA AddPeerInv ==
    ASSUME DeviceInv, NEW c \in Caller, AddPeer(c)
    PROVE  DeviceInv'
  <1>0. StepOK(c, op[c], pc[c], state, stateMu) /\ keyMap \subseteq Peer /\ IsFiniteSet(keyMap)
    BY AtStep
  <1>1. /\ UNCHANGED <<op, state, stateMu, tun, current, running, receivers, worker, queues, writing, broken>>
        /\ pc[c] = "add"
    BY DEF AddPeer, locks
  <1>2. op[c] \in Peer
    BY SMT, <1>0, <1>1 DEF StepOK, StepOf, UpSteps, DownSteps, CloseSteps, PortSteps
  <1>3. PICK s \in {"postConfig", "ipcDone"} : Goto(c, s)
    BY DEF AddPeer
  <1>4. StepOK(c, op[c], s, state, stateMu)
    BY SMT, <1>2, <1>3, NamesApart DEF StepOK, StepOf, PeerSteps, StateOps
  <1>5. keyMap' = keyMap \/ keyMap' = keyMap \cup {op[c]}
    BY DEF AddPeer
  <1>6. keyMap' \subseteq Peer /\ IsFiniteSet(keyMap')
    BY ZenonT(30), <1>0, <1>2, <1>5, FS_AddElement
  <1>7. op[c] # "close"
    BY <1>2, NamesApart
  <1> QED BY <1>1, <1>3, <1>4, <1>6, <1>7, WithinStep

LEMMA IpcDoneInv ==
    ASSUME DeviceInv, NEW c \in Caller, IpcDone(c)
    PROVE  DeviceInv'
  <1>0. keyMap \subseteq Peer /\ IsFiniteSet(keyMap)
    BY AtStep
  <1>1. /\ UNCHANGED <<op, state, stateMu, keyMap, tun, current, running, receivers, worker, queues, writing, broken>>
        /\ pc[c] = "ipcDone" /\ Goto(c, "idle")
    BY DEF IpcDone, peers
  <1>2. StepOK(c, op[c], "idle", state, stateMu)
    BY DEF StepOK
  <1>3. pc[c] \notin CloseSteps /\ "idle" \notin CloseSteps
    BY <1>1 DEF CloseSteps
  <1> QED BY <1>0, <1>1, <1>2, <1>3, WithinStep

-----------------------------------------------------------------------------
(* Peers and sockets take and give up references *)

\* Peers start, are being stopped, or have been stopped: enc follows.
LEMMA Recount ==
    ASSUME Refs, Kept' <=> Kept, UNCHANGED <<tun, worker, receivers, dec, encClosed, decClosed>>,
           IsFiniteSet(running'), IsFiniteSet(Stopping'),
           NEW k \in Int, enc' = enc + k, encClosed => k = 0,
           Cardinality(running') + Cardinality(Stopping') = Cardinality(running) + Cardinality(Stopping) + k
    PROVE  Refs'
  <1>1. Bit(Kept)' = Bit(Kept) /\ Bit(tun # "gone")' = Bit(tun # "gone") /\ Bit(worker = "on")' = Bit(worker = "on")
    BY DEF Bit
  <1>2. /\ enc = Bit(Kept) + Bit(tun # "gone") + Bit(worker = "on") + Cardinality(running) + Cardinality(Stopping)
        /\ receivers \in Nat /\ dec = Bit(Kept) + receivers
        /\ (encClosed => enc = 0) /\ (decClosed => dec = 0)
    BY DEF Refs
  <1>3. Cardinality(running) \in Nat /\ Cardinality(Stopping) \in Nat /\ Bit(Kept) \in {0, 1}
        /\ Bit(tun # "gone") \in {0, 1} /\ Bit(worker = "on") \in {0, 1}
    BY EncParts
  <1>4. Cardinality(running') \in Nat /\ Cardinality(Stopping') \in Nat
    BY FS_CardinalityType
  <1>5. enc' = Bit(Kept) + Bit(tun # "gone") + Bit(worker = "on") + Cardinality(running') + Cardinality(Stopping')
    BY SMT, <1>2, <1>3, <1>4
  <1>6. encClosed => enc' = 0
    BY SMT, <1>2
  <1> QED BY <1>1, <1>2, <1>5, <1>6 DEF Refs

LEMMA StartPeersRefs ==
    ASSUME Refs, NEW S, IsFiniteSet(S), StartPeers(S), Kept' <=> Kept,
           UNCHANGED <<current, tun, worker, receivers, dec, encClosed, decClosed>>
    PROVE  Refs' /\ running \subseteq running' /\ (broken' <=> broken)
  <1> DEFINE started == IF state = "closed" THEN {} ELSE S \ running
  <1>1. /\ running' = running \cup started /\ enc' = enc + Cardinality(started)
        /\ broken' = (broken \/ (started # {} /\ encClosed))
    BY DEF StartPeers
  <1>2. IsFiniteSet(started) /\ running \cap started = {}
    BY FS_EmptySet, FS_Difference
  <1>3. started # {} => Kept
    BY DEF Kept
  <1> HIDE DEF started
  <1>4. IsFiniteSet(running) /\ Cardinality(running) \in Nat /\ Cardinality(Stopping) \in Nat
    BY EncParts DEF Refs
  <1>5. Cardinality(started) \in Nat /\ (started = {} => Cardinality(started) = 0) /\ Cardinality({}) = 0
    BY <1>2, FS_CardinalityType, FS_EmptySet
  <1>6. IsFiniteSet(running') /\ Cardinality(running') = Cardinality(running) + Cardinality(started) - Cardinality({})
    <2>1. /\ IsFiniteSet(running \cup started)
          /\ Cardinality(running \cup started)
               = Cardinality(running) + Cardinality(started) - Cardinality(running \cap started)
      BY <1>2, <1>4, FS_Union
    <2>2. Cardinality(running \cap started) = Cardinality({})
      BY <1>2
    <2>3. running' = running \cup started
      BY <1>1
    <2> QED BY <2>1, <2>2, <2>3
  <1>7. encClosed => started = {}
    BY <1>3, KeptOpen
  <1>8. Stopping' = Stopping /\ IsFiniteSet(Stopping)
    BY DEF Stopping, Refs
  <1>9. Cardinality(running') + Cardinality(Stopping') = Cardinality(running) + Cardinality(Stopping) + Cardinality(started)
    BY SMT, <1>4, <1>5, <1>6, <1>8
  <1>10. Cardinality(started) \in Int /\ (encClosed => Cardinality(started) = 0)
    BY SMT, <1>5, <1>7
  <1>11. Refs'
    BY <1>1, <1>6, <1>8, <1>9, <1>10, Recount
  <1> QED BY <1>1, <1>7, <1>11

LEMMA MorePeersWrites ==
    ASSUME Writes, running \subseteq running', UNCHANGED <<current, tun, worker, writing>>
    PROVE  Writes'
  BY DEF Writes, Covered

\* A caller starts peers, and goes on.
LEMMA StartStep ==
    ASSUME DeviceInv, NEW c \in Caller, NEW S, IsFiniteSet(S), StartPeers(S),
           NEW s, Goto(c, s), op' = op, state' = state, stateMu' = stateMu \/ stateMu = c,
           StepOK(c, op[c], s, state, stateMu'), op[c] # "close",
           UNCHANGED <<current, keyMap, tun, worker, receivers, dec, encClosed, decClosed, writing>>
    PROVE  DeviceInv'
  <1>0. Shapes /\ (\A d \in Caller : CallerOK(d)) /\ Refs /\ Writes /\ ~broken
    BY DEF DeviceInv
  <1>1. Moves(c, op[c], s)
    BY <1>0, GotoMoves
  <1>2. Kept' <=> Kept
    BY <1>0, <1>1, KeptStays DEF Releasing
  <1>3. Refs' /\ running \subseteq running' /\ ~broken'
    BY <1>0, <1>2, StartPeersRefs
  <1>4. Writes'
    BY <1>0, <1>3, MorePeersWrites
  <1>5. Shapes'
    BY <1>0, <1>1 DEF Shapes, Moves
  <1>6. \A d \in Caller : CallerOK(d)'
    BY <1>0, <1>1, CallersStep
  <1> QED BY <1>3, <1>4, <1>5, <1>6 DEF DeviceInv

LEMMA UpStartsInv ==
    ASSUME DeviceInv, NEW c \in Caller, UpStarts(c)
    PROVE  DeviceInv'
  <1>0. StepOK(c, op[c], pc[c], state, stateMu) /\ IsFiniteSet(keyMap)
    BY AtStep
  <1>1. /\ UNCHANGED <<op, state, current, keyMap, tun, worker, receivers, dec, encClosed, decClosed, writing>>
        /\ pc[c] = "upIpc" /\ Goto(c, "idle") /\ StartPeers(keyMap)
    BY DEF UpStarts
  <1>2. op[c] = "up" /\ stateMu = c
    BY SMT, <1>0, <1>1, NamesApart DEF StepOK, StepOf, DownSteps, CloseSteps, PortSteps, PeerSteps, StateOps
  <1>3. StepOK(c, op[c], "idle", state, stateMu')
    BY DEF StepOK
  <1> QED BY <1>0, <1>1, <1>2, <1>3, StartStep

LEMMA PostConfigStartsInv ==
    ASSUME DeviceInv, NEW c \in Caller, PostConfigStarts(c)
    PROVE  DeviceInv'
  <1>0. StepOK(c, op[c], pc[c], state, stateMu)
    BY AtStep
  <1>1. /\ UNCHANGED <<op, state, stateMu, current, keyMap, tun, worker, receivers, dec, encClosed, decClosed, writing>>
        /\ pc[c] = "start" /\ Goto(c, "ipcDone") /\ StartPeers({op[c]})
    BY DEF PostConfigStarts, locks
  <1>2. op[c] \in Peer
    BY SMT, <1>0, <1>1 DEF StepOK, StepOf, UpSteps, DownSteps, CloseSteps, PortSteps
  <1>3. StepOK(c, op[c], "ipcDone", state, stateMu')
    BY SMT, <1>1, <1>2, NamesApart DEF StepOK, StepOf, PeerSteps, StateOps
  <1>4. op[c] # "close" /\ IsFiniteSet({op[c]})
    BY <1>2, NamesApart, FS_Singleton
  <1> QED BY <1>1, <1>3, <1>4, StartStep

\* Peer.Stop begins: the reference of the peer is the caller's now.
LEMMA BeginStopInv ==
    ASSUME DeviceInv, NEW c \in Caller, NEW p \in Peer, BeginStop(c, p)
    PROVE  DeviceInv'
  <1>0. Shapes /\ (\A d \in Caller : CallerOK(d)) /\ Refs /\ Writes /\ ~broken
    BY DEF DeviceInv
  <1>1. UNCHANGED <<pc, op, state, stateMu, keyMap, tun, worker, receivers, queues, writing, broken>>
    BY DEF BeginStop, locks
  <1>2. CASE p \notin running
    <2>1. running' = running /\ current' = current
      BY <1>2 DEF BeginStop
    <2> QED BY <1>1, <2>1, Stutter
  <1>3. CASE p \in running
    <2>1. running' = running \ {p} /\ current' = [current EXCEPT ![c] = p] /\ current[c] = None
      BY <1>3 DEF BeginStop
    <2>2. p # None
      BY DeviceAssumption
    <2>3. /\ current' \in [Caller -> Peer \cup {None}] /\ current'[c] = p
          /\ \A d \in Caller \ {c} : current'[d] = current[d]
      BY <1>0, <2>1 DEF Shapes
    <2>4. Stopping' = Stopping \cup {c} /\ c \notin Stopping
      BY <2>1, <2>2, <2>3 DEF Stopping
    <2>5. IsFiniteSet(running) /\ IsFiniteSet(Stopping) /\ Cardinality(running) \in Nat /\ Cardinality(Stopping) \in Nat
      BY <1>0, EncParts DEF Refs
    <2>6. IsFiniteSet(running') /\ Cardinality(running') = Cardinality(running) - 1
      BY <1>3, <2>1, <2>5, FS_RemoveElement
    <2>7. IsFiniteSet(Stopping') /\ Cardinality(Stopping') = Cardinality(Stopping) + 1
      BY <2>4, <2>5, FS_AddElement
    <2>8. Kept' <=> Kept
      BY <1>1 DEF Kept, Releasing
    <2>9. Refs'
      <3>1. Cardinality(running') + Cardinality(Stopping') = Cardinality(running) + Cardinality(Stopping) + 0
        BY SMT, <2>5, <2>6, <2>7
      <3>2. enc' = enc + 0 /\ 0 \in Int
        <4>1. enc \in Int
          BY SMT, <1>0, <2>5, EncParts DEF Refs
        <4> QED BY SMT, <1>1, <4>1 DEF queues
      <3> QED BY <1>0, <1>1, <2>6, <2>7, <2>8, <3>1, <3>2, Recount DEF queues
    <2>10. Writes'
      <3>1. \A q \in running : q \in running' \/ current'[c] = q
        BY <2>1, <2>3
      <3>2. \A q \in Peer : (\E d \in Caller : current[d] = q) => \E d \in Caller : current'[d] = q
        BY <2>1, <2>3, DeviceAssumption
      <3> QED BY <1>0, <1>1, <3>1, <3>2 DEF Writes, Covered
    <2>11. Shapes' /\ \A d \in Caller : CallerOK(d)'
      BY <1>0, <1>1, <2>3 DEF Shapes, CallerOK
    <2> QED BY <1>0, <1>1, <2>9, <2>10, <2>11 DEF DeviceInv
  <1> QED BY <1>2, <1>3

\* Peer.Stop ends: the peer's own routines have nothing left to write.
LEMMA EndStopInv ==
    ASSUME DeviceInv, NEW c \in Caller, EndStop(c)
    PROVE  DeviceInv'
  <1>0. Shapes /\ (\A d \in Caller : CallerOK(d)) /\ Refs /\ Writes /\ ~broken
    BY DEF DeviceInv
  <1>1. /\ UNCHANGED <<pc, op, state, stateMu, keyMap, running, tun, worker, receivers, dec, encClosed, decClosed, writing, broken>>
        /\ current[c] # None /\ RoutinesDone(current[c])
        /\ enc' = enc - 1 /\ current' = [current EXCEPT ![c] = None]
    BY DEF EndStop, locks, peers
  <1>2. /\ current' \in [Caller -> Peer \cup {None}] /\ current'[c] = None
        /\ \A d \in Caller \ {c} : current'[d] = current[d]
    BY <1>0, <1>1 DEF Shapes
  <1>3. Stopping' = Stopping \ {c} /\ c \in Stopping
    BY <1>1, <1>2 DEF Stopping
  <1>4. IsFiniteSet(running) /\ IsFiniteSet(Stopping) /\ Cardinality(running) \in Nat /\ Cardinality(Stopping) \in Nat
    BY <1>0, EncParts DEF Refs
  <1>5. IsFiniteSet(Stopping') /\ Cardinality(Stopping') = Cardinality(Stopping) - 1
    BY <1>3, <1>4, FS_RemoveElement
  <1>6. Kept' <=> Kept
    BY <1>1 DEF Kept, Releasing
  <1>7. enc > 0 /\ enc \in Int
    <2>1. enc > 0
      BY <1>0, <1>3, EncParts
    <2>2. enc \in Int
      BY SMT, <1>0, <1>4, EncParts DEF Refs
    <2> QED BY <2>1, <2>2
  <1>8. ~encClosed
    <2>1. encClosed => enc = 0
      BY <1>0 DEF Refs
    <2> QED BY SMT, <1>7, <2>1
  <1>9. Refs'
    <2>1. Cardinality(running') + Cardinality(Stopping') = Cardinality(running) + Cardinality(Stopping) + (-1)
      BY SMT, <1>1, <1>4, <1>5
    <2>2. enc' = enc + (-1) /\ -1 \in Int
      BY SMT, <1>1, <1>7
    <2> QED BY <1>0, <1>1, <1>4, <1>5, <1>6, <1>8, <2>1, <2>2, Recount
  <1>10. Writes'
    <2>1. ASSUME NEW w \in Writer, NEW p \in Peer, <<w, p>> \in writing PROVE Covered(w, p)'
      <3>1. Covered(w, p)
        BY <1>0, <2>1 DEF Writes
      <3>2. w \in Routine => p # current[c]
        BY <1>1, <2>1 DEF RoutinesDone
      <3> QED BY <1>1, <1>2, <3>1, <3>2 DEF Covered
    <2> QED BY <1>0, <1>1, <2>1 DEF Writes
  <1>11. Shapes' /\ \A d \in Caller : CallerOK(d)'
    BY <1>0, <1>1, <1>2 DEF Shapes, CallerOK
  <1> QED BY <1>0, <1>1, <1>9, <1>10, <1>11 DEF DeviceInv

\* Where BindUpdate leads to: a failure takes the device down, which was not closed.
LEMMA AfterUpdateMoves ==
    ASSUME DeviceInv, NEW c \in Caller, pc[c] \in {"updateWait", "markSources"}, NEW ok \in BOOLEAN, AfterUpdate(c, ok),
           op' = op, stateMu' = stateMu
    PROVE  /\ \E s : Moves(c, op[c], s) /\ StepOK(c, op[c], s, state', stateMu')
           /\ state' = state \/ stateMu = c
           /\ Kept' <=> Kept
  <1>0. StepOK(c, op[c], pc[c], state, stateMu) /\ Shapes
    BY AtStep
  <1>1. /\ op[c] = "port" \/ (op[c] = "up" /\ stateMu = c /\ state # "closed")
    BY SMT, <1>0, NamesApart DEF StepOK, StepOf, DownSteps, CloseSteps, PeerSteps, StateOps
  <1>2. PICK s : /\ Goto(c, s)
                 /\ \/ op[c] = "port" /\ s = "ipcDone" /\ state' = state
                    \/ op[c] = "up" /\ s = "upIpc" /\ state' = state
                    \/ op[c] = "up" /\ s = "bindClose" /\ state' = "down"
    BY <1>1 DEF AfterUpdate
  <1>3. Moves(c, op[c], s)
    BY <1>0, <1>2, GotoMoves
  <1>4. StepOK(c, op[c], s, state', stateMu')
    BY SMT, <1>1, <1>2, NamesApart DEF StepOK, StepOf, UpSteps, PortSteps, StateOps
  <1>5. op[c] # "close" /\ (state' = "closed" <=> state = "closed")
    BY <1>1, <1>2
  <1>6. Kept' <=> Kept
    BY <1>0, <1>3, <1>5, KeptStays DEF Releasing
  <1> QED BY <1>1, <1>2, <1>3, <1>4, <1>6

LEMMA OpenBindInv ==
    ASSUME DeviceInv, NEW c \in Caller, OpenBind(c)
    PROVE  DeviceInv'
  <1>0. StepOK(c, op[c], pc[c], state, stateMu) /\ keyMap \subseteq Peer /\ IsFiniteSet(keyMap)
    BY AtStep
  <1>1. /\ UNCHANGED <<op, stateMu, keyMap, running, current, tun, receivers, worker, queues, writing, broken>>
        /\ pc[c] = "updateWait"
    BY DEF OpenBind, peers
  <1>2. CASE OpensSockets /\ Goto(c, "markSources") /\ state' = state
    <2>1. StepOK(c, op[c], "markSources", state, stateMu)
      BY SMT, <1>0, <1>1, NamesApart DEF StepOK, StepOf, UpSteps, DownSteps, CloseSteps, PortSteps, PeerSteps, StateOps
    <2>2. op[c] # "close"
      BY SMT, <1>0, <1>1, NamesApart DEF StepOK, StepOf, CloseSteps, StateOps
    <2> QED BY <1>0, <1>1, <1>2, <2>1, <2>2, WithinStep
  <1>3. CASE \E ok \in BOOLEAN : AfterUpdate(c, ok)
    <2>1. /\ state' = state \/ stateMu = c
          /\ Kept' <=> Kept
      BY <1>1, <1>3, AfterUpdateMoves
    <2>2. PICK s : Moves(c, op[c], s) /\ StepOK(c, op[c], s, state', stateMu')
      BY <1>1, <1>3, AfterUpdateMoves
    <2> QED BY <1>0, <1>1, <2>1, <2>2, QuietStep
  <1> QED BY <1>2, <1>3 DEF OpenBind

\* The receivers start: the device is not closed, so the queues are open.
LEMMA MarkSourcesInv ==
    ASSUME DeviceInv, IpcInv, NEW c \in Caller, MarkSources(c)
    PROVE  DeviceInv'
  <1>0. Shapes /\ (\A d \in Caller : CallerOK(d)) /\ Refs /\ Writes /\ ~broken
    BY DEF DeviceInv
  <1>1. /\ UNCHANGED <<op, stateMu, keyMap, running, current, tun, worker, enc, encClosed, decClosed, writing>>
        /\ pc[c] = "markSources" /\ AfterUpdate(c, TRUE)
        /\ receivers' = receivers + Sockets /\ dec' = dec + Sockets /\ broken' = (broken \/ decClosed)
    BY DEF MarkSources, peers
  <1>2. /\ state' = state \/ stateMu = c
        /\ Kept' <=> Kept
    BY <1>1, AfterUpdateMoves
  <1>3. PICK s : Moves(c, op[c], s) /\ StepOK(c, op[c], s, state', stateMu')
    BY <1>1, AfterUpdateMoves
  <1>4. Kept
    <2>1. StepOK(c, op[c], pc[c], state, stateMu) /\ IpcStepOK(c, op[c], pc[c], state, ipcMu)
      BY <1>0 DEF CallerOK, IpcInv, IpcOK
    <2>2. state # "closed"
      BY SMT, <1>1, <2>1, NamesApart DEF StepOK, StepOf, IpcStepOK, UpSteps, DownSteps, CloseSteps, PortSteps, PeerSteps
    <2> QED BY <2>2 DEF Kept
  <1>5. ~decClosed /\ ~encClosed
    BY <1>0, <1>4, KeptOpen
  <1>6. ~broken'
    BY <1>0, <1>1, <1>5
  <1>7. Stopping' = Stopping /\ Bit(Kept)' = Bit(Kept) /\ Bit(tun # "gone")' = Bit(tun # "gone")
        /\ Bit(worker = "on")' = Bit(worker = "on")
    BY <1>1, <1>2 DEF Stopping, Bit
  <1>8. dec' = Bit(Kept) + receivers' /\ receivers' \in Nat
    <2>1. dec = Bit(Kept) + receivers /\ Bit(Kept) \in {0, 1} /\ Sockets \in Nat /\ receivers \in Nat
      BY <1>0, EncParts, DeviceAssumption DEF Refs
    <2> QED BY SMT, <1>1, <2>1
  <1>9. Refs'
    BY <1>0, <1>1, <1>5, <1>7, <1>8 DEF Refs
  <1>10. Writes'
    BY <1>0, <1>1, WritesStay
  <1>11. Shapes'
    BY <1>0, <1>1, <1>3 DEF Shapes, Moves
  <1>12. \A d \in Caller : CallerOK(d)'
    BY <1>0, <1>1, <1>2, <1>3, CallersStep
  <1> QED BY <1>6, <1>9, <1>10, <1>11, <1>12 DEF DeviceInv

-----------------------------------------------------------------------------
(* The device, the TUN reader, the handshake worker and the receivers give up theirs *)

\* Close gives up the references of the device, and no other Close can hold them.
LEMMA ReleaseInv ==
    ASSUME DeviceInv, NEW c \in Caller, Release(c)
    PROVE  DeviceInv'
  <1>0. Shapes /\ (\A d \in Caller : CallerOK(d)) /\ Refs /\ Writes /\ ~broken
    BY DEF DeviceInv
  <1>1. /\ UNCHANGED <<op, state, stateMu, current, keyMap, running, receivers, tun, worker, encClosed, decClosed, writing, broken>>
        /\ pc[c] = "release" /\ Goto(c, "awaitTun") /\ enc' = enc - 1 /\ dec' = dec - 1
    BY DEF Release, ReleaseQueues, locks, peers
  <1>2. StepOK(c, op[c], pc[c], state, stateMu)
    BY AtStep
  <1>3. op[c] = "close" /\ stateMu = c /\ state = "closed"
    BY SMT, <1>1, <1>2, NamesApart DEF StepOK, StepOf, UpSteps, DownSteps, PortSteps, PeerSteps, StateOps
  <1>4. Moves(c, op[c], "awaitTun")
    BY <1>0, <1>1, GotoMoves
  <1>5. StepOK(c, op[c], "awaitTun", state', stateMu')
    BY SMT, <1>1, <1>3 DEF StepOK, StepOf, StateOps
  <1>6. Kept
    BY <1>1, <1>3 DEF Kept, Releasing, CloseSteps
  <1>7. ~Kept'
    <2>1. ~Releasing(c)'
      BY <1>4 DEF Moves, Releasing, CloseSteps
    <2>2. ASSUME NEW d \in Caller \ {c}, Releasing(d)' PROVE FALSE
      <3>1. op[d] = "close" /\ pc[d] \in CloseSteps
        BY <1>4, <2>2 DEF Moves, Releasing
      <3>2. StepOK(d, op[d], pc[d], state, stateMu)
        BY <1>0 DEF CallerOK
      <3>3. stateMu = d
        BY SMT, <3>1, <3>2 DEF StepOK, StateOps, CloseSteps
      <3> QED BY <1>3, <3>3
    <2> QED BY <1>1, <1>3, <2>1, <2>2 DEF Kept
  <1>8. ~encClosed /\ ~decClosed
    BY <1>0, <1>6, KeptOpen
  <1>9. Refs'
    <2>1. Stopping' = Stopping /\ Bit(tun # "gone")' = Bit(tun # "gone") /\ Bit(worker = "on")' = Bit(worker = "on")
      BY <1>1 DEF Stopping, Bit
    <2>2. Bit(Kept) = 1 /\ Bit(Kept)' = 0
      BY <1>6, <1>7 DEF Bit
    <2>3. /\ enc = 1 + Bit(tun # "gone") + Bit(worker = "on") + Cardinality(running) + Cardinality(Stopping)
          /\ dec = 1 + receivers /\ receivers \in Nat
      BY <1>0, <2>2 DEF Refs
    <2>4. Cardinality(running) \in Nat /\ Cardinality(Stopping) \in Nat
          /\ Bit(tun # "gone") \in {0, 1} /\ Bit(worker = "on") \in {0, 1}
      BY <1>0, EncParts
    <2>5. /\ enc' = 0 + Bit(tun # "gone") + Bit(worker = "on") + Cardinality(running) + Cardinality(Stopping)
          /\ dec' = 0 + receivers
      BY SMT, <1>1, <2>3, <2>4
    <2> QED BY <1>0, <1>1, <1>8, <2>1, <2>2, <2>5 DEF Refs
  <1>10. Writes'
    BY <1>0, <1>1, WritesStay
  <1>11. Shapes'
    BY <1>0, <1>1, <1>4 DEF Shapes, Moves
  <1>12. \A d \in Caller : CallerOK(d)'
    BY <1>0, <1>1, <1>4, <1>5, CallersStep
  <1> QED BY <1>0, <1>1, <1>9, <1>10, <1>11, <1>12 DEF DeviceInv

\* The callers and their operations stay where they are.
LEMMA CallersRest ==
    ASSUME DeviceInv, UNCHANGED <<state, stateMu, pc, op, current, keyMap, running>>
    PROVE  /\ Shapes' /\ \A c \in Caller : CallerOK(c)'
           /\ Stopping' = Stopping /\ Bit(Kept)' = Bit(Kept) /\ (Kept' <=> Kept)
  <1>1. Kept' <=> Kept
    BY DEF Kept, Releasing
  <1> QED BY <1>1 DEF DeviceInv, Shapes, CallerOK, Stopping, Bit

\* The TUN reader or the worker ends.
LEMMA ReturnsRefs ==
    ASSUME Refs, enc' = enc - 1, Stopping' = Stopping, Bit(Kept)' = Bit(Kept),
           UNCHANGED <<running, receivers, dec, encClosed, decClosed>>,
           Bit(tun # "gone")' + Bit(worker = "on")' = Bit(tun # "gone") + Bit(worker = "on") - 1,
           tun # "gone" \/ worker = "on"
    PROVE  Refs'
  <1>1. /\ enc = Bit(Kept) + Bit(tun # "gone") + Bit(worker = "on") + Cardinality(running) + Cardinality(Stopping)
        /\ encClosed => enc = 0
    BY DEF Refs
  <1>2. Cardinality(running) \in Nat /\ Cardinality(Stopping) \in Nat /\ Bit(Kept) \in {0, 1}
        /\ Bit(tun # "gone") \in {0, 1} /\ Bit(worker = "on") \in {0, 1}
    BY EncParts
  <1>3. Bit(tun # "gone")' \in {0, 1} /\ Bit(worker = "on")' \in {0, 1}
    BY DEF Bit
  <1>4. enc > 0
    BY EncParts
  <1>5. enc' = Bit(Kept) + Bit(tun # "gone")' + Bit(worker = "on")' + Cardinality(running) + Cardinality(Stopping)
    BY SMT, <1>1, <1>2, <1>3
  <1>6. ~encClosed
    BY SMT, <1>1, <1>4
  <1> QED BY <1>5, <1>6 DEF Refs

LEMMA TunReaderReturnsInv ==
    ASSUME DeviceInv, TunReaderReturns
    PROVE  DeviceInv'
  <1>0. Refs /\ Writes /\ ~broken
    BY DEF DeviceInv
  <1>1. /\ UNCHANGED <<state, stateMu, pc, op, current, keyMap, running, receivers, worker, dec, encClosed, decClosed, writing, broken>>
        /\ tun # "gone" /\ tun' = "gone" /\ enc' = enc - 1 /\ ~Busy("tun")
    BY SMT DEF TunReaderReturns, locks, peers
  <1>2. Bit(tun # "gone")' + Bit(worker = "on")' = Bit(tun # "gone") + Bit(worker = "on") - 1
    BY SMT, <1>1 DEF Bit
  <1>3. Refs'
    BY <1>0, <1>1, <1>2, CallersRest, ReturnsRefs
  <1>4. Writes'
    <2>1. ASSUME NEW w \in Writer, NEW p \in Peer, <<w, p>> \in writing PROVE Covered(w, p)'
      <3>1. Covered(w, p) /\ w # "tun"
        BY SMT, <1>0, <1>1, <2>1 DEF Writes, Busy
      <3> QED BY <1>1, <3>1 DEF Covered
    <2> QED BY <1>0, <1>1, <2>1 DEF Writes
  <1> QED BY <1>0, <1>1, <1>3, <1>4, CallersRest DEF DeviceInv

LEMMA WorkerReturnsInv ==
    ASSUME DeviceInv, WorkerReturns
    PROVE  DeviceInv'
  <1>0. Refs /\ Writes /\ ~broken
    BY DEF DeviceInv
  <1>1. /\ UNCHANGED <<state, stateMu, pc, op, current, keyMap, running, receivers, tun, dec, encClosed, decClosed, writing, broken>>
        /\ worker = "on" /\ worker' = "gone" /\ enc' = enc - 1 /\ ~Busy("worker")
    BY DEF WorkerReturns, locks, peers
  <1>2. Bit(tun # "gone")' + Bit(worker = "on")' = Bit(tun # "gone") + Bit(worker = "on") - 1
    BY SMT, <1>1 DEF Bit
  <1>3. Refs'
    BY <1>0, <1>1, <1>2, CallersRest, ReturnsRefs
  <1>4. Writes'
    <2>1. ASSUME NEW w \in Writer, NEW p \in Peer, <<w, p>> \in writing PROVE Covered(w, p)'
      <3>1. Covered(w, p) /\ w # "worker"
        BY SMT, <1>0, <1>1, <2>1 DEF Writes, Busy
      <3> QED BY <1>1, <3>1 DEF Covered
    <2> QED BY <1>0, <1>1, <2>1 DEF Writes
  <1> QED BY <1>0, <1>1, <1>3, <1>4, CallersRest DEF DeviceInv

LEMMA ReceiverReturnsInv ==
    ASSUME DeviceInv, IsFiniteSet(handing), ReceiverReturns
    PROVE  DeviceInv'
  <1>0. Refs /\ Writes /\ ~broken
    BY DEF DeviceInv
  <1>1. /\ UNCHANGED <<state, stateMu, pc, op, current, keyMap, running, tun, worker, enc, encClosed, decClosed, writing, broken>>
        /\ receivers > Cardinality(handing) /\ receivers' = receivers - 1 /\ dec' = dec - 1
    BY DEF ReceiverReturns, locks, peers
  <1>2. /\ receivers \in Nat /\ dec = Bit(Kept) + receivers /\ Bit(Kept) \in {0, 1}
        /\ decClosed => dec = 0
    BY <1>0, EncParts DEF Refs
  <1>3. receivers' \in Nat /\ dec' = Bit(Kept) + receivers' /\ ~decClosed
    <2>1. Cardinality(handing) \in Nat
      BY FS_CardinalityType
    <2> QED BY SMT, <1>1, <1>2, <2>1
  <1>4. Bit(tun # "gone")' = Bit(tun # "gone") /\ Bit(worker = "on")' = Bit(worker = "on")
    BY <1>1 DEF Bit
  <1>5. Refs'
    BY <1>0, <1>1, <1>3, <1>4, CallersRest DEF Refs
  <1>6. Writes'
    BY <1>0, <1>1, WritesStay
  <1> QED BY <1>0, <1>1, <1>5, <1>6, CallersRest DEF DeviceInv

LEMMA CloseQueueInv ==
    ASSUME DeviceInv, CloseQueue
    PROVE  DeviceInv'
  <1>0. Refs /\ Writes /\ ~broken
    BY DEF DeviceInv
  <1>1. UNCHANGED <<state, stateMu, pc, op, current, keyMap, running, receivers, tun, worker, enc, dec, writing, broken>>
    BY DEF CloseQueue, locks, peers
  <1>2. Bit(tun # "gone")' = Bit(tun # "gone") /\ Bit(worker = "on")' = Bit(worker = "on")
    BY <1>1 DEF Bit
  <1>3. (encClosed' => enc = 0) /\ (decClosed' => dec = 0)
    <2>1. CASE enc = 0 /\ decClosed' = decClosed
      BY <1>0, <2>1 DEF Refs
    <2>2. CASE dec = 0 /\ encClosed' = encClosed
      BY <1>0, <2>2 DEF Refs
    <2> QED BY <2>1, <2>2 DEF CloseQueue
  <1>4. Refs'
    BY <1>0, <1>1, <1>2, <1>3, CallersRest DEF Refs
  <1>5. Writes'
    BY <1>0, <1>1, WritesStay
  <1> QED BY <1>0, <1>1, <1>4, <1>5, CallersRest DEF DeviceInv

LEMMA CheckRunningInv ==
    ASSUME DeviceInv, NEW w \in Writer, NEW p \in Peer, CheckRunning(w, p)
    PROVE  DeviceInv'
  <1>0. Refs /\ Writes /\ ~broken
    BY DEF DeviceInv
  <1>1. /\ UNCHANGED <<state, stateMu, pc, op, current, keyMap, running, receivers, tun, worker, queues, broken>>
        /\ Alive(w) /\ p \in running /\ writing' = writing \cup {<<w, p>>}
    BY DEF CheckRunning, locks, peers
  <1>2. Covered(w, p)
    BY <1>1 DEF Alive, Covered, Writer
  <1>3. \A v \in Writer, q \in Peer : Covered(v, q)' <=> Covered(v, q)
    BY <1>1 DEF Covered
  <1>4. Writes'
    <2>1. ASSUME NEW v \in Writer, NEW q \in Peer, <<v, q>> \in writing' PROVE Covered(v, q)
      <3>1. <<v, q>> \in writing \/ (v = w /\ q = p)
        BY SMT, <1>1, <2>1
      <3> QED BY <1>0, <1>2, <3>1 DEF Writes
    <2>2. writing' \subseteq Writer \X Peer
      BY SMT, <1>0, <1>1 DEF Writes
    <2> QED BY <1>3, <2>1, <2>2 DEF Writes
  <1>5. Refs'
    BY <1>0, <1>1, CallersRest, RefsStay
  <1> QED BY <1>0, <1>1, <1>4, <1>5, CallersRest DEF DeviceInv

LEMMA WriteInv ==
    ASSUME DeviceInv, NEW w \in Writer, NEW p \in Peer, Write(w, p)
    PROVE  DeviceInv'
  <1>0. Refs /\ Writes /\ ~broken
    BY DEF DeviceInv
  <1>1. /\ UNCHANGED <<state, stateMu, pc, op, current, keyMap, running, receivers, tun, worker, queues>>
        /\ <<w, p>> \in writing /\ writing' \subseteq writing /\ broken' = (broken \/ encClosed)
    BY DEF Write, locks, peers
  <1>2. ~encClosed
    BY <1>0, <1>1, CoveredOpen DEF Writes
  <1>3. ~broken'
    BY <1>0, <1>1, <1>2
  <1>4. Writes'
    BY <1>0, <1>1 DEF Writes, Covered
  <1>5. Refs'
    BY <1>0, <1>1, CallersRest, RefsStay
  <1> QED BY <1>1, <1>3, <1>4, <1>5, CallersRest DEF DeviceInv

\* SendBuffers, and receivers that wait for it, touch no reference.
LEMMA BlockedInv ==
    ASSUME DeviceInv, NEW w \in Writer, NEW p \in Peer,
           CallSendBuffers(w, p) \/ SendBuffers(w, p) \/ QueueFull(p) \/ HandOver(p)
    PROVE  DeviceInv'
  <1>1. UNCHANGED <<state, stateMu, pc, op, current, keyMap, running, receivers, tun, worker, queues, writing, broken>>
    BY DEF CallSendBuffers, SendBuffers, QueueFull, HandOver, locks, peers
  <1> QED BY <1>1, Stutter

-----------------------------------------------------------------------------
(* The IPC lock *)

\* The others: only the holder of the IPC lock releases it, and who closes has it first.
LEMMA IpcStep ==
    ASSUME IpcInv, NEW c \in Caller, NEW o, NEW s, Moves(c, o, s),
           (ipcMu' = ipcMu /\ (state' = "closed" => state = "closed")) \/ ipcMu \in {c, None},
           IpcStepOK(c, o, s, state', ipcMu')
    PROVE  IpcInv'
  <1>1. IpcOK(c)'
    BY DEF Moves, IpcOK
  <1>2. ASSUME NEW d \in Caller \ {c} PROVE IpcOK(d)'
    <2>1. pc'[d] = pc[d] /\ op'[d] = op[d] /\ IpcStepOK(d, op[d], pc[d], state, ipcMu)
      BY DEF Moves, IpcInv, IpcOK
    <2>2. d # None /\ d # c
      BY DeviceAssumption
    <2>3. IpcStepOK(d, op[d], pc[d], state', ipcMu')
      BY SMT, <2>1, <2>2 DEF IpcStepOK
    <2> QED BY <2>1, <2>3 DEF IpcOK
  <1> QED BY <1>1, <1>2 DEF IpcInv

\* A caller goes on within its operation.
LEMMA IpcWithin ==
    ASSUME DeviceInv, IpcInv, NEW c \in Caller, NEW s, Goto(c, s), op' = op, ipcMu' = ipcMu,
           state' = "closed" => state = "closed", pc[c] \notin {"idle", "closeIpc"},
           s = "markSources" => state' # "closed"
    PROVE  IpcInv'
  <1>1. Moves(c, op[c], s)
    BY GotoMoves DEF DeviceInv
  <1>2. IpcStepOK(c, op[c], pc[c], state, ipcMu)
    BY DEF IpcInv, IpcOK
  <1>3. IpcStepOK(c, op[c], s, state', ipcMu')
    BY SMT, <1>2 DEF IpcStepOK
  <1> QED BY <1>1, <1>3, IpcStep

LEMMA IpcWithinSteps ==
    ASSUME DeviceInv, IpcInv, NEW c \in Caller,
           \/ LockNet(c) \/ BindClosed(c) \/ LockPeers(c) \/ RemoveAllPeers(c) \/ PostConfig(c) \/ RemovePeer(c)
           \/ OpenBind(c) \/ MarkSources(c) \/ UpStarts(c) \/ PeersStopped(c) \/ Release(c) \/ AddPeer(c)
           \/ PostConfigStarts(c)
    PROVE  IpcInv'
  <1>1. CASE OpenBind(c) \/ MarkSources(c)
    <2>1. op' = op /\ ipcMu' = ipcMu /\ pc[c] \notin {"idle", "closeIpc"}
      BY <1>1 DEF OpenBind, MarkSources
    <2>2. PICK s : /\ Goto(c, s)
                   /\ state' = "closed" => state = "closed"
                   /\ s = "markSources" => state' # "closed"
      BY SMTT(30), <1>1 DEF OpenBind, MarkSources, AfterUpdate, OpensSockets
    <2> QED BY <2>1, <2>2, IpcWithin
  <1>2. CASE \/ LockNet(c) \/ BindClosed(c) \/ LockPeers(c) \/ RemoveAllPeers(c) \/ PostConfig(c) \/ RemovePeer(c)
             \/ UpStarts(c) \/ PeersStopped(c) \/ Release(c) \/ AddPeer(c) \/ PostConfigStarts(c)
    <2>1. op' = op /\ ipcMu' = ipcMu /\ state' = state
      BY <1>2 DEF LockNet, BindClosed, LockPeers, RemoveAllPeers, PostConfig, RemovePeer, UpStarts, PeersStopped,
                  Release, AddPeer, PostConfigStarts, locks
    <2>2. pc[c] \notin {"idle", "closeIpc"}
      BY <1>2 DEF LockNet, BindClosed, LockPeers, RemoveAllPeers, PostConfig, RemovePeer, UpStarts, PeersStopped,
                  Release, AddPeer, PostConfigStarts
    <2>3. PICK s \in {"updateWait", "closeWait", "stopPeers", "stop", "start", "ipcDone", "idle", "removeAll", "release",
                      "awaitTun", "postConfig"} : Goto(c, s)
      <3>1. CASE LockNet(c) \/ BindClosed(c)
        BY SMT, <3>1 DEF LockNet, BindClosed
      <3>2. CASE LockPeers(c) \/ RemoveAllPeers(c)
        BY SMT, <3>2 DEF LockPeers, RemoveAllPeers
      <3>3. CASE PostConfig(c) \/ RemovePeer(c)
        BY SMT, <3>3 DEF PostConfig, RemovePeer
      <3>4. CASE UpStarts(c) \/ PeersStopped(c) \/ Release(c) \/ AddPeer(c) \/ PostConfigStarts(c)
        BY <3>4 DEF UpStarts, PeersStopped, Release, AddPeer, PostConfigStarts
      <3> QED BY <1>2, <3>1, <3>2, <3>3, <3>4
    <2>4. s # "markSources"
      OBVIOUS
    <2> QED BY <2>1, <2>2, <2>3, <2>4, IpcWithin
  <1> QED BY <1>1, <1>2

\* The steps that take the lock, release it, or begin or end an operation.
LEMMA IpcEnds ==
    ASSUME DeviceInv, IpcInv, NEW c \in Caller, Request(c) \/ CloseIpc(c) \/ CloseReturns(c) \/ IpcDone(c)
    PROVE  IpcInv'
  <1>0. StepOK(c, op[c], pc[c], state, stateMu) /\ Shapes /\ IpcStepOK(c, op[c], pc[c], state, ipcMu)
    BY AtStep DEF IpcInv, IpcOK
  <1>1. ASSUME NEW want \in {"up", "down"}, ChangeState(c, want) PROVE IpcInv'
    <2>1. CASE state \in {"closed", want}
      BY <1>1, <2>1 DEF ChangeState, IpcInv, IpcOK
    <2>2. CASE state \notin {"closed", want}
      <3>1. PICK s : Goto(c, s) /\ op' = [op EXCEPT ![c] = want] /\ state' = want /\ ipcMu' = ipcMu
        BY <1>1, <2>2 DEF ChangeState
      <3>2. Moves(c, want, s)
        BY <1>0, <3>1, GotoMoves
      <3>3. IpcStepOK(c, want, s, state', ipcMu')
        BY NamesApart DEF IpcStepOK
      <3> QED BY <3>1, <3>2, <3>3, IpcStep
    <2> QED BY <2>1, <2>2
  <1>2. CASE StartClose(c)
    <2>1. /\ Goto(c, "closeIpc") /\ op' = [op EXCEPT ![c] = "close"]
          /\ state' = state /\ ipcMu' = ipcMu
      BY <1>2 DEF StartClose
    <2>2. Moves(c, "close", "closeIpc")
      BY <1>0, <2>1, GotoMoves
    <2>3. IpcStepOK(c, "close", "closeIpc", state', ipcMu')
      BY NamesApart DEF IpcStepOK
    <2> QED BY <2>1, <2>2, <2>3, IpcStep
  <1>3. ASSUME NEW what \in Peer \cup {"port"}, StartIpc(c, what) PROVE IpcInv'
    <2>1. PICK s : Goto(c, s) /\ s # "markSources" /\ op' = [op EXCEPT ![c] = what] /\ ipcMu = None /\ ipcMu' = c
      BY <1>3 DEF StartIpc
    <2>2. Moves(c, what, s)
      BY <1>0, <2>1, GotoMoves
    <2>3. IpcStepOK(c, what, s, state', ipcMu')
      BY <2>1 DEF IpcStepOK
    <2> QED BY <2>1, <2>2, <2>3, IpcStep
  <1>4. CASE CloseIpc(c)
    <2>1. PICK s : /\ Goto(c, s) /\ op' = op /\ ipcMu = None /\ s # "markSources"
                   /\ s = "idle" \/ ipcMu' = c
      BY <1>4 DEF CloseIpc
    <2>2. Moves(c, op[c], s)
      BY <1>0, <2>1, GotoMoves
    <2>3. IpcStepOK(c, op[c], s, state', ipcMu')
      BY <2>1 DEF IpcStepOK
    <2> QED BY <2>1, <2>2, <2>3, IpcStep
  <1>5. CASE CloseReturns(c) \/ IpcDone(c)
    <2>1. Goto(c, "idle") /\ op' = op /\ pc[c] \in {"awaitTun", "ipcDone"}
      BY <1>5 DEF CloseReturns, IpcDone
    <2>2. ipcMu = c
      BY SMTT(30), <1>0, <2>1, NamesApart DEF StepOK, StepOf, IpcStepOK, UpSteps, DownSteps, CloseSteps, PortSteps, PeerSteps
    <2>3. Moves(c, op[c], "idle")
      BY <1>0, <2>1, GotoMoves
    <2>4. IpcStepOK(c, op[c], "idle", state', ipcMu')
      BY DEF IpcStepOK
    <2> QED BY <2>2, <2>3, <2>4, IpcStep
  <1> QED BY <1>1, <1>2, <1>3, <1>4, <1>5 DEF Request

LEMMA IpcNext == DeviceInv /\ IpcInv /\ [Next]_vars => IpcInv'
  <1> SUFFICES ASSUME DeviceInv, IpcInv, [Next]_vars PROVE IpcInv'
    OBVIOUS
  <1>1. CASE UNCHANGED <<pc, op, state, ipcMu>>
    BY <1>1 DEF IpcInv, IpcOK
  <1>2. ASSUME NEW c \in Caller, Request(c) PROVE IpcInv'
    BY <1>2, IpcEnds
  <1>3. ASSUME NEW c \in Caller, Proceed(c) PROVE IpcInv'
    <2>1. CASE (\E p \in Peer : BeginStop(c, p)) \/ EndStop(c)
      BY <1>1, <2>1 DEF BeginStop, EndStop, locks
    <2> QED BY <1>3, <2>1, IpcEnds, IpcWithinSteps DEF Proceed
  <1>4. ASSUME NEW w \in Writer, WriterGoes(w) PROVE IpcInv'
    BY <1>1, <1>4 DEF WriterGoes, Write, SendBuffers, TunReaderReturns, WorkerReturns, locks
  <1>5. ASSUME NEW w \in Writer, NEW p \in Peer,
               CheckRunning(w, p) \/ CallSendBuffers(w, p) \/ QueueFull(p) \/ HandOver(p)
        PROVE  IpcInv'
    BY <1>1, <1>5 DEF CheckRunning, CallSendBuffers, QueueFull, HandOver, locks
  <1>6. CASE TunReaderReturns \/ ReceiverReturns \/ CloseQueue
    BY <1>1, <1>6 DEF TunReaderReturns, ReceiverReturns, CloseQueue, locks
  <1>7. CASE UNCHANGED vars
    BY <1>1, <1>7 DEF vars, locks
  <1>8. "tun" \in Writer
    BY DEF Writer
  <1> QED BY <1>2, <1>3, <1>4, <1>5, <1>6, <1>7, <1>8 DEF Next

\* Only finitely many receivers wait.
LEMMA HandingNext == IsFiniteSet(handing) /\ [Next]_vars => IsFiniteSet(handing')
  <1> SUFFICES ASSUME IsFiniteSet(handing), [Next]_vars, handing' # handing PROVE IsFiniteSet(handing')
    OBVIOUS
  <1>1. ASSUME NEW c \in Caller, Request(c) PROVE FALSE
    BY <1>1 DEF Request, ChangeState, StartClose, StartIpc, blocked
  <1>2. ASSUME NEW c \in Caller, Proceed(c) PROVE FALSE
    <2>1. CASE LockNet(c) \/ BindClosed(c) \/ LockPeers(c) \/ RemoveAllPeers(c) \/ PostConfig(c) \/ RemovePeer(c)
      BY <2>1 DEF LockNet, BindClosed, LockPeers, RemoveAllPeers, PostConfig, RemovePeer, blocked
    <2>2. CASE CloseIpc(c) \/ PeersStopped(c) \/ CloseReturns(c) \/ AddPeer(c) \/ IpcDone(c)
      BY <2>2 DEF CloseIpc, PeersStopped, CloseReturns, AddPeer, IpcDone, blocked
    <2>3. CASE OpenBind(c) \/ MarkSources(c) \/ UpStarts(c) \/ PostConfigStarts(c)
      BY <2>3 DEF OpenBind, MarkSources, UpStarts, PostConfigStarts, blocked
    <2>4. CASE (\E p \in Peer : BeginStop(c, p)) \/ EndStop(c) \/ Release(c)
      BY <2>4 DEF BeginStop, EndStop, Release, blocked
    <2> QED BY <1>2, <2>1, <2>2, <2>3, <2>4 DEF Proceed
  <1>3. ASSUME NEW w \in Writer, WriterGoes(w) PROVE FALSE
    BY <1>3 DEF WriterGoes, Write, SendBuffers, TunReaderReturns, WorkerReturns, blocked
  <1>4. ASSUME NEW w \in Writer, NEW p \in Peer, CheckRunning(w, p) \/ CallSendBuffers(w, p) PROVE FALSE
    BY <1>4 DEF CheckRunning, CallSendBuffers, blocked
  <1>5. CASE TunReaderReturns \/ ReceiverReturns \/ CloseQueue \/ UNCHANGED vars
    BY <1>5 DEF TunReaderReturns, ReceiverReturns, CloseQueue, vars, blocked
  <1>6. ASSUME NEW p \in Peer, QueueFull(p) \/ HandOver(p) PROVE IsFiniteSet(handing')
    BY ZenonT(30), <1>6, FS_AddElement, FS_RemoveElement DEF QueueFull, HandOver
  <1> QED BY <1>1, <1>2, <1>3, <1>4, <1>5, <1>6 DEF Next

-----------------------------------------------------------------------------
LEMMA NextInv == DeviceInv /\ IpcInv /\ IsFiniteSet(handing) /\ [Next]_vars => DeviceInv'
  <1> SUFFICES ASSUME DeviceInv, IpcInv, IsFiniteSet(handing), [Next]_vars PROVE DeviceInv'
    OBVIOUS
  <1>1. CASE UNCHANGED vars
    BY <1>1, Stutter DEF vars, locks, peers
  <1>2. ASSUME NEW c \in Caller, Request(c) PROVE DeviceInv'
    BY <1>2, ChangeStateInv, StartCloseInv, StartIpcInv DEF Request
  <1>3. ASSUME NEW c \in Caller, Proceed(c) PROVE DeviceInv'
    <2>1. CASE LockNet(c) \/ BindClosed(c) \/ LockPeers(c) \/ RemoveAllPeers(c) \/ PostConfig(c) \/ RemovePeer(c)
      BY <2>1, WithinSteps
    <2>2. CASE CloseIpc(c) \/ PeersStopped(c) \/ CloseReturns(c) \/ AddPeer(c) \/ IpcDone(c)
      BY <2>2, CloseIpcInv, PeersStoppedInv, CloseReturnsInv, AddPeerInv, IpcDoneInv
    <2>3. CASE OpenBind(c) \/ MarkSources(c) \/ UpStarts(c) \/ PostConfigStarts(c)
      BY <2>3, OpenBindInv, MarkSourcesInv, UpStartsInv, PostConfigStartsInv
    <2>4. CASE (\E p \in Peer : BeginStop(c, p)) \/ EndStop(c) \/ Release(c)
      BY <2>4, BeginStopInv, EndStopInv, ReleaseInv
    <2> QED BY <1>3, <2>1, <2>2, <2>3, <2>4 DEF Proceed
  <1>4. ASSUME NEW w \in Writer, NEW p \in Peer, CheckRunning(w, p) PROVE DeviceInv'
    BY <1>4, CheckRunningInv
  <1>5. ASSUME NEW w \in Writer, WriterGoes(w) PROVE DeviceInv'
    BY <1>5, WriteInv, BlockedInv, TunReaderReturnsInv, WorkerReturnsInv DEF WriterGoes
  <1>6. CASE TunReaderReturns \/ ReceiverReturns \/ CloseQueue
    BY <1>6, TunReaderReturnsInv, ReceiverReturnsInv, CloseQueueInv
  <1>7. ASSUME NEW w \in Writer, NEW p \in Peer, CallSendBuffers(w, p) PROVE DeviceInv'
    BY <1>7, BlockedInv
  <1>8. ASSUME NEW p \in Peer, QueueFull(p) \/ HandOver(p) PROVE DeviceInv'
    <2>1. "tun" \in Writer
      BY DEF Writer
    <2> QED BY <1>8, <2>1, BlockedInv
  <1> QED BY <1>1, <1>2, <1>3, <1>4, <1>5, <1>6, <1>7, <1>8 DEF Next

\* Nobody writes to a queue of the device that is closed, or takes a new reference to
\* one, whatever the callers of Up, Down, Close and the configuration do at once, for any
\* number of callers, peers and routines.
THEOREM NoWriteAfterCloseHolds == Spec => []NoWriteAfterClose
  <1> DEFINE Inv == DeviceInv /\ IpcInv /\ IsFiniteSet(handing)
  <1>1. Init => Inv
    <2> SUFFICES ASSUME Init PROVE Inv
      OBVIOUS
    <2>1. IpcInv
      BY SMT DEF Init, IpcInv, IpcOK, IpcStepOK
    <2> QED BY <2>1, InitInv, FS_EmptySet DEF Init
  <1>2. Inv /\ [Next]_vars => Inv'
    BY NextInv, IpcNext, HandingNext
  <1>3. Inv => NoWriteAfterClose
    BY DEF DeviceInv, NoWriteAfterClose
  <1> QED BY <1>1, <1>2, <1>3, PTL DEF Spec
=============================================================================
