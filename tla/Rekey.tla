-------------------------------- MODULE Rekey --------------------------------
(***************************************************************************)
(* When a peer renews its session: keepKeyFreshSending (send.go),          *)
(* keepKeyFreshReceiving (receive.go) and the rate limit of                *)
(* SendHandshakeInitiation, with a clock.                                  *)
(*                                                                         *)
(* The clock advances when every process is idle, asleep, or waiting for   *)
(* one that is, and no timer is due: an operation takes no time but for    *)
(* the sleeps of sendRandomPackets, and its steps interleave with those of *)
(* the others.  The trick packets come before a keepalive is staged, and,  *)
(* with handshake.mutex held, before an initiation is made; TrickTime is   *)
(* the longest they take, 0 when no trick is set.  The process "other"     *)
(* stands for everyone else who sends a packet or asks for a handshake:    *)
(* the reader of the TUN device and the timers of module Timers, at any    *)
(* moment.  Packets arrive with the current keypair or with the next one.  *)
(***************************************************************************)
EXTENDS Naturals

CONSTANTS RekeyAfterMessages, RekeyAfterTime, RejectAfterTime,
          KeepaliveTimeout, RekeyTimeout,  \* in units of the clock
          TrickTime                        \* the longest sendRandomPackets takes

RekeyAssumption ==
    /\ {RekeyAfterMessages, RekeyAfterTime, RejectAfterTime, TrickTime} \subseteq Nat
    /\ {KeepaliveTimeout, RekeyTimeout} \subseteq Nat \ {0}
    /\ RekeyAfterTime + KeepaliveTimeout + RekeyTimeout <= RejectAfterTime

Proc == {"receiver", "sender", "keepalive", "worker", "other"}
NoKey == [initiator |-> FALSE, age |-> RejectAfterTime + 1, nonce |-> 0]
Off == KeepaliveTimeout + 1
NotDue == KeepaliveTimeout + 2

VARIABLES current, next,   \* of keypairs
          sinceSent,       \* the time since lastSentHandshake, up to RekeyTimeout
          sentLastMinuteHandshake,
          keepaliveIn,     \* when timers.sendKeepalive is due, or Off
          queued,          \* a container waits for the sequential sender
          inflight,        \* an initiation was sent that a response may still answer
          isData,          \* the receiver's packet is not a keepalive
          pc,
          slept,           \* how long a process has been in sendRandomPackets
          due,    \* history: the time since data came with an old session, or NotDue,
          held,   \* but for the time trick packets held up a keepalive or an initiation
          burst   \* history: the initiations since an initiation was last allowed

keys == <<current, next>>
history == <<due, held, burst>>
vars == <<keys, sinceSent, sentLastMinuteHandshake, keepaliveIn, queued, inflight, isData, pc, slept, history>>

\* A handshake was made, or a send has failed.
Settled == due' = NotDue /\ held' = 0

Goto(p, step) == pc' = [pc EXCEPT ![p] = step]
At(p, step) == pc[p] = step

Init ==
    /\ current = NoKey /\ next = NoKey
    /\ sinceSent = RekeyTimeout /\ sentLastMinuteHandshake = FALSE
    /\ keepaliveIn = Off /\ queued = FALSE /\ inflight = FALSE /\ isData = FALSE
    /\ pc = [p \in Proc |-> "idle"] /\ slept = [p \in Proc |-> 0]
    /\ due = NotDue /\ held = 0 /\ burst = 0

-----------------------------------------------------------------------------
(* SendHandshakeInitiation(false), and the retries of the timers *)

Recent == sinceSent < RekeyTimeout

\* The receiver goes on with its packet; every other process is done.
Return(p) == Goto(p, IF p = "receiver" THEN "data" ELSE "idle")

\* handshake.mutex is held by one who sends trick packets.
Locked == \E p \in Proc : At(p, "handshakeTricks")

\* The time is compared under the read lock and again under the write lock, where the
\* second comparison decides; then the trick packets are sent.
LockInitiation(p) ==
    /\ At(p, "initiate") /\ ~Locked
    /\ IF Recent THEN Return(p) ELSE Goto(p, "handshakeTricks")
    /\ UNCHANGED <<keys, sinceSent, sentLastMinuteHandshake, keepaliveIn, queued, inflight, isData, slept, history>>

\* They are sent, or sending them failed: the time is set.
StampInitiation(p) ==
    /\ At(p, "handshakeTricks")
    /\ sinceSent' = 0 /\ burst' = burst + 1 /\ Settled /\ Goto(p, "create")
    /\ slept' = [slept EXCEPT ![p] = 0]
    /\ UNCHANGED <<keys, sentLastMinuteHandshake, keepaliveIn, queued, inflight, isData>>

\* CreateMessageInitiation may fail; otherwise the message goes out.
CreateInitiation(p) ==
    /\ At(p, "create") /\ Return(p)
    /\ \/ UNCHANGED <<inflight, keepaliveIn>>
       \/ inflight' = TRUE /\ keepaliveIn' = Off
    /\ UNCHANGED <<keys, sinceSent, sentLastMinuteHandshake, queued, isData, slept, history>>

Initiation(p) == LockInitiation(p) \/ StampInitiation(p) \/ CreateInitiation(p)

-----------------------------------------------------------------------------
(* Sending *)

\* SendStagedPackets: without a session that may send, a handshake is initiated.
SendStagedPackets(p) ==
    IF current.age >= RejectAfterTime
    THEN Goto(p, "initiate") /\ UNCHANGED <<current, queued>>
    ELSE /\ Return(p) /\ queued' = TRUE
         /\ current' = [current EXCEPT !.nonce = IF @ > RekeyAfterMessages THEN @ ELSE @ + 1]

\* The sendKeepalive timer expires.
expiredSendKeepalive ==
    /\ At("keepalive", "idle") /\ keepaliveIn = 0
    /\ keepaliveIn' = Off /\ Goto("keepalive", "keepaliveTricks")
    /\ UNCHANGED <<keys, sinceSent, sentLastMinuteHandshake, queued, inflight, isData, slept, history>>

\* The keepalive of the timer, or the one by which a handshake worker confirms a session,
\* after its trick packets; and a packet of the TUN device or another keepalive, whose
\* trick packets keep nobody waiting.
SendKeepalive(p) ==
    /\ <<p, pc[p]>> \in {<<"keepalive", "keepaliveTricks">>, <<"worker", "keepaliveTricks">>, <<"other", "idle">>}
    /\ SendStagedPackets(p) /\ slept' = [slept EXCEPT ![p] = 0]
    /\ UNCHANGED <<next, sinceSent, sentLastMinuteHandshake, keepaliveIn, inflight, isData, history>>

\* The sequential sender; a send that fails leaves the key as it is.
RoutineSequentialSender ==
    /\ At("sender", "idle") /\ queued
    /\ queued' = FALSE /\ keepaliveIn' = Off
    /\ \/ Goto("sender", "fresh") /\ UNCHANGED <<due, held>>
       \/ Settled /\ UNCHANGED pc
    /\ UNCHANGED <<keys, sinceSent, sentLastMinuteHandshake, inflight, isData, slept, burst>>

\* Fault: only the number of messages counts.
WornByMessages == current.nonce > RekeyAfterMessages

Worn == current.nonce > RekeyAfterMessages \/ (current.initiator /\ current.age > RekeyAfterTime)

keepKeyFreshSending ==
    /\ At("sender", "fresh")
    /\ Goto("sender", IF current # NoKey /\ Worn THEN "initiate" ELSE "idle")
    /\ UNCHANGED <<keys, sinceSent, sentLastMinuteHandshake, keepaliveIn, queued, inflight, isData, slept, history>>

\* A timer retries a handshake, or starts one.
Retry ==
    /\ At("other", "idle") /\ Goto("other", "initiate")
    /\ UNCHANGED <<keys, sinceSent, sentLastMinuteHandshake, keepaliveIn, queued, inflight, isData, slept, history>>

-----------------------------------------------------------------------------
(* Receiving *)

LastMinute == current.initiator /\ current.age > RejectAfterTime - KeepaliveTimeout - RekeyTimeout

\* A packet comes with the current keypair.
ReceiveWithCurrent ==
    /\ At("receiver", "idle") /\ current.age <= RejectAfterTime
    /\ isData' \in BOOLEAN
    /\ due' = IF isData' /\ LastMinute /\ ~Recent /\ due = NotDue THEN 0 ELSE due
    /\ UNCHANGED held
    /\ Goto("receiver", "flag")
    /\ UNCHANGED <<keys, sinceSent, sentLastMinuteHandshake, keepaliveIn, queued, inflight, slept, burst>>

\* ReceivedWithKeypair moves the next keypair up; timersHandshakeComplete follows.
ReceiveWithNext ==
    /\ At("receiver", "idle") /\ next.age <= RejectAfterTime
    /\ isData' \in BOOLEAN
    /\ current' = next /\ next' = NoKey /\ Settled
    /\ Goto("receiver", "confirmed")
    /\ UNCHANGED <<sinceSent, sentLastMinuteHandshake, keepaliveIn, queued, inflight, slept, burst>>

\* keepKeyFreshReceiving: the flag is read, then the keypair, then the flag is set.
LoadFlag ==
    /\ At("receiver", "flag")
    /\ Goto("receiver", IF sentLastMinuteHandshake THEN "data" ELSE "key")
    /\ UNCHANGED <<keys, sinceSent, sentLastMinuteHandshake, keepaliveIn, queued, inflight, isData, slept, history>>

LoadCurrent ==
    /\ At("receiver", "key")
    /\ Goto("receiver", IF LastMinute THEN "store" ELSE "data")
    /\ UNCHANGED <<keys, sinceSent, sentLastMinuteHandshake, keepaliveIn, queued, inflight, isData, slept, history>>

StoreFlag ==
    /\ At("receiver", "store")
    /\ sentLastMinuteHandshake' = TRUE /\ Goto("receiver", "initiate")
    /\ UNCHANGED <<keys, sinceSent, keepaliveIn, queued, inflight, isData, slept, history>>

keepKeyFreshReceiving == LoadFlag \/ LoadCurrent \/ StoreFlag

\* timersDataReceived.
DataReceived ==
    /\ At("receiver", "data")
    /\ keepaliveIn' = IF isData /\ keepaliveIn = Off THEN KeepaliveTimeout ELSE keepaliveIn
    /\ isData' = FALSE /\ Goto("receiver", "idle")
    /\ UNCHANGED <<keys, sinceSent, sentLastMinuteHandshake, queued, inflight, slept, history>>

-----------------------------------------------------------------------------
(* Handshakes *)

\* A response is consumed, and BeginSymmetricSession makes its keypair current.
ResponseDerives ==
    /\ At("worker", "idle") /\ inflight /\ ~Locked
    /\ current' = [initiator |-> TRUE, age |-> 0, nonce |-> 0] /\ next' = NoKey
    /\ inflight' = FALSE /\ Settled
    /\ Goto("worker", "derived")
    /\ UNCHANGED <<sinceSent, sentLastMinuteHandshake, keepaliveIn, queued, isData, slept, burst>>

\* By the worker after a response, and by the receiver after the first packet.
timersHandshakeComplete ==
    /\ \/ At("worker", "derived") /\ Goto("worker", "keepaliveTricks")
       \/ At("receiver", "confirmed") /\ Goto("receiver", "flag")
    /\ sentLastMinuteHandshake' = FALSE
    /\ UNCHANGED <<keys, sinceSent, keepaliveIn, queued, inflight, isData, slept, history>>

\* The other end initiates: SendHandshakeResponse sets lastSentHandshake.
StampResponse ==
    /\ At("worker", "idle") /\ ~Locked
    /\ sinceSent' = 0 /\ inflight' = FALSE /\ Settled
    /\ Goto("worker", "respond")
    /\ UNCHANGED <<keys, sentLastMinuteHandshake, keepaliveIn, queued, isData, slept, burst>>

ResponseSent ==
    /\ At("worker", "respond") /\ ~Locked
    /\ next' = [initiator |-> FALSE, age |-> 0, nonce |-> 0] /\ keepaliveIn' = Off
    /\ Goto("worker", "idle")
    /\ UNCHANGED <<current, sinceSent, sentLastMinuteHandshake, queued, inflight, isData, slept, history>>

-----------------------------------------------------------------------------
Older(k) == IF k.age > RejectAfterTime THEN k ELSE [k EXCEPT !.age = @ + 1]

Sleeps(p) == pc[p] \in {"keepaliveTricks", "handshakeTricks"} /\ slept[p] < TrickTime
Waits(p) == At(p, "initiate") /\ Locked

\* Somebody who is about to renew the session sends trick packets first.
HeldUp == At("keepalive", "keepaliveTricks") \/ Locked

Tick ==
    /\ \A p \in Proc : At(p, "idle") \/ Sleeps(p) \/ Waits(p)
    /\ queued => ~At("sender", "idle")
    /\ keepaliveIn = 0 => ~At("keepalive", "idle")
    /\ slept' = [p \in Proc |-> IF Sleeps(p) THEN slept[p] + 1 ELSE slept[p]]
    /\ current' = Older(current) /\ next' = Older(next)
    /\ sinceSent' = IF Recent THEN sinceSent + 1 ELSE sinceSent
    /\ burst' = IF sinceSent + 1 >= RekeyTimeout THEN 0 ELSE burst
    /\ keepaliveIn' = IF keepaliveIn \in {0, Off} THEN keepaliveIn ELSE keepaliveIn - 1
    /\ due' = IF due = NotDue \/ HeldUp THEN due ELSE due + 1
    /\ held' = IF due # NotDue /\ HeldUp THEN held + 1 ELSE held
    /\ UNCHANGED <<sentLastMinuteHandshake, queued, inflight, isData, pc>>

Next ==
    \/ \E p \in Proc : Initiation(p) \/ SendKeepalive(p)
    \/ expiredSendKeepalive \/ RoutineSequentialSender \/ keepKeyFreshSending \/ Retry
    \/ ReceiveWithCurrent \/ ReceiveWithNext \/ keepKeyFreshReceiving \/ DataReceived
    \/ ResponseDerives \/ timersHandshakeComplete \/ StampResponse \/ ResponseSent
    \/ Tick

Spec == Init /\ [][Next]_vars

-----------------------------------------------------------------------------
(* Properties *)

\* Data that comes with a session in its last minute is followed by a handshake, as long
\* as sends succeed: within KeepaliveTimeout, not counting the time that trick packets
\* take before the keepalive and before the initiation, which is no more than two rounds
\* of them.  sentLastMinuteHandshake alone does not give this: a receiver that read the
\* old keypair sets the flag after the new session has cleared it, and the initiation is
\* refused because one is recent.  The flag then suppresses the last-minute handshake of
\* the new session, and it is the keepalive which answers the data, and
\* keepKeyFreshSending after it, that renew the session.  And whoever asks for one, and
\* however long the tricks take, no second initiation is made within RekeyTimeout.
RenewedInTime ==
    /\ due # NotDue => due <= KeepaliveTimeout /\ held <= 2 * TrickTime
    /\ burst <= 1
=============================================================================
