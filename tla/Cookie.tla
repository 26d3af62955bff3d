------------------------------- MODULE Cookie -------------------------------
(***************************************************************************)
(* Cookies (device/cookie.go) between an initiator and a responder under   *)
(* load, and the part of the responder's handshake workers that comes      *)
(* before the handshake (receive.go): MAC1, the load test, MAC2 or a       *)
(* cookie reply.                                                           *)
(*                                                                         *)
(* A MAC is the record of what goes into it, and a cookie the pair of the  *)
(* secret and the source address.  Each direction of the network holds one *)
(* message; it may be lost or be received twice.  The initiator sends the  *)
(* next initiation when the exchange before it has come to its end, since  *)
(* it waits for RekeyTimeout.                                              *)
(***************************************************************************)
EXTENDS Naturals, FiniteSets

CONSTANTS Worker,            \* handshake workers of the responder
          Address,           \* source addresses of the initiator
          Key,               \* public keys the responder may have
          None,
          CookieRefreshTime,
          MaxDisturbances    \* bound: time that passes, moves, new keys, denials, messages lost or received twice

CookieAssumption ==
    /\ {CookieRefreshTime, MaxDisturbances} \subseteq Nat
    /\ IsFiniteSet(Worker)
    /\ Address # {}
    /\ None \notin (Nat \X Address)

Expired == CookieRefreshTime + 1  \* any age beyond the refresh time

\* Names of secrets and of messages; more than can be told apart at one time.
Name == 1 .. Cardinality(Worker) + 5

VARIABLES key,        \* the responder's public key
          secret, secretAge,    \* CookieChecker.mac2
          pk, cookie, cookieAge, lastMAC1, \* CookieGenerator
          address,    \* where the initiator sends from
          initiation, reply,    \* the network
          load,       \* IsUnderLoad
          worker,     \* of each worker: its step and the message it has
          accepted,   \* history: an initiation reached ConsumeMessageInitiation since the last disturbance
          issued,     \* history: the cookies that were given and should still count
          left        \* what is left of the bound

checker == <<secret, secretAge>>
generator == <<pk, cookie, cookieAge, lastMAC1>>
vars == <<key, checker, generator, address, initiation, reply, load, worker, accepted, issued, left>>

Idle == [step |-> "idle", msg |-> None]

Init ==
    /\ key = (CHOOSE k \in Key : TRUE) /\ pk = key
    /\ secret = 1 /\ secretAge = Expired
    /\ cookie = None /\ cookieAge = Expired /\ lastMAC1 = None
    /\ address = CHOOSE a \in Address : TRUE
    /\ initiation = None /\ reply = None
    /\ load = TRUE
    /\ worker = [w \in Worker |-> Idle]
    /\ accepted = FALSE /\ issued = {}
    /\ left = MaxDisturbances

\* Names in use by the generator, the network and the workers.
Named ==
    {lastMAC1} \cup {m.id : m \in {initiation} \ {None}} \cup {r.mac1 : r \in {reply} \ {None}}
      \cup {worker[w].msg.id : w \in {v \in Worker : worker[v] # Idle}}

Secrets ==
    {secret} \cup {c[1] : c \in {cookie} \ {None}} \cup {r.cookie[1] : r \in {reply} \ {None}}
      \cup {m.mac2[1] : m \in {n \in ({initiation} \cup {worker[w].msg : w \in Worker}) \ {None} : n.mac2 # None}}

Disturb == left > 0 /\ left' = left - 1

Fresh(Used) == CHOOSE n \in Name : n \notin Used

-----------------------------------------------------------------------------
(* The initiator *)

UsableCookie == IF cookieAge > CookieRefreshTime THEN None ELSE cookie

\* ConsumeReply: it decrypts with the responder's key and the MAC1 sent last.
GoodReply == reply # None /\ lastMAC1 # None /\ reply.pk = pk /\ reply.mac1 = lastMAC1

\* AddMacs, and the message is sent.
SendInitiation ==
    /\ initiation = None /\ ~GoodReply /\ \A w \in Worker : worker[w] = Idle
    /\ LET id == Fresh(Named)
       IN  /\ lastMAC1' = id
           /\ initiation' = [id |-> id, pk |-> pk, src |-> address, mac2 |-> UsableCookie]
    /\ UNCHANGED <<key, checker, pk, cookie, cookieAge, address, reply, load, worker, accepted, issued, left>>

ConsumeReply ==
    /\ GoodReply
    /\ cookie' = reply.cookie /\ cookieAge' = 0
    /\ reply' = None
    /\ UNCHANGED <<key, checker, pk, lastMAC1, address, initiation, load, worker, accepted, issued, left>>

\* CookieGenerator.Init, with the peer's key: the initiator learns a new one.
LearnKey ==
    /\ pk # key /\ pk' = key /\ cookieAge' = Expired
    /\ UNCHANGED <<key, checker, cookie, lastMAC1, address, initiation, reply, load, worker, accepted, issued, left>>

Move ==
    /\ Disturb
    /\ address' \in Address \ {address}
    /\ accepted' = FALSE
    /\ UNCHANGED <<key, checker, generator, initiation, reply, load, worker, issued>>

-----------------------------------------------------------------------------
(* The responder's handshake workers *)

\* A worker receives a message; MAC1 is right when it was made for the responder's key.
Receive(w) ==
    /\ worker[w] = Idle /\ initiation # None
    /\ worker' = [worker EXCEPT ![w] =
                     IF initiation.pk = key THEN [step |-> "check", msg |-> initiation] ELSE Idle]
    /\ \/ initiation' = None /\ UNCHANGED left
       \/ Disturb /\ UNCHANGED initiation
    /\ UNCHANGED <<key, checker, generator, address, reply, load, accepted, issued>>

\* Fault: the age of the secret is not looked at.
AnySecret(m) == m.mac2 = <<secret, m.src>>

CheckMAC2(m) == secretAge <= CookieRefreshTime /\ m.mac2 = <<secret, m.src>>

Accept(w) ==
    /\ accepted' = TRUE
    /\ worker' = [worker EXCEPT ![w] = Idle]

\* Without load, or with a good MAC2 and the consent of the rate limiter.
Pass(w) ==
    /\ worker[w].step = "check" /\ (load => CheckMAC2(worker[w].msg))
    /\ Accept(w)
    /\ UNCHANGED <<key, checker, generator, address, initiation, reply, load, issued, left>>

Deny(w) ==
    /\ worker[w].step = "check" /\ load /\ CheckMAC2(worker[w].msg)
    /\ Disturb
    /\ worker' = [worker EXCEPT ![w] = Idle]
    /\ UNCHANGED <<key, checker, generator, address, initiation, reply, load, accepted, issued>>

\* SendHandshakeCookie: CreateReply reads the age of the secret under a lock it gives up.
Refuse(w) ==
    /\ worker[w].step = "check" /\ load /\ ~CheckMAC2(worker[w].msg)
    /\ worker' = [worker EXCEPT ![w].step = IF secretAge > CookieRefreshTime THEN "refresh" ELSE "reply"]
    /\ UNCHANGED <<key, checker, generator, address, initiation, reply, load, accepted, issued, left>>

\* Fault: the new secret keeps the time of the old one.
KeepAge == UNCHANGED secretAge

ResetAge == secretAge' = 0

RefreshSecret(w) ==
    /\ worker[w].step = "refresh"
    /\ secret' = Fresh(Secrets) /\ ResetAge
    /\ issued' = {}
    /\ worker' = [worker EXCEPT ![w].step = "reply"]
    /\ UNCHANGED <<key, generator, address, initiation, reply, load, accepted, left>>

CreateReply(w) ==
    /\ worker[w].step = "reply"
    /\ reply' = [pk |-> key, mac1 |-> worker[w].msg.id, cookie |-> <<secret, worker[w].msg.src>>]
    /\ issued' = issued \cup {reply'.cookie}
    /\ worker' = [worker EXCEPT ![w] = Idle]
    /\ UNCHANGED <<key, checker, generator, address, initiation, load, accepted, left>>

\* SetPrivateKey: CookieChecker.Init with the new public key.
ChangeKey ==
    /\ Disturb
    /\ key' \in Key \ {key} /\ secretAge' = Expired
    /\ accepted' = FALSE /\ issued' = {}
    /\ UNCHANGED <<secret, generator, address, initiation, reply, load, worker>>

\* The network loses a message.
Lose ==
    /\ Disturb
    /\ initiation' = None /\ reply' = None
    /\ UNCHANGED <<key, checker, generator, address, load, worker, accepted, issued>>

LoadEnds ==
    /\ load /\ load' = FALSE
    /\ UNCHANGED <<key, checker, generator, address, initiation, reply, worker, accepted, issued, left>>

Older(age) == IF age > CookieRefreshTime THEN age ELSE age + 1

Elapse ==
    /\ Disturb
    /\ secretAge' = Older(secretAge) /\ cookieAge' = Older(cookieAge)
    /\ accepted' = FALSE
    /\ issued' = IF secretAge' > CookieRefreshTime THEN {} ELSE issued
    /\ UNCHANGED <<key, secret, pk, cookie, lastMAC1, address, initiation, reply, load, worker>>

SendHandshakeCookie(w) == Refuse(w) \/ RefreshSecret(w) \/ CreateReply(w)

Work(w) == Receive(w) \/ Pass(w) \/ Deny(w) \/ SendHandshakeCookie(w)

Next ==
    \/ \E w \in Worker : Work(w)
    \/ SendInitiation \/ ConsumeReply \/ LearnKey \/ Move \/ ChangeKey \/ Lose \/ LoadEnds \/ Elapse

\* The initiator retries for ever and the workers do their work; the load need not end.
Fairness ==
    /\ WF_vars(SendInitiation) /\ WF_vars(ConsumeReply) /\ WF_vars(LearnKey)
    /\ \A w \in Worker : WF_vars(Work(w))

Spec == Init /\ [][Next]_vars /\ Fairness

-----------------------------------------------------------------------------
(* Properties *)

\* A step lets an initiation through under load only with a cookie that was given.
OnlyWithCookie == \A w \in Worker : (load /\ Pass(w)) => worker[w].msg.mac2 \in issued

\* Under load an initiation goes through only with a cookie that was given to its own
\* address, under the present key and a secret that has not expired since.
CookieProvesAddress == [][OnlyWithCookie]_vars

\* An initiator that keeps trying is let in at last, although the load goes on, cookies and
\* secrets expire, two workers refresh the secret at once, messages are lost or come
\* twice, and addresses and keys change.
LetInAtLast == []<>accepted
=============================================================================
