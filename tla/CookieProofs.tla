---------------------------- MODULE CookieProofs ----------------------------
(***************************************************************************)
(* Proofs about module Cookie, for any number of handshake workers,        *)
(* addresses and keys and any refresh time: a cookie that counts has been  *)
(* given to the address it comes from.                                     *)
(*                                                                         *)
(* A cookie counts as long as its secret does, so what has to be shown is  *)
(* that no cookie anywhere (in the generator, in a reply or an initiation  *)
(* on the network, in the hands of a worker) bears the present secret      *)
(* unless it is among those given since.  When a secret is drawn it is new *)
(* to all of them.                                                         *)
(***************************************************************************)
EXTENDS Cookie, FiniteSetTheorems, TLAPS

\* Zenon proves the leaves that name no prover; those that cite SMT need arithmetic,
\* records or tuples.
USE Zenon

CookieOrNone == (Name \X Address) \cup {None}

\* A message that bears a cookie or none.
Bearing(m) == m.src \in Address /\ m.mac2 \in CookieOrNone

\* The messages on their way and in the hands of workers.
Messages == ({initiation} \cup {worker[w].msg : w \in Worker}) \ {None}

\* Every cookie there is.
Cookies ==
    ({cookie} \cup {r.cookie : r \in {reply} \ {None}} \cup {m.mac2 : m \in Messages}) \ {None}

\* While the secret counts, a cookie that bears it is among those given.
Given == secretAge <= CookieRefreshTime => \A c \in Cookies : c[1] = secret => c \in issued

\* A worker that is not idle has a message.
WorkerShape(x) ==
    \E s, m : /\ x = [step |-> s, msg |-> m]
              /\ m # None => Bearing(m)
              /\ s # "idle" => m # None

Shapes ==
    /\ secret \in Name /\ secretAge \in Nat
    /\ cookie \in CookieOrNone /\ address \in Address
    /\ reply # None => reply.cookie \in Name \X Address
    /\ initiation # None => Bearing(initiation)
    /\ DOMAIN worker = Worker
    /\ \A w \in Worker : WorkerShape(worker[w])

CookieInv == Shapes /\ Given

-----------------------------------------------------------------------------
(* A new secret *)

LEMMA NameFacts ==
    ASSUME CookieAssumption
    PROVE  /\ Cardinality(Worker) \in Nat /\ Name \subseteq Nat /\ 1 \in Name
           /\ IsFiniteSet(Name) /\ Cardinality(Name) = Cardinality(Worker) + 5
<1>1. Cardinality(Worker) \in Nat
  BY FS_CardinalityType DEF CookieAssumption
<1>2. Name \subseteq Nat /\ 1 \in Name
  BY SMT, <1>1 DEF Name
<1>3. PICK a, b : a = 1 /\ b = Cardinality(Worker) + 5
  OBVIOUS
<1>4. a \in Int /\ b \in Int /\ ~(a > b) /\ b - a + 1 = Cardinality(Worker) + 5
  BY SMT, <1>1, <1>3
<1>5. IsFiniteSet(a .. b) /\ Cardinality(a .. b) = b - a + 1
  BY <1>4, FS_Interval
<1>6. QED
  BY <1>1, <1>2, <1>3, <1>4, <1>5 DEF Name

\* Adding an element to a finite set adds at most one to its size.
LEMMA AddAtMostOne ==
    ASSUME NEW S, NEW x, IsFiniteSet(S), NEW n \in Nat, Cardinality(S) <= n
    PROVE  IsFiniteSet(S \cup {x}) /\ Cardinality(S \cup {x}) <= n + 1
<1>1. IsFiniteSet(S \cup {x}) /\ Cardinality(S) \in Nat
      /\ Cardinality(S \cup {x}) = IF x \in S THEN Cardinality(S) ELSE Cardinality(S) + 1
  BY FS_AddElement, FS_CardinalityType
<1>2. QED
  BY SMT, <1>1

\* The new secret is one no cookie bears: there are more names than cookies.
LEMMA FreshSecret ==
    ASSUME CookieAssumption
    PROVE  Fresh(Secrets) \in Name \ Secrets
<1>1. PICK g, W : /\ g = [w \in Worker |-> worker[w].msg.mac2[1]]
                  /\ W = {g[w] : w \in Worker}
  OBVIOUS
<1>2. g \in Surjection(Worker, W)
  BY <1>1 DEF Surjection
<1>3. PICK n : n = Cardinality(Worker)
  OBVIOUS
<1>4. n \in Nat /\ IsFiniteSet(W) /\ Cardinality(W) <= n
  BY <1>2, <1>3, FS_Surjection, NameFacts DEF CookieAssumption
<1>5. PICK a, b, c, d : a = secret /\ b = cookie[1] /\ c = reply.cookie[1] /\ d = initiation.mac2[1]
  OBVIOUS
<1>6. PICK S : S = W \cup {a} \cup {b} \cup {c} \cup {d}
  OBVIOUS
<1>7. IsFiniteSet(S) /\ Cardinality(S) <= n + 4
  <2>0. n + 1 \in Nat /\ n + 1 + 1 \in Nat /\ n + 1 + 1 + 1 \in Nat /\ n + 1 + 1 + 1 + 1 = n + 4
    BY SMT, <1>4
  <2>1. IsFiniteSet(W \cup {a}) /\ Cardinality(W \cup {a}) <= n + 1
    BY <1>4, AddAtMostOne
  <2>2. IsFiniteSet(W \cup {a} \cup {b}) /\ Cardinality(W \cup {a} \cup {b}) <= n + 1 + 1
    BY <2>0, <2>1, AddAtMostOne
  <2>3. /\ IsFiniteSet(W \cup {a} \cup {b} \cup {c})
        /\ Cardinality(W \cup {a} \cup {b} \cup {c}) <= n + 1 + 1 + 1
    BY <2>0, <2>2, AddAtMostOne
  <2>4. IsFiniteSet(S) /\ Cardinality(S) <= n + 1 + 1 + 1 + 1
    BY <1>6, <2>0, <2>3, AddAtMostOne
  <2>5. QED
    BY <2>0, <2>4
<1>8. Secrets \subseteq S
  <2>1. {secret} \subseteq S /\ {k[1] : k \in {cookie} \ {None}} \subseteq S
        /\ {r.cookie[1] : r \in {reply} \ {None}} \subseteq S
    BY <1>5, <1>6
  <2>2. ASSUME NEW m \in ({initiation} \cup {worker[w].msg : w \in Worker}) PROVE m.mac2[1] \in S
    <3>1. CASE m = initiation
      BY <1>5, <1>6, <3>1
    <3>2. ASSUME NEW w \in Worker, m = worker[w].msg PROVE m.mac2[1] \in S
      BY <1>1, <1>6, <3>2
    <3>3. QED
      BY <2>2, <3>1, <3>2
  <2>3. QED
    BY <2>1, <2>2 DEF Secrets
<1>9. \E s \in Name : s \notin Secrets
  <2> SUFFICES ASSUME Name \subseteq S PROVE FALSE
    BY <1>8
  <2>1. Cardinality(Name) <= Cardinality(S) /\ Cardinality(Name) = n + 5 /\ Cardinality(S) \in Nat
    BY <1>3, <1>7, FS_Subset, FS_CardinalityType, NameFacts
  <2>2. QED
    BY SMT, <1>4, <1>7, <2>1
<1>10. QED
  BY <1>9 DEF Fresh

-----------------------------------------------------------------------------
(* The invariant *)

\* A step that keeps the secret and brings no cookie that was not there or is given now.
LEMMA GivenStep ==
    ASSUME Given, secret' = secret,
           secretAge' <= CookieRefreshTime => secretAge <= CookieRefreshTime /\ issued \subseteq issued',
           Cookies' \subseteq Cookies \cup issued'
    PROVE  Given'
BY DEF Given

LEMMA WorkerFacts ==
    ASSUME Shapes, NEW w \in Worker
    PROVE  /\ worker[w].msg # None => Bearing(worker[w].msg)
           /\ worker[w].step # "idle" => worker[w].msg # None
           /\ \A s : [worker EXCEPT ![w].step = s] =
                     [worker EXCEPT ![w] = [step |-> s, msg |-> worker[w].msg]]
<1>1. PICK s, m : /\ worker[w] = [step |-> s, msg |-> m]
                  /\ m # None => Bearing(m)
                  /\ s # "idle" => m # None
  BY DEF Shapes, WorkerShape
<1>2. worker[w].msg = m /\ worker[w].step = s
  BY SMT, <1>1
<1>3. \A t : [worker[w] EXCEPT !.step = t] = [step |-> t, msg |-> m]
  BY SMT, <1>1
<1>4. \A t : [worker EXCEPT ![w].step = t] = [worker EXCEPT ![w] = [step |-> t, msg |-> m]]
  BY <1>3
<1>5. QED
  BY <1>1, <1>2, <1>4

\* One worker changes.
LEMMA WorkerStep ==
    ASSUME Shapes, NEW w \in Worker, NEW s, NEW m, m # None => Bearing(m), s # "idle" => m # None,
           worker' = [worker EXCEPT ![w] = [step |-> s, msg |-> m]]
    PROVE  /\ DOMAIN worker' = Worker /\ \A v \in Worker : WorkerShape(worker'[v])
           /\ worker'[w].msg = m /\ \A v \in Worker \ {w} : worker'[v] = worker[v]
<1>1. DOMAIN worker' = Worker /\ worker'[w] = [step |-> s, msg |-> m]
  BY DEF Shapes
<1>2. \A v \in Worker \ {w} : worker'[v] = worker[v]
  BY DEF Shapes
<1>3. WorkerShape(worker'[w])
  BY <1>1 DEF WorkerShape
<1>4. worker'[w].msg = m
  BY <1>1
<1>5. QED
  BY <1>1, <1>2, <1>3, <1>4 DEF Shapes

LEMMA CookiesThere ==
    /\ cookie # None => cookie \in Cookies
    /\ reply # None /\ reply.cookie # None => reply.cookie \in Cookies
    /\ \A m \in Messages : m.mac2 # None => m.mac2 \in Cookies
BY DEF Cookies

LEMMA CookiesFrom ==
    ASSUME NEW T, cookie' # None => cookie' \in T,
           reply' # None /\ reply'.cookie # None => reply'.cookie \in T,
           \A m \in Messages' : m.mac2 # None => m.mac2 \in T
    PROVE  Cookies' \subseteq T
BY DEF Cookies

\* The initiator's steps.
LEMMA InitiatorStep ==
    ASSUME CookieAssumption, CookieInv, SendInitiation \/ ConsumeReply
    PROVE  CookieInv'
<1>1. Shapes /\ Given
  BY DEF CookieInv
<1>2. CASE SendInitiation
  <2>1. /\ secret' = secret /\ secretAge' = secretAge /\ cookie' = cookie /\ reply' = reply
        /\ worker' = worker /\ issued' = issued /\ address' = address
    BY <1>2 DEF SendInitiation, checker
  <2>a. PICK id, k : initiation' = [id |-> id, pk |-> k, src |-> address, mac2 |-> UsableCookie]
    BY <1>2 DEF SendInitiation
  <2>2. PICK m : /\ initiation' = m /\ m.src = address /\ m.mac2 = UsableCookie
    BY SMT, <2>a
  <2>3. m.mac2 = None \/ m.mac2 = cookie
    BY <2>2 DEF UsableCookie
  <2>4. Bearing(m)
    BY <1>1, <2>2, <2>3 DEF Bearing, Shapes, CookieOrNone
  <2>5. Shapes'
    BY <1>1, <2>1, <2>2, <2>4 DEF Shapes
  <2>6. \A n \in Messages' : n = m \/ n \in Messages
    BY <2>1, <2>2 DEF Messages
  <2>7. Cookies' \subseteq Cookies
    BY <2>1, <2>3, <2>6, CookiesThere, CookiesFrom
  <2>8. QED
    BY <1>1, <2>1, <2>5, <2>7, GivenStep DEF CookieInv
<1>3. CASE ConsumeReply
  <2>1. /\ secret' = secret /\ secretAge' = secretAge /\ cookie' = reply.cookie /\ reply' = None
        /\ worker' = worker /\ issued' = issued /\ address' = address /\ initiation' = initiation
        /\ reply # None
    BY <1>3 DEF ConsumeReply, checker, GoodReply
  <2>2. Shapes'
    BY <1>1, <2>1 DEF Shapes, CookieOrNone
  <2>3. Messages' = Messages
    BY <2>1 DEF Messages
  <2>4. Cookies' \subseteq Cookies
    BY <2>1, <2>3, CookiesThere, CookiesFrom
  <2>5. QED
    BY <1>1, <2>1, <2>2, <2>4, GivenStep DEF CookieInv
<1>4. QED
  BY <1>2, <1>3

\* Steps that move no message and no cookie.
LEMMA TimeStep ==
    ASSUME CookieAssumption, CookieInv,
           LearnKey \/ Move \/ ChangeKey \/ LoadEnds \/ Elapse \/ UNCHANGED vars
    PROVE  CookieInv'
<1>1. Shapes /\ Given
  BY DEF CookieInv
<1>2. /\ secret' = secret /\ cookie' = cookie /\ reply' = reply /\ initiation' = initiation
      /\ worker' = worker
  BY DEF LearnKey, Move, ChangeKey, LoadEnds, Elapse, vars, checker, generator
<1>3. Cookies' = Cookies
  BY <1>2 DEF Cookies, Messages
<1>4. address' \in Address
  BY <1>1 DEF LearnKey, Move, ChangeKey, LoadEnds, Elapse, vars, Shapes
<1>5. secretAge' \in Nat
      /\ (secretAge' <= CookieRefreshTime => secretAge <= CookieRefreshTime /\ issued \subseteq issued')
  <2>1. secretAge \in Nat /\ CookieRefreshTime \in Nat
    BY <1>1 DEF Shapes, CookieAssumption
  <2>2. CASE secretAge' = secretAge /\ issued' = issued
    BY <2>1, <2>2
  <2>3. CASE ChangeKey
    <3>1. secretAge' = CookieRefreshTime + 1
      BY <2>3 DEF ChangeKey, Expired
    <3>2. QED
      BY SMT, <2>1, <3>1
  <2>4. CASE Elapse
    <3>1. secretAge' = (IF secretAge > CookieRefreshTime THEN secretAge ELSE secretAge + 1)
      BY <2>4 DEF Elapse, Older
    <3>2. issued' = IF secretAge' > CookieRefreshTime THEN {} ELSE issued
      BY <2>4 DEF Elapse
    <3>3. /\ secretAge' \in Nat
          /\ secretAge' <= CookieRefreshTime
               => secretAge <= CookieRefreshTime /\ ~(secretAge' > CookieRefreshTime)
      BY SMT, <2>1, <3>1
    <3>4. QED
      BY <3>2, <3>3
  <2>5. QED
    BY <2>2, <2>3, <2>4 DEF LearnKey, Move, LoadEnds, vars, checker
<1>6. Shapes'
  BY <1>1, <1>2, <1>4, <1>5 DEF Shapes
<1>7. QED
  BY <1>1, <1>2, <1>3, <1>5, <1>6, GivenStep DEF CookieInv

LEMMA LoseStep ==
    ASSUME CookieInv, Lose
    PROVE  CookieInv'
<1>1. Shapes /\ Given
  BY DEF CookieInv
<1>2. /\ secret' = secret /\ secretAge' = secretAge /\ cookie' = cookie /\ reply' = None
      /\ initiation' = None /\ worker' = worker /\ issued' = issued /\ address' = address
  BY DEF Lose, checker, generator
<1>3. Shapes'
  BY <1>1, <1>2 DEF Shapes
<1>4. Messages' \subseteq Messages
  BY <1>2 DEF Messages
<1>5. Cookies' \subseteq Cookies
  BY <1>2, <1>4, CookiesThere, CookiesFrom
<1>6. QED
  BY <1>1, <1>2, <1>3, <1>5, GivenStep DEF CookieInv

\* A worker's step: it goes on with the message it has, or one from the network, or none.
LEMMA WorkerKeeps ==
    ASSUME CookieInv, NEW w \in Worker, NEW s, NEW m, s # "idle" => m # None,
           m = None \/ m = worker[w].msg \/ m = initiation,
           worker' = [worker EXCEPT ![w] = [step |-> s, msg |-> m]],
           initiation' = None \/ initiation' = initiation,
           cookie' = cookie, address' = address
    PROVE  /\ DOMAIN worker' = Worker /\ \A v \in Worker : WorkerShape(worker'[v])
           /\ initiation' # None => Bearing(initiation')
           /\ Messages' \subseteq Messages
<1>1. m # None => Bearing(m)
  BY WorkerFacts DEF CookieInv, Shapes
<1>2. /\ DOMAIN worker' = Worker /\ \A v \in Worker : WorkerShape(worker'[v])
      /\ worker'[w].msg = m /\ \A v \in Worker \ {w} : worker'[v] = worker[v]
  BY <1>1, WorkerStep DEF CookieInv
<1>3. \A v \in Worker : worker'[v].msg # None => worker'[v].msg \in Messages
  BY <1>2 DEF Messages
<1>4. QED
  BY <1>2, <1>3 DEF Messages, CookieInv, Shapes

LEMMA HandlingStep ==
    ASSUME CookieInv, NEW w \in Worker, Receive(w) \/ Pass(w) \/ Deny(w) \/ Refuse(w)
    PROVE  CookieInv'
<1>1. /\ secret' = secret /\ secretAge' = secretAge /\ cookie' = cookie /\ reply' = reply
      /\ issued' = issued /\ address' = address
      /\ initiation' = None \/ initiation' = initiation
  BY DEF Receive, Pass, Deny, Refuse, checker, generator
<1>2. PICK s, m : /\ s # "idle" => m # None
                  /\ m = None \/ m = worker[w].msg \/ m = initiation
                  /\ worker' = [worker EXCEPT ![w] = [step |-> s, msg |-> m]]
  <2>1. CASE Receive(w)
    BY <2>1 DEF Receive, Idle
  <2>2. CASE Pass(w) \/ Deny(w)
    BY <2>2 DEF Pass, Accept, Deny, Idle
  <2>3. CASE Refuse(w)
    <3>1. PICK s : worker' = [worker EXCEPT ![w].step = s]
      BY <2>3 DEF Refuse
    <3>2. worker[w].msg # None
      BY <2>3, WorkerFacts DEF Refuse, CookieInv
    <3>3. worker' = [worker EXCEPT ![w] = [step |-> s, msg |-> worker[w].msg]]
      BY <3>1, WorkerFacts DEF CookieInv
    <3>4. QED
      BY <3>2, <3>3
  <2>4. QED
    BY <2>1, <2>2, <2>3
<1>3. /\ DOMAIN worker' = Worker /\ \A v \in Worker : WorkerShape(worker'[v])
      /\ initiation' # None => Bearing(initiation')
      /\ Messages' \subseteq Messages
  BY <1>1, <1>2, WorkerKeeps
<1>4. Shapes'
  BY <1>1, <1>3 DEF Shapes, CookieInv
<1>5. Cookies' \subseteq Cookies
  BY <1>1, <1>3, CookiesThere, CookiesFrom
<1>6. QED
  BY <1>1, <1>4, <1>5, GivenStep DEF CookieInv

LEMMA RefreshStep ==
    ASSUME CookieAssumption, CookieInv, NEW w \in Worker, RefreshSecret(w)
    PROVE  CookieInv'
<1>1. /\ secret' = Fresh(Secrets) /\ secretAge' = 0 /\ cookie' = cookie /\ reply' = reply
      /\ address' = address /\ initiation' = initiation
      /\ worker[w].step = "refresh" /\ worker' = [worker EXCEPT ![w].step = "reply"]
  BY DEF RefreshSecret, generator, ResetAge
<1>2. worker' = [worker EXCEPT ![w] = [step |-> "reply", msg |-> worker[w].msg]]
      /\ worker[w].msg # None
  BY <1>1, WorkerFacts DEF CookieInv
<1>a. PICK s, m : s = "reply" /\ m = worker[w].msg
  OBVIOUS
<1>b. /\ worker' = [worker EXCEPT ![w] = [step |-> s, msg |-> m]]
      /\ s # "idle" => m # None
      /\ m = None \/ m = worker[w].msg \/ m = initiation
      /\ initiation' = None \/ initiation' = initiation
      /\ cookie' = cookie /\ address' = address
  BY <1>1, <1>2, <1>a
<1>3. /\ DOMAIN worker' = Worker /\ \A v \in Worker : WorkerShape(worker'[v])
      /\ initiation' # None => Bearing(initiation')
      /\ Messages' \subseteq Messages
  BY <1>b, WorkerKeeps
<1>4. secret' \in Name \ Secrets
  BY <1>1, FreshSecret
<1>5. Shapes'
  BY <1>1, <1>3, <1>4 DEF Shapes, CookieInv
<1>6. Cookies' \subseteq Cookies
  BY <1>1, <1>3, CookiesThere, CookiesFrom
<1>7. ASSUME NEW c \in Cookies PROVE c[1] \in Secrets
  <2>1. CASE c = cookie /\ c # None
    BY <2>1 DEF Secrets
  <2>2. CASE reply # None /\ c = reply.cookie
    BY <2>2 DEF Secrets
  <2>3. ASSUME NEW n \in Messages, c = n.mac2, c # None PROVE c[1] \in Secrets
    BY <2>3 DEF Secrets, Messages
  <2>4. QED
    BY <1>7, <2>1, <2>2, <2>3 DEF Cookies
<1>8. Given'
  BY <1>4, <1>6, <1>7 DEF Given
<1>9. QED
  BY <1>5, <1>8 DEF CookieInv

LEMMA CreateReplyStep ==
    ASSUME CookieInv, NEW w \in Worker, CreateReply(w)
    PROVE  CookieInv'
<1>1. /\ secret' = secret /\ secretAge' = secretAge /\ cookie' = cookie
      /\ address' = address /\ initiation' = initiation
      /\ worker[w].step = "reply" /\ worker' = [worker EXCEPT ![w] = [step |-> "idle", msg |-> None]]
      /\ issued' = issued \cup {reply'.cookie}
  BY DEF CreateReply, generator, checker, Idle
<1>2. reply'.cookie = <<secret, worker[w].msg.src>>
  BY DEF CreateReply
<1>3. worker[w].msg.src \in Address /\ secret \in Name
  BY <1>1, WorkerFacts DEF CookieInv, Bearing, Shapes
<1>4. reply'.cookie \in Name \X Address
  BY SMT, <1>2, <1>3
<1>5. PICK s, m : s = "idle" /\ m = None
  OBVIOUS
<1>6. /\ DOMAIN worker' = Worker /\ \A v \in Worker : WorkerShape(worker'[v])
      /\ initiation' # None => Bearing(initiation')
      /\ Messages' \subseteq Messages
  BY <1>1, <1>5, WorkerKeeps
<1>7. Shapes'
  BY <1>1, <1>4, <1>6 DEF Shapes, CookieInv
<1>8. Cookies' \subseteq Cookies \cup issued'
  BY <1>1, <1>6, CookiesThere, CookiesFrom
<1>9. QED
  BY <1>1, <1>7, <1>8, GivenStep DEF CookieInv

LEMMA InitCookie == CookieAssumption /\ Init => CookieInv
<1> SUFFICES ASSUME CookieAssumption, Init PROVE CookieInv
  OBVIOUS
<1>1. secret \in Name /\ secretAge \in Nat /\ address \in Address
  <2>1. 1 \in Name
    BY NameFacts
  <2>2. CookieRefreshTime + 1 \in Nat
    BY SMT DEF CookieAssumption
  <2>3. QED
    BY <2>1, <2>2 DEF Init, Expired, CookieAssumption
<1>2. \A w \in Worker : WorkerShape(worker[w]) /\ worker[w].msg = None
  BY DEF Init, WorkerShape, Idle
<1>3. Shapes
  BY <1>1, <1>2 DEF Init, Shapes, CookieOrNone
<1>4. Cookies = {}
  BY <1>2 DEF Init, Cookies, Messages
<1>5. QED
  BY <1>3, <1>4 DEF CookieInv, Given

LEMMA NextCookie == CookieAssumption /\ CookieInv /\ [Next]_vars => CookieInv'
BY InitiatorStep, TimeStep, LoseStep, HandlingStep, RefreshStep, CreateReplyStep
DEF Next, Work, SendHandshakeCookie

LEMMA PassStep == CookieAssumption /\ CookieInv => OnlyWithCookie
<1> SUFFICES ASSUME CookieAssumption, CookieInv, NEW w \in Worker, load, Pass(w)
             PROVE  worker[w].msg.mac2 \in issued
  BY DEF OnlyWithCookie
<1>1. PICK m : m = worker[w].msg
  OBVIOUS
<1>2. secretAge <= CookieRefreshTime /\ m.mac2 = <<secret, m.src>>
  BY <1>1 DEF Pass, CheckMAC2
<1>3. m # None /\ Bearing(m) /\ m \in Messages
  BY <1>1, WorkerFacts DEF Pass, CookieInv, Messages
<1>4. secret \in Nat /\ m.src \in Address
  BY <1>3, NameFacts DEF CookieInv, Shapes, Bearing
<1>5. m.mac2 # None
  BY SMT, <1>2, <1>4 DEF CookieAssumption
<1>6. m.mac2 \in Cookies /\ m.mac2[1] = secret
  <2>1. m.mac2[1] = secret
    BY SMT, <1>2
  <2>2. QED
    BY <1>3, <1>5, <2>1, CookiesThere
<1>7. QED
  BY <1>1, <1>2, <1>6 DEF CookieInv, Given

\* Under load a handshake worker lets an initiation through (CheckMAC2) only with a cookie
\* that CreateReply gave to the address it comes from, under the present key and a secret
\* that has not expired, for any number of workers that refresh the secret at once,
\* addresses and keys, whatever the network loses, repeats or delays.
THEOREM CookieProvesAddressHolds ==
    ASSUME CookieAssumption
    PROVE  Spec => CookieProvesAddress
<1>1. Init => CookieInv
  BY InitCookie
<1>2. CookieInv /\ [Next]_vars => CookieInv'
  BY NextCookie
<1>3. CookieInv /\ [Next]_vars => [OnlyWithCookie]_vars
  BY PassStep
<1>4. QED
  BY <1>1, <1>2, <1>3, PTL DEF Spec, CookieProvesAddress
=============================================================================
