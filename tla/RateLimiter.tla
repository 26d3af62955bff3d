----------------------------- MODULE RateLimiter -----------------------------
(***************************************************************************)
(* The rate limiter of handshake messages (ratelimiter/ratelimiter.go):    *)
(* handshake workers call Allow, a collector goroutine removes entries     *)
(* that were idle for garbageCollectTime, and Allow wakes it through the   *)
(* unbuffered channel stopReset when the table was empty.                  *)
(*                                                                         *)
(* Time passes in units; a packet costs packetCost of them.  An entry      *)
(* keeps the time since its lastTime.  rate.mu is a lock with an owner;    *)
(* an entry's mutex protects one step here.                                *)
(***************************************************************************)
EXTENDS Integers, FiniteSets

CONSTANTS Worker, IP,
          None,
          packetCost, packetsBurstable, garbageCollectTime

maxTokens == packetCost * packetsBurstable

\* Names of entries; one that nothing refers to is free again.
Entry == 1 .. Cardinality(IP) + Cardinality(Worker)

RateLimiterAssumption ==
    /\ {packetCost, packetsBurstable, garbageCollectTime} \subseteq Nat \ {0}
    /\ garbageCollectTime >= maxTokens
    /\ None \notin Worker /\ None \notin Entry /\ None \notin IP

VARIABLES table,      \* rate.table
          tokens,     \* of each entry
          idle,       \* of each entry: the time since lastTime, up to a limit that matters
          mu,         \* the owner of rate.mu, or None
          pc, ip, entry, \* of each worker
          collector,  \* what the collector does
          ticker,     \* whether the ticker runs
          tick,       \* whether a tick waits in ticker.C
          closed,     \* whether stopReset is closed
          budget,     \* history: what an ideal bucket of each address holds
          crowded     \* history: the addresses that two workers have handled at once

vars == <<table, tokens, idle, mu, pc, ip, entry, collector, ticker, tick, closed, budget, crowded>>

Lesser(a, b) == IF a < b THEN a ELSE b

Init ==
    /\ table = [i \in IP |-> None]
    /\ tokens = [e \in Entry |-> 0] /\ idle = [e \in Entry |-> 0]
    /\ mu = None
    /\ pc = [w \in Worker |-> "idle"] /\ ip = [w \in Worker |-> None] /\ entry = [w \in Worker |-> None]
    /\ collector = "select" /\ ticker = FALSE /\ tick = FALSE /\ closed = FALSE
    /\ budget = [i \in IP |-> maxTokens] /\ crowded = {}

InUse == {table[i] : i \in IP} \cup {entry[w] : w \in Worker}

\* The entries have these tokens and ages, and those that nothing refers to are gone.
Keep(ts, ages) ==
    /\ tokens' = [e \in Entry |-> IF e \in InUse' THEN ts[e] ELSE 0]
    /\ idle' = [e \in Entry |-> IF e \in InUse' THEN ages[e] ELSE 0]

Allowed(w) == budget' = IF ip[w] \in crowded THEN budget ELSE [budget EXCEPT ![ip[w]] = @ - packetCost]

Done(w) ==
    /\ pc' = [pc EXCEPT ![w] = "idle"]
    /\ ip' = [ip EXCEPT ![w] = None]
    /\ entry' = [entry EXCEPT ![w] = None]

-----------------------------------------------------------------------------
(* Allow *)

\* Under the read lock; a new entry is filled in before the write lock is taken.
Lookup(w, i) ==
    /\ pc[w] = "idle" /\ mu = None
    /\ ip' = [ip EXCEPT ![w] = i]
    /\ IF \E v \in Worker : ip[v] = i
       THEN crowded' = crowded \cup {i} /\ budget' = [budget EXCEPT ![i] = maxTokens]
       ELSE UNCHANGED <<crowded, budget>>
    /\ IF table[i] # None
       THEN /\ entry' = [entry EXCEPT ![w] = table[i]]
            /\ pc' = [pc EXCEPT ![w] = "use"]
            /\ UNCHANGED <<tokens, idle>>
       ELSE LET e == CHOOSE f \in Entry : f \notin InUse
            IN  /\ entry' = [entry EXCEPT ![w] = e]
                /\ pc' = [pc EXCEPT ![w] = "insert"]
                /\ tokens' = [tokens EXCEPT ![e] = maxTokens - packetCost]
                /\ idle' = [idle EXCEPT ![e] = 0]
    /\ UNCHANGED <<table, mu, collector, ticker, tick, closed>>

Filled == {i \in IP : table[i] # None}

Insert(w) ==
    /\ pc[w] = "insert" /\ mu = None
    /\ table' = [table EXCEPT ![ip[w]] = entry[w]]
    /\ IF Cardinality(Filled \cup {ip[w]}) = 1
       THEN /\ mu' = w /\ pc' = [pc EXCEPT ![w] = "send"]
            /\ UNCHANGED <<ip, entry, budget>>
       ELSE /\ Done(w) /\ Allowed(w) /\ UNCHANGED mu
    /\ Keep(tokens, idle)
    /\ UNCHANGED <<collector, ticker, tick, closed, crowded>>

\* The collector receives it in select: a new ticker, with a channel of its own.
Reset(w) ==
    /\ collector = "select" /\ ticker' = TRUE /\ tick' = FALSE
    /\ UNCHANGED collector

Send(w) ==
    /\ pc[w] = "send" /\ ~closed
    /\ Reset(w)
    /\ mu' = None /\ Done(w) /\ Allowed(w)
    /\ UNCHANGED <<table, tokens, idle, closed, crowded>>

Refilled(e) == Lesser(tokens[e] + idle[e], maxTokens)

\* An entry that was found may have been removed from the table in the meantime.
Use(w) ==
    /\ pc[w] = "use"
    /\ Done(w) /\ UNCHANGED table
    /\ LET e == entry[w]
           now == Refilled(e)
       IN  \/ /\ now > packetCost
              /\ Keep([tokens EXCEPT ![e] = now - packetCost], [idle EXCEPT ![e] = 0])
              /\ Allowed(w)
           \/ /\ now <= packetCost
              /\ Keep([tokens EXCEPT ![e] = now], [idle EXCEPT ![e] = 0])
              /\ UNCHANGED budget
    /\ UNCHANGED <<mu, collector, ticker, tick, closed, crowded>>

-----------------------------------------------------------------------------
(* The collector *)

Tick ==
    /\ ticker /\ ~tick
    /\ tick' = TRUE
    /\ UNCHANGED <<table, tokens, idle, mu, pc, ip, entry, collector, ticker, closed, budget, crowded>>

ReceiveTick ==
    /\ collector = "select" /\ tick
    /\ tick' = FALSE /\ collector' = "cleanup"
    /\ UNCHANGED <<table, tokens, idle, mu, pc, ip, entry, ticker, closed, budget, crowded>>

\* Fault: an entry goes as soon as it is not used for a moment.
IdleAtAll(e) == idle[e] > 0

Expired(e) == idle[e] > garbageCollectTime

cleanup ==
    /\ collector = "cleanup" /\ mu = None
    /\ table' = [i \in IP |-> IF table[i] # None /\ Expired(table[i]) THEN None ELSE table[i]]
    /\ collector' = IF \A i \in IP : table'[i] = None THEN "stop" ELSE "select"
    /\ UNCHANGED <<mu, pc, ip, entry, ticker, tick, closed, budget, crowded>>
    /\ Keep(tokens, idle)


\* A tick that has come since stays in the ticker's channel.
StopTicker ==
    /\ collector = "stop" /\ ticker' = FALSE /\ collector' = "select"
    /\ UNCHANGED <<table, tokens, idle, mu, pc, ip, entry, tick, closed, budget, crowded>>

\* When the workers are idle.
Close ==
    /\ ~closed /\ mu = None /\ \A w \in Worker : pc[w] = "idle"
    /\ closed' = TRUE
    /\ UNCHANGED <<table, tokens, idle, mu, pc, ip, entry, collector, ticker, tick, budget, crowded>>

CollectorStops ==
    /\ collector = "select" /\ closed
    /\ collector' = "gone" /\ ticker' = FALSE
    /\ UNCHANGED <<table, tokens, idle, mu, pc, ip, entry, tick, closed, budget, crowded>>

\* A unit of time.
Pass ==
    /\ idle' = [e \in Entry |-> IF e \in InUse THEN Lesser(idle[e] + 1, garbageCollectTime + 1) ELSE 0]
    /\ budget' = [i \in IP |-> Lesser(budget[i] + 1, maxTokens)]
    /\ UNCHANGED <<table, tokens, mu, pc, ip, entry, collector, ticker, tick, closed, crowded>>

AllowStep(w) == Insert(w) \/ Send(w) \/ Use(w)

Collect == ReceiveTick \/ cleanup \/ StopTicker

Next ==
    \/ \E w \in Worker : AllowStep(w) \/ (\E i \in IP : ~closed /\ Lookup(w, i))
    \/ Tick \/ Collect \/ CollectorStops \/ Close \/ Pass

\* Goroutines that can go on do so, and a mutex of Go does not pass one over for ever.
Fairness ==
    /\ \A w \in Worker : WF_vars(Send(w)) /\ WF_vars(Use(w)) /\ SF_vars(Insert(w))
    /\ WF_vars(ReceiveTick \/ StopTicker) /\ SF_vars(cleanup)

Spec == Init /\ [][Next]_vars /\ Fairness

-----------------------------------------------------------------------------
(* Properties *)

\* An address is allowed no more than an ideal bucket would allow it, up to one packet:
\* the one a worker lets pass with an entry that was removed after it was looked up.  That
\* is so for an address whose packets come one after the other; workers that handle packets
\* of one address at once may each miss the entry, replace the other's, and let a packet
\* or a burst pass each.
WithinBudget == \A i \in IP \ crowded : budget[i] >= 0 - packetCost

\* A worker that wakes the collector holds rate.mu, and the collector, which has had a
\* tick, waits for it.
Stuck == collector = "cleanup" /\ \E w \in Worker : pc[w] = "send"


=============================================================================
