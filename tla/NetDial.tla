-------------------------------- MODULE NetDial --------------------------------
(***************************************************************************)
(* Dialling through the user-space network stack: DialContext of           *)
(* wireguard/tun/netstack/tun.go with the resolver it uses.                *)
(* LookupContextHost starts one goroutine per address family (a lane),     *)
(* which asks the DNS servers in turn, two rounds of them, each over UDP   *)
(* and, for a truncated answer, over TCP.  The addresses of both lanes are *)
(* put together in the order of the families, and DialContext tries them   *)
(* one after the other, each with its share of the time that is left.      *)
(*                                                                         *)
(* An address is [fam, n].  Time is in seconds; answers of servers and     *)
(* dials are free choices.                                                 *)
(***************************************************************************)
EXTENDS Integers, Sequences, FiniteSets

CONSTANTS
  Servers,     \* number of DNS servers
  MaxAnswers,  \* addresses in an answer
  Deadlines,   \* seconds the caller may give; NoDeadline is one of them
  saneMinimum  \* two seconds

NoDeadline == -1
Fams == {4, 6}
Rounds == 2

VARIABLES
  has,      \* families with a local address
  accept,   \* families the network name allows
  lane,     \* "off", "udp", "tcp" or "done", by family
  server,   \* the server a lane asks
  round,    \* the round it is in
  answer,   \* result of a lane: [ok, why, addrs]
  channel,  \* results in the channel lane, in the order they came
  found,    \* addrsV4 and addrsV6
  lastErr,  \* the lookup has met an error
  phase,    \* "lookup", "dial" or "returned"
  addrs,    \* the addresses to dial
  next,     \* the one to dial next
  left,     \* seconds to the deadline
  start,    \* left when dialling began (history)
  result    \* [conn, err]: the address connected to, or what failed

vars == <<has, accept, lane, server, round, answer, channel, found, lastErr, phase, addrs, next, left, start, result>>

lookupVars == <<lane, server, round, answer, channel, found, lastErr>>

NoAnswer == [ok |-> FALSE, why |-> "none", addrs |-> <<>>]
NoAddr == [fam |-> 0, n |-> 0]

Init ==
  /\ has \in SUBSET Fams \ {{}} /\ accept \in SUBSET Fams \ {{}}
  /\ lane = [f \in Fams |-> IF f \in has THEN "udp" ELSE "off"]
  /\ server = [f \in Fams |-> 1] /\ round = [f \in Fams |-> 1]
  /\ answer = [f \in Fams |-> NoAnswer]
  /\ channel = <<>> /\ found = [f \in Fams |-> <<>>] /\ lastErr = FALSE
  /\ phase = "lookup" /\ addrs = <<>> /\ next = 1
  /\ left \in Deadlines /\ start = 0
  /\ result = [conn |-> NoAddr, err |-> "none"]

-----------------------------------------------------------------------------
\* The end of tryOneName: the result goes into the channel.
LaneDone(f, r) ==
  /\ lane' = [lane EXCEPT ![f] = "done"]
  /\ answer' = [answer EXCEPT ![f] = r]
  /\ channel' = Append(channel, f)
  /\ UNCHANGED <<server, round>>

Fails(f, why) == LaneDone(f, [ok |-> FALSE, why |-> why, addrs |-> <<>>])

LastTry(f) == server[f] = Servers /\ round[f] = Rounds

\* The next server, or the first one in the next round.
TryNext(f) ==
  IF LastTry(f) THEN Fails(f, "tried")
  ELSE /\ lane' = [lane EXCEPT ![f] = "udp"]
       /\ server' = [server EXCEPT ![f] = (@ % Servers) + 1]
       /\ round' = [round EXCEPT ![f] = IF server[f] = Servers THEN @ + 1 ELSE @]
       /\ UNCHANGED <<answer, channel>>

\* An exchange over UDP or TCP that fails, or whose answer is one of an error.
ExchangeFails(f) ==
  /\ lane[f] \in {"udp", "tcp"}
  /\ TryNext(f)
  /\ UNCHANGED <<has, accept, found, lastErr, phase, addrs, next, left, start, result>>

\* A truncated answer: exchange goes on with TCP, and gives up after that.
Truncated(f) ==
  /\ lane[f] \in {"udp", "tcp"}
  /\ IF lane[f] = "udp"
     THEN lane' = [lane EXCEPT ![f] = "tcp"] /\ UNCHANGED <<server, round, answer, channel>>
     ELSE TryNext(f)
  /\ UNCHANGED <<has, accept, found, lastErr, phase, addrs, next, left, start, result>>

\* The name does not exist or has no address of the family, or it has some.
Answered(f) ==
  /\ lane[f] \in {"udp", "tcp"}
  /\ \/ Fails(f, "notFound")
     \/ \E k \in 0..MaxAnswers : LaneDone(f, [ok |-> TRUE, why |-> "none", addrs |-> [i \in 1..k |-> [fam |-> f, n |-> i]]])
  /\ UNCHANGED <<has, accept, found, lastErr, phase, addrs, next, left, start, result>>

\* LookupContextHost takes the result of a lane.  An answer that cannot be read
\* to its end leaves the addresses before that, and an error.
TakeLane ==
  /\ phase = "lookup" /\ channel # <<>>
  /\ LET f == Head(channel)
     IN  /\ found' = [found EXCEPT ![f] = answer[f].addrs]
         /\ \E damaged \in BOOLEAN :
              /\ (answer[f].ok /\ answer[f].addrs = <<>>) => damaged
              /\ lastErr' = (lastErr \/ ~answer[f].ok \/ damaged)
  /\ channel' = Tail(channel)
  /\ UNCHANGED <<has, accept, lane, server, round, answer, phase, addrs, next, left, start, result>>

\* "just put V6 addresses first if an IPv6 address is enabled"
AllAddrs == IF 6 \in has THEN found[6] \o found[4] ELSE found[4] \o found[6]

LookupFailed == AllAddrs = <<>> /\ lastErr

\* Both results are in: the addresses the network name allows are dialled.
LookupDone ==
  /\ phase = "lookup" /\ channel = <<>> /\ \A f \in has : lane[f] = "done"
  /\ LET suitable == SelectSeq(AllAddrs, LAMBDA a : a.fam \in accept)
     IN  IF LookupFailed THEN phase' = "returned" /\ result' = [result EXCEPT !.err = "lookup"] /\ UNCHANGED addrs
         ELSE IF AllAddrs = <<>> THEN phase' = "returned" /\ result' = [result EXCEPT !.err = "missing"] /\ UNCHANGED addrs
         ELSE IF suitable = <<>> THEN phase' = "returned" /\ result' = [result EXCEPT !.err = "noSuitable"] /\ UNCHANGED addrs
         ELSE phase' = "dial" /\ addrs' = suitable /\ UNCHANGED result
  /\ start' = left
  /\ UNCHANGED <<has, accept, next, left>> /\ UNCHANGED lookupVars

-----------------------------------------------------------------------------
\* Fault: an address may use all the time there is.
GreedyShare(remaining, addrsRemaining) == remaining

\* partialDeadline: the seconds an address may use.
partialDeadline(remaining, addrsRemaining) ==
  LET share == remaining \div addrsRemaining
  IN  IF share >= saneMinimum THEN share
      ELSE IF remaining < saneMinimum THEN remaining ELSE saneMinimum

Give(err) == phase' = "returned" /\ result' = [conn |-> NoAddr, err |-> err]

\* The caller cancels: DialContext notices before the next address.
Cancelled ==
  /\ phase = "dial" /\ Give("cancelled")
  /\ UNCHANGED <<has, accept, addrs, next, left, start>> /\ UNCHANGED lookupVars

\* One address: connected, or failed after some of its share; after the last
\* one, or without time, the first error is returned.
DialNext ==
  /\ phase = "dial"
  /\ IF next > Len(addrs) THEN Give("failed") /\ UNCHANGED <<next, left>>
     ELSE IF left = 0 THEN Give("timeout") /\ UNCHANGED <<next, left>>
     ELSE \E ok \in BOOLEAN, used \in 0..(IF left = NoDeadline THEN 0 ELSE partialDeadline(left, Len(addrs) - next + 1)) :
            /\ left' = IF left = NoDeadline THEN left ELSE left - used
            /\ next' = next + 1
            /\ IF ok THEN phase' = "returned" /\ result' = [conn |-> addrs[next], err |-> "none"]
               ELSE UNCHANGED <<phase, result>>
  /\ UNCHANGED <<has, accept, addrs, start>> /\ UNCHANGED lookupVars

LaneStep(f) == ExchangeFails(f) \/ Truncated(f) \/ Answered(f)

Next == (\E f \in Fams : LaneStep(f)) \/ TakeLane \/ LookupDone \/ DialNext \/ Cancelled

Spec == Init /\ [][Next]_vars

-----------------------------------------------------------------------------
\* With two seconds for each address every address is tried before the dial
\* fails, also when those before it use up their whole share.
EveryAddressTried ==
  phase = "returned" /\ result.err \in {"failed", "timeout"} /\ (start = NoDeadline \/ start >= saneMinimum * Len(addrs))
    => next = Len(addrs) + 1 /\ result.err = "failed"

===============================================================================
