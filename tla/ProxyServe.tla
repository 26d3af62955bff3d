------------------------------ MODULE ProxyServe ------------------------------
(***************************************************************************)
(* The mixed proxy server: the accept loop of proxy/pkg/mixed/proxy.go and *)
(* the goroutine of each connection, which looks at the first byte and     *)
(* lets the SOCKS5, SOCKS4 or HTTP server read the request, answer it and  *)
(* relay.  With a user handler (user), as in wiresocks, a CONNECT is       *)
(* answered before the target is dialled; without one the server dials     *)
(* itself and answers after.                                               *)
(*                                                                         *)
(* A request is [proto, auth, cmd, addr]: whether "no authentication" is   *)
(* among the SOCKS5 methods, the command, and an address that is "ok", of  *)
(* an "unknown" type, or "cut" (it, or an HTTP request, does not parse).   *)
(***************************************************************************)
EXTENDS Integers, Sequences, FiniteSets

CONSTANTS Conns  \* the connections that clients open

VARIABLES
  user,      \* a user handler is set
  ctx,       \* the context has been cancelled
  server,    \* ListenAndServe: "check", "accept" or "returned"
  request,   \* of each connection
  phase,     \* "none", "queued", "peek", "version", "request", "command",
             \* "dial", "answer", "relay" or "end"
  gone,      \* clients that have closed
  open,      \* connections the server has not closed
  target,    \* the connection to the target: "none", "open" or "closed"
  udp,       \* the UDP socket of an association, likewise
  answers    \* what the client was sent

vars == <<user, ctx, server, request, phase, gone, open, target, udp, answers>>

Requests ==
  [proto : {"socks5"}, auth : BOOLEAN, cmd : {"connect", "associate", "other"}, addr : {"ok", "unknown", "cut"}]
  \cup [proto : {"socks4"}, auth : {TRUE}, cmd : {"connect", "other"}, addr : {"ok", "cut"}]
  \cup [proto : {"http"}, auth : {TRUE}, cmd : {"connect", "get"}, addr : {"ok", "cut"}]

Init ==
  /\ user \in BOOLEAN /\ ctx = FALSE /\ server = "check"
  /\ request \in [Conns -> Requests]
  /\ phase = [c \in Conns |-> "none"]
  /\ gone = {} /\ open = {}
  /\ target = [c \in Conns |-> "none"] /\ udp = [c \in Conns |-> "none"]
  /\ answers = [c \in Conns |-> <<>>]

Client(c) ==
  /\ \/ phase[c] = "none" /\ server # "returned"
        /\ phase' = [phase EXCEPT ![c] = "queued"] /\ UNCHANGED gone
     \/ phase[c] # "none" /\ c \notin gone
        /\ gone' = gone \cup {c} /\ UNCHANGED phase
  /\ UNCHANGED <<user, ctx, server, request, open, target, udp, answers>>

Cancel ==
  /\ ~ctx /\ ctx' = TRUE
  /\ UNCHANGED <<user, server, request, phase, gone, open, target, udp, answers>>

\* The select at the head of the accept loop; its return closes the listener.
Check ==
  /\ server = "check"
  /\ server' = IF ctx THEN "returned" ELSE "accept"
  /\ UNCHANGED <<user, ctx, request, phase, gone, open, target, udp, answers>>

\* Accept returns a connection and its goroutine starts.
Accept(c) ==
  /\ server = "accept" /\ phase[c] = "queued"
  /\ server' = "check"
  /\ phase' = [phase EXCEPT ![c] = "peek"] /\ open' = open \cup {c}
  /\ UNCHANGED <<user, ctx, request, gone, target, udp, answers>>

\* Accept returns an error, and the loop goes on.
AcceptFails ==
  /\ server = "accept" /\ server' = "check"
  /\ UNCHANGED <<user, ctx, request, phase, gone, open, target, udp, answers>>

-----------------------------------------------------------------------------
Goto(c, p) == phase' = [phase EXCEPT ![c] = p] /\ UNCHANGED <<open, target, udp>>

CloseIt(x) == IF x = "open" THEN "closed" ELSE x

\* The goroutine ends: its deferred calls, and those of the handlers, close the
\* connection and the target.
Leave(c) ==
  /\ phase' = [phase EXCEPT ![c] = "end"] /\ open' = open \ {c}
  /\ target' = [target EXCEPT ![c] = CloseIt(@)]
  /\ UNCHANGED udp

\* An answer is written; the write may fail once the client has gone.
Answer(c, a, success) ==
  \/ /\ answers' = [answers EXCEPT ![c] = Append(@, a)]
     /\ success
  \/ /\ c \in gone /\ Leave(c)
     /\ UNCHANGED answers

Silent(c, outcome) == outcome /\ UNCHANGED answers

Others == UNCHANGED <<user, ctx, server, request, gone>>

\* handleConnection: the first byte selects the server.
Peek(c) ==
  /\ phase[c] = "peek"
  /\ \/ Silent(c, Goto(c, IF request[c].proto = "socks5" THEN "version" ELSE "request"))
     \/ c \in gone /\ Silent(c, Leave(c))
  /\ Others

\* A step of the server of protocol p in phase ph; a client that has gone ends
\* what reads from it.
Reading(c, p, ph, step) ==
  /\ request[c].proto = p /\ phase[c] = ph
  /\ (c \in gone /\ Silent(c, Leave(c))) \/ step
  /\ Others

Doing(c, p, ph, step) == request[c].proto = p /\ phase[c] = ph /\ step /\ Others

\* SOCKS5: the methods are read and one is chosen.
Methods(c) ==
  Reading(c, "socks5", "version",
    IF request[c].auth THEN Answer(c, "noAuth", Goto(c, "request")) ELSE Answer(c, "noAcceptable", Leave(c)))

\* The rest of a SOCKS5 request.  An address that is cut gets no answer.
ReadSocks5(c) ==
  Reading(c, "socks5", "request",
    CASE request[c].addr = "ok"      -> Silent(c, Goto(c, "command"))
      [] request[c].addr = "unknown" -> Answer(c, "fail", Leave(c))
      [] request[c].addr = "cut"     -> Silent(c, Leave(c)))

ReadSocks4(c) ==
  Reading(c, "socks4", "request",
    IF request[c].addr = "ok" THEN Silent(c, Goto(c, "command")) ELSE Answer(c, "fail", Leave(c)))

ReadHTTP(c) ==
  Reading(c, "http", "request",
    Silent(c, IF request[c].addr = "ok" THEN Goto(c, "command") ELSE Leave(c)))

\* Fault: the server answers before it dials.
AnswerFirst(c) == TRUE

\* A user handler is called after the answer, and dials.
AnsweredFirst(c) == user

Connect(c) == IF AnsweredFirst(c) THEN Answer(c, "ok", Goto(c, "dial")) ELSE Silent(c, Goto(c, "dial"))

\* handle of each SOCKS server, and handleHTTP.
HandleSocks5(c) ==
  Doing(c, "socks5", "command",
    CASE request[c].cmd = "connect"   -> Connect(c)
      [] request[c].cmd = "associate" -> Silent(c, Goto(c, "dial"))
      [] request[c].cmd = "other"     -> Answer(c, "fail", Leave(c)))

HandleSocks4(c) ==
  Doing(c, "socks4", "command",
    IF request[c].cmd = "connect" THEN Connect(c) ELSE Answer(c, "fail", Leave(c)))

HandleHTTP(c) ==
  Doing(c, "http", "command",
    IF request[c].cmd = "connect" THEN Connect(c) ELSE Silent(c, Goto(c, "dial")))

\* The target is dialled, by the user handler or by the server, which reports
\* a failure.
DialTarget(c) ==
  \/ /\ target' = [target EXCEPT ![c] = "open"]
     /\ phase' = [phase EXCEPT ![c] = IF user THEN "relay" ELSE "answer"]
     /\ UNCHANGED <<open, udp, answers>>
  \/ IF user THEN Silent(c, Leave(c)) ELSE Answer(c, "fail", Leave(c))

\* handleAssociate: ListenPacket, whose failure is answered, and
\* PacketForwardAddress, whose failure is not and leaves the socket open.
Listen(c) ==
  \/ Answer(c, "fail", Leave(c))
  \/ /\ udp' = [udp EXCEPT ![c] = "open"]
     /\ \/ phase' = [phase EXCEPT ![c] = "answer"] /\ UNCHANGED open
        \/ phase' = [phase EXCEPT ![c] = "end"] /\ open' = open \ {c}
     /\ UNCHANGED <<target, answers>>

DialSocks5(c) == Doing(c, "socks5", "dial", IF request[c].cmd = "associate" THEN Listen(c) ELSE DialTarget(c))
DialSocks4(c) == Doing(c, "socks4", "dial", DialTarget(c))
DialHTTP(c) == Doing(c, "http", "dial", DialTarget(c))

\* The success reply after the dial, of an association and of a CONNECT the
\* server carries out itself.
AnswerSocks5(c) ==
  Doing(c, "socks5", "answer",
    \/ Answer(c, "ok", Goto(c, "relay"))
    \/ request[c].cmd = "connect" /\ Silent(c, Leave(c)))   \* a local address that is not TCP
AnswerSocks4(c) == Doing(c, "socks4", "answer", Answer(c, "ok", Goto(c, "relay")))

\* A plain HTTP request is written to the target instead.
AnswerHTTP(c) ==
  Doing(c, "http", "answer",
    IF request[c].cmd = "connect" THEN Answer(c, "ok", Goto(c, "relay"))
    ELSE Silent(c, Goto(c, "relay")) \/ Silent(c, Leave(c)))

\* The relay ends: Tunnel, embedHandleAssociate or the user handler returns.
\* The user handler leaves the socket of an association open when its own dial
\* fails.
Relay(c) ==
  /\ phase[c] = "relay"
  /\ phase' = [phase EXCEPT ![c] = "end"] /\ open' = open \ {c}
  /\ target' = [target EXCEPT ![c] = CloseIt(@)]
  /\ \/ udp' = [udp EXCEPT ![c] = CloseIt(@)]
     \/ user /\ request[c].cmd = "associate" /\ UNCHANGED udp
  /\ UNCHANGED answers /\ Others

Serve(c) ==
  \/ Peek(c) \/ Methods(c) \/ ReadSocks5(c) \/ ReadSocks4(c) \/ ReadHTTP(c)
  \/ HandleSocks5(c) \/ HandleSocks4(c) \/ HandleHTTP(c)
  \/ DialSocks5(c) \/ DialSocks4(c) \/ DialHTTP(c)
  \/ AnswerSocks5(c) \/ AnswerSocks4(c) \/ AnswerHTTP(c)

Next == Cancel \/ Check \/ AcceptFails \/ \E c \in Conns : Client(c) \/ Accept(c) \/ Serve(c) \/ Relay(c)

Spec == Init /\ [][Next]_vars

-----------------------------------------------------------------------------
Count(c, as) == Cardinality({i \in 1..Len(answers[c]) : answers[c][i] \in as})

\* A client gets at most one reply to its request.  Success means that the target
\* was dialled, or a UDP socket bound, or, when a user handler dials after the
\* reply, that it is about to: a client that was told of success for a target that
\* cannot be dialled finds its connection closed.
SuccessMeansConnected ==
  \A c \in Conns :
    /\ Count(c, {"ok", "fail"}) <= 1
    /\ Count(c, {"ok"}) > 0 =>
         \/ target[c] # "none" \/ udp[c] # "none"
         \/ user /\ (phase[c] = "dial" \/ c \notin open)

===============================================================================
