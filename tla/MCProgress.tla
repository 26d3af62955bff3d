------------------------------ MODULE MCProgress ------------------------------
(***************************************************************************)
(* The device with two callers, one peer and a routine of its own; next to *)
(* it the cookies of a responder under load, the start modes of the        *)
(* application, the identity at the service, and the scan for endpoints    *)
(* with its generator of addresses.  They share no state here, so a        *)
(* behaviour runs one of them, which the initial state chooses, and the    *)
(* others stay where they start, or where nothing is left to do.           *)
(***************************************************************************)
EXTENDS Device, Integers

\* Batches with fewer addresses than the queue has room for, and with more.
ScanBatches == {<<"a", "b">>, <<"a", "b", "c", "d", "e">>}

\* Ranges of eight, two and one address, and one of another family.
ScanPrefixes == <<[family |-> 4, addr |-> 8, bits |-> 2],
                  [family |-> 4, addr |-> 4, bits |-> 4],
                  [family |-> 6, addr |-> 24, bits |-> 2],
                  [family |-> 4, addr |-> 17, bits |-> 5]>>

\* The component that runs in this behaviour; the others keep their initial state.
VARIABLE component

\* app/app.go
VARIABLES opts, plan, appPc, trick, devs, tnet, forwarder, proxy
appVars == <<opts, plan, appPc, trick, devs, tnet, forwarder, proxy>>

\* warp/account.go
VARIABLES identPc, asked, i, fresh, file, server, faults, starts, unsure
identVars == <<identPc, asked, i, fresh, file, server, faults, starts, unsure>>

\* ipscanner and wiresocks/scanner.go
VARIABLES ctxDone, engine, scanBatch, available, queue, reserved, inIdealMode, caller,
          result
scanVars == <<ctxDone, engine, scanBatch, available, queue, reserved, inIdealMode,
              caller, result>>

\* ipscanner/internal/iterator
VARIABLES ipRanges, iterBatch, round
iterVars == <<ipRanges, iterBatch, round>>

\* device/cookie.go
VARIABLES key, secret, secretAge, pk, cookie, cookieAge, lastMAC1, address, initiation,
          reply, load, cookieWorker, accepted, issued, left
cookieVars == <<key, secret, secretAge, pk, cookie, cookieAge, lastMAC1, address,
                initiation, reply, load, cookieWorker, accepted, issued, left>>

App == INSTANCE AppModes WITH
    pc <- appPc

Ident == INSTANCE Identity WITH
    Licenses <- {"K", "L"}, MaxFaults <- 3, MaxStarts <- 3, pc <- identPc

Scan == INSTANCE Scanner WITH
    Batches <- ScanBatches, Rtts <- 1 .. 3, maxQueueSize <- 3, rttThreshold <- 2,
    batch <- scanBatch

Iter == INSTANCE Iterator WITH
    Prefixes <- ScanPrefixes, Families <- {4}, AddrBits <- 5, batch <- iterBatch

Cookies == INSTANCE Cookie WITH
    Worker <- {"w1", "w2"}, Address <- {"a1", "a2"}, Key <- {"k1", "k2"},
    CookieRefreshTime <- 0, MaxDisturbances <- 2, worker <- cookieWorker

ASSUME Cookies!CookieAssumption

components == <<vars, appVars, identVars, scanVars, iterVars, cookieVars>>

\* No handshake worker runs.
WorkersOff ==
    /\ key = "k1" /\ pk = "k1" /\ secret = 1 /\ secretAge = 0 /\ cookie = None /\ cookieAge = 0
    /\ lastMAC1 = None /\ address = "a1" /\ initiation = None /\ reply = None /\ load = FALSE
    /\ cookieWorker = [w \in {"w1", "w2"} |-> [step |-> "off", msg |-> None]]
    /\ accepted = FALSE /\ issued = {} /\ left = 0

\* The scan is over.
ScanFailed ==
    /\ ctxDone = TRUE /\ engine = "ended" /\ scanBatch = <<>> /\ available = 1 /\ queue = <<>>
    /\ reserved = <<>> /\ inIdealMode = FALSE /\ caller = "failed" /\ result = <<>>

\* The program has its identity.
IdentityLoaded ==
    /\ identPc = "done" /\ asked = "" /\ i = [id |-> 1, license |-> ""] /\ fresh = FALSE
    /\ file = i /\ server = <<"">> /\ faults = 0 /\ starts = 1 /\ unsure = {}

MCInit ==
    /\ component \in {"device", "app", "identity", "scan", "iterator", "cookie"}
    /\ Init
    /\ App!Init
    /\ component # "app" => opts = CHOOSE o \in App!Options : TRUE
    /\ IF component = "identity" THEN Ident!Init ELSE IdentityLoaded
    /\ IF component = "scan" THEN Scan!Init ELSE ScanFailed
    /\ IF component = "iterator" THEN Iter!Init ELSE ipRanges = <<>> /\ iterBatch = <<>> /\ round = <<>>
    /\ IF component = "cookie" THEN Cookies!Init ELSE WorkersOff

MCNext ==
    /\ UNCHANGED component
    /\ \/ component = "device" /\ Next
          /\ UNCHANGED <<appVars, identVars, scanVars, iterVars, cookieVars>>
       \/ component = "app" /\ App!Next
          /\ UNCHANGED <<vars, identVars, scanVars, iterVars, cookieVars>>
       \/ component = "identity" /\ Ident!Next
          /\ UNCHANGED <<vars, appVars, scanVars, iterVars, cookieVars>>
       \/ component = "scan" /\ Scan!Next
          /\ UNCHANGED <<vars, appVars, identVars, iterVars, cookieVars>>
       \/ component = "iterator" /\ Iter!Next
          /\ UNCHANGED <<vars, appVars, identVars, scanVars, cookieVars>>
       \/ component = "cookie" /\ Cookies!Next
          /\ UNCHANGED <<vars, appVars, identVars, scanVars, iterVars>>

MCSpec ==
    /\ MCInit /\ [][MCNext]_<<components, component>>
    /\ Fairness /\ Scan!Fairness /\ Cookies!Fairness

------------------------------------------------------------------------------
\* When RunWarp returns without an error on the userspace stack, its proxy
\* dials through a device that is up and has passed the connection test,
\* whatever the earlier attempts have left behind; a second tunnel runs in a
\* first one for which the same holds. (AppModes.)
ServesThroughTested == App!ServesThroughTested

\* A returned identity has the license the user asked for at the service, not
\* only on disk, unless an earlier update of the account was cut off before its
\* answer was saved. (Identity.)
LicenseInForce == Ident!LicenseInForce

\* RunScan returns, and the engine's goroutine ends as well. (Scanner.)
ScanEnds == Scan!ScanEnds

\* NextBatch returns every address of a range once before it returns one of
\* them again: as many different addresses as the index says, all of the
\* range's prefix; only a range of two may repeat its second one. (Iterator.)
NoRepeatInRound == Iter!NoRepeatInRound

\* Under load an initiation goes through only with a cookie that was given to
\* its own address, under the present key and a secret that has not expired
\* since. (Cookie.)
CookieProvesAddress == [][component = "cookie" => Cookies!OnlyWithCookie]_cookieVars

\* An initiator that keeps trying is let in at last, although the load goes on,
\* cookies and secrets expire, two workers refresh the secret at once, messages
\* are lost or come twice, and addresses and keys change. (Cookie.)
LetInAtLast == component = "cookie" => Cookies!LetInAtLast

==============================================================================
