------------------------------ MODULE Identity ------------------------------
(***************************************************************************)
(* The Warp identity on disk and at the registration service: warp/        *)
(* account.go, and of warp/api.go the three requests it makes.  The        *)
(* program is started again and again, each time with a license of the     *)
(* user's choice ("" for none), may crash anywhere, and its requests and   *)
(* writes may fail.  A request can fail before it reaches the service and  *)
(* after it has taken effect there (a lost or unreadable answer).          *)
(*                                                                         *)
(* An identity is the account it was registered as and the license its     *)
(* Account field holds; accounts are numbered in the order of              *)
(* registration.  Faults counts crashes and failures, up to MaxFaults.     *)
(***************************************************************************)
EXTENDS Integers, FiniteSets, Sequences

CONSTANTS
  Licenses,     \* the license keys a user may ask for, "" excluded
  MaxFaults,    \* bound on crashes and failures
  MaxStarts     \* bound on starts with a changed license

VARIABLES
  pc,       \* where LoadOrCreateIdentity is, "idle" before a start
  asked,    \* the license of this start
  i,        \* the Identity variable of the code
  fresh,    \* CreateIdentity is under way
  file,     \* the identity on disk, NoIdent without a file, Torn for half of one
  server,   \* the licenses of the registered accounts
  faults, starts,
  unsure    \* accounts whose last update was not followed by a saved answer (history)

vars == <<pc, asked, i, fresh, file, server, faults, starts, unsure>>

NoIdent == [id |-> 0, license |-> ""]
Torn == [id |-> -1, license |-> ""]
Whole(f) == f.id > 0

Init ==
  /\ pc = "idle" /\ asked = "" /\ i = NoIdent /\ fresh = FALSE
  /\ file = NoIdent /\ server = <<>>
  /\ faults = 0 /\ starts = 0 /\ unsure = {}

\* RunWarp calls LoadOrCreateIdentity.  A start with the license of the last
\* one is a retry.
Start(license) ==
  /\ pc \in {"idle", "done", "error"}
  /\ starts < MaxStarts \/ license = asked
  /\ starts' = IF license = asked THEN starts ELSE starts + 1
  /\ pc' = "load" /\ asked' = license /\ i' = NoIdent /\ fresh' = FALSE
  /\ UNCHANGED <<file, server, faults, unsure>>

\* LoadIdentity: an empty or torn file does not unmarshal.
LoadIdentity(f) == IF Whole(f) THEN f ELSE NoIdent

Load ==
  /\ pc = "load"
  /\ i' = LoadIdentity(file)
  /\ pc' = IF i' = NoIdent THEN "remove" ELSE "compare"
  /\ UNCHANGED <<asked, fresh, file, server, faults, starts, unsure>>

\* RemoveAll and MkdirAll.
Remove ==
  /\ pc = "remove"
  /\ file' = NoIdent
  /\ pc' = "register" /\ fresh' = TRUE
  /\ UNCHANGED <<asked, i, server, faults, starts, unsure>>

\* Register answers with the new account, and CreateIdentity goes on with the
\* license.
Register ==
  /\ pc = "register"
  /\ server' = Append(server, "")
  /\ i' = [id |-> Len(server'), license |-> ""]
  /\ pc' = IF asked = "" THEN "create" ELSE "update"
  /\ UNCHANGED <<asked, fresh, file, faults, starts, unsure>>

UpdateAccount ==
  /\ pc = "update"
  /\ server' = [server EXCEPT ![i.id] = asked]
  /\ unsure' = unsure \cup {i.id}
  /\ pc' = "get"
  /\ UNCHANGED <<asked, i, fresh, file, faults, starts>>

GetAccount ==
  /\ pc = "get"
  /\ i' = [i EXCEPT !.license = server[i.id]]
  /\ pc' = "create"
  /\ UNCHANGED <<asked, fresh, file, server, faults, starts, unsure>>

\* saveIdentity: os.Create truncates, Encode writes the identity.
Create ==
  /\ pc = "create"
  /\ file' = Torn
  /\ pc' = "encode"
  /\ UNCHANGED <<asked, i, fresh, server, faults, starts, unsure>>

\* After a save CreateIdentity's caller compares the licenses as well.
Encode ==
  /\ pc = "encode"
  /\ file' = i
  /\ unsure' = unsure \ {i.id}
  /\ pc' = IF fresh THEN "compare" ELSE "done"
  /\ fresh' = FALSE
  /\ UNCHANGED <<asked, i, server, faults, starts>>

\* Fault: an update is made only for an identity that has no license.
CompareEmpty ==
  /\ pc = "compare"
  /\ pc' = IF asked # "" /\ i.license = "" THEN "update" ELSE "done"
  /\ UNCHANGED <<asked, i, fresh, file, server, faults, starts, unsure>>

\* The license of the identity is compared with the one asked for.
Compare ==
  /\ pc = "compare"
  /\ pc' = IF asked # "" /\ i.license # asked THEN "update" ELSE "done"
  /\ UNCHANGED <<asked, i, fresh, file, server, faults, starts, unsure>>

\* A request or a write fails and the call returns the error; a request may
\* have taken effect.
Fail ==
  /\ faults < MaxFaults
  /\ pc \in {"remove", "register", "update", "get", "create", "encode"}
  /\ faults' = faults + 1
  /\ pc' = "error"
  /\ \/ UNCHANGED <<server, unsure>>
     \/ pc = "register" /\ server' = Append(server, "") /\ UNCHANGED unsure
     \/ pc = "update" /\ server' = [server EXCEPT ![i.id] = asked] /\ unsure' = unsure \cup {i.id}
  /\ UNCHANGED <<asked, i, fresh, file, starts>>

\* The process dies; what was written stays.
Crash ==
  /\ faults < MaxFaults
  /\ pc \notin {"idle", "done", "error"}
  /\ faults' = faults + 1
  /\ pc' = "idle" /\ i' = NoIdent /\ fresh' = FALSE
  /\ UNCHANGED <<asked, file, server, starts, unsure>>

Step == Load \/ Remove \/ Register \/ UpdateAccount \/ GetAccount \/ Create \/ Encode \/ Compare

Next == Step \/ (\E l \in Licenses \cup {""} : Start(l)) \/ Fail \/ Crash

Spec == Init /\ [][Next]_vars

-----------------------------------------------------------------------------
\* A returned identity has the license the user asked for at the service, not
\* only on disk, unless an earlier update of the account was cut off before
\* its answer was saved.
LicenseInForce ==
  (pc = "done" /\ asked # "") =>
     i.license = asked /\ (server[i.id] = asked \/ i.id \in unsure)

=============================================================================
