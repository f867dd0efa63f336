------------------------------- MODULE SignIn -------------------------------
(***************************************************************************)
(* Signing in to the account (cloud.py) with the session the last run left *)
(* in sessions.json (cache.py).                                            *)
(*                                                                         *)
(* Procs are processes that share one state directory: the proxy, which a  *)
(* supervisor starts again whenever it exits, and a nooie-proxy            *)
(* --list-devices beside it.  A step is what a process does between two    *)
(* points where another one may act: each reading of sessions.json, each   *)
(* os.replace, each request.  Writing the temporary file shows to nobody   *)
(* and is part of the replacement.                                         *)
(*                                                                         *)
(* A session is the number of the login that issued it, NoSession when     *)
(* there is none.  The account may drop a session at any time, a request   *)
(* may fail for reasons of its own, a process may be killed: mishaps, of   *)
(* which there are at most MaxMishaps.  Credentials are configured.        *)
(***************************************************************************)
EXTENDS Naturals, FiniteSets

CONSTANTS
    Procs,       \* the processes sharing a state directory
    proxy,       \* the one of them that a supervisor keeps running
    MaxMishaps   \* bound on what goes wrong outside the program

ASSUME MaxMishapsAssumption == MaxMishaps \in Nat
ASSUME ProcsAssumption == IsFiniteSet(Procs) /\ proxy \in Procs

VARIABLES
    pc,        \* where each process is
    reusing,   \* signed_in: a stored session was there when it looked
    fresh,     \* signed_in is past its except clause
    config,    \* the session in Config.api_token, NoSession before there is one
    signins,   \* the logins of this run
    file,      \* the session in sessions.json
    valid,     \* the sessions the account accepts
    logins,    \* the logins the account has counted
    mishaps    \* what has gone wrong so far

run     == <<reusing, fresh, config, signins>>
account == <<valid, logins>>
vars    == <<pc, run, file, account, mishaps>>

NoSession == 0

Labels == {"down", "look", "auth", "login", "register", "save", "list",
           "forget", "up"}

\* Every variable has its type, and no session is known, stored or accepted
\* that a login did not issue.
TypeOK ==
    /\ pc \in [Procs -> Labels]
    /\ reusing \in [Procs -> BOOLEAN]
    /\ fresh \in [Procs -> BOOLEAN]
    /\ config \in [Procs -> 0..logins]
    /\ signins \in [Procs -> Nat]
    /\ file \in 0..logins
    /\ valid \in SUBSET (1..logins)
    /\ logins \in Nat
    /\ mishaps \in 0..MaxMishaps

Init ==
    /\ pc = [p \in Procs |-> "down"]
    /\ reusing = [p \in Procs |-> FALSE]
    /\ fresh = [p \in Procs |-> FALSE]
    /\ config = [p \in Procs |-> NoSession]
    /\ signins = [p \in Procs |-> 0]
    /\ file = NoSession
    /\ valid = {}
    /\ logins = 0
    /\ mishaps = 0

-----------------------------------------------------------------------------
(***************************************************************************)
(* What the steps are made of.                                             *)
(***************************************************************************)

Goto(p, label) == pc' = [pc EXCEPT ![p] = label]

\* Something goes wrong outside the program.
Mishap == mishaps < MaxMishaps /\ mishaps' = mishaps + 1

\* Mutant: whoever held a session signs in again, however often it fails.
RefusedEveryTime(p) == Goto(p, IF reusing[p] THEN "forget" ELSE "down")

\* Mutant: a refused session is kept.
RefusedKeepsSession(p) == Goto(p, "down")

\* A RuntimeError: caught once, if a session was stored; then it is the end.
Refused(p) == Goto(p, IF reusing[p] /\ ~fresh[p] THEN "forget" ELSE "down")

\* A request that is not answered well: request raises RuntimeError for any
\* status but 200 and any code but 1000; whatever else is raised is the end.
Fails(p) == Mishap /\ (Refused(p) \/ Goto(p, "down"))

-----------------------------------------------------------------------------
(***************************************************************************)
(* One process.                                                            *)
(***************************************************************************)

\* The supervisor, or the user, starts it.
Start(p) ==
    /\ pc[p] = "down"
    /\ Goto(p, "look")
    /\ config' = [config EXCEPT ![p] = NoSession]
    /\ fresh' = [fresh EXCEPT ![p] = FALSE]
    /\ signins' = [signins EXCEPT ![p] = 0]
    /\ UNCHANGED <<reusing, file, account, mishaps>>

\* reusing = stored() is not None
Look(p) ==
    /\ pc[p] = "look"
    /\ reusing' = [reusing EXCEPT ![p] = file # NoSession]
    /\ Goto(p, "auth")
    /\ UNCHANGED <<fresh, config, signins, file, account, mishaps>>

\* Mutant: every run signs in.
AuthenticateAfresh(p) ==
    /\ pc[p] = "auth"
    /\ Goto(p, "login")
    /\ UNCHANGED <<run, file, account, mishaps>>

\* authenticate reads the file again: it may have changed in between.
Authenticate(p) ==
    /\ pc[p] = "auth"
    /\ IF file # NoSession
       THEN Goto(p, "list") /\ config' = [config EXCEPT ![p] = file]
       ELSE Goto(p, "login") /\ UNCHANGED config
    /\ UNCHANGED <<reusing, fresh, signins, file, account, mishaps>>

\* Mutant: a session is kept although the login failed.
LoginKeepsFailed(p) ==
    /\ pc[p] = "login"
    /\ signins' = [signins EXCEPT ![p] = @ + 1]
    /\ config' = [config EXCEPT ![p] = logins + 1]
    /\ \/ /\ logins' = logins + 1
          /\ valid' = valid \cup {logins + 1}
          /\ Goto(p, "register")
          /\ UNCHANGED mishaps
       \/ Fails(p) /\ UNCHANGED <<valid, logins>>
    /\ UNCHANGED <<reusing, fresh, file>>

\* The account counts a login even if the answer never arrives.
Login(p) ==
    /\ pc[p] = "login"
    /\ signins' = [signins EXCEPT ![p] = @ + 1]
    /\ \/ /\ logins' = logins + 1
          /\ valid' = valid \cup {logins + 1}
          /\ config' = [config EXCEPT ![p] = logins + 1]
          /\ Goto(p, "register")
          /\ UNCHANGED mishaps
       \/ /\ Fails(p)
          /\ logins' \in {logins, logins + 1}
          /\ UNCHANGED <<valid, config>>
    /\ UNCHANGED <<reusing, fresh, file>>

\* The client registration; only then is the session worth keeping.
Register(p) ==
    /\ pc[p] = "register"
    /\ \/ config[p] \in valid /\ Goto(p, "save") /\ UNCHANGED mishaps
       \/ config[p] \notin valid /\ Refused(p) /\ UNCHANGED mishaps
       \/ Fails(p)
    /\ UNCHANGED <<run, file, account>>

\* cache.save
Save(p) ==
    /\ pc[p] = "save"
    /\ file' = config[p]
    /\ Goto(p, "list")
    /\ UNCHANGED <<run, account, mishaps>>

\* The camera list proves the session.
ListDevices(p) ==
    /\ pc[p] = "list"
    /\ \/ config[p] \in valid /\ Goto(p, "up") /\ UNCHANGED mishaps
       \/ config[p] \notin valid /\ Refused(p) /\ UNCHANGED mishaps
       \/ Fails(p)
    /\ UNCHANGED <<run, file, account>>

\* The except clause: cache.forget, then authenticate(fresh=True).
Forget(p) ==
    /\ pc[p] = "forget"
    /\ file' = NoSession
    /\ fresh' = [fresh EXCEPT ![p] = TRUE]
    /\ Goto(p, "login")
    /\ UNCHANGED <<reusing, config, signins, account, mishaps>>

\* Signed in, until no one camera matches, the websocket or the session
\* request is refused, or the call ends: none of it touches the file.
Leave(p) ==
    /\ pc[p] = "up"
    /\ Goto(p, "down")
    /\ UNCHANGED <<run, file, account, mishaps>>

\* Killed at any point of it.
Crash(p) ==
    /\ pc[p] # "down"
    /\ Mishap
    /\ Goto(p, "down")
    /\ UNCHANGED <<run, file, account>>

\* Nooie does not say when a session expires.
Expire ==
    /\ Mishap
    /\ \E s \in valid : valid' = valid \ {s}
    /\ UNCHANGED <<pc, run, file, logins>>

SignedIn(p) ==
    \/ Look(p) \/ Authenticate(p) \/ Login(p) \/ Register(p) \/ Save(p)
    \/ ListDevices(p) \/ Forget(p)

Next ==
    \/ \E p \in Procs : Start(p) \/ SignedIn(p) \/ Leave(p) \/ Crash(p)
    \/ Expire

Spec == Init /\ [][Next]_vars

\* The supervisor starts the proxy again whenever it has exited, every request
\* of it has a timeout and every other step is local.  That a call ends is not
\* assumed, nor that anybody lists devices, or ever finishes doing so.
FairSpec == Spec /\ WF_vars(Start(proxy)) /\ WF_vars(SignedIn(proxy))

-----------------------------------------------------------------------------
(***************************************************************************)
(* Properties.                                                             *)
(***************************************************************************)

\* No login loop: however often the processes are started, each pays for its
\* first login, and a mishap costs each of them one more, and one for each two
\* of them, because what one forgets may be what the other has just stored.
\* With the proxy alone that is one login and one for each mishap.
LoginsAccounted ==
    LET n == Cardinality(Procs)
    IN  logins <= n + mishaps * ((n * (n + 1)) \div 2)

\* A run that is refused does not go on signing in: it signs in once more after
\* what it held was refused, and that is a second time only if another process
\* had forgotten the stored session between its two looks at the file.
RunSignsInTwice == \A p \in Procs : signins[p] <= 2

\* An expired, refused or lost session never locks the proxy out: once the
\* mishaps are over the proxy itself is signed in, again and again or for good,
\* whatever the processes beside it store and forget.
Recovers == []<>(pc[proxy] = "up")

=============================================================================
