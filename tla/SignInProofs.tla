---------------------------- MODULE SignInProofs ----------------------------
(***************************************************************************)
(* What SignIn says of its types, of one run and of the logins of all, for *)
(* any number of processes that share a state directory and any number of  *)
(* mishaps.                                                                *)
(***************************************************************************)
EXTENDS SignIn, FiniteSetTheorems, TLAPS

\* The logins a run may have behind it: none until it has looked at the file,
\* one until something was refused, and a second only past the except clause,
\* which it goes through once.
Tally(p) ==
    /\ pc[p] \in {"look", "auth"} => signins[p] = 0 /\ ~fresh[p]
    /\ pc[p] = "login" => signins[p] = 0 \/ (fresh[p] /\ signins[p] <= 1)
    /\ pc[p] \in {"register", "save", "list"} => fresh[p] \/ signins[p] <= 1
    /\ pc[p] = "forget" => ~fresh[p] /\ signins[p] <= 1
    /\ signins[p] <= 2

Inv == TypeOK /\ \A p \in Procs : Tally(p)

-----------------------------------------------------------------------------
\* A process that does not act and keeps its place keeps its tally.
LEMMA OthersStay ==
    ASSUME Inv, NEW p \in Procs,
           pc' \in [Procs -> Labels], fresh' \in [Procs -> BOOLEAN],
           signins' \in [Procs -> Nat],
           \A q \in Procs \ {p} : /\ pc'[q] = pc[q] /\ fresh'[q] = fresh[q]
                                  /\ signins'[q] = signins[q],
           Tally(p)'
    PROVE  \A q \in Procs : Tally(q)'
BY DEF Inv, Tally

\* Going to a label changes the place of the one process.
LEMMA GotoFacts ==
    ASSUME Inv, NEW p \in Procs, NEW label \in Labels, Goto(p, label)
    PROVE  /\ pc' \in [Procs -> Labels]
           /\ pc'[p] = label
           /\ \A q \in Procs \ {p} : pc'[q] = pc[q]
BY DEF Inv, TypeOK, Goto

\* A refusal leads to the except clause at most once.
LEMMA RefusedFacts ==
    ASSUME Inv, NEW p \in Procs, Refused(p) \/ Goto(p, "down")
    PROVE  /\ pc' \in [Procs -> Labels]
           /\ pc'[p] = "down" \/ (pc'[p] = "forget" /\ ~fresh[p])
           /\ \A q \in Procs \ {p} : pc'[q] = pc[q]
BY GotoFacts DEF Refused, Labels

-----------------------------------------------------------------------------
LEMMA InitInv == Init => Inv
<1> SUFFICES ASSUME Init PROVE Inv
    OBVIOUS
<1>1. /\ pc \in [Procs -> Labels] /\ reusing \in [Procs -> BOOLEAN]
      /\ fresh \in [Procs -> BOOLEAN] /\ signins \in [Procs -> Nat]
    BY DEF Init, Labels
<1>2. /\ logins \in Nat /\ file \in 0..logins
      /\ config \in [Procs -> 0..logins]
    BY DEF Init, NoSession
<1>3. valid \in SUBSET (1..logins) /\ mishaps \in 0..MaxMishaps
    BY MaxMishapsAssumption DEF Init
<1>4. \A p \in Procs : pc[p] = "down" /\ signins[p] = 0
    BY DEF Init
<1>5. \A p \in Procs : Tally(p)
    BY <1>4 DEF Tally
<1> QED
    BY <1>1, <1>2, <1>3, <1>5 DEF Inv, TypeOK

LEMMA MishapFacts ==
    ASSUME Inv, Mishap PROVE mishaps' \in 0..MaxMishaps
BY MaxMishapsAssumption DEF Inv, TypeOK, Mishap

\* Steps that settle where the run is and what it holds, but do not sign in.
LEMMA StartInv == ASSUME Inv, NEW p \in Procs, Start(p) PROVE Inv'
<1>1. /\ pc' \in [Procs -> Labels] /\ pc'[p] = "look"
      /\ \A q \in Procs \ {p} : pc'[q] = pc[q]
    BY GotoFacts DEF Start, Labels
<1>2. TypeOK'
  <2>1. UNCHANGED <<reusing, file, valid, logins, mishaps>>
      BY DEF Start, account
  <2>2. logins \in Nat /\ config' = [config EXCEPT ![p] = 0]
      BY DEF Inv, TypeOK, Start, NoSession
  <2>3. config' \in [Procs -> 0..logins]
      BY <2>2 DEF Inv, TypeOK
  <2>4. fresh' \in [Procs -> BOOLEAN] /\ signins' \in [Procs -> Nat]
      BY DEF Inv, TypeOK, Start
  <2> QED
      BY <1>1, <2>1, <2>3, <2>4 DEF Inv, TypeOK
<1>3. /\ fresh' \in [Procs -> BOOLEAN] /\ signins' \in [Procs -> Nat]
      /\ \A q \in Procs \ {p} :
             fresh'[q] = fresh[q] /\ signins'[q] = signins[q]
      /\ fresh'[p] = FALSE /\ signins'[p] = 0
    BY DEF Inv, TypeOK, Start
<1>4. Tally(p)'
    BY <1>1, <1>3 DEF Tally
<1> QED
    BY <1>1, <1>2, <1>3, <1>4, OthersStay DEF Inv

LEMMA LookInv ==
    ASSUME Inv, NEW p \in Procs, Look(p) \/ Authenticate(p) PROVE Inv'
<1>1. /\ pc' \in [Procs -> Labels]
      /\ \A q \in Procs \ {p} : pc'[q] = pc[q]
      /\ pc[p] \in {"look", "auth"} /\ pc'[p] \in {"auth", "list", "login"}
      /\ pc'[p] = "auth" => pc[p] = "look"
    BY GotoFacts DEF Look, Authenticate, Labels
<1>2. TypeOK'
    BY <1>1 DEF Inv, TypeOK, Look, Authenticate, account
<1>3. fresh' = fresh /\ signins' = signins
    BY DEF Look, Authenticate
<1>4. Tally(p)'
    BY <1>1, <1>3 DEF Inv, TypeOK, Tally
<1> QED
    BY <1>1, <1>2, <1>3, <1>4, OthersStay DEF Inv, TypeOK

LEMMA LoginInv == ASSUME Inv, NEW p \in Procs, Login(p) PROVE Inv'
<1>1. /\ pc' \in [Procs -> Labels]
      /\ \A q \in Procs \ {p} : pc'[q] = pc[q]
      /\ \/ pc'[p] \in {"register", "down"}
         \/ pc'[p] = "forget" /\ ~fresh[p]
  <2>1. CASE Goto(p, "register")
      BY <2>1, GotoFacts DEF Labels
  <2>2. CASE Fails(p)
      BY <2>2, RefusedFacts DEF Fails
  <2> QED
      BY <2>1, <2>2 DEF Login
<1>2. /\ logins' \in Nat /\ logins <= logins'
      /\ valid' \in SUBSET (1..logins')
      /\ config' \in [Procs -> 0..logins'] /\ file' \in 0..logins'
  <2>1. logins' \in {logins, logins + 1} /\ logins \in Nat
      BY DEF Inv, TypeOK, Login
  <2>2. 0..logins \subseteq 0..logins' /\ 1..logins \subseteq 1..logins'
      BY <2>1
  <2>3. file' \in 0..logins'
      BY <2>2 DEF Inv, TypeOK, Login
  <2>4. \/ valid' = valid /\ config' = config
        \/ /\ logins' = logins + 1
           /\ valid' = valid \cup {logins + 1}
           /\ config' = [config EXCEPT ![p] = logins + 1]
      BY DEF Login
  <2>5. valid' \in SUBSET (1..logins')
    <3>1. valid \subseteq 1..logins'
        BY <2>2 DEF Inv, TypeOK
    <3>2. logins' = logins + 1 => logins + 1 \in 1..logins'
        BY <2>1
    <3> QED
        BY <2>4, <3>1, <3>2
  <2>6. config' \in [Procs -> 0..logins']
    <3>1. config \in [Procs -> 0..logins']
        BY <2>2 DEF Inv, TypeOK
    <3>2. logins' = logins + 1 => logins + 1 \in 0..logins'
        BY <2>1
    <3> QED
        BY <2>4, <3>1, <3>2
  <2> QED
      BY <2>1, <2>3, <2>5, <2>6
<1>3. /\ fresh' = fresh /\ reusing' = reusing
      /\ signins' \in [Procs -> Nat] /\ signins'[p] = signins[p] + 1
      /\ \A q \in Procs \ {p} : signins'[q] = signins[q]
    BY DEF Inv, TypeOK, Login
<1>4. mishaps' \in 0..MaxMishaps
    BY MishapFacts DEF Inv, TypeOK, Login, Fails
<1>5. Tally(p)'
  <2>1. pc[p] = "login" /\ signins[p] \in Nat
      BY DEF Inv, TypeOK, Login
  <2>2. signins[p] = 0 \/ (fresh[p] /\ signins[p] <= 1)
      BY <2>1 DEF Inv, Tally
  <2> QED
      BY <1>1, <1>3, <2>1, <2>2 DEF Tally
<1> QED
    BY <1>1, <1>2, <1>3, <1>4, <1>5, OthersStay DEF Inv, TypeOK

\* The requests that follow a login, and its storing.
LEMMA ProveInv ==
    ASSUME Inv, NEW p \in Procs,
           Register(p) \/ Save(p) \/ ListDevices(p)
    PROVE  Inv'
<1>1. /\ pc' \in [Procs -> Labels]
      /\ \A q \in Procs \ {p} : pc'[q] = pc[q]
      /\ pc[p] \in {"register", "save", "list"}
      /\ \/ pc'[p] \in {"save", "list", "up", "down"}
         \/ pc'[p] = "forget" /\ ~fresh[p]
  <2>1. CASE Goto(p, "save") \/ Goto(p, "list") \/ Goto(p, "up")
      BY <2>1, GotoFacts DEF Labels, Register, Save, ListDevices
  <2>2. CASE Refused(p) \/ Goto(p, "down")
      BY <2>2, RefusedFacts DEF Register, Save, ListDevices
  <2> QED
      BY <2>1, <2>2 DEF Register, Save, ListDevices, Fails
<1>2. /\ UNCHANGED <<reusing, fresh, config, signins, valid, logins>>
      /\ file' \in {file, config[p]}
    BY DEF Register, Save, ListDevices, run, account
<1>3. mishaps' \in 0..MaxMishaps
    BY MishapFacts DEF Inv, TypeOK, Register, Save, ListDevices, Fails
<1>4. Tally(p)'
  <2>1. signins'[p] = signins[p] /\ fresh'[p] = fresh[p]
      BY <1>2
  <2>2. fresh[p] \/ signins[p] <= 1
      BY <1>1 DEF Inv, Tally
  <2>3. signins[p] <= 2
      BY DEF Inv, Tally
  <2> QED
      BY <1>1, <2>1, <2>2, <2>3 DEF Tally
<1> QED
    BY <1>1, <1>2, <1>3, <1>4, OthersStay DEF Inv, TypeOK

LEMMA ForgetInv == ASSUME Inv, NEW p \in Procs, Forget(p) PROVE Inv'
<1>1. /\ pc' \in [Procs -> Labels] /\ pc'[p] = "login"
      /\ \A q \in Procs \ {p} : pc'[q] = pc[q]
    BY GotoFacts DEF Forget, Labels
<1>2. /\ fresh' \in [Procs -> BOOLEAN] /\ fresh'[p] = TRUE
      /\ \A q \in Procs \ {p} : fresh'[q] = fresh[q]
      /\ UNCHANGED <<reusing, config, signins, valid, logins, mishaps>>
      /\ file' = NoSession
    BY DEF Inv, TypeOK, Forget, account
<1>3. TypeOK'
    BY <1>1, <1>2 DEF Inv, TypeOK, NoSession
<1>4. Tally(p)'
  <2>1. pc[p] = "forget"
      BY DEF Forget
  <2> QED
      BY <1>1, <1>2, <2>1 DEF Inv, Tally
<1> QED
    BY <1>1, <1>2, <1>3, <1>4, OthersStay DEF Inv, TypeOK

\* The end of a run.
LEMMA LeaveInv ==
    ASSUME Inv, NEW p \in Procs, Leave(p) \/ Crash(p) PROVE Inv'
<1>1. /\ pc' \in [Procs -> Labels] /\ pc'[p] = "down"
      /\ \A q \in Procs \ {p} : pc'[q] = pc[q]
    BY GotoFacts DEF Leave, Crash, Labels
<1>2. UNCHANGED <<reusing, fresh, config, signins, file, valid, logins>>
    BY DEF Leave, Crash, run, account
<1>3. mishaps' \in 0..MaxMishaps
    BY MishapFacts DEF Inv, TypeOK, Leave, Crash
<1>4. Tally(p)'
    BY <1>1, <1>2 DEF Inv, Tally
<1> QED
    BY <1>1, <1>2, <1>3, <1>4, OthersStay DEF Inv, TypeOK

LEMMA ExpireInv == ASSUME Inv, Expire PROVE Inv'
<1>1. UNCHANGED <<pc, reusing, fresh, config, signins, file, logins>>
    BY DEF Expire, run
<1>2. valid' \in SUBSET (1..logins)
    BY DEF Inv, TypeOK, Expire
<1>3. mishaps' \in 0..MaxMishaps
    BY MishapFacts DEF Expire
<1> QED
    BY <1>1, <1>2, <1>3 DEF Inv, TypeOK, Tally

LEMMA StepInv == Inv /\ [Next]_vars => Inv'
<1> SUFFICES ASSUME Inv, [Next]_vars PROVE Inv'
    OBVIOUS
<1>1. ASSUME NEW p \in Procs, Start(p) PROVE Inv'
    BY <1>1, StartInv
<1>2. ASSUME NEW p \in Procs, SignedIn(p) PROVE Inv'
    BY <1>2, LookInv, LoginInv, ProveInv, ForgetInv DEF SignedIn
<1>3. ASSUME NEW p \in Procs, Leave(p) \/ Crash(p) PROVE Inv'
    BY <1>3, LeaveInv
<1>4. CASE Expire
    BY <1>4, ExpireInv
<1>5. CASE UNCHANGED vars
    BY <1>5 DEF Inv, TypeOK, Tally, vars, run, account
<1> QED
    BY <1>1, <1>2, <1>3, <1>4, <1>5 DEF Next

\* Inv holds in every state of every behaviour.
LEMMA Invariance == Spec => []Inv
BY InitInv, StepInv, PTL DEF Spec

\* The variables of SignIn keep their types: no process holds, and no file
\* stores, a session that no login issued.
THEOREM SignInTypes == Spec => []TypeOK
BY Invariance, PTL DEF Inv

\* cloud.signed_in: no run signs in more than twice, whatever the other
\* processes do to sessions.json meanwhile.
THEOREM SignsInTwice == Spec => []RunSignsInTwice
<1>1. Inv => RunSignsInTwice
    BY DEF Inv, Tally, RunSignsInTwice
<1> QED
    BY <1>1, Invariance, PTL

-----------------------------------------------------------------------------
(***************************************************************************)
(* The logins of all processes together.  Each step is charged with the    *)
(* logins it makes possible before the next mishap: a process that may     *)
(* sign in owes one; k processes that will forget the file owe Cost(k),    *)
(* because after each forgetting all but those still to forget may sign    *)
(* in; a process that will store a session which is refused already makes  *)
(* all of them forget.  Debt counts halves of a login.  No step but a      *)
(* mishap adds to it, and a mishap adds Each at most.                      *)
(***************************************************************************)

\* What a mishap can cost at most, in halves of a login, and what k processes
\* that are about to forget the file can.
N == Cardinality(Procs)
Each == N * (N + 1)
Cost(k) == k * (2 * N - k + 1)

\* p is going to forget the file, whatever the others do.
WillForget(p) ==
    \/ pc[p] = "forget"
    \/ /\ pc[p] \in {"register", "list"}
       /\ config[p] \notin valid
       /\ reusing[p] /\ ~fresh[p]

\* p may sign in before anybody forgets the file.
MayLogIn(p) ==
    \/ pc[p] = "login"
    \/ /\ file = NoSession
       /\ \/ pc[p] \in {"down", "look", "auth", "up", "list"}
          \/ pc[p] = "register" /\ config[p] \notin valid
       /\ ~WillForget(p)

\* p is going to store a session that is not accepted any more.
WillSpoil(p) == pc[p] = "save" /\ config[p] \notin valid

Owed == {p \in Procs : MayLogIn(p)}
Forgetting == {p \in Procs : WillForget(p)}
Spoiling == {p \in Procs : WillSpoil(p)}

\* A stored session that is not accepted makes everybody forget it.
Spoiled == file # NoSession /\ file \notin valid
Forgets == IF Spoiled THEN N ELSE Cardinality(Forgetting)

Total(l, o, f, s) == 2 * l + 2 * o + Cost(f) + s * Each
Debt == Total(logins, Cardinality(Owed), Forgets, Cardinality(Spoiling))

\* A session that is not stored yet is known to its process only.
Own(p) ==
    pc[p] \in {"register", "save"} =>
        /\ config[p] # NoSession
        /\ config[p] # file
        /\ \A q \in Procs \ {p} :
              pc[q] \in {"register", "save", "list"} => config[q] # config[p]

LoginInvariant ==
    /\ Inv
    /\ \A p \in Procs : Own(p)
    /\ Debt <= 2 * N + mishaps * Each

-----------------------------------------------------------------------------
LEMMA TimesFacts ==
    ASSUME NEW a \in Nat, NEW b \in Nat, NEW w \in Nat
    PROVE  /\ a * w \in Nat
           /\ a <= b => a * w <= b * w
           /\ (a + 1) * w = a * w + w
<1>1. a * w \in Nat /\ (a + 1) * w = a * w + w
    OBVIOUS
<1>2. ASSUME a <= b PROVE a * w <= b * w
  <2>1. PICK d \in Nat : b = a + d
      <3>1. b - a \in Nat /\ b = a + (b - a)
          BY <1>2
      <3> QED
          BY <3>1
  <2>2. b * w = a * w + d * w /\ d * w \in Nat
      BY <2>1
  <2> QED
      BY <1>1, <2>2
<1> QED
    BY <1>1, <1>2

LEMMA NFacts == N \in Nat /\ Each \in Nat /\ (Procs # {} => 2 * N <= Each)
<1>1. N \in Nat
    BY ProcsAssumption, FS_CardinalityType DEF N
<1>2. Procs # {} => N >= 1
    BY ProcsAssumption, FS_EmptySet, <1>1 DEF N
<1>3. Each \in Nat /\ Each = N * N + N
    BY <1>1 DEF Each
<1>4. N >= 1 => 1 * N <= N * N
    BY <1>1, TimesFacts
<1> QED
    BY <1>1, <1>2, <1>3, <1>4

LEMMA CostFacts ==
    ASSUME NEW k \in 0..N
    PROVE  /\ Cost(k) \in 0..Each
           /\ k < N => Cost(k + 1) = Cost(k) + 2 * (N - k)
           /\ \A j \in 0..k : Cost(j) <= Cost(k)
<1>1. N \in Nat /\ Each \in Nat
    BY NFacts
<1>2. ASSUME NEW i \in 0..N, NEW j \in 0..i
      PROVE  Cost(j) \in Nat /\ Cost(j) <= Cost(i)
  <2> DEFINE d == i - j
             e == 2 * N - j - i + 1
  <2>1. d \in Nat /\ e \in Nat /\ i = j + d
      BY <1>1
  <2>2. d * e \in Nat /\ Cost(j) \in Nat /\ Cost(i) \in Nat
    <3>1. j \in Nat /\ i \in Nat
          /\ 2 * N - j + 1 \in Nat /\ 2 * N - i + 1 \in Nat
        BY <1>1
    <3> QED
        BY <2>1, <3>1, TimesFacts DEF Cost
  <2>3. Cost(i) = Cost(j) + d * e
      BY <1>1, <2>1 DEF Cost
  <2> QED
      BY <2>2, <2>3
<1>3. Cost(N) = Each
    BY <1>1 DEF Cost, Each
<1>4. Cost(k) \in 0..Each
    BY <1>1, <1>2, <1>3
<1>5. ASSUME k < N PROVE Cost(k + 1) = Cost(k) + 2 * (N - k)
    BY <1>1 DEF Cost
<1> QED
    BY <1>2, <1>4, <1>5

\* How many, when only one process changes its mind.
LEMMA OneMore ==
    ASSUME NEW S \in SUBSET Procs, NEW T \in SUBSET Procs, NEW p \in Procs,
           T \ {p} \subseteq S
    PROVE  /\ Cardinality(S) \in 0..N /\ Cardinality(T) \in 0..N
           /\ Cardinality(T) <= Cardinality(S) + 1
           /\ (p \in T => p \in S) => Cardinality(T) <= Cardinality(S)
           /\ p \in S \ T => Cardinality(T) <= Cardinality(S) - 1
<1>1. /\ IsFiniteSet(S) /\ IsFiniteSet(T)
      /\ Cardinality(S) \in 0..N /\ Cardinality(T) \in 0..N
    BY ProcsAssumption, FS_Subset, FS_CardinalityType DEF N
<1>2. /\ IsFiniteSet(S \cup {p})
      /\ Cardinality(S \cup {p}) <= Cardinality(S) + 1
  <2>1. /\ IsFiniteSet(S \cup {p})
        /\ Cardinality(S \cup {p}) =
              IF p \in S THEN Cardinality(S) ELSE Cardinality(S) + 1
      BY <1>1, FS_AddElement
  <2> QED
      BY <1>1, <2>1
<1>3. Cardinality(T) <= Cardinality(S \cup {p})
    BY <1>2, FS_Subset
<1>4. (p \in T => p \in S) => Cardinality(T) <= Cardinality(S)
    BY <1>1, FS_Subset
<1>5. ASSUME p \in S \ T PROVE Cardinality(T) <= Cardinality(S) - 1
  <2>1. /\ IsFiniteSet(S \ {p})
        /\ Cardinality(S \ {p}) = Cardinality(S) - 1
      BY <1>1, <1>5, FS_RemoveElement
  <2> QED
      BY <1>5, <2>1, FS_Subset
<1>6. Cardinality(S \cup {p}) \in Nat
    BY <1>2, FS_CardinalityType
<1> QED
    BY <1>1, <1>2, <1>3, <1>4, <1>5, <1>6

LEMMA Fewer ==
    ASSUME NEW S \in SUBSET Procs, NEW T \in SUBSET S
    PROVE  /\ Cardinality(S) \in 0..N /\ Cardinality(T) \in 0..N
           /\ Cardinality(T) <= Cardinality(S)
<1>1. IsFiniteSet(S)
    BY ProcsAssumption, FS_Subset
<1> QED
    BY <1>1, ProcsAssumption, FS_Subset, FS_CardinalityType DEF N

LEMMA Apart ==
    ASSUME NEW S \in SUBSET Procs, NEW T \in SUBSET Procs, S \cap T = {}
    PROVE  Cardinality(S) + Cardinality(T) <= N
<1>1. IsFiniteSet(S) /\ IsFiniteSet(T) /\ S \cup T \subseteq Procs
    BY ProcsAssumption, FS_Subset
<1>2. Cardinality(S \cup T) = Cardinality(S) + Cardinality(T)
  <2>1. Cardinality(S) \in Nat /\ Cardinality(T) \in Nat
      BY <1>1, FS_CardinalityType
  <2>2. Cardinality(S \cup T) =
            Cardinality(S) + Cardinality(T) - Cardinality(S \cap T)
      BY <1>1, FS_Union
  <2> QED
      BY <2>1, <2>2, FS_EmptySet
<1> QED
    BY <1>1, <1>2, ProcsAssumption, FS_Subset DEF N

-----------------------------------------------------------------------------
\* Nobody has more reason to sign in than before.
LEMMA NoMore ==
    ASSUME NEW l \in Nat, NEW o \in 0..N, NEW f \in 0..N, NEW s \in 0..N,
           NEW ll \in Nat, NEW oo \in 0..N, NEW ff \in 0..N, NEW ss \in 0..N,
           ll + oo <= l + o, ff <= f, ss <= s
    PROVE  Total(ll, oo, ff, ss) <= Total(l, o, f, s)
<1>1. Cost(ff) <= Cost(f)
    BY CostFacts
<1>2. ss * Each <= s * Each
    BY NFacts, TimesFacts
<1>3. /\ Total(l, o, f, s) = 2 * l + 2 * o + Cost(f) + s * Each
      /\ Cost(f) \in 0..Each /\ s * Each \in Nat
      /\ N \in Nat /\ Each \in Nat
  <2>1. Cost(f) \in 0..Each
      BY CostFacts
  <2>2. s * Each \in Nat /\ N \in Nat /\ Each \in Nat
      BY NFacts, TimesFacts
  <2> QED
      BY <2>1, <2>2 DEF Total
<1>4. /\ Total(ll, oo, ff, ss) = 2 * ll + 2 * oo + Cost(ff) + ss * Each
      /\ Cost(ff) \in 0..Each /\ ss * Each \in Nat
      /\ N \in Nat /\ Each \in Nat
  <2>1. Cost(ff) \in 0..Each
      BY CostFacts
  <2>2. ss * Each \in Nat /\ N \in Nat /\ Each \in Nat
      BY NFacts, TimesFacts
  <2> QED
      BY <2>1, <2>2 DEF Total
<1> QED
    BY <1>1, <1>2, <1>3, <1>4

\* What one of them was about to spoil is spoiled: all may forget it.
LEMMA SpoiltNow ==
    ASSUME NEW l \in Nat, NEW o \in 0..N, NEW f \in 0..N, NEW s \in 0..N,
           NEW ll \in Nat, NEW oo \in 0..N, NEW ff \in 0..N, NEW ss \in 0..N,
           ll + oo <= l + o, ss + 1 <= s
    PROVE  Total(ll, oo, ff, ss) <= Total(l, o, f, s)
<1>1. (ss + 1) * Each <= s * Each /\ (ss + 1) * Each = ss * Each + Each
    BY NFacts, TimesFacts
<1>2. /\ Total(l, o, f, s) = 2 * l + 2 * o + Cost(f) + s * Each
      /\ Cost(f) \in 0..Each /\ s * Each \in Nat
      /\ N \in Nat /\ Each \in Nat
  <2>1. Cost(f) \in 0..Each
      BY CostFacts
  <2>2. s * Each \in Nat /\ N \in Nat /\ Each \in Nat
      BY NFacts, TimesFacts
  <2> QED
      BY <2>1, <2>2 DEF Total
<1>3. /\ Total(ll, oo, ff, ss) = 2 * ll + 2 * oo + Cost(ff) + ss * Each
      /\ Cost(ff) \in 0..Each /\ ss * Each \in Nat
      /\ N \in Nat /\ Each \in Nat
  <2>1. Cost(ff) \in 0..Each
      BY CostFacts
  <2>2. ss * Each \in Nat /\ N \in Nat /\ Each \in Nat
      BY NFacts, TimesFacts
  <2> QED
      BY <2>1, <2>2 DEF Total
<1> QED
    BY <1>1, <1>2, <1>3

\* One forgets: all but those about to forget may sign in.
LEMMA ForgottenNow ==
    ASSUME NEW l \in Nat, NEW o \in 0..N, NEW f \in 0..N, NEW s \in 0..N,
           NEW oo \in 0..N, NEW ff \in 0..N, NEW ss \in 0..N,
           oo <= N - ff, ff + 1 <= f, ss <= s
    PROVE  Total(l, oo, ff, ss) <= Total(l, o, f, s)
<1>1. ff < N /\ Cost(ff + 1) = Cost(ff) + 2 * (N - ff)
    BY CostFacts, NFacts
<1>2. Cost(ff + 1) <= Cost(f)
    BY CostFacts
<1>3. ss * Each <= s * Each
    BY NFacts, TimesFacts
<1>4. /\ Total(l, o, f, s) = 2 * l + 2 * o + Cost(f) + s * Each
      /\ Cost(f) \in 0..Each /\ s * Each \in Nat
      /\ N \in Nat /\ Each \in Nat
  <2>1. Cost(f) \in 0..Each
      BY CostFacts
  <2>2. s * Each \in Nat /\ N \in Nat /\ Each \in Nat
      BY NFacts, TimesFacts
  <2> QED
      BY <2>1, <2>2 DEF Total
<1>5. /\ Total(l, oo, ff, ss) = 2 * l + 2 * oo + Cost(ff) + ss * Each
      /\ Cost(ff) \in 0..Each /\ ss * Each \in Nat
      /\ N \in Nat /\ Each \in Nat
  <2>1. Cost(ff) \in 0..Each
      BY CostFacts
  <2>2. ss * Each \in Nat /\ N \in Nat /\ Each \in Nat
      BY NFacts, TimesFacts
  <2> QED
      BY <2>1, <2>2 DEF Total
<1> QED
    BY <1>1, <1>2, <1>3, <1>4, <1>5

\* What one mishap can do: one more signs in, one more forgets, one more
\* spoils what is stored, or what is stored is not accepted any more.
LEMMA OneMishap ==
    ASSUME NEW l \in Nat, NEW o \in 0..N, NEW f \in 0..N, NEW s \in 0..N,
           NEW ll \in Nat, NEW oo \in 0..N, NEW ff \in 0..N, NEW ss \in 0..N,
           Procs # {},
           \/ ll + oo <= l + o + 1 /\ ff <= f /\ ss <= s
           \/ ll + oo <= l + o /\ ff <= f + 1 /\ ss <= s
           \/ ll + oo <= l + o /\ ff <= f /\ ss <= s + 1
           \/ ll + oo <= l + o /\ ss <= s
    PROVE  Total(ll, oo, ff, ss) <= Total(l, o, f, s) + Each
<1>1. /\ Total(l, o, f, s) = 2 * l + 2 * o + Cost(f) + s * Each
      /\ Cost(f) \in 0..Each /\ s * Each \in Nat
      /\ N \in Nat /\ Each \in Nat
  <2>1. Cost(f) \in 0..Each
      BY CostFacts
  <2>2. s * Each \in Nat /\ N \in Nat /\ Each \in Nat
      BY NFacts, TimesFacts
  <2> QED
      BY <2>1, <2>2 DEF Total
<1>2. /\ Total(ll, oo, ff, ss) = 2 * ll + 2 * oo + Cost(ff) + ss * Each
      /\ Cost(ff) \in 0..Each /\ ss * Each \in Nat
      /\ N \in Nat /\ Each \in Nat
  <2>1. Cost(ff) \in 0..Each
      BY CostFacts
  <2>2. ss * Each \in Nat /\ N \in Nat /\ Each \in Nat
      BY NFacts, TimesFacts
  <2> QED
      BY <2>1, <2>2 DEF Total
<1>3. N \in Nat /\ Each \in Nat /\ 2 * N <= Each /\ N # 0
    BY NFacts, ProcsAssumption, FS_EmptySet DEF N
<1>4. CASE ll + oo <= l + o + 1 /\ ff <= f /\ ss <= s
  <2>1. Cost(ff) <= Cost(f) /\ ss * Each <= s * Each
      BY <1>3, <1>4, CostFacts, TimesFacts
  <2> QED
      BY <1>1, <1>2, <1>3, <1>4, <2>1
<1>5. CASE ll + oo <= l + o /\ ff <= f + 1 /\ ss <= s
  <2>1. ss * Each <= s * Each
      BY <1>3, <1>5, TimesFacts
  <2>2. Cost(ff) <= Cost(f) + Each
    <3>1. CASE ff = f + 1
      <4>1. Cost(f + 1) = Cost(f) + 2 * (N - f)
          BY <1>3, <3>1, CostFacts
      <4> QED
          BY <1>1, <1>3, <3>1, <4>1
    <3>2. CASE ff <= f
      <4>1. Cost(ff) <= Cost(f)
          BY <3>2, CostFacts
      <4> QED
          BY <1>1, <1>2, <1>3, <4>1
    <3> QED
        BY <1>5, <3>1, <3>2, NFacts
  <2> QED
      BY <1>1, <1>2, <1>3, <1>5, <2>1, <2>2
<1>6. CASE ll + oo <= l + o /\ ff <= f /\ ss <= s + 1
  <2>1. Cost(ff) <= Cost(f)
      BY <1>6, CostFacts
  <2>2. ss * Each <= (s + 1) * Each /\ (s + 1) * Each = s * Each + Each
      BY <1>3, <1>6, TimesFacts
  <2> QED
      BY <1>1, <1>2, <1>3, <1>6, <2>1, <2>2
<1>7. CASE ll + oo <= l + o /\ ss <= s
  <2>1. ss * Each <= s * Each
      BY <1>3, <1>7, TimesFacts
  <2> QED
      BY <1>1, <1>2, <1>3, <1>7, <2>1
<1> QED
    BY <1>4, <1>5, <1>6, <1>7

-----------------------------------------------------------------------------
\* The counts before and after a step.
LEMMA Counts ==
    /\ Owed \in SUBSET Procs /\ Owed' \in SUBSET Procs
    /\ Forgetting \in SUBSET Procs /\ Forgetting' \in SUBSET Procs
    /\ Spoiling \in SUBSET Procs /\ Spoiling' \in SUBSET Procs
    /\ Cardinality(Owed) \in 0..N /\ Cardinality(Owed)' \in 0..N
    /\ Cardinality(Forgetting) \in 0..N /\ Cardinality(Forgetting)' \in 0..N
    /\ Cardinality(Spoiling) \in 0..N /\ Cardinality(Spoiling)' \in 0..N
    /\ Forgets \in 0..N /\ Forgets' \in 0..N
    /\ N \in Nat
<1>1. /\ Owed \in SUBSET Procs /\ Owed' \in SUBSET Procs
      /\ Forgetting \in SUBSET Procs /\ Forgetting' \in SUBSET Procs
      /\ Spoiling \in SUBSET Procs /\ Spoiling' \in SUBSET Procs
    BY DEF Owed, Forgetting, Spoiling
<1>2. /\ Cardinality(Owed) \in 0..N /\ Cardinality(Owed)' \in 0..N
      /\ Cardinality(Forgetting) \in 0..N /\ Cardinality(Forgetting)' \in 0..N
      /\ Cardinality(Spoiling) \in 0..N /\ Cardinality(Spoiling)' \in 0..N
    BY <1>1, Fewer
<1>3. Forgets \in 0..N /\ Forgets' \in 0..N
    BY <1>2, NFacts DEF Forgets
<1> QED
    BY <1>1, <1>2, <1>3, NFacts

\* A step of p: the others keep what they are about to do.
Alone(p) ==
    /\ Spoiled' = Spoiled
    /\ \A q \in Procs \ {p} : /\ MayLogIn(q)' => MayLogIn(q)
                              /\ WillForget(q)' => WillForget(q)
                              /\ WillSpoil(q)' => WillSpoil(q)

LEMMA AloneCounts ==
    ASSUME NEW p \in Procs, Alone(p)
    PROVE  /\ Cardinality(Owed)' <= Cardinality(Owed) + 1
           /\ (MayLogIn(p)' => MayLogIn(p))
                  => Cardinality(Owed)' <= Cardinality(Owed)
           /\ MayLogIn(p) /\ ~MayLogIn(p)'
                  => Cardinality(Owed)' <= Cardinality(Owed) - 1
           /\ Forgets' <= Forgets + 1
           /\ (WillForget(p)' => WillForget(p)) => Forgets' <= Forgets
           /\ (WillSpoil(p)' => WillSpoil(p))
                  => Cardinality(Spoiling)' <= Cardinality(Spoiling)
<1>1. /\ Owed' \ {p} \subseteq Owed
      /\ p \in Owed' <=> MayLogIn(p)'
      /\ p \in Owed <=> MayLogIn(p)
    BY DEF Owed, Alone
<1>2. /\ Forgetting' \ {p} \subseteq Forgetting
      /\ p \in Forgetting' <=> WillForget(p)'
      /\ p \in Forgetting <=> WillForget(p)
    BY DEF Forgetting, Alone
<1>3. /\ Spoiling' \ {p} \subseteq Spoiling
      /\ p \in Spoiling' <=> WillSpoil(p)'
      /\ p \in Spoiling <=> WillSpoil(p)
    BY DEF Spoiling, Alone
<1>4. /\ Cardinality(Owed)' <= Cardinality(Owed) + 1
      /\ (MayLogIn(p)' => MayLogIn(p))
             => Cardinality(Owed)' <= Cardinality(Owed)
      /\ MayLogIn(p) /\ ~MayLogIn(p)'
             => Cardinality(Owed)' <= Cardinality(Owed) - 1
    BY <1>1, Counts, OneMore
<1>5. /\ Cardinality(Forgetting)' <= Cardinality(Forgetting) + 1
      /\ (WillForget(p)' => WillForget(p))
             => Cardinality(Forgetting)' <= Cardinality(Forgetting)
    BY <1>2, Counts, OneMore
<1>6. (WillSpoil(p)' => WillSpoil(p))
          => Cardinality(Spoiling)' <= Cardinality(Spoiling)
    BY <1>3, Counts, OneMore
<1>7. Spoiled' = Spoiled
    BY DEF Alone
<1>8. Forgets' = IF Spoiled THEN N ELSE Cardinality(Forgetting)'
    BY <1>7 DEF Forgets
<1>9. Forgets = IF Spoiled THEN N ELSE Cardinality(Forgetting)
    BY DEF Forgets
<1> QED
    BY <1>4, <1>5, <1>6, <1>8, <1>9, Counts

LEMMA StepKeepsDebt ==
    ASSUME Inv, Inv', NEW p \in Procs, Alone(p),
           WillForget(p)' => WillForget(p), WillSpoil(p)' => WillSpoil(p),
           \/ logins' = logins /\ (MayLogIn(p)' => MayLogIn(p))
           \/ logins' = logins + 1 /\ MayLogIn(p) /\ ~MayLogIn(p)'
    PROVE  Debt' <= Debt
<1>1. logins \in Nat /\ logins' \in Nat
    BY DEF Inv, TypeOK
<1>2. logins' + Cardinality(Owed)' <= logins + Cardinality(Owed)
    BY <1>1, AloneCounts, Counts
<1>3. /\ Forgets' <= Forgets
      /\ Cardinality(Spoiling)' <= Cardinality(Spoiling)
    BY AloneCounts
<1> QED
    BY <1>1, <1>2, <1>3, Counts, NoMore DEF Debt

\* A mishap of p: it signs in once more, or it forgets.
LEMMA MishapAddsToDebt ==
    ASSUME Inv, Inv', NEW p \in Procs, Alone(p), WillSpoil(p)' => WillSpoil(p),
           \/ /\ logins' = logins
              /\ WillForget(p)' => WillForget(p)
           \/ /\ logins' = logins
              /\ MayLogIn(p)' => MayLogIn(p)
           \/ /\ logins' \in {logins, logins + 1}
              /\ WillForget(p)' => WillForget(p)
              /\ MayLogIn(p)' => MayLogIn(p)
           \/ /\ logins' \in {logins, logins + 1}
              /\ MayLogIn(p) /\ ~MayLogIn(p)'
    PROVE  Debt' <= Debt + Each
<1>1. logins \in Nat /\ logins' \in Nat
    BY DEF Inv, TypeOK
<1>2. \/ /\ logins' + Cardinality(Owed)' <= logins + Cardinality(Owed) + 1
         /\ Forgets' <= Forgets
      \/ /\ logins' + Cardinality(Owed)' <= logins + Cardinality(Owed)
         /\ Forgets' <= Forgets + 1
    BY <1>1, AloneCounts, Counts
<1>3. Cardinality(Spoiling)' <= Cardinality(Spoiling)
    BY AloneCounts
<1>4. Procs # {}
    OBVIOUS
<1> QED
    BY <1>1, <1>2, <1>3, <1>4, Counts, OneMishap DEF Debt

-----------------------------------------------------------------------------
\* Only p moves, and neither the file nor the account changes.
LEMMA OnlyMoves ==
    ASSUME NEW p \in Procs, file' = file, valid' = valid,
           \A q \in Procs \ {p} :
               /\ pc'[q] = pc[q] /\ config'[q] = config[q]
               /\ reusing'[q] = reusing[q] /\ fresh'[q] = fresh[q]
    PROVE  Alone(p)
BY DEF Alone, Spoiled, MayLogIn, WillForget, WillSpoil

LEMMA StartDebt ==
    ASSUME Inv, Inv', NEW p \in Procs, Start(p) PROVE Debt' <= Debt
<1>1. /\ pc[p] = "down" /\ pc'[p] = "look"
      /\ \A q \in Procs \ {p} : pc'[q] = pc[q]
    BY GotoFacts DEF Start, Labels
<1>2. /\ \A q \in Procs \ {p} : /\ config'[q] = config[q]
                                /\ reusing'[q] = reusing[q]
                                /\ fresh'[q] = fresh[q]
      /\ file' = file /\ valid' = valid /\ logins' = logins
    BY DEF Start, account, Inv, TypeOK
<1>3. /\ ~WillForget(p)' /\ ~WillSpoil(p)'
      /\ MayLogIn(p)' => MayLogIn(p)
    BY <1>1, <1>2 DEF WillForget, WillSpoil, MayLogIn
<1> QED
    BY <1>1, <1>2, <1>3, OnlyMoves, StepKeepsDebt

LEMMA LookDebt ==
    ASSUME Inv, Inv', NEW p \in Procs, Look(p) PROVE Debt' <= Debt
<1>1. /\ pc[p] = "look" /\ pc'[p] = "auth"
      /\ \A q \in Procs \ {p} : pc'[q] = pc[q]
    BY GotoFacts DEF Look, Labels
<1>2. /\ \A q \in Procs \ {p} : /\ config'[q] = config[q]
                                /\ reusing'[q] = reusing[q]
                                /\ fresh'[q] = fresh[q]
      /\ file' = file /\ valid' = valid /\ logins' = logins
    BY DEF Look, account, Inv, TypeOK
<1>3. /\ ~WillForget(p)' /\ ~WillSpoil(p)'
      /\ MayLogIn(p)' => MayLogIn(p)
    BY <1>1, <1>2 DEF WillForget, WillSpoil, MayLogIn
<1> QED
    BY <1>1, <1>2, <1>3, OnlyMoves, StepKeepsDebt

\* A stored session that is not accepted was to be forgotten by all already.
LEMMA AuthenticateDebt ==
    ASSUME Inv, Inv', NEW p \in Procs, Authenticate(p) PROVE Debt' <= Debt
<1>1. /\ pc[p] = "auth" /\ pc'[p] \in {"list", "login"}
      /\ \A q \in Procs \ {p} : pc'[q] = pc[q]
      /\ pc'[p] = "list" => file # NoSession /\ config'[p] = file
      /\ pc'[p] = "login" => file = NoSession
    BY GotoFacts DEF Authenticate, Labels, Inv, TypeOK
<1>2. /\ \A q \in Procs \ {p} : /\ config'[q] = config[q]
                                /\ reusing'[q] = reusing[q]
                                /\ fresh'[q] = fresh[q]
      /\ file' = file /\ valid' = valid /\ logins' = logins
    BY DEF Authenticate, account, Inv, TypeOK
<1>3. Alone(p) /\ ~WillSpoil(p)' /\ (MayLogIn(p)' => MayLogIn(p))
    BY <1>1, <1>2, OnlyMoves DEF WillForget, WillSpoil, MayLogIn
<1>4. CASE WillForget(p)'
  <2>1. Spoiled /\ Spoiled'
      BY <1>1, <1>2, <1>4 DEF WillForget, Spoiled
  <2>2. Forgets' <= Forgets
      BY <2>1, Counts DEF Forgets
  <2>3. logins \in Nat /\ logins' \in Nat
      BY DEF Inv, TypeOK
  <2>4. /\ Cardinality(Owed)' <= Cardinality(Owed)
        /\ Cardinality(Spoiling)' <= Cardinality(Spoiling)
      BY <1>3, AloneCounts
  <2>5. logins' + Cardinality(Owed)' <= logins + Cardinality(Owed)
      BY <1>2, <2>3, <2>4, Counts
  <2> QED
      BY <2>2, <2>3, <2>4, <2>5, Counts, NoMore DEF Debt
<1>5. CASE ~WillForget(p)'
    BY <1>2, <1>3, <1>5, StepKeepsDebt
<1> QED
    BY <1>4, <1>5

\* A login that is answered ends what p had to sign in for.
LEMMA LoginDebt ==
    ASSUME Inv, Inv', NEW p \in Procs, Login(p)
    PROVE  Debt' <= Debt \/ (Mishap /\ Debt' <= Debt + Each)
<1>1. /\ pc[p] = "login" /\ logins \in Nat
      /\ file' = file /\ reusing' = reusing /\ fresh' = fresh
    BY DEF Login, Inv, TypeOK
<1>2. MayLogIn(p)
    BY <1>1 DEF MayLogIn
<1>3. CASE /\ logins' = logins + 1
           /\ valid' = valid \cup {logins + 1}
           /\ config' = [config EXCEPT ![p] = logins + 1]
           /\ Goto(p, "register")
  <2>1. /\ pc'[p] = "register" /\ config'[p] \in valid'
        /\ \A q \in Procs \ {p} : pc'[q] = pc[q] /\ config'[q] = config[q]
      BY <1>3, GotoFacts DEF Labels, Inv, TypeOK
  <2>2. \A s \in 0..logins : s \in valid' <=> s \in valid
      BY <1>1, <1>3
  <2>3. file \in 0..logins /\ \A q \in Procs : config[q] \in 0..logins
      BY DEF Inv, TypeOK
  <2>4. Alone(p)
      BY <1>1, <2>1, <2>2, <2>3
         DEF Alone, Spoiled, MayLogIn, WillForget, WillSpoil
  <2>5. ~WillForget(p)' /\ ~WillSpoil(p)' /\ ~MayLogIn(p)'
      BY <2>1 DEF WillForget, WillSpoil, MayLogIn
  <2> QED
      BY <1>2, <1>3, <2>4, <2>5, StepKeepsDebt
<1>4. CASE /\ Fails(p)
           /\ logins' \in {logins, logins + 1}
           /\ UNCHANGED <<valid, config>>
  <2>1. /\ pc'[p] = "down" \/ pc'[p] = "forget"
        /\ \A q \in Procs \ {p} : pc'[q] = pc[q]
        /\ Mishap
      BY <1>4, RefusedFacts DEF Fails
  <2>2. Alone(p)
      BY <1>1, <1>4, <2>1, OnlyMoves
  <2>3. ~WillSpoil(p)'
      BY <2>1 DEF WillSpoil
  <2>4. CASE pc'[p] = "down"
    <3>1. ~WillForget(p)'
        BY <2>4 DEF WillForget
    <3> QED
        BY <1>2, <1>4, <2>1, <2>2, <2>3, <3>1, MishapAddsToDebt
  <2>5. CASE pc'[p] = "forget"
    <3>1. ~MayLogIn(p)'
        BY <2>5 DEF MayLogIn, WillForget
    <3> QED
        BY <1>2, <1>4, <2>1, <2>2, <2>3, <3>1, MishapAddsToDebt
  <2> QED
      BY <2>1, <2>4, <2>5
<1> QED
    BY <1>3, <1>4 DEF Login

\* A request that proves the session, or is refused.
LEMMA ProveDebt ==
    ASSUME Inv, Inv', NEW p \in Procs, Register(p) \/ ListDevices(p)
    PROVE  Debt' <= Debt \/ (Mishap /\ Debt' <= Debt + Each)
<1>1. /\ pc[p] \in {"register", "list"}
      /\ UNCHANGED <<reusing, fresh, config, file, valid, logins>>
    BY DEF Register, ListDevices, run, account
<1>2. CASE /\ config[p] \in valid
           /\ \/ pc[p] = "register" /\ Goto(p, "save")
              \/ pc[p] = "list" /\ Goto(p, "up")
  <2>1. /\ pc'[p] = IF pc[p] = "register" THEN "save" ELSE "up"
        /\ \A q \in Procs \ {p} : pc'[q] = pc[q]
      BY <1>1, <1>2, GotoFacts DEF Labels
  <2>2. ~WillForget(p)' /\ ~WillSpoil(p)' /\ (MayLogIn(p)' => MayLogIn(p))
      BY <1>1, <1>2, <2>1 DEF WillForget, WillSpoil, MayLogIn
  <2> QED
      BY <1>1, <2>1, <2>2, OnlyMoves, StepKeepsDebt
<1>3. CASE config[p] \notin valid /\ Refused(p)
  <2>1. /\ pc'[p] = IF reusing[p] /\ ~fresh[p] THEN "forget" ELSE "down"
        /\ \A q \in Procs \ {p} : pc'[q] = pc[q]
      BY <1>3, GotoFacts DEF Refused, Labels
  <2>2. /\ WillForget(p)' => WillForget(p)
        /\ ~WillSpoil(p)'
        /\ MayLogIn(p)' => MayLogIn(p)
      BY <1>1, <1>3, <2>1 DEF WillForget, WillSpoil, MayLogIn
  <2> QED
      BY <1>1, <2>1, <2>2, OnlyMoves, StepKeepsDebt
<1>4. CASE Fails(p)
  <2>1. /\ pc'[p] = "down" \/ pc'[p] = "forget"
        /\ \A q \in Procs \ {p} : pc'[q] = pc[q]
        /\ Mishap
      BY <1>4, RefusedFacts DEF Fails
  <2>2. ~WillSpoil(p)'
      BY <2>1 DEF WillSpoil
  <2>3. CASE pc'[p] = "down"
    <3>1. ~WillForget(p)'
        BY <2>3 DEF WillForget
    <3> QED
        BY <1>1, <2>1, <2>2, <3>1, OnlyMoves, MishapAddsToDebt
  <2>4. CASE pc'[p] = "forget"
    <3>1. ~MayLogIn(p)'
        BY <2>4 DEF MayLogIn, WillForget
    <3> QED
        BY <1>1, <2>1, <2>2, <3>1, OnlyMoves, MishapAddsToDebt
  <2> QED
      BY <2>1, <2>3, <2>4
<1> QED
    BY <1>2, <1>3, <1>4 DEF Register, ListDevices

\* The stored session is that of p now, and nobody else's.
LEMMA SaveDebt ==
    ASSUME Inv, Inv', NEW p \in Procs, Own(p), Save(p) PROVE Debt' <= Debt
<1>1. /\ pc[p] = "save" /\ pc'[p] = "list"
      /\ \A q \in Procs \ {p} : pc'[q] = pc[q]
    BY GotoFacts DEF Save, Labels
<1>2. /\ UNCHANGED <<reusing, fresh, config, valid, logins>>
      /\ file' = config[p] /\ file' # NoSession
    BY <1>1 DEF Save, run, account, Own
<1>3. Owed' \subseteq Owed
    BY <1>1, <1>2 DEF Owed, MayLogIn
<1>4. logins' + Cardinality(Owed)' <= logins + Cardinality(Owed)
    BY <1>2, <1>3, Counts, Fewer DEF Inv, TypeOK
<1>5. \A q \in Procs \ {p} : WillSpoil(q)' <=> WillSpoil(q)
    BY <1>1, <1>2 DEF WillSpoil
<1>6. CASE config[p] \in valid
  <2>1. Spoiling' \subseteq Spoiling
      BY <1>1, <1>2, <1>5 DEF Spoiling, WillSpoil
  <2>2. Forgetting' \subseteq Forgetting
      BY <1>1, <1>2, <1>6 DEF Forgetting, WillForget
  <2>3. ~Spoiled'
      BY <1>2, <1>6 DEF Spoiled
  <2>4. Cardinality(Forgetting)' <= Cardinality(Forgetting)
      BY <2>2, Counts, Fewer
  <2>5. Forgets' <= Forgets
      BY <2>3, <2>4, Counts DEF Forgets
  <2>6. Cardinality(Spoiling)' <= Cardinality(Spoiling)
      BY <2>1, Counts, Fewer
  <2> QED
      BY <1>2, <1>4, <2>5, <2>6, Counts, NoMore DEF Debt, Inv, TypeOK
<1>7. CASE config[p] \notin valid
  <2>1. Spoiling' \ {p} \subseteq Spoiling /\ p \in Spoiling \ Spoiling'
      BY <1>1, <1>2, <1>5, <1>7 DEF Spoiling, WillSpoil
  <2>2. Cardinality(Spoiling)' <= Cardinality(Spoiling) - 1
      BY <2>1, Counts, OneMore
  <2>3. Cardinality(Spoiling)' + 1 <= Cardinality(Spoiling)
      BY <2>2, Counts
  <2>4. logins \in Nat /\ logins' \in Nat
      BY DEF Inv, TypeOK
  <2> QED
      BY <1>4, <2>3, <2>4, Counts, SpoiltNow DEF Debt
<1> QED
    BY <1>6, <1>7

\* The others may sign in now, but for those that will forget again.
LEMMA ForgetDebt ==
    ASSUME Inv, Inv', NEW p \in Procs, Forget(p) PROVE Debt' <= Debt
<1>1. /\ pc[p] = "forget" /\ pc'[p] = "login"
      /\ \A q \in Procs \ {p} : pc'[q] = pc[q]
    BY GotoFacts DEF Forget, Labels
<1>2. /\ \A q \in Procs \ {p} : fresh'[q] = fresh[q]
      /\ UNCHANGED <<reusing, config, valid, logins>>
      /\ file' = NoSession
    BY DEF Forget, account, Inv, TypeOK
<1>3. Owed' \cap Forgetting' = {}
    BY DEF Owed, Forgetting, MayLogIn, WillForget
<1>4. Cardinality(Owed)' <= N - Cardinality(Forgetting)'
    BY <1>3, Counts, Apart
<1>5. Forgetting' \ {p} \subseteq Forgetting /\ p \in Forgetting \ Forgetting'
    BY <1>1, <1>2 DEF Forgetting, WillForget
<1>6. Cardinality(Forgetting)' + 1 <= Cardinality(Forgetting)
  <2>1. Cardinality(Forgetting)' <= Cardinality(Forgetting) - 1
      BY <1>5, Counts, OneMore
  <2> QED
      BY <2>1, Counts
<1>7. ~Spoiled'
    BY <1>2 DEF Spoiled
<1>8. Cardinality(Owed)' <= N - Forgets' /\ Forgets' + 1 <= Forgets
    BY <1>4, <1>6, <1>7, Counts DEF Forgets
<1>9. Spoiling' \subseteq Spoiling
    BY <1>1, <1>2 DEF Spoiling, WillSpoil
<1>10. Cardinality(Spoiling)' <= Cardinality(Spoiling)
    BY <1>9, Counts, Fewer
<1> QED
    BY <1>2, <1>8, <1>10, Counts, ForgottenNow DEF Debt, Inv, TypeOK

LEMMA LeaveDebt ==
    ASSUME Inv, Inv', NEW p \in Procs, Leave(p) \/ Crash(p)
    PROVE  Debt' <= Debt \/ (Mishap /\ Debt' <= Debt + Each)
<1>1. /\ pc'[p] = "down" /\ \A q \in Procs \ {p} : pc'[q] = pc[q]
    BY GotoFacts DEF Leave, Crash, Labels
<1>2. UNCHANGED <<reusing, fresh, config, file, valid, logins>>
    BY DEF Leave, Crash, run, account
<1>3. Alone(p) /\ ~WillForget(p)' /\ ~WillSpoil(p)'
    BY <1>1, <1>2, OnlyMoves DEF WillForget, WillSpoil
<1>4. CASE Leave(p)
  <2>1. pc[p] = "up" /\ ~WillForget(p)
      BY <1>4 DEF Leave, WillForget
  <2>2. MayLogIn(p)' => MayLogIn(p)
      BY <1>1, <1>2, <2>1 DEF MayLogIn
  <2> QED
      BY <1>2, <1>3, <2>2, StepKeepsDebt
<1>5. CASE Crash(p)
    BY <1>2, <1>3, <1>5, MishapAddsToDebt DEF Crash
<1> QED
    BY <1>4, <1>5

\* A session that is dropped is that of one process that has not stored it, or
\* one that any process may hold, and that no one has yet to store.
LEMMA ExpireDebt ==
    ASSUME Inv, Inv', \A p \in Procs : Own(p), Expire, Procs # {}
    PROVE  Debt' <= Debt + Each
<1>1. PICK s \in valid : valid' = valid \ {s}
    BY DEF Expire
<1>2. UNCHANGED <<pc, reusing, fresh, config, file, logins>>
    BY DEF Expire, run
<1>3. logins \in Nat /\ logins' \in Nat
    BY DEF Inv, TypeOK
<1>4. CASE \E p \in Procs : pc[p] \in {"register", "save"} /\ config[p] = s
  <2>1. PICK p \in Procs : pc[p] \in {"register", "save"} /\ config[p] = s
      BY <1>4
  <2>2. /\ s # file
        /\ \A q \in Procs \ {p} :
               pc[q] \in {"register", "save", "list"} => config[q] # s
      BY <2>1 DEF Own
  <2>3. Alone(p)
      BY <1>1, <1>2, <2>2
         DEF Alone, Spoiled, MayLogIn, WillForget, WillSpoil
  <2>4. CASE pc[p] = "register"
    <3>1. ~WillSpoil(p)'
        BY <1>2, <2>4 DEF WillSpoil
    <3>2. (WillForget(p)' => WillForget(p)) \/ (MayLogIn(p)' => MayLogIn(p))
      <4>1. pc'[p] = "register"
          BY <1>2, <2>4
      <4> QED
          BY <4>1 DEF MayLogIn
    <3> QED
        BY <1>2, <2>3, <3>1, <3>2, MishapAddsToDebt
  <2>5. CASE pc[p] = "save"
    <3>1. ~WillForget(p)' /\ ~MayLogIn(p)'
        BY <1>2, <2>5 DEF WillForget, MayLogIn
    <3>2. /\ Cardinality(Owed)' <= Cardinality(Owed)
          /\ Forgets' <= Forgets
        BY <2>3, <3>1, AloneCounts
    <3>3. Cardinality(Spoiling)' <= Cardinality(Spoiling) + 1
      <4>1. Spoiling' \ {p} \subseteq Spoiling
          BY <2>3 DEF Alone, Spoiling
      <4> QED
          BY <4>1, Counts, OneMore
    <3>4. logins' + Cardinality(Owed)' <= logins + Cardinality(Owed)
        BY <1>2, <1>3, <3>2, Counts
    <3> QED
        BY <1>3, <3>2, <3>3, <3>4, Counts, OneMishap DEF Debt
  <2> QED
      BY <2>1, <2>4, <2>5
<1>5. CASE \A p \in Procs : pc[p] \in {"register", "save"} => config[p] # s
  <2>1. Spoiling' \subseteq Spoiling
      BY <1>1, <1>2, <1>5 DEF Spoiling, WillSpoil
  <2>2. Owed' \subseteq Owed
      BY <1>1, <1>2, <1>5 DEF Owed, MayLogIn, WillForget
  <2>3. /\ Cardinality(Spoiling)' <= Cardinality(Spoiling)
        /\ Cardinality(Owed)' <= Cardinality(Owed)
      BY <2>1, <2>2, Counts, Fewer
  <2>4. logins' + Cardinality(Owed)' <= logins + Cardinality(Owed)
      BY <1>2, <1>3, <2>3, Counts
  <2> QED
      BY <1>3, <2>3, <2>4, Counts, OneMishap DEF Debt
<1> QED
    BY <1>4, <1>5

-----------------------------------------------------------------------------
LEMMA OwnInit == Init => \A p \in Procs : Own(p)
BY DEF Init, Own

\* What p holds after its step, and what is stored then, is not what another
\* has yet to store.
LEMMA OwnStep ==
    ASSUME \A q \in Procs : Own(q), NEW p \in Procs,
           \A q \in Procs \ {p} : pc'[q] = pc[q] /\ config'[q] = config[q],
           \A q \in Procs \ {p} :
               pc[q] \in {"register", "save"} => config[q] # file',
           pc'[p] \in {"register", "save"} =>
               /\ config'[p] # NoSession /\ config'[p] # file'
               /\ \A q \in Procs \ {p} :
                      pc[q] \in {"register", "save", "list"}
                          => config[q] # config'[p],
           pc'[p] = "list" =>
               \A q \in Procs \ {p} :
                   pc[q] \in {"register", "save"} => config[q] # config'[p]
    PROVE  \A q \in Procs : Own(q)'
BY DEF Own

\* No other process comes to hold a session before it is stored.
LEMMA OwnKept ==
    ASSUME Inv, \A q \in Procs : Own(q), [Next]_vars
    PROVE  \A q \in Procs : Own(q)'
<1>1. ASSUME NEW p \in Procs,
             \/ Start(p) \/ Look(p) \/ Forget(p) \/ Leave(p) \/ Crash(p)
      PROVE  \A q \in Procs : Own(q)'
  <2>1. /\ pc'[p] \in {"look", "auth", "login", "down"}
        /\ \A q \in Procs \ {p} : pc'[q] = pc[q]
      BY <1>1, GotoFacts DEF Start, Look, Forget, Leave, Crash, Labels
  <2>2. /\ \A q \in Procs \ {p} : config'[q] = config[q]
        /\ file' \in {file, NoSession}
      BY <1>1 DEF Start, Look, Forget, Leave, Crash, run, Inv, TypeOK
  <2>3. \A q \in Procs \ {p} :
            pc[q] \in {"register", "save"} => config[q] # file'
      BY <2>2 DEF Own
  <2> QED
      BY <2>1, <2>2, <2>3, OwnStep
<1>2. ASSUME NEW p \in Procs, Authenticate(p)
      PROVE  \A q \in Procs : Own(q)'
  <2>1. /\ \A q \in Procs \ {p} : pc'[q] = pc[q] /\ config'[q] = config[q]
        /\ pc'[p] \in {"list", "login"} /\ file' = file
        /\ pc'[p] = "list" => config'[p] = file
      BY <1>2, GotoFacts DEF Authenticate, Labels, Inv, TypeOK
  <2>2. \A q \in Procs \ {p} :
            pc[q] \in {"register", "save"} => config[q] # file
      BY DEF Own
  <2> QED
      BY <2>1, <2>2, OwnStep
<1>3. ASSUME NEW p \in Procs, Login(p)
      PROVE  \A q \in Procs : Own(q)'
  <2>1. file' = file /\ logins \in Nat
      BY <1>3 DEF Login, Inv, TypeOK
  <2>2. \A q \in Procs \ {p} :
            pc[q] \in {"register", "save"} => config[q] # file'
      BY <2>1 DEF Own
  <2>3. CASE /\ config' = [config EXCEPT ![p] = logins + 1]
             /\ Goto(p, "register")
    <3>1. /\ pc'[p] = "register" /\ config'[p] = logins + 1
          /\ \A q \in Procs \ {p} : pc'[q] = pc[q] /\ config'[q] = config[q]
        BY <2>3, GotoFacts DEF Labels, Inv, TypeOK
    <3>2. /\ logins + 1 # NoSession /\ file # logins + 1
          /\ \A q \in Procs : config[q] # logins + 1
        BY <2>1 DEF Inv, TypeOK, NoSession
    <3> QED
        BY <2>1, <2>2, <3>1, <3>2, OwnStep
  <2>4. CASE Fails(p) /\ config' = config
    <3>1. /\ pc'[p] \in {"down", "forget"}
          /\ \A q \in Procs \ {p} : pc'[q] = pc[q]
        BY <2>4, RefusedFacts DEF Fails
    <3> QED
        BY <2>2, <2>4, <3>1, OwnStep
  <2> QED
      BY <1>3, <2>3, <2>4 DEF Login
<1>4. ASSUME NEW p \in Procs, Register(p) \/ ListDevices(p)
      PROVE  \A q \in Procs : Own(q)'
  <2>1. /\ config' = config /\ file' = file
        /\ pc[p] \in {"register", "list"}
      BY <1>4 DEF Register, ListDevices, run
  <2>2. /\ \/ pc'[p] \in {"up", "down", "forget"}
           \/ pc[p] = "register" /\ pc'[p] = "save"
        /\ \A q \in Procs \ {p} : pc'[q] = pc[q]
      BY <1>4, GotoFacts, RefusedFacts
         DEF Register, ListDevices, Fails, Labels
  <2>3. \A q \in Procs :
            pc[q] \in {"register", "save"} => config[q] # file'
      BY <2>1 DEF Own
  <2> QED
      BY <2>1, <2>2, <2>3, OwnStep DEF Own
<1>5. ASSUME NEW p \in Procs, Save(p)
      PROVE  \A q \in Procs : Own(q)'
  <2>1. /\ config' = config /\ file' = config[p]
        /\ pc[p] = "save" /\ pc'[p] = "list"
        /\ \A q \in Procs \ {p} : pc'[q] = pc[q]
      BY <1>5, GotoFacts DEF Save, run, Labels
  <2>2. \A q \in Procs \ {p} :
            pc[q] \in {"register", "save"} => config[q] # config[p]
      BY <2>1 DEF Own
  <2> QED
      BY <2>1, <2>2, OwnStep
<1>6. ASSUME Expire \/ UNCHANGED vars
      PROVE  \A q \in Procs : Own(q)'
    BY <1>6 DEF Expire, vars, run, Own
<1> QED
    BY <1>1, <1>2, <1>3, <1>4, <1>5, <1>6 DEF Next, SignedIn

-----------------------------------------------------------------------------
LEMMA DebtInit == Init => Debt <= 2 * N + mishaps * Each
<1> SUFFICES ASSUME Init PROVE Debt <= 2 * N + mishaps * Each
    OBVIOUS
<1>1. Forgetting = {} /\ Spoiling = {} /\ ~Spoiled
    BY DEF Init, Forgetting, WillForget, Spoiling, WillSpoil, Spoiled
<1>2. Forgets = 0 /\ Cardinality(Spoiling) = 0
    BY <1>1, FS_EmptySet DEF Forgets
<1>3. logins = 0 /\ mishaps = 0
    BY DEF Init
<1>4. Cardinality(Owed) \in 0..N /\ N \in Nat /\ Each \in Nat
    BY Counts, NFacts
<1>5. Cost(0) = 0 /\ 0 * Each = 0
    BY <1>4 DEF Cost
<1> QED
    BY <1>2, <1>3, <1>4, <1>5 DEF Debt, Total

\* A step adds nothing to the debt, unless it is a mishap.
LEMMA DebtStep ==
    ASSUME Inv, \A p \in Procs : Own(p), Next, Inv', Procs # {}
    PROVE  Debt' <= Debt \/ (Mishap /\ Debt' <= Debt + Each)
<1>1. ASSUME NEW p \in Procs, Start(p) PROVE Debt' <= Debt
    BY <1>1, StartDebt
<1>2. ASSUME NEW p \in Procs, SignedIn(p)
      PROVE  Debt' <= Debt \/ (Mishap /\ Debt' <= Debt + Each)
    BY <1>2, LookDebt, AuthenticateDebt, LoginDebt, ProveDebt, SaveDebt,
       ForgetDebt DEF SignedIn
<1>3. ASSUME NEW p \in Procs, Leave(p) \/ Crash(p)
      PROVE  Debt' <= Debt \/ (Mishap /\ Debt' <= Debt + Each)
    BY <1>3, LeaveDebt
<1>4. ASSUME Expire PROVE Mishap /\ Debt' <= Debt + Each
    BY <1>4, ExpireDebt DEF Expire
<1> QED
    BY <1>1, <1>2, <1>3, <1>4 DEF Next

LEMMA DebtInvariance == Spec => []LoginInvariant
<1>1. Init => LoginInvariant
    BY InitInv, OwnInit, DebtInit DEF LoginInvariant
<1>2. LoginInvariant /\ [Next]_vars => LoginInvariant'
  <2> SUFFICES ASSUME LoginInvariant, [Next]_vars, Inv' PROVE LoginInvariant'
      BY StepInv DEF LoginInvariant
  <2>1. /\ Inv /\ \A p \in Procs : Own(p)
        /\ Debt <= 2 * N + mishaps * Each
      BY DEF LoginInvariant
  <2>2. \A p \in Procs : Own(p)'
      BY <2>1, OwnKept
  <2>3. /\ logins \in Nat /\ logins' \in Nat
        /\ mishaps \in Nat /\ mishaps' \in Nat
      BY <2>1, MaxMishapsAssumption DEF Inv, TypeOK
  <2>4. /\ Debt \in Nat /\ Debt' \in Nat /\ N \in Nat /\ Each \in Nat
    <3>1. N \in Nat /\ Each \in Nat
        BY NFacts
    <3>2. /\ Cost(Forgets) \in 0..Each /\ Cost(Forgets)' \in 0..Each
        BY Counts, CostFacts
    <3>3. /\ Cardinality(Spoiling) * Each \in Nat
          /\ (Cardinality(Spoiling) * Each)' \in Nat
        BY <3>1, Counts, TimesFacts
    <3> QED
        BY <2>3, <3>1, <3>2, <3>3, Counts DEF Debt, Total
  <2>5. /\ mishaps * Each \in Nat /\ (mishaps * Each)' \in Nat
        /\ (mishaps + 1) * Each = mishaps * Each + Each
      BY <2>3, <2>4, TimesFacts
  <2>6. ASSUME Debt' <= Debt, mishaps' = mishaps \/ Mishap
        PROVE  Debt' <= 2 * N + (mishaps * Each)'
    <3>1. (mishaps * Each)' >= mishaps * Each
        BY <2>4, <2>5, <2>6 DEF Mishap
    <3> QED
        BY <2>1, <2>4, <2>5, <2>6, <3>1
  <2>7. mishaps' = mishaps \/ Mishap
      BY DEF Next, SignedIn, Start, Look, Authenticate, Login, Register, Save,
             ListDevices, Forget, Leave, Crash, Expire, Fails, vars
  <2>8. CASE Next /\ Procs # {}
    <3>1. Debt' <= Debt \/ (Mishap /\ Debt' <= Debt + Each)
        BY <2>1, <2>8, DebtStep
    <3>2. ASSUME Mishap, Debt' <= Debt + Each
          PROVE  Debt' <= 2 * N + (mishaps * Each)'
      <4>1. (mishaps * Each)' = mishaps * Each + Each
          BY <2>5, <3>2 DEF Mishap
      <4> QED
          BY <2>1, <2>4, <2>5, <3>2, <4>1
    <3> QED
        BY <2>2, <2>6, <2>7, <3>1, <3>2 DEF LoginInvariant
  <2>9. CASE Next /\ Procs = {}
    <3>1. logins' = logins
        BY <2>9 DEF Next, Expire
    <3>2. N = 0
        BY <2>9, FS_EmptySet DEF N
    <3>3. /\ logins' + Cardinality(Owed)' <= logins + Cardinality(Owed)
          /\ Forgets' <= Forgets
          /\ Cardinality(Spoiling)' <= Cardinality(Spoiling)
        BY <2>3, <3>1, <3>2, Counts
    <3>4. Debt' <= Debt
        BY <2>3, <3>3, Counts, NoMore DEF Debt
    <3> QED
        BY <2>2, <2>6, <2>7, <3>4 DEF LoginInvariant
  <2>10. CASE UNCHANGED vars
    <3>1. UNCHANGED <<pc, reusing, fresh, config, file, valid, logins, mishaps>>
        BY <2>10 DEF vars, run, account
    <3>2. Debt' = Debt
        BY <3>1 DEF Debt, Forgets, Owed, Forgetting, Spoiling, Spoiled,
                    MayLogIn, WillForget, WillSpoil
    <3> QED
        BY <2>1, <2>2, <3>1, <3>2 DEF LoginInvariant
  <2> QED
      BY <2>8, <2>9, <2>10
<1> QED
    BY <1>1, <1>2, PTL DEF Spec

\* One of a number and the next is even.
LEMMA Halves ==
    ASSUME NEW n \in Nat
    PROVE  /\ (n * (n + 1)) \div 2 \in Nat
           /\ 2 * ((n * (n + 1)) \div 2) = n * (n + 1)
<1>1. PICK h \in Nat : n * (n + 1) = 2 * h
  <2>1. CASE n % 2 = 0
    <3>1. PICK m \in Nat : n = 2 * m
      <4>1. n \div 2 \in Nat /\ n = 2 * (n \div 2)
          BY <2>1
      <4> QED
          BY <4>1
    <3>2. m * (n + 1) \in Nat /\ n * (n + 1) = 2 * (m * (n + 1))
        BY <3>1
    <3> QED
        BY <3>2
  <2>2. CASE n % 2 = 1
    <3>1. PICK m \in Nat : n + 1 = 2 * m
      <4>1. (n + 1) \div 2 \in Nat /\ n + 1 = 2 * ((n + 1) \div 2)
          BY <2>2
      <4> QED
          BY <4>1
    <3>2. n * m \in Nat /\ n * (n + 1) = 2 * (n * m)
        BY <3>1
    <3> QED
        BY <3>2
  <2> QED
      BY <2>1, <2>2
<1>2. (2 * h) \div 2 = h
    OBVIOUS
<1> QED
    BY <1>1, <1>2

\* cloud.signed_in: no login loop.  However many processes share a state
\* directory, whatever expires, fails or is killed, the account counts no more
\* logins than one for each of them and what the mishaps account for.
THEOREM LoginsAreAccounted == Spec => []LoginsAccounted
<1>1. LoginInvariant => LoginsAccounted
  <2> SUFFICES ASSUME LoginInvariant PROVE LoginsAccounted
      OBVIOUS
  <2> DEFINE half == (N * (N + 1)) \div 2
  <2>1. N \in Nat /\ Each \in Nat
      BY NFacts
  <2>2. half \in Nat /\ 2 * half = Each
      BY <2>1, Halves DEF Each
  <2>3. logins \in Nat /\ mishaps \in Nat
      BY MaxMishapsAssumption DEF LoginInvariant, Inv, TypeOK
  <2>4. 2 * logins <= Debt /\ Debt \in Nat
    <3>1. Cost(Forgets) \in 0..Each
        BY Counts, CostFacts
    <3>2. Cardinality(Spoiling) * Each \in Nat
        BY <2>1, Counts, TimesFacts
    <3> QED
        BY <2>1, <2>3, <3>1, <3>2, Counts DEF Debt, Total
  <2>5. Debt <= 2 * N + mishaps * Each
      BY DEF LoginInvariant
  <2>6. mishaps * half \in Nat /\ mishaps * Each = 2 * (mishaps * half)
      BY <2>2, <2>3
  <2>7. logins <= N + mishaps * half
    <3> HIDE DEF half
    <3> QED
        BY <2>1, <2>2, <2>3, <2>4, <2>5, <2>6
  <2> QED
      BY <2>7 DEF LoginsAccounted, N
<1> QED
    BY <1>1, DebtInvariance, PTL

=============================================================================
