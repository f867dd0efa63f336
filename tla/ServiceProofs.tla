--------------------------- MODULE ServiceProofs ---------------------------
(***************************************************************************)
(* What Service says of signals, sessions and websockets, for any number   *)
(* of processes, cameras, sessions and mishaps.                            *)
(***************************************************************************)
EXTENDS Service, Induction

\* What a run holds at each point of it.
Holds(p) ==
    /\ pc[p] \in {"off", "write", "reread"} => phone[p] = NoId
    /\ pc[p] \notin {"off", "write", "reread"} => phone[p] \in Phones
    /\ pc[p] \notin {"off", "write"} => file # NoId
    /\ pc[p] \in {"connect", "create", "offer", "await", "carry"}
           => camera[p] \in Cameras
    /\ IF pc[p] \in {"offer", "await", "carry"} THEN session[p] \in Ids
       ELSE session[p] = NoId
    /\ pc[p] # "await" => applied[p] = {}
    /\ \A g \in applied[p] : g.id = session[p]

\* Unless two first runs were side by side, whoever writes the identity file
\* is alone, and all go by what it holds.
Agrees(p) ==
    ~raced =>
        /\ pc[p] = "write" =>
               file = NoId /\ \A q \in Procs \ {p} : pc[q] = "off"
        /\ phone[p] # NoId => phone[p] = file

Inv ==
    /\ TypeOK
    /\ DOMAIN applied = Procs
    /\ \A p \in Procs : Holds(p)
    /\ \A p \in Procs : Agrees(p)
    /\ OrphansExcused

-----------------------------------------------------------------------------
\* The first dict that a walk stops at is one that it stops at.
LEMMA MatchingIsOurs ==
    ASSUME NEW message, NEW call, NEW id,
           NEW m \in MatchingSignal(message, call, id)
    PROVE  IsOurs(m.data, call, id)
<1> DEFINE Ours(d) == FirstDict(d.data, LAMBDA data : IsOurs(data, call, id))
           Found(d) == {[method |-> d.method, data |-> data] : data \in Ours(d)}
<1>1. PICK d : m \in Found(d)
  <2> HIDE DEF Found
  <2> QED
      BY DEF MatchingSignal, Found
<1>2. PICK data \in Ours(d) : m = [method |-> d.method, data |-> data]
    BY <1>1
<1>3. \A other \in Ours(d) : IsOurs(other, call, id)
    BY DEF FirstDict
<1> QED
    BY <1>2, <1>3

LEMMA Constants ==
    /\ Cardinality(Procs) \in Nat
    /\ NoId \notin Ids /\ NoId \notin Phones /\ NoId \notin Procs
    /\ Ids \subseteq Nat /\ Phones \subseteq Nat
<1>1. Cardinality(Procs) \in Nat
    BY ProcsAssumption, FS_CardinalityType
<1> QED
    BY <1>1, NoIdAssumption, BoundsAssumption DEF Ids, Phones

\* An identity is left for a first run: the others go by one each at most.
LEMMA IdentityLeft ==
    ASSUME Inv, NEW p \in Procs, pc[p] = "write"
    PROVE  Phones \ ({file} \cup {phone[q] : q \in Procs}) # {}
<1> DEFINE Others == Procs \ {p}
           f == [q \in Others |-> phone[q]]
           Used == {phone[q] : q \in Others}
           K == Cardinality(Procs)
<1>1. IsFiniteSet(Others) /\ Cardinality(Others) = K - 1 /\ K \in Nat
    BY ProcsAssumption, FS_RemoveElement, FS_CardinalityType
<1>2. f \in Surjection(Others, Used)
    BY DEF Surjection
<1>3. IsFiniteSet(Used) /\ Cardinality(Used) <= K - 1
  <2> HIDE DEF Others, f, Used
  <2> QED
      BY <1>1, <1>2, FS_Surjection
<1>4. Cardinality(Used) \in Nat
    BY <1>3, FS_CardinalityType
<1>5. IsFiniteSet(Used \cup {file}) /\ Cardinality(Used \cup {file}) <= K
  <2>1. /\ IsFiniteSet(Used \cup {file})
        /\ Cardinality(Used \cup {file}) =
               IF file \in Used THEN Cardinality(Used)
                                ELSE Cardinality(Used) + 1
      BY <1>3, FS_AddElement
  <2> QED
      BY <1>1, <1>3, <1>4, <2>1
<1>6. Cardinality(Phones) = K + 1
  <2>1. Cardinality(1..K + 1) = IF 1 > K + 1 THEN 0 ELSE (K + 1) - 1 + 1
      BY <1>1, FS_Interval
  <2> QED
      BY <1>1, <2>1 DEF Phones
<1>7. ~(Phones \subseteq Used \cup {file})
  <2> SUFFICES ASSUME Phones \subseteq Used \cup {file} PROVE FALSE
      OBVIOUS
  <2>1. Cardinality(Phones) <= Cardinality(Used \cup {file})
      BY <1>5, FS_Subset
  <2>2. Cardinality(Used \cup {file}) \in Nat
      BY <1>5, FS_CardinalityType
  <2> QED
      BY <1>1, <1>5, <1>6, <2>1, <2>2
<1>8. phone[p] \notin Phones
    BY Constants DEF Inv, Holds
<1> QED
    BY <1>7, <1>8

-----------------------------------------------------------------------------
\* Going to a label changes the place of the one process.
LEMMA GotoFacts ==
    ASSUME Inv, NEW p \in Procs, NEW label \in Labels, Goto(p, label)
    PROVE  /\ pc' \in [Procs -> Labels]
           /\ pc'[p] = label
           /\ \A q \in Procs \ {p} : pc'[q] = pc[q]
BY DEF Inv, TypeOK, Goto

LEMMA MishapFacts ==
    ASSUME Inv, Mishap \/ mishaps' = mishaps PROVE mishaps' \in 0..MaxMishaps
BY BoundsAssumption DEF Inv, TypeOK, Mishap

\* What the others are and hold, when only p acts.
Others(p) ==
    \A q \in Procs \ {p} :
        /\ pc'[q] = pc[q] /\ phone'[q] = phone[q] /\ camera'[q] = camera[q]
        /\ session'[q] = session[q] /\ applied'[q] = applied[q]

LEMMA OthersHold ==
    ASSUME Inv, NEW p \in Procs, Others(p), file # NoId => file' # NoId,
           Holds(p)'
    PROVE  \A q \in Procs : Holds(q)'
BY DEF Inv, Holds, Others

\* A run that goes on, beside others or not, has nobody about to write.
LEMMA OthersAgree ==
    ASSUME Inv, NEW p \in Procs, Others(p), file' = file, raced' = raced,
           pc[p] # "off", pc'[p] # "write",
           phone'[p] \in {phone[p], NoId, file}
    PROVE  \A q \in Procs : Agrees(q)'
BY DEF Inv, Agrees, Others

\* The sessions in the pools are still accounted for.
LEMMA StillExcused ==
    ASSUME Inv, NEW p \in Procs, Others(p), pool' \subseteq pool,
           lost \subseteq lost',
           session'[p] = session[p] \/ session[p] = NoId
    PROVE  OrphansExcused'
BY DEF Inv, OrphansExcused, Held, Others

-----------------------------------------------------------------------------
LEMMA InitInv == Init => Inv
<1> SUFFICES ASSUME Init PROVE Inv
    OBVIOUS
<1>1. TypeOK
  <2>1. /\ pc \in [Procs -> Labels] /\ file \in Phones \cup {NoId}
        /\ raced \in BOOLEAN
        /\ phone \in [Procs -> Phones \cup {NoId}]
        /\ camera \in [Procs -> Cameras \cup {NoId}]
        /\ session \in [Procs -> Ids \cup {NoId}]
        /\ ws \in [Phones -> Procs \cup {NoId}]
      BY DEF Init, Labels
  <2>2. pool = {} /\ lost = {} /\ online \subseteq Cameras
      BY CamerasAssumption DEF Init
  <2>3. mishaps \in 0..MaxMishaps
      BY BoundsAssumption DEF Init
  <2> QED
      BY <2>1, <2>2, <2>3 DEF TypeOK
<1>2. DOMAIN applied = Procs
    BY DEF Init
<1>3. \A p \in Procs : Holds(p)
    BY DEF Init, Holds
<1>4. \A p \in Procs : Agrees(p)
    BY DEF Init, Agrees
<1>5. OrphansExcused
    BY DEF Init, OrphansExcused
<1> QED
    BY <1>1, <1>2, <1>3, <1>4, <1>5 DEF Inv

\* A run may end anywhere, as long as what it leaves in a pool is lost.
LEMMA ExitInv ==
    ASSUME Inv, NEW p \in Procs, Exit(p),
           file' = file, online' \subseteq Cameras,
           Mishap \/ mishaps' = mishaps,
           lost' \subseteq Ids, lost \subseteq lost',
           \A s \in pool' : s.id \in Ids /\ s.camera \in Cameras,
           \A s, t \in pool' : s.id = t.id => s = t,
           \A s \in pool' : \/ s \in pool /\ s.id # session[p]
                            \/ s.id \in lost'
    PROVE  Inv'
<1>1. /\ pc' \in [Procs -> Labels] /\ pc'[p] = "off"
      /\ \A q \in Procs \ {p} : pc'[q] = pc[q]
    BY GotoFacts DEF Exit, Labels
<1>2. /\ phone' \in [Procs -> Phones \cup {NoId}] /\ phone'[p] = NoId
      /\ camera' \in [Procs -> Cameras \cup {NoId}]
      /\ session' \in [Procs -> Ids \cup {NoId}] /\ session'[p] = NoId
      /\ DOMAIN applied' = Procs /\ applied'[p] = {}
      /\ Others(p)
    BY <1>1 DEF Exit, Inv, TypeOK, Others
<1>3. /\ ws' \in [Phones -> Procs \cup {NoId}]
      /\ raced' \in BOOLEAN
    BY DEF Exit, Inv, TypeOK
<1>4. TypeOK'
  <2>1. mishaps' \in 0..MaxMishaps
      BY MishapFacts
  <2>2. file' \in Phones \cup {NoId}
      BY DEF Inv, TypeOK
  <2> QED
      BY <1>1, <1>2, <1>3, <2>1, <2>2 DEF TypeOK
<1>5. Holds(p)'
    BY <1>1, <1>2 DEF Holds
<1>6. \A q \in Procs : Holds(q)'
    BY <1>2, <1>5, OthersHold
<1>7. \A q \in Procs : Agrees(q)'
  <2>1. CASE \E q \in Procs \ {p} : pc[q] # "off"
    <3>1. raced' = raced
        BY <2>1 DEF Exit, Inv, TypeOK
    <3>2. pc[p] # "off" => \A q \in Procs : Agrees(q)'
        BY <1>1, <1>2, <3>1, OthersAgree
    <3>3. pc[p] = "off" => \A q \in Procs : Agrees(q)'
        BY <1>1, <1>2, <3>1 DEF Inv, Agrees, Others
    <3> QED
        BY <3>2, <3>3
  <2>2. CASE \A q \in Procs \ {p} : pc[q] = "off"
    <3>1. \A q \in Procs : pc'[q] = "off" /\ phone'[q] = NoId
        BY <1>1, <1>6, <2>2 DEF Holds
    <3> QED
        BY <3>1 DEF Agrees
  <2> QED
      BY <2>1, <2>2
<1>8. OrphansExcused'
  <2> SUFFICES ASSUME NEW s \in pool', s \in pool, s.id # session[p]
               PROVE  s.id \in Held' \cup lost'
      BY DEF OrphansExcused
  <2>1. s.id \in Held \cup lost
      BY DEF Inv, OrphansExcused
  <2>2. s.id \in Held => s.id \in Held'
      BY <1>2 DEF Held, Others
  <2> QED
      BY <2>1, <2>2
<1> QED
    BY <1>2, <1>4, <1>6, <1>7, <1>8 DEF Inv

\* The finally block: the session is released, or it is lost.
LEMMA CloseInv ==
    ASSUME Inv, NEW p \in Procs, Close(p),
           file' = file, online' = online, Mishap \/ mishaps' = mishaps
    PROVE  Inv'
<1>1. Exit(p)
    BY DEF Close
<1>2. /\ lost' \subseteq Ids /\ lost \subseteq lost'
      /\ ~Open(p) /\ session[p] # NoId => session[p] \in lost'
    BY DEF Close, Abandon, Inv, TypeOK
<1>3. /\ pool' \subseteq pool
      /\ Open(p) => \A s \in pool' : s.id # session[p]
    BY DEF Close
<1>4. \A s \in pool' : s.id \in Ids /\ s.camera \in Cameras
    BY <1>3 DEF Inv, TypeOK
<1>5. \A s, t \in pool' : s.id = t.id => s = t
    BY <1>3 DEF Inv, TypeOK
<1>6. \A s \in pool' : (s \in pool /\ s.id # session[p]) \/ s.id \in lost'
    BY <1>2, <1>3, <1>4, Constants
<1>7. online' \subseteq Cameras
    BY DEF Inv, TypeOK
<1> QED
    BY <1>1, <1>2, <1>4, <1>5, <1>6, <1>7, ExitInv

\* A run ends before it has a session.
LEMMA ExitEarlyInv ==
    ASSUME Inv, NEW p \in Procs, Exit(p), session[p] = NoId,
           UNCHANGED <<pool, lost, file, online>>,
           Mishap \/ mishaps' = mishaps
    PROVE  Inv'
<1>1. /\ lost' \subseteq Ids /\ lost \subseteq lost'
      /\ online' \subseteq Cameras
      /\ \A s \in pool' : s.id \in Ids /\ s.camera \in Cameras
      /\ \A s, t \in pool' : s.id = t.id => s = t
    BY DEF Inv, TypeOK
<1>2. \A s \in pool' : s \in pool /\ s.id # session[p]
    BY <1>1, Constants
<1> QED
    BY <1>1, <1>2, ExitInv

LEMMA CrashInv == ASSUME Inv, NEW p \in Procs, Crash(p) PROVE Inv'
<1>1. /\ Exit(p) /\ Mishap /\ UNCHANGED <<pool, file, online>>
      /\ lost' = lost \cup ({session[p]} \ {NoId})
    BY DEF Crash, Abandon
<1>2. /\ lost' \subseteq Ids /\ lost \subseteq lost'
      /\ online' \subseteq Cameras
      /\ \A s \in pool' : s.id \in Ids /\ s.camera \in Cameras
      /\ \A s, t \in pool' : s.id = t.id => s = t
    BY <1>1 DEF Inv, TypeOK
<1>3. \A s \in pool' : (s \in pool /\ s.id # session[p]) \/ s.id \in lost'
    BY <1>1, <1>2, Constants
<1> QED
    BY <1>1, <1>2, <1>3, ExitInv

-----------------------------------------------------------------------------
\* The start of a run and the identity file.
LEMMA StartInv == ASSUME Inv, NEW p \in Procs, Start(p) PROVE Inv'
<1>1. /\ pc[p] = "off"
      /\ pc'[p] = IF file = NoId THEN "write" ELSE "signin"
      /\ pc' \in [Procs -> Labels]
      /\ \A q \in Procs \ {p} : pc'[q] = pc[q]
    BY GotoFacts DEF Start, Begin, Labels
<1>2. /\ phone' \in [Procs -> Phones \cup {NoId}] /\ phone'[p] = file
      /\ UNCHANGED <<camera, session, applied, cloudVars, file, online>>
      /\ Others(p)
    BY <1>1 DEF Start, Inv, TypeOK, Others
<1>3. TypeOK'
  <2>1. mishaps' \in 0..MaxMishaps
      BY MishapFacts DEF Start, Begin
  <2>2. raced' \in BOOLEAN
      BY DEF Start, Inv, TypeOK
  <2> QED
      BY <1>1, <1>2, <2>1, <2>2 DEF Inv, TypeOK, cloudVars
<1>4. Holds(p)'
    BY <1>1, <1>2, Constants DEF Inv, TypeOK, Holds
<1>5. \A q \in Procs : Holds(q)'
    BY <1>2, <1>4, OthersHold
<1>6. \A q \in Procs : Agrees(q)'
  <2> SUFFICES ASSUME ~raced' PROVE \A q \in Procs : Agrees(q)'
      BY DEF Agrees
  <2>1. ~raced /\ (file = NoId => \A q \in Procs \ {p} : pc[q] # "write")
      BY DEF Start, Beside
  <2>2. CASE file = NoId
    <3>1. \A q \in Procs \ {p} : pc[q] = "off"
        BY <2>1, <2>2 DEF Inv, Holds
    <3> QED
        BY <1>1, <1>2, <2>1, <2>2, <3>1 DEF Inv, Agrees, Holds, Others
  <2>3. CASE file # NoId
      BY <1>1, <1>2, <2>1, <2>3 DEF Inv, Agrees, Others
  <2> QED
      BY <2>2, <2>3
<1>7. OrphansExcused'
    BY <1>2, StillExcused DEF cloudVars
<1> QED
    BY <1>2, <1>3, <1>5, <1>6, <1>7 DEF Inv

LEMMA WriteIdentityInv ==
    ASSUME Inv, NEW p \in Procs, WriteIdentity(p) PROVE Inv'
<1>1. /\ pc[p] = "write" /\ pc'[p] = "reread"
      /\ pc' \in [Procs -> Labels]
      /\ \A q \in Procs \ {p} : pc'[q] = pc[q]
    BY GotoFacts DEF WriteIdentity, Labels
<1>2. file' \in Phones /\ file' # NoId
  <2> DEFINE S == Phones \ ({file} \cup {phone[q] : q \in Procs})
  <2>1. S # {} /\ S \subseteq Nat
      BY <1>1, IdentityLeft, Constants
  <2>2. Min(S) \in S
    <3> HIDE DEF S
    <3> QED
        BY <2>1, LeastOne DEF Min
  <2> QED
      BY <2>2, Constants DEF WriteIdentity
<1>3. /\ UNCHANGED <<phone, raced, camera, session, applied, cloudVars,
                     online, mishaps>>
      /\ Others(p)
    BY <1>1 DEF WriteIdentity, Others
<1>4. TypeOK'
    BY <1>1, <1>2, <1>3 DEF Inv, TypeOK, cloudVars
<1>5. Holds(p)'
    BY <1>1, <1>2, <1>3 DEF Inv, Holds
<1>6. \A q \in Procs : Holds(q)'
    BY <1>2, <1>3, <1>5, OthersHold
<1>7. \A q \in Procs : Agrees(q)'
  <2>1. ASSUME ~raced
        PROVE  \A q \in Procs : pc'[q] # "write" /\ phone'[q] = NoId
      BY <1>1, <1>3, <2>1 DEF Inv, Agrees, Holds
  <2> QED
      BY <1>3, <2>1 DEF Agrees
<1>8. OrphansExcused'
    BY <1>3, StillExcused DEF cloudVars
<1> QED
    BY <1>3, <1>4, <1>6, <1>7, <1>8 DEF Inv

LEMMA RereadIdentityInv ==
    ASSUME Inv, NEW p \in Procs, RereadIdentity(p) PROVE Inv'
<1>1. /\ pc[p] = "reread" /\ pc'[p] = "signin"
      /\ pc' \in [Procs -> Labels]
      /\ \A q \in Procs \ {p} : pc'[q] = pc[q]
    BY GotoFacts DEF RereadIdentity, Labels
<1>2. /\ phone' \in [Procs -> Phones \cup {NoId}] /\ phone'[p] = file
      /\ UNCHANGED <<raced, camera, session, applied, cloudVars, file,
                     online, mishaps>>
      /\ Others(p)
    BY <1>1 DEF RereadIdentity, Inv, TypeOK, Others
<1>3. TypeOK'
    BY <1>1, <1>2 DEF Inv, TypeOK, cloudVars
<1>4. Holds(p)'
    BY <1>1, <1>2 DEF Inv, TypeOK, Holds
<1>5. \A q \in Procs : Holds(q)'
    BY <1>2, <1>4, OthersHold
<1>6. \A q \in Procs : Agrees(q)'
    BY <1>1, <1>2, OthersAgree
<1>7. OrphansExcused'
    BY <1>2, StillExcused DEF cloudVars
<1> QED
    BY <1>2, <1>3, <1>5, <1>6, <1>7 DEF Inv

\* A camera is settled on, then the websocket is taken.
LEMMA LoginInv == ASSUME Inv, NEW p \in Procs, Login(p) PROVE Inv'
<1>1. CASE Selected = {}
    BY <1>1, ExitEarlyInv DEF Login, Inv, Holds
<1>2. CASE Selected # {}
  <2>1. PICK c \in Selected : camera' = [camera EXCEPT ![p] = c]
      BY <1>2 DEF Login
  <2>2. c \in Cameras
      BY DEF Selected, Matching
  <2>3. /\ pc[p] = "signin" /\ pc'[p] = "connect"
        /\ pc' \in [Procs -> Labels]
        /\ \A q \in Procs \ {p} : pc'[q] = pc[q]
      BY <1>2, GotoFacts DEF Login, Labels
  <2>4. /\ camera' \in [Procs -> Cameras \cup {NoId}] /\ camera'[p] = c
        /\ UNCHANGED <<phone, raced, session, applied, cloudVars, file,
                       online, mishaps>>
        /\ Others(p)
      BY <1>2, <2>1, <2>2, <2>3 DEF Login, Inv, TypeOK, Others, cloudVars
  <2>5. TypeOK'
      BY <2>3, <2>4 DEF Inv, TypeOK, cloudVars
  <2>6. Holds(p)'
      BY <2>2, <2>3, <2>4 DEF Inv, Holds
  <2>7. \A q \in Procs : Holds(q)'
      BY <2>4, <2>6, OthersHold
  <2>8. \A q \in Procs : Agrees(q)'
      BY <2>3, <2>4, OthersAgree
  <2>9. OrphansExcused'
      BY <2>4, StillExcused DEF cloudVars
  <2> QED
      BY <2>4, <2>5, <2>7, <2>8, <2>9 DEF Inv
<1> QED
    BY <1>1, <1>2

LEMMA ConnectInv == ASSUME Inv, NEW p \in Procs, Connect(p) PROVE Inv'
<1>1. /\ pc[p] = "connect" /\ pc'[p] = "create"
      /\ pc' \in [Procs -> Labels]
      /\ \A q \in Procs \ {p} : pc'[q] = pc[q]
    BY GotoFacts DEF Connect, Labels
<1>2. /\ ws' \in [Phones -> Procs \cup {NoId}]
      /\ UNCHANGED <<phone, raced, camera, session, applied, pool, lost,
                     offers, signals, file, online, mishaps>>
      /\ Others(p)
    BY <1>1 DEF Connect, Inv, TypeOK, Others
<1>3. TypeOK'
    BY <1>1, <1>2 DEF Inv, TypeOK
<1>4. Holds(p)'
    BY <1>1, <1>2 DEF Inv, Holds
<1>5. \A q \in Procs : Holds(q)'
    BY <1>2, <1>4, OthersHold
<1>6. \A q \in Procs : Agrees(q)'
    BY <1>1, <1>2, OthersAgree
<1>7. OrphansExcused'
    BY <1>2, StillExcused
<1> QED
    BY <1>2, <1>3, <1>5, <1>6, <1>7 DEF Inv

\* A session the server creates is new to every pool.
LEMMA CreatedFacts ==
    ASSUME Inv, NEW p \in Procs, pc[p] = "create", NEW id \in Free,
           Created(p, id)
    PROVE  /\ id \in Ids
           /\ \A s \in pool' : s.id \in Ids /\ s.camera \in Cameras
           /\ \A s, t \in pool' : s.id = t.id => s = t
<1>1. id \in Ids /\ \A s \in pool : s.id # id
    BY DEF Free
<1>2. camera[p] \in Cameras
    BY DEF Inv, Holds
<1> QED
    BY <1>1, <1>2 DEF Created, Inv, TypeOK

\* A run ends and leaves behind a session the server has just created for it.
LEMMA CreatedLostInv ==
    ASSUME Inv, NEW p \in Procs, pc[p] = "create", NEW id \in Free,
           Created(p, id), Mishap, Exit(p), lost' = lost \cup {id},
           UNCHANGED <<file, online>>
    PROVE  Inv'
<1>1. session[p] = NoId
    BY DEF Inv, Holds
<1>2. /\ \A s \in pool' : s.id \in Ids /\ s.camera \in Cameras
      /\ \A s, t \in pool' : s.id = t.id => s = t
    BY CreatedFacts
<1>3. /\ lost' \subseteq Ids /\ lost \subseteq lost'
      /\ online' \subseteq Cameras
    BY CreatedFacts DEF Inv, TypeOK
<1>4. \A s \in pool' : (s \in pool /\ s.id # session[p]) \/ s.id \in lost'
    BY <1>1, <1>2, Constants DEF Created
<1> QED
    BY <1>2, <1>3, <1>4, ExitInv

LEMMA RequestFailsInv ==
    ASSUME Inv, NEW p \in Procs, RequestFails(p) PROVE Inv'
<1>1. CASE UNCHANGED <<pool, lost>>
    BY <1>1, ExitEarlyInv DEF RequestFails, Inv, Holds
<1>2. CASE /\ pc[p] = "create"
           /\ \E id \in Free : Created(p, id) /\ lost' = lost \cup {id}
    BY <1>2, CreatedLostInv DEF RequestFails
<1> QED
    BY <1>1, <1>2 DEF RequestFails

-----------------------------------------------------------------------------
\* The call.  The session that is created is in no pool yet.
LEMMA CreateSessionInv ==
    ASSUME Inv, NEW p \in Procs, CreateSession(p) PROVE Inv'
<1>1. PICK id \in Free :
          /\ Created(p, id)
          /\ \/ /\ session' = [session EXCEPT ![p] = id]
                /\ Goto(p, "offer")
                /\ UNCHANGED <<phone, raced, camera, applied, ws, lost,
                               mishaps>>
             \/ Mishap /\ Exit(p) /\ lost' = lost \cup {id}
    BY DEF CreateSession
<1>2. /\ pc[p] = "create" /\ session[p] = NoId /\ camera[p] \in Cameras
      /\ UNCHANGED <<offers, signals, file, online>>
    BY DEF CreateSession, Inv, Holds
<1>3. /\ id \in Ids
      /\ \A s \in pool' : s.id \in Ids /\ s.camera \in Cameras
      /\ \A s, t \in pool' : s.id = t.id => s = t
    BY <1>1, <1>2, CreatedFacts
<1>4. CASE Mishap /\ Exit(p) /\ lost' = lost \cup {id}
    BY <1>1, <1>2, <1>4, CreatedLostInv
<1>5. CASE /\ session' = [session EXCEPT ![p] = id]
           /\ Goto(p, "offer")
           /\ UNCHANGED <<phone, raced, camera, applied, ws, lost, mishaps>>
  <2>1. /\ pc'[p] = "offer" /\ pc' \in [Procs -> Labels]
        /\ \A q \in Procs \ {p} : pc'[q] = pc[q]
      BY <1>5, GotoFacts DEF Labels
  <2>2. /\ session' \in [Procs -> Ids \cup {NoId}] /\ session'[p] = id
        /\ Others(p)
      BY <1>3, <1>5, <2>1 DEF Inv, TypeOK, Others
  <2>3. TypeOK'
      BY <1>2, <1>3, <1>5, <2>1, <2>2 DEF Inv, TypeOK
  <2>4. Holds(p)'
      BY <1>2, <1>3, <1>5, <2>1, <2>2 DEF Inv, Holds
  <2>5. \A q \in Procs : Holds(q)'
      BY <1>2, <2>2, <2>4, OthersHold
  <2>6. \A q \in Procs : Agrees(q)'
      BY <1>2, <1>5, <2>1, <2>2, OthersAgree
  <2>7. OrphansExcused'
    <3>1. id \in Held'
        BY <1>3, <2>2, Constants DEF Held
    <3>2. Held \subseteq Held'
        BY <1>2, <2>2 DEF Held, Others
    <3> QED
        BY <1>1, <1>5, <3>1, <3>2 DEF Created, Inv, OrphansExcused
  <2> QED
      BY <1>5, <2>3, <2>5, <2>6, <2>7 DEF Inv
<1> QED
    BY <1>1, <1>4, <1>5

LEMMA SendOfferInv ==
    ASSUME Inv, NEW p \in Procs, SendOffer(p) PROVE Inv'
<1>1. CASE ~Open(p)
    BY <1>1, CloseInv DEF SendOffer
<1>2. CASE Open(p)
  <2>1. /\ pc[p] = "offer" /\ pc'[p] = "await" /\ pc' \in [Procs -> Labels]
        /\ \A q \in Procs \ {p} : pc'[q] = pc[q]
      BY <1>2, GotoFacts DEF SendOffer, Labels
  <2>2. /\ UNCHANGED <<phone, raced, camera, session, applied, ws, pool,
                       lost, file, online, mishaps>>
        /\ Others(p)
      BY <1>2, <2>1 DEF SendOffer, Others
  <2>3. TypeOK'
      BY <2>1, <2>2 DEF Inv, TypeOK
  <2>4. Holds(p)'
      BY <2>1, <2>2 DEF Inv, Holds
  <2>5. \A q \in Procs : Holds(q)'
      BY <2>2, <2>4, OthersHold
  <2>6. \A q \in Procs : Agrees(q)'
      BY <2>1, <2>2, OthersAgree
  <2>7. OrphansExcused'
      BY <2>2, StillExcused
  <2> QED
      BY <2>2, <2>3, <2>5, <2>6, <2>7 DEF Inv
<1> QED
    BY <1>1, <1>2

\* What matching_signal finds names the call or the session of the run, and
\* each kind of signal has one of the names only.
LEMMA ActedIsOwn ==
    ASSUME NEW p, session[p] \in Ids, NEW g, NEW frame,
           [method |-> g.kind, data |-> DataOf(g)]
               \in MatchingSignal(frame, session[p], session[p])
    PROVE  g.id = session[p]
<1> DEFINE m == [method |-> g.kind, data |-> DataOf(g)]
<1>1. IsOurs(m.data, session[p], session[p])
    BY MatchingIsOurs
<1>2. IsOurs(DataOf(g), session[p], session[p])
    BY <1>1
<1>3. session[p] # NoId
    BY Constants
<1> QED
    BY <1>2, <1>3 DEF IsOurs, DataOf, Data, Dict

\* The signals of a batch that a run acts upon.
Acted(p, batch, frame) ==
    {g \in batch : [method |-> g.kind, data |-> DataOf(g)]
                       \in MatchingSignal(frame, session[p], session[p])}

LEMMA ReceiveSignalInv ==
    ASSUME Inv, NEW p \in Procs, ReceiveSignal(p) PROVE Inv'
<1>1. pc[p] = "await" /\ UNCHANGED <<offers, file, online, mishaps>>
    BY DEF ReceiveSignal
<1>2. CASE Close(p)
    BY <1>1, <1>2, CloseInv
<1>3. CASE ~Close(p)
  <2>1. PICK batch \in Deliverable(p) : \E frame \in Frames(batch) :
            /\ applied' = [applied EXCEPT ![p] = @ \cup Acted(p, batch, frame)]
            /\ UNCHANGED <<pc, phone, raced, camera, session, ws, pool, lost>>
      BY <1>3 DEF ReceiveSignal, Acted
  <2>2. PICK frame \in Frames(batch) :
            applied' = [applied EXCEPT ![p] = @ \cup Acted(p, batch, frame)]
      BY <2>1
  <2>3. UNCHANGED <<pc, phone, raced, camera, session, ws, pool, lost>>
      BY <2>1
  <2>4. session[p] \in Ids
      BY <1>1 DEF Inv, Holds
  <2>5. \A g \in Acted(p, batch, frame) : g.id = session[p]
      BY <2>4, ActedIsOwn DEF Acted
  <2>6. /\ DOMAIN applied' = Procs /\ Others(p)
        /\ applied'[p] = applied[p] \cup Acted(p, batch, frame)
      BY <2>2, <2>3 DEF Inv, Others
  <2>7. Holds(p)'
      BY <1>1, <2>3, <2>5, <2>6 DEF Inv, Holds
  <2>8. TypeOK'
      BY <1>1, <2>3 DEF Inv, TypeOK
  <2>9. \A q \in Procs : Holds(q)'
      BY <1>1, <2>6, <2>7, OthersHold
  <2>10. \A q \in Procs : Agrees(q)'
      BY <1>1, <2>3, <2>6, OthersAgree
  <2>11. OrphansExcused'
      BY <2>3, <2>6, StillExcused
  <2> QED
      BY <2>6, <2>8, <2>9, <2>10, <2>11 DEF Inv
<1> QED
    BY <1>2, <1>3

LEMMA ConnectedInv ==
    ASSUME Inv, NEW p \in Procs, Connected(p) PROVE Inv'
<1>1. CASE ~Open(p)
    BY <1>1, CloseInv DEF Connected
<1>2. CASE Open(p)
  <2>1. /\ pc[p] = "await" /\ pc'[p] = "carry" /\ pc' \in [Procs -> Labels]
        /\ \A q \in Procs \ {p} : pc'[q] = pc[q]
      BY <1>2, GotoFacts DEF Connected, Labels
  <2>2. /\ UNCHANGED <<phone, raced, camera, session, ws, pool, lost, file,
                       online, mishaps>>
        /\ DOMAIN applied' = Procs /\ applied'[p] = {}
        /\ Others(p)
      BY <1>2, <2>1 DEF Connected, Others, Inv
  <2>3. TypeOK'
      BY <2>1, <2>2 DEF Inv, TypeOK
  <2>4. Holds(p)'
      BY <2>1, <2>2 DEF Inv, Holds
  <2>5. \A q \in Procs : Holds(q)'
      BY <2>2, <2>4, OthersHold
  <2>6. \A q \in Procs : Agrees(q)'
      BY <2>1, <2>2, OthersAgree
  <2>7. OrphansExcused'
      BY <2>2, StillExcused
  <2> QED
      BY <2>2, <2>3, <2>5, <2>6, <2>7 DEF Inv
<1> QED
    BY <1>1, <1>2

\* The ends of a call.
LEMMA EndsInv ==
    ASSUME Inv, NEW p \in Procs,
           Timeout(p) \/ NoticeClosed(p) \/ CallEnds(p)
    PROVE  Inv'
<1>1. Close(p) /\ UNCHANGED <<file, online>>
    BY DEF Timeout, NoticeClosed, CallEnds
<1>2. Mishap \/ mishaps' = mishaps
    BY DEF Timeout, NoticeClosed, CallEnds
<1> QED
    BY <1>1, <1>2, CloseInv

-----------------------------------------------------------------------------
\* The world: no run moves, and a session that leaves a pool leaves lost too.
LEMMA WorldInv ==
    ASSUME Inv, UNCHANGED <<runVars, file>>, Mishap \/ mishaps' = mishaps,
           online' \subseteq Cameras,
           ws' \in [Phones -> Procs \cup {NoId}],
           pool' \subseteq pool, lost' \subseteq lost,
           \A s \in pool' : s.id \in lost => s.id \in lost'
    PROVE  Inv'
<1>1. UNCHANGED <<pc, phone, raced, camera, session, applied, file>>
    BY DEF runVars
<1>2. TypeOK'
  <2>1. mishaps' \in 0..MaxMishaps
      BY MishapFacts
  <2>2. lost' \subseteq Ids
      BY DEF Inv, TypeOK
  <2>3. /\ \A s \in pool' : s.id \in Ids /\ s.camera \in Cameras
        /\ \A s, t \in pool' : s.id = t.id => s = t
      BY DEF Inv, TypeOK
  <2> QED
      BY <1>1, <2>1, <2>2, <2>3 DEF Inv, TypeOK
<1>3. \A q \in Procs : Holds(q)' /\ Agrees(q)'
    BY <1>1 DEF Inv, Holds, Agrees
<1>4. OrphansExcused'
    BY <1>1 DEF Inv, OrphansExcused, Held
<1> QED
    BY <1>1, <1>2, <1>3, <1>4 DEF Inv

LEMMA LingerInv == ASSUME Inv, Linger PROVE Inv'
<1>1. PICK s \in pool : pool' = pool \ {s} /\ lost' = lost \ {s.id}
    BY DEF Linger
<1>2. \A t \in pool' : t.id \in lost => t.id \in lost'
    BY <1>1 DEF Inv, TypeOK
<1>3. UNCHANGED <<runVars, ws, file, online, mishaps>>
    BY DEF Linger
<1>4. online' \subseteq Cameras /\ ws' \in [Phones -> Procs \cup {NoId}]
    BY <1>3 DEF Inv, TypeOK
<1> QED
    BY <1>1, <1>2, <1>3, <1>4, WorldInv

LEMMA QuietInv ==
    ASSUME Inv,
           \/ Camera \/ Undeliverable \/ Switched
           \/ \E p \in Procs : Discard(p) \/ Drop(p)
           \/ UNCHANGED vars
    PROVE  Inv'
<1>1. UNCHANGED <<runVars, file, pool, lost>>
    BY DEF Camera, Undeliverable, Switched, Discard, Drop, vars, cloudVars
<1>2. Mishap \/ mishaps' = mishaps
    BY DEF Camera, Undeliverable, Switched, Discard, Drop, vars
<1>3. ws' \in [Phones -> Procs \cup {NoId}]
    BY DEF Camera, Undeliverable, Switched, Discard, Drop, vars, cloudVars,
           Inv, TypeOK
<1>4. online' \subseteq Cameras
    BY DEF Camera, Undeliverable, Switched, Discard, Drop, vars, Inv, TypeOK
<1> QED
    BY <1>1, <1>2, <1>3, <1>4, WorldInv

-----------------------------------------------------------------------------
\* Inv holds in every state of every behaviour.
LEMMA Invariance == Spec => []Inv
<1>1. Inv /\ [Next]_vars => Inv'
  <2> SUFFICES ASSUME Inv, [Next]_vars PROVE Inv'
      OBVIOUS
  <2>1. ASSUME NEW p \in Procs, Run(p) PROVE Inv'
      BY <2>1, WriteIdentityInv, RereadIdentityInv, LoginInv, ConnectInv,
         CreateSessionInv, SendOfferInv, ReceiveSignalInv, ConnectedInv,
         EndsInv DEF Run
  <2>2. ASSUME NEW p \in Procs, Start(p) \/ RequestFails(p)
        PROVE  Inv'
      BY <2>2, StartInv, RequestFailsInv
  <2>3. ASSUME NEW p \in Procs, CallEnds(p) \/ Crash(p)
        PROVE  Inv'
      BY <2>3, EndsInv, CrashInv
  <2>4. ASSUME \/ Camera \/ Undeliverable \/ Switched
               \/ \E p \in Procs : Discard(p) \/ Drop(p)
               \/ UNCHANGED vars
        PROVE  Inv'
      BY <2>4, QuietInv
  <2>5. CASE Linger
      BY <2>5, LingerInv
  <2> QED
      BY <2>1, <2>2, <2>3, <2>4, <2>5 DEF Next
<1> QED
    BY <1>1, InitInv, PTL DEF Spec

\* The variables of Service keep their types, and no two places of the pools
\* hold the same session.
THEOREM ServiceTypes == Spec => []TypeOK
BY Invariance, PTL DEF Inv

\* signalling.matching_signal: the handshake acts on no answer and no
\* candidate that does not name its own call, whatever the websocket of the
\* install brings.
THEOREM OnlyOwnSignals == Spec => []NoForeignSignal
<1>1. Inv => NoForeignSignal
    BY DEF Inv, Holds, NoForeignSignal
<1> QED
    BY <1>1, Invariance, PTL

\* A session that no run holds and that still takes a place in a pool is lost:
\* its run was killed, had lost its websocket, could not open its sink, or got
\* no usable answer to its create_session.
THEOREM NoOrphans == Spec => []OrphansExcused
BY Invariance, PTL DEF Inv

\* env.identity: the processes of one state directory go by one identity, so
\* that the server leaves one of them its websocket, except when their first
\* runs met at the identity file.
THEOREM OneWebsocket == Spec => []OneWebsocketPerInstall
<1>1. Inv => OneWebsocketPerInstall
  <2> SUFFICES ASSUME Inv, ~raced
               PROVE  Cardinality({p \in Procs : Open(p)}) <= 1
      BY DEF OneWebsocketPerInstall
  <2> DEFINE S == {p \in Procs : Open(p)}
  <2>1. \A p, q \in S : p = q
      BY DEF Inv, Agrees, Open
  <2>2. CASE S = {}
      BY <2>2, FS_EmptySet
  <2>3. CASE S # {}
    <3>1. PICK p : S = {p}
        BY <2>1, <2>3
    <3> QED
        BY <3>1, FS_Singleton
  <2> QED
      BY <2>2, <2>3
<1> QED
    BY <1>1, Invariance, PTL

=============================================================================
