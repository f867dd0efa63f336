------------------------------ MODULE Service ------------------------------
(***************************************************************************)
(* The processes that share one state directory, from their start to their *)
(* exit: service.serve and stream.stream around the call, with the         *)
(* identity file of env.identity, the signalling server that grants one    *)
(* websocket to an install, and the camera with its small pool of calls.   *)
(*                                                                         *)
(* SignIn has the sign-in and PlaceCall the call in detail; here each is a *)
(* few steps.  "proxy" is restarted by a supervisor whenever it exits; a   *)
(* start of any other process is a mishap, and so is all that goes wrong   *)
(* by itself.                                                              *)
(***************************************************************************)
EXTENDS Signalling, FiniteSets

CONSTANTS
    Procs,        \* the processes
    proxy,        \* the one that is supervised
    Cameras,      \* the cameras of the account
    wanted,       \* NOOIE_DEVICE_ID: a camera, or NoId
    PoolSize,     \* calls a camera can hold
    MaxSessions,  \* bound on the sessions in use or still referred to
    MaxMishaps    \* bound on what goes wrong by itself

ASSUME ProcsAssumption == IsFiniteSet(Procs) /\ proxy \in Procs
ASSUME CamerasAssumption == Cameras # {}
ASSUME NoIdAssumption == NoId \notin Nat /\ NoId \notin Procs
ASSUME BoundsAssumption ==
    PoolSize \in Nat /\ MaxSessions \in Nat /\ MaxMishaps \in Nat

VARIABLES
    pc,        \* where a process is
    file,      \* the identity file
    raced,     \* ghost: two first runs, side by side, found it missing
    phone,     \* phone_code: the identity a run goes by
    camera,    \* the camera a run has settled on
    session,   \* the session it created
    applied,   \* the signals the handshake has acted upon
    ws,        \* the process holding the websocket of an install
    pool,      \* the sessions the cameras hold
    lost,      \* ghost: sessions their run could not release, or did not
               \* know of
    offers,    \* on the way to a camera
    signals,   \* on the way from a camera
    online,    \* the cameras that are
    mishaps

runVars   == <<pc, phone, raced, camera, session, applied>>
cloudVars == <<ws, pool, lost, offers, signals>>
vars == <<runVars, cloudVars, file, online, mishaps>>

Labels == {"off", "write", "reread", "signin", "connect", "create", "offer",
           "await", "carry"}
Ids == 1..MaxSessions
Phones == 1..Cardinality(Procs) + 1

TypeOK ==
    /\ pc \in [Procs -> Labels]
    /\ file \in Phones \cup {NoId}
    /\ raced \in BOOLEAN
    /\ phone \in [Procs -> Phones \cup {NoId}]
    /\ camera \in [Procs -> Cameras \cup {NoId}]
    /\ session \in [Procs -> Ids \cup {NoId}]
    /\ ws \in [Phones -> Procs \cup {NoId}]
    /\ \A s \in pool : s.id \in Ids /\ s.camera \in Cameras
    /\ \A s, t \in pool : s.id = t.id => s = t
    /\ lost \subseteq Ids
    /\ online \subseteq Cameras
    /\ mishaps \in 0..MaxMishaps

Init ==
    /\ pc = [p \in Procs |-> "off"]
    /\ file = NoId
    /\ raced = FALSE
    /\ phone = [p \in Procs |-> NoId]
    /\ camera = [p \in Procs |-> NoId]
    /\ session = [p \in Procs |-> NoId]
    /\ applied = [p \in Procs |-> {}]
    /\ ws = [i \in Phones |-> NoId]
    /\ pool = {}
    /\ lost = {}
    /\ offers = {}
    /\ signals = {}
    /\ online = {CHOOSE c \in Cameras : TRUE}
    /\ mishaps = 0

Mishap == mishaps < MaxMishaps /\ mishaps' = mishaps + 1

Goto(p, label) == pc' = [pc EXCEPT ![p] = label]

\* websocket.closed is false.
Open(p) == phone[p] # NoId /\ ws[phone[p]] = p

Held == {session[p] : p \in Procs} \ {NoId}

\* signalling.offer, for its camera.
Offer(p) == [camera |-> camera[p], phone |-> phone[p],
             envelope |-> Envelope("SdpOffer", session[p], session[p])]

SessionOf(o) == o.envelope.data[1].session

\* Session ids do not repeat: one is free again when nothing refers to it.
Free == Ids \ (Held \cup {s.id : s \in pool} \cup {SessionOf(o) : o \in offers}
                    \cup {g.id : g \in signals})

\* The run is over: nothing of it is left but what lies in the cloud.
Exit(p) ==
    /\ Goto(p, "off")
    /\ phone' = [phone EXCEPT ![p] = NoId]
    /\ camera' = [camera EXCEPT ![p] = NoId]
    /\ session' = [session EXCEPT ![p] = NoId]
    /\ applied' = [applied EXCEPT ![p] = {}]
    /\ ws' = [i \in Phones |-> IF ws[i] = p THEN NoId ELSE ws[i]]
    /\ raced' = (raced /\ \E q \in Procs \ {p} : pc[q] # "off")

\* The session of p stays behind in the pool.
Abandon(p) == lost' = lost \cup ({session[p]} \ {NoId})

-----------------------------------------------------------------------------
(***************************************************************************)
(* A run, up to its call.                                                  *)
(***************************************************************************)

\* The supervisor starts the proxy, somebody else the others.
Begin(p) ==
    /\ pc[p] = "off"
    /\ IF p = proxy THEN UNCHANGED mishaps ELSE Mishap

\* Another process has found no identity either and is about to write its own.
Beside(p) == \E q \in Procs \ {p} : pc[q] = "write"

\* Mutant: the file is never found usable.
StartAfresh(p) ==
    /\ Begin(p)
    /\ Goto(p, "write")
    /\ raced' = (raced \/ (file = NoId /\ Beside(p)))
    /\ UNCHANGED <<phone, raced, camera, session, applied, cloudVars, file,
                   online>>

\* serve, up to the first reading of identity.
Start(p) ==
    /\ Begin(p)
    /\ phone' = [phone EXCEPT ![p] = file]
    /\ Goto(p, IF file = NoId THEN "write" ELSE "signin")
    /\ raced' = (raced \/ (file = NoId /\ Beside(p)))
    /\ UNCHANGED <<camera, session, applied, cloudVars, file, online>>

\* os.replace of a fresh one, whatever the file holds by now.
WriteIdentity(p) ==
    /\ pc[p] = "write"
    /\ file' = Min(Phones \ ({file} \cup {phone[q] : q \in Procs}))
    /\ Goto(p, "reread")
    /\ UNCHANGED <<phone, raced, camera, session, applied, cloudVars, online,
                   mishaps>>

\* The last reading: the identity a run goes by is the one in the file.
RereadIdentity(p) ==
    /\ pc[p] = "reread"
    /\ phone' = [phone EXCEPT ![p] = file]
    /\ Goto(p, "signin")
    /\ UNCHANGED <<raced, camera, session, applied, cloudVars, file, online,
                   mishaps>>

Matching == IF wanted = NoId THEN Cameras ELSE Cameras \cap {wanted}

\* select_camera: the only one online, else the only one there is.
Selected ==
    IF Cardinality(Matching \cap online) = 1 THEN Matching \cap online
    ELSE IF Cardinality(Matching) = 1 THEN Matching ELSE {}

\* Mutant: a run goes on without a camera.
LoginUnchecked(p) ==
    /\ pc[p] = "signin"
    /\ camera' = [camera EXCEPT ![p] = IF Selected = {} THEN NoId
                                       ELSE CHOOSE c \in Selected : TRUE]
    /\ Goto(p, "connect")
    /\ UNCHANGED <<phone, raced, session, applied, cloudVars, file, online,
                   mishaps>>

\* login and register: the account answers and one camera is settled on.
Login(p) ==
    /\ pc[p] = "signin"
    /\ IF Selected = {}
       THEN Exit(p)
       ELSE /\ \E c \in Selected : camera' = [camera EXCEPT ![p] = c]
            /\ Goto(p, "connect")
            /\ UNCHANGED <<phone, raced, session, applied, ws>>
    /\ UNCHANGED <<pool, lost, offers, signals, file, online, mishaps>>

\* ws_connect: "a second connection closes the first".
Connect(p) ==
    /\ pc[p] = "connect"
    /\ ws' = [ws EXCEPT ![phone[p]] = p]
    /\ Goto(p, "create")
    /\ UNCHANGED <<phone, raced, camera, session, applied, pool, lost, offers,
                   signals, file, online, mishaps>>

\* The server has created a session for p and the pool of its camera holds it.
Created(p, id) ==
    /\ \A other \in Free : id <= other
    /\ pool' = pool \cup {[id |-> id, camera |-> camera[p]]}

\* create_session is answered.  place_call goes on at once and opens the sink,
\* before its try block: when that fails, nothing is released.
CreateSession(p) ==
    /\ pc[p] = "create"
    /\ \E id \in Free :
           /\ Created(p, id)
           /\ \/ /\ session' = [session EXCEPT ![p] = id]
                 /\ Goto(p, "offer")
                 /\ UNCHANGED <<phone, raced, camera, applied, ws, lost,
                                mishaps>>
              \/ Mishap /\ Exit(p) /\ lost' = lost \cup {id}
    /\ UNCHANGED <<offers, signals, file, online>>

\* A request or the handshake of the websocket fails: RuntimeError.  The
\* server may have created the session all the same, when its answer is lost,
\* comes with another status or code, or is of no use to place_call.
RequestFails(p) ==
    /\ pc[p] \in {"signin", "connect", "create"}
    /\ Mishap
    /\ Exit(p)
    /\ \/ UNCHANGED <<pool, lost>>
       \/ /\ pc[p] = "create"
          /\ \E id \in Free : Created(p, id) /\ lost' = lost \cup {id}
    /\ UNCHANGED <<offers, signals, file, online>>

-----------------------------------------------------------------------------
(***************************************************************************)
(* The call.                                                               *)
(***************************************************************************)

\* Mutant: only a call that was answered is closed properly.
CloseAnswered(p) ==
    /\ pool' = IF Open(p) /\ applied[p] # {}
               THEN {s \in pool : s.id # session[p]} ELSE pool
    /\ IF Open(p) THEN UNCHANGED lost ELSE Abandon(p)
    /\ Exit(p)

\* The finally block follows at once on what ends the call: Close releases the
\* session, if it can still be sent.
Close(p) ==
    /\ pool' = IF Open(p) THEN {s \in pool : s.id # session[p]} ELSE pool
    /\ IF Open(p) THEN UNCHANGED lost ELSE Abandon(p)
    /\ Exit(p)

\* The offer and its candidates are sent, or the websocket is gone.
SendOffer(p) ==
    /\ pc[p] = "offer"
    /\ IF Open(p)
       THEN /\ offers' = offers \cup {Offer(p)}
            /\ Goto(p, "await")
            /\ UNCHANGED <<phone, raced, camera, session, applied, ws, pool,
                           lost>>
       ELSE Close(p) /\ UNCHANGED offers
    /\ UNCHANGED <<signals, file, online, mishaps>>

\* What a signal says of its call: an answer its session only, a candidate its
\* call only (a run has one of each, numbered alike here).
DataOf(g) == IF g.kind = "SdpAnswer" THEN Data(NoId, g.id) ELSE Data(g.id, NoId)

Signal(g) == Dict(g.kind, NoId, NoId, <<DataOf(g)>>, <<>>)

\* The frames that can carry some signals: side by side, or under another key,
\* as json in a string or not.
Frames(batch) ==
    {<<Dict("", NoId, NoId, <<>>, list)>> :
         list \in {[i \in 1..Len(order) |-> Signal(order[i])] :
                       order \in SetToSeqs(batch)}}
    \cup {<<Signal(g)>> : g \in {g \in batch : batch = {g}}}

\* What a frame brings to the websocket of p: one signal, or two of different
\* calls.  A camera trickles its candidates after its answer.
Deliverable(p) ==
    LET next == {g \in signals :
                    /\ g.phone = phone[p]
                    /\ \A h \in signals \ {g} :
                           h.id = g.id => h.kind # "SdpAnswer"}
    IN  {{g, h} : g, h \in next}

\* receive and matching_signal, in the polling loop: a rejection raises, an
\* answer or a candidate is handed to the peer.
ReceiveSignal(p) ==
    /\ pc[p] = "await" /\ Open(p)
    /\ \E batch \in Deliverable(p) : \E frame \in Frames(batch) :
           LET found == MatchingSignal(frame, session[p], session[p])
               acted == {g \in batch : [method |-> g.kind,
                                        data |-> DataOf(g)] \in found}
           IN  /\ signals' = signals \ batch
               /\ IF \E g \in acted : g.ret # 0
                  THEN Close(p)
                  ELSE /\ applied' = [applied EXCEPT ![p] = @ \cup acted]
                       /\ UNCHANGED <<pc, phone, raced, camera, session, ws,
                                      pool, lost>>
    /\ UNCHANGED <<offers, file, online, mishaps>>

Answered(p) == \E g \in applied[p] : g.kind = "SdpAnswer"

\* The peer is connected; the switch follows if the websocket still stands.
\* What its camera trickles from here on is read by the second loop, for
\* nothing.
Connected(p) ==
    /\ pc[p] = "await"
    /\ Answered(p)
    /\ IF Open(p)
       THEN /\ Goto(p, "carry")
            /\ applied' = [applied EXCEPT ![p] = {}]
            /\ signals' = {g \in signals : g.id # session[p]}
            /\ UNCHANGED <<phone, raced, camera, session, ws, pool, lost>>
       ELSE Close(p) /\ UNCHANGED signals
    /\ UNCHANGED <<offers, file, online, mishaps>>

\* An answer is on its way, or the peer is about to connect.
Coming(p) ==
    \/ Answered(p)
    \/ \E o \in offers : SessionOf(o) = session[p] /\ o.camera \in online
    \/ \E g \in signals : g.id = session[p] /\ g.kind = "SdpAnswer"

\* ANSWER_TIMEOUT; with the answer under way that is a mishap.
Timeout(p) ==
    /\ pc[p] = "await"
    /\ IF Open(p) /\ Coming(p) THEN Mishap ELSE UNCHANGED mishaps
    /\ Close(p)
    /\ UNCHANGED <<offers, signals, file, online>>

\* receive returns False: the websocket was taken over or dropped.
NoticeClosed(p) ==
    /\ pc[p] \in {"await", "carry"}
    /\ ~Open(p)
    /\ Close(p)
    /\ UNCHANGED <<offers, signals, file, online, mishaps>>

\* The second loop looks for SwitchResp only and drops any other frame.
Discard(p) ==
    /\ pc[p] = "carry" /\ Open(p)
    /\ \E batch \in Deliverable(p) : signals' = signals \ batch
    /\ UNCHANGED <<runVars, ws, pool, lost, offers, file, online,
                   mishaps>>

\* A track, the peer, the sink or a signal ends the call.
CallEnds(p) ==
    /\ pc[p] = "carry"
    /\ Close(p)
    /\ UNCHANGED <<offers, signals, file, online, mishaps>>

-----------------------------------------------------------------------------
(***************************************************************************)
(* The cloud, the cameras and the world.                                   *)
(***************************************************************************)

\* A camera answers an offer and trickles a candidate, or rejects the offer
\* when it holds too many calls; it says nothing when it is offline or the
\* session is gone.
Camera ==
    /\ \E o \in offers :
           LET id == SessionOf(o)
               Made(kind, ret) == [kind |-> kind, ret |-> ret, id |-> id,
                                   phone |-> o.phone]
               mine == {s \in pool : s.camera = o.camera}
           IN  /\ offers' = offers \ {o}
               /\ signals' = signals \cup
                      IF o.camera \notin online \/ ~\E s \in mine : s.id = id
                      THEN {}
                      ELSE IF Cardinality(mine) > PoolSize
                      THEN {Made("SdpAnswer", 1)}
                      ELSE {Made("SdpAnswer", 0), Made("IceCandidate", 0)}
    /\ UNCHANGED <<runVars, ws, pool, lost, file, online, mishaps>>

\* The camera gives up a session that nobody attends to.
Linger ==
    /\ \E s \in pool :
           /\ s.id \notin Held
           /\ pool' = pool \ {s}
           /\ lost' = lost \ {s.id}
    /\ UNCHANGED <<runVars, ws, offers, signals, file, online, mishaps>>

\* The server gives up the signals of a call that is over.
Undeliverable ==
    /\ \E g \in signals :
           /\ g.id \notin Held
           /\ signals' = {h \in signals : h.id # g.id}
    /\ UNCHANGED <<runVars, ws, pool, lost, offers, file, online,
                   mishaps>>

\* The process is killed outright.
Crash(p) ==
    /\ pc[p] # "off"
    /\ Mishap
    /\ Abandon(p)
    /\ Exit(p)
    /\ UNCHANGED <<pool, offers, signals, file, online>>

\* The websocket drops.
Drop(p) ==
    /\ Open(p)
    /\ Mishap
    /\ ws' = [ws EXCEPT ![phone[p]] = NoId]
    /\ UNCHANGED <<runVars, pool, lost, offers, signals, file, online>>

\* A camera comes or goes.
Switched ==
    /\ Mishap
    /\ \E c \in Cameras : online' = IF c \in online THEN online \ {c}
                                    ELSE online \cup {c}
    /\ UNCHANGED <<runVars, cloudVars, file>>

Run(p) ==
    \/ WriteIdentity(p) \/ RereadIdentity(p) \/ Login(p) \/ Connect(p)
    \/ CreateSession(p) \/ SendOffer(p) \/ ReceiveSignal(p) \/ Connected(p)
    \/ Timeout(p) \/ NoticeClosed(p)

Next ==
    \/ \E p \in Procs : \/ Start(p) \/ Run(p) \/ RequestFails(p) \/ Discard(p)
                        \/ CallEnds(p) \/ Crash(p) \/ Drop(p)
    \/ Camera \/ Linger \/ Undeliverable \/ Switched

\* Every await of a run ends, the supervisor restarts the proxy, and the cloud
\* and the cameras act in the end.  Nobody promises that a call ends.
Fairness ==
    /\ WF_vars(Start(proxy))
    /\ \A p \in Procs : WF_vars(Run(p))
    /\ WF_vars(Camera) /\ WF_vars(Linger) /\ WF_vars(Undeliverable)

Spec == Init /\ [][Next]_vars /\ Fairness

-----------------------------------------------------------------------------
(***************************************************************************)
(* Properties.                                                             *)
(***************************************************************************)

\* signalling.py:185-194, "find this call's answer": a run acts on no answer
\* and no candidate of another call, although the websocket is that of the
\* install and brings what is late for an earlier call or meant for another
\* process.
NoForeignSignal ==
    \A p \in Procs : \A g \in applied[p] : g.id = session[p]

\* stream.py:328, "always release the session": one that no run holds any more
\* and that still takes a place in a pool belongs to a run that was killed, had
\* lost its websocket, could not open its sink, or never got a usable answer
\* to its create_session.
OrphansExcused == \A s \in pool : s.id \in Held \cup lost

\* src/README.md:62: two processes on one state directory end each other's
\* calls.  Only when their first runs were at the identity file together can
\* both keep a websocket.
OneWebsocketPerInstall == raced \/ Cardinality({p \in Procs : Open(p)}) <= 1

\* src/README.md, Service: "a restart recovers a dropped call".  Once exactly
\* one camera stays online, the proxy carries its call again and again,
\* whatever killed, displaced or rejected it before and whatever sessions it
\* left in the pool.
Recovers ==
    <>[](Cardinality(online) = 1) => []<>(pc[proxy] = "carry")

=============================================================================
