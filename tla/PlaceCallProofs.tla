-------------------------- MODULE PlaceCallProofs --------------------------
(***************************************************************************)
(* Proofs about one call (PlaceCall), for any set of tracks and any number *)
(* of trickled candidates: its types, an inductive invariant, the safety   *)
(* properties that follow from it, and that it implements CallPromise.     *)
(***************************************************************************)
EXTENDS PlaceCall, TLAPS

(***************************************************************************)
(* The members of the sets of labels, reasons, errors and pump states, so  *)
(* that the steps below need not expand the sets.                          *)
(***************************************************************************)

\* Every label of place_call's await points is one of Labels.
LEMMA LabelFacts ==
    /\ "begin" \in Labels
    /\ "offer" \in Labels
    /\ "send" \in Labels
    /\ "trickle" \in Labels
    /\ "head" \in Labels
    /\ "recv" \in Labels
    /\ "addcand" \in Labels
    /\ "answer" \in Labels
    /\ "switch" \in Labels
    /\ "settle" \in Labels
    /\ "keyframe" \in Labels
    /\ "stream" \in Labels
    /\ "watch" \in Labels
    /\ "rekey" \in Labels
    /\ "close" \in Labels
    /\ "join" \in Labels
    /\ "cancel" \in Labels
    /\ "gather" \in Labels
    /\ "flush" \in Labels
    /\ "bye" \in Labels
    /\ "done" \in Labels
  BY DEF Labels, Placing, Handshake, Carrying, Unwinding

\* Every reason the code gives to Ending.set is one of Reasons.
LEMMA ReasonFacts ==
    /\ "stopped" \in Reasons
    /\ "peer" \in Reasons
    /\ "camera" \in Reasons
    /\ "sink" \in Reasons
    /\ "pump" \in Reasons
    /\ "signalling" \in Reasons
  BY DEF Reasons

\* Every class of exception place_call can end with is one of Errors.
LEMMA ErrorFacts ==
    /\ "none" \in Errors
    /\ "sink" \in Errors
    /\ "told" \in Errors
    /\ "library" \in Errors
  BY DEF Errors

\* Every state of a pump task is one of PumpStates.
LEMMA PumpFacts ==
    /\ "none" \in PumpStates
    /\ "new" \in PumpStates
    /\ "run" \in PumpStates
    /\ "cancelling" \in PumpStates
    /\ "ended" \in PumpStates
  BY DEF PumpStates, Alive

-----------------------------------------------------------------------------
(***************************************************************************)
(* Types.  The flags, the counters and the rest are kept apart because the *)
(* provers that deal with each of them differ.                             *)
(***************************************************************************)

\* No step of place_call gives a flag anything but a truth value.
LEMMA FlagsStep == FlagsOK /\ [Next]_vars => FlagsOK'
<1> SUFFICES ASSUME FlagsOK, [Next]_vars PROVE FlagsOK'
  OBVIOUS
<1> USE DEF FlagsOK, Alone, mainVars, wsVars, peerVars, endingVars, sinkVars,
            flowVars
<1>1. CASE Main
  BY Zenon, <1>1
  DEF Main, OpenSink, SinkRefused, CreateOffer, SendOffer, SendCandidate,
      CheckDeadline, PollNothing, PollClosed, PollCandidate, PollRejected,
      PollMalformed, PollAnswer, AddIceCandidate, SetRemoteDescription,
      SendSwitch, AwaitSwitchReply, RequestKeyframe, CheckEnding,
      WatchNothing, WatchClosed, WatchSwitchResp, RequestAgain, SendClose,
      AwaitStarted, CancelPumps, GatherPumps, CloseContainer, ClosePeer
<1>2. ASSUME NEW k \in Kinds, Pump(k) PROVE FlagsOK'
  BY Zenon, <1>2
  DEF Pump, PumpEnter, PumpMux, PumpStarved, PumpSinkFails, PumpCancelled,
      PumpEnd
<1>3. CASE UNCHANGED vars
  BY Zenon, <1>3 DEF vars
<1>4. QED
  BY Zenon, <1>1, <1>2, <1>3
  DEF Next, WakeSink, OnStateChange, OnSignal, PeerMoves, WebsocketDrops,
      DeadlinePasses, SignalArrives, ReaderStalls, ReaderResumes, Over, vars

\* Media is none, flows or was muxed, and the loop is free or blocked.
LEMMA FlowStep == FlowOK /\ [Next]_vars => FlowOK'
<1> SUFFICES ASSUME FlowOK, [Next]_vars PROVE FlowOK'
  OBVIOUS
<1> USE DEF FlowOK, Alone, mainVars, wsVars, peerVars, endingVars, sinkVars,
            flowVars
<1>1. CASE Main
  BY Zenon, <1>1
  DEF Main, OpenSink, SinkRefused, CreateOffer, SendOffer, SendCandidate,
      CheckDeadline, PollNothing, PollClosed, PollCandidate, PollRejected,
      PollMalformed, PollAnswer, AddIceCandidate, SetRemoteDescription,
      SendSwitch, AwaitSwitchReply, RequestKeyframe, CheckEnding,
      WatchNothing, WatchClosed, WatchSwitchResp, RequestAgain, SendClose,
      AwaitStarted, CancelPumps, GatherPumps, CloseContainer, ClosePeer
<1>2. ASSUME NEW k \in Kinds, Pump(k) PROVE FlowOK'
  BY Zenon, <1>2
  DEF Pump, PumpEnter, PumpMux, PumpStarved, PumpSinkFails, PumpCancelled,
      PumpEnd
<1>3. CASE UNCHANGED vars
  BY Zenon, <1>3 DEF vars
<1>4. QED
  BY Zenon, <1>1, <1>2, <1>3
  DEF Next, WakeSink, OnStateChange, OnSignal, PeerMoves, WebsocketDrops,
      DeadlinePasses, SignalArrives, ReaderStalls, ReaderResumes, Over, vars

\* No step leaves the bounds of the candidates or takes a callback that is
\* not pending.
LEMMA CountersStep == CountersOK /\ [Next]_vars => CountersOK'
<1> SUFFICES ASSUME CountersOK, [Next]_vars PROVE CountersOK'
  OBVIOUS
<1> USE MaxTrickleAssumption
    DEF CountersOK, EnterState, Alone, mainVars, wsVars, peerVars, endingVars,
        sinkVars, flowVars
<1>1. CASE CreateOffer
  BY <1>1 DEF CreateOffer
<1>2. CASE SendCandidate
  BY <1>2 DEF SendCandidate
<1>3. CASE ClosePeer
  BY <1>3 DEF ClosePeer
<1>4. CASE OnStateChange
  BY <1>4 DEF OnStateChange
<1>5. CASE PeerMoves
  BY <1>5 DEF PeerMoves
<1>6. CASE UNCHANGED <<trickle, pending>>
  BY <1>6
<1>7. ASSUME NEW k \in Kinds, Pump(k) PROVE UNCHANGED <<trickle, pending>>
  BY Zenon, <1>7
  DEF Pump, PumpEnter, PumpMux, PumpStarved, PumpSinkFails, PumpCancelled,
      PumpEnd
<1>8. Next => \/ CreateOffer \/ SendCandidate \/ ClosePeer \/ OnStateChange
              \/ PeerMoves \/ UNCHANGED <<trickle, pending>>
  BY Zenon, <1>7
  DEF Next, Main, OpenSink, SinkRefused, SendOffer, CheckDeadline,
      PollNothing, PollClosed, PollCandidate, PollRejected, PollMalformed,
      PollAnswer, AddIceCandidate, SetRemoteDescription, SendSwitch,
      AwaitSwitchReply, RequestKeyframe, CheckEnding, WatchNothing,
      WatchClosed, WatchSwitchResp, RequestAgain, SendClose, AwaitStarted,
      CancelPumps, GatherPumps, CloseContainer, WakeSink, OnSignal,
      WebsocketDrops, DeadlinePasses, SignalArrives, ReaderStalls,
      ReaderResumes, Over, vars
<1>9. QED
  BY <1>1, <1>2, <1>3, <1>4, <1>5, <1>6, <1>8 DEF vars

\* Every step goes to a label, gives a reason and leaves a state that exist.
LEMMA PlacesStep == PlacesOK /\ [Next]_vars => PlacesOK'
<1> SUFFICES ASSUME PlacesOK, [Next]_vars PROVE PlacesOK'
  OBVIOUS
<1> USE LabelFacts, ReasonFacts, ErrorFacts, PumpFacts
<1> USE DEF PlacesOK, Ready, At, Goto, Raise, Send, EndingSet, EnterState,
            Alone, mainVars, wsVars, peerVars, endingVars, sinkVars,
            flowVars
<1>1. CASE OpenSink
  BY <1>1 DEF OpenSink
<1>2. CASE SinkRefused
  BY <1>2 DEF SinkRefused
<1>3. CASE CreateOffer
  BY <1>3 DEF CreateOffer
<1>4. CASE SendOffer
  BY <1>4 DEF SendOffer
<1>5. CASE SendCandidate
  BY <1>5 DEF SendCandidate
<1>6. CASE CheckDeadline
  BY <1>6 DEF CheckDeadline
<1>7. CASE PollNothing
  BY <1>7 DEF PollNothing
<1>8. CASE PollClosed
  BY <1>8 DEF PollClosed
<1>9. CASE PollCandidate
  BY <1>9 DEF PollCandidate
<1>10. CASE PollRejected
  BY <1>10 DEF PollRejected
<1>11. CASE PollMalformed
  BY <1>11 DEF PollMalformed
<1>12. CASE PollAnswer
  BY <1>12 DEF PollAnswer
<1>13. CASE AddIceCandidate
  BY <1>13 DEF AddIceCandidate
<1>14. CASE SetRemoteDescription
  BY <1>14 DEF SetRemoteDescription, OnTracks
<1>15. CASE SendSwitch
  BY <1>15 DEF SendSwitch
<1>16. CASE AwaitSwitchReply
  BY <1>16 DEF AwaitSwitchReply
<1>17. CASE RequestKeyframe
  BY <1>17 DEF RequestKeyframe
<1>18. CASE CheckEnding
  BY <1>18 DEF CheckEnding
<1>19. CASE WatchNothing
  BY <1>19 DEF WatchNothing
<1>20. CASE WatchClosed
  BY <1>20 DEF WatchClosed
<1>21. CASE WatchSwitchResp
  BY <1>21 DEF WatchSwitchResp
<1>22. CASE RequestAgain
  BY <1>22 DEF RequestAgain
<1>23. CASE SendClose
  BY <1>23 DEF SendClose
<1>24. CASE AwaitStarted
  BY <1>24 DEF AwaitStarted
<1>25. CASE CancelPumps
  BY <1>25 DEF CancelPumps
<1>26. CASE GatherPumps
  BY <1>26 DEF GatherPumps
<1>27. CASE CloseContainer
  BY <1>27 DEF CloseContainer
<1>28. CASE ClosePeer
  BY <1>28 DEF ClosePeer
<1>29. CASE WakeSink
  BY <1>29 DEF WakeSink
<1>30. CASE OnStateChange
  BY <1>30 DEF OnStateChange
<1>31. CASE OnSignal
  BY <1>31 DEF OnSignal
<1>32. CASE PeerMoves
  BY <1>32 DEF PeerMoves
<1>33. CASE WebsocketDrops
  BY <1>33 DEF WebsocketDrops
<1>34. CASE DeadlinePasses
  BY <1>34 DEF DeadlinePasses
<1>35. CASE SignalArrives
  BY <1>35 DEF SignalArrives
<1>36. CASE ReaderStalls
  BY <1>36 DEF ReaderStalls
<1>37. CASE ReaderResumes
  BY <1>37 DEF ReaderResumes
<1>38. CASE Over
  BY <1>38 DEF Over, vars
<1>39. ASSUME NEW k \in Kinds, Pump(k) PROVE PlacesOK'
  BY <1>39
  DEF Pump, PumpEnter, PumpMux, PumpStarved, PumpSinkFails, PumpCancelled,
      PumpEnd
<1>40. CASE UNCHANGED vars
  BY <1>40 DEF vars
<1>41. QED
  BY <1>1, <1>2, <1>3, <1>4, <1>5, <1>6, <1>7, <1>8, <1>9, <1>10, <1>11,
     <1>12, <1>13, <1>14, <1>15, <1>16, <1>17, <1>18, <1>19, <1>20, <1>21,
     <1>22, <1>23, <1>24, <1>25, <1>26, <1>27, <1>28, <1>29, <1>30, <1>31,
     <1>32, <1>33, <1>34, <1>35, <1>36, <1>37, <1>38, <1>39, <1>40
  DEF Next, Main

\* Every variable of a call keeps its type, whatever place_call, its tasks
\* and its surroundings do.
THEOREM TypeCorrect == Spec => []TypeOK
<1>1. Init => TypeOK
  <2> SUFFICES ASSUME Init PROVE TypeOK
    OBVIOUS
  <2>1. FlagsOK
    BY Zenon DEF Init, FlagsOK
  <2>2. CountersOK
    <3>1. trickle = 0 /\ pending = 0
      BY Zenon DEF Init
    <3>2. QED
      BY <3>1, MaxTrickleAssumption DEF CountersOK
  <2>3. PlacesOK
    BY LabelFacts, ErrorFacts, PumpFacts DEF Init, PlacesOK
  <2>4. FlowOK
    BY Zenon DEF Init, FlowOK
  <2>5. QED
    BY <2>1, <2>2, <2>3, <2>4 DEF TypeOK
<1>2. TypeOK /\ [Next]_vars => TypeOK'
  BY FlagsStep, CountersStep, PlacesStep, FlowStep DEF TypeOK
<1>3. QED
  BY <1>1, <1>2, PTL DEF Spec

-----------------------------------------------------------------------------
(***************************************************************************)
(* The inductive invariant.  The properties constrain the end of a call;   *)
(* these parts say how each step of the way there prepares it.             *)
(***************************************************************************)

Ended == pc \in Unwinding \cup {"done"}

\* The finally block, in its order: the session, open_sink, the pumps, the
\* container; and before the sink is open there is nothing to undo.
Unwound ==
    /\ pc = "begin" => 
           container = "unopened" /\ started = "none" /\ Writers = {}
    /\ pc \in {"join", "cancel", "gather", "flush", "bye"} => released # "no"
    /\ pc \in {"cancel", "gather", "flush", "bye", "done"} =>
           started # "sleeping"
    /\ pc \in {"flush", "bye", "done"} => Writers = {}
    /\ pc = "bye" => container = "closed"
    /\ container = "unopened" => pc \in {"begin", "done"}
    /\ container = "closed" => pc \in {"bye", "done"}

\* Tracks come with the one answer that is applied: while another may still
\* be applied none has come, and the pumps wait for open_sink.
Tracked ==
    /\ started = "none" => streams = {}
    /\ started # "done" => \A k \in Kinds : pumps[k] = "none"
    /\ started # "none" => remoteDescription \/ Ended
    /\ pc = "answer" => ~remoteDescription

\* The peer needs the answer to connect, and the main task the event.
Answered ==
    /\ connectionState \in {"connecting", "connected"} => remoteDescription
    /\ connected => remoteDescription

\* An exception is remembered while it unwinds, and a stream has its reason.
Blamed ==
    /\ pc \in Carrying => streaming
    /\ Ended => error # "none" \/ (streaming /\ why # "")

Prepared ==
    /\ Unwound /\ Tracked /\ Answered /\ Blamed
    /\ NothingLeft /\ KeyframeReachesCamera /\ DeclaredArePumped

IInv == TypeOK /\ Prepared /\ DeadPeerNoticed

\* Every step keeps the order of the finally block, the declared tracks, the
\* answer and the blame.
LEMMA PreparedStep == PlacesOK /\ Prepared /\ [Next]_vars => Prepared'
<1> SUFFICES ASSUME PlacesOK, Prepared, [Next]_vars PROVE Prepared'
  OBVIOUS
<1> USE DEF Prepared, PlacesOK, Unwound, Tracked, Answered, Blamed,
            NothingLeft, KeyframeReachesCamera, DeclaredArePumped
<1> USE DEF Ended, Handshake, Carrying, Unwinding, Writers, Alive, PumpStates,
            EndingSet, EnterState, Ready, At, Goto, Raise, Send,
            Alone, mainVars, wsVars, peerVars, endingVars, sinkVars,
            flowVars
<1>1. CASE OpenSink
  BY <1>1 DEF OpenSink
<1>2. CASE SinkRefused
  BY <1>2 DEF SinkRefused
<1>3. CASE CreateOffer
  BY <1>3 DEF CreateOffer
<1>4. CASE SendOffer
  BY <1>4 DEF SendOffer
<1>5. CASE SendCandidate
  BY <1>5 DEF SendCandidate
<1>6. CASE CheckDeadline
  BY <1>6 DEF CheckDeadline
<1>7. CASE PollNothing
  BY <1>7 DEF PollNothing
<1>8. CASE PollClosed
  BY <1>8 DEF PollClosed
<1>9. CASE PollCandidate
  BY <1>9 DEF PollCandidate
<1>10. CASE PollRejected
  BY <1>10 DEF PollRejected
<1>11. CASE PollMalformed
  BY <1>11 DEF PollMalformed
<1>12. CASE PollAnswer
  BY <1>12 DEF PollAnswer
<1>13. CASE AddIceCandidate
  BY <1>13 DEF AddIceCandidate
<1>14. CASE SetRemoteDescription
  BY <1>14 DEF SetRemoteDescription, OnTracks
<1>15. CASE SendSwitch
  BY <1>15 DEF SendSwitch
<1>16. CASE AwaitSwitchReply
  BY <1>16 DEF AwaitSwitchReply
<1>17. CASE RequestKeyframe
  BY <1>17 DEF RequestKeyframe
<1>18. CASE CheckEnding
  BY <1>18 DEF CheckEnding
<1>19. CASE WatchNothing
  BY <1>19 DEF WatchNothing
<1>20. CASE WatchClosed
  BY <1>20 DEF WatchClosed
<1>21. CASE WatchSwitchResp
  BY <1>21 DEF WatchSwitchResp
<1>22. CASE RequestAgain
  BY <1>22 DEF RequestAgain
<1>23. CASE SendClose
  BY <1>23 DEF SendClose
<1>24. CASE AwaitStarted
  BY <1>24 DEF AwaitStarted
<1>25. CASE CancelPumps
  BY <1>25 DEF CancelPumps
<1>26. CASE GatherPumps
  BY <1>26 DEF GatherPumps
<1>27. CASE CloseContainer
  BY <1>27 DEF CloseContainer
<1>28. CASE ClosePeer
  BY <1>28 DEF ClosePeer
<1>29. CASE WakeSink
  BY <1>29 DEF WakeSink
<1>30. CASE OnStateChange
  BY <1>30 DEF OnStateChange
<1>31. CASE OnSignal
  BY <1>31 DEF OnSignal
<1>32. CASE PeerMoves
  BY <1>32 DEF PeerMoves
<1>33. CASE WebsocketDrops
  BY <1>33 DEF WebsocketDrops
<1>34. CASE DeadlinePasses
  BY <1>34 DEF DeadlinePasses
<1>35. CASE SignalArrives
  BY <1>35 DEF SignalArrives
<1>36. CASE ReaderStalls
  BY <1>36 DEF ReaderStalls
<1>37. CASE ReaderResumes
  BY <1>37 DEF ReaderResumes
<1>38. CASE Over
  BY <1>38 DEF Over, vars
<1>39. ASSUME NEW k \in Kinds, Pump(k) PROVE Prepared'
  <2>1. CASE PumpEnter(k)
    BY <2>1 DEF PumpEnter
  <2>2. ASSUME NEW from \in {"run", "cancelling"}, NEW reason \in Reasons,
               PumpEnd(k, from, reason)
        PROVE  Prepared'
    <3>1. why' # "" /\ (why # "" => why' = why)
      BY <2>2 DEF PumpEnd, Reasons
    <3>2. pumps[k] \in Alive /\ started = "done"
      BY <2>2 DEF PumpEnd
    <3>3. Writers # {} /\ pc \notin {"begin", "flush", "bye", "done"}
      BY <3>2
    <3>4. Unwound' /\ Tracked' /\ NothingLeft' /\ DeclaredArePumped'
      BY <2>2, <3>2, <3>3 DEF PumpEnd
    <3>5. Answered' /\ KeyframeReachesCamera' /\ Blamed'
      BY <2>2, <3>1 DEF PumpEnd
    <3>6. QED
      BY <3>4, <3>5
  <2>3. CASE PumpMux(k)
    BY <2>3 DEF PumpMux
  <2>4. QED
    BY <1>39, <2>1, <2>2, <2>3, ReasonFacts
    DEF Pump, PumpStarved, PumpSinkFails, PumpCancelled
<1>40. CASE UNCHANGED vars
  BY <1>40 DEF vars
<1>41. QED
  BY <1>1, <1>2, <1>3, <1>4, <1>5, <1>6, <1>7, <1>8, <1>9, <1>10, <1>11,
     <1>12, <1>13, <1>14, <1>15, <1>16, <1>17, <1>18, <1>19, <1>20, <1>21,
     <1>22, <1>23, <1>24, <1>25, <1>26, <1>27, <1>28, <1>29, <1>30, <1>31,
     <1>32, <1>33, <1>34, <1>35, <1>36, <1>37, <1>38, <1>39, <1>40
  DEF Next, Main

\* aiortc entering a state schedules on_state_change before anything can read
\* that state.
LEMMA EnterStateNoticed ==
    ASSUME CountersOK, DeadPeerNoticed, NEW s, EnterState(s), UNCHANGED why
    PROVE  DeadPeerNoticed'
<1>1. CASE s = connectionState
  BY <1>1 DEF DeadPeerNoticed, EnterState
<1>2. CASE s # connectionState
  <2>1. pending' # 0
    BY <1>2 DEF CountersOK, EnterState
  <2>2. QED
    BY <2>1 DEF DeadPeerNoticed
<1>3. QED
  BY <1>1, <1>2

\* No step lets a dead peer go by with nobody left to notice it.
LEMMA DeadPeerStep ==
    CountersOK /\ DeadPeerNoticed /\ [Next]_vars => DeadPeerNoticed'
<1> SUFFICES ASSUME CountersOK, DeadPeerNoticed, [Next]_vars
             PROVE  DeadPeerNoticed'
  OBVIOUS
<1> DEFINE Aside == /\ UNCHANGED <<connectionState, pending>>
                    /\ why # "" => why' # ""
<1> USE DEF EndingSet, Alone, mainVars, wsVars, peerVars, endingVars, sinkVars,
            flowVars
<1>1. CASE ClosePeer
  BY <1>1, EnterStateNoticed DEF ClosePeer
<1>2. CASE PeerMoves
  BY <1>2, EnterStateNoticed DEF PeerMoves
<1>3. CASE OnStateChange
  BY <1>3 DEF OnStateChange, DeadPeerNoticed
<1>4. CASE Aside
  BY <1>4 DEF DeadPeerNoticed
<1>5. ASSUME NEW k \in Kinds, Pump(k) PROVE Aside
  BY <1>5
  DEF Pump, PumpEnter, PumpMux, PumpStarved, PumpSinkFails, PumpCancelled,
      PumpEnd
<1>6. Next => ClosePeer \/ PeerMoves \/ OnStateChange \/ Aside
  BY <1>5
  DEF Next, Main, OpenSink, SinkRefused, CreateOffer, SendOffer,
      SendCandidate, CheckDeadline, PollNothing, PollClosed, PollCandidate,
      PollRejected, PollMalformed, PollAnswer, AddIceCandidate,
      SetRemoteDescription, SendSwitch, AwaitSwitchReply, RequestKeyframe,
      CheckEnding, WatchNothing, WatchClosed, WatchSwitchResp, RequestAgain,
      SendClose, AwaitStarted, CancelPumps, GatherPumps, CloseContainer,
      WakeSink, OnSignal, WebsocketDrops, DeadlinePasses, SignalArrives,
      ReaderStalls, ReaderResumes, Over, vars
<1>7. UNCHANGED vars => Aside
  BY DEF vars
<1>8. QED
  BY <1>1, <1>2, <1>3, <1>4, <1>6, <1>7

\* The inductive invariant holds in every state of a call.
THEOREM Invariance == Spec => []IInv
<1>1. Init => Prepared
  BY DEF Init, Prepared, Unwound, Tracked, Answered, Blamed, NothingLeft,
         KeyframeReachesCamera, DeclaredArePumped, Ended, Handshake, Carrying,
         Unwinding, Writers, Alive
<1>2. Init => DeadPeerNoticed
  BY DEF Init, DeadPeerNoticed
<1>3. TypeOK /\ Prepared /\ DeadPeerNoticed /\ [Next]_vars
          => Prepared' /\ DeadPeerNoticed'
  BY PreparedStep, DeadPeerStep DEF TypeOK
<1>4. QED
  BY <1>1, <1>2, <1>3, TypeCorrect, PTL DEF Spec, IInv

-----------------------------------------------------------------------------
(***************************************************************************)
(* The safety properties of a call.                                        *)
(***************************************************************************)

\* Once the finally block closed the container, no pump is alive and open_sink
\* can create none: nothing writes to a closed container.
THEOREM SinkStaysQuiet == Spec => []SinkQuiet
<1>1. IInv => SinkQuiet
  BY DEF IInv, Prepared, Unwound, SinkQuiet
<1>2. QED
  BY <1>1, Invariance, PTL

\* A call that opened its sink ends with the sink closed, its tasks finished,
\* its session released as far as possible and its peer closed.
THEOREM LeavesNothing == Spec => []NothingLeft
<1>1. IInv => NothingLeft
  BY DEF IInv, Prepared
<1>2. QED
  BY <1>1, Invariance, PTL

\* No failed or closed peer escapes on_state_change, late as it may run.
THEOREM NoticesDeadPeer == Spec => []DeadPeerNoticed
<1>1. IInv => DeadPeerNoticed
  BY DEF IInv
<1>2. QED
  BY <1>1, Invariance, PTL

\* request_keyframe is never called without the answer of the camera.
THEOREM ReachesCamera == Spec => []KeyframeReachesCamera
<1>1. IInv => KeyframeReachesCamera
  BY DEF IInv, Prepared
<1>2. QED
  BY <1>1, Invariance, PTL

\* Remux.start pumps every track that is ever declared.
THEOREM PumpsDeclared == Spec => []DeclaredArePumped
<1>1. IInv => DeclaredArePumped
  BY DEF IInv, Prepared
<1>2. QED
  BY <1>1, Invariance, PTL

\* place_call ends by an exception or, having streamed, with the reason known.
THEOREM ExplainsItself == Spec => []Explained
<1>1. IInv => Explained
  BY DEF IInv, Prepared, Blamed, Ended, Explained
<1>2. QED
  BY <1>1, Invariance, PTL

-----------------------------------------------------------------------------
(***************************************************************************)
(* PlaceCall implements CallPromise.                                       *)
(***************************************************************************)

\* Every label of the main task belongs to one phase of the abstract call.
LEMMA PhaseFacts ==
    /\ \A l \in Carrying : PhaseOf(l) = "carrying"
    /\ \A l \in Unwinding : PhaseOf(l) = "unwinding"
    /\ \A l \in Placing : PhaseOf(l) = "placing"
    /\ PhaseOf("done") = "over"
<1> USE DEF PhaseOf, Carrying, Unwinding, Placing, Handshake
<1>1. \A l \in Carrying : PhaseOf(l) = "carrying"
  OBVIOUS
<1>2. \A l \in Unwinding : PhaseOf(l) = "unwinding"
  OBVIOUS
<1>3. \A l \in Placing : PhaseOf(l) = "placing"
  OBVIOUS
<1>4. PhaseOf("done") = "over"
  OBVIOUS
<1>5. QED
  BY <1>1, <1>2, <1>3, <1>4

\* Only "done" is in the last phase.
LEMMA PhaseOver == \A l \in Labels : l # "done" => PhaseOf(l) # "over"
  BY PhaseFacts DEF Labels

\* An exception on the way to the stream makes the abstract call unwind.
LEMMA RaiseUnwinds ==
    ASSUME IInv, pc \in Placing \ {"begin"}, pc' = "close",
           UNCHANGED <<why, container, pumps>>
    PROVE  Promise!Unwind
<1>1. container = "open"
  BY DEF IInv, Prepared, Unwound, TypeOK, PlacesOK, Placing, Handshake
<1>2. PhaseOf(pc) = "placing" /\ PhaseOf(pc') = "unwinding"
  BY PhaseFacts DEF Unwinding
<1>3. UNCHANGED Writers
  BY DEF Writers
<1>4. QED
  BY <1>1, <1>2, <1>3 DEF Promise!Unwind, Promise!MayBlame

\* A step from await to await on the way to the stream is not seen.
LEMMA PlacingStutters ==
    ASSUME pc \in Placing, pc' \in Placing, UNCHANGED <<why, container, pumps>>
    PROVE  UNCHANGED Promise!cvars
<1>1. PhaseOf(pc) = "placing" /\ PhaseOf(pc') = "placing"
  BY PhaseFacts
<1>2. UNCHANGED Writers
  BY DEF Writers
<1>3. QED
  BY <1>1, <1>2 DEF Promise!cvars

\* A reason given while the main task stands still is reported, or comes late.
LEMMA BlameReports ==
    ASSUME IInv, pc # "done", why' = why \/ (why = "" /\ why' \in Reasons),
           UNCHANGED <<pc, container, pumps>>
    PROVE  Promise!Report \/ UNCHANGED Promise!cvars
<1>1. PhaseOf(pc) # "over" /\ PhaseOf(pc') = PhaseOf(pc)
  BY PhaseOver DEF IInv, TypeOK, PlacesOK
<1>2. UNCHANGED Writers
  BY DEF Writers
<1>3. CASE why' = why
  BY <1>1, <1>2, <1>3 DEF Promise!cvars
<1>4. CASE why = "" /\ why' \in Reasons
  BY <1>1, <1>2, <1>4 DEF Promise!Report
<1>5. QED
  BY <1>3, <1>4

\* Each step of a call is one of the steps CallPromise allows, or changes
\* nothing it speaks of.
LEMMA PromiseStep ==
    ASSUME IInv, IInv', [Next]_vars
    PROVE  [Promise!Next]_Promise!cvars
<1> USE PhaseFacts
<1> USE DEF Promise!Next, Promise!cvars
<1> USE DEF Promise!Open, Promise!Refuse, Promise!StartWriting,
            Promise!StopWriting, Promise!Report, Promise!Carry,
            Promise!Unwind, Promise!Close, Promise!Finish, Promise!MayBlame
<1> USE DEF IInv, TypeOK, PlacesOK, Prepared, Unwound, Tracked, Blamed,
            Handshake, Carrying, Unwinding, Placing, Writers, Alive,
            PumpStates, EndingSet, Ready, At, Goto, Raise, Send,
            Alone, mainVars, wsVars, peerVars, endingVars, sinkVars,
            flowVars
<1>1. CASE OpenSink
  BY <1>1 DEF OpenSink
<1>2. CASE SinkRefused
  BY <1>2 DEF SinkRefused
<1>3. CASE CreateOffer
  BY <1>3 DEF CreateOffer
<1>4. CASE SendOffer
  BY <1>4 DEF SendOffer
<1>5. CASE SendCandidate
  BY <1>5 DEF SendCandidate
<1>6. CASE CheckDeadline
  <2>1. pc \in Placing \ {"begin"} /\ UNCHANGED <<why, container, pumps>>
    BY <1>6 DEF CheckDeadline
  <2>2. pc' = "close" \/ pc' \in Placing
    BY <1>6 DEF CheckDeadline
  <2>3. QED
    BY <2>1, <2>2, RaiseUnwinds, PlacingStutters
<1>7. CASE PollNothing
  BY <1>7 DEF PollNothing
<1>8. CASE PollClosed
  BY <1>8 DEF PollClosed
<1>9. CASE PollCandidate
  BY <1>9 DEF PollCandidate
<1>10. CASE PollRejected
  BY <1>10 DEF PollRejected
<1>11. CASE PollMalformed
  BY <1>11 DEF PollMalformed
<1>12. CASE PollAnswer
  BY <1>12 DEF PollAnswer
<1>13. CASE AddIceCandidate
  <2>1. pc \in Placing \ {"begin"} /\ UNCHANGED <<why, container, pumps>>
    BY <1>13 DEF AddIceCandidate
  <2>2. pc' = "close" \/ pc' \in Placing
    BY <1>13 DEF AddIceCandidate
  <2>3. QED
    BY <2>1, <2>2, RaiseUnwinds, PlacingStutters
<1>14. CASE SetRemoteDescription
  BY <1>14 DEF SetRemoteDescription, OnTracks
<1>15. CASE SendSwitch
  <2>1. pc \in Placing \ {"begin"} /\ UNCHANGED <<why, container, pumps>>
    BY <1>15 DEF SendSwitch
  <2>2. pc' = "close" \/ pc' \in Placing
    BY <1>15 DEF SendSwitch
  <2>3. QED
    BY <2>1, <2>2, RaiseUnwinds, PlacingStutters
<1>16. CASE AwaitSwitchReply
  <2>1. pc \in Placing \ {"begin"} /\ UNCHANGED <<why, container, pumps>>
    BY <1>16 DEF AwaitSwitchReply
  <2>2. pc' = "close" \/ pc' \in Placing
    BY <1>16 DEF AwaitSwitchReply
  <2>3. QED
    BY <2>1, <2>2, RaiseUnwinds, PlacingStutters
<1>17. CASE RequestKeyframe
  BY <1>17 DEF RequestKeyframe
<1>18. CASE CheckEnding
  BY <1>18 DEF CheckEnding
<1>19. CASE WatchNothing
  BY <1>19 DEF WatchNothing
<1>20. CASE WatchClosed
  BY <1>20 DEF WatchClosed, Reasons
<1>21. CASE WatchSwitchResp
  BY <1>21 DEF WatchSwitchResp
<1>22. CASE RequestAgain
  BY <1>22 DEF RequestAgain
<1>23. CASE SendClose
  BY <1>23 DEF SendClose
<1>24. CASE AwaitStarted
  BY <1>24 DEF AwaitStarted
<1>25. CASE CancelPumps
  BY <1>25 DEF CancelPumps
<1>26. CASE GatherPumps
  BY <1>26 DEF GatherPumps
<1>27. CASE CloseContainer
  BY <1>27 DEF CloseContainer
<1>28. CASE ClosePeer
  BY <1>28 DEF ClosePeer
<1>29. CASE WakeSink
  <2>1. PhaseOf(pc) # "over" /\ PhaseOf(pc') = PhaseOf(pc)
    BY <1>29, PhaseOver DEF WakeSink
  <2>2. container = "open" /\ Writers = {}
    BY <1>29 DEF WakeSink
  <2>3. Writers' \in SUBSET Kinds
    OBVIOUS
  <2>4. QED
    BY <1>29, <2>1, <2>2, <2>3 DEF WakeSink
<1>30. CASE OnStateChange
  BY <1>30, BlameReports, ReasonFacts DEF OnStateChange
<1>31. CASE OnSignal
  BY <1>31, BlameReports, ReasonFacts DEF OnSignal
<1>32. CASE PeerMoves
  BY <1>32 DEF PeerMoves
<1>33. CASE WebsocketDrops
  BY <1>33 DEF WebsocketDrops
<1>34. CASE DeadlinePasses
  BY <1>34 DEF DeadlinePasses
<1>35. CASE SignalArrives
  BY <1>35 DEF SignalArrives
<1>36. CASE ReaderStalls
  BY <1>36 DEF ReaderStalls
<1>37. CASE ReaderResumes
  BY <1>37 DEF ReaderResumes
<1>38. CASE Over
  BY <1>38 DEF Over, vars
<1>39. ASSUME NEW k \in Kinds, Pump(k) PROVE [Promise!Next]_Promise!cvars
  <2>1. CASE PumpEnter(k)
    <3>1. UNCHANGED Writers
      BY <2>1 DEF PumpEnter
    <3>2. QED
      BY <2>1, <3>1 DEF PumpEnter
  <2>2. ASSUME NEW from \in {"run", "cancelling"}, NEW reason \in Reasons,
               PumpEnd(k, from, reason)
        PROVE  Promise!StopWriting
    <3>1. PhaseOf(pc) # "over" /\ PhaseOf(pc') = PhaseOf(pc)
      BY <2>2, PhaseOver DEF PumpEnd
    <3>2. Writers' \in SUBSET Writers
      BY <2>2 DEF PumpEnd
    <3>3. why' # "" /\ (why' = why \/ (why = "" /\ why' \in Reasons))
      BY <2>2 DEF PumpEnd, Reasons
    <3>4. QED
      BY <2>2, <3>1, <3>2, <3>3 DEF PumpEnd
  <2>3. CASE PumpMux(k)
    <3>1. UNCHANGED Writers
      BY <2>3 DEF PumpMux
    <3>2. QED
      BY <2>3, <3>1 DEF PumpMux
  <2>4. QED
    BY <1>39, <2>1, <2>2, <2>3, ReasonFacts
    DEF Pump, PumpStarved, PumpSinkFails, PumpCancelled
<1>40. CASE UNCHANGED vars
  BY <1>40 DEF vars
<1>41. QED
  BY <1>1, <1>2, <1>3, <1>4, <1>5, <1>6, <1>7, <1>8, <1>9, <1>10, <1>11,
     <1>12, <1>13, <1>14, <1>15, <1>16, <1>17, <1>18, <1>19, <1>20, <1>21,
     <1>22, <1>23, <1>24, <1>25, <1>26, <1>27, <1>28, <1>29, <1>30, <1>31,
     <1>32, <1>33, <1>34, <1>35, <1>36, <1>37, <1>38, <1>39, <1>40
  DEF Next, Main

\* Every behaviour of a call is one that CallPromise allows.
THEOREM ImplementsPromise == Spec => KeepsPromise
<1>1. Init => Promise!Init
  <2> SUFFICES ASSUME Init PROVE Promise!Init
    OBVIOUS
  <2>1. PhaseOf(pc) = "placing"
    BY PhaseFacts DEF Init, Placing
  <2>2. Writers = {}
    BY DEF Init, Writers, Alive
  <2>3. QED
    BY <2>1, <2>2 DEF Init, Promise!Init
<1>2. IInv /\ IInv' /\ [Next]_vars => [Promise!Next]_Promise!cvars
  BY PromiseStep
<1>3. QED
  BY <1>1, <1>2, Invariance, PTL DEF Spec, KeepsPromise, Promise!Spec

=============================================================================
