----------------------------- MODULE PlaceCall -----------------------------
(***************************************************************************)
(* One call of nooie-proxy, as stream.place_call runs it (stream.py).      *)
(*                                                                         *)
(* Everything here happens on ONE asyncio event loop.  The actors are      *)
(*   - the main task: place_call itself, one pc label per await;           *)
(*   - open_sink, the task the first on_track creates: it sleeps half a    *)
(*     second and then starts one pump task per declared track;            *)
(*   - the pumps (Remux.pump), each copying one track into the container;  *)
(*   - on_state_change, run by the loop as a task of its own some time     *)
(*     after aiortc announced a change, and reading the state it finds     *)
(*     THEN;                                                               *)
(*   - the signal callback, which also needs the loop to run.              *)
(* A step is what one of them does between two awaits.  container.mux and  *)
(* container.close are synchronous: while the reader of the sink does not  *)
(* read, the loop itself is "blocked" and nobody takes a step.             *)
(*                                                                         *)
(* Time is abstract: any receive may come back empty, the half second may  *)
(* end at any moment, and expired becomes true once ANSWER_TIMEOUT has     *)
(* passed.  Messages are what signalling.matching_signal and sdp make of   *)
(* them: an answer, a candidate, a rejection, something unusable, noise.   *)
(***************************************************************************)
EXTENDS Naturals

CONSTANTS
    Kinds,       \* the kinds of track, "video" and "audio" in the code
    MaxTrickle   \* bound on the local candidates one offer trickles

ASSUME MaxTrickleAssumption == MaxTrickle \in Nat

VARIABLES
    pc,                 \* where the main task is
    error,              \* the exception leaving place_call, "none" if none
    trickle,            \* local candidates still to be sent
    expired,            \* time.monotonic() >= deadline
    closed,             \* websocket.closed
    released,           \* what became of the Close message of the finally block
    remoteDescription,  \* peer.remoteDescription is not None
    connectionState,    \* peer.connectionState
    pending,            \* on_state_change tasks the loop has yet to run
    connected,          \* the event the handshake loop polls
    why,                \* Ending: "" until set, then the reason that is logged
    stop,               \* SIGINT or SIGTERM: "none", "raised", "handled"
    streaming,          \* streaming was dated, so the end of the call is logged
    container,          \* the PyAV output
    streams,            \* Remux.streams: the tracks declared to the container
    started,            \* the open_sink task: "none", "sleeping", "done"
    pumps,              \* per kind: "none", "new", "run", "cancelling", "ended"
    media,              \* "none" yet, "flows" from the camera, or a packet
                        \* was "muxed": the output has a header
    loop                \* "free", or "blocked" inside a synchronous write

mainVars   == <<pc, error, trickle, streaming>>
wsVars     == <<closed, released>>
peerVars   == <<remoteDescription, connectionState, pending>>
endingVars == <<connected, why, stop>>
sinkVars   == <<container, streams, started, pumps>>
flowVars   == <<media, loop>>

vars == <<mainVars, wsVars, peerVars, endingVars, sinkVars, expired, flowVars>>

(***************************************************************************)
(* The labels of the main task.                                            *)
(***************************************************************************)
Handshake == {"head", "recv", "addcand", "answer"}
Placing   == {"begin", "offer", "send", "trickle"} \cup Handshake \cup
             {"switch", "settle", "keyframe"}
Carrying  == {"stream", "watch", "rekey"}
Unwinding == {"close", "join", "cancel", "gather", "flush", "bye"}
Labels    == Placing \cup Carrying \cup Unwinding \cup {"done"}

Reasons   == {"stopped", "peer", "camera", "sink", "pump", "signalling"}

\* What an exception is to service.main: one it says in a line ("told": no
\* answer, a rejection, a closed or failing websocket), one it does not catch
\* ("library": a signal that cannot be read), or the sink's.
Errors    == {"none", "sink", "told", "library"}

\* A pump task that has not finished.
Alive     == {"new", "run", "cancelling"}
PumpStates == Alive \cup {"none", "ended"}
Writers   == {k \in Kinds : pumps[k] \in Alive}

\* The loop can run a callback or a step of a task.
Ready == pc # "done" /\ loop = "free"

FlagsOK ==
    /\ expired \in BOOLEAN
    /\ closed \in BOOLEAN
    /\ remoteDescription \in BOOLEAN
    /\ connected \in BOOLEAN
    /\ streaming \in BOOLEAN

CountersOK ==
    /\ trickle \in 0..MaxTrickle
    /\ pending \in Nat

PlacesOK ==
    /\ pc \in Labels
    /\ error \in Errors
    /\ released \in {"no", "tried", "gone"}
    /\ connectionState \in
           {"new", "connecting", "connected", "failed", "closed"}
    /\ why = "" \/ why \in Reasons
    /\ stop \in {"none", "raised", "handled"}
    /\ container \in {"unopened", "open", "closed"}
    /\ streams \in SUBSET Kinds
    /\ started \in {"none", "sleeping", "done"}
    /\ pumps \in [Kinds -> PumpStates]

FlowOK ==
    /\ media \in {"none", "flows", "muxed"}
    /\ loop \in {"free", "blocked"}

\* Every variable has its type.
TypeOK == FlagsOK /\ CountersOK /\ PlacesOK /\ FlowOK

Init ==
    /\ pc = "begin"
    /\ error = "none"
    /\ trickle = 0
    /\ expired = FALSE
    /\ closed = FALSE
    /\ released = "no"
    /\ remoteDescription = FALSE
    /\ connectionState = "new"
    /\ pending = 0
    /\ connected = FALSE
    /\ why = ""
    /\ stop = "none"
    /\ streaming = FALSE
    /\ container = "unopened"
    /\ streams = {}
    /\ started = "none"
    /\ pumps = [k \in Kinds |-> "none"]
    /\ media = "none"
    /\ loop = "free"

-----------------------------------------------------------------------------
(***************************************************************************)
(* What the steps are made of.                                             *)
(***************************************************************************)

\* Mutant: the last reason given is the one that is kept.
LastReasonWins(reason) == why' = reason

\* Ending.set: the first reason given is the one that is kept.
EndingSet(reason) == why' = IF why = "" THEN reason ELSE why

\* An exception leaves the try block: control passes to its finally.
Raise(e) == pc' = "close" /\ error' = e

\* websocket.send_json, then on to the next label; or the transport is gone.
Send(next) ==
    \/ ~closed /\ pc' = next /\ UNCHANGED error
    \/ Raise("told")

\* The main task moves from one label to another without failing.
At(label) == pc = label /\ Ready
Goto(label) == pc' = label /\ UNCHANGED error

\* A step of the main task that changes nothing but its place and its error.
Alone == UNCHANGED <<trickle, streaming, expired, wsVars, peerVars, endingVars,
                     sinkVars, flowVars>>

\* on_track for every track in T: declare it, and create open_sink only once.
OnTracks(T) ==
    /\ streams' = streams \cup T
    /\ started' = IF T # {} /\ started = "none" THEN "sleeping" ELSE started
    /\ UNCHANGED <<container, pumps>>

\* aiortc enters a connection state and schedules on_state_change.
EnterState(s) ==
    /\ connectionState' = s
    /\ pending' = IF s = connectionState THEN pending ELSE pending + 1

-----------------------------------------------------------------------------
(***************************************************************************)
(* The main task: up to the offer.                                         *)
(***************************************************************************)

\* Remux.__init__ opens the output; the signal handlers are installed.
OpenSink ==
    /\ At("begin")
    /\ container' = "open"
    /\ Goto("offer")
    /\ UNCHANGED <<trickle, streaming, expired, wsVars, peerVars, endingVars,
                   streams, started, pumps, flowVars>>

\* av.open refuses the target: this is before the try, so nothing is undone.
SinkRefused ==
    /\ At("begin")
    /\ pc' = "done"
    /\ error' = "sink"
    /\ Alone

\* receive_only, createOffer, setLocalDescription: the offer names the
\* candidates that local_candidates will choose.
CreateOffer ==
    /\ At("offer")
    /\ \/ Goto("send") /\ trickle' \in 0..MaxTrickle
       \/ Raise("library") /\ UNCHANGED trickle
    /\ UNCHANGED <<streaming, expired, wsVars, peerVars, endingVars,
                   sinkVars, flowVars>>

SendOffer ==
    /\ At("send")
    /\ Send("trickle")
    /\ Alone

\* Mutant: one candidate too many is sent.
SendCandidateTooMany ==
    /\ At("trickle")
    /\ \/ trickle = 0 /\ Goto("head") /\ UNCHANGED trickle
       \/ trickle' = trickle - 1 /\ Send("trickle")
    /\ UNCHANGED <<streaming, expired, wsVars, peerVars, endingVars,
                   sinkVars, flowVars>>

\* One candidate; after the last the deadline is set and the polling begins.
SendCandidate ==
    /\ At("trickle")
    /\ \/ trickle = 0 /\ Goto("head") /\ UNCHANGED trickle
       \/ trickle > 0 /\ trickle' = trickle - 1 /\ Send("trickle")
    /\ UNCHANGED <<streaming, expired, wsVars, peerVars, endingVars,
                   sinkVars, flowVars>>

(***************************************************************************)
(* The main task: the handshake loop.                                      *)
(***************************************************************************)

\* Mutant: the check behind the loop is missing, the deadline alone ends it.
CheckDeadlineOnly ==
    /\ At("head")
    /\ Goto(IF connected \/ expired THEN "switch" ELSE "recv")
    /\ Alone

\* Mutant: the loop polls for as long as the peer is not connected.
CheckConnectedOnly ==
    /\ At("head")
    /\ Goto(IF connected THEN "switch" ELSE "recv")
    /\ Alone

\* while not connected and before the deadline; then "no usable answer".
CheckDeadline ==
    /\ At("head")
    /\ \/ connected /\ Goto("switch")
       \/ ~connected /\ expired /\ Raise("told")
       \/ ~connected /\ ~expired /\ Goto("recv")
    /\ Alone

\* receive returns None, or a frame that is not for this call, or an empty
\* candidate, or an answer without sdp.
PollNothing ==
    /\ At("recv")
    /\ ~closed
    /\ Goto("head")
    /\ Alone

\* receive returns False.
PollClosed ==
    /\ At("recv")
    /\ closed' = TRUE
    /\ Raise("told")
    /\ UNCHANGED <<trickle, streaming, expired, released, peerVars, endingVars,
                   sinkVars, flowVars>>

PollCandidate ==
    /\ At("recv")
    /\ ~closed
    /\ Goto("addcand")
    /\ Alone

\* Ret is not 0.
PollRejected ==
    /\ At("recv")
    /\ ~closed
    /\ Raise("told")
    /\ Alone

\* A candidate or an answer that int, expand_candidate or expand_answer
\* cannot read raises out of the loop.
PollMalformed ==
    /\ At("recv")
    /\ ~closed
    /\ Raise("library")
    /\ Alone

\* Mutant: a repeated answer is applied again.
PollEveryAnswer ==
    /\ At("recv")
    /\ ~closed
    /\ Goto("answer")
    /\ Alone

\* Only the first answer is applied.
PollAnswer ==
    /\ At("recv")
    /\ ~closed
    /\ Goto(IF remoteDescription THEN "head" ELSE "answer")
    /\ Alone

AddIceCandidate ==
    /\ At("addcand")
    /\ Goto("head") \/ Raise("library")
    /\ Alone

\* setRemoteDescription emits "track" for the tracks the answer carries, in
\* one go; it may fail with some of them already announced.
SetRemoteDescription ==
    /\ At("answer")
    /\ \E T \in SUBSET Kinds : OnTracks(T)
    /\ \/ Goto("head") /\ remoteDescription' = TRUE
       \/ Raise("library") /\ UNCHANGED remoteDescription
    /\ UNCHANGED <<trickle, streaming, expired, wsVars, connectionState,
                   pending, endingVars, flowVars>>

(***************************************************************************)
(* The main task: connected.                                               *)
(***************************************************************************)

SendSwitch ==
    /\ At("switch")
    /\ Send("settle")
    /\ Alone

\* receive(websocket, 2): whatever comes is dropped, even the end of the
\* websocket, which the next receive will report again.
AwaitSwitchReply ==
    /\ At("settle")
    /\ Goto("keyframe")
    /\ closed' \in {closed, TRUE}
    /\ UNCHANGED <<trickle, streaming, expired, released, peerVars, endingVars,
                   sinkVars, flowVars>>

\* request_keyframe, and the start of the streaming that will be logged.
RequestKeyframe ==
    /\ At("keyframe")
    /\ Goto("stream")
    /\ streaming' = TRUE
    /\ UNCHANGED <<trickle, expired, wsVars, peerVars, endingVars,
                   sinkVars, flowVars>>

\* Mutant: the loop runs for as long as the websocket delivers.
CheckNothing ==
    /\ At("stream")
    /\ Goto("watch")
    /\ Alone

\* while not ending.is_set()
CheckEnding ==
    /\ At("stream")
    /\ Goto(IF why # "" THEN "close" ELSE "watch")
    /\ Alone

\* Nothing within a second, or a frame that is not about the switch.
WatchNothing ==
    /\ At("watch")
    /\ ~closed
    /\ Goto("stream")
    /\ Alone

\* Mutant: the loop is left without saying why.
WatchClosedSilently ==
    /\ At("watch")
    /\ closed' = TRUE
    /\ Goto("close")
    /\ UNCHANGED <<trickle, streaming, expired, released, peerVars, endingVars,
                   sinkVars, flowVars>>

\* receive returns False: the ending says so and the loop is left.
WatchClosed ==
    /\ At("watch")
    /\ closed' = TRUE
    /\ EndingSet("signalling")
    /\ Goto("close")
    /\ UNCHANGED <<trickle, streaming, expired, released, peerVars, connected,
                   stop, sinkVars, flowVars>>

\* A SwitchResp asks for another keyframe.
WatchSwitchResp ==
    /\ At("watch")
    /\ ~closed
    /\ Goto("rekey")
    /\ Alone

RequestAgain ==
    /\ At("rekey")
    /\ Goto("stream")
    /\ Alone

(***************************************************************************)
(* The main task: the finally block.                                       *)
(***************************************************************************)

\* Mutant: the failing send is not suppressed and leaves the finally block.
SendCloseUnguarded ==
    /\ At("close")
    /\ released' = IF closed THEN "gone" ELSE "tried"
    /\ \/ Goto("join")
       \/ ~closed /\ pc' = "done" /\ error' = "told"
    /\ UNCHANGED <<trickle, streaming, expired, closed, peerVars, endingVars,
                   sinkVars, flowVars>>

\* Release the session unless the websocket is gone.  A send that fails is
\* suppressed, so trying is all there is to it.
SendClose ==
    /\ At("close")
    /\ Goto("join")
    /\ released' = IF closed THEN "gone" ELSE "tried"
    /\ UNCHANGED <<trickle, streaming, expired, closed, peerVars, endingVars,
                   sinkVars, flowVars>>

\* Mutant: the finally block does not wait for open_sink.
AwaitNothing ==
    /\ At("join")
    /\ Goto("cancel")
    /\ Alone

\* if started is not None: await started
AwaitStarted ==
    /\ At("join")
    /\ started # "sleeping"
    /\ Goto("cancel")
    /\ Alone

\* Remux.stop cancels every pump.  One that never ran ends without entering
\* its try, so it gives no reason.
CancelPumps ==
    /\ At("cancel")
    /\ pumps' = [k \in Kinds |-> CASE pumps[k] = "new" -> "ended"
                                   [] pumps[k] = "run" -> "cancelling"
                                   [] OTHER -> pumps[k]]
    /\ Goto("gather")
    /\ UNCHANGED <<trickle, streaming, expired, wsVars, peerVars, endingVars,
                   container, streams, started, flowVars>>

\* await asyncio.gather(*self.pumps)
GatherPumps ==
    /\ At("gather")
    /\ Writers = {}
    /\ Goto("flush")
    /\ Alone

\* container.close: an OSError is suppressed, anything else leaves the
\* finally block at once and the peer is never closed.  Without a header
\* there is no trailer to fail.
CloseContainer ==
    /\ At("flush")
    /\ container' = "closed"
    /\ \/ Goto("bye")
       \/ media = "muxed" /\ pc' = "done" /\ error' = "sink"
    /\ UNCHANGED <<trickle, streaming, expired, wsVars, peerVars, endingVars,
                   streams, started, pumps, flowVars>>

\* await peer.close(), and the last line of the log if the call streamed.
ClosePeer ==
    /\ At("bye")
    /\ EnterState("closed")
    /\ Goto("done")
    /\ UNCHANGED <<trickle, streaming, expired, wsVars, remoteDescription,
                   endingVars, sinkVars, flowVars>>

Main ==
    \/ OpenSink \/ SinkRefused \/ CreateOffer \/ SendOffer \/ SendCandidate
    \/ CheckDeadline \/ PollNothing \/ PollClosed \/ PollCandidate
    \/ PollRejected \/ PollMalformed \/ PollAnswer \/ AddIceCandidate
    \/ SetRemoteDescription \/ SendSwitch \/ AwaitSwitchReply
    \/ RequestKeyframe \/ CheckEnding \/ WatchNothing \/ WatchClosed
    \/ WatchSwitchResp \/ RequestAgain \/ SendClose \/ AwaitStarted
    \/ CancelPumps \/ GatherPumps \/ CloseContainer \/ ClosePeer

-----------------------------------------------------------------------------
(***************************************************************************)
(* The other tasks of the loop.                                            *)
(***************************************************************************)

\* open_sink: the half second is over, Remux.start creates the pumps.
WakeSink ==
    /\ Ready
    /\ started = "sleeping"
    /\ started' = "done"
    /\ pumps' = [k \in Kinds |-> IF k \in streams THEN "new" ELSE pumps[k]]
    /\ UNCHANGED <<mainVars, expired, wsVars, peerVars, endingVars,
                   container, streams, flowVars>>

\* A pump runs for the first time and awaits its track.
PumpEnter(k) ==
    /\ Ready
    /\ pumps[k] = "new"
    /\ pumps' = [pumps EXCEPT ![k] = "run"]
    /\ UNCHANGED <<mainVars, expired, wsVars, peerVars, endingVars,
                   container, streams, started, flowVars>>

\* A packet of the camera is muxed; until the reader has taken what the mux
\* writes, the loop is blocked in it.
PumpMux(k) ==
    /\ Ready
    /\ pumps[k] = "run"
    /\ media # "none"
    /\ media' = "muxed"
    /\ loop' \in {"free", "blocked"}
    /\ UNCHANGED <<mainVars, expired, wsVars, peerVars, endingVars, sinkVars>>

\* A pump leaves its loop, and its finally block, for this reason.
PumpEnd(k, from, reason) ==
    /\ Ready
    /\ pumps[k] = from
    /\ pumps' = [pumps EXCEPT ![k] = "ended"]
    /\ EndingSet(reason)
    /\ UNCHANGED <<mainVars, expired, wsVars, peerVars, connected, stop,
                   container, streams, started, loop>>

\* track.recv raises MediaStreamError.
PumpStarved(k) == PumpEnd(k, "run", "camera") /\ UNCHANGED media

\* container.mux raises: the reader hung up, before or after the header.
PumpSinkFails(k) ==
    /\ PumpEnd(k, "run", "sink")
    /\ media # "none"
    /\ media' \in {media, "muxed"}

\* CancelledError passes through; only the finally block speaks.
PumpCancelled(k) == PumpEnd(k, "cancelling", "pump") /\ UNCHANGED media

Pump(k) == \/ PumpEnter(k) \/ PumpMux(k) \/ PumpStarved(k)
           \/ PumpSinkFails(k) \/ PumpCancelled(k)

\* Mutant: only a failed peer ends the call.
OnStateChangeFailedOnly ==
    /\ Ready
    /\ pending > 0
    /\ pending' = pending - 1
    /\ IF connectionState = "connected"
       THEN connected' = TRUE /\ UNCHANGED why
       ELSE /\ UNCHANGED connected
            /\ IF connectionState = "failed"
               THEN EndingSet("peer")
               ELSE UNCHANGED why
    /\ UNCHANGED <<mainVars, expired, wsVars, remoteDescription,
                   connectionState, stop, sinkVars, flowVars>>

\* on_state_change acts on the state of the moment it runs.
OnStateChange ==
    /\ Ready
    /\ pending > 0
    /\ pending' = pending - 1
    /\ IF connectionState = "connected"
       THEN connected' = TRUE /\ UNCHANGED why
       ELSE /\ UNCHANGED connected
            /\ IF connectionState \in {"failed", "closed"}
               THEN EndingSet("peer")
               ELSE UNCHANGED why
    /\ UNCHANGED <<mainVars, expired, wsVars, remoteDescription,
                   connectionState, stop, sinkVars, flowVars>>

\* The callback of add_signal_handler.
OnSignal ==
    /\ Ready
    /\ stop = "raised"
    /\ stop' = "handled"
    /\ EndingSet("stopped")
    /\ UNCHANGED <<mainVars, expired, wsVars, peerVars, connected, sinkVars,
                   flowVars>>

-----------------------------------------------------------------------------
(***************************************************************************)
(* The surroundings: aiortc, aiohttp, the clock, the reader, the user.     *)
(***************************************************************************)

\* ICE and DTLS, which only start once an answer was applied.  The camera
\* can send media from the moment they are up.
PeerMoves ==
    /\ Ready
    /\ remoteDescription
    /\ \/ connectionState = "new" /\ EnterState("connecting")
       \/ /\ connectionState = "connecting"
          /\ \E s \in {"connected", "failed", "closed"} : EnterState(s)
       \/ /\ connectionState = "connected"
          /\ \E s \in {"failed", "closed"} : EnterState(s)
    /\ media' = IF media = "none" /\ connectionState' = "connected"
                THEN "flows"
                ELSE media
    /\ UNCHANGED <<mainVars, expired, wsVars, remoteDescription, endingVars,
                   sinkVars, loop>>

\* The heartbeat goes unanswered, or the connection is reset.
WebsocketDrops ==
    /\ Ready
    /\ ~closed
    /\ closed' = TRUE
    /\ UNCHANGED <<mainVars, expired, released, peerVars, endingVars,
                   sinkVars, flowVars>>

DeadlinePasses ==
    /\ pc \in Handshake
    /\ ~expired
    /\ expired' = TRUE
    /\ UNCHANGED <<mainVars, wsVars, peerVars, endingVars, sinkVars, flowVars>>

\* SIGINT or SIGTERM while place_call is the one to answer it.
SignalArrives ==
    /\ pc \notin {"begin", "done"}
    /\ stop = "none"
    /\ stop' = "raised"
    /\ UNCHANGED <<mainVars, expired, wsVars, peerVars, connected, why,
                   sinkVars, flowVars>>

\* The reader does not read while the close writes the trailer, which it
\* only does behind a header.
ReaderStalls ==
    /\ At("flush")
    /\ media = "muxed"
    /\ loop' = "blocked"
    /\ UNCHANGED <<mainVars, expired, wsVars, peerVars, endingVars, sinkVars,
                   media>>

ReaderResumes ==
    /\ loop = "blocked"
    /\ loop' = "free"
    /\ UNCHANGED <<mainVars, expired, wsVars, peerVars, endingVars, sinkVars,
                   media>>

\* place_call has returned or raised: the loop is closed behind it.
Over == pc = "done" /\ UNCHANGED vars

Next ==
    \/ Main
    \/ WakeSink
    \/ \E k \in Kinds : Pump(k)
    \/ OnStateChange
    \/ OnSignal
    \/ PeerMoves
    \/ WebsocketDrops
    \/ DeadlinePasses
    \/ SignalArrives
    \/ ReaderStalls
    \/ ReaderResumes
    \/ Over

Spec == Init /\ [][Next]_vars

(***************************************************************************)
(* Fairness.  asyncio runs every ready callback in FIFO order and a track  *)
(* that has no packet queued makes its pump wait, so a task that is ready  *)
(* again and again does run, even when a stalled reader holds the loop up  *)
(* in between: strong fairness for each of them.  Every await of the main  *)
(* task ends: receive has a timeout, aiortc and aiohttp have theirs.  The  *)
(* clock needs nothing.  Whether the reader ever reads again is not for    *)
(* the program to say, so it is assumed separately.                        *)
(***************************************************************************)
Fairness ==
    /\ SF_vars(Main)
    /\ SF_vars(WakeSink)
    /\ \A k \in Kinds : SF_vars(PumpEnter(k)) /\ SF_vars(PumpCancelled(k))
    /\ SF_vars(OnStateChange)
    /\ SF_vars(OnSignal)
    /\ WF_vars(DeadlinePasses)

FairSpec == Spec /\ Fairness

ReaderReads == WF_vars(ReaderResumes)

ServedSpec == FairSpec /\ ReaderReads

-----------------------------------------------------------------------------
(***************************************************************************)
(* Properties.                                                             *)
(***************************************************************************)

\* Once the container is closed nothing can write to it any more: no pump is
\* alive and open_sink is not about to create one (the order await started,
\* cancel, gather, close of the finally block and Remux.stop).
SinkQuiet ==
    container = "closed" => Writers = {} /\ started # "sleeping"

\* A call that opened its sink leaves nothing behind when place_call is over:
\* no task, no open container, no session nobody tried to release, and no
\* open peer unless it was container.close itself that failed.
NothingLeft ==
    pc = "done" /\ container # "unopened" =>
        /\ container = "closed"
        /\ Writers = {} /\ started # "sleeping"
        /\ released # "no"
        /\ connectionState = "closed" \/ error = "sink"

\* A peer that failed or closed is never overlooked: with no on_state_change
\* left to run, the ending has been set, although the handler may run after
\* further changes and only sees the last of them.
DeadPeerNoticed ==
    connectionState \in {"failed", "closed"} /\ pending = 0 => why # ""

\* request_keyframe is never the silent no-op it is without a remote
\* description: the main task only switches and asks for keyframes once the
\* answer was applied and the peer said "connected".
KeyframeReachesCamera ==
    pc \in {"switch", "settle", "keyframe"} \cup Carrying =>
        connected /\ remoteDescription

\* Every track is declared before the pumps start and every declared track
\* is pumped: a track declared later would never be copied.
DeclaredArePumped ==
    started = "done" => streams = {k \in Kinds : pumps[k] # "none"}

\* place_call never ends in silence: an exception has the last word, or the
\* call streamed and the reason it ended for is known.
Explained ==
    pc = "done" => error # "none" \/ (streaming /\ why # "")

\* Whatever ends the call, a signal, a dead peer, a pump that stopped, a
\* closed websocket, place_call unwinds to its end.
EveryEndUnwinds ==
    ( \/ why # ""
      \/ stop = "raised"
      \/ closed
      \/ connectionState \in {"failed", "closed"}
      \/ \E k \in Kinds : pumps[k] = "ended" ) ~> pc = "done"

\* The handshake decides: the call streams or ends, whatever the camera and
\* the signalling server keep sending.
HandshakeDecides == pc = "head" ~> pc \in {"stream", "done"}

\* The comment on the signal handlers: a signal makes a call that carries
\* media "unwind rather than die, so the container is flushed and closed".
SignalUnwinds == stop = "raised" /\ pc \in Carrying ~> pc \notin Carrying

\* The comment in the finally block: "always release the session".
SessionReleased == pc = "done" => released # "no"

\* The phase of the abstract call a label of the main task belongs to.
PhaseOf(label) ==
    CASE label \in Carrying  -> "carrying"
      [] label \in Unwinding -> "unwinding"
      [] label = "done"      -> "over"
      [] OTHER               -> "placing"

Promise == INSTANCE CallPromise WITH
    Tracks  <- Kinds,
    Causes  <- Reasons,
    phase   <- PhaseOf(pc),
    reason  <- why,
    output  <- container,
    writing <- Writers

\* PlaceCall implements CallPromise, what the supervisor is promised: the first
\* reason is kept, nothing writes to a closed output, no pump stops and no
\* stream ends unexplained.
KeepsPromise == Promise!Spec

=============================================================================
