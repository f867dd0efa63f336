------------------------------- MODULE Timed -------------------------------
(***************************************************************************)
(* stream.Timed: dating the camera's frames by this machine's clock.       *)
(*                                                                         *)
(* The camera captures frames of two kinds and dates them by clocks of its *)
(* own: the audio clock is true but begins wherever it likes, the video    *)
(* clock runs fast.  A frame reaches its pump after some delay, spent on   *)
(* the network, in aiortc, or queued until the pump first runs; frames of  *)
(* one kind stay in order.  Timed.recv then gives it the date the muxer    *)
(* sees, counted from an origin both tracks share.                         *)
(*                                                                         *)
(* One unit of time is a tick of the audio, and round() is left out: every *)
(* clock is read in whole units.                                           *)
(***************************************************************************)
EXTENDS Integers, Sequences

CONSTANTS
    VideoTick,    \* TICK["video"]; TICK["audio"] is one unit
    Period,       \* least time between two captures, of either kind
    MaxDelay,     \* bound on the delay between capture and recv
    Gain,         \* the camera's video clock gains one unit in so many
    AudioStart,   \* what the camera's audio clock says at the origin
    MaxTime,      \* bound on the clock
    NoShift       \* None

ASSUME ClockAssumption ==
    /\ VideoTick \in Nat \ {0} /\ Gain \in Nat \ {0}
    /\ MaxDelay \in Nat /\ MaxTime \in Nat
    /\ AudioStart \in Int
    /\ NoShift \notin Int

Kinds == {"video", "audio"}
TICK  == [k \in Kinds |-> IF k = "video" THEN VideoTick ELSE 1]

\* No camera exceeds the frame rate that TICK was chosen for.
ASSUME RateAssumption ==
    Period \in [Kinds -> Nat] /\ \A k \in Kinds : Period[k] >= TICK[k]

VARIABLES
    now,     \* this machine's clock, from the origin
    taken,   \* per kind, the time of the last capture; before any, -Period
    queue,   \* per kind, the frames under way to the pump
    shift,   \* Timed.shift, NoShift before the first frame
    last,    \* Timed.last
    frame    \* per kind, the last frame recv returned

vars == <<now, taken, queue, shift, last, frame>>

\* A frame: when it was captured, and its date by the camera's clock.
Frames  == [taken : Int, pts : Int]
NoFrame == [taken |-> -1, pts |-> 0]

TypeOK ==
    /\ now \in 0..MaxTime
    /\ taken \in [Kinds -> Int]
    /\ queue \in [Kinds -> Seq(Frames)]
    /\ shift \in [Kinds -> Int \cup {NoShift}]
    /\ last \in [Kinds -> Int]
    /\ frame \in [Kinds -> Frames]

Init ==
    /\ now = 0
    /\ taken = [k \in Kinds |-> -Period[k]]
    /\ queue = [k \in Kinds |-> <<>>]
    /\ shift = [k \in Kinds |-> NoShift]
    /\ last = [k \in Kinds |-> -TICK[k]]
    /\ frame = [k \in Kinds |-> NoFrame]

-----------------------------------------------------------------------------
\* The date the camera gives a frame captured at time t.
CameraDate(k, t) == IF k = "video" THEN t + t \div Gain ELSE t + AudioStart

Capture(k) ==
    /\ now >= taken[k] + Period[k]
    /\ taken' = [taken EXCEPT ![k] = now]
    /\ queue' = [queue EXCEPT ![k] =
                    Append(@, [taken |-> now, pts |-> CameraDate(k, now)])]
    /\ UNCHANGED <<now, shift, last, frame>>

\* The camera pads its audio with empty access units, of which the decoder
\* (rtc.Verbatim) makes no frame.
Drop ==
    /\ now >= taken["audio"] + Period["audio"]
    /\ taken' = [taken EXCEPT !["audio"] = now]
    /\ UNCHANGED <<now, queue, shift, last, frame>>

\* Time passes while no frame is about to be later than MaxDelay.
Advance ==
    /\ now < MaxTime
    /\ \A k \in Kinds : queue[k] # <<>> => now < Head(queue[k]).taken + MaxDelay
    /\ now' = now + 1
    /\ UNCHANGED <<taken, queue, shift, last, frame>>

Later(a, b) == IF a > b THEN a ELSE b

\* Mutant: every track is moved bodily, the video's fast clock and all.
StampByCamera(k, pts, moved) == pts + moved

\* Mutant: every track is dated by arrival.
StampByArrival(k, pts, moved) == now

\* Video is dated by arrival, audio is moved bodily onto the same origin.
Stamp(k, pts, moved) == IF k = "video" THEN now ELSE pts + moved

\* Timed.recv
Recv(k) ==
    /\ queue[k] # <<>>
    /\ frame' = [frame EXCEPT ![k] = Head(queue[k])]
    /\ queue' = [queue EXCEPT ![k] = Tail(@)]
    /\ LET pts   == Head(queue[k]).pts
           moved == IF shift[k] = NoShift THEN now - pts ELSE shift[k]
       IN  /\ shift' = [shift EXCEPT ![k] = moved]
           /\ last' = [last EXCEPT ![k] =
                          Later(@ + TICK[k], Stamp(k, pts, moved))]
    /\ UNCHANGED <<now, taken>>

Next == Advance \/ Drop \/ \E k \in Kinds : Capture(k) \/ Recv(k)

Spec == Init /\ [][Next]_vars

-----------------------------------------------------------------------------
(***************************************************************************)
(* Properties.                                                             *)
(***************************************************************************)

\* Audio and video stay in step for as long as the call lasts: either is dated
\* no earlier than it was captured and at most MaxDelay later, so that two
\* frames captured together are never dated further apart than that, although
\* the camera's clocks drift apart, bursts are spread out over ticks that have
\* not come yet, and the first audio frame's delay stays with the audio.
InStep ==
    \A k \in Kinds : frame[k] # NoFrame =>
        last[k] - frame[k].taken \in 0..MaxDelay

\* "Its sample cadence has to stay unbroken": two audio frames are dated as far
\* apart as the camera dated them, whatever delays they met.
AudioCadence ==
    [][(frame["audio"] # NoFrame /\ frame'["audio"] # frame["audio"]) =>
          last'["audio"] - last["audio"] =
              frame'["audio"].pts - frame["audio"].pts]_vars

=============================================================================
