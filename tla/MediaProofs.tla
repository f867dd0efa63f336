---------------------------- MODULE MediaProofs ----------------------------
(***************************************************************************)
(* Proofs about Timed, for every tick, period, delay and drift, and about  *)
(* Media, for every sequence of access units.                              *)
(*                                                                         *)
(* InStep is not inductive: that a frame is dated within MaxDelay of its   *)
(* capture depends on the frames that wait behind the last one being a     *)
(* tick or more apart, and on none of them being later than MaxDelay.      *)
(* Whatever units the camera makes and the decoder sheds, the track behind *)
(* the decoder is a track of Timed, so what is proved of Timed holds of    *)
(* both together; what the decoder makes of the bytes is proved of Decode. *)
(***************************************************************************)
EXTENDS Media, Induction, SequenceTheorems

-----------------------------------------------------------------------------
(***************************************************************************)
(* The inductive invariant.                                                *)
(***************************************************************************)

\* The waiting frames were captured a period or more apart.
Spaced(q, p) == \A i \in 1..(Len(q) - 1) : q[i + 1].taken >= q[i].taken + p

\* Frames that are waiting or were returned are no newer than the last capture.
Waiting(k) ==
    /\ taken[k] <= now
    /\ Spaced(queue[k], Period[k])
    /\ \A i \in 1..Len(queue[k]) :
           /\ queue[k][i].taken \in 0..taken[k]
           /\ k = "audio" =>
                  queue[k][i].pts = queue[k][i].taken + AudioStart
    /\ queue[k] # <<>> => now <= queue[k][1].taken + MaxDelay

\* What recv has left behind: before the first frame, and after any.
Returned(k) ==
    IF frame[k] = NoFrame
    THEN shift[k] = NoShift /\ last[k] = -TICK[k]
    ELSE /\ shift[k] \in Int
         /\ frame[k].taken \in 0..taken[k]
         /\ queue[k] # <<>> => queue[k][1].taken >= frame[k].taken + Period[k]
         /\ last[k] - frame[k].taken \in 0..MaxDelay
         /\ k = "audio" =>
                /\ frame[k].pts = frame[k].taken + AudioStart
                /\ last[k] = frame[k].pts + shift[k]

Inv == TypeOK /\ \A k \in Kinds : Waiting(k) /\ Returned(k)

-----------------------------------------------------------------------------
(***************************************************************************)
(* Lemmas about the data.                                                  *)
(***************************************************************************)

\* The constants of a track.
LEMMA TrackFacts ==
    ASSUME NEW k \in Kinds
    PROVE  /\ TICK[k] \in Nat /\ TICK[k] > 0
           /\ Period[k] \in Nat /\ Period[k] >= TICK[k]
           /\ MaxDelay \in Nat /\ NoShift \notin Int /\ AudioStart \in Int
BY ClockAssumption, RateAssumption DEF Kinds, TICK

\* The camera dates every frame with a whole number.
LEMMA CameraDateInt ==
    ASSUME NEW k \in Kinds, NEW t \in Nat
    PROVE  /\ CameraDate(k, t) \in Int
           /\ k = "audio" => CameraDate(k, t) = t + AudioStart
BY ClockAssumption DEF Kinds, CameraDate

\* Later is the least number that neither of the two is beyond.
LEMMA LaterFacts ==
    ASSUME NEW a \in Int, NEW b \in Int
    PROVE  /\ Later(a, b) \in Int
           /\ Later(a, b) >= a /\ Later(a, b) >= b
           /\ \A c \in Int : a <= c /\ b <= c => Later(a, b) <= c
BY DEF Later

\* A frame captured later than one that is not late is not late either.
LEMMA NoLater ==
    ASSUME NEW n \in Int, NEW a \in Int, NEW b \in Int, NEW p \in Nat,
           NEW d \in Nat, n <= a + d, b >= a + p
    PROVE  n <= b + d
OBVIOUS

\* A frame a tick or more behind one that was dated in time is dated in time
\* one tick later.
LEMMA SpreadInTime ==
    ASSUME NEW l \in Int, NEW f \in Int, NEW h \in Int, NEW t \in Int,
           NEW d \in Nat, l <= f + d, h >= f + t
    PROVE  l + t <= h + d
OBVIOUS

\* A date from arrival on, but not beyond what the capture allows.
LEMMA WithinDelay ==
    ASSUME NEW date \in Int, NEW capture \in Int, NEW arrival \in Int,
           NEW delay \in Nat,
           capture <= arrival, arrival <= date, date <= capture + delay
    PROVE  date - capture \in 0..delay
OBVIOUS

\* Taking the first frame leaves the others, one place further on.
LEMMA TailFacts ==
    ASSUME NEW q \in Seq(Frames), q # <<>>
    PROVE  /\ Head(q) = q[1] /\ Head(q) \in Frames
           /\ Tail(q) \in Seq(Frames)
           /\ Len(Tail(q)) = Len(q) - 1 /\ Len(q) \in Nat /\ Len(q) > 0
           /\ \A i \in 1..Len(Tail(q)) : Tail(q)[i] = q[i + 1]
BY HeadTailProperties, EmptySeq, LenProperties

\* A frame that joins the queue is the last of it.
LEMMA AppendFacts ==
    ASSUME NEW q \in Seq(Frames), NEW f \in Frames
    PROVE  /\ Append(q, f) \in Seq(Frames) /\ Append(q, f) # <<>>
           /\ Len(Append(q, f)) = Len(q) + 1 /\ Len(q) \in Nat
           /\ \A i \in 1..Len(q) : Append(q, f)[i] = q[i]
           /\ Append(q, f)[Len(q) + 1] = f
BY AppendProperties, LenProperties

-----------------------------------------------------------------------------
LEMMA InitInv == Init => Inv
<1> SUFFICES ASSUME Init PROVE Inv
    OBVIOUS
<1>1. TypeOK
  <2>1. <<>> \in Seq(Frames)
      BY EmptySeq
  <2> QED
      BY <2>1, ClockAssumption, TrackFacts DEF Init, TypeOK, Frames, NoFrame
<1>2. ASSUME NEW k \in Kinds PROVE Waiting(k) /\ Returned(k)
  <2>1. queue[k] = <<>> /\ Len(queue[k]) = 0
      BY DEF Init
  <2> QED
      BY <2>1, TrackFacts DEF Init, Waiting, Returned, Spaced
<1> QED
    BY <1>1, <1>2 DEF Inv

-----------------------------------------------------------------------------
(***************************************************************************)
(* The steps.                                                              *)
(***************************************************************************)

\* A track whose own variables do not change, while the clock only advances as
\* far as its first waiting frame allows, keeps its invariant.
LEMMA OtherTrack ==
    ASSUME NEW k \in Kinds, Waiting(k), Returned(k),
           taken'[k] = taken[k], queue'[k] = queue[k], shift'[k] = shift[k],
           last'[k] = last[k], frame'[k] = frame[k],
           now \in Int, now' \in Int, now <= now',
           queue[k] # <<>> => now' <= queue[k][1].taken + MaxDelay,
           taken[k] \in Int
    PROVE  Waiting(k)' /\ Returned(k)'
<1>1. Waiting(k)'
    BY DEF Waiting, Spaced
<1>2. Returned(k)'
    BY DEF Returned
<1> QED
    BY <1>1, <1>2

\* The types of one track.
LEMMA TrackTypes ==
    ASSUME TypeOK, NEW k \in Kinds
    PROVE  /\ now \in Nat /\ taken[k] \in Int /\ last[k] \in Int
           /\ queue[k] \in Seq(Frames) /\ frame[k] \in Frames
           /\ shift[k] \in Int \cup {NoShift}
BY ClockAssumption DEF TypeOK

LEMMA AdvanceInv == Inv /\ Advance => Inv'
<1> SUFFICES ASSUME Inv, Advance PROVE Inv'
    OBVIOUS
<1>1. TypeOK'
    BY ClockAssumption DEF Inv, TypeOK, Advance
<1>2. ASSUME NEW k \in Kinds PROVE Waiting(k)' /\ Returned(k)'
  <2>1. /\ now \in Int /\ now' = now + 1 /\ taken[k] \in Int
        /\ Waiting(k) /\ Returned(k)
      BY <1>2, TrackTypes DEF Inv, Advance
  <2>2. queue[k] # <<>> => now' <= queue[k][1].taken + MaxDelay
    <3> SUFFICES ASSUME queue[k] # <<>>
                 PROVE  now' <= queue[k][1].taken + MaxDelay
        OBVIOUS
    <3>1. queue[k] \in Seq(Frames)
        BY <1>2, TrackTypes DEF Inv
    <3>2. Head(queue[k]) = queue[k][1] /\ queue[k][1] \in Frames
        BY <3>1, TailFacts
    <3>3. now < queue[k][1].taken + MaxDelay
        BY <1>2, <3>2 DEF Advance
    <3> QED
        BY <2>1, <3>2, <3>3, ClockAssumption DEF Frames
  <2> QED
      BY <1>2, <2>1, <2>2, OtherTrack DEF Advance
<1> QED
    BY <1>1, <1>2 DEF Inv

\* The track a frame joins.
LEMMA CaptureTrack ==
    ASSUME Inv, NEW k \in Kinds, Capture(k)
    PROVE  Waiting(k)' /\ Returned(k)'
<1> DEFINE q == queue[k]
           f == [taken |-> now, pts |-> CameraDate(k, now)]
<1>1. /\ TypeOK /\ Waiting(k) /\ Returned(k)
    BY DEF Inv
<1>2. /\ now \in Nat /\ taken[k] \in Int /\ q \in Seq(Frames)
      /\ last[k] \in Int /\ frame[k] \in Frames
    BY <1>1, TrackTypes
<1>3. f \in Frames /\ (k = "audio" => f.pts = now + AudioStart)
    BY <1>2, CameraDateInt DEF Frames
<1>4. /\ now' = now /\ taken'[k] = now /\ queue'[k] = Append(q, f)
      /\ shift'[k] = shift[k] /\ last'[k] = last[k] /\ frame'[k] = frame[k]
      /\ now >= taken[k] + Period[k]
    BY <1>1 DEF Capture, TypeOK
<1>5. /\ Len(queue'[k]) = Len(q) + 1 /\ Len(q) \in Nat /\ queue'[k] # <<>>
      /\ \A i \in 1..Len(q) : queue'[k][i] = q[i]
      /\ queue'[k][Len(q) + 1] = f
    BY <1>2, <1>3, <1>4, AppendFacts
<1>6. \A i \in 1..Len(q) : q[i].taken \in Int /\ q[i].taken <= taken[k]
    BY <1>1, <1>2 DEF Waiting
<1>7. Spaced(queue'[k], Period[k])
  <2> SUFFICES ASSUME NEW i \in 1..Len(q)
               PROVE  queue'[k][i + 1].taken >= queue'[k][i].taken + Period[k]
      BY <1>5 DEF Spaced
  <2>1. CASE i < Len(q)
    <3>1. i \in 1..(Len(q) - 1) /\ i + 1 \in 1..Len(q)
        BY <1>5, <2>1
    <3>2. q[i + 1].taken >= q[i].taken + Period[k]
        BY <1>1, <3>1 DEF Waiting, Spaced
    <3> QED
        BY <1>5, <3>1, <3>2
  <2>2. CASE i = Len(q)
    <3>1. queue'[k][i + 1].taken = now /\ queue'[k][i] = q[i]
        BY <1>5, <2>2
    <3>2. q[i].taken \in Int /\ q[i].taken <= taken[k]
        BY <1>6
    <3>3. now >= taken[k] + Period[k] /\ Period[k] \in Nat
        BY <1>4, TrackFacts
    <3> QED
        BY <1>2, <3>1, <3>2, <3>3
  <2> QED
      BY <1>5, <2>1, <2>2
<1>8. ASSUME NEW i \in 1..(Len(q) + 1)
      PROVE  /\ queue'[k][i].taken \in 0..now
             /\ k = "audio" =>
                    queue'[k][i].pts = queue'[k][i].taken + AudioStart
  <2>1. CASE i \in 1..Len(q)
    <3>1. /\ q[i].taken \in 0..taken[k] /\ queue'[k][i] = q[i]
          /\ k = "audio" => q[i].pts = q[i].taken + AudioStart
        BY <1>1, <1>5, <2>1 DEF Waiting
    <3>2. taken[k] <= now
        BY <1>1 DEF Waiting
    <3> QED
        BY <1>2, <3>1, <3>2
  <2>2. CASE i = Len(q) + 1
      BY <1>2, <1>3, <1>5, <2>2
  <2> QED
      BY <1>5, <1>8, <2>1, <2>2
<1>9. now <= queue'[k][1].taken + MaxDelay
  <2>1. CASE Len(q) = 0
      BY <1>2, <1>5, <2>1, TrackFacts
  <2>2. CASE Len(q) > 0
    <3>1. q # <<>> /\ queue'[k][1] = q[1]
        BY <1>5, <2>2
    <3> QED
        BY <1>1, <3>1 DEF Waiting
  <2> QED
      BY <1>5, <2>1, <2>2
<1>10. Waiting(k)'
  <2>1. now' = now /\ taken'[k] = now /\ taken'[k] <= now'
      BY <1>2, <1>4
  <2>2. \A i \in 1..Len(queue'[k]) :
            /\ queue'[k][i].taken \in 0..taken'[k]
            /\ k = "audio" => queue'[k][i].pts = queue'[k][i].taken + AudioStart
      BY <1>5, <1>8, <2>1
  <2>3. now' <= queue'[k][1].taken + MaxDelay
      BY <1>9, <2>1
  <2> QED
      BY <1>7, <2>1, <2>2, <2>3 DEF Waiting
<1>11. Returned(k)'
  <2>1. CASE frame[k] = NoFrame
      BY <1>1, <1>4, <2>1 DEF Returned
  <2>2. CASE frame[k] # NoFrame
    <3>1. /\ shift[k] \in Int /\ frame[k].taken \in 0..taken[k]
          /\ last[k] - frame[k].taken \in 0..MaxDelay
          /\ k = "audio" => /\ frame[k].pts = frame[k].taken + AudioStart
                            /\ last[k] = frame[k].pts + shift[k]
        BY <1>1, <2>2 DEF Returned
    <3>2. frame[k].taken \in 0..taken'[k]
        BY <1>1, <1>2, <1>4, <3>1 DEF Waiting
    <3>3. queue'[k][1].taken >= frame[k].taken + Period[k]
      <4>1. CASE Len(q) = 0
          BY <1>2, <1>4, <1>5, <3>1, <4>1, TrackFacts
      <4>2. CASE Len(q) > 0
        <5>1. q # <<>> /\ queue'[k][1] = q[1]
            BY <1>5, <4>2
        <5> QED
            BY <1>1, <2>2, <5>1 DEF Returned
      <4> QED
          BY <1>5, <4>1, <4>2
    <3> QED
        BY <1>4, <2>2, <3>1, <3>2, <3>3 DEF Returned
  <2> QED
      BY <2>1, <2>2
<1> QED
    BY <1>10, <1>11

\* The track recv returns a frame of: the queue it leaves.
LEMMA RecvWaiting ==
    ASSUME Inv, NEW k \in Kinds, Recv(k)
    PROVE  /\ Waiting(k)'
           /\ Tail(queue[k]) # <<>> =>
                  Tail(queue[k])[1].taken >= Head(queue[k]).taken + Period[k]
<1> DEFINE q == queue[k]
           t == Tail(queue[k])
<1>1. /\ TypeOK /\ Waiting(k) /\ q # <<>>
    BY DEF Inv, Recv
<1>2. /\ now \in Nat /\ taken[k] \in Int /\ q \in Seq(Frames)
    BY <1>1, TrackTypes
<1>3. /\ Head(q) = q[1] /\ t \in Seq(Frames)
      /\ Len(t) = Len(q) - 1 /\ Len(q) \in Nat /\ Len(q) > 0
      /\ \A i \in 1..Len(t) : t[i] = q[i + 1]
    BY <1>1, <1>2, TailFacts
<1>4. now' = now /\ taken'[k] = taken[k] /\ queue'[k] = t
    BY <1>1 DEF Recv, TypeOK
<1>5. \A i \in 1..Len(q) : q[i].taken \in Int
    BY <1>1, <1>2 DEF Waiting
<1>6. t # <<>> => Len(t) > 0
    BY <1>3, EmptySeq, LenProperties
<1>7. t # <<>> => t[1].taken >= q[1].taken + Period[k] /\ t[1] = q[2]
  <2> SUFFICES ASSUME t # <<>>
               PROVE  t[1].taken >= q[1].taken + Period[k] /\ t[1] = q[2]
      OBVIOUS
  <2>1. 1 \in 1..Len(t) /\ 1 \in 1..(Len(q) - 1)
      BY <1>3, <1>6
  <2>2. q[1 + 1].taken >= q[1].taken + Period[k]
      BY <1>1, <2>1 DEF Waiting, Spaced
  <2>3. t[1] = q[1 + 1]
      BY <1>3, <2>1
  <2> QED
      BY <2>2, <2>3
<1>8. Spaced(t, Period[k])
  <2> SUFFICES ASSUME NEW i \in 1..(Len(t) - 1)
               PROVE  t[i + 1].taken >= t[i].taken + Period[k]
      BY DEF Spaced
  <2>1. /\ i \in 1..Len(t) /\ i + 1 \in 1..Len(t)
        /\ i + 1 \in 1..(Len(q) - 1)
      BY <1>3
  <2>2. q[(i + 1) + 1].taken >= q[i + 1].taken + Period[k]
      BY <1>1, <2>1 DEF Waiting, Spaced
  <2> QED
      BY <1>3, <2>1, <2>2
<1>9. \A i \in 1..Len(t) :
          /\ t[i].taken \in 0..taken[k]
          /\ k = "audio" => t[i].pts = t[i].taken + AudioStart
  <2> SUFFICES ASSUME NEW i \in 1..Len(t)
               PROVE  /\ t[i].taken \in 0..taken[k]
                      /\ k = "audio" => t[i].pts = t[i].taken + AudioStart
      OBVIOUS
  <2>1. i + 1 \in 1..Len(q) /\ t[i] = q[i + 1]
      BY <1>3
  <2> QED
      BY <1>1, <2>1 DEF Waiting
<1>10. t # <<>> => now <= t[1].taken + MaxDelay
  <2> SUFFICES ASSUME t # <<>> PROVE now <= t[1].taken + MaxDelay
      OBVIOUS
  <2>1. now <= q[1].taken + MaxDelay
      BY <1>1 DEF Waiting
  <2>2. q[1].taken \in Int /\ t[1].taken \in Int
      BY <1>3, <1>5, <1>6, <1>7
  <2>3. t[1].taken >= q[1].taken + Period[k]
      BY <1>7
  <2>4. now \in Int /\ Period[k] \in Nat /\ MaxDelay \in Nat
      BY <1>2, TrackFacts
  <2> HIDE DEF q, t
  <2> QED
      BY <2>1, <2>2, <2>3, <2>4, NoLater
<1>11. Waiting(k)'
    BY <1>1, <1>4, <1>8, <1>9, <1>10 DEF Waiting
<1> QED
    BY <1>3, <1>7, <1>11

\* How the frame that recv returns is dated.
LEMMA RecvDates ==
    ASSUME Inv, NEW k \in Kinds, Recv(k)
    PROVE  /\ shift'[k] \in Int
           /\ last'[k] \in Int
           /\ last'[k] - Head(queue[k]).taken \in 0..MaxDelay
           /\ k = "audio" => last'[k] = Head(queue[k]).pts + shift'[k]
<1> DEFINE q == queue[k]
           h == Head(queue[k])
           moved == IF shift[k] = NoShift THEN now - h.pts ELSE shift[k]
           stamp == Stamp(k, h.pts, moved)
<1>1. /\ TypeOK /\ Waiting(k) /\ Returned(k) /\ q # <<>>
    BY DEF Inv, Recv
<1>2. /\ now \in Nat /\ taken[k] \in Int /\ q \in Seq(Frames)
      /\ last[k] \in Int /\ shift[k] \in Int \cup {NoShift}
      /\ frame[k] \in Frames
    BY <1>1, TrackTypes
<1>3. h = q[1] /\ h \in Frames /\ 1 \in 1..Len(q)
    BY <1>1, <1>2, TailFacts
<1>4. /\ h.taken \in 0..taken[k] /\ h.pts \in Int /\ taken[k] <= now
      /\ now <= h.taken + MaxDelay
      /\ k = "audio" => h.pts = h.taken + AudioStart
    BY <1>1, <1>3 DEF Waiting, Frames
<1>5. shift'[k] = moved /\ last'[k] = Later(last[k] + TICK[k], stamp)
    BY <1>1 DEF Recv, TypeOK
<1>6. k = "video" \/ k = "audio"
    BY DEF Kinds
<1>7. /\ k = "video" => stamp = now
      /\ k = "audio" => stamp = h.pts + moved
    BY DEF Stamp
<1>8. CASE frame[k] = NoFrame
  <2>1. shift[k] = NoShift /\ last[k] = -TICK[k]
      BY <1>1, <1>8 DEF Returned
  <2>2. moved = now - h.pts
      BY <2>1
  <2>3. stamp = now
      BY <1>2, <1>4, <1>6, <1>7, <2>2
  <2>4. last'[k] = now
      BY <1>2, <1>5, <2>1, <2>3, TrackFacts DEF Later
  <2>5. shift'[k] = now - h.pts /\ shift'[k] \in Int
      BY <1>2, <1>4, <1>5, <2>2
  <2>6. last'[k] = h.pts + shift'[k]
      BY <1>2, <1>4, <2>4, <2>5
  <2>7. h.taken \in Int
      BY <1>3 DEF Frames
  <2>8. now - h.taken \in 0..MaxDelay
      BY <1>2, <1>4, <2>7, TrackFacts
  <2>9. last'[k] \in Int
      BY <1>2, <2>4
  <2>10. last'[k] - h.taken \in 0..MaxDelay
      BY <2>4, <2>8
  <2> HIDE DEF h
  <2> QED
      BY <2>5, <2>6, <2>9, <2>10 DEF h
<1>9. CASE frame[k] # NoFrame
  <2>1. /\ shift[k] \in Int /\ frame[k].taken \in 0..taken[k]
        /\ h.taken >= frame[k].taken + Period[k]
        /\ last[k] - frame[k].taken \in 0..MaxDelay
        /\ k = "audio" => /\ frame[k].pts = frame[k].taken + AudioStart
                          /\ last[k] = frame[k].pts + shift[k]
      BY <1>1, <1>3, <1>9 DEF Returned
  <2>2. moved = shift[k]
      BY <2>1, TrackFacts
  <2>3. CASE k = "video"
    <3>1. last'[k] = Later(last[k] + TICK[k], now)
        BY <1>5, <1>7, <2>3
    <3>2. last[k] + TICK[k] \in Int /\ now \in Int
        BY <1>2, TrackFacts
    <3>3. frame[k].taken \in Int /\ h.taken \in Int /\ MaxDelay \in Nat
        BY <1>2, <1>3, ClockAssumption DEF Frames
    <3>4. last[k] + TICK[k] <= h.taken + MaxDelay
      <4>1. last[k] <= frame[k].taken + MaxDelay
          BY <1>2, <2>1, <3>3
      <4>2. h.taken >= frame[k].taken + TICK[k]
          BY <2>1, <3>3, TrackFacts
      <4>3. last[k] \in Int /\ TICK[k] \in Int
          BY <1>2, TrackFacts
      <4> HIDE DEF h
      <4> QED
          BY <3>3, <4>1, <4>2, <4>3, SpreadInTime
    <3>5. h.taken <= now /\ now <= h.taken + MaxDelay
        BY <1>2, <1>4, <3>3
    <3>6. h.taken + MaxDelay \in Int
        BY <3>3
    <3>7. /\ last'[k] \in Int /\ last'[k] >= now
          /\ last'[k] <= h.taken + MaxDelay
        BY <3>1, <3>2, <3>4, <3>5, <3>6, LaterFacts
    <3>8. last'[k] - h.taken \in 0..MaxDelay
        BY <3>2, <3>3, <3>5, <3>7, WithinDelay
    <3> QED
        BY <1>5, <2>1, <2>2, <2>3, <3>7, <3>8
  <2>4. CASE k = "audio"
    <3>1. stamp = h.taken + AudioStart + shift[k]
        BY <1>4, <1>7, <2>1, <2>2, <2>4, TrackFacts
    <3>2. last[k] = frame[k].taken + AudioStart + shift[k]
        BY <2>1, <2>4, TrackFacts
    <3>3. stamp >= last[k] + TICK[k] /\ stamp \in Int
        BY <1>4, <2>1, <3>1, <3>2, TrackFacts
    <3>4. last'[k] = stamp
        BY <1>2, <1>5, <3>3, TrackFacts DEF Later
    <3>5. stamp - h.taken = last[k] - frame[k].taken
        BY <1>4, <2>1, <3>1, <3>2, TrackFacts
    <3> QED
        BY <1>5, <1>7, <2>1, <2>2, <2>4, <3>3, <3>4, <3>5
  <2> QED
      BY <1>6, <2>3, <2>4
<1> QED
    BY <1>8, <1>9

LEMMA RecvTrack ==
    ASSUME Inv, NEW k \in Kinds, Recv(k)
    PROVE  Waiting(k)' /\ Returned(k)'
<1> DEFINE h == Head(queue[k])
<1>1. TypeOK /\ Waiting(k) /\ queue[k] # <<>>
    BY DEF Inv, Recv
<1>2. queue[k] \in Seq(Frames) /\ taken[k] \in Int
    BY <1>1, TrackTypes
<1>3. h = queue[k][1] /\ 1 \in 1..Len(queue[k])
    BY <1>1, <1>2, TailFacts
<1>4. /\ h.taken \in 0..taken[k]
      /\ k = "audio" => h.pts = h.taken + AudioStart
    BY <1>1, <1>3 DEF Waiting
<1>5. h # NoFrame
    BY <1>2, <1>4 DEF NoFrame
<1>6. frame'[k] = h /\ queue'[k] = Tail(queue[k]) /\ taken'[k] = taken[k]
    BY <1>1 DEF Recv, TypeOK
<1>7. Returned(k)'
    BY <1>4, <1>5, <1>6, RecvWaiting, RecvDates DEF Returned
<1> QED
    BY <1>7, RecvWaiting

-----------------------------------------------------------------------------
LEMMA CaptureInv == ASSUME Inv, NEW k \in Kinds, Capture(k) PROVE Inv'
<1>1. TypeOK'
  <2>1. /\ now \in Nat /\ queue[k] \in Seq(Frames)
      BY TrackTypes DEF Inv
  <2>2. [taken |-> now, pts |-> CameraDate(k, now)] \in Frames
      BY <2>1, CameraDateInt DEF Frames
  <2>3. Append(queue[k], [taken |-> now, pts |-> CameraDate(k, now)])
            \in Seq(Frames)
      BY <2>1, <2>2, AppendFacts
  <2> QED
      BY <2>1, <2>3 DEF Inv, TypeOK, Capture
<1>2. ASSUME NEW j \in Kinds, j # k PROVE Waiting(j)' /\ Returned(j)'
  <2>1. /\ taken'[j] = taken[j] /\ queue'[j] = queue[j]
        /\ shift'[j] = shift[j] /\ last'[j] = last[j]
        /\ frame'[j] = frame[j] /\ now' = now
      BY <1>2 DEF Inv, TypeOK, Capture
  <2>2. /\ now \in Int /\ taken[j] \in Int /\ Waiting(j) /\ Returned(j)
      BY <1>2, TrackTypes DEF Inv
  <2>3. queue[j] # <<>> => now' <= queue[j][1].taken + MaxDelay
      BY <2>1, <2>2 DEF Waiting
  <2>4. now <= now'
      BY <2>1, <2>2
  <2> QED
      BY <1>2, <2>1, <2>2, <2>3, <2>4, OtherTrack
<1> QED
    BY <1>1, <1>2, CaptureTrack DEF Inv

LEMMA DropInv == Inv /\ Drop => Inv'
<1> SUFFICES ASSUME Inv, Drop PROVE Inv'
    OBVIOUS
<1>1. TypeOK'
  <2>1. now \in Int
      BY ClockAssumption DEF Inv, TypeOK
  <2> QED
      BY <2>1 DEF Inv, TypeOK, Drop
<1>2. ASSUME NEW k \in Kinds PROVE Waiting(k)' /\ Returned(k)'
  <2>1. /\ Waiting(k) /\ Returned(k)
        /\ now \in Nat /\ taken[k] \in Int
        /\ queue[k] \in Seq(Frames) /\ frame[k] \in Frames
      BY <1>2, TrackTypes DEF Inv
  <2>2. /\ now' = now /\ queue' = queue /\ shift' = shift
        /\ last' = last /\ frame' = frame
      BY DEF Drop
  <2>3. taken'[k] \in Int /\ taken[k] <= taken'[k] /\ taken'[k] <= now'
      BY <1>2, <2>1 DEF Inv, TypeOK, Drop, Waiting
  <2>4. \A i \in 0..taken[k] : i \in 0..taken'[k]
      BY <2>1, <2>3
  <2>5. Waiting(k)'
      BY <2>1, <2>2, <2>3, <2>4 DEF Waiting, Spaced
  <2>6. Returned(k)'
      BY <2>1, <2>2, <2>4 DEF Returned
  <2> QED
      BY <2>5, <2>6
<1> QED
    BY <1>1, <1>2 DEF Inv

LEMMA RecvInv == ASSUME Inv, NEW k \in Kinds, Recv(k) PROVE Inv'
<1>1. TypeOK'
  <2>1. queue[k] \in Seq(Frames) /\ queue[k] # <<>>
      BY TrackTypes DEF Inv, Recv
  <2>2. Head(queue[k]) \in Frames /\ Tail(queue[k]) \in Seq(Frames)
      BY <2>1, TailFacts
  <2>3. shift'[k] \in Int /\ last'[k] \in Int
      BY RecvDates
  <2>4. /\ now' \in 0..MaxTime /\ taken' \in [Kinds -> Int]
        /\ queue' \in [Kinds -> Seq(Frames)]
        /\ frame' \in [Kinds -> Frames]
      BY <2>2 DEF Inv, TypeOK, Recv
  <2>5. shift' \in [Kinds -> Int \cup {NoShift}]
      BY <2>3 DEF Inv, TypeOK, Recv
  <2>6. last' \in [Kinds -> Int]
      BY <2>3 DEF Inv, TypeOK, Recv
  <2> QED
      BY <2>4, <2>5, <2>6 DEF TypeOK
<1>2. ASSUME NEW j \in Kinds, j # k PROVE Waiting(j)' /\ Returned(j)'
  <2>1. /\ taken'[j] = taken[j] /\ queue'[j] = queue[j]
        /\ shift'[j] = shift[j] /\ last'[j] = last[j]
        /\ frame'[j] = frame[j] /\ now' = now
      BY <1>2 DEF Inv, TypeOK, Recv
  <2>2. /\ now \in Int /\ taken[j] \in Int /\ Waiting(j) /\ Returned(j)
      BY <1>2, TrackTypes DEF Inv
  <2>3. queue[j] # <<>> => now' <= queue[j][1].taken + MaxDelay
      BY <2>1, <2>2 DEF Waiting
  <2>4. now <= now'
      BY <2>1, <2>2
  <2> QED
      BY <1>2, <2>1, <2>2, <2>3, <2>4, OtherTrack
<1> QED
    BY <1>1, <1>2, RecvTrack DEF Inv

\* Inv holds in every state of every behaviour.
LEMMA Invariance == Spec => []Inv
<1>1. Inv /\ [Next]_vars => Inv'
  <2> SUFFICES ASSUME Inv, [Next]_vars PROVE Inv'
      OBVIOUS
  <2>1. CASE Advance
      BY <2>1, AdvanceInv
  <2>2. ASSUME NEW k \in Kinds, Capture(k) PROVE Inv'
      BY <2>2, CaptureInv
  <2>3. ASSUME NEW k \in Kinds, Recv(k) PROVE Inv'
      BY <2>3, RecvInv
  <2>4. CASE UNCHANGED vars
      BY <2>4 DEF Inv, TypeOK, Waiting, Spaced, Returned, vars
  <2>5. CASE Drop
      BY <2>5, DropInv
  <2> QED
      BY <2>1, <2>2, <2>3, <2>4, <2>5 DEF Next
<1> QED
    BY <1>1, InitInv, PTL DEF Spec

\* Every frame is dated within MaxDelay of its capture (stream.Timed.recv), so
\* audio and video never drift apart, whatever the camera's clocks do.
THEOREM StaysInStep == Spec => []InStep
<1>1. Inv => InStep
    BY DEF Inv, Returned, InStep
<1> QED
    BY <1>1, Invariance, PTL

\* The variables of Timed keep their types.
THEOREM TimedTypes == Spec => []TypeOK
<1>1. Inv => TypeOK
    BY DEF Inv
<1> QED
    BY <1>1, Invariance, PTL

\* The audio's sample cadence stays unbroken through every recv.
THEOREM CadenceUnbroken == Spec => AudioCadence
<1> DEFINE Unbroken ==
        (frame["audio"] # NoFrame /\ frame'["audio"] # frame["audio"]) =>
            last'["audio"] - last["audio"] =
                frame'["audio"].pts - frame["audio"].pts
<1>1. Inv /\ [Next]_vars => [Unbroken]_vars
  <2> SUFFICES ASSUME Inv, Next, frame["audio"] # NoFrame,
                      frame'["audio"] # frame["audio"]
               PROVE  last'["audio"] - last["audio"] =
                          frame'["audio"].pts - frame["audio"].pts
      OBVIOUS
  <2>1. "audio" \in Kinds
      BY DEF Kinds
  <2>2. Recv("audio")
    <3>1. ASSUME NEW k \in Kinds, k # "audio", Recv(k)
          PROVE  frame'["audio"] = frame["audio"]
        BY <2>1, <3>1 DEF Inv, TypeOK, Recv
    <3> QED
        BY <3>1 DEF Next, Advance, Capture, Drop
  <2> DEFINE h == Head(queue["audio"])
  <2>3. /\ last["audio"] = frame["audio"].pts + shift["audio"]
        /\ shift["audio"] \in Int
      BY <2>1 DEF Inv, Returned
  <2>4. /\ last'["audio"] = h.pts + shift'["audio"]
        /\ frame'["audio"] = h
      BY <2>1, <2>2, RecvDates DEF Inv, TypeOK, Recv
  <2>5. shift'["audio"] = shift["audio"]
      BY <2>1, <2>2, <2>3, TrackFacts DEF Inv, TypeOK, Recv
  <2>6. frame["audio"].pts \in Int /\ h.pts \in Int
    <3>1. /\ frame["audio"] \in Frames /\ queue["audio"] \in Seq(Frames)
          /\ queue["audio"] # <<>>
        BY <2>1, <2>2, TrackTypes DEF Inv, Recv
    <3> QED
        BY <3>1, TailFacts DEF Frames
  <2> QED
      BY <2>3, <2>4, <2>5, <2>6
<1> QED
    BY <1>1, Invariance, PTL DEF Spec, AudioCadence

-----------------------------------------------------------------------------
(***************************************************************************)
(* The decoder in front.                                                   *)
(***************************************************************************)

\* A captured unit either becomes a frame or is dropped.
LEMMA CaptureRefines ==
    ASSUME NEW k \in Kinds, CaptureUnit(k)
    PROVE  Drop \/ Capture(k)
<1>1. CASE Decode(k, Unit(k, now)) = <<>>
    BY <1>1, Zenon DEF CaptureUnit
<1>2. CASE Decode(k, Unit(k, now)) # <<>>
    BY <1>2, Zenon DEF CaptureUnit
<1> QED
    BY <1>1, <1>2, Zenon

\* A unit is captured or dropped, so what holds of Timed holds of Media.
LEMMA MediaIsTimed == MediaSpec => Spec
<1>1. [MediaNext]_vars => [Next]_vars
  <2> SUFFICES ASSUME MediaNext PROVE Next
      BY Zenon
  <2>1. CASE Advance
      BY <2>1, Zenon DEF Next
  <2>2. ASSUME NEW k \in Kinds, CaptureUnit(k) PROVE Next
      BY <2>2, CaptureRefines, Zenon DEF Next
  <2>3. ASSUME NEW k \in Kinds, Recv(k) PROVE Next
      BY <2>3, Zenon DEF Next
  <2> QED
      BY <2>1, <2>2, <2>3, Zenon DEF MediaNext
<1> QED
    BY <1>1, PTL DEF MediaSpec, Spec

\* Audio and video stay in step although empty audio units never become
\* frames, the first ones included.
THEOREM MediaInStep == MediaSpec => []InStep
BY MediaIsTimed, StaysInStep, PTL

\* The audio's cadence is that of the camera across the units that are dropped.
THEOREM MediaCadence == MediaSpec => AudioCadence
BY MediaIsTimed, CadenceUnbroken, PTL

-----------------------------------------------------------------------------
(***************************************************************************)
(* The audio that is muxed.                                                *)
(***************************************************************************)

\* The unit of each moment is one of those the camera makes.
LEMMA PartsAreUnits ==
    ASSUME NEW t \in Int
    PROVE  /\ \E n \in DOMAIN AudioUnits : Parts("audio", t) = AudioUnits[n]
           /\ \E n \in DOMAIN VideoUnits : Parts("video", t) = VideoUnits[n]
<1>1. ASSUME NEW m \in Nat \ {0} PROVE (t % m) + 1 \in 1..m
    BY <1>1
<1>2. /\ Len(AudioUnits) \in Nat \ {0}
      /\ DOMAIN AudioUnits = 1..Len(AudioUnits)
    BY AudioAssumption
<1>3. /\ Len(VideoUnits) \in Nat \ {0}
      /\ DOMAIN VideoUnits = 1..Len(VideoUnits)
    BY VideoAssumption
<1> QED
    BY <1>1, <1>2, <1>3 DEF Parts

\* What a cut of a sequence holds.
LEMMA CutFacts ==
    ASSUME NEW S, NEW s \in Seq(S), NEW m \in 1..Len(s), NEW n \in m..Len(s)
    PROVE  /\ SubSeq(s, m, n) \in Seq(S)
           /\ Len(SubSeq(s, m, n)) = n - m + 1
           /\ \A i \in 1..(n - m + 1) : SubSeq(s, m, n)[i] = s[m + i - 1]
<1>1. Len(s) \in Nat /\ \A i \in m..n : s[i] \in S
    BY LenProperties, ElementOfSeq
<1>2. m \in Int /\ n \in Int /\ m <= n
    BY <1>1
<1> QED
    BY <1>1, <1>2, SubSeqProperties

\* The test for the header, on bytes.
LEMMA HeaderSeen ==
    ASSUME NEW S, NEW s \in Seq(S), Len(s) > 4
    PROVE  SubSeq(s, 1, 2) = <<0, 16>> <=> s[1] = 0 /\ s[2] = 16
<1>1. Len(s) \in Nat /\ 1 \in 1..Len(s) /\ 2 \in 1..Len(s)
    BY LenProperties
<1> DEFINE t == SubSeq(s, 1, 2)
<1>2. t \in Seq(S) /\ Len(t) = 2 /\ t[1] = s[1] /\ t[2] = s[2]
    BY <1>1, CutFacts
<1> HIDE DEF t
<1>3. t = <<t[1], t[2]>>
    BY <1>2
<1>4. t = <<0, 16>> <=> s[1] = 0 /\ s[2] = 16
    BY <1>2, <1>3
<1> QED
    BY <1>4 DEF t

LEMMA ShedsAHeader ==
    ASSUME NEW S, NEW h \in Seq(S), NEW b \in Seq(S),
           Len(h) = 4, h[1] = 0, h[2] = 16, b # <<>>
    PROVE  Shed(h \o b) = b
<1> DEFINE d == h \o b
<1>1. Len(b) \in Nat /\ Len(b) > 0
    BY EmptySeq, LenProperties
<1>2. /\ d \in Seq(S) /\ Len(d) = 4 + Len(b)
      /\ \A i \in 1..(4 + Len(b)) : d[i] = IF i <= 4 THEN h[i] ELSE b[i - 4]
  <2>1. /\ d \in Seq(S) /\ Len(d) = Len(h) + Len(b)
        /\ \A i \in 1..(Len(h) + Len(b)) :
               d[i] = IF i <= Len(h) THEN h[i] ELSE b[i - Len(h)]
      BY ConcatProperties
  <2> HIDE DEF d
  <2> QED
      BY <1>1, <2>1
<1> HIDE DEF d
<1>3. d[1] = 0 /\ d[2] = 16
    BY <1>1, <1>2
<1>4. SubSeq(d, 1, 2) = <<0, 16>>
    BY <1>1, <1>2, <1>3, HeaderSeen
<1>5. SubSeq(d, 5, Len(d)) = b
  <2> DEFINE t == SubSeq(d, 5, Len(d))
  <2>1. 5 \in 1..Len(d) /\ Len(d) \in 5..Len(d)
      BY <1>1, <1>2
  <2>2. /\ t \in Seq(S) /\ Len(t) = Len(d) - 5 + 1
        /\ \A i \in 1..(Len(d) - 5 + 1) : t[i] = d[5 + i - 1]
      BY <1>2, <2>1, CutFacts
  <2> HIDE DEF t
  <2>3. Len(t) = Len(b) /\ \A i \in 1..Len(t) : t[i] = b[i]
      BY <1>1, <1>2, <2>2
  <2>4. t = b
      BY <2>2, <2>3, SeqEqual
  <2> QED
      BY <2>4 DEF t
<1>6. Shed(d) = b
    BY <1>1, <1>2, <1>4, <1>5 DEF Shed
<1> QED
    BY <1>6 DEF d

LEMMA ShedsNothingElse ==
    ASSUME NEW S, NEW b \in Seq(S), Len(b) > 4 => ~(b[1] = 0 /\ b[2] = 16)
    PROVE  Shed(b) = b
BY HeaderSeen DEF Shed

\* What is left of a unit: the frame, or a header that has none.
Kept(unit) == IF unit.bytes = <<>> THEN unit.header ELSE unit.bytes

\* Shed takes the header off a frame, when there is one, and nothing else.
LEMMA ShedsTheHeader ==
    ASSUME NEW n \in DOMAIN AudioUnits
    PROVE  Shed(AudioUnits[n].header \o AudioUnits[n].bytes)
               = Kept(AudioUnits[n])
<1> DEFINE h == AudioUnits[n].header
           b == AudioUnits[n].bytes
<1>1. AudioUnits[n] \in [header : Bytes, bytes : Bytes]
  <2>1. AudioUnits \in Seq([header : Bytes, bytes : Bytes])
      BY AudioAssumption
  <2> QED
      BY <2>1, LenProperties, ElementOfSeq
<1>2. h \in Seq(0..255) /\ b \in Seq(0..255)
    BY <1>1 DEF Bytes
<1>3. \/ Len(h) = 4 /\ h[1] = 0 /\ h[2] = 16
      \/ h = <<>> /\ (Len(b) > 4 => ~(b[1] = 0 /\ b[2] = 16))
    BY AudioAssumption
<1> HIDE DEF h, b
<1>4. h = <<>> => h \o b = b
    BY <1>2, ConcatEmptySeq
<1>5. CASE b # <<>>
    BY <1>2, <1>3, <1>4, <1>5, ShedsAHeader, ShedsNothingElse DEF Kept, h, b
<1>6. CASE b = <<>>
  <2>1. h \o b = h
      BY <1>2, <1>6, ConcatEmptySeq
  <2>2. Len(h) = 4 \/ Len(h) = 0
    <3>1. h = <<>> => Len(h) = 0
        BY EmptySeq, Zenon
    <3> QED
        BY <1>3, <3>1, Zenon
  <2>3. Shed(h) = h
    <3>1. \A m \in {0, 4} : ~(m > 4)
        OBVIOUS
    <3>2. ~(Len(h) > 4)
        BY <2>2, <3>1, Zenon
    <3> QED
        BY <3>2, Zenon DEF Shed
  <2> QED
      BY <1>6, <2>1, <2>3 DEF Kept, h, b
<1> QED
    BY <1>5, <1>6

\* Padding makes no packet, anything else makes one of what is kept.
LEMMA AudioDecoded ==
    ASSUME NEW t \in Int
    PROVE  Decode("audio", Unit("audio", t)) =
               IF Zero(Kept(Parts("audio", t))) THEN <<>>
               ELSE <<[data |-> Kept(Parts("audio", t)), key |-> TRUE]>>
<1>1. PICK n \in DOMAIN AudioUnits : Parts("audio", t) = AudioUnits[n]
    BY PartsAreUnits
<1>2. Shed(Unit("audio", t)) = Kept(Parts("audio", t))
    BY <1>1, ShedsTheHeader DEF Unit
<1> QED
    BY <1>2, "audio" # "video" DEF Decode

\* No padding is under way to the muxer.
Voiced(t) == ~Zero(Kept(Parts("audio", t)))
NoPadding ==
    /\ \A i \in 1..Len(queue["audio"]) : Voiced(queue["audio"][i].taken)
    /\ frame["audio"] # NoFrame => Voiced(frame["audio"].taken)

LEMMA PaddingNeverEnters ==
    Inv /\ NoPadding /\ [MediaNext]_vars => NoPadding'
<1> SUFFICES ASSUME Inv, NoPadding, [MediaNext]_vars PROVE NoPadding'
    OBVIOUS
<1>1. /\ "audio" \in Kinds /\ now \in Int
      /\ queue \in [Kinds -> Seq(Frames)] /\ frame \in [Kinds -> Frames]
    BY DEF Inv, TypeOK, Kinds
<1>2. ASSUME UNCHANGED queue, UNCHANGED frame PROVE NoPadding'
    BY <1>2 DEF NoPadding, Voiced, Kept, Parts
<1>3. ASSUME NEW k \in Kinds, CaptureUnit(k) PROVE NoPadding'
  <2>1. CASE Decode(k, Unit(k, now)) = <<>>
      BY <1>2, <1>3, <2>1 DEF CaptureUnit, Drop
  <2>2. CASE Decode(k, Unit(k, now)) # <<>>
    <3>1. Capture(k)
        BY <1>3, <2>2 DEF CaptureUnit
    <3>2. CASE k # "audio"
      <4>1. queue'["audio"] = queue["audio"] /\ frame' = frame
          BY <1>1, <3>1, <3>2 DEF Capture
      <4> QED
          BY <4>1 DEF NoPadding, Voiced, Kept, Parts
    <3>3. CASE k = "audio"
      <4> DEFINE f == [taken |-> now, pts |-> CameraDate("audio", now)]
      <4>1. queue'["audio"] = Append(queue["audio"], f) /\ frame' = frame
          BY <1>1, <3>1, <3>3 DEF Capture
      <4>2. Voiced(now)
          BY <1>1, <2>2, <3>3, AudioDecoded DEF Voiced
      <4>3. f \in Frames
          BY <1>1, <3>1, <3>3, CameraDateInt
             DEF Frames, CameraDate, Inv, TypeOK
      <4>4. /\ Len(Append(queue["audio"], f)) = Len(queue["audio"]) + 1
            /\ \A i \in 1..Len(queue["audio"]) :
                   Append(queue["audio"], f)[i] = queue["audio"][i]
            /\ Append(queue["audio"], f)[Len(queue["audio"]) + 1] = f
          BY <1>1, <4>3, AppendFacts
      <4>5. \A i \in 1..Len(queue'["audio"]) :
                Voiced(queue'["audio"][i].taken)
        <5>1. f.taken = now
            OBVIOUS
        <5> HIDE DEF f
        <5>2. Len(queue["audio"]) \in Nat
            BY <1>1
        <5> QED
            BY <4>1, <4>2, <4>4, <5>1, <5>2 DEF NoPadding
      <4> QED
          BY <4>1, <4>5 DEF NoPadding, Voiced, Kept, Parts
    <3> QED
        BY <3>2, <3>3
  <2> QED
      BY <2>1, <2>2
<1>4. ASSUME NEW k \in Kinds, Recv(k) PROVE NoPadding'
  <2>1. CASE k # "audio"
    <3>1. queue'["audio"] = queue["audio"] /\ frame'["audio"] = frame["audio"]
        BY <1>1, <1>4, <2>1 DEF Recv
    <3> QED
        BY <3>1 DEF NoPadding, Voiced, Kept, Parts
  <2>2. CASE k = "audio"
    <3> DEFINE q == queue["audio"]
    <3>1. /\ q \in Seq(Frames) /\ q # <<>>
          /\ queue'["audio"] = Tail(q) /\ frame'["audio"] = Head(q)
        BY <1>1, <1>4, <2>2 DEF Recv
    <3>2. /\ Head(q) = q[1] /\ Len(q) > 0 /\ Len(Tail(q)) = Len(q) - 1
          /\ Len(q) \in Nat
          /\ \A i \in 1..(Len(q) - 1) : Tail(q)[i] = q[i + 1]
        BY <3>1, TailFacts
    <3>3. \A i \in 1..Len(q) : Voiced(q[i].taken)
        BY DEF NoPadding
    <3>4. /\ Voiced(Head(q).taken)
          /\ \A i \in 1..Len(Tail(q)) : Voiced(Tail(q)[i].taken)
      <4> HIDE DEF q
      <4> QED
          BY <3>2, <3>3
    <3> QED
        BY <3>1, <3>4 DEF NoPadding, Voiced, Kept, Parts
  <2> QED
      BY <2>1, <2>2
<1> QED
    BY <1>2, <1>3, <1>4 DEF MediaNext, Advance, vars

\* The audio that reaches the muxer is the frames the camera encoded, without
\* the header of rtp, and no unit of zeros; but a header with nothing behind it
\* reaches the muxer as it is.
THEOREM HeadersAreShed == MediaSpec => []HeadersShed
<1>1. MediaSpec => []Inv
    BY MediaIsTimed, Invariance, PTL
<1>2. Init => NoPadding
    BY DEF Init, NoPadding, Kinds
<1>3. Inv /\ NoPadding => HeadersShed
  <2> SUFFICES ASSUME Inv, NoPadding, frame["audio"] # NoFrame
               PROVE  /\ Muxed("audio").data =
                             Kept(Parts("audio", frame["audio"].taken))
                      /\ ~Zero(Muxed("audio").data)
      BY DEF HeadersShed, Kept
  <2>1. frame["audio"].taken \in Int
      BY DEF Inv, TypeOK, Kinds, Frames
  <2>2. Voiced(frame["audio"].taken)
      BY DEF NoPadding
  <2> QED
      BY <2>1, <2>2, AudioDecoded DEF Muxed, Voiced
<1> QED
    BY <1>1, <1>2, <1>3, PaddingNeverEnters, PTL DEF MediaSpec

-----------------------------------------------------------------------------
(***************************************************************************)
(* The groups of pictures that are marked.                                 *)
(***************************************************************************)

\* FlattenSeq is what one gets by appending one sequence after the other.
LEMMA FlattenSteps ==
    ASSUME NEW S, NEW seqs \in Seq(Seq(S)), seqs # <<>>
    PROVE  \E g \in [Nat -> Seq(S)] :
               /\ g[0] = <<>>
               /\ \A i \in 0..(Len(seqs) - 1) : g[i + 1] = g[i] \o seqs[i + 1]
               /\ FlattenSeq(seqs) = g[Len(seqs)]
<1> DEFINE n == Len(seqs)
           V == Seq(S)
           step == [a \in Nat \X V |->
                       IF a[1] < n THEN a[2] \o seqs[a[1] + 1] ELSE a[2]]
           Flattens(f) == f = [i \in 1..n |-> IF i = 1 THEN seqs[i]
                                              ELSE f[i - 1] \o seqs[i]]
           F == CHOOSE f : Flattens(f)
<1>1. n \in Nat /\ n > 0 /\ \A i \in 1..n : seqs[i] \in V
    BY EmptySeq, LenProperties, ElementOfSeq
<1>2. <<>> \in V
    BY EmptySeq
<1>3. step \in [Nat \X V -> V]
  <2>1. ASSUME NEW i \in Nat, NEW v \in V, i < n
        PROVE  v \o seqs[i + 1] \in V
    <3>1. i + 1 \in 1..n
        BY <1>1, <2>1
    <3> QED
        BY <1>1, <3>1, ConcatProperties
  <2> HIDE DEF n, V
  <2> QED
      BY <2>1
<1> DEFINE base == <<>>
<1>4. PICK g : Iterates(g, V, base, step)
  <2>1. base \in V
      BY <1>2
  <2> HIDE DEF step, V, base
  <2> QED
      BY <1>3, <2>1, Recursion
<1>5. ASSUME NEW i \in 0..(n - 1) PROVE g[i + 1] = g[i] \o seqs[i + 1]
  <2>1. i \in Nat /\ i < n
      BY <1>1
  <2>2. <<i, g[i]>> \in Nat \X V
      BY <1>4, <2>1 DEF Iterates
  <2>3. step[<<i, g[i]>>] = g[i] \o seqs[i + 1]
    <3> HIDE DEF n, V
    <3> QED
        BY <2>1, <2>2
  <2> HIDE DEF step, V
  <2> QED
      BY <1>4, <2>1, <2>3 DEF Iterates
<1> HIDE DEF step
<1>6. g[1] = seqs[1]
  <2>1. g[0 + 1] = <<>> \o seqs[1]
    <3>1. 0 \in 0..(n - 1)
        BY <1>1
    <3>2. g[0 + 1] = g[0] \o seqs[0 + 1]
        BY <1>5, <3>1
    <3> QED
        BY <1>4, <3>2 DEF Iterates
  <2>2. 1 \in 1..n
      BY <1>1
  <2> QED
      BY <1>1, <2>1, <2>2, ConcatEmptySeq
<1>7. Flattens([i \in 1..n |-> g[i]])
  <2> DEFINE f == [i \in 1..n |-> g[i]]
  <2>1. ASSUME NEW i \in 1..n
        PROVE  f[i] = IF i = 1 THEN seqs[i] ELSE f[i - 1] \o seqs[i]
    <3>1. CASE i = 1
        BY <1>1, <1>6, <3>1
    <3>2. CASE i # 1
      <4>1. i - 1 \in 0..(n - 1) /\ i - 1 \in 1..n /\ (i - 1) + 1 = i
          BY <1>1, <3>2
      <4>2. g[i] = g[i - 1] \o seqs[i]
          BY <1>5, <4>1
      <4> QED
          BY <3>2, <4>1, <4>2
    <3> QED
        BY <3>1, <3>2
  <2>2. DOMAIN f = 1..n
      OBVIOUS
  <2> QED
      BY <2>1, <2>2
<1>8. Flattens(F)
    BY <1>7
<1>9. /\ F[1] = seqs[1]
      /\ \A i \in 1..n : i # 1 => F[i] = F[i - 1] \o seqs[i]
  <2>1. F = [i \in 1..n |-> IF i = 1 THEN seqs[i] ELSE F[i - 1] \o seqs[i]]
      BY <1>8
  <2> HIDE DEF F, n
  <2>2. ASSUME NEW i \in 1..n
        PROVE  F[i] = IF i = 1 THEN seqs[i] ELSE F[i - 1] \o seqs[i]
      BY <2>1, Zenon
  <2>3. 1 \in 1..n
      BY <1>1
  <2> QED
      BY <2>2, <2>3
<1> DEFINE Agree == {i \in Nat : i \in 1..n => F[i] = g[i]}
<1>10. Nat \subseteq Agree
  <2> HIDE DEF F
  <2>1. 0 \in Agree
      OBVIOUS
  <2>2. ASSUME NEW i \in Nat, i \in Agree PROVE i + 1 \in Agree
    <3>1. CASE i = 0
        BY <1>6, <1>9, <3>1
    <3>2. CASE i # 0 /\ i + 1 \in 1..n
      <4>1. i \in 1..n /\ i \in 0..(n - 1) /\ i + 1 # 1 /\ (i + 1) - 1 = i
          BY <1>1, <3>2
      <4>2. F[i] = g[i]
          BY <2>2, <4>1
      <4>3. F[i + 1] = F[i] \o seqs[i + 1]
          BY <1>9, <3>2, <4>1
      <4>4. g[i + 1] = g[i] \o seqs[i + 1]
          BY <1>5, <4>1
      <4>5. F[i + 1] = g[i + 1]
          BY <4>2, <4>3, <4>4
      <4> QED
          BY <4>5
    <3>3. CASE i + 1 \notin 1..n
        BY <3>3
    <3> HIDE DEF Agree
    <3> QED
        BY <3>1, <3>2, <3>3
  <2> HIDE DEF Agree
  <2> QED
      BY <2>1, <2>2, EveryNumber
<1>11. FlattenSeq(seqs) = F[n]
    BY <1>1 DEF FlattenSeq
<1>12. F[n] = g[n]
  <2> HIDE DEF F, V
  <2> QED
      BY <1>1, <1>10
<1> QED
    BY <1>4, <1>5, <1>11, <1>12 DEF Iterates

\* A start code, byte by byte.
LEMMA CodeBytes ==
    ASSUME NEW S, NEW data \in Seq(S), NEW i \in 1..Len(data)
    PROVE  CodeAt(data, i) <=> /\ i + 2 <= Len(data)
                               /\ data[i] = 0 /\ data[i + 1] = 0
                               /\ data[i + 2] = 1
<1> DEFINE t == SubSeq(data, i, Len(data))
           u == SubSeq(t, 1, 3)
<1>1. Len(data) \in Nat /\ i \in Int
    BY LenProperties
<1>2. /\ t \in Seq(S) /\ Len(t) = Len(data) - i + 1
      /\ \A j \in 1..(Len(data) - i + 1) : t[j] = data[i + j - 1]
    BY <1>1, CutFacts
<1>3. CodeAt(data, i) <=> 3 <= Len(t) /\ <<0, 0, 1>> = u
    BY DEF CodeAt, IsPrefix
<1> HIDE DEF t
<1>4. ASSUME 3 <= Len(t)
      PROVE  <<0, 0, 1>> = u <=> t[1] = 0 /\ t[2] = 0 /\ t[3] = 1
  <2>1. Len(t) \in Nat /\ 1 \in 1..Len(t) /\ 3 \in 1..Len(t)
      BY <1>1, <1>2, <1>4
  <2>2. u \in Seq(S) /\ Len(u) = 3
        /\ u[1] = t[1] /\ u[2] = t[2] /\ u[3] = t[3]
      BY <1>2, <2>1, CutFacts
  <2> HIDE DEF u
  <2>3. u = <<u[1], u[2], u[3]>>
      BY <2>2
  <2> QED
      BY <2>2, <2>3
<1> QED
  <2>1. Len(t) >= 3 <=> i + 2 <= Len(data)
      BY <1>1, <1>2
  <2>2. ASSUME Len(t) >= 3
        PROVE  t[1] = data[i] /\ t[2] = data[i + 1] /\ t[3] = data[i + 2]
    <3>1. \A j \in 1..3 : j \in 1..(Len(data) - i + 1)
        BY <1>1, <1>2, <2>2
    <3>2. t[1] = data[i + 1 - 1] /\ t[2] = data[i + 2 - 1]
          /\ t[3] = data[i + 3 - 1]
        BY <1>2, <3>1
    <3> QED
        BY <1>1, <3>2
  <2> HIDE DEF u
  <2> QED
      BY <1>1, <1>2, <1>3, <1>4, <2>1, <2>2

\* What a NAL unit may be, and whether it lets a group begin.
NoCodeIn(b) == \A j \in 1..(Len(b) - 2) :
                   ~(b[j] = 0 /\ b[j + 1] = 0 /\ b[j + 2] = 1)
Tells(b) == b[1] % 32 \in {5, 7}
NoZeroLast(b) == b # <<>> => b[Len(b)] # 0

\* A NAL unit behind its start code adds one start code to the bytes before it.
LEMMA OneCodeMore ==
    ASSUME NEW S, NEW d \in Seq(S), NEW code \in Seq(S), NEW b \in Seq(S),
           NoZeroLast(d), b # <<>>, NoCodeIn(b),
           code \in {<<0, 0, 1>>, <<0, 0, 0, 1>>},
           NEW i \in 1..Len(d \o (code \o b))
    PROVE  CodeAt(d \o (code \o b), i) <=>
               \/ i <= Len(d) /\ CodeAt(d, i)
               \/ i = Len(d) + Len(code) - 2
<1> DEFINE e == d \o (code \o b)
           L == Len(d)
           c == Len(code)
           B == Len(b)
<1>1. /\ L \in Nat /\ B \in Nat /\ B > 0 /\ c \in {3, 4}
      /\ c = 3 => code[1] = 0 /\ code[2] = 0 /\ code[3] = 1
      /\ c = 4 => code[1] = 0 /\ code[2] = 0 /\ code[3] = 0 /\ code[4] = 1
    BY EmptySeq, LenProperties
<1>2. /\ code \o b \in Seq(S) /\ Len(code \o b) = c + B
      /\ \A j \in 1..(c + B) :
             (code \o b)[j] = IF j <= c THEN code[j] ELSE b[j - c]
    BY ConcatProperties
<1>3. /\ e \in Seq(S) /\ Len(e) = L + (c + B)
      /\ \A j \in 1..(L + (c + B)) :
             e[j] = IF j <= L THEN d[j] ELSE (code \o b)[j - L]
    BY <1>2, ConcatProperties
<1>4. CodeAt(e, i) <=> i + 2 <= Len(e) /\ e[i] = 0 /\ e[i + 1] = 0
                       /\ e[i + 2] = 1
    BY <1>3, CodeBytes
<1>5. i <= L => (CodeAt(d, i) <=> i + 2 <= L /\ d[i] = 0 /\ d[i + 1] = 0
                                  /\ d[i + 2] = 1)
  <2>1. i <= L => i \in 1..Len(d)
      BY <1>1, <1>3
  <2> QED
      BY <2>1, CodeBytes
<1>6. L > 0 => d[L] # 0
    BY <1>1, EmptySeq DEF NoZeroLast
<1>7. \A j \in 1..(B - 2) : ~(b[j] = 0 /\ b[j + 1] = 0 /\ b[j + 2] = 1)
    BY DEF NoCodeIn
<1>11. i \in 1..(L + c + B)
  <2>1. i \in 1..Len(e)
      OBVIOUS
  <2> HIDE DEF e, L, c, B
  <2> QED
      BY <1>1, <1>3, <2>1
<1> SUFFICES CodeAt(e, i) <=> (i <= L /\ CodeAt(d, i)) \/ i = L + c - 2
    OBVIOUS
<1> HIDE DEF e, L, c, B
<1>8. \A j \in 1..L : e[j] = d[j]
    BY <1>1, <1>3
<1>9. \A j \in 1..c : e[L + j] = code[j]
  <2> TAKE j \in 1..c
  <2>1. L + j \in 1..(L + (c + B)) /\ ~(L + j <= L) /\ (L + j) - L = j
        /\ j \in 1..(c + B) /\ j <= c
      BY <1>1
  <2> QED
      BY <1>2, <1>3, <2>1
<1>10. \A j \in 1..B : e[L + c + j] = b[j]
  <2> TAKE j \in 1..B
  <2>1. /\ L + c + j \in 1..(L + (c + B)) /\ ~(L + c + j <= L)
        /\ (L + c + j) - L = c + j /\ c + j \in 1..(c + B)
        /\ ~(c + j <= c) /\ (c + j) - c = j
      BY <1>1
  <2> QED
      BY <1>2, <1>3, <2>1
<1>12. CASE i + 2 <= L
    BY <1>1, <1>3, <1>4, <1>5, <1>8, <1>11, <1>12
<1>13. CASE i <= L /\ i + 2 > L
  <2>1. CASE i = L
      BY <1>1, <1>3, <1>4, <1>5, <1>6, <1>8, <1>11, <2>1
  <2>2. CASE i = L - 1
      BY <1>1, <1>3, <1>4, <1>5, <1>6, <1>8, <1>11, <2>2
  <2> QED
      BY <1>1, <1>11, <1>13, <2>1, <2>2
<1>14. CASE i > L /\ i <= L + c
  <2>1. CASE c = 3
    <3>1. e[L + 1] = 0 /\ e[L + 2] = 0 /\ e[L + 3] = 1
        BY <1>1, <1>9, <2>1
    <3>2. i = L + 1 \/ i = L + 2 \/ i = L + 3
        BY <1>1, <1>11, <1>14, <2>1
    <3>3. CASE i = L + 1
        BY <1>1, <1>3, <1>4, <2>1, <3>1, <3>3
    <3>4. CASE i = L + 2
        BY <1>1, <1>3, <1>4, <2>1, <3>1, <3>4
    <3>5. CASE i = L + 3
        BY <1>1, <1>3, <1>4, <2>1, <3>1, <3>5
    <3> QED
        BY <3>2, <3>3, <3>4, <3>5
  <2>2. CASE c = 4
    <3>1. e[L + 1] = 0 /\ e[L + 2] = 0 /\ e[L + 3] = 0 /\ e[L + 4] = 1
        BY <1>1, <1>9, <2>2
    <3>2. i = L + 1 \/ i = L + 2 \/ i = L + 3 \/ i = L + 4
        BY <1>1, <1>11, <1>14, <2>2
    <3>3. CASE i = L + 1
        BY <1>1, <1>3, <1>4, <2>2, <3>1, <3>3
    <3>4. CASE i = L + 2
        BY <1>1, <1>3, <1>4, <2>2, <3>1, <3>4
    <3>5. CASE i = L + 3
        BY <1>1, <1>3, <1>4, <2>2, <3>1, <3>5
    <3>6. CASE i = L + 4
        BY <1>1, <1>3, <1>4, <2>2, <3>1, <3>6
    <3> QED
        BY <3>2, <3>3, <3>4, <3>5, <3>6
  <2> QED
      BY <1>1, <2>1, <2>2
<1>15. CASE i > L + c
  <2> DEFINE j == i - L - c
  <2>1. ASSUME i + 2 <= Len(e) PROVE ~CodeAt(e, i)
    <3>1. /\ j \in 1..(B - 2) /\ j \in 1..B /\ j + 1 \in 1..B /\ j + 2 \in 1..B
          /\ i = L + c + j /\ i + 1 = L + c + (j + 1)
          /\ i + 2 = L + c + (j + 2)
        BY <1>1, <1>3, <1>11, <1>15, <2>1
    <3>2. e[i] = b[j] /\ e[i + 1] = b[j + 1] /\ e[i + 2] = b[j + 2]
      <4> HIDE DEF j
      <4> QED
          BY <1>10, <3>1
    <3> QED
        BY <1>4, <1>7, <3>1, <3>2
  <2> QED
      BY <1>1, <1>4, <1>11, <1>15, <2>1
<1>16. i + 2 <= L \/ (i <= L /\ i + 2 > L) \/ (i > L /\ i <= L + c)
       \/ i > L + c
    BY <1>1, <1>11
<1> QED
    BY <1>12, <1>13, <1>14, <1>15, <1>16

\* So it lets a group begin where one could begin before, or if it tells so.
LEMMA OneUnitMore ==
    ASSUME NEW S, NEW d \in Seq(S), NEW code \in Seq(S), NEW b \in Seq(S),
           NoZeroLast(d), b # <<>>, NoCodeIn(b),
           code \in {<<0, 0, 1>>, <<0, 0, 0, 1>>}
    PROVE  OpensAGroup(d \o (code \o b)) <=> OpensAGroup(d) \/ Tells(b)
<1> DEFINE e == d \o (code \o b)
           L == Len(d)
           c == Len(code)
           B == Len(b)
           Opens(s, i) == i <= Len(s) /\ ~CodeAt(s, i) /\ s[i] % 32 \in {5, 7}
<1>1. /\ L \in Nat /\ B \in Nat /\ B > 0 /\ c \in {3, 4}
      /\ code[1] = 0
    BY EmptySeq, LenProperties
<1>2. /\ code \o b \in Seq(S) /\ Len(code \o b) = c + B
      /\ \A j \in 1..(c + B) :
             (code \o b)[j] = IF j <= c THEN code[j] ELSE b[j - c]
    BY ConcatProperties
<1>3. /\ e \in Seq(S) /\ Len(e) = L + (c + B)
      /\ \A j \in 1..(L + (c + B)) :
             e[j] = IF j <= L THEN d[j] ELSE (code \o b)[j - L]
    BY <1>2, ConcatProperties
<1>4. \A i \in 1..Len(e) : CodeAt(e, i) <=> (i <= L /\ CodeAt(d, i))
                                            \/ i = L + c - 2
    BY OneCodeMore
<1>5. DOMAIN e = 1..Len(e) /\ DOMAIN d = 1..L
    BY <1>3, LenProperties
<1>6. \A s : OpensAGroup(s) <=>
                 \/ Opens(s, 1)
                 \/ \E i \in DOMAIN s : CodeAt(s, i) /\ Opens(s, i + 3)
    BY DEF OpensAGroup, Codes
<1>7. \A i \in 1..L : CodeAt(d, i) => i + 2 <= L
    BY CodeBytes
<1> SUFFICES OpensAGroup(e) <=> OpensAGroup(d) \/ Tells(b)
    OBVIOUS
<1> HIDE DEF e, L, c, B
<1>8. \A i \in 1..(L + 1) : Opens(e, i) <=> Opens(d, i)
  <2> TAKE i \in 1..(L + 1)
  <2>1. CASE i <= L
    <3>1. /\ i \in 1..Len(e) /\ i # L + c - 2 /\ i \in 1..(L + (c + B))
          /\ i <= Len(e) /\ i <= Len(d)
        BY <1>1, <1>3, <2>1 DEF L
    <3> QED
        BY <1>3, <1>4, <2>1, <3>1
  <2>2. CASE i = L + 1
    <3>1. ~(i <= L) /\ i \in 1..(L + (c + B)) /\ i - L = 1
          /\ 1 \in 1..(c + B) /\ 1 <= c
        BY <1>1, <2>2
    <3>2. e[i] = 0
        BY <1>1, <1>2, <1>3, <3>1
    <3> QED
        BY <3>1, <3>2 DEF L
  <2> QED
      BY <1>1, <2>1, <2>2
<1>9. L + c - 2 \in 1..Len(e) /\ CodeAt(e, L + c - 2)
    BY <1>1, <1>3, <1>4
<1>10. Opens(e, (L + c - 2) + 3) <=> Tells(b)
  <2> DEFINE i == L + c + 1
  <2>1. /\ (L + c - 2) + 3 = i /\ i \in 1..Len(e) /\ i # L + c - 2
        /\ ~(i <= L) /\ i - L = c + 1 /\ c + 1 \in 1..(c + B)
        /\ i \in 1..(L + (c + B)) /\ ~(c + 1 <= c) /\ (c + 1) - c = 1
        /\ i <= Len(e)
      BY <1>1, <1>3
  <2>2. e[i] = b[1]
      BY <1>2, <1>3, <2>1
  <2>3. ~CodeAt(e, i)
      BY <1>4, <2>1
  <2> QED
      BY <2>1, <2>2, <2>3 DEF Tells
<1>11. ASSUME NEW i \in 1..L, CodeAt(d, i)
       PROVE  i \in 1..Len(e) /\ CodeAt(e, i) /\ i + 3 \in 1..(L + 1)
  <2>1. i \in 1..Len(e) /\ i <= L /\ i + 2 <= L
      BY <1>1, <1>3, <1>7, <1>11
  <2>2. CodeAt(e, i)
      BY <1>4, <1>11, <2>1
  <2> QED
      BY <1>1, <2>1, <2>2
<1>12. \A i \in 1..Len(e) : CodeAt(e, i) => i = L + c - 2
                                \/ (i \in 1..L /\ CodeAt(d, i))
    BY <1>1, <1>3, <1>4
<1>13. 1 \in 1..(L + 1)
    BY <1>1
<1> HIDE DEF Opens
<1> QED
    BY <1>5, <1>6, <1>8, <1>9, <1>10, <1>11, <1>12, <1>13

\* An access unit opens a group exactly when one of its NAL units tells so.
LEMMA UnitOpens ==
    ASSUME NEW t \in Int
    PROVE  OpensAGroup(Unit("video", t)) <=>
               \E i \in DOMAIN Parts("video", t) :
                   Tells(Parts("video", t)[i].bytes)
<1> DEFINE S == 0..255
           Code == {<<0, 0, 1>>, <<0, 0, 0, 1>>}
           nals == Parts("video", t)
           n == Len(nals)
           seqs == [i \in DOMAIN nals |-> nals[i].code \o nals[i].bytes]
<1>1. PICK m \in DOMAIN VideoUnits : nals = VideoUnits[m]
    BY PartsAreUnits
<1>2. nals \in Seq([code : Code, bytes : Bytes]) /\ nals # <<>>
  <2>1. VideoUnits \in Seq(Seq([code : Code, bytes : Bytes]))
      BY VideoAssumption
  <2>2. VideoUnits[m] # <<>>
      BY VideoAssumption
  <2> QED
      BY <1>1, <2>1, <2>2, LenProperties, ElementOfSeq
<1>3. n \in Nat /\ n > 0 /\ DOMAIN nals = 1..n
    BY <1>2, EmptySeq, LenProperties
<1>4. Code \subseteq Seq(S)
    OBVIOUS
<1>5. ASSUME NEW i \in 1..n
      PROVE  /\ nals[i].code \in Code /\ nals[i].bytes \in Seq(S)
             /\ nals[i].bytes # <<>> /\ NoZeroLast(nals[i].bytes)
             /\ NoCodeIn(nals[i].bytes)
  <2>1. nals[i] \in [code : Code, bytes : Bytes]
      BY <1>2, ElementOfSeq
  <2>2. nals[i].code \in Code /\ nals[i].bytes \in Seq(S)
      BY <2>1 DEF Bytes
  <2>3. i \in DOMAIN VideoUnits[m]
      BY <1>1, <1>3
  <2> QED
      BY <1>1, <2>2, <2>3, VideoAssumption DEF NoZeroLast, NoCodeIn
<1> HIDE DEF nals, n, Code, S
<1>6. seqs \in Seq(Seq(S)) /\ Len(seqs) = n /\ seqs # <<>>
      /\ \A i \in 1..n : seqs[i] = nals[i].code \o nals[i].bytes
  <2>1. \A i \in 1..n : nals[i].code \o nals[i].bytes \in Seq(S)
      BY <1>4, <1>5, ConcatProperties
  <2>2. /\ seqs = [i \in 1..n |-> nals[i].code \o nals[i].bytes]
        /\ seqs \in [1..n -> Seq(S)]
      BY <1>3, <2>1
  <2>3. seqs \in Seq(Seq(S)) /\ Len(seqs) = n
    <3> HIDE DEF seqs
    <3> QED
        BY <1>3, <2>2
  <2>4. seqs # <<>>
    <3> HIDE DEF seqs
    <3> QED
        BY <1>3, <2>3, EmptySeq
  <2> HIDE DEF seqs
  <2> QED
      BY <2>2, <2>3, <2>4
<1> HIDE DEF seqs
<1>7. PICK g \in [Nat -> Seq(S)] :
          /\ g[0] = <<>>
          /\ \A i \in 0..(n - 1) : g[i + 1] = g[i] \o seqs[i + 1]
          /\ FlattenSeq(seqs) = g[n]
    BY <1>6, FlattenSteps
<1>8. Unit("video", t) = g[n]
    BY <1>7 DEF Unit, seqs, nals
<1> DEFINE Right(k) ==
               /\ NoZeroLast(g[k])
               /\ OpensAGroup(g[k]) <=>
                      \E i \in 1..k : Tells(nals[i].bytes)
           Rights == {k \in Nat : k <= n => Right(k)}
<1>9. Right(0)
    BY <1>7 DEF NoZeroLast, OpensAGroup, Codes
<1>10. ASSUME NEW k \in Nat, k + 1 <= n, Right(k) PROVE Right(k + 1)
  <2> DEFINE d == g[k]
             code == nals[k + 1].code
             b == nals[k + 1].bytes
  <2>1. k + 1 \in 1..n /\ k \in 0..(n - 1)
      BY <1>3, <1>10
  <2>2. /\ d \in Seq(S) /\ code \in Seq(S) /\ b \in Seq(S) /\ code \in Code
        /\ b # <<>> /\ NoZeroLast(b) /\ NoCodeIn(b)
      BY <1>4, <1>5, <1>7, <2>1
  <2>3. g[k + 1] = d \o (code \o b)
      BY <1>6, <1>7, <2>1
  <2>4. NoZeroLast(d)
      BY <1>10
  <2> HIDE DEF d, code, b
  <2>5. OpensAGroup(g[k + 1]) <=> OpensAGroup(d) \/ Tells(b)
      BY <2>2, <2>3, <2>4, OneUnitMore DEF Code
  <2>6. NoZeroLast(g[k + 1])
    <3>1. code \o b \in Seq(S) /\ Len(code \o b) = Len(code) + Len(b)
          /\ \A j \in 1..(Len(code) + Len(b)) : (code \o b)[j] =
                 IF j <= Len(code) THEN code[j] ELSE b[j - Len(code)]
        BY <2>2, ConcatProperties
    <3>2. /\ Len(d \o (code \o b)) = Len(d) + Len(code \o b)
          /\ \A j \in 1..(Len(d) + Len(code \o b)) : (d \o (code \o b))[j] =
                 IF j <= Len(d) THEN d[j] ELSE (code \o b)[j - Len(d)]
        BY <2>2, <3>1, ConcatProperties
    <3>3. /\ Len(d) \in Nat /\ Len(code) \in Nat /\ Len(b) \in Nat
          /\ Len(b) > 0
        BY <2>2, EmptySeq, LenProperties
    <3>4. (d \o (code \o b))[Len(d) + Len(code \o b)] = b[Len(b)]
      <4> DEFINE x == Len(d)
                 y == Len(code)
                 z == Len(b)
                 w == Len(code \o b)
      <4>1. x \in Nat /\ y \in Nat /\ z \in Nat /\ z > 0 /\ w = y + z
          BY <3>1, <3>3
      <4> HIDE DEF x, y, z, w
      <4>2. x + w \in 1..(x + w) /\ ~(x + w <= x) /\ (x + w) - x = w
            /\ w \in 1..(y + z) /\ ~(w <= y) /\ w - y = z
          BY <4>1
      <4> QED
          BY <3>1, <3>2, <4>2 DEF x, y, z, w
    <3> QED
        BY <2>2, <2>3, <3>1, <3>2, <3>4 DEF NoZeroLast
  <2>7. (\E i \in 1..(k + 1) : Tells(nals[i].bytes)) <=>
            (\E i \in 1..k : Tells(nals[i].bytes)) \/ Tells(b)
    <3>1. \A i \in 1..(k + 1) : i \in 1..k \/ i = k + 1
        BY <1>10
    <3>2. k + 1 \in 1..(k + 1) /\ \A i \in 1..k : i \in 1..(k + 1)
        BY <1>10
    <3>3. Tells(nals[k + 1].bytes) <=> Tells(b)
        BY DEF b
    <3> QED
        BY <3>1, <3>2, <3>3, Zenon
  <2> QED
      BY <1>10, <2>5, <2>6, <2>7 DEF d
<1>11. Nat \subseteq Rights
  <2> HIDE DEF Right
  <2>1. 0 \in Rights
      BY <1>9
  <2>2. ASSUME NEW k \in Nat, k \in Rights PROVE k + 1 \in Rights
    <3>1. ASSUME k + 1 <= n PROVE Right(k + 1)
        BY <1>3, <1>10, <2>2, <3>1
    <3> QED
        BY <3>1
  <2> HIDE DEF Rights
  <2> QED
      BY <2>1, <2>2, EveryNumber
<1>12. Right(n)
  <2> HIDE DEF Right
  <2> QED
      BY <1>3, <1>11
<1> QED
    BY <1>3, <1>8, <1>12 DEF nals

\* The muxer is told of the beginning of a group at exactly the units in which
\* the camera put a picture or a parameter set that may begin one.
THEOREM GroupsAreMarked == MediaSpec => []GroupsMarked
<1>1. MediaSpec => []Inv
    BY MediaIsTimed, Invariance, PTL
<1>2. Inv => GroupsMarked
  <2> SUFFICES ASSUME Inv
               PROVE  LET nals == Parts("video", frame["video"].taken)
                      IN  Muxed("video").key <=>
                              \E i \in DOMAIN nals :
                                  nals[i].bytes[1] % 32 \in {5, 7}
      BY DEF GroupsMarked
  <2>1. frame["video"].taken \in Int
      BY DEF Inv, TypeOK, Kinds, Frames
  <2>2. Muxed("video").key = OpensAGroup(Unit("video", frame["video"].taken))
      BY DEF Muxed, Decode
  <2> QED
      BY <2>1, <2>2, UnitOpens DEF Tells
<1> QED
    BY <1>1, <1>2, PTL

=============================================================================
