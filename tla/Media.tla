------------------------------- MODULE Media -------------------------------
(***************************************************************************)
(* rtc.Verbatim in front of stream.Timed: what becomes of the access units *)
(* of a track between aiortc and the muxer.                                *)
(*                                                                         *)
(* The camera's units are given in the parts it makes them of, and         *)
(* repeated in order, one for each moment of the clock; Decode sees their  *)
(* bytes only.                                                             *)
(***************************************************************************)
EXTENDS Timed, SequencesExt

CONSTANTS
    VideoUnits,   \* each a sequence of NAL units: [code, bytes]
    AudioUnits    \* each [header, bytes]: the au header or none, the frame

Bytes == Seq(0..255)

\* h264: no NAL unit holds a start code or ends in a zero.
ASSUME VideoAssumption ==
    /\ VideoUnits \in Seq(Seq([code : {<<0, 0, 1>>, <<0, 0, 0, 1>>},
                              bytes : Bytes]))
    /\ VideoUnits # <<>>
    /\ \A n \in DOMAIN VideoUnits :
           /\ VideoUnits[n] # <<>>
           /\ \A i \in DOMAIN VideoUnits[n] :
                  LET b == VideoUnits[n][i].bytes
                  IN  /\ b # <<>> /\ b[Len(b)] # 0
                      /\ \A j \in 1..(Len(b) - 2) :
                             ~(b[j] = 0 /\ b[j + 1] = 0 /\ b[j + 2] = 1)

\* Audio has the rfc 3640 header of one unit, with or without a frame behind it;
\* or none, and then it does not begin like one.
ASSUME AudioAssumption ==
    /\ AudioUnits \in Seq([header : Bytes, bytes : Bytes])
    /\ AudioUnits # <<>>
    /\ \A n \in DOMAIN AudioUnits :
           LET h == AudioUnits[n].header
               b == AudioUnits[n].bytes
           IN  \/ Len(h) = 4 /\ h[1] = 0 /\ h[2] = 16
               \/ h = <<>> /\ (Len(b) > 4 => ~(b[1] = 0 /\ b[2] = 16))

Zero(bytes) == \A i \in DOMAIN bytes : bytes[i] = 0

\* The parts of the unit captured at time t.
Parts(k, t) == IF k = "video" THEN VideoUnits[(t % Len(VideoUnits)) + 1]
               ELSE AudioUnits[(t % Len(AudioUnits)) + 1]

\* Its bytes, as aiortc reassembles them.
Unit(k, t) ==
    IF k = "video"
    THEN FlattenSeq([i \in DOMAIN Parts(k, t) |->
                        Parts(k, t)[i].code \o Parts(k, t)[i].bytes])
    ELSE Parts(k, t).header \o Parts(k, t).bytes

\* Mutant: only the long start code is known.
CodeAtLong(data, i) ==
    i > 1 /\ IsPrefix(<<0, 0, 0, 1>>, SubSeq(data, i - 1, Len(data)))

CodeAt(data, i) == IsPrefix(<<0, 0, 1>>, SubSeq(data, i, Len(data)))

Codes(data) == {i \in DOMAIN data : CodeAt(data, i)}

\* opens_a_group: the first byte of any piece between start codes that is not
\* empty tells an idr picture or a sequence parameter set.
OpensAGroup(data) ==
    \E start \in {1} \cup {i + 3 : i \in Codes(data)} :
        /\ start <= Len(data) /\ ~CodeAt(data, start)
        /\ data[start] % 32 \in {5, 7}

\* Mutant: every unit is taken to have an au header.
ShedAlways(data) == SubSeq(data, 5, Len(data))

\* The rfc 3640 header of one access unit.
Shed(data) ==
    IF Len(data) > 4 /\ SubSeq(data, 1, 2) = <<0, 16>>
    THEN SubSeq(data, 5, Len(data)) ELSE data

\* Verbatim.decode: one packet, or none.
Decode(k, data) ==
    IF k = "video" THEN <<[data |-> data, key |-> OpensAGroup(data)]>>
    ELSE IF Zero(Shed(data)) THEN <<>>
    ELSE <<[data |-> Shed(data), key |-> TRUE]>>

CaptureUnit(k) == IF Decode(k, Unit(k, now)) = <<>> THEN Drop ELSE Capture(k)

MediaNext == Advance \/ \E k \in Kinds : CaptureUnit(k) \/ Recv(k)

MediaSpec == Init /\ [][MediaNext]_vars

-----------------------------------------------------------------------------
(***************************************************************************)
(* Properties.                                                             *)
(***************************************************************************)

\* What the muxer is handed for the frame recv returned last.
Muxed(k) == Decode(k, Unit(k, frame[k].taken))[1]

\* rtc.py:51-60: the muxer is told to begin a group of pictures at a unit
\* exactly when the camera put an idr picture or a sequence parameter set into
\* it, wherever in the unit and behind whichever start code.
GroupsMarked ==
    frame["video"] # NoFrame =>
        LET nals == Parts("video", frame["video"].taken)
        IN  Muxed("video").key <=>
                \E i \in DOMAIN nals : nals[i].bytes[1] % 32 \in {5, 7}

\* rtc.py:77-83: the audio that is muxed is the frame the camera encoded,
\* without the header of rtp, and never a unit of zeros.  The one thing that is
\* muxed and is no frame is a header with nothing behind it: `len(data) > 4`
\* leaves it in place, and it is not all zeros.
HeadersShed ==
    frame["audio"] # NoFrame =>
        LET unit == Parts("audio", frame["audio"].taken)
        IN  /\ Muxed("audio").data =
                   IF unit.bytes = <<>> THEN unit.header ELSE unit.bytes
            /\ ~Zero(Muxed("audio").data)

=============================================================================
