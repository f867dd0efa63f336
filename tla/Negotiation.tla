---------------------------- MODULE Negotiation ----------------------------
(***************************************************************************)
(* sdp.py and rtc.receive_only: how a call is described to the camera and  *)
(* the camera's answer to aiortc.                                          *)
(*                                                                         *)
(* receive_only settles the codecs aiortc offers; compact_offer says the   *)
(* same to the camera in numbers of its own; the candidates of the first   *)
(* section are trickled; the camera answers by echoing numbers of the      *)
(* compact offer or by leaving them out, and expand_answer makes sdp of    *)
(* that.  A media section is a record of the numbers that must agree; text *)
(* is a sequence of its words.  Candidate has the digits of a candidate,   *)
(* this module what stands after its "typ".                                *)
(***************************************************************************)
EXTENDS Candidate

CONSTANTS
    Word,           \* the words of a text
    Endings,        \* what a camera may put after "typ", as words
    Fingerprints,   \* how it may spell a fingerprint
    Nothing         \* None

Words == Seq(Word)

\* A space is a word of its own.
Space == "space"

\* The words that expand_candidate looks for.
Attributes == <<"raddr", "rport", "generation", "ufrag", "network-cost">>

ASSUME WordAssumption ==
    Space \in Word /\ \A k \in 1..5 : Attributes[k] \in Word

\* A type, then names and values in turn, with whichever names in whichever
\* order; the type and the values are none of the words looked for.
ASSUME EndingAssumption ==
    \A ending \in Endings :
        /\ ending \in Words /\ Len(ending) % 2 = 1
        /\ \A i \in 1..Len(ending) : i % 2 = 1 =>
               \A k \in 1..5 : ending[i] # Attributes[k]

\* The algorithm, spaces or none, and the digest; without a space only sha-256
\* is known.
ASSUME FingerprintAssumption ==
    \A ft \in Fingerprints :
        /\ ft \in Words /\ Len(ft) >= 2
        /\ ft[1] # Space /\ ft[Len(ft)] # Space
        /\ \A i \in 2..(Len(ft) - 1) : ft[i] = Space
        /\ Len(ft) = 2 => ft[1] = "sha-256"

VARIABLES
    stage,       \* the description in hand
    offered,     \* the media sections of aiortc's offer
    gathered,    \* its ice credentials and candidates
    trickled,    \* what is sent of them
    answer,      \* the camera's compact answer
    expanded,    \* the sdp made of it
    raised       \* an exception left the call

description == <<offered, gathered, trickled, answer, expanded>>
everything == <<vars, stage, description, raised>>

-----------------------------------------------------------------------------
(***************************************************************************)
(* The offer.                                                              *)
(***************************************************************************)
Codec(mime, profile, pt, rate) ==
    [mime |-> mime, profile |-> profile, pt |-> pt, rate |-> rate]

\* aiortc's own, but for what no condition tells apart.
CODECS ==
    [audio |-> <<Codec("opus", "none", 96, 48), Codec("PCMU", "none", 0, 8)>>,
     video |-> <<Codec("VP8", "none", 97, 90),
                 Codec("H264", "42001f", 99, 90),
                 Codec("H264", "42e01f", 101, 90)>>]

AAC == Codec("AAC", "none", 96, 16)

\* The first of some places in a list.
Earliest(places) == CHOOSE i \in places : \A j \in places : i <= j

\* The codecs with another payload type.
Without(list, pt) ==
    LET others[n \in 0..Len(list)] ==
            IF n = 0 THEN <<>>
            ELSE others[n - 1] \o (IF list[n].pt = pt THEN <<>>
                                   ELSE <<list[n]>>)
    IN  others[Len(list)]

\* _enable_aac: AAC takes the payload type of another codec.
EnableAac(codecs) ==
    IF \E i \in DOMAIN codecs.audio : codecs.audio[i].mime = "AAC" THEN codecs
    ELSE [codecs EXCEPT !.audio = <<AAC>> \o Without(@, AAC.pt)]

\* The one video codec left is the camera's profile under the app's number.
OnlyVideo(codecs) ==
    LET sources == {i \in DOMAIN codecs.video :
                       /\ codecs.video[i].mime = "H264"
                       /\ codecs.video[i].profile = "42e01f"}
        source  == codecs.video[Earliest(sources)]
    IN  [codecs EXCEPT !.video = <<[source EXCEPT !.pt = 126]>>]

Section(kind, mid, pt, rate) ==
    [kind |-> kind, mid |-> mid, pt |-> pt, rate |-> rate]

\* Mutant: the codec keeps aiortc's number.
ReceiveOnlyUnnumbered(codecs) ==
    <<Section("video", 0, codecs.video[3].pt, 90),
      Section("audio", 1, 96, 16)>>

\* receive_only: video first, each kind with the first codec of its mime.
ReceiveOnly(codecs) ==
    LET left == OnlyVideo(codecs)
        Preferred(kind, mime) ==
            left[kind][Earliest({i \in DOMAIN left[kind] :
                                  left[kind][i].mime = mime})]
        Of(kind, mid, c) == Section(kind, mid, c.pt, c.rate)
    IN  <<Of("video", 0, Preferred("video", "H264")),
          Of("audio", 1, Preferred("audio", "AAC"))>>

\* What compact_offer says of the media, whatever aiortc offers.
CompactMedia ==
    [video |-> [mid |-> 0, pt |-> 126, pts |-> 90],
     audio |-> [mid |-> 1, pt |-> 96, pts |-> 16]]

Addresses == {"ipv4", "ipv6", "loopback", "mdns"}
Types     == {"host", "srflx", "prflx", "relay"}

\* A candidate line of the offer: its media section, address and type.
Lines == [section : 0..1, address : Addresses, type : Types]

\* sdp_value: the first such line, which is that of the first section.
IceUfrag(offer) == offer.ufrag[0]

\* Mutant: the candidates of every section are trickled.
LocalCandidatesOfAll(offer) ==
    {line \in offer.lines : line.type \in {"host", "relay"}
                            /\ line.address = "ipv4"}

\* local_candidates: usable ipv4 ones of the first section.
LocalCandidates(offer) ==
    {line \in offer.lines : /\ line.type \in {"host", "relay"}
                            /\ line.address = "ipv4"
                            /\ line.section = 0}

\* compact_candidate raises ValueError for a type without a priority.
Unsupported(line) == line.type \notin {"host", "srflx", "relay"}

CompactCandidate(line, ufrag) ==
    [section |-> line.section, ufrag |-> ufrag,
     words |-> <<line.type>>
               \o (IF line.type = "host" THEN <<>>
                   ELSE <<"raddr", "0.0.0.0", "rport", "0">>)
               \o <<"generation", "0", "ufrag", ufrag,
                    "network-id", "1", "network-cost", "10">>]

-----------------------------------------------------------------------------
(***************************************************************************)
(* The answer.                                                             *)
(***************************************************************************)

\* A dict that has some of the keys.
Parts(dict) == {[k \in keys |-> dict[k]] : keys \in SUBSET DOMAIN dict}

Get(dict, key, default) == IF key \in DOMAIN dict THEN dict[key] ELSE default

\* "sc": a list, or one number (as text); the key can be missing.
SourceLists == {<<>>, <<11>>, <<11, 12>>}
Sources == [list : {TRUE}, value : SourceLists] \cup
           {[list |-> FALSE, value |-> <<11>>]}

Answers ==
    [video : Parts(CompactMedia.video), audio : Parts(CompactMedia.audio),
     videoSc : Sources, audioSc : Sources,
     ft : Fingerprints, ic : Endings]

\* str.partition on words: what stands before and after the first `word`.
Places(words, word) == {i \in DOMAIN words : words[i] = word}
Before(words, word) ==
    IF Places(words, word) = {} THEN words
    ELSE SubSeq(words, 1, Earliest(Places(words, word)) - 1)
After(words, word) ==
    IF Places(words, word) = {} THEN <<>>
    ELSE SubSeq(words, Earliest(Places(words, word)) + 1, Len(words))

\* str.lstrip
Lstrip(words) ==
    LET kept == DOMAIN words \ Places(words, Space)
    IN  IF kept = {} THEN <<>> ELSE SubSeq(words, Earliest(kept), Len(words))

\* Mutant: one space is enough to take off.
FingerprintAsIs(ft) ==
    IF Places(ft, Space) # {} THEN ft ELSE <<Head(ft), Space>> \o Tail(ft)

\* The algorithm, one space, the digest.
Fingerprint(ft) ==
    IF Places(ft, Space) # {}
    THEN Before(ft, Space) \o <<Space>> \o Lstrip(After(ft, Space))
    ELSE IF Head(ft) = "sha-256" THEN <<"sha-256", Space>> \o Tail(ft) ELSE ft

\* expand_candidate, after "typ": the fields of the result, each the words that
\* are run together in it.  From "raddr" on, each word that is looked for gets
\* a field, there or not; without "raddr" nothing is looked for.
ExpandEnding(words) ==
    LET attributes  == After(words, "raddr")
        ports       == After(attributes, "rport")
        generations == After(ports, "generation")
        ufrags      == After(generations, "ufrag")
        cost        == After(ufrags, "network-cost")
    IN  IF attributes = <<>> THEN <<Before(words, "raddr")>>
        ELSE <<Before(words, "raddr"),
               <<"raddr">>, Before(attributes, "rport"),
               <<"rport">>, Before(ports, "generation"),
               <<"generation">>, Before(generations, "ufrag"),
               <<"ufrag">>, Before(ufrags, "network-cost")>>
             \o (IF cost = <<>> THEN <<>> ELSE <<<<"network-cost">>, cost>>)

\* ssrc: IndexError when the list is empty.
SsrcRaises(sc) == sc.list /\ sc.value = <<>>

\* Mutant: the sections in alphabetical order.
ExpandAudioFirst(a) ==
    [sections |-> <<Section("audio", Get(a.audio, "mid", 1), 96, 16),
                    Section("video", Get(a.video, "mid", 0), 126, 90)>>,
     ssrc |-> Head(a.videoSc.value), fingerprint |-> Fingerprint(a.ft),
     ending |-> ExpandEnding(a.ic)]

\* expand_answer
ExpandAnswer(a) ==
    [sections |->
        <<Section("video", Get(a.video, "mid", 0), Get(a.video, "pt", 126),
                  Get(a.video, "pts", 90)),
          Section("audio", Get(a.audio, "mid", 1), Get(a.audio, "pt", 96),
                  Get(a.audio, "pts", 16))>>,
     ssrc |-> Head(a.videoSc.value), fingerprint |-> Fingerprint(a.ft),
     ending |-> ExpandEnding(a.ic)]

-----------------------------------------------------------------------------
(***************************************************************************)
(* One call, description by description; what is no longer in hand is      *)
(* forgotten.                                                              *)
(***************************************************************************)
NoCandidate == [foundation |-> 0, component |-> 1, priority |-> 0,
                octets |-> <<256, 0, 0, 0>>, port |-> 1]

InitCall ==
    /\ stage = "offer"
    /\ offered = <<>>
    /\ gathered = Nothing
    /\ trickled = {}
    /\ answer = Nothing
    /\ expanded = Nothing
    /\ raised = FALSE
    /\ sent = NoCandidate
    /\ status = "unread"
    /\ result = Cut(Line(NoCandidate), 0, 0)

\* patch, receive_only and createOffer, with up to two candidates; each section
\* has a transport, and a ufrag, of its own.
CreateOffer ==
    /\ stage = "offer"
    /\ stage' = "trickle"
    /\ offered' = ReceiveOnly(EnableAac(CODECS))
    /\ \E lines \in {{}} \cup {{a, b} : a, b \in Lines} :
           gathered' = [ufrag |-> [section \in 0..1 |-> section],
                        lines |-> lines]
    /\ UNCHANGED <<vars, trickled, answer, expanded, raised>>

\* The loop over local_candidates, after the offer went out.
Trickle ==
    /\ stage = "trickle"
    /\ stage' = "sent"
    /\ LET chosen == LocalCandidates(gathered)
       IN  /\ raised' = \E line \in chosen : Unsupported(line)
           /\ trickled' = {CompactCandidate(line, IceUfrag(gathered)) :
                              line \in {l \in chosen : ~Unsupported(l)}}
    /\ UNCHANGED <<vars, offered, gathered, answer, expanded>>

\* The offer and its candidates are sent.
Await ==
    /\ stage = "sent" /\ ~raised
    /\ stage' = "waiting"
    /\ gathered' = Nothing /\ trickled' = {}
    /\ UNCHANGED <<vars, offered, answer, expanded, raised>>

CameraAnswers ==
    /\ stage = "waiting"
    /\ stage' = "answer"
    /\ answer' \in Answers
    /\ UNCHANGED <<vars, offered, gathered, trickled, expanded, raised>>

Expand ==
    /\ stage = "answer"
    /\ stage' = "expanded"
    /\ raised' = (SsrcRaises(answer.videoSc) \/ SsrcRaises(answer.audioSc))
    /\ expanded' = IF raised' THEN Nothing ELSE ExpandAnswer(answer)
    /\ UNCHANGED <<vars, offered, gathered, trickled, answer>>

\* setRemoteDescription takes what was expanded.
Apply ==
    /\ stage = "expanded" /\ ~raised
    /\ stage' = "applied"
    /\ answer' = Nothing /\ expanded' = Nothing
    /\ UNCHANGED <<vars, offered, gathered, trickled, raised>>

CameraTrickles ==
    /\ stage = "applied"
    /\ stage' = "candidate"
    /\ sent' \in Candidates
    /\ UNCHANGED <<status, result, description, raised>>

ReadCandidate ==
    /\ stage = "candidate"
    /\ ExpandCandidate
    /\ UNCHANGED <<stage, description, raised>>

NextDescription ==
    CreateOffer \/ Trickle \/ Await \/ CameraAnswers \/ Expand \/ Apply
    \/ CameraTrickles \/ ReadCandidate

Call == InitCall /\ [][NextDescription]_everything

-----------------------------------------------------------------------------
(***************************************************************************)
(* Properties.                                                             *)
(***************************************************************************)

\* place_call trickles what local_candidates chose right after the offer: no
\* candidate it chose makes compact_candidate raise, and each goes out under
\* the ufrag of the transport it was gathered on, which is the only one that
\* compact_offer names.
TrickleFitsOffer ==
    stage = "sent" =>
        /\ ~raised
        /\ \A c \in trickled : c.ufrag = gathered.ufrag[c.section]

\* receive_only, compact_offer and expand_answer each write down payload types,
\* mids, rates and the order of the sections; whichever of them a camera
\* echoes or leaves out, aiortc is answered with the sections it offered.
AnswerFitsOffer ==
    expanded # Nothing => expanded.sections = offered

\* The first k of the attributes stand where expand_candidate looks for them,
\* each with its value.
InPlace(words, k) ==
    \A j \in 1..k : 2 * j < Len(words) /\ words[2 * j] = Attributes[j]

\* Such a text is read to its last word.
WellFormed(words) ==
    Len(words) \in {1, 9, 11} /\ InPlace(words, Len(words) \div 2)

\* However the camera spells its fingerprint, aiortc reads an algorithm, one
\* space and the digest.  Of the words after "typ", those up to the first
\* attribute that is missing or out of its order come back one by one, and all
\* of them when none is; nothing is said of the words from there on, which the
\* code runs together.
TextRestored ==
    expanded # Nothing =>
        LET words == answer.ic
            fields == expanded.ending
        IN  /\ expanded.fingerprint =
                   <<answer.ft[1], Space, answer.ft[Len(answer.ft)]>>
            /\ \A k \in 1..5 : InPlace(words, k) =>
                   \A i \in 1..(2 * k) : fields[i] = <<words[i]>>
            /\ WellFormed(words) =>
                   /\ Len(fields) = Len(words)
                   /\ \A i \in 1..Len(words) : fields[i] = <<words[i]>>

=============================================================================
