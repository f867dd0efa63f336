# nooie-proxy in TLA+

A specification of nooie-proxy, written from its source under
`src/nooie_proxy/`. Line numbers below refer to those files. The proxy signs in
to the Nooie cloud, publishes a UDP mapping on the P2P network, places one
WebRTC call to a camera and muxes the two tracks into one sink. It then exits
and a supervisor starts it again.

Run a model with `tlc -config <file>.cfg <module>`, check the proofs with
`tlapm PlaceCallProofs.tla`, and likewise `MediaProofs`, `NatCheckProofs`,
`SignInProofs`, `ServiceProofs`, `WireProofs`, `NegotiationProofs` and
`Induction`.

## 1. The system

| component | state it keeps | operations | talks to |
| --- | --- | --- | --- |
| `stream`: one call | the websocket, the peer, `Ending`, `Remux` (container, streams, pumps), the deadline | `place_call`, `on_track`, `open_sink`, `on_state_change`, `Remux.add/start/stop/pump`, `receive`, `request_keyframe` | `signalling` (frames), `sdp` (candidates, answer), aiortc, PyAV |
| `stream`: dating frames | `Timed.shift`, `Timed.last`, the shared origin | `Timed.recv` | the pumps |
| `cloud` | `Config` | `stored`, `authenticate`, `signed_in`, `request`, `select_camera`, `create_session` | `cache`, `env`, the REST API |
| `cache` | `sessions.json` | `held`, `load`, `save`, `forget` | `cloud` |
| `apeman`: natcheck | one UDP socket, the registration | `register` | two nat servers, the policy host |
| `apeman`: framing | one TCP buffer | `_tcp_rpc`, `parse`, `build_rpc`, `decode_response` | `twofish` |
| `sdp` | none; aiortc's codec tables through `rtc` | `expand_candidate`, `expand_answer`, `compact_offer`, `compact_candidate`, `local_candidates` | `stream` |
| `signalling` | the identifiers of a call | the envelopes, `matching_signal` | `stream` |
| `service` | none | `main`, `serve`, `list_devices` | everything above |
| `env` | the identity file, the environment | `load_dotenv`, `identity`, `credentials` | `cloud`, `service` |
| `rtc` | patches of aiortc, once per process | `patch` and what it installs | aiortc |
| `twofish` | a key schedule | `encrypt`, `decrypt` | `apeman` |

How they interact. `service.serve` calls `cloud.signed_in`, which reads and
writes `sessions.json` through `cache`, settles on a camera and runs
`apeman.register` in a thread. `stream.stream` opens the websocket, creates the
session in the cloud and awaits `place_call`. From there on everything is one asyncio loop: the main task polls
the websocket, aiortc emits `track` and `connectionstatechange`, `open_sink`
waits half a second and starts a pump for each track, signal callbacks end the
call. They share `Ending` (the first reason stays) and `Remux`.

What is hard about it, and what makes each part right:

- **One call.** Five kinds of task interleave at every await. The call can end
  at any of those points, from any of five causes, several at once. It is right
  when nothing is written to a closed container, nothing is left running or
  open, the dead peer is noticed although its handler runs late, no track is
  left without a pump, and whatever ends the call unwinds it. `container.mux` is
  synchronous, so the reader of the sink can stop the whole loop.
- **Dating frames.** The camera's two clocks disagree and drift; delay varies.
  Right: frames captured together are dated together, and the audio has no gaps.
- **Signing in.** A stored session may have expired, processes crash between the
  login and the save, and two processes can share the file. Right: no login
  loop, and no session that locks the proxy out.
- **Natcheck.** UDP loses, doubles and reorders; the loop has six receives and
  a timeout. Right: it ends, and publishes what the first server saw.
- **Framing.** Frames arrive in pieces, cut off, with wrong lengths. Right: a
  frame is decoded whole or not at all.
- **Candidates and descriptions.** Whitespace is lost, and the split has to be
  guessed. Right: the address and the port that come out belong to the line that
  came in. The numbers of the media sections stand in three places; right: they
  agree, whichever of them the camera repeats.
- **Units.** Start codes, headers and padding are told apart by their bytes.
  Right: what is muxed is the frame the camera encoded, and the muxer knows where
  a group of pictures begins.
- **One run among others.** Processes of one install share an identity file and a
  websocket, runs share the small pool of a camera, and what an earlier call
  left on its way reaches the next one. Right: a run acts on its own answers only,
  leaves no session behind if it can help it, and a restart recovers the call.

## 2. Modules

| module | models | lines of it |
| --- | --- | --- |
| `PlaceCall` | one call as the tasks of one event loop | `stream.py` 43-84, 110-188, 217-339 |
| `CallPromise` | what a call promises, with no tasks and no messages; `PlaceCall` implements it | `stream.py`, `service.py` |
| `PlaceCallProofs` | theorems about `PlaceCall` | |
| `Timed` | `Timed.recv` against a camera with clocks of its own | `stream.py` 87-107 |
| `Media` | `rtc.Verbatim` in front of `Timed`: the bytes of access units | `rtc.py` 51-89 |
| `MediaProofs` | theorems about `Timed` and `Media` | |
| `SignIn` | sign-in of several processes that share `sessions.json` | `cloud.py` 97-199, `cache.py` |
| `SignInProofs` | theorems about `SignIn` | |
| `Signalling` | envelopes and `matching_signal`, as operators | `signalling.py` 72-124, 161-196 |
| `Service` | runs of the proxy and of other processes of its install: identity, camera, websocket, session, call, exit; uses `Signalling` | `service.py`, `env.py` 68-84, `cloud.py` 192-249, `stream.py` 182-347 |
| `ServiceProofs` | theorems about `Service` and `Signalling` | |
| `NatCheck` | `register` over an unreliable network | `apeman.py` 241-295 |
| `NatCheckProofs` | theorems about `NatCheck` | |
| `Candidate` | the digits of `expand_candidate` | `sdp.py` 187-239 |
| `Negotiation` | offer, local candidates, answer, remote candidates of one call; extends `Candidate` | `sdp.py`, `rtc.py` 35-48, 92-98, 197-230 |
| `NegotiationProofs` | theorems about `Candidate` and `Negotiation` | |
| `Reading` | the loop that reads one reply, for any bytes | `apeman.py` 220-238 |
| `Twofish` | the cipher, as operators | `twofish.py` |
| `Wire` | the framing of requests and what is decoded of a reply; extends `Twofish` and `Reading` | `apeman.py` 37-188, 220-238 |
| `WireProofs` | theorems about `Reading`, `Twofish` and `Wire` | |
| `Induction` | induction and recursion over the naturals, in first-order form, for the proofs | |

An `MC` module gives the constants finite values. `PROJECT.json`
maps every definition to the lines it stands for.

### PlaceCall

`pc` is the await the main task is suspended in; an action is what a task does
until its next one. So `SendClose` is lines 328-331, `AwaitStarted` 332-333,
`CancelPumps` the loop of `Remux.stop`, `GatherPumps` its `gather`. `pumps[k]`
follows a pump task from creation (`"new"`: it has not run yet, so cancelling
it skips its `finally`) through `"run"` to `"cancelling"` and `"ended"`.
`pending` counts the `on_state_change` tasks the loop has not run: aiortc
announces a state, the handler runs later and reads the state it finds then.
`media` follows what there is to mux: nothing until the peer is connected, then
what the camera sends, and from the first packet of a pump on (`PumpMux`) a
container with a header, whose `close` writes a trailer. `loop = "blocked"`
stands for a `mux` or `close` the reader holds up; no task runs meanwhile, but
time passes and signals arrive. Where nothing was muxed nothing blocks, and
`close` has nothing to fail at.

Left out: the bytes that are muxed (`Media`), envelopes (`Signalling`), logging. A
frame is what `matching_signal` and `sdp` make of it: an answer, a candidate, a
rejection, something unreadable, or nothing. How the end of a call becomes an
exit status is `error` and `why`.

### Timed

One unit of time is one tick of the audio. `queue[k]` holds the frames between
capture and `recv`, each with the time of its capture, a ghost the properties
compare with, and the camera's date. The delay between the two is any value up
to `MaxDelay`; the video clock gains a unit in every `Gain`. An audio unit of
padding takes its turn on the camera's clock and never becomes a frame (`Drop`).

`Media` puts `rtc.Verbatim` before it. The camera's units are constants, made of
NAL units behind start codes, or of a header and a frame; `Decode` sees only their
bytes. Which units are dropped is then no choice any more but follows from
`Decode`: a unit is a step `Capture` or `Drop` of `Timed`, whose properties
therefore hold of `Media`. What a camera's units are is assumed, not chosen:
`VideoAssumption` says that a NAL unit holds no start code and does not end in a
zero, which H.264 forbids it, and `AudioAssumption` that a frame without the
header does not begin like one with it. A header may stand alone: the code then
muxes its four bytes.

### SignIn

One pc label for each point where another process can get in between: a reading
of the file, a request, an `os.replace`. A session is the number of the login
that issued it. `Fails` is a request that does not succeed for reasons of its
own; with `Crash` and `Expire` it draws on `MaxMishaps`.

### NatCheck

`net` is a bag of datagrams. The network may lose any of them, copy them
(`MaxCopies`) and deliver in any order; since delay is unbounded, a receive may
time out at any moment. The TCP exchanges are one step each, `Wire` looks into
them. Nothing under `src/` says what a NatCheckData holds: `pushed` is the port
in its field 2, any port or none, which `PortIn` reads when the push is taken for
the second server's answer. `answered` is a ghost: the second server's answer had
arrived when the receive that waits for it returned.

### Signalling and Service

A dict of a frame keeps its method, its two identifiers and what is nested under
`data` and elsewhere. `Service` composes: `Start`, `WriteIdentity` and
`RereadIdentity` are the three points of `env.identity` between which another
process can act; `Login` is sign-in, camera and registration (`SignIn` and
`NatCheck` have them step by step); `Connect` and `CreateSession` are
`stream.stream`; from `SendOffer` to `Close` it is the call as far as websocket,
session and signals are concerned (`PlaceCall` has the rest). The server grants
one websocket to an identity, a second connection takes it away. A camera holds
`PoolSize` calls, rejects more, and gives a session up some time after nobody
attends to it. Signals wait until somebody with the right identity listens, and
arrive alone or two in a frame, at any depth `nested_dicts` has to look into.
`nested_dicts` is a walk: `Left(list)[n]` is what is left to visit when its n-th
dict is in front, and no frame has more than `MaxDicts` dicts.
`MatchingSignal` gives a set, empty for None and otherwise with one element.
Offer and session ids are numbers that are used again once nothing refers to
them. Killed processes, dropped websockets, failing requests (the one for a session
may have created it all the same), sinks that cannot be opened, a start of the second process, cameras that come and go, and answers
that come too late are mishaps.

### Candidate and Negotiation

The digits first: `Candidate` removes the spaces as the camera does and compares
what the code restores with what was sent. `Negotiation` describes the whole
exchange around it: `CreateOffer` is `rtc.patch`, `receive_only` and aiortc's
offer, with up to two candidates of any section, address and type; `Trickle`
chooses and compacts them; `CameraAnswers` is every answer that repeats or leaves
out each number of the compact offer, with every form of `sc` and spelling of a
fingerprint; `Expand` is `expand_answer`. A media section is the numbers that must
agree. The text after `typ` is a sequence of words, a type and then names and
values in any order (`EndingAssumption`); what comes back is a sequence of fields,
each the words that stay run together. A value that contains one of the words
`expand_candidate` looks for, a ufrag say, is left out.

### Twofish and Wire

`Twofish` is the code's cipher on bytes, with its tables, its key schedule and
both directions; a word is its four bytes, since TLC's integers are too narrow
for it. `Reading` is the loop of `_tcp_rpc` over any sequence of bytes: `Recv`
takes a piece and looks at the length prefix, `Eof` is the truncated response,
`Return` what goes on to `decode_response`. It assumes that `MAX_FRAME` is at
least four, since until the length is known `size` is `MAX_FRAME` itself and the
loop would otherwise stop before it has seen one. `Wire` enciphers and frames
the bodies of the three kinds of request, cuts the frame anywhere, lets `Reading`
take it in pieces and compares what is decoded with what was sent. Of md5 only its
shape is kept: 32 hexadecimal digits for each method and transaction.
`WireAssumption` says what Python's types say of a reply: its texts are bytes, no
number is below zero, and the length of its frame fits the four bytes that
`struct.pack` has for it.

## 3. What the runs check

| run | question | bounds | states |
| --- | --- | --- | --- |
| `call_safety` | all safety of a call, and that it implements `CallPromise` | 2 tracks, up to 2 candidates | 247,166 |
| `call_liveness` | does every end unwind, does every handshake end | 1 track, 1 candidate | 91,588 |
| `call_stalled` | does a signal always make a call that streams unwind | 1 track | violated |
| `call_refused` | is the session always released | 1 track | violated |
| `signin_shared` | logins paid and recovery, with two processes | 3 mishaps | 1,186,894 |
| `service_recovers` | foreign signals, sessions left behind, one websocket, recovery | 2 processes, 2 cameras, 3 sessions, 2 mishaps, 5 dicts in a frame | 146,850 |
| `natcheck_safety` | what is published, and does `register` end | 2 ports, 3 receives, 2 copies | 33,632 |
| `natcheck_stray` | does the second server decide the NAT type | 6 receives, 1 copy | violated |
| `candidate_reads` | do offer, candidates and answer fit, is every candidate read right | 5,880 candidates, 2 local ones, 28,672 answers | 70,165 |
| `candidate_ambiguous` | is there only one split | 5,880 candidates | violated |
| `timed_sync` | do the tracks stay in step, is the audio unbroken, are the right bytes muxed | 8 units, delay up to 3, 9 and 8 access units | 254,705 |
| `wire_reads` | whole or nothing, bounded, the right cipher | 3 replies, 5 lengths, every cut | 104,106 |

**call_safety.** `SinkQuiet`, `NothingLeft`, `DeadPeerNoticed`,
`KeyframeReachesCamera`, `DeclaredArePumped`, `Explained` and the refinement
`KeepsPromise`. Two tracks are all the code knows (`kind` is video or audio),
and nothing it does tells them apart, so they are symmetric. Two candidates
cover none, the last one and one before it. There is one signal, because the
second finds `why` set. `pending` needs no bound: a peer has at most four
states ahead of it.

**call_liveness.** `EveryEndUnwinds`: a reason, a raised signal, a closed
websocket, a dead peer, a pump that ended, each leads to the end of
`place_call`. `HandshakeDecides`: the polling loop does not go on for ever. One
track is enough to have a pump in every state beside the main task.

**signin_shared.** `LoginsAccounted`: with two processes the account never
counts more than two logins and three for every mishap, although the supervisor
restarts them for ever: the retry is not a login loop. Three for a mishap is no
slack: one expiry can make both processes sign in, and one of them again
because the other's `forget` erased the session it had just stored
(`cache.py:49` erases whatever the file holds). `RunSignsInTwice`: a run signs in at most twice. One process
alone signs in once; a second time needs the other's `forget` between its two
readings of the file. `Recovers`: the proxy, whose supervisor starts it again,
is signed in again and again; the other process, which nobody need start, cannot
keep it from that. A refusal is any `RuntimeError` (`cloud.py:182`), an outage
included: `Fails` at `"list"` therefore costs a good session too.

**service_recovers.** `NoForeignSignal`: whatever is late, misdirected or in the
same frame, a run acts on the answer and the candidates of its own call only.
`OrphansExcused`: a session that nobody holds is left in the pool only by a
process that was killed, had lost its websocket, could not open its sink, or had
no usable answer to the request that created the session (`cloud.py:97-116`).
`OneWebsocketPerInstall`: two processes on one state directory never both keep a
websocket, unless their first runs were at the identity file together.
`Recovers`: with one camera online for good the proxy carries calls again and
again, whatever happened before. One more process is enough to race for the file
and to take over the websocket, which needs two mishaps at most (a start, and a
crash, a drop or a late answer on top of it); three sessions are one for each
process and one that was left behind. `PoolSize` is the number of processes, so
that a camera rejects a call when an earlier session still lingers, but not for
ever: with a pool of one, and two identities after a raced first run, the second
process may hold the only place in a call that nobody ends, and the proxy is
rejected each time it is restarted. That is the camera's limit and not a fault
of the proxy's.

**natcheck_safety.** Three receives instead of six: `NatOne`, `NatCheckData` and
one stray, or a doubled one, in every order, and the round that runs out. Two
ports tell the two mappings apart. `SymmetricIsSymmetric` says that a NAT passes
for symmetric only when its mappings differ or the push named another port than
the first server: a push that is read for the second server's answer counts with
whatever stands in its field 2.

**candidate_reads.** The numbers are chosen where the splits meet: octets of
one, two and three digits, 255 and 256, ports of one to five digits with 1 and
65535, priorities as ICE computes them (below 2^31). `GenuineIsRead` and
`ThreeDigitsAreExact` say for which addresses the guess is certain.
`TrickleFitsOffer`: what `local_candidates` lets through never makes
`compact_candidate` raise and carries the ufrag the compact offer names.
`AnswerFitsOffer`: whichever of payload type, mid, rate and order a camera leaves
out, the expanded answer has the sections that were offered, although the
defaults stand in `rtc`, `compact_offer` and `expand_answer` separately.
`TextRestored`: a fingerprint comes back, and of a candidate's end the words up
to the first attribute that is missing or out of its order, all of them when none
is. The endings are a bare type, the full form with and without `network-cost`,
the two that `compact_candidate` writes, one that stops before `ufrag` and one in
another order. Nothing is claimed of the words behind the first gap. Without
`raddr` that is everything: `host generation 0 ufrag ...` comes back as a type
of one word.
An answer ends in at most one candidate, so deadlock is not checked.

**timed_sync.** One unit is one tick of the audio. The clock runs long enough for
the video clock to gain more than `MaxDelay` allows, so that dating the video by
the camera's clock breaks `InStep`, and for bursts that wait in the queue.
`GroupsMarked` and `HeadersShed` compare the bytes that are muxed with the units
the camera sent: nine pictures with either start code, alone, first, in the
middle and last, eight audio units with and without header, all zero, beginning
or ending in zeros, and a header alone. Of the last `HeadersShed` says that it is
muxed as it is: it is longer than nothing and not all zeros, so neither the
`len(data) > 4` of `rtc.py:78` nor the test of line 80 catches it. The proofs
remove the bounds. The clock stops at `MaxTime`, so deadlock is not checked.

**wire_reads.** Frames of at most `MaxFrame` bytes, the longest exactly as long
as it may be, in pieces of up to three, with bodies whose lengths take one and
two bytes as varints, of one, two and eight blocks. The prefix declares too little
(into the length field itself, into the body), the truth, one too many, or
more than `MAX_FRAME`; more bytes may follow the frame. `WholeOrNothing`,
`MissingNotMangled` and `BoundedRead` are about every state of the buffer;
`WholeFrames` says that what is decoded is all there and that its length prefix,
right or wrong, accounts for it to within a piece;
`KnownAnswers` holds the cipher those replies went through against the vectors
the repository gives for all three sizes of key. A reply ends the run, so
deadlock is not checked.

Every property of a passing run has a mutant: a plausible bug in one definition
under which the same run finds the property violated. Mutants stand before the
definition they replace and are used by nothing else.

### Disagreements found

1. *A signal does nothing while the reader of the sink does not read*
   (`call_stalled`). While the call carries media a `mux` blocks the loop, and
   the handler that `add_signal_handler` installed has replaced the default
   action. The comment at `stream.py:233` promises that a signal makes the call
   unwind. With `ReaderReads` assumed it does (`EveryEndUnwinds`).
2. *A sink that cannot be opened leaks the session* (`call_refused`).
   `Remux(...)` at `stream.py:227` stands before the `try`; `stream.py:328` says
   "always release the session".
3. *A late push hides a symmetric NAT* (`natcheck_stray`). The receive at
   `apeman.py:276` looks at neither method nor sender. The first server's
   NatCheckData comes after the loop has timed out and is read in place of the
   second server's answer, although that is there too.
4. *Candidates are ambiguous* (`candidate_ambiguous`). The comment at
   `sdp.py:211` says only one split is valid; some lines have several, and the
   longest octets win.

## 4. Fairness

Safety runs use none. Where liveness is checked:

- `PlaceCall.Fairness` is strong fairness for each task of the loop. asyncio runs
  ready callbacks in FIFO order, so a task that is ready again and again runs.
  Strong, because a reader that stalls the loop now and then disables all of
  them for a while. Every await of the main task ends: `receive` has a timeout,
  aiohttp and aiortc have theirs. Nothing is assumed of the camera, the peer or
  the websocket. A pump is assumed to enter its loop and to end once cancelled,
  not to end by itself.
- `ReaderReads`, that a stalled reader reads again, is not the program's to
  promise. It is a conjunct of its own, and `call_stalled` shows what happens
  without it.
- `SignIn.FairSpec` is weak, and about the proxy alone: its requests have a
  timeout and its supervisor restarts it. Of the other process nothing is
  assumed, and not that a call ever ends.
- `NatCheck.FairSpec`: every receive and every TCP exchange has a timeout.
  Nothing is assumed of servers or network.
- `Service.Fairness` is weak: every await of a run ends (`Run`, each with a
  timeout in the code or in aiohttp), the supervisor starts the proxy again, a
  camera that is online sees its offers, a session nobody attends to is given up
  in the end, and signals for a call that is over are. That a call ends
  (`CallEnds`) is not assumed, nor that mishaps stop except by their bound.

## 5. What is proved

`PlaceCallProofs`, for every set of tracks and every `MaxTrickle`, from
`MaxTrickleAssumption` alone:

| theorem | states |
| --- | --- |
| `TypeCorrect` | `Spec => []TypeOK` |
| `SinkStaysQuiet` | `Spec => []SinkQuiet` |
| `LeavesNothing` | `Spec => []NothingLeft` |
| `NoticesDeadPeer` | `Spec => []DeadPeerNoticed` |
| `ReachesCamera` | `Spec => []KeyframeReachesCamera` |
| `PumpsDeclared` | `Spec => []DeclaredArePumped` |
| `ExplainsItself` | `Spec => []Explained` |
| `ImplementsPromise` | `Spec => KeepsPromise` |

None of these invariants is inductive by itself. `SinkQuiet` holds because of
the order of the `finally` block: at `"cancel"` `open_sink` has ended, at
`"flush"` no pump is alive, and neither can come back, which needs that
`open_sink` is created only by an answer, at a label the main task has left for
good. The invariant that `Invariance` establishes therefore says, for each
label, what has been opened, declared, started, cancelled and closed, and what
a reason or an error implies. The proof has a lemma for each group of actions; the
theorems follow from the invariant without another look at the actions.
`ImplementsPromise` maps each action to one of `CallPromise` or to a stutter,
using the same invariant.

`MediaProofs`, of `Timed`, for every tick, frame rate, delay, drift and length of
run, from `ClockAssumption` and `RateAssumption` (no camera exceeds the rate `TICK` was
chosen for; without it the dates would run ahead of the clock for ever):

| theorem | states |
| --- | --- |
| `TimedTypes` | `Spec => []TypeOK` |
| `StaysInStep` | `Spec => []InStep` |
| `CadenceUnbroken` | `Spec => AudioCadence` |

`TimedTypes` is proved only: `timed_sync` spends its properties on the rest.
`InStep` is not inductive: that a frame spread out to the next tick is still
dated in time depends on the frames waiting behind it having been captured a
period or more apart, and on none having waited beyond `MaxDelay`. That is
`Waiting(k)`; `Returned(k)` adds what `recv` left in `shift` and `last`.

`MediaProofs`, of `Media`, for every sequence of access units that
`VideoAssumption` and `AudioAssumption` allow:

| theorem | states |
| --- | --- |
| `MediaInStep` | `MediaSpec => []InStep` |
| `MediaCadence` | `MediaSpec => AudioCadence` |
| `HeadersAreShed` | `MediaSpec => []HeadersShed` |
| `GroupsAreMarked` | `MediaSpec => []GroupsMarked` |

A unit that `Decode` makes nothing of is `Timed`'s `Drop`, any other a frame
(`MediaIsTimed`, by definition), so the theorems about `Timed` hold of `Media`
without another proof. `HeadersShed` needs that a unit of zeros never enters the
queue, which is the invariant, and that `Shed` takes off the header of a frame and
nothing else.
`GroupsMarked` is about an access unit of any number of NAL units of any length:
`OneCodeMore` and `OneUnitMore` say what one unit behind its start code adds to
the places where a group may begin, and an induction over the units
(`UnitOpens`) puts them together. It rests on NAL units not holding a start code
and not ending in a zero; with either, `opens_a_group` would see a start code the
camera did not write.

`NatCheckProofs`, for any ports, any number of receives and of copies:

| theorem | states |
| --- | --- |
| `NatCheckTypes` | `Spec => []TypeOK` |
| `FirstMappingIsPublished` | `Spec => []PublishesFirstMapping` |
| `SymmetricOnlyIfSo` | `Spec => []SymmetricIsSymmetric` |
| `RegisteredWasPublished` | `Spec => []RegisteredIsPublished` |

What is published depends on what `net` can still deliver, so the invariant says
what every mapping under way and in hand stands for (`Genuine`), what `register`
has at each label (`Known`), and how many datagrams there can be (`Sent`): an
answer takes the place of its question, so question and answer together never
exceed the one that was asked and its copies.

`SignInProofs`, for any finite number of processes and any number of mishaps:

| theorem | states |
| --- | --- |
| `SignInTypes` | `Spec => []TypeOK` |
| `SignsInTwice` | `Spec => []RunSignsInTwice` |
| `LoginsAreAccounted` | `Spec => []LoginsAccounted` |

For `RunSignsInTwice` the invariant counts for each label the logins a run can
have behind it (`Tally`): a refusal leads past the `except` once, because `fresh`
is set there. `LoginsAccounted` counts the logins of all processes together, and
no process knows them. Its invariant charges each state with the logins it makes
possible before the next mishap: a process that may sign in owes one, `k`
processes on their way to `forget` owe what they can make each other pay, and
one that is about to store a session that is refused already makes all of them
forget. No step of the program adds to that debt, and a mishap adds at most
`n * (n + 1) / 2`, which is where the bound comes from.

`ServiceProofs`, for any finite number of processes and any number of cameras,
sessions, mishaps and places in a pool:

| theorem | states |
| --- | --- |
| `ServiceTypes` | `Spec => []TypeOK` |
| `OnlyOwnSignals` | `Spec => []NoForeignSignal` |
| `NoOrphans` | `Spec => []OrphansExcused` |
| `OneWebsocket` | `Spec => []OneWebsocketPerInstall` |

`Holds(p)` says what a run has at each label, `Agrees(p)` why two runs of one
install go by one identity: unless their first runs raced, whoever writes the
file is alone. `NoForeignSignal` comes from `MatchingSignal`, whatever a frame
nests: the dict it returns has passed `IsOurs`, and `session` is what the run was
given when it entered the call. The bounds are assumed to be numbers, a run's
identifiers to differ from no identifier, nothing else.

`WireProofs`, for every sequence of bytes a server may send, every `MAX_FRAME`
of four or more, every size of a piece, and every method, transaction and body a
reply may have, from `ReadingAssumption` and `WireAssumption`:

| theorem | states |
| --- | --- |
| `ReadIsBounded` | `ReadSpec => []BoundedRead` |
| `OnlyWholeFrames` | `ReadSpec => []WholeFrames` |
| `BlockUndone` | `Decrypt` undoes `Encrypt`, for every key of a size the schedule is for and every block |
| `EcbUndone` | `BlockDecrypt` gives back what `BlockEncrypt` padded, for every text |
| `WalkOfPrefix` | what `parse` finds in the first bytes of encoded fields is a prefix of the fields |
| `WireReads` | `Spec => ReadSpec` |
| `ReplyIsWhole` | `Spec => []WholeOrNothing` |
| `FieldsAreSent` | `Spec => []MissingNotMangled` |

Of `Reading` the invariant is that of the loop: before the fourth byte `size`
stands for the limit, after it for the declared length, which is in bounds, and a
piece is only asked for while there is too little. `Wire` is the same loop around
one reply (`WireReads`), so that both theorems hold of it.

`BlockUndone` goes from the bits up. A byte is the sum of its bits, so that
exclusive or undoes itself (`XorTwice`), a rotation to the left one to the right
(`Turns`), and a round undoes a round, because both compute `F` of the two words
neither changes (`RoundUndone`). The sixteen rounds come undone last first, which
is an induction over the rounds; the key's words before and after them come off
as they went on (`WhitenedTwice`). That `F` is made of bytes at all, so that its words can be taken away again, needs
that every table and every product of `Gfm` is one. What `F` computes plays no
part: that it is Twofish's is for the vectors to show (`KnownAnswers`).

`EcbUndone` adds the blocks and the padding: a padded text is a whole number of
blocks, and its last byte says what was added. `WalkOfPrefix` is about varints
and fields. By induction over the number, every byte of what `_uv` writes but the
last is 128 or more (`UvIsVarint`), and the value of those bytes is the number
(`ValueOfVarint`). So `_rv` reads the number back or, cut off, finds no end (`VarintRead`), `parse`
reads a field back or stops (`FieldRead`), and an induction over the fields from
the last to the first puts them together.

The invariant (`WireInv`) then says that what has arrived is a prefix of the
frame and what follows it, and that the result is what `decode_response` makes of
it. `WholeOrNothing` follows with `DecodeWhole`, `MissingNotMangled` with
`ParseOfPart`: a header has no field twice, so that a prefix of its fields has
their values.

`NegotiationProofs`, for any foundations, priorities, octets and ports a camera
may choose, from `CandidateAssumption` (they are numbers, and a port is one):

| theorem | states |
| --- | --- |
| `NoGenuineIsRefused` | `Call => []GenuineIsRead` |
| `LinesAreKept` | `Call => []ExpandsToItsLine` |
| `LongOctetsAreExact` | `Call => []ThreeDigitsAreExact` |
| `TrickledUnderTheOffer` | `Call => []TrickleFitsOffer` |
| `AnsweredAsOffered` | `Call => []AnswerFitsOffer` |
| `TextIsRestored` | `Call => []TextRestored` |

`CandidateInvariant` says that a candidate was read at the first split of its
line and refused only if it has none. The rest is about digits: what is
written down is read back (`ReadBack`), an octet has one to three digits
(`OctetDigits`), two numbers run together come apart at the right place
(`CutApart`), and what a cut takes apart makes up the line (`CutWhole`). So the
split the camera made is always valid (`TrueSplitIsValid`), the loops find that
one or one before it (`FirstIsFound`), and with three digits on both sides none
is before it. That there may be another one is what `candidate_ambiguous` shows.
`TrickledInvariant` needs no digits: what `local_candidates` lets through is of
the first section and of a type that has a priority.

`AnsweredAsOffered` has no constant in it, but it is about every answer. Its
invariant says that what `receive_only` offers is H.264 and then AAC (`OfferIs`,
through the list that `_enable_aac` leaves, `Without`); what the camera leaves out
is then filled in with the number that was offered, and what it repeats is that
number (`GetOfParts`). `TextIsRestored` is for any words
and any number of spaces, from `WordAssumption`, `EndingAssumption` (a type, then
names and values; no value is spelled like an attribute) and
`FingerprintAssumption`: `str.partition` takes a text apart at the first place of a
word (`Partition`, `NoPartition`), so an attribute in its place cuts off the one
word before it (`CutAtAttribute`), and an ending is followed attribute by
attribute as far as they are in place (`EndingRead`).

`Induction` serves these proofs. The induction theorems of the library take an
operator as a parameter, which the provers cannot instantiate; that a set of
numbers has a least element (`LeastOne`) needs none, and from it follow
induction over a set of numbers (`AllNumbers`, `EveryNumber`) and that a function
defined by recursion exists: on the naturals (`Recursion`), where each value may
depend on one that a measure puts before it (`RecursionByMeasure`), and in a loop
that counts (`CountedLoop`). With them `DigitsOf`, `ValueOf`, `FlattenSeq`, `Uv`,
`Rv`, `Encode`, `Walk`, `Gfm` and `Encipher` can be unfolded for every argument.

Only model-checked:

- everything under fairness (`EveryEndUnwinds`, `HandshakeDecides`, `Recovers`,
  `Terminates`), because the prover has no rule for `ENABLED`;
- `KnownAnswers`: it is a computation with the tables and the vectors and with
  nothing a theorem could be general about, and the provers do not compute. For
  every key and every block there is `BlockUndone`.

## 6. Not modelled

- `profile`, `__init__`, `__main__`: constants and the entry point.
- `rtc`: the patches of certificates, MTU and password length. They replace
  values inside aiortc and OpenSSL once per process and have no state.
- `env`: `load_dotenv`, `credentials`, `country` and `output` read text once, at
  the start. Only `identity` writes something another process may read.
- `cloud`: bodies and headers of the requests, the layout of `ice_servers`, and
  that a response that is not JSON raises `ValueError` where `RuntimeError` is
  caught: the process exits either way and is started again. `list_devices`
  prints and ends.
- `signalling.dumps` and the text of the envelopes; the lines of a description
  that no property tells apart.
- md5: external, one key for each method and transaction.
- The rounding of dates to a tick (`Timed`), bytes inside a frame (`Media`).
- Aiortc, PyAV, the cloud, the nat servers and the camera are modelled by how the
  code uses them, and marked external.

## 7. Plan

Done: `PlaceCall` and `CallPromise`; `SignIn` and `NatCheck`; `Timed`, and `Media`
in front of it; `Signalling`, and `Service`, which composes the runs; `Reading`,
`Twofish` and `Wire`; `Candidate` and `Negotiation`; all with their proofs.

Left: `Service` with a run's call refined to `CallPromise` instead of its summary.
