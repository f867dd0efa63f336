----------------------------- MODULE Signalling -----------------------------
(***************************************************************************)
(* signalling.py: the envelopes the proxy sends, and what it makes of the  *)
(* frames the websocket brings.                                            *)
(*                                                                         *)
(* A dict of a frame keeps what the search looks at: its method, its       *)
(* call_id and SessionId, the dicts under its "data" and those under its   *)
(* other keys; "" and NoId stand for a key that is missing.  A list is a   *)
(* sequence, and json inside a string is what it decodes to.               *)
(***************************************************************************)
EXTENDS Integers, SequencesExt

CONSTANTS
    NoId,
    MaxDicts  \* bound on the dicts of a frame

ASSUME MaxDictsAssumption == MaxDicts \in Nat

Dict(method, call, session, data, rest) ==
    [method |-> method, call |-> call, session |-> session,
     data |-> data, rest |-> rest]

Data(call, session) == Dict("", call, session, <<>>, <<>>)

\* envelope: both names of the call go into its data.
Envelope(method, call, session) ==
    Dict(method, NoId, NoId, <<Data(call, session)>>, <<>>)

\* nested_dicts: what is left of a list when its n-th dict is in front; the
\* dicts under one come next.  Nothing, {}, when there is no n-th.
Left(list) ==
    LET left[n \in 1..MaxDicts] ==
            IF n = 1 THEN {list} \ {<<>>}
            ELSE {Head(l).data \o Head(l).rest \o Tail(l) : l \in left[n - 1]}
                     \ {<<>>}
    IN  left

NestedDict(list, n) == {Head(l) : l \in Left(list)[n]}

\* The first dict that a loop over nested_dicts stops at, if there is one.
FirstDict(list, Stops(_)) ==
    LET at == {n \in 1..MaxDicts : \E d \in NestedDict(list, n) : Stops(d)}
    IN  IF at = {} THEN {}
        ELSE {d \in NestedDict(list, Min(at)) : Stops(d)}

\* Mutant: whatever has the right method is this call's.
IsOursAny(data, call, session) == TRUE

\* Mutant: only the call_id counts, which the answer does not carry.
IsOursByCall(data, call, session) == data.call = call

\* "The answer [...] carries SessionId but no call_id; device ice events carry
\* call_id.  Accept either identifier."
IsOurs(data, call, session) ==
    data.call = call \/ (session # NoId /\ data.session = session)

\* matching_signal: the first dict of this call under the data of an answer or
\* a candidate, {} for None; whatever else the frame holds is dropped.
MatchingSignal(message, call, session) ==
    LET Ours(d)   == FirstDict(d.data,
                               LAMBDA data : IsOurs(data, call, session))
        Stops(d)  == /\ d.method \in {"SdpAnswer", "IceCandidate"}
                     /\ Ours(d) # {}
        Found(d) == {[method |-> d.method, data |-> data] : data \in Ours(d)}
    IN  UNION {Found(d) : d \in FirstDict(message, Stops)}

=============================================================================
