---------------------------- MODULE CallPromise ----------------------------
(***************************************************************************)
(* What one call promises whoever supervises the proxy, without its tasks, *)
(* its messages or its timeouts: the output is opened once and closed      *)
(* once, nothing is written to a closed output, a call that carried media  *)
(* ends for a stated reason, and the first reason stated is the one kept.  *)
(* PlaceCall implements it under the mapping given there.                  *)
(***************************************************************************)

CONSTANTS
    Tracks,     \* what may be written to the output
    Causes      \* the reasons a call may end for; "" is none of them

VARIABLES
    phase,      \* "placing", "carrying", "unwinding", "over"
    reason,     \* "" until something ends the call
    output,     \* "unopened", "open", "closed"
    writing     \* the tracks that still have a writer

cvars == <<phase, reason, output, writing>>

Init ==
    /\ phase = "placing"
    /\ reason = ""
    /\ output = "unopened"
    /\ writing = {}

\* A step that may also be the one to state the reason.
MayBlame ==
    \/ reason' = reason
    \/ reason = "" /\ reason' \in Causes

Open ==
    /\ phase = "placing" /\ output = "unopened"
    /\ output' = "open"
    /\ UNCHANGED <<phase, reason, writing>>

\* The output cannot be opened: the call is over before it began.
Refuse ==
    /\ phase = "placing" /\ output = "unopened"
    /\ phase' = "over"
    /\ UNCHANGED <<reason, output, writing>>

\* The writers start together, and only into an open output.
StartWriting ==
    /\ phase # "over" /\ output = "open" /\ writing = {}
    /\ writing' \in SUBSET Tracks
    /\ UNCHANGED <<phase, reason, output>>

\* No writer stops unexplained while the call is not yet unwinding.
StopWriting ==
    /\ phase # "over"
    /\ writing' \in SUBSET writing
    /\ MayBlame
    /\ phase = "unwinding" \/ reason' # ""
    /\ UNCHANGED <<phase, output>>

Report ==
    /\ phase # "over" /\ reason = ""
    /\ reason' \in Causes
    /\ UNCHANGED <<phase, output, writing>>

Carry ==
    /\ phase = "placing" /\ output = "open"
    /\ phase' = "carrying"
    /\ UNCHANGED <<reason, output, writing>>

\* A call that carried media unwinds for a reason; one that never did may
\* unwind on an exception, which speaks for itself.
Unwind ==
    /\ phase \in {"placing", "carrying"} /\ output = "open"
    /\ phase' = "unwinding"
    /\ MayBlame
    /\ phase = "carrying" => reason' # ""
    /\ UNCHANGED <<output, writing>>

Close ==
    /\ phase = "unwinding" /\ output = "open" /\ writing = {}
    /\ output' = "closed"
    /\ phase' \in {"unwinding", "over"}
    /\ UNCHANGED <<reason, writing>>

Finish ==
    /\ phase = "unwinding" /\ output = "closed"
    /\ phase' = "over"
    /\ UNCHANGED <<reason, output, writing>>

Next ==
    \/ Open \/ Refuse \/ StartWriting \/ StopWriting \/ Report
    \/ Carry \/ Unwind \/ Close \/ Finish

Spec == Init /\ [][Next]_cvars

=============================================================================
