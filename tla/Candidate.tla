----------------------------- MODULE Candidate -----------------------------
(***************************************************************************)
(* sdp.expand_candidate: where the spaces of a remote ICE candidate were.  *)
(*                                                                         *)
(* Nooie strips the whitespace out of                                      *)
(*     <foundation> <component> udp <priority> <address> <port> typ ...    *)
(* so that foundation and component run together, priority and the first   *)
(* octet of the address, and the last octet and the port.  A number is the *)
(* sequence of its digits here, a compact line the digits between its      *)
(* letters and dots.  What follows "typ" is cut at words and is left out,  *)
(* as are the lines that still have their spaces.                          *)
(***************************************************************************)
EXTENDS Integers, FiniteSets, SequencesExt

CONSTANTS
    Foundations, Priorities, Ports,   \* the numbers to try
    Octets,                           \* for the first and the last octet,
    Middles                           \* and for the two between

MaxPort == 65535

ASSUME CandidateAssumption ==
    /\ Foundations \cup Priorities \cup Octets \cup Middles \subseteq Nat
    /\ Ports \subseteq 1..MaxPort

VARIABLES
    sent,      \* the candidate the camera has
    status,    \* "unread", "refused" by a ValueError, or "read"
    result     \* the fields that were read, as digits

vars == <<sent, status, result>>

\* What the camera may send: an octet above 255 stands for a damaged line.
Candidates ==
    [foundation : Foundations, component : 1..2, priority : Priorities,
     octets : Octets \X Middles \X Middles \X Octets, port : Ports]

\* The decimal digits of a number, and back.
DigitsOf[n \in Nat] == IF n < 10 THEN <<n>>
                       ELSE Append(DigitsOf[n \div 10], n % 10)
ValueOf(s) ==
    LET value[n \in 0..Len(s)] == IF n = 0 THEN 0
                                  ELSE 10 * value[n - 1] + s[n]
    IN  value[Len(s)]

-----------------------------------------------------------------------------
(***************************************************************************)
(* The code.                                                               *)
(***************************************************************************)

\* The line of a candidate, in the pieces the regular expression, "typ" and
\* the dots cut out of it.
Line(c) ==
    [name   |-> DigitsOf[c.foundation] \o DigitsOf[c.component],
     prefix |-> DigitsOf[c.priority] \o DigitsOf[c.octets[1]],
     octet2 |-> DigitsOf[c.octets[2]],
     octet3 |-> DigitsOf[c.octets[3]],
     tail   |-> DigitsOf[c.octets[4]] \o DigitsOf[c.port]]

\* s[:-n] and s[-n:], s[:n] and s[n:]: beyond the ends there is nothing.
ButLast(s, n) == SubSeq(s, 1, Len(s) - n)
TheLast(s, n) == SubSeq(s, IF n < Len(s) THEN Len(s) - n + 1 ELSE 1, Len(s))
TheFirst(s, n) == SubSeq(s, 1, IF n < Len(s) THEN n ELSE Len(s))
ButFirst(s, n) == SubSeq(s, n + 1, Len(s))

\* The fields, with `head` digits for the first octet and `last` for the last.
Cut(line, head, last) ==
    [foundation |-> ButLast(line.name, 1),
     component  |-> TheLast(line.name, 1),
     priority   |-> ButLast(line.prefix, head),
     octets     |-> <<TheLast(line.prefix, head), line.octet2, line.octet3,
                      TheFirst(line.tail, last)>>,
     port       |-> ButFirst(line.tail, last)]

\* Mutant: whatever has three digits is an octet.
ValidAnyOctet(cut) ==
    /\ cut.priority # <<>>
    /\ cut.port # <<>> /\ 0 < ValueOf(cut.port) /\ ValueOf(cut.port) <= MaxPort

\* Mutant: the last port is left out.
ValidBelow65535(cut) ==
    /\ cut.priority # <<>>
    /\ cut.port # <<>> /\ 0 < ValueOf(cut.port) /\ ValueOf(cut.port) < MaxPort
    /\ \A i \in 1..4 : ValueOf(cut.octets[i]) <= 255

\* The condition of the innermost if.
Valid(cut) ==
    /\ cut.priority # <<>>
    /\ cut.port # <<>> /\ 0 < ValueOf(cut.port) /\ ValueOf(cut.port) <= MaxPort
    /\ \A i \in 1..4 : ValueOf(cut.octets[i]) <= 255

Splits(line) == {s \in (1..3) \X (1..3) : Valid(Cut(line, s[1], s[2]))}

\* Mutant: the loops count up.
FirstShortest(splits) ==
    CHOOSE s \in splits :
        \A t \in splits : s[1] < t[1] \/ (s[1] = t[1] /\ s[2] <= t[2])

\* The split the loops find first: the longest first octet, then the longest
\* last one.
First(splits) ==
    CHOOSE s \in splits :
        \A t \in splits : s[1] > t[1] \/ (s[1] = t[1] /\ s[2] >= t[2])

\* The regular expression wants a foundation and component 1 or 2.
Matches(line) == Len(line.name) > 1 /\ Last(line.name) \in 1..2

-----------------------------------------------------------------------------
Init ==
    /\ sent \in Candidates
    /\ status = "unread"
    /\ result = Cut(Line(sent), 0, 0)

ExpandCandidate ==
    /\ status = "unread"
    /\ UNCHANGED sent
    /\ LET line   == Line(sent)
           splits == Splits(line)
           split  == First(splits)
       IN  IF Matches(line) /\ splits # {}
           THEN status' = "read" /\ result' = Cut(line, split[1], split[2])
           ELSE status' = "refused" /\ UNCHANGED result

Next == ExpandCandidate

Spec == Init /\ [][Next]_vars

-----------------------------------------------------------------------------
(***************************************************************************)
(* Properties.                                                             *)
(***************************************************************************)

Genuine == \A i \in 1..4 : sent.octets[i] <= 255

\* The candidate as it was sent, in digits.
AsSent ==
    [foundation |-> DigitsOf[sent.foundation],
     component  |-> DigitsOf[sent.component],
     priority   |-> DigitsOf[sent.priority],
     octets     |-> <<DigitsOf[sent.octets[1]], DigitsOf[sent.octets[2]],
                     DigitsOf[sent.octets[3]], DigitsOf[sent.octets[4]]>>,
     port       |-> DigitsOf[sent.port]]

\* The fields that come out run together to the line that came in, digit by
\* digit, and name an address and a port that exist.
ExpandsToItsLine ==
    status = "read" =>
        /\ result.priority \o result.octets[1] = Line(sent).prefix
        /\ result.octets[4] \o result.port = Line(sent).tail
        /\ \A i \in 1..4 : ValueOf(result.octets[i]) <= 255
        /\ ValueOf(result.port) \in 1..MaxPort

\* The candidate of a camera is never refused.
GenuineIsRead == Genuine => status # "refused"

\* With three digits in the first and in the last octet the candidate that
\* comes out is the one that was sent.
ThreeDigitsAreExact ==
    Genuine /\ sent.octets[1] >= 100 /\ sent.octets[4] >= 100 /\ status = "read"
        => result = AsSent

\* "Only one split of each yields four valid octets and a valid port."
OnlyOneSplit == Genuine => Cardinality(Splits(Line(sent))) <= 1

=============================================================================
