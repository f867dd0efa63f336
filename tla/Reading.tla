------------------------------ MODULE Reading ------------------------------
(***************************************************************************)
(* The reading loop of apeman._tcp_rpc: how much of a tcp connection is    *)
(* taken for the frame of one reply.                                       *)
(*                                                                         *)
(* The server sends some bytes and closes.  They arrive in any pieces; the *)
(* first four declare the length of the frame, themselves included, and    *)
(* nobody has checked them.  What the frame holds is Wire's.               *)
(***************************************************************************)
EXTENDS Integers, Sequences

CONSTANTS
    MaxFrame,    \* MAX_FRAME, 65536 in the code
    Chunk        \* most that one recv returns, 4096 in the code

\* MAX_FRAME is also how much is read before the length is known, so it has to
\* cover the length itself.
ASSUME ReadingAssumption == MaxFrame \in Nat /\ MaxFrame >= 4
                            /\ Chunk \in Nat \ {0}

Byte == 0..255

VARIABLES
    wire,     \* the bytes the server sends before it closes
    got,      \* how many of them are in buf
    size,     \* size
    pc        \* "reading", "failed", "done"

readVars == <<wire, got, size, pc>>

buf == SubSeq(wire, 1, got)

\* struct.unpack(">I", buf[:4])
Declared(bytes) ==
    256 * (256 * (256 * bytes[1] + bytes[2]) + bytes[3]) + bytes[4]

\* Mutant: any length is believed.
BadLengthNever(n) == FALSE

\* not 4 < size <= MAX_FRAME
BadLength(n) == n <= 4 \/ n > MaxFrame

\* Mutant: what arrived before the close is decoded, whole or not.
TruncatedNever == FALSE

\* A frame that ends before its declared length.
Truncated == got < size

Connected ==
    /\ got = 0
    /\ size = MaxFrame
    /\ pc = "reading"

\* recv returns some of what has arrived; the length is known from the fourth
\* byte on and is read again with every piece.
Recv ==
    /\ pc = "reading" /\ got < size /\ got < Len(wire)
    /\ \E n \in 1..Chunk : got + n <= Len(wire) /\ got' = got + n
    /\ IF got' < 4
       THEN UNCHANGED <<size, pc>>
       ELSE /\ size' = Declared(wire)
            /\ pc' = IF BadLength(size') THEN "failed" ELSE pc
    /\ UNCHANGED wire

\* The loop is over: there is enough, or the server has closed.
Ended == pc = "reading" /\ (got >= size \/ got = Len(wire))

Eof ==
    /\ Ended /\ Truncated
    /\ pc' = "failed"
    /\ UNCHANGED <<wire, got, size>>

\* decode_response returns, or raises.
Return ==
    /\ Ended /\ ~Truncated
    /\ pc' \in {"done", "failed"}
    /\ UNCHANGED <<wire, got, size>>

ReadNext == Recv \/ Eof \/ Return

ReadSpec == wire \in Seq(Byte) /\ Connected /\ [][ReadNext]_readVars

-----------------------------------------------------------------------------
\* "Fails loudly instead of reading until memory runs out": no length prefix
\* makes the buffer outgrow the largest frame by more than one piece.
BoundedRead == got < MaxFrame + Chunk

\* What decode_response is given declares a length in bounds, is all there, and
\* goes past the frame by less than a piece: nothing is decoded that the length
\* prefix, right or wrong, does not account for.
WholeFrames ==
    pc = "done" => /\ got > 4
                   /\ Declared(wire) \in 5..MaxFrame
                   /\ got >= Declared(wire)
                   /\ got < Declared(wire) + Chunk

=============================================================================
