-------------------------------- MODULE Wire --------------------------------
(***************************************************************************)
(* How an apeman reply is read from a tcp connection (apeman._tcp_rpc,     *)
(* whose loop is Reading) and decoded (apeman.decode_response).            *)
(*                                                                         *)
(* A frame is a four byte length that counts itself, then a protobuf       *)
(* header whose fields 4, 5 and 11 are the method, the transaction and the *)
(* body, enciphered under a key made of the other two.  The server sends   *)
(* the frame, with a wrong length or more bytes behind it in bad cases,    *)
(* and closes after any part of it; the bytes arrive in any pieces.        *)
(*                                                                         *)
(* A byte is a number below 256, a text the sequence of its bytes.  Of md5 *)
(* only its shape is kept: a key for each method and transaction.          *)
(***************************************************************************)
EXTENDS Twofish, Reading, SequencesExt

CONSTANTS
    Replies,     \* method, transaction and fields of the body
    Lies,        \* what may be added to the true length
    Trailers,    \* what may follow the frame
    VERSION      \* APEMAN_RPC_VERSION

-----------------------------------------------------------------------------
(***************************************************************************)
(* Framing.  A field is a tag and a value, <<"varint", n>> or              *)
(* <<"bytes", s>>.                                                         *)
(***************************************************************************)

\* _uv: seven bits a byte, the last one below 128.
Uv[n \in Nat] ==
    IF n < 128 THEN <<n>> ELSE <<128 + (n % 128)>> \o Uv[n \div 128]

\* _v and _s
V(tag, n) == [tag |-> tag, value |-> <<"varint", n>>]
S(tag, s) == [tag |-> tag, value |-> <<"bytes", s>>]
Field(f) ==
    IF f.value[1] = "varint"
    THEN Uv[8 * f.tag] \o Uv[f.value[2]]
    ELSE Uv[8 * f.tag + 2] \o (Uv[Len(f.value[2])] \o f.value[2])

Encode(fields) ==
    LET first[n \in 0..Len(fields)] ==
            IF n = 0 THEN <<>> ELSE first[n - 1] \o Field(fields[n])
    IN  first[Len(fields)]

\* struct.pack(">I", n), and the numbers it takes.
Packs(n) == ((n \div 256) \div 256) \div 256 \in Byte
Prefix(n) ==
    LET one == n \div 256
        two == one \div 256
        three == two \div 256
    IN  <<three % 256, two % 256, one % 256, n % 256>>

\* _pkcs7
Pad(s) == s \o [i \in 1..(16 - (Len(s) % 16)) |-> 16 - (Len(s) % 16)]

\* _unpkcs7 raises unless the padding is what _pkcs7 would have added.
Padded(s) == LET n == Last(s)
             IN  /\ n \in 1..16 /\ n <= Len(s)
                 /\ \A i \in (Len(s) - n + 1)..Len(s) : s[i] = n
Unpad(s) == SubSeq(s, 1, Len(s) - Last(s))

\* sail_key: md5 is external, 32 hexadecimal digits.
SailKey(method, transId) ==
    LET seed == (transId + 7 * Len(method)
                         + IF method = <<>> THEN 0 ELSE Head(method)) % 1024
    IN  [i \in 1..32 |-> 48 + ((seed * i) % 10)]

\* block_encrypt and block_decrypt: electronic codebook, the last block of
\* which may be short when it is read.
Block(s, n) ==
    SubSeq(s, 16 * n - 15, IF 16 * n <= Len(s) THEN 16 * n ELSE Len(s))
Flat(n, blocks) ==
    LET list == List(n, blocks)
    IN  List(16 * n, [i \in 1..(16 * n) |->
                         list[(i + 15) \div 16][1 + ((i + 15) % 16)]])
BlockEncrypt(s, key) ==
    LET tf == Schedule(key)
        padded == Pad(s)
        n == Len(padded) \div 16
    IN  Flat(n, [b \in 1..n |-> Encrypt(tf, Block(padded, b))])
BlockDecrypt(s, key) ==
    LET tf == Schedule(key)
        n == (Len(s) + 15) \div 16
    IN  Flat(n, [b \in 1..n |-> Decrypt(tf, Block(s, b))])

\* build_rpc, whose fields the answers have too.
HeaderFields(r) ==
    <<V(1, 23), S(3, VERSION), S(4, r.method), V(5, r.transId),
      V(8, 1), V(9, 1),
      S(11, BlockEncrypt(Encode(r.body), SailKey(r.method, r.transId))),
      V(14, 0)>>

BuildHeader(r) == Encode(HeaderFields(r))

\* A text is bytes, no number is below zero, and a length fits its four bytes.
Fields == Seq([tag : Nat, value : ({"varint"} \X Nat)
                                  \cup ({"bytes"} \X Seq(Byte))])
ASSUME WireAssumption ==
    /\ VERSION \in Seq(Byte)
    /\ \A r \in Replies : /\ r.method \in Seq(Byte) /\ r.transId \in Nat
                         /\ r.body \in Fields
                         /\ Packs(4 + Len(BuildHeader(r)))
    /\ Lies \subseteq Int /\ Trailers \subseteq Seq(Byte)

\* getsrv_body, nat_body, putnatinfo_body
GetsrvBody(uid) == <<V(1, 2), S(4, <<1>>), S(6, uid)>>
NatBody(uid) == <<V(1, 2), S(3, uid), S(4, <<>>)>>
PutNatInfoBody(uid, nattype, lanIp, lanPort, wanIp, wanPort) ==
    Append(NatBody(uid),
           S(6, Encode(<<V(1, 0), V(7, nattype), S(8, lanIp), V(9, lanPort),
                         S(11, wanIp), V(13, wanPort)>>)))

(***************************************************************************)
(* Decoding.                                                               *)
(***************************************************************************)

\* Where the varint at i ends, 0 if it is cut off.
EndOf(b, i) == LET ends == {j \in i..Len(b) : b[j] < 128}
                 IN  IF ends = {} THEN 0 ELSE Min(ends)

\* The value of the varint at i, when it ends at j.
Rv(b, i, j) ==
    LET value[k \in i..(j + 1)] ==
            IF k = j + 1 THEN 0 ELSE (b[k] % 128) + 128 * value[k + 1]
    IN  value[i]

\* Mutant: a length is a single byte.
OneByteLength(b, i) == IF i <= Len(b) THEN i ELSE 0

\* Where the length of a field ends.
LengthEnd(b, i) == EndOf(b, i)

NoField == [next |-> 0, field |-> V(0, 0)]

\* The field at i and where the next one begins; none when it is cut off or of
\* another wire type.
FieldAt(b, i) ==
    LET k   == EndOf(b, i)
        key == Rv(b, i, k)
        v   == EndOf(b, k + 1)
        e   == LengthEnd(b, k + 1)
        n   == Rv(b, k + 1, e)
    IN  IF k # 0 /\ key % 8 = 0 /\ v # 0
        THEN [next |-> v + 1, field |-> V(key \div 8, Rv(b, k + 1, v))]
        ELSE IF k # 0 /\ key % 8 = 2 /\ e # 0 /\ e + n <= Len(b)
        THEN [next |-> e + n + 1,
              field |-> S(key \div 8, SubSeq(b, e + 1, e + n))]
        ELSE NoField

\* The fields up to the first that is not there.
Walk(b) ==
    LET found[i \in 1..(Len(b) + 1)] ==
            LET here == FieldAt(b, i)
            IN  IF here.next = 0 THEN <<>>
                ELSE <<here.field>> \o found[here.next]
    IN  found[1]

\* The last field with a tag gives it its value.
Values(fields) ==
    LET At(tag) == {i \in DOMAIN fields : fields[i].tag = tag}
    IN  [tag \in {fields[i].tag : i \in DOMAIN fields} |->
            fields[Max(At(tag))].value]

\* parse
Parse(b) == Values(Walk(b))

\* hdr.get(tag, default)
Get(fields, tag, default) ==
    IF tag \in DOMAIN fields THEN fields[tag][2] ELSE default

\* block_decrypt of the body, and what it holds if the padding is right;
\* "raised" for a ValueError.
Opened(clear) ==
    IF clear = <<>> THEN [raised |-> FALSE, body |-> << >>]
    ELSE IF Padded(clear) THEN [raised |-> FALSE, body |-> Parse(Unpad(clear))]
    ELSE [raised |-> TRUE, body |-> << >>]

\* decode_response
DecodeResponse(frame) ==
    LET hdr == Parse(IF Len(frame) > 4 THEN SubSeq(frame, 5, Len(frame))
                                       ELSE frame)
        method == Get(hdr, 4, <<>>)
        transId == Get(hdr, 5, 0)
        With(opened) == [method |-> method, transId |-> transId,
                         raised |-> opened.raised, body |-> opened.body]
    IN  With(Opened(BlockDecrypt(Get(hdr, 11, <<>>),
                                 SailKey(method, transId))))

-----------------------------------------------------------------------------
VARIABLES
    reply,    \* what the server answers
    result    \* what _tcp_rpc returns, NoResult before

vars == <<reply, result, readVars>>

NoResult == [method |-> <<>>, transId |-> 0, raised |-> FALSE, body |-> << >>]

\* The headers of the replies, worked out once.
Headers == [r \in Replies |-> BuildHeader(r)]
Frame(header, lie) == Prefix(4 + Len(header) + lie) \o header

Init ==
    /\ reply \in [of : Replies, lie : Lies, trailer : Trailers]
    /\ wire \in Prefixes(Frame(Headers[reply.of], reply.lie) \o reply.trailer)
    /\ Connected
    /\ result = NoResult

\* A reply whose padding is wrong raises.
Decode ==
    /\ Return
    /\ \E decoded \in {DecodeResponse(buf)} :
            IF decoded.raised
            THEN pc' = "failed" /\ UNCHANGED result
            ELSE pc' = "done" /\ result' = decoded
    /\ UNCHANGED reply

Next == \/ (Recv \/ Eof) /\ UNCHANGED <<reply, result>>
        \/ Decode

Spec == Init /\ [][Next]_vars

-----------------------------------------------------------------------------
(***************************************************************************)
(* Properties.                                                             *)
(***************************************************************************)

\* The header of each reply.
Sent == [r \in Replies |-> Values(HeaderFields(r))]

\* What _tcp_rpc returns is what the server sent, whatever pieces it came in:
\* a frame that is not all there is never decoded.
WholeOrNothing ==
    pc = "done" /\ reply.lie = 0 /\ reply.trailer = <<>> =>
        /\ result.method = reply.of.method
        /\ result.transId = reply.of.transId
        /\ result.body = Values(reply.of.body)

\* "Round-trips the official ecb known-answer vectors": what deciphers a reply
\* is Twofish, for keys of all three sizes, in both directions.
KnownAnswers == pc = "done" => Answers

\* "A short or corrupt frame stops the walk": wherever a header is cut off, the
\* fields that are found have the values that were sent.
MissingNotMangled ==
    reply.trailer = <<>> =>
        IsRestriction(Parse(SubSeq(buf, 5, got)), Sent[reply.of])

=============================================================================
