----------------------------- MODULE WireProofs -----------------------------
(***************************************************************************)
(* What apeman's client makes of a reply, for every limit, size of a piece *)
(* and reply: the reading loop keeps to its bounds, the cipher and the     *)
(* encoding are undone by their inverses, and so what _tcp_rpc returns is  *)
(* what the server sent.                                                   *)
(*                                                                         *)
(* The parts build on each other: the loop (Reading), Twofish on one       *)
(* block, padding and whole texts, varints, fields and messages, and last  *)
(* the exchange (Wire), whose invariant puts them together.                *)
(***************************************************************************)
EXTENDS Wire, Induction, SequenceTheorems

-----------------------------------------------------------------------------
(***************************************************************************)
(* The loop, whatever the bytes are.                                       *)
(***************************************************************************)

\* The types of the loop's variables.
TypeOK ==
    /\ wire \in Seq(Byte)
    /\ got \in 0..Len(wire)
    /\ size \in Nat
    /\ pc \in {"reading", "failed", "done"}

\* While the loop goes on: before the fourth byte the limit stands in for the
\* length, and after it the length is the declared one and in bounds.  A piece
\* is only asked for while there is too little, so what is there is never a
\* whole piece beyond the length.
ReadInv ==
    /\ TypeOK
    /\ got < MaxFrame + Chunk
    /\ pc # "failed" =>
            /\ got < 4 => size = MaxFrame
            /\ got >= 4 => /\ size = Declared(wire)
                           /\ size \in 5..MaxFrame
                           /\ got < size + Chunk
    /\ pc = "done" => got >= size

\* Four bytes are a number.
LEMMA DeclaredIsNat ==
    ASSUME NEW bytes \in Seq(Byte), Len(bytes) >= 4
    PROVE  Declared(bytes) \in Nat
<1>1. Len(bytes) \in Nat /\ \A i \in 1..Len(bytes) : bytes[i] \in Byte
      OBVIOUS
<1>2. \A n \in Byte : n \in Nat
      BY DEF Byte
<1>3. bytes[1] \in Nat /\ bytes[2] \in Nat /\ bytes[3] \in Nat
      /\ bytes[4] \in Nat
      BY <1>1, <1>2
<1>. DEFINE a == bytes[1]
            b == bytes[2]
            c == bytes[3]
            d == bytes[4]
<1>4. a \in Nat /\ b \in Nat /\ c \in Nat /\ d \in Nat
      BY <1>3
<1>5. 256 * (256 * (256 * a + b) + c) + d \in Nat
  <2>. HIDE DEF a, b, c, d
  <2>1. 256 * a + b \in Nat
      BY <1>4
  <2>2. 256 * (256 * a + b) + c \in Nat
      BY <1>4, <2>1
  <2>. QED  BY <1>4, <2>2
<1>. QED  BY <1>5, Zenon DEF Declared, a, b, c, d

\* Connecting makes the invariant true.
LEMMA ReadInvInit == wire \in Seq(Byte) /\ Connected => ReadInv
BY ReadingAssumption DEF Connected, ReadInv, TypeOK

\* And every piece that arrives keeps it.
LEMMA ReadInvNext == ReadInv /\ [ReadNext]_readVars => ReadInv'
<1>. SUFFICES ASSUME ReadInv, [ReadNext]_readVars
              PROVE  ReadInv'
     OBVIOUS
<1>. USE ReadingAssumption DEF ReadInv, TypeOK
<1>1. CASE Recv
  <2>. PICK n \in 1..Chunk : got + n <= Len(wire) /\ got' = got + n
       BY <1>1 DEF Recv
  <2>1. /\ wire' = wire /\ pc = "reading" /\ got < size
        /\ got' \in 0..Len(wire)
        BY <1>1 DEF Recv
  <2>2. size <= MaxFrame
        BY <2>1
  <2>3. CASE got' < 4
        BY <1>1, <2>1, <2>2, <2>3 DEF Recv
  <2>4. CASE got' >= 4
    <3>1. /\ size' = Declared(wire)
          /\ pc' = IF BadLength(size') THEN "failed" ELSE pc
          BY <1>1, <2>4, <2>1 DEF Recv
    <3>2. size' \in Nat /\ Declared(wire)' = Declared(wire)
          BY <3>1, <2>1, <2>4, DeclaredIsNat
    <3>3. ~BadLength(size') => size' \in 5..MaxFrame
          BY <3>2 DEF BadLength
    <3>4. pc' # "failed" => got' < size' + Chunk
      <4>1. CASE got >= 4
            BY <4>1, <3>1, <2>1
      <4>2. CASE got < 4
            BY <4>2, <3>1, <3>2, <3>3
      <4>. QED  BY <4>1, <4>2
    <3>. QED  BY <2>1, <2>2, <2>4, <3>1, <3>2, <3>3, <3>4
  <2>. QED  BY <2>1, <2>3, <2>4
<1>2. CASE Eof
      BY <1>2 DEF Eof, Ended, Declared
<1>3. CASE Return
      BY <1>3 DEF Return, Ended, Truncated, Declared
<1>4. CASE UNCHANGED readVars
      BY <1>4 DEF readVars, Declared
<1>. QED  BY <1>1, <1>2, <1>3, <1>4 DEF ReadNext

\* The buffer of one reply stays below the limit plus one piece, whatever the
\* server declares and however the bytes arrive.
THEOREM ReadIsBounded == ReadSpec => []BoundedRead
<1>1. ReadInv => BoundedRead
      BY DEF ReadInv, BoundedRead
<1>. QED  BY <1>1, ReadInvInit, ReadInvNext, PTL DEF ReadSpec

\* decode_response is only given buffers that hold the frame they declare.
THEOREM OnlyWholeFrames == ReadSpec => []WholeFrames
<1>1. ReadInv => WholeFrames
      BY ReadingAssumption DEF ReadInv, TypeOK, WholeFrames
<1>. QED  BY <1>1, ReadInvInit, ReadInvNext, PTL DEF ReadSpec

-----------------------------------------------------------------------------
(***************************************************************************)
(* Twofish.  A byte is worked with as its bits, a word as its bytes: what  *)
(* undoes a round is that an exclusive or undoes itself and that a turn    *)
(* to the left undoes one to the right.                                    *)
(***************************************************************************)

\* A byte is the sum of its bits.
LEMMA SumOfBits ==
    ASSUME NEW n \in Bytes
    PROVE  /\ \A i \in 1..8 : Bit(n, i) \in {0, 1}
           /\ n = Bit(n, 1) + 2 * Bit(n, 2) + 4 * Bit(n, 3) + 8 * Bit(n, 4)
                  + 16 * Bit(n, 5) + 32 * Bit(n, 6) + 64 * Bit(n, 7)
                  + 128 * Bit(n, 8)
BY DEF Bytes, Bit, Powers

\* And the bits of a sum are its terms.
LEMMA BitsOfSum ==
    ASSUME NEW a \in {0, 1}, NEW b \in {0, 1}, NEW c \in {0, 1},
           NEW d \in {0, 1}, NEW e \in {0, 1}, NEW f \in {0, 1},
           NEW g \in {0, 1}, NEW h \in {0, 1}, NEW n,
           n = a + 2 * b + 4 * c + 8 * d + 16 * e + 32 * f + 64 * g + 128 * h
    PROVE  /\ n \in Bytes
           /\ Bit(n, 1) = a /\ Bit(n, 2) = b /\ Bit(n, 3) = c
           /\ Bit(n, 4) = d /\ Bit(n, 5) = e /\ Bit(n, 6) = f
           /\ Bit(n, 7) = g /\ Bit(n, 8) = h
BY DEF Bytes, Bit, Powers

\* The bits of an exclusive or: those in which the two differ.
Differ(p, q) == IF p = q THEN 0 ELSE 1

\* Bit by bit, an exclusive or is where the two differ.
LEMMA XorIs ==
    ASSUME NEW a \in Bytes, NEW b \in Bytes
    PROVE  /\ Xor[a][b] \in Bytes
           /\ \A i \in 1..8 : Bit(Xor[a][b], i) = Differ(Bit(a, i), Bit(b, i))
<1> DEFINE c(i) == Differ(Bit(a, i), Bit(b, i))
<1>1. \A i \in 1..8 : c(i) \in {0, 1}
    BY DEF Differ
<1>2. Xor[a][b] = c(1) + 2 * c(2) + 4 * c(3) + 8 * c(4) + 16 * c(5)
                  + 32 * c(6) + 64 * c(7) + 128 * c(8)
    BY DEF Xor, Powers, Differ
<1> HIDE DEF c
<1>3. /\ c(1) \in {0, 1} /\ c(2) \in {0, 1} /\ c(3) \in {0, 1}
      /\ c(4) \in {0, 1} /\ c(5) \in {0, 1} /\ c(6) \in {0, 1}
      /\ c(7) \in {0, 1} /\ c(8) \in {0, 1}
    BY <1>1
<1>4. /\ Xor[a][b] \in Bytes
      /\ Bit(Xor[a][b], 1) = c(1) /\ Bit(Xor[a][b], 2) = c(2)
      /\ Bit(Xor[a][b], 3) = c(3) /\ Bit(Xor[a][b], 4) = c(4)
      /\ Bit(Xor[a][b], 5) = c(5) /\ Bit(Xor[a][b], 6) = c(6)
      /\ Bit(Xor[a][b], 7) = c(7) /\ Bit(Xor[a][b], 8) = c(8)
    BY <1>2, <1>3, BitsOfSum
<1>5. \A i \in 1..8 : Bit(Xor[a][b], i) = c(i)
  <2>1. \A i \in 1..8 : i = 1 \/ i = 2 \/ i = 3 \/ i = 4 \/ i = 5 \/ i = 6
                        \/ i = 7 \/ i = 8
      OBVIOUS
  <2> QED
      BY <1>4, <2>1
<1> QED
    BY <1>4, <1>5 DEF c

\* Bytes with the same bits are equal.
LEMMA SameBits ==
    ASSUME NEW a \in Bytes, NEW b \in Bytes,
           \A i \in 1..8 : Bit(a, i) = Bit(b, i)
    PROVE  a = b
<1>1. /\ Bit(a, 1) = Bit(b, 1) /\ Bit(a, 2) = Bit(b, 2)
      /\ Bit(a, 3) = Bit(b, 3) /\ Bit(a, 4) = Bit(b, 4)
      /\ Bit(a, 5) = Bit(b, 5) /\ Bit(a, 6) = Bit(b, 6)
      /\ Bit(a, 7) = Bit(b, 7) /\ Bit(a, 8) = Bit(b, 8)
    OBVIOUS
<1> QED
    BY <1>1, SumOfBits

\* Exclusive or with a byte is undone by another with it.
LEMMA XorTwice ==
    ASSUME NEW a \in Bytes, NEW b \in Bytes
    PROVE  Xor[Xor[a][b]][b] = a
<1> DEFINE once == Xor[a][b]
           twice == Xor[once][b]
<1>1. /\ once \in Bytes
      /\ \A i \in 1..8 : Bit(once, i) = Differ(Bit(a, i), Bit(b, i))
    BY XorIs
<1> HIDE DEF once
<1>2. /\ twice \in Bytes
      /\ \A i \in 1..8 : Bit(twice, i) = Differ(Bit(once, i), Bit(b, i))
    BY <1>1, XorIs
<1> HIDE DEF twice
<1>3. \A i \in 1..8 : Bit(twice, i) = Bit(a, i)
    BY <1>1, <1>2, SumOfBits DEF Differ
<1> QED
    BY <1>2, <1>3, SameBits DEF twice, once

\* Half bytes stay half bytes.
LEMMA XorOfHalves ==
    ASSUME NEW a \in 0..15, NEW b \in 0..15
    PROVE  Xor[a][b] \in 0..15
<1>1. a \in Bytes /\ b \in Bytes
    BY DEF Bytes
<1>2. /\ Bit(a, 5) = 0 /\ Bit(a, 6) = 0 /\ Bit(a, 7) = 0 /\ Bit(a, 8) = 0
      /\ Bit(b, 5) = 0 /\ Bit(b, 6) = 0 /\ Bit(b, 7) = 0 /\ Bit(b, 8) = 0
    BY DEF Bit, Powers
<1> DEFINE n == Xor[a][b]
<1>3. /\ n \in Bytes
      /\ \A i \in 1..8 : Bit(n, i) = Differ(Bit(a, i), Bit(b, i))
    BY <1>1, XorIs
<1> HIDE DEF n
<1>4. Bit(n, 5) = 0 /\ Bit(n, 6) = 0 /\ Bit(n, 7) = 0 /\ Bit(n, 8) = 0
    BY <1>2, <1>3 DEF Differ
<1>5. /\ Bit(n, 1) \in {0, 1} /\ Bit(n, 2) \in {0, 1}
      /\ Bit(n, 3) \in {0, 1} /\ Bit(n, 4) \in {0, 1}
      /\ n = Bit(n, 1) + 2 * Bit(n, 2) + 4 * Bit(n, 3) + 8 * Bit(n, 4)
    BY <1>3, <1>4, SumOfBits
<1>6. n \in 0..15
    BY <1>5
<1> QED
    BY <1>6 DEF n

-----------------------------------------------------------------------------
Words == Bytes \X Bytes \X Bytes \X Bytes

\* The two ways to say that something is four bytes.
LEMMA WordIs ==
    ASSUME NEW x \in Words
    PROVE  /\ x = <<x[1], x[2], x[3], x[4]>>
           /\ x[1] \in Bytes /\ x[2] \in Bytes /\ x[3] \in Bytes
           /\ x[4] \in Bytes
BY DEF Words

\* Four bytes are a word.
LEMMA WordOf ==
    ASSUME NEW a \in Bytes, NEW b \in Bytes, NEW c \in Bytes, NEW d \in Bytes
    PROVE  <<a, b, c, d>> \in Words
BY DEF Words

\* The exclusive or of two words is a word, and undone by doing it again.
LEMMA XorWordIs ==
    ASSUME NEW x \in Words, NEW y \in Words
    PROVE  /\ XorWord(x, y) \in Words
           /\ XorWord(XorWord(x, y), y) = x
<1> DEFINE z == XorWord(x, y)
<1>1. z = <<Xor[x[1]][y[1]], Xor[x[2]][y[2]], Xor[x[3]][y[3]], Xor[x[4]][y[4]]>>
    BY DEF XorWord, Word
<1>2. /\ x[1] \in Bytes /\ x[2] \in Bytes /\ x[3] \in Bytes
      /\ x[4] \in Bytes /\ y[1] \in Bytes /\ y[2] \in Bytes
      /\ y[3] \in Bytes /\ y[4] \in Bytes
    BY WordIs
<1>3. z \in Words
  <2>1. /\ Xor[x[1]][y[1]] \in Bytes /\ Xor[x[2]][y[2]] \in Bytes
        /\ Xor[x[3]][y[3]] \in Bytes /\ Xor[x[4]][y[4]] \in Bytes
      BY <1>2, XorIs
  <2> QED
      BY <1>1, <2>1 DEF Words
<1>4. XorWord(z, y) = <<Xor[z[1]][y[1]], Xor[z[2]][y[2]], Xor[z[3]][y[3]],
                        Xor[z[4]][y[4]]>>
    BY DEF XorWord, Word
<1>5. /\ z[1] = Xor[x[1]][y[1]] /\ z[2] = Xor[x[2]][y[2]]
      /\ z[3] = Xor[x[3]][y[3]] /\ z[4] = Xor[x[4]][y[4]]
    BY <1>1
<1> HIDE DEF z
<1>6. XorWord(z, y) = <<x[1], x[2], x[3], x[4]>>
    BY <1>2, <1>4, <1>5, XorTwice
<1> QED
    BY <1>3, <1>6, WordIs DEF z

\* A bit to the left and one to the right are a byte's two halves of a turn.
LEMMA TurnedByte ==
    ASSUME NEW a \in Bytes, NEW b \in Bytes, NEW c \in Bytes
    PROVE  /\ (2 * a + b \div 128) % 256 \in Bytes
           /\ a \div 2 + 128 * (b % 2) \in Bytes
           /\ (2 * (a \div 2 + 128 * (b % 2))
                   + (c \div 2 + 128 * (a % 2)) \div 128) % 256 = a
           /\ ((2 * a + b \div 128) % 256) \div 2
                  + 128 * (((2 * c + a \div 128) % 256) % 2) = a
<1>1. /\ a \in Int /\ 0 <= a /\ a < 256 /\ b \in Int /\ 0 <= b /\ b < 256
      /\ c \in Int /\ 0 <= c /\ c < 256
    BY DEF Bytes
<1>2. b \div 128 \in {0, 1} /\ b % 2 \in {0, 1} /\ a % 2 \in {0, 1}
      /\ a \div 128 \in {0, 1}
    BY <1>1
<1>3. (2 * a + b \div 128) % 256 \in Bytes
    BY <1>1, <1>2 DEF Bytes
<1>4. a \div 2 + 128 * (b % 2) \in Bytes
    BY <1>1, <1>2 DEF Bytes
<1>5. (c \div 2 + 128 * (a % 2)) \div 128 = a % 2
    BY <1>1, <1>2
<1>6. (2 * (a \div 2 + 128 * (b % 2)) + (a % 2)) % 256 = a
    BY <1>1, <1>2
<1>7. ((2 * c + a \div 128) % 256) % 2 = a \div 128
    BY <1>1, <1>2
<1>8. ((2 * a + b \div 128) % 256) \div 2 + 128 * (a \div 128) = a
    BY <1>1, <1>2
<1> QED
    BY <1>3, <1>4, <1>5, <1>6, <1>7, <1>8

\* Turning a word by a bit one way and then the other leaves it as it is.
LEMMA Turns ==
    ASSUME NEW x \in Words
    PROVE  /\ Rol1(x) \in Words /\ Ror1(x) \in Words
           /\ Rol1(Ror1(x)) = x /\ Ror1(Rol1(x)) = x
<1> DEFINE a == x[1]  b == x[2]  c == x[3]  d == x[4]
           L(p, q) == (2 * p + q \div 128) % 256
           R(p, q) == p \div 2 + 128 * (q % 2)
<1>1. x = <<a, b, c, d>>
      /\ a \in Bytes /\ b \in Bytes /\ c \in Bytes /\ d \in Bytes
    BY WordIs
<1>2. /\ \A p, q \in Bytes : L(p, q) \in Bytes /\ R(p, q) \in Bytes
      /\ \A p, q, r \in Bytes : L(R(p, q), R(r, p)) = p
                               /\ R(L(p, q), L(r, p)) = p
    BY TurnedByte
<1>3. \A w : /\ Rol1(w) = <<L(w[1], w[4]), L(w[2], w[1]), L(w[3], w[2]),
                            L(w[4], w[3])>>
             /\ Ror1(w) = <<R(w[1], w[2]), R(w[2], w[3]), R(w[3], w[4]),
                            R(w[4], w[1])>>
    BY DEF Rol1, Ror1
<1> HIDE DEF L, R, a, b, c, d
<1>4. /\ Rol1(x) = <<L(a, d), L(b, a), L(c, b), L(d, c)>>
      /\ Ror1(x) = <<R(a, b), R(b, c), R(c, d), R(d, a)>>
    BY <1>3 DEF a, b, c, d
<1>5. Rol1(x) \in Words /\ Ror1(x) \in Words
  <2>1. /\ L(a, d) \in Bytes /\ L(b, a) \in Bytes /\ L(c, b) \in Bytes
        /\ L(d, c) \in Bytes /\ R(a, b) \in Bytes /\ R(b, c) \in Bytes
        /\ R(c, d) \in Bytes /\ R(d, a) \in Bytes
      BY <1>1, <1>2
  <2> QED
      BY <1>4, <2>1 DEF Words
<1>6. Rol1(Ror1(x)) = <<a, b, c, d>>
  <2>1. Rol1(Ror1(x)) = <<L(R(a, b), R(d, a)), L(R(b, c), R(a, b)),
                          L(R(c, d), R(b, c)), L(R(d, a), R(c, d))>>
      BY <1>3, <1>4
  <2> QED
      BY <1>1, <1>2, <2>1
<1>7. Ror1(Rol1(x)) = <<a, b, c, d>>
  <2>1. Ror1(Rol1(x)) = <<R(L(a, d), L(b, a)), R(L(b, a), L(c, b)),
                          R(L(c, b), L(d, c)), R(L(d, c), L(a, d))>>
      BY <1>3, <1>4
  <2> QED
      BY <1>1, <1>2, <2>1
<1> QED
    BY <1>1, <1>5, <1>6, <1>7

\* A sum is a word, and so is a word turned by a byte.
LEMMA AddIsWord ==
    ASSUME NEW x \in Words, NEW y \in Words
    PROVE  Add(x, y) \in Words /\ Rol8(x) \in Words
<1>1. \A n \in Int : n % 256 \in Bytes
    BY DEF Bytes
<1>2. /\ x[1] \in Int /\ x[2] \in Int /\ x[3] \in Int /\ x[4] \in Int
      /\ y[1] \in Int /\ y[2] \in Int /\ y[3] \in Int /\ y[4] \in Int
    BY WordIs DEF Bytes
<1>3. /\ Add(x, y)[1] \in Bytes /\ Add(x, y)[2] \in Bytes
      /\ Add(x, y)[3] \in Bytes /\ Add(x, y)[4] \in Bytes
      /\ Add(x, y) = <<Add(x, y)[1], Add(x, y)[2], Add(x, y)[3], Add(x, y)[4]>>
    BY <1>1, <1>2 DEF Add
<1> QED
    BY <1>3, WordOf, WordIs DEF Rol8

-----------------------------------------------------------------------------
HalfTables == [1..4 -> [1..16 -> 0..15]]

\* The eight tables of half bytes are what their name says.
LEMMA Tables == Q0 \in HalfTables /\ Q1 \in HalfTables
<1>1. /\ <<8,1,7,13,6,15,3,2,0,11,5,9,14,12,10,4>> \in [1..16 -> 0..15]
      /\ <<14,12,11,8,1,2,3,5,15,4,10,6,7,0,9,13>> \in [1..16 -> 0..15]
      /\ <<11,10,5,14,6,13,9,0,12,8,15,3,2,4,7,1>> \in [1..16 -> 0..15]
      /\ <<13,7,15,4,1,2,6,14,9,11,3,0,8,5,12,10>> \in [1..16 -> 0..15]
    OBVIOUS
<1>2. /\ <<2,8,11,13,15,7,6,14,3,1,9,4,0,10,12,5>> \in [1..16 -> 0..15]
      /\ <<1,14,2,11,4,12,3,7,6,13,10,5,15,9,0,8>> \in [1..16 -> 0..15]
      /\ <<4,12,7,5,1,6,9,10,0,14,13,8,2,11,3,15>> \in [1..16 -> 0..15]
      /\ <<11,9,5,1,12,3,13,14,6,4,7,15,2,0,8,10>> \in [1..16 -> 0..15]
    OBVIOUS
<1>3. \A T, a, b, c, d : a \in T /\ b \in T /\ c \in T /\ d \in T
                         => <<a, b, c, d>> \in [1..4 -> T]
    OBVIOUS
<1> QED
    BY <1>1, <1>2, <1>3 DEF Q0, Q1, HalfTables

\* A permutation maps bytes to bytes.
LEMMA PermutesBytes ==
    ASSUME NEW t \in HalfTables, NEW x \in Bytes
    PROVE  Qp(t, x) \in Bytes
<1> DEFINE Half == 0..15
           One(a, b) == Xor[a][b]
           Two(a, b) == Xor[a][Xor[b \div 2 + 8 * (b % 2)][8 * (a % 2)]]
           m == Mix(x \div 16, x % 16)
           n == Mix(t[1][m[1] + 1], t[2][m[2] + 1])
<1>1. \A a, b \in Half : One(a, b) \in Half /\ Two(a, b) \in Half
  <2> SUFFICES ASSUME NEW a \in Half, NEW b \in Half
               PROVE  One(a, b) \in Half /\ Two(a, b) \in Half
      OBVIOUS
  <2>1. b \div 2 + 8 * (b % 2) \in Half /\ 8 * (a % 2) \in Half
      OBVIOUS
  <2>2. Xor[b \div 2 + 8 * (b % 2)][8 * (a % 2)] \in Half
      BY <2>1, XorOfHalves
  <2> QED
      BY <2>2, XorOfHalves
<1>2. \A i \in 1..4, h \in Half : t[i][h + 1] \in Half
    BY DEF HalfTables
<1>3. x \div 16 \in Half /\ x % 16 \in Half
    BY DEF Bytes
<1>4. \A a, b : Mix(a, b)[1] = One(a, b) /\ Mix(a, b)[2] = Two(a, b)
    BY DEF Mix
<1>5. Qp(t, x) = 16 * t[4][n[2] + 1] + t[3][n[1] + 1]
    BY DEF Qp
<1> HIDE DEF One, Two, Half
<1>6. m[1] \in Half /\ m[2] \in Half
    BY <1>1, <1>3, <1>4
<1>7. t[1][m[1] + 1] \in Half /\ t[2][m[2] + 1] \in Half
    BY <1>2, <1>6
<1>8. n[1] \in Half /\ n[2] \in Half
    BY <1>1, <1>4, <1>7
<1>9. t[4][n[2] + 1] \in Half /\ t[3][n[1] + 1] \in Half
    BY <1>2, <1>8
<1>10. \A p, q \in Half : 16 * p + q \in Bytes
    BY DEF Half, Bytes
<1> QED
    BY <1>5, <1>9, <1>10

\* Both permutations give bytes.
LEMMA QIsBytes ==
    ASSUME NEW s \in {0, 1}, NEW x \in Bytes
    PROVE  Q[s + 1][x] \in Bytes
<1>1. Q[1][x] = Qp(Q0, x) /\ Q[2][x] = Qp(Q1, x)
    BY DEF Q
<1>2. Q[1][x] \in Bytes /\ Q[2][x] \in Bytes
    BY <1>1, Tables, PermutesBytes
<1> QED
    BY <1>2

\* The product of two bytes is a byte.
LEMMA GfmIsByte ==
    ASSUME NEW a \in Bytes, NEW b, NEW p \in 256..511
    PROVE  Gfm(a, b, p) \in Bytes
<1> DEFINE Pairs == Bytes \X Bytes
           After(x, bit) ==
               <<IF bit = 1 THEN Xor[x[1]][x[2]] ELSE x[1], Doubled(x[2], p)>>
           Loop(f) == f = [i \in 0..8 |-> IF i = 0 THEN <<0, a>>
                                         ELSE After(f[i - 1], Bit(b, i))]
           Run == CHOOSE f : Loop(f)
           step == [y \in (1..8) \X Pairs |-> After(y[2], Bit(b, y[1]))]
<1>1. \A s \in Bytes : Doubled(s, p) \in Bytes
  <2> SUFFICES ASSUME NEW s \in Bytes PROVE Doubled(s, p) \in Bytes
      OBVIOUS
  <2>1. CASE s < 128
      BY <2>1 DEF Doubled, Bytes
  <2>2. CASE ~(s < 128)
    <3>1. 2 * s - 256 \in Bytes /\ p - 256 \in Bytes
        BY <2>2 DEF Bytes
    <3> QED
        BY <2>2, <3>1, XorIs DEF Doubled
  <2> QED
      BY <2>1, <2>2
<1>2. ASSUME NEW x \in Pairs, NEW bit PROVE After(x, bit) \in Pairs
  <2>1. x[1] \in Bytes /\ x[2] \in Bytes
      OBVIOUS
  <2>2. Xor[x[1]][x[2]] \in Bytes /\ Doubled(x[2], p) \in Bytes
      BY <1>1, <2>1, XorIs
  <2> QED
      BY <2>1, <2>2
<1>3. step \in [(1..8) \X Pairs -> Pairs]
  <2> HIDE DEF Pairs, After
  <2> QED
      BY <1>2
<1>4. \A i \in 1..8, x \in Pairs : step[<<i, x>>] = After(x, Bit(b, i))
  <2> HIDE DEF Pairs, After
  <2> QED
      OBVIOUS
<1>5. <<0, a>> \in Pairs
    BY DEF Bytes
<1> HIDE DEF Pairs, After, step
<1>6. PICK f \in [0..8 -> Pairs] : Counts(f, 8, <<0, a>>, step)
    BY <1>3, <1>5, CountedLoop
<1>7. \A i \in 0..8 : i # 0 =>
          step[<<i, f[i - 1]>>] = After(f[i - 1], Bit(b, i))
    BY <1>4
<1>8. Loop(f)
  <2>1. f = [i \in 0..8 |-> IF i = 0 THEN <<0, a>> ELSE step[<<i, f[i - 1]>>]]
      BY <1>6 DEF Counts
  <2> QED
      BY <1>7, <2>1
<1>9. Loop(Run)
    BY <1>8
<1>10. /\ Run[0] = <<0, a>>
       /\ \A i \in 1..8 : Run[i] = After(Run[i - 1], Bit(b, i))
  <2>1. Run = [i \in 0..8 |-> IF i = 0 THEN <<0, a>>
                           ELSE After(Run[i - 1], Bit(b, i))]
      BY <1>9
  <2> HIDE DEF Run
  <2>2. \A i \in 0..8 : Run[i] = IF i = 0 THEN <<0, a>>
                               ELSE After(Run[i - 1], Bit(b, i))
      BY <2>1, Zenon
  <2> QED
      BY <2>2
<1>11. Gfm(a, b, p) = Run[8][1]
    BY Zenon DEF Gfm, Run, Loop, After
<1> HIDE DEF Run
<1>12. /\ Run[1] = After(Run[0], Bit(b, 1)) /\ Run[2] = After(Run[1], Bit(b, 2))
       /\ Run[3] = After(Run[2], Bit(b, 3)) /\ Run[4] = After(Run[3], Bit(b, 4))
       /\ Run[5] = After(Run[4], Bit(b, 5)) /\ Run[6] = After(Run[5], Bit(b, 6))
       /\ Run[7] = After(Run[6], Bit(b, 7)) /\ Run[8] = After(Run[7], Bit(b, 8))
    BY <1>10
<1>13. Run[8] \in Pairs
    BY <1>2, <1>5, <1>10, <1>12
<1> QED
    BY <1>11, <1>13 DEF Pairs

\* A list that is worked out at once is the list.
LEMMA ListIs ==
    ASSUME NEW n \in Nat, NEW D, NEW f \in [1..n -> D]
    PROVE  List(n, f) = f
<1>1. f \in Seq(D) /\ Len(f) = n
    OBVIOUS
<1> QED
    BY <1>1, SubSeqFull DEF List

\* One byte of a word, through one of the permutations.
LEMMA SelectIs ==
    \A c \in 1..4, s \in 1..5 : SEL[c][s] \in {0, 1}
<1>1. /\ <<1, 1, 0, 0, 1>> \in [1..5 -> {0, 1}]
      /\ <<0, 1, 1, 0, 0>> \in [1..5 -> {0, 1}]
      /\ <<0, 0, 0, 1, 1>> \in [1..5 -> {0, 1}]
      /\ <<1, 0, 1, 1, 0>> \in [1..5 -> {0, 1}]
    OBVIOUS
<1>2. \A c \in 1..4 : SEL[c] \in [1..5 -> {0, 1}]
    BY <1>1 DEF SEL
<1> QED
    BY <1>2

\* One stage of the key dependent permutation gives a byte.
LEMMA StageIsByte ==
    ASSUME NEW k \in 1..4, NEW L \in [1..k -> Words], NEW byte \in Bytes,
           NEW c \in 1..4, NEW s \in 1..4
    PROVE  Stage(byte, L, k, c, s) \in Bytes
<1>1. CASE s <= 4 - k
    BY <1>1 DEF Stage
<1>2. CASE ~(s <= 4 - k)
  <2>1. 5 - s \in 1..k
      BY <1>2
  <2>2. L[5 - s][c] \in Bytes
      BY <2>1, WordIs
  <2>3. Q[SEL[c][s] + 1][byte] \in Bytes
      BY SelectIs, QIsBytes
  <2>4. Xor[Q[SEL[c][s] + 1][byte]][L[5 - s][c]] \in Bytes
      BY <2>2, <2>3, XorIs
  <2> QED
      BY <1>2, <2>4, Zenon DEF Stage
<1> QED
    BY <1>1, <1>2

\* And so do all of them.
LEMMA StagesIsByte ==
    ASSUME NEW k \in 1..4, NEW L \in [1..k -> Words], NEW byte \in Bytes,
           NEW c \in 1..4
    PROVE  Stages(byte, L, k, c) \in Bytes
<1> DEFINE one == Stage(byte, L, k, c, 1)
           two == Stage(one, L, k, c, 2)
           three == Stage(two, L, k, c, 3)
           four == Stage(three, L, k, c, 4)
<1>1. \A y \in Bytes, s \in 1..4 : Stage(y, L, k, c, s) \in Bytes
    BY StageIsByte
<1>2. one \in Bytes
    BY <1>1
<1>3. two \in Bytes
  <2> HIDE DEF one
  <2> QED
      BY <1>1, <1>2
<1>4. four \in Bytes
  <2> HIDE DEF two
  <2>1. three \in Bytes
      BY <1>1, <1>3
  <2> HIDE DEF three
  <2> QED
      BY <1>1, <2>1
<1>5. Stages(byte, L, k, c) = Q[SEL[c][5] + 1][four]
    BY DEF Stages
<1> HIDE DEF four
<1> QED
    BY <1>4, <1>5, SelectIs, QIsBytes

\* The matrix spreads a word over a word.
LEMMA SpreadIsWord ==
    ASSUME NEW z \in Words
    PROVE  Spread(z) \in Words
<1> DEFINE m(col, row) == MDSTimes[MDS[col][row]][z[row]]
           w(col) == XorOf4(m(col, 1), m(col, 2), m(col, 3), m(col, 4))
<1>1. \A col, row \in 1..4 : MDS[col][row] \in {1, 91, 239}
  <2>1. /\ <<1, 239, 91, 91>> \in [1..4 -> {1, 91, 239}]
        /\ <<91, 239, 239, 1>> \in [1..4 -> {1, 91, 239}]
        /\ <<239, 91, 1, 239>> \in [1..4 -> {1, 91, 239}]
        /\ <<239, 1, 239, 91>> \in [1..4 -> {1, 91, 239}]
      OBVIOUS
  <2>2. \A col \in 1..4 : MDS[col] \in [1..4 -> {1, 91, 239}]
      BY <2>1 DEF MDS
  <2> QED
      BY <2>2
<1>2. \A row \in 1..4 : z[row] \in Bytes
    BY WordIs
<1>3. \A n \in {1, 91, 239}, x \in Bytes : MDSTimes[n][x] \in Bytes
  <2> SUFFICES ASSUME NEW n \in {1, 91, 239}, NEW x \in Bytes
               PROVE  MDSTimes[n][x] \in Bytes
      OBVIOUS
  <2>1. n \in Bytes /\ 361 \in 256..511
      BY DEF Bytes
  <2>2. Gfm(n, x, 361) \in Bytes
      BY <2>1, GfmIsByte
  <2> QED
      BY <2>2 DEF MDSTimes
<1>4. \A col, row \in 1..4 : m(col, row) \in Bytes
    BY <1>1, <1>2, <1>3
<1>5. \A a, b, c, d \in Bytes : XorOf4(a, b, c, d) \in Bytes
    BY XorIs DEF XorOf4
<1> HIDE DEF m
<1>6. \A col \in 1..4 : w(col) \in Bytes
  <2> SUFFICES ASSUME NEW col \in 1..4 PROVE w(col) \in Bytes
      OBVIOUS
  <2>1. /\ m(col, 1) \in Bytes /\ m(col, 2) \in Bytes
        /\ m(col, 3) \in Bytes /\ m(col, 4) \in Bytes
      BY <1>4
  <2> QED
      BY <1>5, <2>1
<1>7. Spread(z) = <<w(1), w(2), w(3), w(4)>>
    BY DEF Spread, Word, m
<1> HIDE DEF w
<1>8. w(1) \in Bytes /\ w(2) \in Bytes /\ w(3) \in Bytes /\ w(4) \in Bytes
    BY <1>6
<1> QED
    BY <1>7, <1>8 DEF Words

\* h gives a word.
LEMMA HIsWord ==
    ASSUME NEW k \in 1..4, NEW L \in [1..k -> Words], NEW x \in Words
    PROVE  H(x, L, k) \in Words
<1> DEFINE s(c) == Stages(x[c], L, k, c)
<1>1. \A c \in 1..4 : s(c) \in Bytes
  <2> SUFFICES ASSUME NEW c \in 1..4 PROVE s(c) \in Bytes
      OBVIOUS
  <2>1. x[c] \in Bytes
      BY WordIs
  <2> QED
      BY <2>1, StagesIsByte
<1>2. H(x, L, k) = Spread(<<s(1), s(2), s(3), s(4)>>)
    BY DEF H, Word
<1> HIDE DEF s
<1>3. <<s(1), s(2), s(3), s(4)>> \in Words
  <2>1. s(1) \in Bytes /\ s(2) \in Bytes /\ s(3) \in Bytes /\ s(4) \in Bytes
      BY <1>1
  <2> QED
      BY <2>1 DEF Words
<1> QED
    BY <1>2, <1>3, SpreadIsWord

\* The pseudo-Hadamard transform gives words.
LEMMA PhtIsWords ==
    ASSUME NEW a \in Words, NEW b \in Words
    PROVE  Pht(a, b) \in Words \X Words
<1>1. Add(b, b) \in Words /\ Add(a, b) \in Words
    BY AddIsWord
<1>2. Add(a, Add(b, b)) \in Words
    BY <1>1, AddIsWord
<1> QED
    BY <1>1, <1>2 DEF Pht

\* The forty round keys are words.
LEMMA RoundKeysAre ==
    ASSUME NEW k \in 1..4, NEW Me \in [1..k -> Words],
           NEW Mo \in [1..k -> Words]
    PROVE  RoundKeys(Me, Mo, k) \in [1..40 -> Words]
<1> DEFINE A(i) == H(Word([c \in 1..4 |-> 2 * i]), Me, k)
           B(i) == Rol8(H(Word([c \in 1..4 |-> 2 * i + 1]), Mo, k))
           pairs == [i \in 1..20 |-> Pht(A(i - 1), B(i - 1))]
           sums == List(20, pairs)
           key(n) == LET pair == sums[(n + 1) \div 2]
                     IN  IF n % 2 = 1 THEN pair[1] ELSE Rol1(Rol8(pair[2]))
           keys == [n \in 1..40 |-> key(n)]
<1>1. \A i \in 1..20 : A(i - 1) \in Words /\ B(i - 1) \in Words
  <2> SUFFICES ASSUME NEW i \in 1..20
               PROVE  A(i - 1) \in Words /\ B(i - 1) \in Words
      OBVIOUS
  <2> DEFINE e == 2 * (i - 1)
             o == 2 * (i - 1) + 1
  <2>1. e \in Bytes /\ o \in Bytes
      BY DEF Bytes
  <2>2. /\ Word([c \in 1..4 |-> e]) = <<e, e, e, e>>
        /\ Word([c \in 1..4 |-> o]) = <<o, o, o, o>>
      BY DEF Word
  <2> HIDE DEF e, o
  <2>3. <<e, e, e, e>> \in Words /\ <<o, o, o, o>> \in Words
      BY <2>1 DEF Words
  <2>4. /\ H(Word([c \in 1..4 |-> e]), Me, k) \in Words
        /\ H(Word([c \in 1..4 |-> o]), Mo, k) \in Words
      BY <2>2, <2>3, HIsWord
  <2>5. Rol8(H(Word([c \in 1..4 |-> o]), Mo, k)) \in Words
      BY <2>4, AddIsWord
  <2> QED
      BY <2>4, <2>5, Zenon DEF e, o
<1> HIDE DEF A, B
<1>2. pairs \in [1..20 -> Words \X Words]
    BY <1>1, PhtIsWords
<1>3. sums = pairs
  <2> HIDE DEF pairs
  <2> QED
      BY <1>2, ListIs
<1> HIDE DEF sums
<1>4. \A n \in 1..40 : key(n) \in Words
  <2> SUFFICES ASSUME NEW n \in 1..40 PROVE key(n) \in Words
      OBVIOUS
  <2> DEFINE pair == sums[(n + 1) \div 2]
  <2>1. (n + 1) \div 2 \in 1..20
      OBVIOUS
  <2>2. pair \in Words \X Words
    <3> HIDE DEF pairs
    <3> QED
        BY <1>2, <1>3, <2>1
  <2> HIDE DEF pair
  <2>3. pair[1] \in Words /\ pair[2] \in Words
      BY <2>2
  <2>4. Rol8(pair[2]) \in Words
      BY <2>3, AddIsWord
  <2>5. Rol1(Rol8(pair[2])) \in Words
      BY <2>4, Turns
  <2> QED
      BY <2>3, <2>5 DEF pair
<1> HIDE DEF key
<1>5. keys \in [1..40 -> Words]
    BY <1>4
<1>6. RoundKeys(Me, Mo, k) = List(40, keys)
    BY Zenon DEF RoundKeys, keys, key, sums, pairs, A, B
<1> HIDE DEF keys
<1>7. List(40, keys) = keys
    BY <1>5, ListIs
<1> QED
    BY <1>5, <1>6, <1>7

\* The words of the key dependent boxes are words.
LEMMA BoxWordsAre ==
    ASSUME NEW k \in 1..4, NEW key \in Seq(Bytes), Len(key) = 8 * k
    PROVE  BoxWords(key, k) \in [1..k -> Words]
<1> DEFINE v(i, col, row) == Gfm(RS[col][row], key[8 * (k - i) + row], 333)
           column(i, col) ==
               Xor[XorOf4(v(i, col, 1), v(i, col, 2), v(i, col, 3),
                          v(i, col, 4))]
                  [XorOf4(v(i, col, 5), v(i, col, 6), v(i, col, 7),
                          v(i, col, 8))]
           box(i) == Word([col \in 1..4 |-> column(i, col)])
           boxes == [i \in 1..k |-> box(i)]
<1>1. \A col \in 1..4, row \in 1..8 : RS[col][row] \in Bytes
  <2>1. /\ <<1, 164, 85, 135, 90, 88, 219, 158>> \in [1..8 -> Bytes]
        /\ <<164, 86, 130, 243, 30, 198, 104, 229>> \in [1..8 -> Bytes]
        /\ <<2, 161, 252, 193, 71, 174, 61, 25>> \in [1..8 -> Bytes]
        /\ <<164, 85, 135, 90, 88, 219, 158, 3>> \in [1..8 -> Bytes]
      BY DEF Bytes
  <2>2. /\ RS[1] \in [1..8 -> Bytes] /\ RS[2] \in [1..8 -> Bytes]
        /\ RS[3] \in [1..8 -> Bytes] /\ RS[4] \in [1..8 -> Bytes]
      BY <2>1, Zenon DEF RS
  <2> QED
      BY <2>2
<1>2. \A i \in 1..k, col \in 1..4, row \in 1..8 : v(i, col, row) \in Bytes
  <2> SUFFICES ASSUME NEW i \in 1..k, NEW col \in 1..4, NEW row \in 1..8
               PROVE  v(i, col, row) \in Bytes
      OBVIOUS
  <2>1. RS[col][row] \in Bytes /\ 333 \in 256..511
      BY <1>1
  <2> QED
      BY <2>1, GfmIsByte
<1> HIDE DEF v
<1>3. \A a, b, c, d \in Bytes : XorOf4(a, b, c, d) \in Bytes
    BY XorIs DEF XorOf4
<1>4. \A i \in 1..k, col \in 1..4 : column(i, col) \in Bytes
  <2> SUFFICES ASSUME NEW i \in 1..k, NEW col \in 1..4
               PROVE  column(i, col) \in Bytes
      OBVIOUS
  <2>1. /\ v(i, col, 1) \in Bytes /\ v(i, col, 2) \in Bytes
        /\ v(i, col, 3) \in Bytes /\ v(i, col, 4) \in Bytes
        /\ v(i, col, 5) \in Bytes /\ v(i, col, 6) \in Bytes
        /\ v(i, col, 7) \in Bytes /\ v(i, col, 8) \in Bytes
      BY <1>2
  <2>2. /\ XorOf4(v(i, col, 1), v(i, col, 2), v(i, col, 3), v(i, col, 4))
              \in Bytes
        /\ XorOf4(v(i, col, 5), v(i, col, 6), v(i, col, 7), v(i, col, 8))
              \in Bytes
      BY <1>3, <2>1
  <2> QED
      BY <2>2, XorIs
<1> HIDE DEF column
<1>5. \A i \in 1..k : box(i) \in Words
  <2> SUFFICES ASSUME NEW i \in 1..k PROVE box(i) \in Words
      OBVIOUS
  <2>1. box(i) = <<column(i, 1), column(i, 2), column(i, 3), column(i, 4)>>
      BY DEF Word
  <2>2. /\ column(i, 1) \in Bytes /\ column(i, 2) \in Bytes
        /\ column(i, 3) \in Bytes /\ column(i, 4) \in Bytes
      BY <1>4
  <2> HIDE DEF box
  <2> QED
      BY <2>1, <2>2 DEF Words
<1>6. BoxWords(key, k) = List(k, boxes)
    BY Zenon DEF BoxWords, boxes, box, column, v
<1> HIDE DEF box
<1>7. boxes \in [1..k -> Words]
    BY <1>5
<1> HIDE DEF boxes
<1>8. List(k, boxes) = boxes
    BY <1>7, ListIs, k \in Nat
<1> QED
    BY <1>6, <1>7, <1>8

\* What the key is made into.
Keyed(tf) ==
    /\ tf.k \in 1..4
    /\ tf.K \in [1..40 -> Words]
    /\ tf.S \in [1..tf.k -> Words]

\* Every key of a size the code takes is scheduled.
LEMMA ScheduleIsKeyed ==
    ASSUME NEW key \in Seq(Bytes), Len(key) \in {8, 16, 24, 32}
    PROVE  Keyed(Schedule(key))
<1> DEFINE k == Len(key) \div 8
           w(i) == Word([c \in 1..4 |-> key[4 * i + c]])
           Me == [i \in 1..k |-> w(2 * i - 2)]
           Mo == [i \in 1..k |-> w(2 * i - 1)]
<1>1. k \in 1..4 /\ Len(key) = 8 * k
  <2>1. \A n \in {8, 16, 24, 32} : n \div 8 \in 1..4 /\ n = 8 * (n \div 8)
      OBVIOUS
  <2> QED
      BY <2>1
<1>2. \A i \in 1..Len(key) : key[i] \in Bytes
    BY ElementOfSeq
<1>3. Schedule(key) = [k |-> k, K |-> RoundKeys(Me, Mo, k),
                       S |-> BoxWords(key, k)]
    BY Zenon DEF Schedule, Me, Mo, k, w
<1> HIDE DEF k
<1>4. \A i \in 0..(2 * k - 1) : w(i) \in Words
  <2> SUFFICES ASSUME NEW i \in 0..(2 * k - 1) PROVE w(i) \in Words
      OBVIOUS
  <2>1. \A c \in 1..4 : 4 * i + c \in 1..Len(key)
      BY <1>1
  <2>2. /\ key[4 * i + 1] \in Bytes /\ key[4 * i + 2] \in Bytes
        /\ key[4 * i + 3] \in Bytes /\ key[4 * i + 4] \in Bytes
      BY <1>2, <2>1
  <2>3. w(i) = <<key[4 * i + 1], key[4 * i + 2], key[4 * i + 3],
                 key[4 * i + 4]>>
      BY DEF Word
  <2>4. \A a, b, c, d \in Bytes : <<a, b, c, d>> \in Words
      BY DEF Words
  <2> HIDE DEF w
  <2> QED
      BY <2>2, <2>3, <2>4
<1> HIDE DEF w
<1>5. Me \in [1..k -> Words] /\ Mo \in [1..k -> Words]
  <2>1. \A i \in 1..k : 2 * i - 2 \in 0..(2 * k - 1)
                        /\ 2 * i - 1 \in 0..(2 * k - 1)
      BY <1>1
  <2> QED
      BY <1>4, <2>1
<1> HIDE DEF Me, Mo
<1>6. RoundKeys(Me, Mo, k) \in [1..40 -> Words]
    BY <1>1, <1>5, RoundKeysAre
<1>7. BoxWords(key, k) \in [1..k -> Words]
    BY <1>1, BoxWordsAre
<1> QED
    BY <1>1, <1>3, <1>6, <1>7 DEF Keyed

-----------------------------------------------------------------------------
States == Words \X Words \X Words \X Words

\* The round function gives two words.
LEMMA FIsWords ==
    ASSUME NEW tf, Keyed(tf), NEW R \in States, NEW r \in 0..15
    PROVE  /\ F(R, tf, r)[1] \in Words
           /\ F(R, tf, r)[2] \in Words
<1>1. /\ tf.k \in 1..4 /\ tf.K \in [1..40 -> Words]
      /\ tf.S \in [1..tf.k -> Words]
    BY DEF Keyed
<1> DEFINE a == H(R[1], tf.S, tf.k)
           b == H(Rol8(R[2]), tf.S, tf.k)
           p == Pht(a, b)
<1>2. a \in Words /\ b \in Words
  <2>1. R[1] \in Words /\ R[2] \in Words
      BY DEF States
  <2>2. Rol8(R[2]) \in Words
      BY <2>1, AddIsWord
  <2> QED
      BY <1>1, <2>1, <2>2, HIsWord
<1>3. F(R, tf, r) = <<Add(p[1], tf.K[2 * r + 9]), Add(p[2], tf.K[2 * r + 10])>>
    BY DEF F
<1> HIDE DEF a, b
<1>4. p \in Words \X Words
    BY <1>2, PhtIsWords
<1> HIDE DEF p
<1>5. p[1] \in Words /\ p[2] \in Words
    BY <1>4
<1>6. tf.K[2 * r + 9] \in Words /\ tf.K[2 * r + 10] \in Words
  <2>1. 2 * r + 9 \in 1..40 /\ 2 * r + 10 \in 1..40
      OBVIOUS
  <2> QED
      BY <1>1, <2>1
<1>7. /\ Add(p[1], tf.K[2 * r + 9]) \in Words
      /\ Add(p[2], tf.K[2 * r + 10]) \in Words
    BY <1>5, <1>6, AddIsWord
<1> QED
    BY <1>3, <1>7

\* What a round adds is made of the first two words, which it keeps.
LEMMA FOfHalf ==
    ASSUME NEW tf, NEW r, NEW R, NEW T, R[1] = T[1], R[2] = T[2]
    PROVE  F(R, tf, r) = F(T, tf, r)
BY Zenon DEF F

\* One round the other way round undoes a round.
LEMMA RoundUndone ==
    ASSUME NEW tf, Keyed(tf), NEW R \in States, NEW r \in 0..15
    PROVE  /\ Forward(R, tf, r) \in States
           /\ Backward(Swapped(Forward(R, tf, r)), tf, r) = Swapped(R)
<1> DEFINE f == F(R, tf, r)
           a == Ror1(XorWord(R[3], f[1]))
           b == XorWord(Rol1(R[4]), f[2])
           T == <<R[1], R[2], a, b>>
<1>1. f[1] \in Words /\ f[2] \in Words
    BY FIsWords
<1>2. /\ R[1] \in Words /\ R[2] \in Words /\ R[3] \in Words
      /\ R[4] \in Words
    BY DEF States
<1> HIDE DEF f
<1>3. /\ XorWord(R[3], f[1]) \in Words
      /\ XorWord(XorWord(R[3], f[1]), f[1]) = R[3]
    BY <1>1, <1>2, XorWordIs
<1>4. a \in Words /\ Rol1(a) = XorWord(R[3], f[1])
    BY <1>3, Turns
<1>5. Rol1(R[4]) \in Words /\ Ror1(Rol1(R[4])) = R[4]
    BY <1>2, Turns
<1>6. b \in Words /\ XorWord(b, f[2]) = Rol1(R[4])
    BY <1>1, <1>5, XorWordIs
<1>7. Forward(R, tf, r) = <<a, b, R[1], R[2]>>
    BY DEF Forward, f
<1> HIDE DEF a, b
<1>8. Forward(R, tf, r) \in States
    BY <1>2, <1>4, <1>6, <1>7 DEF States
<1>9. Swapped(Forward(R, tf, r)) = T
    BY <1>7 DEF Swapped
<1>10. T[1] = R[1] /\ T[2] = R[2] /\ T[3] = a /\ T[4] = b
    OBVIOUS
<1> HIDE DEF T
<1>11. F(T, tf, r) = f
    BY <1>10, FOfHalf DEF f
<1>12. Backward(T, tf, r) =
           <<XorWord(Rol1(a), f[1]), Ror1(XorWord(b, f[2])), R[1], R[2]>>
    BY <1>10, <1>11, Zenon DEF Backward
<1>13. Backward(T, tf, r) = <<R[3], R[4], R[1], R[2]>>
    BY <1>3, <1>4, <1>5, <1>6, <1>12
<1> QED
    BY <1>8, <1>9, <1>13 DEF Swapped

\* Enciphering is sixteen rounds.
LEMMA EncipherIs ==
    ASSUME NEW tf, Keyed(tf), NEW R \in States
    PROVE  \E E \in [0..16 -> States] :
               /\ E[0] = R
               /\ \A r \in 1..16 : E[r] = Forward(E[r - 1], tf, r - 1)
               /\ Encipher(R, tf) = E[16]
<1> DEFINE Loop(f) == f = [r \in 0..16 |-> IF r = 0 THEN R
                                          ELSE Forward(f[r - 1], tf, r - 1)]
           G == CHOOSE f : Loop(f)
           step == [y \in (1..16) \X States |-> Forward(y[2], tf, y[1] - 1)]
<1>1. \A r \in 1..16, x \in States : Forward(x, tf, r - 1) \in States
    BY RoundUndone
<1>2. /\ step \in [(1..16) \X States -> States]
      /\ \A r \in 1..16, x \in States :
             step[<<r, x>>] = Forward(x, tf, r - 1)
    BY <1>1
<1> HIDE DEF step
<1>3. PICK f \in [0..16 -> States] : Counts(f, 16, R, step)
    BY <1>2, CountedLoop
<1>4. Loop(f)
  <2>1. f = [r \in 0..16 |-> IF r = 0 THEN R ELSE step[<<r, f[r - 1]>>]]
      BY <1>3 DEF Counts
  <2>2. \A r \in 0..16 : r # 0 =>
            step[<<r, f[r - 1]>>] = Forward(f[r - 1], tf, r - 1)
      BY <1>2
  <2> QED
      BY <2>1, <2>2
<1>5. Loop(G)
    BY <1>4
<1>6. Encipher(R, tf) = G[16]
    BY Zenon DEF Encipher, G, Loop
<1>7. G = [r \in 0..16 |-> IF r = 0 THEN R ELSE Forward(G[r - 1], tf, r - 1)]
    BY <1>5
<1> HIDE DEF G, Loop
<1>8. DOMAIN G = 0..16 /\ G[0] = R
      /\ \A r \in 1..16 : G[r] = Forward(G[r - 1], tf, r - 1)
  <2>1. /\ DOMAIN G = 0..16
        /\ \A r \in 0..16 : G[r] = IF r = 0 THEN R
                                    ELSE Forward(G[r - 1], tf, r - 1)
      BY <1>7, Zenon
  <2> QED
      BY <2>1
<1> DEFINE Typed == {n \in Nat : n <= 16 => G[n] \in States}
<1>9. Nat \subseteq Typed
  <2>1. 0 \in Typed
      BY <1>8
  <2>2. ASSUME NEW n \in Nat, n \in Typed PROVE n + 1 \in Typed
    <3>1. CASE n + 1 <= 16
      <4>1. /\ n + 1 \in 1..16 /\ (n + 1) - 1 = n /\ n <= 16
            /\ n \in 0..15
          BY <3>1
      <4>2. G[n + 1] = Forward(G[n], tf, n) /\ G[n] \in States
          BY <1>8, <2>2, <4>1
      <4> QED
          BY <4>1, <4>2, RoundUndone
    <3> QED
        BY <3>1
  <2> HIDE DEF Typed
  <2> QED
      BY <2>1, <2>2, EveryNumber
<1>10. \A r \in 0..16 : G[r] \in States
    BY <1>9
<1>11. G \in [0..16 -> States]
    BY <1>7, <1>10
<1> QED
    BY <1>6, <1>8, <1>11

\* The rounds undo each other, last one first.
LEMMA DecipherIs ==
    ASSUME NEW tf, Keyed(tf), NEW R \in States
    PROVE  /\ Encipher(R, tf) \in States
           /\ Decipher(Swapped(Encipher(R, tf)), tf) = Swapped(R)
<1>1. PICK E \in [0..16 -> States] :
               /\ E[0] = R
               /\ \A r \in 1..16 : E[r] = Forward(E[r - 1], tf, r - 1)
               /\ Encipher(R, tf) = E[16]
    BY EncipherIs
<1> DEFINE T == Swapped(E[16])
           Loop(f) == f = [r \in 0..16 |-> IF r = 0 THEN T
                                          ELSE Backward(f[r - 1], tf, 16 - r)]
           G == CHOOSE f : Loop(f)
           g == [r \in 0..16 |-> Swapped(E[16 - r])]
<1>2. Decipher(T, tf) = G[16]
    BY Zenon DEF Decipher, G, Loop
<1>3. \A r \in 1..16 : g[r] = Backward(g[r - 1], tf, 16 - r)
  <2> SUFFICES ASSUME NEW r \in 1..16
               PROVE  g[r] = Backward(g[r - 1], tf, 16 - r)
      OBVIOUS
  <2> DEFINE n == 16 - r
  <2>1. /\ n \in 0..15 /\ n + 1 \in 1..16 /\ (n + 1) - 1 = n
        /\ 16 - (r - 1) = n + 1 /\ r \in 0..16 /\ r - 1 \in 0..16
      OBVIOUS
  <2>2. g[r] = Swapped(E[n]) /\ g[r - 1] = Swapped(E[n + 1])
      BY <2>1
  <2> HIDE DEF g, n
  <2>3. E[n + 1] = Forward(E[n], tf, n) /\ E[n] \in States
      BY <1>1, <2>1
  <2>4. Backward(Swapped(E[n + 1]), tf, n) = Swapped(E[n])
      BY <2>1, <2>3, RoundUndone
  <2> QED
      BY <2>2, <2>4 DEF n
<1>4. Loop(g)
  <2>1. g = [r \in 0..16 |-> g[r]] /\ g[0] = T
      OBVIOUS
  <2> HIDE DEF g, T
  <2>2. \A r \in 0..16 : r # 0 => g[r] = Backward(g[r - 1], tf, 16 - r)
      BY <1>3
  <2> QED
      BY <2>1, <2>2
<1>5. Loop(G)
    BY <1>4
<1>6. G = [r \in 0..16 |-> IF r = 0 THEN T ELSE Backward(G[r - 1], tf, 16 - r)]
    BY <1>5
<1>7. g[0] = T /\ g[16] = Swapped(E[0])
    OBVIOUS
<1> HIDE DEF G, Loop, T, g
<1>8. /\ G[0] = T
      /\ \A r \in 1..16 : G[r] = Backward(G[r - 1], tf, 16 - r)
  <2>1. \A r \in 0..16 : G[r] = IF r = 0 THEN T
                                ELSE Backward(G[r - 1], tf, 16 - r)
      BY <1>6, Zenon
  <2> QED
      BY <2>1
<1> DEFINE Same == {n \in Nat : n <= 16 => G[n] = g[n]}
<1>9. Nat \subseteq Same
  <2>1. 0 \in Same
      BY <1>7, <1>8
  <2>2. ASSUME NEW n \in Nat, n \in Same PROVE n + 1 \in Same
    <3>1. CASE n + 1 <= 16
      <4>1. n + 1 \in 1..16 /\ (n + 1) - 1 = n /\ n <= 16
          BY <3>1
      <4> QED
          BY <1>3, <1>8, <2>2, <4>1
    <3> QED
        BY <3>1
  <2> HIDE DEF Same
  <2> QED
      BY <2>1, <2>2, EveryNumber
<1>10. G[16] = g[16]
    BY <1>9
<1> QED
    BY <1>1, <1>2, <1>7, <1>10 DEF T

\* The key's words come off as they went on.
LEMMA WhitenedTwice ==
    ASSUME NEW tf, Keyed(tf), NEW R \in States, NEW i \in {0, 4}
    PROVE  /\ Whitened(R, tf, i) \in States
           /\ Whitened(Whitened(R, tf, i), tf, i) = R
<1> DEFINE a == XorWord(R[1], tf.K[i + 1])
           b == XorWord(R[2], tf.K[i + 2])
           c == XorWord(R[3], tf.K[i + 3])
           d == XorWord(R[4], tf.K[i + 4])
<1>1. /\ tf.K[i + 1] \in Words /\ tf.K[i + 2] \in Words
      /\ tf.K[i + 3] \in Words /\ tf.K[i + 4] \in Words
  <2>1. i + 1 \in 1..40 /\ i + 2 \in 1..40 /\ i + 3 \in 1..40 /\ i + 4 \in 1..40
      OBVIOUS
  <2>2. tf.K \in [1..40 -> Words]
      BY DEF Keyed
  <2> QED
      BY <2>1, <2>2
<1>2. /\ R[1] \in Words /\ R[2] \in Words /\ R[3] \in Words
      /\ R[4] \in Words /\ R = <<R[1], R[2], R[3], R[4]>>
    BY DEF States
<1>3. /\ a \in Words /\ XorWord(a, tf.K[i + 1]) = R[1]
      /\ b \in Words /\ XorWord(b, tf.K[i + 2]) = R[2]
      /\ c \in Words /\ XorWord(c, tf.K[i + 3]) = R[3]
      /\ d \in Words /\ XorWord(d, tf.K[i + 4]) = R[4]
    BY <1>1, <1>2, XorWordIs
<1>4. Whitened(R, tf, i) = <<a, b, c, d>>
    BY DEF Whitened
<1> HIDE DEF a, b, c, d
<1>5. Whitened(R, tf, i) \in States
    BY <1>3, <1>4 DEF States
<1>6. Whitened(<<a, b, c, d>>, tf, i) =
          <<XorWord(a, tf.K[i + 1]), XorWord(b, tf.K[i + 2]),
            XorWord(c, tf.K[i + 3]), XorWord(d, tf.K[i + 4])>>
    BY DEF Whitened
<1> QED
    BY <1>2, <1>3, <1>4, <1>5, <1>6

\* Swapping the halves twice leaves them.
LEMMA SwappedTwice ==
    ASSUME NEW R \in States
    PROVE  Swapped(R) \in States /\ Swapped(Swapped(R)) = R
BY DEF Swapped, States

\* A block is sixteen bytes.
Sixteen == [1..16 -> Bytes]

\* A block splits into four words.
LEMMA SplitIs ==
    ASSUME NEW block \in Sixteen
    PROVE  Split(block) \in States /\ Joined(Split(block)) = block
<1> DEFINE R == Split(block)
<1>1. Len(block) = 16 /\ \A i \in 1..16 : block[i] \in Bytes
    BY DEF Sixteen
<1>2. R = <<<<block[1], block[2], block[3], block[4]>>,
            <<block[5], block[6], block[7], block[8]>>,
            <<block[9], block[10], block[11], block[12]>>,
            <<block[13], block[14], block[15], block[16]>>>>
    BY <1>1 DEF Split
<1> HIDE DEF R
<1>3. /\ R[1] = <<block[1], block[2], block[3], block[4]>>
      /\ R[2] = <<block[5], block[6], block[7], block[8]>>
      /\ R[3] = <<block[9], block[10], block[11], block[12]>>
      /\ R[4] = <<block[13], block[14], block[15], block[16]>>
      /\ R = <<R[1], R[2], R[3], R[4]>>
    BY <1>2
<1>4. /\ R[1] \in Words /\ R[2] \in Words /\ R[3] \in Words
      /\ R[4] \in Words
    BY <1>1, <1>3 DEF Words
<1>5. R \in States
    BY <1>3, <1>4 DEF States
<1>6. \A i \in 1..16 : R[(i + 3) \div 4][1 + ((i + 3) % 4)] = block[i]
  <2> SUFFICES ASSUME NEW i \in 1..16
               PROVE  R[(i + 3) \div 4][1 + ((i + 3) % 4)] = block[i]
      OBVIOUS
  <2>1. i \in {1, 2, 3, 4}
        \/ i \in {5, 6, 7, 8}
        \/ i \in {9, 10, 11, 12}
        \/ i \in {13, 14, 15, 16}
      OBVIOUS
  <2>2. CASE i \in {1, 2, 3, 4}
      BY <1>3, <2>2
  <2>3. CASE i \in {5, 6, 7, 8}
      BY <1>3, <2>3
  <2>4. CASE i \in {9, 10, 11, 12}
      BY <1>3, <2>4
  <2>5. CASE i \in {13, 14, 15, 16}
      BY <1>3, <2>5
  <2> QED
      BY <2>1, <2>2, <2>3, <2>4, <2>5
<1>7. Joined(R) = block
  <2>1. block = [i \in 1..16 |-> block[i]]
      BY DEF Sixteen
  <2> QED
      BY <1>6, <2>1 DEF Joined
<1> QED
    BY <1>5, <1>7 DEF R

\* Four words join to a block, which splits into them.
LEMMA JoinedIs ==
    ASSUME NEW R \in States
    PROVE  Joined(R) \in Sixteen /\ Split(Joined(R)) = R
<1> DEFINE b == Joined(R)
<1>1. /\ R[1] \in Words /\ R[2] \in Words /\ R[3] \in Words
      /\ R[4] \in Words /\ R = <<R[1], R[2], R[3], R[4]>>
    BY DEF States
<1>2. \A j, c \in 1..4 : R[j][c] \in Bytes
  <2>1. \A j \in 1..4 : R[j] \in Words
      BY <1>1
  <2> QED
      BY <2>1, WordIs
<1>3. \A i \in 1..16 : (i + 3) \div 4 \in 1..4 /\ 1 + ((i + 3) % 4) \in 1..4
    OBVIOUS
<1>4. b \in Sixteen
    BY <1>2, <1>3 DEF Joined, Sixteen
<1>5. \A i \in 1..16 : b[i] = R[(i + 3) \div 4][1 + ((i + 3) % 4)]
    BY DEF Joined
<1> HIDE DEF b
<1>6. Len(b) = 16
    BY <1>4 DEF Sixteen
<1>7. Split(b) = <<<<b[1], b[2], b[3], b[4]>>, <<b[5], b[6], b[7], b[8]>>,
                   <<b[9], b[10], b[11], b[12]>>,
                   <<b[13], b[14], b[15], b[16]>>>>
    BY <1>6 DEF Split
<1>8. <<b[1], b[2], b[3], b[4]>> = R[1]
  <2>1. b[1] = R[1][1] /\ b[2] = R[1][2] /\ b[3] = R[1][3] /\ b[4] = R[1][4]
      BY <1>5
  <2> QED
      BY <1>1, <2>1, WordIs
<1>9. <<b[5], b[6], b[7], b[8]>> = R[2]
  <2>1. b[5] = R[2][1] /\ b[6] = R[2][2] /\ b[7] = R[2][3] /\ b[8] = R[2][4]
      BY <1>5
  <2> QED
      BY <1>1, <2>1, WordIs
<1>10. <<b[9], b[10], b[11], b[12]>> = R[3]
  <2>1. /\ b[9] = R[3][1] /\ b[10] = R[3][2] /\ b[11] = R[3][3]
        /\ b[12] = R[3][4]
      BY <1>5
  <2> QED
      BY <1>1, <2>1, WordIs
<1>11. <<b[13], b[14], b[15], b[16]>> = R[4]
  <2>1. /\ b[13] = R[4][1] /\ b[14] = R[4][2] /\ b[15] = R[4][3]
        /\ b[16] = R[4][4]
      BY <1>5
  <2> QED
      BY <1>1, <2>1, WordIs
<1> QED
    BY <1>1, <1>4, <1>7, <1>8, <1>9, <1>10, <1>11 DEF b

\* Whatever the key and the block, what encrypt makes of a block decrypt makes
\* into the block again.
THEOREM BlockUndone ==
    ASSUME NEW key \in Seq(Bytes), Len(key) \in {8, 16, 24, 32},
           NEW block \in Sixteen
    PROVE  /\ Encrypt(Schedule(key), block) \in Sixteen
           /\ Decrypt(Schedule(key), Encrypt(Schedule(key), block)) = block
<1> DEFINE tf == Schedule(key)
           X == Whitened(Split(block), tf, 0)
           Y == Swapped(Encipher(X, tf))
           Z == Whitened(Y, tf, 4)
<1>1. Keyed(tf)
    BY ScheduleIsKeyed
<1>2. /\ Encrypt(tf, block) = Joined(Z)
      /\ \A c : Decrypt(tf, c) =
             Joined(Whitened(Swapped(Decipher(Whitened(Split(c), tf, 4), tf)),
                             tf, 0))
    BY DEF Encrypt, Decrypt
<1> HIDE DEF tf
<1>3. X \in States /\ Whitened(X, tf, 0) = Split(block)
    BY <1>1, SplitIs, WhitenedTwice
<1> HIDE DEF X
<1>4. Y \in States /\ Decipher(Y, tf) = Swapped(X)
    BY <1>1, <1>3, DecipherIs, SwappedTwice
<1> HIDE DEF Y
<1>5. Z \in States /\ Whitened(Z, tf, 4) = Y
    BY <1>1, <1>4, WhitenedTwice
<1> HIDE DEF Z
<1>6. Joined(Z) \in Sixteen /\ Split(Joined(Z)) = Z
    BY <1>5, JoinedIs
<1>7. Decrypt(tf, Joined(Z)) = Joined(Whitened(Swapped(Swapped(X)), tf, 0))
    BY <1>2, <1>4, <1>5, <1>6
<1>8. Decrypt(tf, Joined(Z)) = block
    BY <1>3, <1>7, SplitIs, SwappedTwice
<1> QED
    BY <1>2, <1>6, <1>8 DEF tf

-----------------------------------------------------------------------------
(***************************************************************************)
(* Padding, and texts of many blocks.                                      *)
(***************************************************************************)

\* Reading and Twofish mean the same by a byte.
LEMMA ByteIsBytes == Byte = Bytes
BY DEF Byte, Bytes

\* Padding fills up the last block, and comes off again.
LEMMA PadIs ==
    ASSUME NEW s \in Seq(Byte)
    PROVE  /\ Pad(s) \in Seq(Byte) /\ Pad(s) # <<>>
           /\ Len(Pad(s)) % 16 = 0
           /\ Padded(Pad(s)) /\ Unpad(Pad(s)) = s
<1> DEFINE n == 16 - (Len(s) % 16)
           t == [i \in 1..n |-> n]
           p == s \o t
           m == Len(s)
<1>1. m \in Nat /\ n \in 1..16 /\ n \in Byte /\ (m + n) % 16 = 0
  <2>1. m \in Nat
      BY LenProperties
  <2> HIDE DEF m
  <2>2. n = 16 - (m % 16)
      BY DEF m
  <2> HIDE DEF n
  <2>3. m % 16 \in 0..15
      BY <2>1
  <2>4. n \in 1..16
      BY <2>2, <2>3
  <2>5. (m + n) % 16 = 0
      BY <2>1, <2>2
  <2>6. n \in Byte
      BY <2>4 DEF Byte
  <2> QED
      BY <2>1, <2>4, <2>5, <2>6
<1>2. Pad(s) = p
    BY DEF Pad
<1> HIDE DEF n
<1>3. t \in Seq(Byte) /\ Len(t) = n /\ \A i \in 1..n : t[i] = n
    BY <1>1
<1> HIDE DEF t, m
<1>4. /\ p \in Seq(Byte) /\ Len(p) = m + n
      /\ \A i \in 1..(m + n) : p[i] = IF i <= m THEN s[i] ELSE t[i - m]
  <2>1. /\ p \in Seq(Byte) /\ Len(p) = Len(s) + Len(t)
        /\ \A i \in 1..(Len(s) + Len(t)) :
               p[i] = IF i <= Len(s) THEN s[i] ELSE t[i - Len(s)]
      BY <1>3, ConcatProperties
  <2> HIDE DEF p
  <2> QED
      BY <1>3, <2>1 DEF m
<1>5. SubSeq(p, 1, m) = s
  <2>1. m <= Len(p) /\ Len(p) \in Nat
      BY <1>1, <1>4
  <2>2. /\ SubSeq(p, 1, m) \in Seq(Byte) /\ Len(SubSeq(p, 1, m)) = m
        /\ \A i \in 1..m : SubSeq(p, 1, m)[i] = p[i]
    <3> DEFINE q == SubSeq(p, 1, m)
    <3> HIDE DEF p
    <3>1. \A i \in 1..m : p[i] \in Byte
      <4> SUFFICES ASSUME NEW i \in 1..m PROVE p[i] \in Byte
          OBVIOUS
      <4>1. i \in 1..Len(p)
          BY <1>1, <1>4
      <4> QED
          BY <1>4, <4>1, ElementOfSeq
    <3>2. /\ q \in Seq(Byte) /\ Len(q) = IF 1 <= m THEN m - 1 + 1 ELSE 0
          /\ \A i \in 1..(m - 1 + 1) : q[i] = p[1 + i - 1]
        BY <1>1, <3>1, SubSeqProperties
    <3> HIDE DEF q
    <3>3. q \in Seq(Byte) /\ Len(q) = m /\ \A i \in 1..m : q[i] = p[i]
        BY <1>1, <3>2
    <3> QED
        BY <3>3 DEF q
  <2>3. \A i \in 1..m : p[i] = s[i]
    <3> SUFFICES ASSUME NEW i \in 1..m PROVE p[i] = s[i]
        OBVIOUS
    <3> HIDE DEF p
    <3>1. i \in 1..(m + n) /\ i <= m
        BY <1>1
    <3> QED
        BY <1>4, <3>1
  <2> DEFINE q == SubSeq(p, 1, m)
  <2> HIDE DEF q, p
  <2>4. q = s
    <3>1. q \in Seq(Byte) /\ Len(q) = Len(s) /\ \A i \in 1..Len(q) : q[i] = s[i]
        BY <1>1, <2>2, <2>3 DEF q, m
    <3> QED
        BY <3>1, SeqEqual
  <2> QED
      BY <2>4 DEF q
<1> HIDE DEF p
<1>6. \A i \in (m + 1)..(m + n) : p[i] = n
    BY <1>1, <1>3, <1>4
<1>7. Last(p) = n
    BY <1>1, <1>4, <1>6 DEF Last
<1>8. Padded(p)
    BY <1>1, <1>4, <1>6, <1>7 DEF Padded
<1>9. Unpad(p) = s
  <2>1. (m + n) - n = m
      BY <1>1
  <2> QED
      BY <1>4, <1>5, <1>7, <2>1 DEF Unpad
<1>10. p # <<>>
    BY <1>1, <1>4, EmptySeq
<1> QED
    BY <1>1, <1>2, <1>4, <1>8, <1>9, <1>10

\* The blocks of a text of whole blocks.
LEMMA BlockIs ==
    ASSUME NEW n \in Nat, NEW s \in Seq(Byte), Len(s) = 16 * n, NEW b \in 1..n
    PROVE  /\ Block(s, b) \in Sixteen
           /\ \A i \in 1..16 : Block(s, b)[i] = s[16 * b - 16 + i]
<1> DEFINE lo == 16 * b - 15
           hi == 16 * b
<1>1. /\ lo \in Int /\ hi \in Int /\ hi <= Len(s) /\ lo <= hi
      /\ hi - lo + 1 = 16 /\ 1 <= lo
    OBVIOUS
<1>2. Block(s, b) = SubSeq(s, lo, hi)
    BY <1>1 DEF Block
<1>3. \A i \in lo..hi : s[i] \in Byte
    BY <1>1, ElementOfSeq
<1>4. /\ SubSeq(s, lo, hi) \in Seq(Byte)
      /\ Len(SubSeq(s, lo, hi)) = 16
      /\ \A i \in 1..16 : SubSeq(s, lo, hi)[i] = s[lo + i - 1]
  <2> HIDE DEF lo, hi
  <2>1. /\ SubSeq(s, lo, hi) \in Seq(Byte)
        /\ Len(SubSeq(s, lo, hi)) = hi - lo + 1
        /\ \A i \in 1..(hi - lo + 1) : SubSeq(s, lo, hi)[i] = s[lo + i - 1]
      BY <1>1, <1>3, SubSeqProperties
  <2> QED
      BY <1>1, <2>1
<1>5. \A i \in 1..16 : lo + i - 1 = 16 * b - 16 + i
    OBVIOUS
<1>6. \A t \in Seq(Byte) : Len(t) = 16 => t \in Sixteen
  <2> SUFFICES ASSUME NEW t \in Seq(Byte), Len(t) = 16 PROVE t \in Sixteen
      OBVIOUS
  <2>1. t \in [1..Len(t) -> Byte]
      BY LenProperties
  <2> QED
      BY <2>1 DEF Sixteen, Byte, Bytes
<1> HIDE DEF lo, hi
<1> QED
    BY <1>2, <1>4, <1>5, <1>6

\* The text that blocks make.
LEMMA FlatIs ==
    ASSUME NEW n \in Nat, NEW blocks \in [1..n -> Sixteen]
    PROVE  /\ Flat(n, blocks) \in Seq(Byte)
           /\ Len(Flat(n, blocks)) = 16 * n
           /\ \A b \in 1..n, i \in 1..16 :
                  Flat(n, blocks)[16 * b - 16 + i] = blocks[b][i]
<1> DEFINE f == [i \in 1..(16 * n) |->
                    blocks[(i + 15) \div 16][1 + ((i + 15) % 16)]]
<1>1. List(n, blocks) = blocks
    BY ListIs
<1>2. f \in [1..(16 * n) -> Byte]
  <2> SUFFICES ASSUME NEW i \in 1..(16 * n)
               PROVE  blocks[(i + 15) \div 16][1 + ((i + 15) % 16)] \in Byte
      OBVIOUS
  <2>1. (i + 15) \div 16 \in 1..n /\ 1 + ((i + 15) % 16) \in 1..16
      OBVIOUS
  <2>2. blocks[(i + 15) \div 16] \in Sixteen
      BY <2>1
  <2> QED
      BY <2>1, <2>2 DEF Sixteen, Byte, Bytes
<1>3. 16 * n \in Nat
    OBVIOUS
<1>4. \A b \in 1..n, i \in 1..16 : f[16 * b - 16 + i] = blocks[b][i]
  <2> SUFFICES ASSUME NEW b \in 1..n, NEW i \in 1..16
               PROVE  f[16 * b - 16 + i] = blocks[b][i]
      OBVIOUS
  <2> DEFINE j == 16 * b - 16 + i
  <2>1. /\ j \in 1..(16 * n) /\ (j + 15) \div 16 = b
        /\ 1 + ((j + 15) % 16) = i
      OBVIOUS
  <2> HIDE DEF j
  <2>2. f[j] = blocks[b][i]
      BY <2>1
  <2> QED
      BY <2>2 DEF j
<1>5. Flat(n, blocks) = List(16 * n, f)
    BY <1>1 DEF Flat
<1> HIDE DEF f
<1>6. Flat(n, blocks) = f
    BY <1>2, <1>3, <1>5, ListIs
<1>7. f \in Seq(Byte) /\ Len(f) = 16 * n
    BY <1>2, <1>3
<1> QED
    BY <1>4, <1>6, <1>7

\* A key is 32 bytes, one of the sizes Twofish takes.
LEMMA SailKeyIs ==
    ASSUME NEW method \in Seq(Byte), NEW transId \in Nat
    PROVE  SailKey(method, transId) \in Seq(Byte)
           /\ Len(SailKey(method, transId)) = 32
<1> DEFINE seed == (transId + 7 * Len(method)
                         + IF method = <<>> THEN 0 ELSE Head(method)) % 1024
<1>1. (IF method = <<>> THEN 0 ELSE Head(method)) \in Nat
  <2>1. method # <<>> => Head(method) \in Byte
      BY HeadTailProperties
  <2>2. CASE method = <<>>
      BY <2>2
  <2>3. CASE method # <<>>
    <3>1. (IF method = <<>> THEN 0 ELSE Head(method)) = Head(method)
        BY <2>3, Zenon
    <3>2. \A h \in Byte : h \in Nat
        BY DEF Byte
    <3> QED
        BY <2>1, <2>3, <3>1, <3>2, Zenon
  <2> QED
      BY <2>2, <2>3
<1>2. seed \in Nat
  <2>1. Len(method) \in Nat
      BY LenProperties
  <2> QED
      BY <1>1, <2>1
<1>3. SailKey(method, transId) = [i \in 1..32 |-> 48 + ((seed * i) % 10)]
    BY DEF SailKey
<1> HIDE DEF seed
<1>4. \A i \in 1..32 : 48 + ((seed * i) % 10) \in Byte
  <2> SUFFICES ASSUME NEW i \in 1..32 PROVE 48 + ((seed * i) % 10) \in Byte
      OBVIOUS
  <2>1. seed * i \in Nat
      BY <1>2
  <2> DEFINE a == seed * i
  <2> HIDE DEF a
  <2>2. a \in Nat => 48 + (a % 10) \in Byte
      BY DEF Byte
  <2> QED
      BY <2>1, <2>2 DEF a
<1> QED
    BY <1>3, <1>4

\* What is enciphered is whole blocks, and deciphers to the padded text.
THEOREM EcbUndone ==
    ASSUME NEW key \in Seq(Byte), Len(key) = 32, NEW s \in Seq(Byte)
    PROVE  /\ BlockEncrypt(s, key) \in Seq(Byte)
           /\ BlockEncrypt(s, key) # <<>>
           /\ BlockDecrypt(BlockEncrypt(s, key), key) = Pad(s)
<1> DEFINE tf == Schedule(key)
           padded == Pad(s)
           n == Len(padded) \div 16
           on == [b \in 1..n |-> Encrypt(tf, Block(padded, b))]
           c == Flat(n, on)
<1>1. /\ padded \in Seq(Byte) /\ padded # <<>> /\ Len(padded) % 16 = 0
    BY PadIs
<1>2. BlockEncrypt(s, key) = c
    BY DEF BlockEncrypt
<1> HIDE DEF tf, padded
<1>3. n \in Nat /\ Len(padded) = 16 * n /\ n # 0
  <2>1. Len(padded) \in Nat /\ Len(padded) # 0
      BY <1>1, LenProperties, EmptySeq
  <2> DEFINE m == Len(padded)
  <2> HIDE DEF m
  <2>2. m \in Nat /\ m # 0 /\ m % 16 = 0
      BY <1>1, <2>1 DEF m
  <2>3. m \div 16 \in Nat /\ m = 16 * (m \div 16) /\ m \div 16 # 0
      BY <2>2
  <2> QED
      BY <2>3 DEF m
<1> HIDE DEF n
<1>4. \A t \in Sixteen : /\ Encrypt(tf, t) \in Sixteen
                         /\ Decrypt(tf, Encrypt(tf, t)) = t
  <2>1. key \in Seq(Bytes) /\ Len(key) \in {8, 16, 24, 32}
      BY ByteIsBytes
  <2> QED
      BY <2>1, BlockUndone DEF tf
<1>5. \A b \in 1..n : /\ Block(padded, b) \in Sixteen
                      /\ \A i \in 1..16 :
                             Block(padded, b)[i] = padded[16 * b - 16 + i]
    BY <1>1, <1>3, BlockIs
<1>6. on \in [1..n -> Sixteen]
    BY <1>4, <1>5
<1>7. /\ c \in Seq(Byte) /\ Len(c) = 16 * n
      /\ \A b \in 1..n, i \in 1..16 : c[16 * b - 16 + i] = on[b][i]
  <2> HIDE DEF on
  <2> QED
      BY <1>3, <1>6, FlatIs
<1> DEFINE back == [b \in 1..n |-> Decrypt(tf, Block(c, b))]
<1> HIDE DEF c
<1>8. \A b \in 1..n : Block(c, b) = on[b]
  <2> SUFFICES ASSUME NEW b \in 1..n PROVE Block(c, b) = on[b]
      OBVIOUS
  <2>1. /\ Block(c, b) \in Sixteen
        /\ \A i \in 1..16 : Block(c, b)[i] = c[16 * b - 16 + i]
      BY <1>3, <1>7, BlockIs
  <2>2. on[b] \in Sixteen
      BY <1>6
  <2> HIDE DEF on
  <2>3. \A i \in 1..16 : Block(c, b)[i] = on[b][i]
      BY <1>7, <2>1
  <2>4. \A t \in Sixteen : t = [i \in 1..16 |-> t[i]]
      BY DEF Sixteen
  <2> QED
      BY <2>1, <2>2, <2>3, <2>4
<1>9. \A b \in 1..n : back[b] = Block(padded, b)
    BY <1>4, <1>5, <1>8
<1>10. back \in [1..n -> Sixteen]
    BY <1>5, <1>9
<1>11. BlockDecrypt(c, key) = Flat(n, back)
  <2>1. (Len(c) + 15) \div 16 = n
      BY <1>3, <1>7
  <2> QED
      BY <2>1 DEF BlockDecrypt, tf
<1> HIDE DEF on, back
<1>12. /\ Flat(n, back) \in Seq(Byte) /\ Len(Flat(n, back)) = 16 * n
       /\ \A b \in 1..n, i \in 1..16 :
              Flat(n, back)[16 * b - 16 + i] = back[b][i]
    BY <1>3, <1>10, FlatIs
<1>13. Flat(n, back) = padded
  <2> DEFINE f == Flat(n, back)
  <2> HIDE DEF f
  <2>1. /\ f \in Seq(Byte) /\ Len(f) = 16 * n
        /\ \A b \in 1..n, i \in 1..16 : f[16 * b - 16 + i] = back[b][i]
      BY <1>12 DEF f
  <2>2. ASSUME NEW j \in 1..(16 * n) PROVE f[j] = padded[j]
    <3> DEFINE b == (j + 15) \div 16
               i == 1 + ((j + 15) % 16)
    <3>1. b \in 1..n /\ i \in 1..16 /\ 16 * b - 16 + i = j
        BY <1>3
    <3> HIDE DEF b, i
    <3>2. f[16 * b - 16 + i] = back[b][i]
        BY <2>1, <3>1
    <3>3. back[b][i] = padded[16 * b - 16 + i]
        BY <1>5, <1>9, <3>1
    <3> QED
        BY <3>1, <3>2, <3>3
  <2>3. f = padded
      BY <1>1, <1>3, <2>1, <2>2, SeqEqual
  <2> QED
      BY <2>3 DEF f
<1>14. c # <<>>
    BY <1>3, <1>7, EmptySeq
<1> QED
    BY <1>2, <1>7, <1>11, <1>13, <1>14 DEF padded

-----------------------------------------------------------------------------
(***************************************************************************)
(* Varints.                                                                *)
(***************************************************************************)

\* The bytes of a number exist: each number depends on a smaller one.
LEMMA UvDefined ==
    \A n \in Nat : Uv[n] = IF n < 128 THEN <<n>>
                           ELSE <<128 + (n % 128)>> \o Uv[n \div 128]
<1> DEFINE T == Seq(Int)
           mu == [n \in Nat |-> n]
           more(n, s) == <<128 + (n % 128)>> \o s
           body(n, f) == IF n < 128 THEN <<n>> ELSE more(n, f[n \div 128])
           G == [a \in Nat \X [Nat -> T] |-> body(a[1], a[2])]
           Loop(f) == f = [n \in Nat |-> IF n < 128 THEN <<n>>
                              ELSE <<128 + (n % 128)>> \o f[n \div 128]]
<1>1. \A n \in Nat : n \div 128 \in Nat /\ (n >= 128 => n \div 128 < n)
    OBVIOUS
<1>2. \A n \in Nat, s \in T : <<n>> \in T /\ more(n, s) \in T
  <2> SUFFICES ASSUME NEW n \in Nat, NEW s \in T
               PROVE  <<n>> \in T /\ more(n, s) \in T
      OBVIOUS
  <2>1. <<n>> \in Seq(Int) /\ <<128 + (n % 128)>> \in Seq(Int)
      OBVIOUS
  <2> QED
      BY <2>1, ConcatProperties
<1>3. Depends(Nat, T, mu, G)
  <2>1. mu \in [Nat -> Nat]
      OBVIOUS
  <2>2. \A n \in Nat, f \in [Nat -> T] : body(n, f) \in T
    <3> HIDE DEF T, more
    <3> QED
        BY <1>1, <1>2
  <2> HIDE DEF body, T
  <2>3. /\ G \in [Nat \X [Nat -> T] -> T]
        /\ \A n \in Nat, f \in [Nat -> T] : G[<<n, f>>] = body(n, f)
      BY <2>2
  <2>4. ASSUME NEW n \in Nat, NEW f \in [Nat -> T], NEW g \in [Nat -> T],
               \A m \in Nat : mu[m] < mu[n] => f[m] = g[m]
        PROVE  G[<<n, f>>] = G[<<n, g>>]
    <3>1. G[<<n, f>>] = body(n, f) /\ G[<<n, g>>] = body(n, g)
        BY <2>3
    <3>2. n >= 128 => f[n \div 128] = g[n \div 128]
        BY <1>1, <2>4
    <3> HIDE DEF G, more
    <3> QED
        BY <3>1, <3>2 DEF body
  <2> HIDE DEF G, mu
  <2> QED
      BY <2>1, <2>3, <2>4 DEF Depends
<1>4. PICK f : Solves(f, Nat, T, G)
  <2>1. T # {}
      BY EmptySeq
  <2> HIDE DEF T, mu, G
  <2> QED
      BY <1>3, <2>1, RecursionByMeasure
<1>5. f \in [Nat -> T] /\ \A n \in Nat : f[n] = body(n, f)
  <2> HIDE DEF T, body
  <2> QED
      BY <1>4 DEF Solves
<1>6. Loop(f)
  <2> HIDE DEF T
  <2> QED
      BY <1>5
<1>7. Loop(CHOOSE g : Loop(g))
    BY <1>6, Zenon
<1>8. Uv = CHOOSE g : Loop(g)
    BY Zenon DEF Uv, Loop
<1>9. Loop(Uv)
  <2> HIDE DEF Loop
  <2> QED
      BY <1>7, <1>8
<1>10. Uv = [n \in Nat |-> IF n < 128 THEN <<n>>
                           ELSE <<128 + (n % 128)>> \o Uv[n \div 128]]
    BY <1>9, Zenon
<1> QED
    BY <1>10, Zenon

\* All its bytes but the last are 128 or more.
Varint(s) == /\ s \in Seq(Byte) /\ Len(s) >= 1
             /\ \A t \in 1..Len(s) : s[t] >= 128 <=> t < Len(s)

\* What comes before a varint, and what goes on with one byte.
LEMMA ByteBefore ==
    ASSUME NEW x \in Byte, NEW s \in Seq(Byte)
    PROVE  /\ <<x>> \o s \in Seq(Byte) /\ Len(<<x>> \o s) = 1 + Len(s)
           /\ (<<x>> \o s)[1] = x
           /\ \A t \in 1..Len(s) : (<<x>> \o s)[t + 1] = s[t]
<1> DEFINE one == <<x>>
           p == one \o s
<1>1. one \in Seq(Byte) /\ Len(one) = 1 /\ one[1] = x
    OBVIOUS
<1>2. Len(s) \in Nat
    BY LenProperties
<1>3. /\ p \in Seq(Byte) /\ Len(p) = Len(one) + Len(s)
      /\ \A i \in 1..(Len(one) + Len(s)) :
             p[i] = IF i <= Len(one) THEN one[i] ELSE s[i - Len(one)]
    BY <1>1, ConcatProperties
<1> HIDE DEF one
<1>4. /\ p \in Seq(Byte) /\ Len(p) = 1 + Len(s)
      /\ \A i \in 1..(1 + Len(s)) : p[i] = IF i <= 1 THEN x ELSE s[i - 1]
  <2> HIDE DEF p
  <2>1. \A i \in 1..(1 + Len(s)) : i <= 1 => one[i] = x
      BY <1>1
  <2> QED
      BY <1>1, <1>2, <1>3, <2>1
<1> HIDE DEF p
<1>5. p[1] = x /\ \A t \in 1..Len(s) : p[t + 1] = s[t]
  <2>1. 1 \in 1..(1 + Len(s))
      BY <1>2
  <2>2. ASSUME NEW t \in 1..Len(s) PROVE p[t + 1] = s[t]
    <3>1. t + 1 \in 1..(1 + Len(s)) /\ ~(t + 1 <= 1) /\ (t + 1) - 1 = t
        BY <1>2
    <3> QED
        BY <1>4, <3>1
  <2> QED
      BY <1>4, <2>1, <2>2
<1> QED
    BY <1>4, <1>5 DEF p, one

\* _uv writes a varint.
LEMMA UvIsVarint == \A n \in Nat : Varint(Uv[n])
<1> DEFINE Good == {n \in Nat : Varint(Uv[n])}
<1>1. ASSUME NEW n \in Nat, \A m \in Nat : m < n => m \in Good
      PROVE  n \in Good
  <2>1. CASE n < 128
    <3>1. Uv[n] = <<n>>
        BY <2>1, UvDefined
    <3>2. n \in Byte
        BY <2>1 DEF Byte
    <3> DEFINE s == <<n>>
    <3>3. s \in Seq(Byte) /\ Len(s) = 1 /\ s[1] = n
        BY <3>2
    <3> HIDE DEF s
    <3>4. Varint(s)
        BY <2>1, <3>3 DEF Varint
    <3> QED
        BY <3>1, <3>4 DEF s
  <2>2. CASE n >= 128
    <3> DEFINE m == n \div 128
               x == 128 + (n % 128)
               s == Uv[m]
               p == <<x>> \o s
    <3>1. m \in Nat /\ m < n /\ x \in Byte /\ x >= 128
        BY <2>2 DEF Byte
    <3>2. Uv[n] = p
      <4>1. ~(n < 128)
          BY <2>2
      <4> QED
          BY <4>1, UvDefined, Zenon
    <3>3. Varint(s)
        BY <1>1, <3>1
    <3> HIDE DEF m, x, s
    <3>4. /\ s \in Seq(Byte) /\ Len(s) \in Nat /\ Len(s) >= 1
          /\ \A t \in 1..Len(s) : s[t] >= 128 <=> t < Len(s)
        BY <3>3, LenProperties DEF Varint
    <3>5. /\ p \in Seq(Byte) /\ Len(p) = 1 + Len(s) /\ p[1] = x
          /\ \A t \in 1..Len(s) : p[t + 1] = s[t]
        BY <3>1, <3>4, ByteBefore
    <3> HIDE DEF p
    <3>6. ASSUME NEW t \in 1..Len(p)
          PROVE  p[t] >= 128 <=> t < Len(p)
      <4>1. CASE t = 1
          BY <3>1, <3>4, <3>5, <4>1
      <4>2. CASE t # 1
        <5>1. t - 1 \in 1..Len(s) /\ (t - 1) + 1 = t
            BY <3>4, <3>5, <4>2
        <5>2. p[t] = s[t - 1]
            BY <3>5, <5>1
        <5>3. s[t - 1] >= 128 <=> t - 1 < Len(s)
            BY <3>4, <5>1
        <5>4. t - 1 < Len(s) <=> t < Len(p)
            BY <3>4, <3>5
        <5> QED
            BY <5>2, <5>3, <5>4
      <4> QED
          BY <4>1, <4>2
    <3>7. Varint(p)
        BY <3>4, <3>5, <3>6 DEF Varint
    <3> QED
        BY <3>2, <3>7
  <2> QED
      BY <2>1, <2>2
<1> HIDE DEF Good
<1>2. Nat \subseteq Good
    BY <1>1, AllNumbers
<1> QED
    BY <1>2 DEF Good

\* b has s from k on, as far as b goes.
At(b, k, s) ==
    \A t \in 1..Len(s) : k - 1 + t <= Len(b) => b[k - 1 + t] = s[t]

\* The least of a set of numbers.
LEMMA MinIs ==
    ASSUME NEW D \in SUBSET Int, NEW x \in D, \A y \in D : x <= y
    PROVE  Min(D) = x
<1>1. \A y \in D : y = x \/ ~(\A z \in D : y <= z)
    OBVIOUS
<1> QED
    BY <1>1 DEF Min

\* A varint is found whole, or not at all.
LEMMA EndOfVarint ==
    ASSUME NEW b \in Seq(Byte), NEW k \in Nat \ {0}, NEW s, Varint(s),
           At(b, k, s)
    PROVE  EndOf(b, k) = IF k - 1 + Len(s) <= Len(b) THEN k - 1 + Len(s) ELSE 0
<1> DEFINE ends == {j \in k..Len(b) : b[j] < 128}
           e == k - 1 + Len(s)
<1>1. Len(b) \in Nat /\ Len(s) \in Nat /\ Len(s) >= 1 /\ s \in Seq(Byte)
    BY LenProperties DEF Varint
<1>2. \A t \in 1..Len(s) : s[t] \in Byte /\ (s[t] >= 128 <=> t < Len(s))
    BY <1>1, ElementOfSeq DEF Varint
<1>3. ASSUME NEW j \in k..Len(b), j <= e
      PROVE  b[j] < 128 <=> j = e
  <2> DEFINE t == j - k + 1
  <2>1. t \in 1..Len(s) /\ k - 1 + t = j /\ j <= Len(b)
      BY <1>1, <1>3
  <2>2. t < Len(s) <=> j < e
      BY <1>1
  <2> HIDE DEF t
  <2>3. b[j] = s[t]
      BY <2>1 DEF At
  <2>4. b[j] \in Int
    <3>1. s[t] \in Byte
        BY <1>2, <2>1
    <3> QED
        BY <2>3, <3>1 DEF Byte
  <2>5. b[j] >= 128 <=> j < e
      BY <1>2, <2>1, <2>2, <2>3
  <2> QED
      BY <1>1, <1>3, <2>4, <2>5
<1>4. EndOf(b, k) = IF ends = {} THEN 0 ELSE Min(ends)
    BY DEF EndOf
<1>5. CASE e <= Len(b)
  <2>1. e \in ends
      BY <1>1, <1>3, <1>5
  <2>2. \A j \in ends : e <= j
      BY <1>1, <1>3
  <2>3. ends \in SUBSET Int
      BY <1>1
  <2>4. Min(ends) = e
    <3> HIDE DEF ends, e
    <3> QED
        BY <2>1, <2>2, <2>3, MinIs
  <2> HIDE DEF ends
  <2> QED
      BY <1>4, <1>5, <2>1, <2>4
<1>6. CASE ~(e <= Len(b))
  <2>1. ends = {}
      BY <1>1, <1>3, <1>6
  <2> HIDE DEF ends
  <2> QED
      BY <1>4, <1>6, <2>1
<1> QED
    BY <1>5, <1>6

\* The value of a varint exists: each byte adds to what the ones after it make.
LEMMA RvDefined ==
    ASSUME NEW b \in Seq(Byte), NEW i \in Nat \ {0}, NEW j \in i..Len(b)
    PROVE  \E value \in [i..(j + 1) -> Nat] :
               /\ value[j + 1] = 0
               /\ \A k \in i..j : value[k] = (b[k] % 128) + 128 * value[k + 1]
               /\ Rv(b, i, j) = value[i]
<1> DEFINE D == i..(j + 1)
           mu == [k \in D |-> j + 1 - k]
           more(k, v) == (b[k] % 128) + 128 * v
           body(k, f) == IF k = j + 1 THEN 0 ELSE more(k, f[k + 1])
           G == [a \in D \X [D -> Nat] |-> body(a[1], a[2])]
           Loop(f) == f = [k \in D |-> IF k = j + 1 THEN 0
                               ELSE (b[k] % 128) + 128 * f[k + 1]]
           Y == CHOOSE f : Loop(f)
<1>1. /\ i \in Nat /\ i >= 1 /\ j \in Nat /\ i <= j
      /\ Len(b) \in Nat /\ j <= Len(b)
    BY LenProperties
<1>2. ASSUME NEW k \in i..j, NEW v \in Nat PROVE more(k, v) \in Nat
  <2>1. b[k] \in Byte
    <3>1. k \in 1..Len(b)
        BY <1>1
    <3> QED
        BY <3>1, ElementOfSeq
  <2>2. \A x \in Byte : (x % 128) + 128 * v \in Nat
      BY DEF Byte
  <2> QED
      BY <2>1, <2>2
<1>3. Depends(D, Nat, mu, G)
  <2>1. mu \in [D -> Nat]
      BY <1>1
  <2>2. \A k \in D, f \in [D -> Nat] : body(k, f) \in Nat
    <3> SUFFICES ASSUME NEW k \in D, NEW f \in [D -> Nat]
                 PROVE  body(k, f) \in Nat
        OBVIOUS
    <3>1. CASE k = j + 1
        BY <3>1
    <3>2. CASE k # j + 1
      <4>1. k \in i..j /\ k + 1 \in D
          BY <1>1, <3>2
      <4>2. f[k + 1] \in Nat
          BY <4>1
      <4>3. more(k, f[k + 1]) \in Nat
          BY <1>2, <4>1, <4>2
      <4> QED
          BY <3>2, <4>3
    <3> QED
        BY <3>1, <3>2
  <2> HIDE DEF body, D
  <2>3. /\ G \in [D \X [D -> Nat] -> Nat]
        /\ \A k \in D, f \in [D -> Nat] : G[<<k, f>>] = body(k, f)
      BY <2>2
  <2>4. ASSUME NEW k \in D, NEW f \in [D -> Nat], NEW g \in [D -> Nat],
               \A m \in D : mu[m] < mu[k] => f[m] = g[m]
        PROVE  G[<<k, f>>] = G[<<k, g>>]
    <3>1. G[<<k, f>>] = body(k, f) /\ G[<<k, g>>] = body(k, g)
        BY <2>3
    <3>2. k # j + 1 => f[k + 1] = g[k + 1]
      <4>1. k # j + 1 => k + 1 \in D /\ j + 1 - (k + 1) < j + 1 - k
          BY <1>1 DEF D
      <4> QED
          BY <2>4, <4>1
    <3> HIDE DEF G, more
    <3> QED
        BY <3>1, <3>2 DEF body
  <2> HIDE DEF G, mu
  <2> QED
      BY <2>1, <2>3, <2>4 DEF Depends
<1>4. PICK f : Solves(f, D, Nat, G)
  <2>1. Nat # {}
      OBVIOUS
  <2> HIDE DEF D, mu, G
  <2> QED
      BY <1>3, <2>1, RecursionByMeasure
<1>5. f \in [D -> Nat] /\ \A k \in D : f[k] = body(k, f)
  <2> HIDE DEF D, body
  <2> QED
      BY <1>4 DEF Solves
<1>6. Loop(f)
  <2> HIDE DEF D
  <2> QED
      BY <1>5
<1>7. Loop(Y)
    BY <1>6, Zenon
<1>8. Rv(b, i, j) = Y[i]
    BY Zenon DEF Rv, Y, Loop
<1>9. Y = [k \in D |-> IF k = j + 1 THEN 0 ELSE more(k, Y[k + 1])]
  <2> HIDE DEF Y
  <2> QED
      BY <1>7
<1> HIDE DEF Y, more, Loop
<1>10. \A k \in D : Y[k] = IF k = j + 1 THEN 0 ELSE more(k, Y[k + 1])
    BY <1>9, Zenon
<1> DEFINE Typed == {d \in Nat : d <= j + 1 - i => Y[j + 1 - d] \in Nat}
<1>11. Nat \subseteq Typed
  <2>1. 0 \in Typed
    <3>1. j + 1 \in D /\ (j + 1) - 0 = j + 1
        BY <1>1
    <3> QED
        BY <1>10, <3>1
  <2>2. ASSUME NEW d \in Nat, d \in Typed PROVE d + 1 \in Typed
    <3>1. CASE d + 1 <= j + 1 - i
      <4> DEFINE k == j + 1 - (d + 1)
      <4>1. k \in i..j /\ k \in D /\ k # j + 1 /\ k + 1 = j + 1 - d
            /\ d <= j + 1 - i
          BY <1>1, <3>1
      <4>2. Y[k + 1] \in Nat
          BY <2>2, <4>1
      <4>3. Y[k] \in Nat
        <5> HIDE DEF k, D
        <5> QED
            BY <1>2, <1>10, <4>1, <4>2
      <4> QED
          BY <4>3
    <3> QED
        BY <3>1
  <2> HIDE DEF Typed
  <2> QED
      BY <2>1, <2>2, EveryNumber
<1>12. Y \in [D -> Nat]
  <2>1. ASSUME NEW k \in D PROVE Y[k] \in Nat
    <3>1. j + 1 - k \in Nat /\ j + 1 - k <= j + 1 - i /\ j + 1 - (j + 1 - k) = k
        BY <1>1
    <3> QED
        BY <1>11, <3>1
  <2> HIDE DEF D
  <2>2. Y = [k \in D |-> Y[k]]
      BY <1>9
  <2> QED
      BY <2>1, <2>2
<1>13. Y[j + 1] = 0 /\ \A k \in i..j : Y[k] = more(k, Y[k + 1])
  <2>1. j + 1 \in D /\ \A k \in i..j : k \in D /\ k # j + 1
      BY <1>1
  <2> HIDE DEF D
  <2> QED
      BY <1>10, <2>1
<1> QED
    BY <1>8, <1>12, <1>13 DEF more

\* _rv undoes _uv.
LEMMA ValueOfVarint ==
    ASSUME NEW b \in Seq(Byte), NEW k \in Nat \ {0}, NEW n \in Nat,
           At(b, k, Uv[n]), k - 1 + Len(Uv[n]) <= Len(b)
    PROVE  Rv(b, k, k - 1 + Len(Uv[n])) = n
<1> DEFINE j == k - 1 + Len(Uv[n])
<1>1. Len(b) \in Nat /\ k \in Nat /\ k >= 1
    BY LenProperties
<1>2. \A m \in Nat : Varint(Uv[m]) /\ Len(Uv[m]) \in Nat /\ Len(Uv[m]) >= 1
    BY UvIsVarint, LenProperties DEF Varint
<1>3. j \in k..Len(b)
    BY <1>1, <1>2
<1>4. PICK value \in [k..(j + 1) -> Nat] :
          /\ value[j + 1] = 0
          /\ \A i \in k..j : value[i] = (b[i] % 128) + 128 * value[i + 1]
          /\ Rv(b, k, j) = value[k]
  <2>1. \A i \in Nat \ {0} : \A e \in i..Len(b) :
            \E value \in [i..(e + 1) -> Nat] :
                /\ value[e + 1] = 0
                /\ \A l \in i..e :
                       value[l] = (b[l] % 128) + 128 * value[l + 1]
                /\ Rv(b, i, e) = value[i]
      BY RvDefined
  <2> HIDE DEF j
  <2> QED
      BY <1>3, <2>1, Zenon
<1> DEFINE Here(m, i) == /\ j = i - 1 + Len(Uv[m])
                         /\ \A t \in 1..Len(Uv[m]) : b[i - 1 + t] = Uv[m][t]
           Agreeing == {m \in Nat : \A i \in k..j : Here(m, i) => value[i] = m}
<1>5. Here(n, k)
    BY <1>1, <1>2 DEF At
<1>6. j \in Nat
    BY <1>3
<1> HIDE DEF j
<1>7. ASSUME NEW m \in Nat, \A l \in Nat : l < m => l \in Agreeing
      PROVE  m \in Agreeing
  <2> SUFFICES ASSUME NEW i \in k..j, Here(m, i) PROVE value[i] = m
      OBVIOUS
  <2> DEFINE u == Uv[m]
  <2>0. /\ j = i - 1 + Len(u)
        /\ \A t \in 1..Len(u) : b[i - 1 + t] = u[t]
      OBVIOUS
  <2>1. i \in Nat /\ i >= 1 /\ i <= j
      BY <1>1, <1>6
  <2>2. value[i] = (b[i] % 128) + 128 * value[i + 1]
      BY <1>4
  <2> HIDE DEF u
  <2>3. CASE m < 128
    <3>1. Uv[m] = <<m>>
        BY <2>3, UvDefined
    <3>2. Len(u) = 1 /\ u[1] = m
      <4>1. Len(<<m>>) = 1 /\ <<m>>[1] = m
          OBVIOUS
      <4> QED
          BY <3>1, <4>1, Zenon DEF u
    <3>3. 1 \in 1..Len(u) /\ i - 1 + 1 = i /\ i = j
        BY <1>6, <2>0, <2>1, <3>2
    <3>4. b[i] = m
        BY <2>0, <3>2, <3>3
    <3>5. value[i] = (m % 128) + 128 * 0
        BY <1>4, <2>2, <3>3, <3>4
    <3> QED
        BY <2>3, <3>5
  <2>4. CASE m >= 128
    <3> DEFINE l == m \div 128
               x == 128 + (m % 128)
               s == Uv[l]
    <3>1. l \in Nat /\ l < m /\ x \in Byte /\ x % 128 = m % 128
          /\ m = (m % 128) + 128 * l
        BY <2>4 DEF Byte
    <3>2. Uv[m] = <<x>> \o s
      <4>1. ~(m < 128)
          BY <2>4
      <4> QED
          BY <4>1, UvDefined, Zenon
    <3>3. s \in Seq(Byte) /\ Len(s) \in Nat /\ Len(s) >= 1
      <4> HIDE DEF l
      <4> QED
          BY <1>2, <3>1 DEF Varint
    <3> HIDE DEF x, l, s
    <3>4. /\ Len(u) = 1 + Len(s) /\ u[1] = x
          /\ \A t \in 1..Len(s) : u[t + 1] = s[t]
        BY <3>1, <3>2, <3>3, ByteBefore DEF u
    <3>5. b[i] = x
      <4>1. 1 \in 1..Len(u) /\ i - 1 + 1 = i
          BY <2>1, <3>3, <3>4
      <4>2. b[i - 1 + 1] = u[1]
          BY <2>0, <4>1
      <4> QED
          BY <3>4, <4>1, <4>2
    <3>6. i + 1 \in k..j
        BY <1>1, <2>0, <1>6, <2>1, <3>3, <3>4
    <3>7. \A t \in 1..Len(s) : b[i + t] = s[t]
      <4> SUFFICES ASSUME NEW t \in 1..Len(s) PROVE b[i + t] = s[t]
          OBVIOUS
      <4>1. t + 1 \in 1..Len(u)
        <5>1. Len(u) = 1 + Len(s)
            BY <3>4
        <5> QED
            BY <3>3, <5>1
      <4>3. i - 1 + (t + 1) = i + t
          BY <2>1
      <4>2. b[i - 1 + (t + 1)] = u[t + 1]
          BY <2>0, <4>1
      <4>4. u[t + 1] = s[t]
          BY <3>4
      <4> QED
          BY <4>2, <4>3, <4>4
    <3>8. Here(l, i + 1)
      <4>1. j = (i + 1) - 1 + Len(s)
          BY <1>6, <2>0, <2>1, <3>3, <3>4
      <4>2. \A t \in 1..Len(s) : (i + 1) - 1 + t = i + t
          BY <2>1
      <4> QED
          BY <3>7, <4>1, <4>2 DEF s
    <3>9. value[i + 1] = l
        BY <1>7, <3>1, <3>6, <3>8
    <3> QED
        BY <2>2, <3>1, <3>5, <3>9
  <2> QED
      BY <2>3, <2>4
<1> HIDE DEF Agreeing
<1>8. n \in Agreeing
    BY <1>7, AllNumbers
<1>9. k \in k..j
    BY <1>1, <1>3
<1>10. value[k] = n
    BY <1>5, <1>8, <1>9 DEF Agreeing
<1> QED
    BY <1>4, <1>10 DEF j

-----------------------------------------------------------------------------
(***************************************************************************)
(* Fields.                                                                 *)
(***************************************************************************)

OneField == [tag : Nat, value : ({"varint"} \X Nat)
                                \cup ({"bytes"} \X Seq(Byte))]

\* What is there of two parts, as far as the bytes go.
LEMMA AtBoth ==
    ASSUME NEW b \in Seq(Byte), NEW k \in Nat \ {0},
           NEW s \in Seq(Byte), NEW t \in Seq(Byte), At(b, k, s \o t)
    PROVE  At(b, k, s) /\ At(b, k + Len(s), t)
<1> DEFINE p == s \o t
<1>1. /\ p \in Seq(Byte) /\ Len(p) = Len(s) + Len(t)
      /\ \A i \in 1..(Len(s) + Len(t)) :
             p[i] = IF i <= Len(s) THEN s[i] ELSE t[i - Len(s)]
    BY ConcatProperties
<1>2. Len(s) \in Nat /\ Len(t) \in Nat
    BY LenProperties
<1>3. \A i \in 1..Len(p) : k - 1 + i <= Len(b) => b[k - 1 + i] = p[i]
    BY DEF At
<1> HIDE DEF p
<1>4. At(b, k, s)
  <2> SUFFICES ASSUME NEW i \in 1..Len(s), k - 1 + i <= Len(b)
               PROVE  b[k - 1 + i] = s[i]
      BY DEF At
  <2>1. i \in 1..(Len(s) + Len(t)) /\ i <= Len(s)
      BY <1>2
  <2> QED
      BY <1>1, <1>3, <2>1
<1>5. At(b, k + Len(s), t)
  <2> SUFFICES ASSUME NEW i \in 1..Len(t), k + Len(s) - 1 + i <= Len(b)
               PROVE  b[k + Len(s) - 1 + i] = t[i]
      BY DEF At
  <2> DEFINE j == Len(s) + i
  <2>1. /\ j \in 1..(Len(s) + Len(t)) /\ ~(j <= Len(s)) /\ j - Len(s) = i
        /\ k - 1 + j = k + Len(s) - 1 + i
      BY <1>2
  <2> HIDE DEF j
  <2>2. p[j] = t[i]
      BY <1>1, <2>1
  <2>3. b[k - 1 + j] = p[j]
      BY <1>1, <1>3, <2>1
  <2> QED
      BY <2>1, <2>2, <2>3
<1> QED
    BY <1>4, <1>5

\* _uv writes at least one byte.
LEMMA UvIs ==
    \A n \in Nat : /\ Varint(Uv[n]) /\ Uv[n] \in Seq(Byte)
                   /\ Len(Uv[n]) \in Nat /\ Len(Uv[n]) >= 1
BY UvIsVarint, LenProperties DEF Varint

\* A number is read back where it is whole, and not found where it is cut off.
LEMMA VarintRead ==
    ASSUME NEW b \in Seq(Byte), NEW k \in Nat \ {0}, NEW n \in Nat,
           At(b, k, Uv[n]), NEW e, e = k - 1 + Len(Uv[n])
    PROVE  IF e <= Len(b) THEN EndOf(b, k) = e /\ Rv(b, k, e) = n
           ELSE EndOf(b, k) = 0
BY UvIs, EndOfVarint, ValueOfVarint

\* A field is written in at least one byte.
LEMMA FieldIs ==
    ASSUME NEW f \in OneField
    PROVE  Field(f) \in Seq(Byte) /\ Len(Field(f)) >= 1
<1>1. CASE f.value[1] = "varint"
  <2>1. 8 * f.tag \in Nat /\ f.value[2] \in Nat
      BY <1>1 DEF OneField
  <2> DEFINE s == Uv[8 * f.tag]
             t == Uv[f.value[2]]
  <2>2. /\ s \in Seq(Byte) /\ Len(s) \in Nat /\ Len(s) >= 1
        /\ t \in Seq(Byte) /\ Len(t) \in Nat
      BY <2>1, UvIs
  <2>3. Field(f) = s \o t
      BY <1>1 DEF Field
  <2> HIDE DEF s, t
  <2>4. s \o t \in Seq(Byte) /\ Len(s \o t) = Len(s) + Len(t)
      BY <2>2, ConcatProperties
  <2> QED
      BY <2>2, <2>3, <2>4
<1>2. CASE f.value[1] # "varint"
  <2>1. 8 * f.tag + 2 \in Nat /\ f.value[2] \in Seq(Byte)
      BY <1>2 DEF OneField
  <2> DEFINE s == Uv[8 * f.tag + 2]
             t == Uv[Len(f.value[2])]
             u == f.value[2]
  <2>2. Len(f.value[2]) \in Nat
      BY <2>1, LenProperties
  <2>3. /\ s \in Seq(Byte) /\ Len(s) \in Nat /\ Len(s) >= 1
        /\ t \in Seq(Byte) /\ u \in Seq(Byte)
      BY <2>1, <2>2, UvIs
  <2>4. Field(f) = s \o (t \o u)
      BY <1>2 DEF Field
  <2> HIDE DEF s, t, u
  <2>5. t \o u \in Seq(Byte) /\ Len(t \o u) \in Nat
      BY <2>3, ConcatProperties, LenProperties
  <2>6. s \o (t \o u) \in Seq(Byte) /\ Len(s \o (t \o u)) = Len(s) + Len(t \o u)
      BY <2>3, <2>5, ConcatProperties
  <2> QED
      BY <2>3, <2>4, <2>5, <2>6
<1> QED
    BY <1>1, <1>2

\* _rv gives a number.
LEMMA RvIsNat ==
    ASSUME NEW b \in Seq(Byte), NEW i \in Nat \ {0}, NEW j \in i..Len(b)
    PROVE  Rv(b, i, j) \in Nat
<1>1. \A k \in Nat \ {0} : \A e \in k..Len(b) :
          \E value \in [k..(e + 1) -> Nat] :
              /\ value[e + 1] = 0
              /\ \A l \in k..e :
                     value[l] = (b[l] % 128) + 128 * value[l + 1]
              /\ Rv(b, k, e) = value[k]
    BY RvDefined
<1>3. PICK value \in [i..(j + 1) -> Nat] :
          /\ value[j + 1] = 0
          /\ \A l \in i..j :
                 value[l] = (b[l] % 128) + 128 * value[l + 1]
          /\ Rv(b, i, j) = value[i]
    BY <1>1, Zenon
<1>2. i \in i..(j + 1)
    BY LenProperties
<1> QED
    BY <1>2, <1>3

\* Where a varint ends, if it does.
LEMMA EndIs ==
    ASSUME NEW b \in Seq(Byte), NEW i \in Nat \ {0}
    PROVE  EndOf(b, i) = 0 \/ EndOf(b, i) \in i..Len(b)
<1> DEFINE ends == {j \in i..Len(b) : b[j] < 128}
<1>1. Len(b) \in Nat
    BY LenProperties
<1>2. ends \in SUBSET Nat /\ ends \subseteq i..Len(b)
    BY <1>1
<1>3. EndOf(b, i) = IF ends = {} THEN 0 ELSE Min(ends)
    BY DEF EndOf
<1> HIDE DEF ends
<1>4. ASSUME ends # {} PROVE Min(ends) \in ends
  <2>1. PICK x \in ends : \A y \in ends : x <= y
      BY <1>2, <1>4, LeastOne
  <2>2. ends \in SUBSET Int
      BY <1>2
  <2>3. Min(ends) = x
      BY <2>1, <2>2, MinIs
  <2> QED
      BY <2>3
<1> QED
    BY <1>2, <1>3, <1>4

\* The next field begins further on.
LEMMA NextIs ==
    ASSUME NEW b \in Seq(Byte), NEW i \in 1..(Len(b) + 1)
    PROVE  \/ FieldAt(b, i).next = 0
           \/ FieldAt(b, i).next \in (i + 1)..(Len(b) + 1)
<1> DEFINE k   == EndOf(b, i)
           key == Rv(b, i, k)
           v   == EndOf(b, k + 1)
           e   == LengthEnd(b, k + 1)
           n   == Rv(b, k + 1, e)
           number == k # 0 /\ key % 8 = 0 /\ v # 0
           bytes == k # 0 /\ key % 8 = 2 /\ e # 0 /\ e + n <= Len(b)
<1>1. FieldAt(b, i) =
          IF number
          THEN [next |-> v + 1, field |-> V(key \div 8, Rv(b, k + 1, v))]
          ELSE IF bytes
          THEN [next |-> e + n + 1,
                field |-> S(key \div 8, SubSeq(b, e + 1, e + n))]
          ELSE NoField
    BY DEF FieldAt
<1>2. Len(b) \in Nat /\ i \in Nat \ {0}
    BY LenProperties
<1>3. k = 0 \/ k \in i..Len(b)
    BY <1>2, EndIs
<1> HIDE DEF k
<1>4. k # 0 => k + 1 \in Nat \ {0} /\ k >= i
    BY <1>2, <1>3
<1>5. k # 0 => v = 0 \/ v \in (k + 1)..Len(b)
    BY <1>4, EndIs
<1>6. k # 0 => e = 0 \/ e \in (k + 1)..Len(b)
    BY <1>4, EndIs DEF LengthEnd
<1>7. k # 0 /\ e # 0 => n \in Nat
    BY <1>4, <1>6, RvIsNat
<1> HIDE DEF v, e, n, key
<1>8. CASE number
  <2>1. v \in (k + 1)..Len(b) /\ k >= i /\ k \in Int
      BY <1>2, <1>3, <1>4, <1>5, <1>8
  <2>2. FieldAt(b, i).next = v + 1
      BY <1>1, <1>8
  <2> QED
      BY <1>2, <2>1, <2>2
<1>9. CASE ~number /\ bytes
  <2>1. /\ e \in (k + 1)..Len(b) /\ k >= i /\ k \in Int /\ n \in Nat
        /\ e + n <= Len(b)
      BY <1>2, <1>3, <1>4, <1>6, <1>7, <1>9
  <2>2. FieldAt(b, i).next = e + n + 1
      BY <1>1, <1>9
  <2> QED
      BY <1>2, <2>1, <2>2
<1>10. CASE ~number /\ ~bytes
    BY <1>1, <1>10 DEF NoField
<1> QED
    BY <1>8, <1>9, <1>10

\* A field is read back where it is whole, and nothing where it is cut off.
LEMMA FieldRead ==
    ASSUME NEW b \in Seq(Byte), NEW i \in Nat \ {0}, NEW f \in OneField,
           At(b, i, Field(f))
    PROVE  LET e == i - 1 + Len(Field(f))
           IN  IF e <= Len(b)
               THEN FieldAt(b, i).next = e + 1 /\ FieldAt(b, i).field = f
               ELSE FieldAt(b, i).next = 0
<1> DEFINE k   == EndOf(b, i)
           key == Rv(b, i, k)
           v   == EndOf(b, k + 1)
           e   == LengthEnd(b, k + 1)
           n   == Rv(b, k + 1, e)
           number == k # 0 /\ key % 8 = 0 /\ v # 0
           bytes == k # 0 /\ key % 8 = 2 /\ e # 0 /\ e + n <= Len(b)
           last == i - 1 + Len(Field(f))
<1>1. FieldAt(b, i) =
          IF number
          THEN [next |-> v + 1, field |-> V(key \div 8, Rv(b, k + 1, v))]
          ELSE IF bytes
          THEN [next |-> e + n + 1,
                field |-> S(key \div 8, SubSeq(b, e + 1, e + n))]
          ELSE NoField
    BY DEF FieldAt
<1>2. Len(b) \in Nat /\ i \in Nat /\ i >= 1
    BY LenProperties
<1>3. f.tag \in Nat /\ f = [tag |-> f.tag, value |-> f.value]
    BY DEF OneField
<1>4. NoField.next = 0
    BY DEF NoField
<1>5. e = EndOf(b, k + 1)
    BY DEF LengthEnd
<1> HIDE DEF e
<1>6. CASE f.value[1] = "varint"
  <2> DEFINE a == 8 * f.tag
             m == f.value[2]
             s == Uv[a]
             t == Uv[m]
  <2>1. a \in Nat /\ m \in Nat /\ f.value = <<"varint", m>>
      BY <1>3, <1>6 DEF OneField
  <2>2. a % 8 = 0 /\ a \div 8 = f.tag
      BY <1>3
  <2>3. Field(f) = s \o t
      BY <1>6 DEF Field
  <2>4. /\ s \in Seq(Byte) /\ Len(s) \in Nat /\ Len(s) >= 1
        /\ t \in Seq(Byte) /\ Len(t) \in Nat /\ Len(t) >= 1
      BY <2>1, UvIs
  <2>5. At(b, i, s) /\ At(b, i + Len(s), t)
    <3> HIDE DEF s, t
    <3> QED
        BY <2>3, <2>4, AtBoth
  <2>6. Len(Field(f)) = Len(s) + Len(t)
    <3> HIDE DEF s, t
    <3> QED
        BY <2>3, <2>4, ConcatProperties
  <2> DEFINE p == i - 1 + Len(s)
  <2>7. IF p <= Len(b) THEN k = p /\ Rv(b, i, p) = a ELSE k = 0
    <3> HIDE DEF a
    <3> QED
        BY <2>1, <2>5, VarintRead
  <2>8. i + Len(s) = p + 1 /\ p + 1 \in Nat \ {0} /\ p \in Nat \ {0}
      BY <1>2, <2>4
  <2> DEFINE q == p + Len(t)
  <2>9. IF q <= Len(b) THEN EndOf(b, p + 1) = q /\ Rv(b, p + 1, q) = m
        ELSE EndOf(b, p + 1) = 0
    <3> HIDE DEF m, p
    <3>1. At(b, p + 1, t) /\ p \in Int
        BY <1>2, <2>4, <2>5, <2>8 DEF p
    <3>2. q = (p + 1) - 1 + Len(t)
        BY <2>4, <3>1
    <3> HIDE DEF q
    <3> QED
        BY <2>1, <2>8, <3>1, <3>2, VarintRead
  <2>10. q = last /\ q \in Nat /\ p <= q /\ q # 0
    <3> HIDE DEF s, t
    <3> QED
        BY <1>2, <2>4, <2>6
  <2> HIDE DEF a, m, s, t, p, q, last
  <2>11. CASE last <= Len(b)
    <3>0. p <= Len(b)
        BY <1>2, <2>8, <2>10, <2>11
    <3>1. k = p /\ key = a
        BY <2>7, <3>0
    <3>2. v = q /\ Rv(b, k + 1, v) = m
        BY <2>9, <2>10, <2>11, <3>1
    <3>3. number
        BY <2>2, <2>8, <2>10, <3>1, <3>2
    <3>4. V(key \div 8, Rv(b, k + 1, v)) = f
        BY <1>3, <2>1, <2>2, <3>1, <3>2 DEF V
    <3> HIDE DEF number, v, key, k
    <3> QED
        BY <1>1, <2>10, <2>11, <3>2, <3>3, <3>4 DEF last
  <2>12. CASE ~(last <= Len(b))
    <3>1. CASE p <= Len(b)
      <4>1. k = p /\ key = a
          BY <2>7, <3>1
      <4>2. v = 0
          BY <2>9, <2>10, <2>12, <4>1
      <4>3. ~number /\ ~bytes
          BY <2>2, <4>1, <4>2
      <4> HIDE DEF number, bytes
      <4> QED
          BY <1>1, <1>4, <2>12, <4>3 DEF last
    <3>2. CASE ~(p <= Len(b))
      <4>1. k = 0
          BY <2>7, <3>2
      <4>2. ~number /\ ~bytes
          BY <4>1
      <4> HIDE DEF number, bytes
      <4> QED
          BY <1>1, <1>4, <2>12, <4>2 DEF last
    <3> QED
        BY <3>1, <3>2
  <2> QED
      BY <2>11, <2>12
<1>7. CASE f.value[1] # "varint"
  <2> DEFINE a == 8 * f.tag + 2
             u == f.value[2]
             m == Len(u)
             s == Uv[a]
             t == Uv[m]
  <2>1. a \in Nat /\ u \in Seq(Byte) /\ f.value = <<"bytes", u>>
      BY <1>3, <1>7 DEF OneField
  <2>0. m \in Nat
      BY <2>1, LenProperties
  <2>2. a % 8 = 2 /\ a \div 8 = f.tag
      BY <1>3
  <2>3. Field(f) = s \o (t \o u)
      BY <1>7 DEF Field
  <2>4. /\ s \in Seq(Byte) /\ Len(s) \in Nat /\ Len(s) >= 1
        /\ t \in Seq(Byte) /\ Len(t) \in Nat /\ Len(t) >= 1
      BY <2>0, <2>1, UvIs
  <2>5. t \o u \in Seq(Byte) /\ Len(t \o u) = Len(t) + m
    <3> HIDE DEF s, t, u
    <3> QED
        BY <2>1, <2>4, ConcatProperties
  <2>6. Len(Field(f)) = Len(s) + (Len(t) + m)
    <3> HIDE DEF s, t, u
    <3>1. Len(s \o (t \o u)) = Len(s) + Len(t \o u)
        BY <2>4, <2>5, ConcatProperties
    <3> QED
        BY <2>3, <2>5, <3>1
  <2>7. /\ At(b, i, s) /\ At(b, i + Len(s), t)
        /\ At(b, i + Len(s) + Len(t), u)
    <3> HIDE DEF s, t, u
    <3>1. At(b, i, s) /\ At(b, i + Len(s), t \o u)
        BY <2>3, <2>4, <2>5, AtBoth
    <3>2. i + Len(s) \in Nat \ {0}
        BY <1>2, <2>4
    <3> QED
        BY <2>1, <2>4, <3>1, <3>2, AtBoth
  <2> DEFINE p == i - 1 + Len(s)
             q == p + Len(t)
  <2>8. IF p <= Len(b) THEN k = p /\ Rv(b, i, p) = a ELSE k = 0
    <3> HIDE DEF a
    <3> QED
        BY <2>1, <2>7, VarintRead
  <2>9. i + Len(s) = p + 1 /\ p + 1 \in Nat \ {0} /\ p # 0
      BY <1>2, <2>4
  <2>10. IF q <= Len(b) THEN EndOf(b, p + 1) = q /\ Rv(b, p + 1, q) = m
         ELSE EndOf(b, p + 1) = 0
    <3> HIDE DEF m, p
    <3>1. At(b, p + 1, t) /\ p \in Int
        BY <1>2, <2>4, <2>7, <2>9 DEF p
    <3>2. q = (p + 1) - 1 + Len(t)
        BY <2>4, <3>1
    <3> HIDE DEF q
    <3> QED
        BY <2>0, <2>9, <3>1, <3>2, VarintRead
  <2>11. /\ q + m = last /\ q \in Nat /\ p <= q /\ q # 0 /\ p \in Nat
         /\ i + Len(s) + Len(t) = q + 1
    <3> HIDE DEF s, t, m
    <3> QED
        BY <1>2, <2>0, <2>4, <2>6
  <2> HIDE DEF a, m, s, t, p, q, last
  <2>12. CASE last <= Len(b)
    <3>1. k = p /\ key = a
        BY <1>2, <2>0, <2>8, <2>11, <2>12
    <3>2. e = q /\ n = m
        BY <1>2, <1>5, <2>0, <2>10, <2>11, <2>12, <3>1
    <3>3. bytes /\ ~number
        BY <2>2, <2>9, <2>11, <2>12, <3>1, <3>2
    <3>4. SubSeq(b, q + 1, q + m) = u
      <4>1. \A x \in 1..m : q + x <= Len(b) /\ b[q + x] = u[x]
        <5> SUFFICES ASSUME NEW x \in 1..m
                     PROVE  q + x <= Len(b) /\ b[q + x] = u[x]
            OBVIOUS
        <5>1. q + 1 - 1 + x = q + x /\ q + x <= Len(b)
            BY <1>2, <2>0, <2>11, <2>12
        <5>2. At(b, q + 1, u) /\ x \in 1..Len(u)
            BY <2>7, <2>11 DEF m
        <5>3. \A y \in 1..Len(u) : (q + 1) - 1 + y <= Len(b)
                                   => b[(q + 1) - 1 + y] = u[y]
            BY <5>2 DEF At
        <5>4. (q + 1) - 1 + x <= Len(b) => b[(q + 1) - 1 + x] = u[x]
          <6> HIDE DEF u
          <6> QED
              BY <5>2, <5>3, Zenon
        <5>5. (q + 1) - 1 + x = q + x
            BY <2>11
        <5> QED
            BY <5>1, <5>4, <5>5
      <4>2. \A x \in (q + 1)..(q + m) : b[x] \in Byte
        <5> SUFFICES ASSUME NEW x \in (q + 1)..(q + m) PROVE b[x] \in Byte
            OBVIOUS
        <5>1. x \in 1..Len(b)
            BY <1>2, <2>0, <2>11, <2>12
        <5> QED
            BY <5>1, ElementOfSeq
      <4> DEFINE lo == q + 1
                 hi == q + m
                 c == SubSeq(b, lo, hi)
      <4>3. lo \in Int /\ hi \in Int /\ \A x \in lo..hi : b[x] \in Byte
          BY <2>0, <2>11, <4>2
      <4>0. /\ (IF lo <= hi THEN hi - lo + 1 ELSE 0) = m /\ hi - lo + 1 = m
            /\ \A x \in 1..m : lo + x - 1 = q + x
          BY <2>0, <2>11
      <4> HIDE DEF lo, hi
      <4>4. /\ c \in Seq(Byte)
            /\ Len(c) = IF lo <= hi THEN hi - lo + 1 ELSE 0
            /\ \A x \in 1..(hi - lo + 1) : c[x] = b[lo + x - 1]
          BY <4>3, SubSeqProperties
      <4> HIDE DEF c
      <4>5. Len(c) = m
          BY <4>0, <4>4
      <4>6. \A x \in 1..m : c[x] = u[x]
        <5> SUFFICES ASSUME NEW x \in 1..m PROVE c[x] = u[x]
            OBVIOUS
        <5>1. c[x] = b[lo + x - 1]
            BY <4>0, <4>4
        <5> QED
            BY <4>0, <4>1, <5>1
      <4>7. c = u
          BY <2>1, <4>4, <4>5, <4>6, SeqEqual DEF m
      <4> QED
          BY <4>7 DEF c, lo, hi
    <3>5. S(key \div 8, SubSeq(b, e + 1, e + n)) = f
        BY <1>3, <2>1, <2>2, <3>1, <3>2, <3>4 DEF S
    <3> HIDE DEF number, bytes, n, v, key, k
    <3> QED
        BY <1>1, <2>11, <2>12, <3>2, <3>3, <3>5 DEF last
  <2>13. CASE ~(last <= Len(b))
    <3>1. ~number /\ ~bytes
      <4>1. CASE ~(p <= Len(b))
          BY <2>8, <4>1
      <4>2. CASE p <= Len(b) /\ ~(q <= Len(b))
        <5>1. k = p /\ key = a
            BY <2>8, <4>2
        <5>2. e = 0
            BY <1>5, <2>10, <4>2, <5>1
        <5> QED
            BY <2>2, <5>1, <5>2
      <4>3. CASE p <= Len(b) /\ q <= Len(b)
        <5>1. k = p /\ key = a
            BY <2>8, <4>3
        <5>2. e = q /\ n = m
            BY <1>5, <2>10, <4>3, <5>1
        <5> QED
            BY <2>2, <2>11, <2>13, <5>1, <5>2
      <4> QED
          BY <4>1, <4>2, <4>3
    <3> HIDE DEF number, bytes
    <3> QED
        BY <1>1, <1>4, <2>13, <3>1 DEF last
  <2> QED
      BY <2>12, <2>13
<1> QED
    BY <1>6, <1>7

-----------------------------------------------------------------------------
(***************************************************************************)
(* Messages: fields one after the other, whole or cut off.                 *)
(***************************************************************************)

\* What has been written after each of the fields.
Written(E, fields) ==
    /\ E \in [0..Len(fields) -> Seq(Byte)]
    /\ E[0] = <<>>
    /\ \A n \in 1..Len(fields) : E[n] = E[n - 1] \o Field(fields[n])
    /\ Encode(fields) = E[Len(fields)]

\* Encode writes one field after the other.
LEMMA EncodeIs ==
    ASSUME NEW fields \in Seq(OneField)
    PROVE  \E E : Written(E, fields)
<1> DEFINE N == Len(fields)
           D == 0..N
           T == Seq(Byte)
           more(n, s) == s \o Field(fields[n])
           step == [y \in (1..N) \X T |-> more(y[1], y[2])]
           Loop(f) == f = [n \in D |-> IF n = 0 THEN <<>>
                                       ELSE f[n - 1] \o Field(fields[n])]
           Run == CHOOSE f : Loop(f)
<1>1. N \in Nat
    BY LenProperties
<1>2. \A n \in 1..N, s \in T : more(n, s) \in T
  <2> SUFFICES ASSUME NEW n \in 1..N, NEW s \in T PROVE more(n, s) \in T
      OBVIOUS
  <2>1. fields[n] \in OneField
      BY ElementOfSeq
  <2>2. Field(fields[n]) \in Seq(Byte)
      BY <2>1, FieldIs
  <2> QED
      BY <2>2, ConcatProperties
<1>3. <<>> \in T
    BY EmptySeq
<1>4. /\ step \in [(1..N) \X T -> T]
      /\ \A n \in 1..N, s \in T : step[<<n, s>>] = more(n, s)
  <2> HIDE DEF more, T, N
  <2> QED
      BY <1>2
<1> HIDE DEF step
<1>5. PICK f \in [0..N -> T] : Counts(f, N, <<>>, step)
  <2> HIDE DEF N, T
  <2> QED
      BY <1>1, <1>3, <1>4, CountedLoop
<1>6. Loop(f)
  <2>1. f = [n \in D |-> IF n = 0 THEN <<>> ELSE step[<<n, f[n - 1]>>]]
      BY <1>5 DEF Counts
  <2>2. \A n \in D : n # 0 => step[<<n, f[n - 1]>>] = more(n, f[n - 1])
    <3> SUFFICES ASSUME NEW n \in D, n # 0
                 PROVE  step[<<n, f[n - 1]>>] = more(n, f[n - 1])
        OBVIOUS
    <3>1. n \in 1..N /\ n - 1 \in 0..N
        BY <1>1
    <3>2. f[n - 1] \in T
        BY <3>1
    <3> HIDE DEF T, N, more
    <3> QED
        BY <1>4, <3>1, <3>2
  <2> HIDE DEF D
  <2>3. f = [n \in D |-> IF n = 0 THEN <<>> ELSE more(n, f[n - 1])]
    <3> HIDE DEF more
    <3> QED
        BY <2>1, <2>2
  <2> QED
      BY <2>3
<1>7. Loop(Run)
    BY <1>6, Zenon
<1>8. Run = [n \in D |-> IF n = 0 THEN <<>> ELSE more(n, Run[n - 1])]
  <2> HIDE DEF Run
  <2> QED
      BY <1>7
<1>9. Encode(fields) = Run[N]
    BY Zenon DEF Encode, Run, Loop, D, N
<1> HIDE DEF Run, Loop, more
<1>10. \A n \in D : Run[n] = IF n = 0 THEN <<>> ELSE more(n, Run[n - 1])
    BY <1>8, Zenon
<1> DEFINE Typed == {n \in Nat : n <= N => Run[n] \in T}
<1>11. Nat \subseteq Typed
  <2>1. 0 \in Typed
    <3>1. 0 \in D
        BY <1>1
    <3> QED
        BY <1>3, <1>10, <3>1
  <2>2. ASSUME NEW n \in Nat, n \in Typed PROVE n + 1 \in Typed
    <3>1. CASE n + 1 <= N
      <4>1. n + 1 \in D /\ n + 1 \in 1..N /\ n + 1 # 0 /\ (n + 1) - 1 = n
            /\ n <= N
          BY <1>1, <3>1
      <4>2. Run[n] \in T
          BY <2>2, <4>1
      <4> HIDE DEF D, T
      <4>3. Run[n + 1] = more(n + 1, Run[n])
          BY <1>10, <4>1
      <4> QED
          BY <1>2, <4>1, <4>2, <4>3
    <3> QED
        BY <3>1
  <2> HIDE DEF Typed
  <2> QED
      BY <2>1, <2>2, EveryNumber
<1>12. Run \in [D -> T]
  <2>1. \A n \in D : n \in Nat /\ n <= N
      BY <1>1
  <2> HIDE DEF D, T
  <2>2. \A n \in D : Run[n] \in T
      BY <1>11, <2>1
  <2> QED
      BY <1>8, <2>2
<1>13. Run[0] = <<>> /\ \A n \in 1..N : Run[n] = Run[n - 1] \o Field(fields[n])
  <2>1. 0 \in D /\ \A n \in 1..N : n \in D /\ n # 0
      BY <1>1
  <2> HIDE DEF D
  <2>2. Run[0] = <<>> /\ \A n \in 1..N : Run[n] = more(n, Run[n - 1])
      BY <1>10, <2>1
  <2> QED
      BY <2>2 DEF more
<1> QED
    BY <1>9, <1>12, <1>13 DEF Written

\* The walk from each place: a field and the walk from the next one.
Walks(found, b) ==
    /\ \A i \in 1..(Len(b) + 1) :
           found[i] = IF FieldAt(b, i).next = 0 THEN <<>>
                      ELSE <<FieldAt(b, i).field>>
                               \o found[FieldAt(b, i).next]
    /\ Walk(b) = found[1]

\* Walk goes from each field to the next.
LEMMA WalkIs ==
    ASSUME NEW b \in Seq(Byte)
    PROVE  \E found : Walks(found, b)
<1> DEFINE D == 1..(Len(b) + 1)
           next(i) == FieldAt(b, i).next
           field(i) == FieldAt(b, i).field
           U == {field(i) : i \in D}
           T == Seq(U)
           mu == [i \in D |-> Len(b) + 1 - i]
           more(i, s) == <<field(i)>> \o s
           body(i, f) == IF next(i) = 0 THEN <<>> ELSE more(i, f[next(i)])
           G == [a \in D \X [D -> T] |-> body(a[1], a[2])]
           Loop(f) == f = [i \in D |->
                              IF FieldAt(b, i).next = 0 THEN <<>>
                              ELSE <<FieldAt(b, i).field>>
                                       \o f[FieldAt(b, i).next]]
           Run == CHOOSE f : Loop(f)
<1>1. Len(b) \in Nat
    BY LenProperties
<1>2. \A i \in D : next(i) = 0 \/ next(i) \in (i + 1)..(Len(b) + 1)
    BY NextIs
<1> HIDE DEF next
<1>3. \A i \in D : next(i) # 0 => next(i) \in D /\ next(i) > i
  <2> SUFFICES ASSUME NEW i \in D, next(i) # 0
               PROVE  next(i) \in D /\ next(i) > i
      OBVIOUS
  <2>1. next(i) \in (i + 1)..(Len(b) + 1)
      BY <1>2
  <2> QED
      BY <1>1, <2>1
<1>4. \A i \in D, s \in T : more(i, s) \in T
  <2> SUFFICES ASSUME NEW i \in D, NEW s \in T PROVE more(i, s) \in T
      OBVIOUS
  <2> HIDE DEF D, field
  <2>1. field(i) \in U
      OBVIOUS
  <2> HIDE DEF U
  <2>2. <<field(i)>> \in Seq(U)
      BY <2>1
  <2> QED
      BY <2>2, ConcatProperties
<1>5. <<>> \in T
    BY EmptySeq
<1> HIDE DEF T, U, more
<1>6. Depends(D, T, mu, G)
  <2>1. mu \in [D -> Nat]
      BY <1>1
  <2>2. \A i \in D, f \in [D -> T] : body(i, f) \in T
    <3> HIDE DEF D
    <3> QED
        BY <1>3, <1>4, <1>5
  <2>0. \A i, j \in D : j > i => mu[j] < mu[i]
      BY <1>1
  <2> HIDE DEF body, D, mu
  <2>3. /\ G \in [D \X [D -> T] -> T]
        /\ \A i \in D, f \in [D -> T] : G[<<i, f>>] = body(i, f)
      BY <2>2
  <2>4. ASSUME NEW i \in D, NEW f \in [D -> T], NEW g \in [D -> T],
               \A j \in D : mu[j] < mu[i] => f[j] = g[j]
        PROVE  G[<<i, f>>] = G[<<i, g>>]
    <3>1. G[<<i, f>>] = body(i, f) /\ G[<<i, g>>] = body(i, g)
        BY <2>3
    <3>2. next(i) # 0 => f[next(i)] = g[next(i)]
        BY <1>3, <2>0, <2>4
    <3> HIDE DEF G
    <3> QED
        BY <3>1, <3>2 DEF body
  <2> HIDE DEF G
  <2> QED
      BY <2>1, <2>3, <2>4 DEF Depends
<1>7. PICK f : Solves(f, D, T, G)
  <2>1. T # {}
      BY <1>5
  <2> HIDE DEF D, mu, G
  <2> QED
      BY <1>6, <2>1, RecursionByMeasure
<1>8. f \in [D -> T] /\ \A i \in D : f[i] = body(i, f)
  <2>1. \A i \in D : G[<<i, f>>] = body(i, f)
    <3>1. f \in [D -> T]
        BY <1>7 DEF Solves
    <3> HIDE DEF D, body
    <3> QED
        BY <3>1
  <2> HIDE DEF D, body, G
  <2> QED
      BY <1>7, <2>1 DEF Solves
<1>9. Loop(f)
  <2> HIDE DEF D
  <2> QED
      BY <1>8 DEF more, next, field
<1>10. Loop(Run)
    BY <1>9, Zenon
<1>11. Walk(b) = Run[1]
    BY Zenon DEF Walk, Run, Loop, D
<1>12. Run = [i \in D |-> IF FieldAt(b, i).next = 0 THEN <<>>
                        ELSE <<FieldAt(b, i).field>>
                                 \o Run[FieldAt(b, i).next]]
  <2> HIDE DEF Run
  <2> QED
      BY <1>10
<1> HIDE DEF Run, Loop
<1>13. \A i \in D : Run[i] = IF FieldAt(b, i).next = 0 THEN <<>>
                           ELSE <<FieldAt(b, i).field>>
                                    \o Run[FieldAt(b, i).next]
    BY <1>12, Zenon
<1> QED
    BY <1>11, <1>13, Zenon DEF Walks, D

\* Each field is written where the ones before it end.
LEMMA FieldsInPlace ==
    ASSUME NEW fields \in Seq(OneField), NEW E, Written(E, fields),
           NEW b \in Seq(Byte), At(b, 1, Encode(fields))
    PROVE  \A n \in 0..Len(fields) :
               /\ E[n] \in Seq(Byte) /\ Len(E[n]) \in Nat
               /\ Len(E[n]) <= Len(Encode(fields))
               /\ n # 0 => /\ Len(E[n]) = Len(E[n - 1]) + Len(Field(fields[n]))
                           /\ At(b, 1 + Len(E[n - 1]), Field(fields[n]))
<1> DEFINE N == Len(fields)
           f(n) == Field(fields[n])
<1>1. N \in Nat
    BY LenProperties
<1>2. /\ E \in [0..N -> Seq(Byte)]
      /\ \A n \in 1..N : E[n] = E[n - 1] \o f(n)
      /\ Encode(fields) = E[N]
    BY DEF Written
<1>3. \A n \in 1..N : f(n) \in Seq(Byte)
    BY ElementOfSeq, FieldIs
<1> HIDE DEF f, N
<1>4. \A n \in 0..N : E[n] \in Seq(Byte)
    BY <1>2
<1>5. \A n \in 0..N : Len(E[n]) \in Nat
    BY <1>4, LenProperties
<1>6. \A n \in 1..N : Len(f(n)) \in Nat /\ n - 1 \in 0..N /\ n \in 0..N
    BY <1>1, <1>3, LenProperties
<1>7. \A n \in 1..N : Len(E[n]) = Len(E[n - 1]) + Len(f(n))
  <2> SUFFICES ASSUME NEW n \in 1..N
               PROVE  Len(E[n]) = Len(E[n - 1]) + Len(f(n))
      OBVIOUS
  <2>1. Len(E[n - 1] \o f(n)) = Len(E[n - 1]) + Len(f(n))
      BY <1>3, <1>4, <1>6, ConcatProperties
  <2> QED
      BY <1>2, <2>1
<1>8. ASSUME NEW n \in 1..N, At(b, 1, E[n])
      PROVE  At(b, 1, E[n - 1]) /\ At(b, 1 + Len(E[n - 1]), f(n))
  <2>1. At(b, 1, E[n - 1] \o f(n))
      BY <1>2, <1>8
  <2>2. E[n - 1] \in Seq(Byte) /\ f(n) \in Seq(Byte) /\ 1 \in Nat \ {0}
      BY <1>3, <1>4, <1>6
  <2> DEFINE e == E[n - 1]
             g == f(n)
  <2> HIDE DEF e, g
  <2>3. At(b, 1, e \o g) /\ e \in Seq(Byte) /\ g \in Seq(Byte)
      BY <2>1, <2>2 DEF e, g
  <2>4. At(b, 1, e) /\ At(b, 1 + Len(e), g)
      BY <2>3, AtBoth
  <2> QED
      BY <2>4 DEF e, g
<1> DEFINE Good(n) == At(b, 1, E[n]) /\ Len(E[n]) <= Len(E[N])
           Depths == {d \in Nat : d <= N => Good(N - d)}
<1>9. Nat \subseteq Depths
  <2>1. 0 \in Depths
    <3>1. N - 0 = N /\ Len(E[N]) \in Nat
        BY <1>1, <1>5
    <3>2. At(b, 1, E[N])
        BY <1>2
    <3> QED
        BY <3>1, <3>2
  <2>2. ASSUME NEW d \in Nat, d \in Depths PROVE d + 1 \in Depths
    <3> DEFINE n == N - d
    <3>1. CASE d + 1 <= N
      <4>1. n \in 1..N /\ N - (d + 1) = n - 1 /\ d <= N
          BY <1>1, <3>1
      <4>2. Good(n)
          BY <2>2, <4>1
      <4> HIDE DEF n
      <4>3. Len(E[n - 1]) <= Len(E[n]) /\ Len(E[n]) \in Nat
            /\ Len(E[n - 1]) \in Nat /\ Len(E[N]) \in Nat
          BY <1>1, <1>5, <1>6, <1>7, <4>1
      <4>4. Good(n - 1)
          BY <1>8, <4>1, <4>2, <4>3
      <4> HIDE DEF Good
      <4>5. Good(N - (d + 1))
          BY <4>1, <4>4
      <4> QED
          BY <4>5
    <3> QED
        BY <3>1
  <2> HIDE DEF Depths
  <2> QED
      BY <2>1, <2>2, EveryNumber
<1>10. \A n \in 0..N : Good(n)
  <2> SUFFICES ASSUME NEW n \in 0..N PROVE Good(n)
      OBVIOUS
  <2>1. N - n \in Nat /\ N - n <= N /\ N - (N - n) = n
      BY <1>1
  <2> HIDE DEF Good
  <2>2. Good(N - (N - n))
      BY <1>9, <2>1
  <2> QED
      BY <2>1, <2>2
<1>11. \A n \in 0..N : n # 0 => n \in 1..N
    BY <1>1
<1> QED
    BY <1>2, <1>4, <1>5, <1>7, <1>8, <1>10, <1>11 DEF f, N

\* Whatever is cut off, the fields before it are found as they were written.
THEOREM WalkOfPrefix ==
    ASSUME NEW fields \in Seq(OneField), NEW b \in Seq(Byte),
           At(b, 1, Encode(fields)), Len(b) <= Len(Encode(fields))
    PROVE  \E m \in 0..Len(fields) :
               /\ Walk(b) = SubSeq(fields, 1, m)
               /\ Len(b) = Len(Encode(fields)) => m = Len(fields)
<1> PICK E : Written(E, fields)
    BY EncodeIs
<1> PICK found : Walks(found, b)
    BY WalkIs
<1> DEFINE N == Len(fields)
           total == Len(Encode(fields))
<1>1. N \in Nat /\ Len(b) \in Nat
    BY LenProperties
<1>2. \A n \in 0..N :
          /\ E[n] \in Seq(Byte) /\ Len(E[n]) \in Nat
          /\ Len(E[n]) <= total
          /\ n # 0 => /\ Len(E[n]) = Len(E[n - 1]) + Len(Field(fields[n]))
                      /\ At(b, 1 + Len(E[n - 1]), Field(fields[n]))
    BY FieldsInPlace
<1>3. E[0] = <<>> /\ E[N] = Encode(fields) /\ Len(E[0]) = 0
  <2>1. E[0] = <<>> /\ E[N] = Encode(fields)
      BY DEF Written
  <2> QED
      BY <2>1
<1>4. \A n \in 1..N : fields[n] \in OneField
    BY ElementOfSeq
<1>5. /\ \A i \in 1..(Len(b) + 1) :
             found[i] = IF FieldAt(b, i).next = 0 THEN <<>>
                        ELSE <<FieldAt(b, i).field>>
                                 \o found[FieldAt(b, i).next]
      /\ Walk(b) = found[1]
    BY DEF Walks
<1>6. total \in Nat /\ Len(b) <= total
    BY <1>1, <1>2, <1>3
<1> HIDE DEF total, N
<1> DEFINE Rest(n) == \E m \in n..N :
                          /\ found[1 + Len(E[n])] = SubSeq(fields, n + 1, m)
                          /\ Len(b) = total => m = N
           Depths == {d \in Nat :
                         d <= N /\ Len(E[N - d]) <= Len(b) => Rest(N - d)}
\* Nothing more at the end.
<1>7. 0 \in Depths
  <2> SUFFICES ASSUME Len(E[N]) <= Len(b) PROVE Rest(N)
    <3> HIDE DEF Rest
    <3>1. N - 0 = N
        BY <1>1
    <3>2. 0 <= N /\ Len(E[N - 0]) <= Len(b) => Rest(N - 0)
        BY <3>1
    <3> QED
        BY <3>2
  <2>1. Len(E[N]) = total
      BY <1>3 DEF total
  <2>2. 1 + Len(E[N]) = Len(b) + 1 /\ Len(b) + 1 \in 1..(Len(b) + 1)
      BY <1>1, <1>6, <2>1
  <2>3. FieldAt(b, Len(b) + 1).next = 0
    <3>1. \/ FieldAt(b, Len(b) + 1).next = 0
          \/ FieldAt(b, Len(b) + 1).next \in ((Len(b) + 1) + 1)..(Len(b) + 1)
        BY <2>2, NextIs
    <3> QED
        BY <1>1, <3>1
  <2>4. found[1 + Len(E[N])] = <<>>
      BY <1>5, <2>2, <2>3
  <2>5. SubSeq(fields, N + 1, N) = <<>>
      BY <1>1, SubSeqEmpty
  <2> QED
      BY <1>1, <2>4, <2>5
\* One field and the rest, or nothing where it is cut off.
<1>8. ASSUME NEW d \in Nat, d \in Depths PROVE d + 1 \in Depths
  <2> DEFINE n == N - (d + 1)
             k == n + 1
             f == fields[k]
             i == 1 + Len(E[n])
             e == i - 1 + Len(Field(f))
  <2> SUFFICES ASSUME d + 1 <= N, Len(E[n]) <= Len(b) PROVE Rest(n)
      OBVIOUS
  <2>1. n \in 0..N /\ k \in 1..N /\ k \in 0..N /\ k # 0 /\ k - 1 = n
        /\ N - d = k /\ d <= N /\ n \in Nat
      BY <1>1
  <2>2. d <= N /\ Len(E[N - d]) <= Len(b) => Rest(N - d)
      BY <1>8
  <2> HIDE DEF n, k
  <2>3. f \in OneField
      BY <1>4, <2>1
  <2>4. Len(E[n]) \in Nat /\ Len(E[k]) \in Nat /\ Len(E[k]) <= total
        /\ Len(E[k]) = Len(E[n]) + Len(Field(f)) /\ At(b, i, Field(f))
      BY <1>2, <2>1
  <2>5. Field(f) \in Seq(Byte) /\ Len(Field(f)) \in Nat
    <3> HIDE DEF f
    <3> QED
        BY <2>3, FieldIs, LenProperties
  <2>6. i \in Nat \ {0} /\ i \in 1..(Len(b) + 1) /\ e = Len(E[k])
        /\ e + 1 = 1 + Len(E[k])
    <3> HIDE DEF f
    <3> QED
        BY <1>1, <2>4, <2>5
  <2>7. IF e <= Len(b)
        THEN FieldAt(b, i).next = e + 1 /\ FieldAt(b, i).field = f
        ELSE FieldAt(b, i).next = 0
    <3> HIDE DEF f, i
    <3> QED
        BY <2>3, <2>4, <2>6, FieldRead
  <2>8. found[i] = IF FieldAt(b, i).next = 0 THEN <<>>
                   ELSE <<FieldAt(b, i).field>> \o found[FieldAt(b, i).next]
      BY <1>5, <2>6
  <2> HIDE DEF i, f, e
  <2>9. CASE e <= Len(b)
    <3>1. Len(E[N - d]) <= Len(b)
        BY <2>1, <2>6, <2>9
    <3>2. Rest(k)
      <4> HIDE DEF Rest
      <4> QED
          BY <2>1, <2>2, <3>1
    <3>3. PICK m \in k..N : /\ found[1 + Len(E[k])] = SubSeq(fields, k + 1, m)
                            /\ Len(b) = total => m = N
        BY <3>2
    <3>4. e + 1 # 0
        BY <2>4, <2>6
    <3>5. found[i] = <<f>> \o SubSeq(fields, k + 1, m)
        BY <2>6, <2>7, <2>8, <2>9, <3>3, <3>4
    <3>6. SubSeq(fields, k, m) = <<fields[k]>> \o SubSeq(fields, k + 1, m)
        BY <1>1, <2>1, <3>3, SubSeqRecursiveFirst DEF N
    <3>7. found[i] = SubSeq(fields, n + 1, m)
        BY <3>5, <3>6 DEF f, k
    <3>8. m \in n..N
        BY <1>1, <2>1, <3>3
    <3> QED
        BY <3>3, <3>7, <3>8 DEF i
  <2>10. CASE ~(e <= Len(b))
    <3>1. found[i] = <<>>
        BY <2>7, <2>8, <2>10
    <3>2. SubSeq(fields, n + 1, n) = <<>>
        BY <2>1, SubSeqEmpty
    <3>3. Len(b) # total
        BY <1>1, <1>6, <2>4, <2>6, <2>10
    <3>4. n \in n..N
        BY <1>1, <2>1
    <3> QED
        BY <3>1, <3>2, <3>3, <3>4 DEF i
  <2> QED
      BY <2>9, <2>10
<1> HIDE DEF Depths
<1>9. N \in Depths
    BY <1>1, <1>7, <1>8, EveryNumber
<1>10. Rest(0)
  <2>1. N <= N /\ N - N = 0
      BY <1>1
  <2>2. N <= N /\ Len(E[N - N]) <= Len(b) => Rest(N - N)
      BY <1>9 DEF Depths
  <2> HIDE DEF Rest
  <2> QED
      BY <1>1, <1>3, <2>1, <2>2
<1>11. 1 + Len(E[0]) = 1 /\ 0 + 1 = 1
    BY <1>3
<1> QED
    BY <1>5, <1>10, <1>11 DEF N, total

\* No tag is there twice.
Distinct(fields) ==
    \A i, j \in 1..Len(fields) : fields[i].tag = fields[j].tag => i = j

\* The greatest of one.
LEMMA MaxOfOne == ASSUME NEW x \in Int PROVE Max({x}) = x
<1>1. \A y \in {x} : x >= y
    OBVIOUS
<1> QED
    BY <1>1 DEF Max

\* Fields with tags of their own each keep their value.
LEMMA ValuesIs ==
    ASSUME NEW fields \in Seq(OneField), Distinct(fields)
    PROVE  /\ DOMAIN Values(fields) = {fields[i].tag : i \in 1..Len(fields)}
           /\ \A i \in 1..Len(fields) :
                  Values(fields)[fields[i].tag] = fields[i].value
<1> DEFINE D == DOMAIN fields
           N == Len(fields)
           tag(i) == fields[i].tag
           Those(t) == {i \in D : tag(i) = t}
           T == {tag(i) : i \in D}
<1>1. N \in Nat /\ D = 1..N
    BY LenProperties
<1>2. Values(fields) = [t \in T |-> fields[Max(Those(t))].value]
    BY DEF Values
<1>3. ASSUME NEW i \in D PROVE Those(tag(i)) = {i} /\ tag(i) \in T
    BY <1>1 DEF Distinct
<1>4. \A i \in D : Max({i}) = i
    BY <1>1, MaxOfOne
<1> HIDE DEF D, T, Those, tag
<1>5. DOMAIN Values(fields) = T
    BY <1>2
<1>6. ASSUME NEW i \in D PROVE Values(fields)[tag(i)] = fields[i].value
  <2>1. Values(fields)[tag(i)] = fields[Max(Those(tag(i)))].value
      BY <1>2, <1>3
  <2> QED
      BY <1>3, <1>4, <2>1
<1> QED
    BY <1>1, <1>5, <1>6 DEF T, tag

\* The first of them have the values they have among all.
LEMMA ValuesOfSome ==
    ASSUME NEW fields \in Seq(OneField), Distinct(fields),
           NEW m \in 0..Len(fields)
    PROVE  IsRestriction(Values(SubSeq(fields, 1, m)), Values(fields))
<1> DEFINE some == SubSeq(fields, 1, m)
<1>1. Len(fields) \in Nat /\ m \in Nat /\ m <= Len(fields)
    BY LenProperties
<1>2. some \in Seq(OneField) /\ Len(some) = m
      /\ \A i \in 1..m : some[i] = fields[i]
  <2>1. \A i \in 1..m : fields[i] \in OneField
    <3>1. \A i \in 1..m : i \in 1..Len(fields)
        BY <1>1
    <3> QED
        BY <3>1, ElementOfSeq
  <2>2. /\ some \in Seq(OneField)
        /\ Len(some) = IF 1 <= m THEN m - 1 + 1 ELSE 0
        /\ \A i \in 1..(m - 1 + 1) : some[i] = fields[1 + i - 1]
      BY <1>1, <2>1, SubSeqProperties
  <2> HIDE DEF some
  <2> QED
      BY <1>1, <2>2
<1> HIDE DEF some
<1>3. \A i \in 1..m : i \in 1..Len(fields)
    BY <1>1
<1>4. Distinct(some)
    BY <1>2, <1>3 DEF Distinct
<1>5. /\ DOMAIN Values(fields) = {fields[i].tag : i \in 1..Len(fields)}
      /\ \A i \in 1..Len(fields) :
             Values(fields)[fields[i].tag] = fields[i].value
    BY ValuesIs
<1>6. /\ DOMAIN Values(some) = {some[i].tag : i \in 1..m}
      /\ \A i \in 1..m : Values(some)[some[i].tag] = some[i].value
    BY <1>2, <1>4, ValuesIs
<1>7. DOMAIN Values(some) \subseteq DOMAIN Values(fields)
    BY <1>2, <1>3, <1>5, <1>6
<1>8. ASSUME NEW t \in DOMAIN Values(some)
      PROVE  Values(some)[t] = Values(fields)[t]
  <2>1. PICK i \in 1..m : t = some[i].tag
      BY <1>6
  <2> QED
      BY <1>2, <1>3, <1>5, <1>6, <2>1
<1> QED
    BY <1>7, <1>8 DEF IsRestriction, some

\* What parse makes of what is written, whole or cut off.
LEMMA EncodeIsBytes ==
    ASSUME NEW fields \in Seq(OneField)
    PROVE  Encode(fields) \in Seq(Byte)
<1>1. PICK E : Written(E, fields)
    BY EncodeIs
<1>2. Len(fields) \in 0..Len(fields)
    BY LenProperties
<1> QED
    BY <1>1, <1>2 DEF Written

\* What is written is read back.
LEMMA ParseOfWhole ==
    ASSUME NEW fields \in Seq(OneField)
    PROVE  Parse(Encode(fields)) = Values(fields)
<1> DEFINE b == Encode(fields)
<1>1. b \in Seq(Byte)
    BY EncodeIsBytes
<1>2. Len(b) \in Nat
    BY <1>1, LenProperties
<1>3. At(b, 1, b)
  <2> HIDE DEF b
  <2>1. \A t \in 1..Len(b) : 1 - 1 + t = t
      BY <1>2
  <2> QED
      BY <2>1 DEF At
<1>4. PICK m \in 0..Len(fields) :
          /\ Walk(b) = SubSeq(fields, 1, m)
          /\ Len(b) = Len(Encode(fields)) => m = Len(fields)
    BY <1>1, <1>2, <1>3, WalkOfPrefix
<1>5. Walk(b) = fields
    BY <1>4, SubSeqFull
<1> QED
    BY <1>5 DEF Parse

\* What is there of it is read back with the values it had.
LEMMA ParseOfPart ==
    ASSUME NEW fields \in Seq(OneField), Distinct(fields),
           NEW b \in Seq(Byte), At(b, 1, Encode(fields)),
           Len(b) <= Len(Encode(fields))
    PROVE  IsRestriction(Parse(b), Values(fields))
<1>1. PICK m \in 0..Len(fields) :
          /\ Walk(b) = SubSeq(fields, 1, m)
          /\ Len(b) = Len(Encode(fields)) => m = Len(fields)
    BY WalkOfPrefix
<1>2. Parse(b) = Values(SubSeq(fields, 1, m))
    BY <1>1 DEF Parse
<1> QED
    BY <1>2, ValuesOfSome

\* The four bytes of a length, and the length of the four bytes.
LEMMA PrefixIs ==
    ASSUME NEW n \in Int
    PROVE  /\ Prefix(n) \in Seq(Byte) /\ Len(Prefix(n)) = 4
           /\ Packs(n) => \A b : (\A i \in 1..4 : b[i] = Prefix(n)[i])
                                 => Declared(b) = n
<1> DEFINE one == n \div 256
           two == one \div 256
           three == two \div 256
           p == <<three % 256, two % 256, one % 256, n % 256>>
<1>1. Prefix(n) = p
    BY DEF Prefix
<1>2. one \in Int /\ n = 256 * one + (n % 256) /\ n % 256 \in Byte
    BY DEF Byte
<1> HIDE DEF one
<1>3. two \in Int /\ one = 256 * two + (one % 256) /\ one % 256 \in Byte
    BY <1>2 DEF Byte
<1> HIDE DEF two
<1>4. three \in Int /\ two = 256 * three + (two % 256) /\ two % 256 \in Byte
    BY <1>3 DEF Byte
<1> HIDE DEF three
<1>5. three % 256 \in Byte
    BY <1>4 DEF Byte
<1>6. Packs(n) => three % 256 = three
  <2>1. Packs(n) => three \in Byte
      BY DEF Packs, three, two, one
  <2> QED
      BY <2>1 DEF Byte
<1>7. p \in Seq(Byte) /\ Len(p) = 4
    BY <1>2, <1>3, <1>4, <1>5
<1>8. p[1] = three % 256 /\ p[2] = two % 256 /\ p[3] = one % 256
      /\ p[4] = n % 256
    OBVIOUS
<1> HIDE DEF p
<1>9. ASSUME Packs(n), NEW b, \A i \in 1..4 : b[i] = p[i]
      PROVE  Declared(b) = n
  <2>1. b[1] = three /\ b[2] = two % 256 /\ b[3] = one % 256
        /\ b[4] = n % 256
      BY <1>6, <1>8, <1>9
  <2>2. 256 * b[1] + b[2] = two
      BY <1>4, <2>1
  <2>3. 256 * (256 * b[1] + b[2]) + b[3] = one
      BY <1>3, <2>1, <2>2
  <2>4. 256 * (256 * (256 * b[1] + b[2]) + b[3]) + b[4] = n
      BY <1>2, <2>1, <2>3
  <2> QED
      BY <2>4 DEF Declared
<1> QED
    BY <1>1, <1>7, <1>9

\* What the builders of the fields make.
LEMMA FieldsTyped ==
    /\ Fields = Seq(OneField)
    /\ \A tag, n \in Nat : V(tag, n) \in OneField
    /\ \A tag \in Nat, s \in Seq(Byte) : S(tag, s) \in OneField
BY DEF Fields, OneField, V, S

\* build_rpc: eight fields, each with a tag of its own.
LEMMA HeaderIs ==
    ASSUME NEW r \in Replies
    PROVE  LET fields == HeaderFields(r)
           IN  /\ fields \in Seq(OneField) /\ Distinct(fields)
               /\ Values(fields)[4] = <<"bytes", r.method>>
               /\ Values(fields)[5] = <<"varint", r.transId>>
               /\ Values(fields)[11] =
                      <<"bytes", BlockEncrypt(Encode(r.body),
                                     SailKey(r.method, r.transId))>>
               /\ {4, 5, 11} \subseteq DOMAIN Values(fields)
               /\ BuildHeader(r) \in Seq(Byte)
               /\ Len(BuildHeader(r)) >= 1
<1> DEFINE sealed == BlockEncrypt(Encode(r.body), SailKey(r.method, r.transId))
           fields == <<V(1, 23), S(3, VERSION), S(4, r.method),
                       V(5, r.transId), V(8, 1), V(9, 1), S(11, sealed),
                       V(14, 0)>>
<1>1. /\ r.method \in Seq(Byte) /\ r.transId \in Nat
      /\ r.body \in Seq(OneField) /\ VERSION \in Seq(Byte)
    BY WireAssumption, FieldsTyped
<1>2. sealed \in Seq(Byte)
  <2>1. Encode(r.body) \in Seq(Byte)
      BY <1>1, EncodeIsBytes
  <2>2. /\ SailKey(r.method, r.transId) \in Seq(Byte)
        /\ Len(SailKey(r.method, r.transId)) = 32
      BY <1>1, SailKeyIs
  <2> QED
      BY <2>1, <2>2, EcbUndone
<1>3. HeaderFields(r) = fields
    BY DEF HeaderFields
<1> HIDE DEF sealed
<1>4. /\ V(1, 23) \in OneField /\ S(3, VERSION) \in OneField
      /\ S(4, r.method) \in OneField /\ V(5, r.transId) \in OneField
      /\ V(8, 1) \in OneField /\ V(9, 1) \in OneField
      /\ S(11, sealed) \in OneField /\ V(14, 0) \in OneField
    BY <1>1, <1>2, FieldsTyped
<1>5. fields \in Seq(OneField) /\ Len(fields) = 8
    BY <1>4
<1>6. /\ fields[1].tag = 1 /\ fields[2].tag = 3 /\ fields[3].tag = 4
      /\ fields[4].tag = 5 /\ fields[5].tag = 8 /\ fields[6].tag = 9
      /\ fields[7].tag = 11 /\ fields[8].tag = 14
    BY DEF V, S
<1>7. /\ fields[3].value = <<"bytes", r.method>>
      /\ fields[4].value = <<"varint", r.transId>>
      /\ fields[7].value = <<"bytes", sealed>>
    BY DEF V, S
<1> HIDE DEF fields
<1>8. Distinct(fields)
  <2> DEFINE t(i) == fields[i].tag
  <2>1. /\ t(1) = 1 /\ t(2) = 3 /\ t(3) = 4 /\ t(4) = 5
        /\ t(5) = 8 /\ t(6) = 9 /\ t(7) = 11 /\ t(8) = 14
      BY <1>6
  <2> HIDE DEF t
  <2>2. \A i \in 1..8 : \/ i = 1 \/ i = 2 \/ i = 3 \/ i = 4
                       \/ i = 5 \/ i = 6 \/ i = 7 \/ i = 8
      OBVIOUS
  <2>3. \A i, j \in 1..8 : t(i) = t(j) => i = j
      BY <2>1, <2>2
  <2> QED
      BY <1>5, <2>3 DEF Distinct, t
<1>9. /\ DOMAIN Values(fields) = {fields[i].tag : i \in 1..8}
      /\ \A i \in 1..8 : Values(fields)[fields[i].tag] = fields[i].value
    BY <1>5, <1>8, ValuesIs
<1>10. 3 \in 1..8 /\ 4 \in 1..8 /\ 7 \in 1..8
    OBVIOUS
<1>11. /\ Values(fields)[4] = <<"bytes", r.method>>
       /\ Values(fields)[5] = <<"varint", r.transId>>
       /\ Values(fields)[11] = <<"bytes", sealed>>
       /\ {4, 5, 11} \subseteq DOMAIN Values(fields)
    BY <1>6, <1>7, <1>9, <1>10
<1>12. BuildHeader(r) = Encode(fields) /\ Encode(fields) \in Seq(Byte)
    BY <1>3, <1>5, EncodeIsBytes DEF BuildHeader
<1>13. Len(Encode(fields)) >= 1
  <2> PICK E : Written(E, fields)
      BY <1>5, EncodeIs
  <2> DEFINE b == Encode(fields)
  <2>1. Len(b) \in Nat
      BY <1>12, LenProperties
  <2>2. At(b, 1, b)
    <3> HIDE DEF b
    <3>1. \A t \in 1..Len(b) : 1 - 1 + t = t
        BY <2>1
    <3> QED
        BY <3>1 DEF At
  <2>3. /\ Len(E[1]) <= Len(b) /\ Len(E[0]) \in Nat
        /\ Len(E[1]) = Len(E[0]) + Len(Field(fields[1]))
    <3>1. \A n \in 0..Len(fields) :
               /\ E[n] \in Seq(Byte) /\ Len(E[n]) \in Nat
               /\ Len(E[n]) <= Len(Encode(fields))
               /\ n # 0 => /\ Len(E[n]) = Len(E[n - 1]) + Len(Field(fields[n]))
                           /\ At(b, 1 + Len(E[n - 1]), Field(fields[n]))
        BY <1>5, <1>12, <2>2, FieldsInPlace
    <3>2. 1 \in 0..Len(fields) /\ 0 \in 0..Len(fields) /\ 1 # 0 /\ 1 - 1 = 0
        BY <1>5
    <3> HIDE DEF b
    <3> QED
        BY <3>1, <3>2 DEF b
  <2>4. Field(fields[1]) \in Seq(Byte) /\ Len(Field(fields[1])) >= 1
    <3>1. fields[1] \in OneField
        BY <1>5, ElementOfSeq
    <3> QED
        BY <3>1, FieldIs
  <2>5. Len(Field(fields[1])) \in Nat
      BY <2>4, LenProperties
  <2> HIDE DEF b
  <2>6. Len(b) >= 1
    <3> DEFINE x == Len(Field(fields[1]))
               y == Len(E[0])
               z == Len(b)
    <3>1. z \in Nat /\ y \in Nat /\ x \in Nat /\ x >= 1 /\ y + x <= z
        BY <2>1, <2>3, <2>4, <2>5
    <3> HIDE DEF x, y, z
    <3>2. z >= 1
        BY <3>1
    <3> QED
        BY <3>2 DEF z
  <2> QED
      BY <2>6, Zenon DEF b
<1> QED
    BY <1>3, <1>5, <1>8, <1>11, <1>12, <1>13 DEF sealed

-----------------------------------------------------------------------------
(***************************************************************************)
(* The exchange.                                                           *)
(***************************************************************************)

\* The end of a sequence is what is left of it.
LEMMA RestIs ==
    ASSUME NEW p \in Seq(Byte), NEW s \in Seq(Byte), NEW l \in 0..Len(p \o s),
           Len(p) = 4
    PROVE  LET b == SubSeq(SubSeq(p \o s, 1, l), 5, l)
           IN  /\ b \in Seq(Byte) /\ Len(b) <= Len(s) /\ At(b, 1, s)
               /\ l = Len(p \o s) => b = s
<1> DEFINE w == p \o s
           buffer == SubSeq(w, 1, l)
           b == SubSeq(buffer, 5, l)
<1>1. /\ w \in Seq(Byte) /\ Len(w) = 4 + Len(s) /\ Len(s) \in Nat
      /\ \A i \in 1..Len(s) : w[4 + i] = s[i]
  <2>1. Len(s) \in Nat
      BY LenProperties
  <2>2. /\ w \in Seq(Byte) /\ Len(w) = Len(p) + Len(s)
        /\ \A i \in 1..(Len(p) + Len(s)) :
               w[i] = IF i <= Len(p) THEN p[i] ELSE s[i - Len(p)]
      BY ConcatProperties
  <2> HIDE DEF w
  <2>3. ASSUME NEW i \in 1..Len(s) PROVE w[4 + i] = s[i]
    <3>1. /\ 4 + i \in 1..(Len(p) + Len(s)) /\ ~(4 + i <= Len(p))
          /\ (4 + i) - Len(p) = i
        BY <2>1
    <3> QED
        BY <2>2, <3>1
  <2> QED
      BY <2>1, <2>2, <2>3
<1>0. l \in Nat /\ l <= Len(w)
    BY <1>1
<1> HIDE DEF w
<1>2. buffer \in Seq(Byte) /\ Len(buffer) = l
      /\ \A i \in 1..l : buffer[i] = w[i]
  <2>1. \A i \in 1..l : w[i] \in Byte
    <3>1. \A i \in 1..l : i \in 1..Len(w)
        BY <1>0, <1>1
    <3> QED
        BY <1>1, <3>1, ElementOfSeq
  <2>2. /\ buffer \in Seq(Byte)
        /\ Len(buffer) = IF 1 <= l THEN l - 1 + 1 ELSE 0
        /\ \A i \in 1..(l - 1 + 1) : buffer[i] = w[1 + i - 1]
      BY <1>0, <2>1, SubSeqProperties
  <2> HIDE DEF buffer
  <2> QED
      BY <1>0, <2>2
<1> HIDE DEF buffer
<1>3. /\ b \in Seq(Byte) /\ Len(b) = IF 5 <= l THEN l - 4 ELSE 0
      /\ \A i \in 1..(l - 4) : b[i] = buffer[4 + i]
  <2>1. \A i \in 5..l : buffer[i] \in Byte
    <3>1. \A i \in 5..l : i \in 1..Len(buffer)
        BY <1>0, <1>2
    <3> QED
        BY <1>2, <3>1, ElementOfSeq
  <2>2. /\ b \in Seq(Byte)
        /\ Len(b) = IF 5 <= l THEN l - 5 + 1 ELSE 0
        /\ \A i \in 1..(l - 5 + 1) : b[i] = buffer[5 + i - 1]
      BY <1>0, <2>1, SubSeqProperties
  <2> HIDE DEF b
  <2>3. l - 5 + 1 = l - 4 /\ \A i \in 1..(l - 4) : 5 + i - 1 = 4 + i
      BY <1>0
  <2> QED
      BY <2>2, <2>3
<1> HIDE DEF b
<1>4. ASSUME NEW i \in 1..Len(b) PROVE i \in 1..Len(s) /\ b[i] = s[i]
  <2>1. i \in 1..(l - 4) /\ i \in 1..Len(s) /\ 4 + i \in 1..l
      BY <1>0, <1>1, <1>3
  <2> QED
      BY <1>1, <1>2, <1>3, <2>1
<1>5. Len(b) \in Nat /\ Len(b) <= Len(s)
    BY <1>0, <1>1, <1>3
<1>6. At(b, 1, s)
  <2> SUFFICES ASSUME NEW i \in 1..Len(s), 1 - 1 + i <= Len(b)
               PROVE  b[1 - 1 + i] = s[i]
      BY DEF At
  <2>1. i \in 1..Len(b) /\ 1 - 1 + i = i
      BY <1>1, <1>5
  <2> QED
      BY <1>4, <2>1
<1>7. l = Len(w) => b = s
  <2>1. l = Len(w) => Len(b) = Len(s)
      BY <1>1, <1>3
  <2> QED
      BY <1>3, <1>4, <1>5, <2>1, SeqEqual
<1> QED
    BY <1>3, <1>5, <1>6, <1>7 DEF b, buffer, w

\* A whole frame decodes to what it was made of.
LEMMA DecodeWhole ==
    ASSUME NEW r \in Replies, NEW p \in Seq(Byte), Len(p) = 4
    PROVE  DecodeResponse(p \o BuildHeader(r)) =
               [method |-> r.method, transId |-> r.transId,
                raised |-> FALSE, body |-> Values(r.body)]
<1> DEFINE h == BuildHeader(r)
           frame == p \o h
           key == SailKey(r.method, r.transId)
           plain == Encode(r.body)
           sealed == BlockEncrypt(plain, key)
           hdr == Values(HeaderFields(r))
<1>1. /\ HeaderFields(r) \in Seq(OneField)
      /\ hdr[4] = <<"bytes", r.method>> /\ hdr[5] = <<"varint", r.transId>>
      /\ hdr[11] = <<"bytes", sealed>> /\ {4, 5, 11} \subseteq DOMAIN hdr
      /\ h \in Seq(Byte) /\ Len(h) >= 1
    BY HeaderIs
<1>2. /\ r.method \in Seq(Byte) /\ r.transId \in Nat
      /\ r.body \in Seq(OneField)
    BY WireAssumption, FieldsTyped
<1>3. plain \in Seq(Byte)
    BY <1>2, EncodeIsBytes
<1>4. key \in Seq(Byte) /\ Len(key) = 32
    BY <1>2, SailKeyIs
<1>5. Parse(h) = hdr
    BY <1>1, ParseOfWhole DEF BuildHeader
<1>6. Parse(plain) = Values(r.body)
    BY <1>2, ParseOfWhole
<1> HIDE DEF h, hdr, key, plain
<1>7. Len(h) \in Nat /\ Len(frame) = 4 + Len(h) /\ frame \in Seq(Byte)
  <2>1. frame \in Seq(Byte) /\ Len(frame) = Len(p) + Len(h)
      BY <1>1, ConcatProperties
  <2> HIDE DEF frame
  <2> QED
      BY <1>1, <2>1, LenProperties
<1>8. Len(frame) > 4 /\ Len(frame) \in 0..Len(frame)
    BY <1>1, <1>7
<1>9. SubSeq(frame, 5, Len(frame)) = h
  <2>1. SubSeq(SubSeq(frame, 1, Len(frame)), 5, Len(frame)) = h
      BY <1>1, <1>8, RestIs
  <2>2. SubSeq(frame, 1, Len(frame)) = frame
      BY <1>7, SubSeqFull
  <2> QED
      BY <2>1, <2>2
<1> HIDE DEF frame
<1>10. /\ Get(hdr, 4, <<>>) = r.method /\ Get(hdr, 5, 0) = r.transId
       /\ Get(hdr, 11, <<>>) = sealed
    BY <1>1 DEF Get
<1>11. BlockDecrypt(sealed, key) = Pad(plain)
    BY <1>3, <1>4, EcbUndone
<1>12. Pad(plain) # <<>> /\ Padded(Pad(plain)) /\ Unpad(Pad(plain)) = plain
    BY <1>3, PadIs
<1>13. Opened(Pad(plain)) = [raised |-> FALSE, body |-> Values(r.body)]
    BY <1>6, <1>12 DEF Opened
<1>14. DecodeResponse(frame) =
           [method |-> Get(hdr, 4, <<>>), transId |-> Get(hdr, 5, 0),
            raised |-> Opened(Pad(plain)).raised,
            body |-> Opened(Pad(plain)).body]
  <2>1. Parse(IF Len(frame) > 4 THEN SubSeq(frame, 5, Len(frame))
                                ELSE frame) = hdr
      BY <1>5, <1>8, <1>9
  <2>2. BlockDecrypt(Get(hdr, 11, <<>>),
                     SailKey(Get(hdr, 4, <<>>), Get(hdr, 5, 0))) = Pad(plain)
      BY <1>10, <1>11 DEF key
  <2> HIDE DEF sealed
  <2> QED
      BY <2>1, <2>2, Zenon DEF DecodeResponse
<1>15. /\ Opened(Pad(plain)).raised = FALSE
       /\ Opened(Pad(plain)).body = Values(r.body)
    BY <1>13
<1> QED
    BY <1>10, <1>14, <1>15, Zenon DEF frame, h

\* What has arrived is part of what the server sends, and what is returned is
\* what it decodes to.
WireInv ==
    /\ ReadInv
    /\ reply \in [of : Replies, lie : Lies, trailer : Trailers]
    /\ wire \in Prefixes(Frame(Headers[reply.of], reply.lie) \o reply.trailer)
    /\ pc = "done" => result = DecodeResponse(buf)

\* The frame of a reply and its parts.
LEMMA SentIsBytes ==
    ASSUME NEW r \in [of : Replies, lie : Lies, trailer : Trailers]
    PROVE  LET h == BuildHeader(r.of)
               p == Prefix(4 + Len(h) + r.lie)
           IN  /\ Headers[r.of] = h /\ h \in Seq(Byte) /\ Len(h) \in Nat
               /\ p \in Seq(Byte) /\ Len(p) = 4
               /\ Frame(h, r.lie) = p \o h
               /\ p \o h \in Seq(Byte) /\ Len(p \o h) = 4 + Len(h)
               /\ (p \o h) \o r.trailer \in Seq(Byte)
<1> DEFINE h == BuildHeader(r.of)
           n == 4 + Len(h) + r.lie
           p == Prefix(n)
<1>1. r.of \in Replies /\ r.lie \in Int /\ r.trailer \in Seq(Byte)
    BY WireAssumption
<1>2. h \in Seq(Byte)
    BY <1>1, HeaderIs
<1>3. Len(h) \in Nat
    BY <1>2, LenProperties
<1>4. Headers[r.of] = h /\ Frame(h, r.lie) = p \o h
    BY <1>1 DEF Headers, Frame
<1> HIDE DEF h
<1>5. n \in Int
    BY <1>1, <1>3
<1> HIDE DEF n
<1>6. p \in Seq(Byte) /\ Len(p) = 4
    BY <1>5, PrefixIs
<1> HIDE DEF p
<1>7. p \o h \in Seq(Byte) /\ Len(p \o h) = 4 + Len(h)
  <2>1. p \o h \in Seq(Byte) /\ Len(p \o h) = Len(p) + Len(h)
      BY <1>2, <1>6, ConcatProperties
  <2> QED
      BY <1>6, <2>1
<1>8. (p \o h) \o r.trailer \in Seq(Byte)
  <2> DEFINE s == p \o h
  <2> HIDE DEF s
  <2>1. s \in Seq(Byte) => s \o r.trailer \in Seq(Byte)
      BY <1>1, ConcatProperties
  <2> QED
      BY <1>7, <2>1 DEF s
<1> QED
    BY <1>2, <1>3, <1>4, <1>6, <1>7, <1>8 DEF h, n, p

\* What has been sent before the server closes.
LEMMA PrefixOf ==
    ASSUME NEW s \in Seq(Byte), NEW t \in Prefixes(s)
    PROVE  /\ t \in Seq(Byte)
           /\ Len(t) <= Len(s) /\ Len(t) \in Nat /\ t = SubSeq(s, 1, Len(t))
<1>1. PICK l \in 0..Len(s) : t = SubSeq(s, 1, l)
    BY DEF Prefixes
<1>2. Len(s) \in Nat /\ l \in Nat /\ l <= Len(s)
    BY LenProperties
<1>3. \A i \in 1..l : s[i] \in Byte
  <2>1. \A i \in 1..l : i \in 1..Len(s)
      BY <1>2
  <2> QED
      BY <2>1, ElementOfSeq
<1> DEFINE u == SubSeq(s, 1, l)
<1>4. u \in Seq(Byte) /\ Len(u) = IF 1 <= l THEN l - 1 + 1 ELSE 0
    BY <1>2, <1>3, SubSeqProperties
<1> HIDE DEF u
<1>5. u \in Seq(Byte) /\ Len(u) = l
    BY <1>2, <1>4
<1> QED
    BY <1>1, <1>2, <1>5 DEF u

\* The invariant holds when the connection is made.
LEMMA WireInit == Init => WireInv
<1> SUFFICES ASSUME Init PROVE WireInv
    OBVIOUS
<1>1. /\ reply \in [of : Replies, lie : Lies, trailer : Trailers]
      /\ wire \in Prefixes(Frame(Headers[reply.of], reply.lie)
                               \o reply.trailer)
      /\ Connected
    BY DEF Init
<1>2. Frame(Headers[reply.of], reply.lie) \o reply.trailer \in Seq(Byte)
    BY <1>1, SentIsBytes
<1>3. wire \in Seq(Byte)
    BY <1>1, <1>2, PrefixOf
<1>4. ReadInv
    BY <1>1, <1>3, ReadInvInit
<1>5. pc = "reading"
    BY <1>1 DEF Connected
<1> QED
    BY <1>1, <1>4, <1>5 DEF WireInv

\* And every step keeps it.
LEMMA WireNext == WireInv /\ [Next]_vars => WireInv'
<1> SUFFICES ASSUME WireInv, [Next]_vars PROVE WireInv'
    OBVIOUS
<1>1. [ReadNext]_readVars
    BY DEF Next, vars, Decode, ReadNext
<1>2. ReadInv'
    BY <1>1, ReadInvNext DEF WireInv
<1>3. reply' = reply /\ wire' = wire
    BY DEF Next, vars, Decode, Return, Recv, Eof, readVars
<1>4. ASSUME pc' = "done" PROVE result' = DecodeResponse(buf')
  <2>1. CASE Recv \/ Eof
    <3>1. pc' # "done"
        BY <2>1 DEF Recv, Eof
    <3> QED
        BY <1>4, <3>1
  <2>2. CASE Decode
    <3>1. result' = DecodeResponse(buf)
        BY <1>4, <2>2 DEF Decode
    <3>2. buf' = buf
        BY <2>2 DEF Decode, Return, buf
    <3> QED
        BY <3>1, <3>2
  <2>3. CASE UNCHANGED vars
    <3>1. pc = "done" /\ result' = result /\ buf' = buf
        BY <1>4, <2>3 DEF vars, readVars, buf
    <3> QED
        BY <3>1 DEF WireInv
  <2> QED
      BY <2>1, <2>2, <2>3 DEF Next
<1>5. (wire \in Prefixes(Frame(Headers[reply.of], reply.lie)
                             \o reply.trailer))'
    BY <1>3 DEF WireInv, Headers
<1>6. (pc = "done" => result = DecodeResponse(buf))'
    BY <1>4
<1> QED
    BY <1>2, <1>3, <1>5, <1>6 DEF WireInv

\* By then the length that was declared is the length that was sent.
LEMMA WholeIsReturned == WireInv => WholeOrNothing
<1> SUFFICES ASSUME WireInv, pc = "done", reply.lie = 0,
                    reply.trailer = <<>>
             PROVE  /\ result.method = reply.of.method
                    /\ result.transId = reply.of.transId
                    /\ result.body = Values(reply.of.body)
    BY DEF WholeOrNothing
<1> DEFINE r == reply.of
           h == BuildHeader(r)
           n == 4 + Len(h)
           p == Prefix(n)
           frame == p \o h
<1>1. /\ reply \in [of : Replies, lie : Lies, trailer : Trailers]
      /\ wire \in Prefixes(Frame(Headers[r], 0) \o <<>>)
      /\ result = DecodeResponse(buf) /\ ReadInv
    BY DEF WireInv
<1>2. r \in Replies /\ Packs(n)
    BY <1>1, WireAssumption
<1>3. /\ Headers[r] = h /\ h \in Seq(Byte) /\ Len(h) \in Nat
      /\ p \in Seq(Byte) /\ Len(p) = 4
      /\ Frame(h, 0) = frame
      /\ frame \in Seq(Byte) /\ Len(frame) = n
  <2>1. \A l \in {0} : Len(h) \in Nat => 4 + Len(h) + l = n
      OBVIOUS
  <2>2. LET q == Prefix(4 + Len(h) + 0)
        IN  /\ Headers[r] = h /\ h \in Seq(Byte) /\ Len(h) \in Nat
            /\ q \in Seq(Byte) /\ Len(q) = 4
            /\ Frame(h, 0) = q \o h
            /\ q \o h \in Seq(Byte) /\ Len(q \o h) = 4 + Len(h)
      BY <1>1, SentIsBytes
  <2> HIDE DEF h
  <2>3. 4 + Len(h) + 0 = n
      BY <2>1, <2>2
  <2> QED
      BY <2>2, <2>3
<1> HIDE DEF h, r, frame, p, n
<1>4. frame \o <<>> = frame
    BY <1>3, ConcatEmptySeq
<1>5. /\ wire \in Seq(Byte) /\ Len(wire) \in Nat /\ Len(wire) <= n
      /\ wire = SubSeq(frame, 1, Len(wire))
    BY <1>1, <1>3, <1>4, PrefixOf
<1>6. got \in 0..Len(wire) /\ got >= Declared(wire) /\ got > 4
  <2>1. WholeFrames
      BY <1>1, ReadingAssumption DEF ReadInv, TypeOK, WholeFrames
  <2> QED
      BY <1>1, <2>1 DEF WholeFrames, ReadInv, TypeOK
<1>7. Declared(wire) = n
  <2>1. \A i \in 1..4 : wire[i] = p[i]
    <3> SUFFICES ASSUME NEW i \in 1..4 PROVE wire[i] = p[i]
        OBVIOUS
    <3>1. frame[i] = p[i]
      <4>1. \A j \in 1..(Len(p) + Len(h)) :
                frame[j] = IF j <= Len(p) THEN p[j] ELSE h[j - Len(p)]
          BY <1>3, ConcatProperties DEF frame
      <4>2. i \in 1..(Len(p) + Len(h)) /\ i <= Len(p)
          BY <1>3
      <4> QED
          BY <4>1, <4>2
    <3>2. SubSeq(frame, 1, Len(wire))[i] = frame[i]
      <4> DEFINE l == Len(wire)
      <4>1. l \in Nat /\ l > 4 /\ l <= Len(frame)
          BY <1>3, <1>5, <1>6
      <4> HIDE DEF l
      <4>2. \A j \in 1..l : frame[j] \in Byte
        <5>1. \A j \in 1..l : j \in 1..Len(frame)
            BY <1>3, <4>1
        <5> QED
            BY <1>3, <5>1, ElementOfSeq
      <4>3. \A j \in 1..(l - 1 + 1) : SubSeq(frame, 1, l)[j] = frame[1 + j - 1]
          BY <4>1, <4>2, SubSeqProperties
      <4>4. i \in 1..(l - 1 + 1) /\ 1 + i - 1 = i
          BY <4>1
      <4>5. SubSeq(frame, 1, l)[i] = frame[1 + i - 1]
          BY <4>3, <4>4
      <4> QED
          BY <4>4, <4>5 DEF l
    <3> QED
        BY <1>5, <3>1, <3>2
  <2>2. n \in Int
      BY <1>3 DEF n
  <2> QED
      BY <1>2, <2>1, <2>2, PrefixIs DEF p
<1>8. got = n /\ Len(wire) = n
  <2>1. n \in Int
      BY <1>3 DEF n
  <2> DEFINE l == Len(wire)
  <2>2. l \in Nat /\ l <= n /\ got \in 0..l /\ got >= n
      BY <1>5, <1>6, <1>7, Zenon
  <2> HIDE DEF l
  <2>3. got = n /\ l = n
      BY <2>1, <2>2
  <2> QED
      BY <2>3 DEF l
<1>9. buf = frame
  <2>1. wire = frame
      BY <1>3, <1>5, <1>8, SubSeqFull
  <2> QED
      BY <1>3, <1>8, <2>1, SubSeqFull DEF buf
<1>10. result = [method |-> r.method, transId |-> r.transId,
                 raised |-> FALSE, body |-> Values(r.body)]
    BY <1>1, <1>2, <1>3, <1>9, DecodeWhole DEF frame, h
<1> QED
    BY <1>10 DEF r

\* What is there of the header is a part of it.
LEMMA NothingIsMangled == WireInv => MissingNotMangled
<1> SUFFICES ASSUME WireInv, reply.trailer = <<>>
             PROVE  IsRestriction(Parse(SubSeq(buf, 5, got)), Sent[reply.of])
    BY DEF MissingNotMangled
<1> DEFINE r == reply.of
           h == BuildHeader(r)
           p == Prefix(4 + Len(h) + reply.lie)
           frame == p \o h
           fields == HeaderFields(r)
<1>1. /\ reply \in [of : Replies, lie : Lies, trailer : Trailers]
      /\ wire \in Prefixes(Frame(Headers[r], reply.lie) \o <<>>)
      /\ got \in 0..Len(wire)
    BY DEF WireInv, ReadInv, TypeOK
<1>2. r \in Replies
    BY <1>1
<1>3. /\ Headers[r] = h /\ h \in Seq(Byte) /\ Len(h) \in Nat
      /\ p \in Seq(Byte) /\ Len(p) = 4
      /\ Frame(h, reply.lie) = frame
      /\ frame \in Seq(Byte) /\ Len(frame) = 4 + Len(h)
    BY <1>1, SentIsBytes
<1>4. fields \in Seq(OneField) /\ Distinct(fields) /\ h = Encode(fields)
    BY <1>2, HeaderIs DEF BuildHeader
<1>5. Sent[r] = Values(fields)
    BY <1>2 DEF Sent
<1> HIDE DEF r, h, p, frame, fields
<1>6. frame \o <<>> = frame
    BY <1>3, ConcatEmptySeq
<1>7. /\ wire \in Seq(Byte) /\ Len(wire) \in Nat
      /\ Len(wire) <= Len(frame)
      /\ wire = SubSeq(frame, 1, Len(wire))
    BY <1>1, <1>3, <1>6, PrefixOf
<1>8. buf = SubSeq(frame, 1, got) /\ got \in 0..Len(frame)
  <2>1. got \in 0..Len(frame)
      BY <1>1, <1>3, <1>7
  <2>2. SubSeq(wire, 1, got) = SubSeq(frame, 1, got)
    <3>1. CASE got = 0
        BY <3>1, SubSeqEmpty
    <3>2. CASE got # 0
      <4> DEFINE l == Len(wire)
      <4>1. /\ 1 \in 1..Len(frame) /\ l \in 1..Len(frame)
            /\ 1 \in 1..(l - 1 + 1) /\ got \in 1..(l - 1 + 1)
            /\ 1 + 1 - 1 = 1 /\ 1 + got - 1 = got
          BY <1>1, <1>3, <1>7, <3>2
      <4> HIDE DEF l
      <4>2. SubSeq(SubSeq(frame, 1, l), 1, got) =
                SubSeq(frame, 1 + 1 - 1, 1 + got - 1)
          BY <1>3, <4>1, SubSeqOfSubSeq
      <4> QED
          BY <1>7, <4>1, <4>2 DEF l
    <3> QED
        BY <3>1, <3>2
  <2> QED
      BY <2>1, <2>2 DEF buf
<1> DEFINE b == SubSeq(SubSeq(frame, 1, got), 5, got)
<1>9. b \in Seq(Byte) /\ Len(b) <= Len(h) /\ At(b, 1, h)
    BY <1>3, <1>8, RestIs DEF frame
<1> HIDE DEF b
<1>10. IsRestriction(Parse(b), Values(fields))
    BY <1>4, <1>9, ParseOfPart
<1> QED
    BY <1>5, <1>8, <1>10 DEF b, r

\* The invariant of the exchange.
LEMMA WireKeepsInv == Spec => []WireInv
BY WireInit, WireNext, PTL DEF Spec

\* The exchange is Reading's: nothing it adds changes what the loop does.
THEOREM WireReads == Spec => ReadSpec
<1>1. Init => wire \in Seq(Byte) /\ Connected
  <2>1. Init => Connected
      BY DEF Init
  <2>2. WireInv => wire \in Seq(Byte)
      BY DEF WireInv, ReadInv, TypeOK
  <2> QED
      BY <2>1, <2>2, WireInit
<1>2. [Next]_vars => [ReadNext]_readVars
    BY DEF Next, vars, Decode, ReadNext
<1> QED
    BY <1>1, <1>2, PTL DEF Spec, ReadSpec

\* What _tcp_rpc returns is what the server sent, whatever pieces it came in.
THEOREM ReplyIsWhole == Spec => []WholeOrNothing
BY WireKeepsInv, WholeIsReturned, PTL

\* Wherever a header is cut off, the fields found have the values sent.
THEOREM FieldsAreSent == Spec => []MissingNotMangled
BY WireKeepsInv, NothingIsMangled, PTL

=============================================================================
