------------------------------ MODULE Twofish ------------------------------
(***************************************************************************)
(* twofish.py: the block cipher of the p2p control channel.                *)
(*                                                                         *)
(* A byte is a number below 256, a word its four bytes, the lowest first:  *)
(* that is how the code reads words from bytes, and a word is more than    *)
(* TLC's integers hold.  Sequences are counted from 1, the code's lists    *)
(* from 0.  The tables are constants, worked out once.                     *)
(***************************************************************************)
EXTENDS Integers, Sequences

Bytes == 0..255

\* The first n values of f, each worked out once.
List(n, f) == SubSeq(f, 1, n)

\* The word of four bytes, as a tuple.
Word(bytes) == <<bytes[1], bytes[2], bytes[3], bytes[4]>>

Powers == <<1, 2, 4, 8, 16, 32, 64, 128>>
Bit(n, i) == (n \div Powers[i]) % 2

\* Exclusive or, of bytes and of words.
Xor == [a \in Bytes |-> [b \in Bytes |->
           LET At(i) == IF Bit(a, i) = Bit(b, i) THEN 0 ELSE Powers[i]
           IN  At(1) + At(2) + At(3) + At(4) + At(5) + At(6) + At(7) + At(8)]]
XorOf4(a, b, c, d) == Xor[Xor[a][b]][Xor[c][d]]
XorWord(x, y) == Word([i \in 1..4 |-> Xor[x[i]][y[i]]])

\* Addition modulo 2^32.
Add(x, y) ==
    LET one   == x[1] + y[1]
        two   == x[2] + y[2] + one \div 256
        three == x[3] + y[3] + two \div 256
        four  == x[4] + y[4] + three \div 256
    IN  <<one % 256, two % 256, three % 256, four % 256>>

\* _rol by 1 and by 8, _ror by 1.
Rol1(x) ==
    LET Left(i, low) == (2 * x[i] + x[low] \div 128) % 256
    IN  <<Left(1, 4), Left(2, 1), Left(3, 2), Left(4, 3)>>
Ror1(x) ==
    LET Right(i, high) == x[i] \div 2 + 128 * (x[high] % 2)
    IN  <<Right(1, 2), Right(2, 3), Right(3, 4), Right(4, 1)>>
Rol8(x) == <<x[4], x[1], x[2], x[3]>>

\* _gfm: the product of two polynomials over GF(2), modulo p.
Doubled(a, p) == IF a < 128 THEN 2 * a ELSE Xor[2 * a - 256][p - 256]
Gfm(a, b, p) ==
    LET After(x, bit) ==
            <<IF bit = 1 THEN Xor[x[1]][x[2]] ELSE x[1], Doubled(x[2], p)>>
        loop[i \in 0..8] ==    \* r and a, after i bits of b
            IF i = 0 THEN <<0, a>>
            ELSE After(loop[i - 1], Bit(b, i))
    IN  loop[8][1]

-----------------------------------------------------------------------------
(***************************************************************************)
(* The fixed permutations and matrices.                                    *)
(***************************************************************************)

Q0 == <<<<8,1,7,13,6,15,3,2,0,11,5,9,14,12,10,4>>,
        <<14,12,11,8,1,2,3,5,15,4,10,6,7,0,9,13>>,
        <<11,10,5,14,6,13,9,0,12,8,15,3,2,4,7,1>>,
        <<13,7,15,4,1,2,6,14,9,11,3,0,8,5,12,10>>>>
Q1 == <<<<2,8,11,13,15,7,6,14,3,1,9,4,0,10,12,5>>,
        <<1,14,2,11,4,12,3,7,6,13,10,5,15,9,0,8>>,
        <<4,12,7,5,1,6,9,10,0,14,13,8,2,11,3,15>>,
        <<11,9,5,1,12,3,13,14,6,4,7,15,2,0,8,10>>>>

\* _qp: a byte through the two rounds of a permutation, half by half.
Mix(a, b) ==
    <<Xor[a][b], Xor[a][Xor[b \div 2 + 8 * (b % 2)][8 * (a % 2)]]>>
Qp(t, x) ==
    LET Again(m) == Mix(t[1][m[1] + 1], t[2][m[2] + 1])
        Whole(n) == 16 * t[4][n[2] + 1] + t[3][n[1] + 1]
    IN  Whole(Again(Mix(x \div 16, x % 16)))

Q == <<[x \in Bytes |-> Qp(Q0, x)], [x \in Bytes |-> Qp(Q1, x)]>>

MDS == <<<<1, 239, 91, 91>>, <<91, 239, 239, 1>>,
         <<239, 91, 1, 239>>, <<239, 1, 239, 91>>>>
MDSTimes == [m \in {1, 91, 239} |-> [x \in Bytes |-> Gfm(m, x, 361)]]

RS == <<<<1, 164, 85, 135, 90, 88, 219, 158>>,
        <<164, 86, 130, 243, 30, 198, 104, 229>>,
        <<2, 161, 252, 193, 71, 174, 61, 25>>,
        <<164, 85, 135, 90, 88, 219, 158, 3>>>>

\* _SEL: which permutation each byte goes through at each of the five stages.
SEL == <<<<1, 1, 0, 0, 1>>, <<0, 1, 1, 0, 0>>,
         <<0, 0, 0, 1, 1>>, <<1, 0, 1, 1, 0>>>>

-----------------------------------------------------------------------------
(***************************************************************************)
(* The key and the rounds.  k is the number of words in L.                 *)
(***************************************************************************)

\* The matrix, from column to column.
Spread(z) ==
    LET m(col, row) == MDSTimes[MDS[col][row]][z[row]]
    IN  Word([col \in 1..4 |->
                 XorOf4(m(col, 1), m(col, 2), m(col, 3), m(col, 4))])

\* The two sums a round and a pair of the key's words are made of.
Pht(a, b) == <<Add(a, b), Add(a, Add(b, b))>>

\* Byte c at stage s, from 1 to 4: a key of k words leaves out the first stages,
\* those of the words it does not have.  The fifth is for every key.
Stage(byte, L, k, c, s) ==
    IF s <= 4 - k THEN byte ELSE Xor[Q[SEL[c][s] + 1][byte]][L[5 - s][c]]
Stages(byte, L, k, c) ==
    LET Then(b, s) == Stage(b, L, k, c, s)
    IN  Q[SEL[c][5] + 1][Then(Then(Then(Then(byte, 1), 2), 3), 4)]

\* _h
H(x, L, k) == Spread(Word([c \in 1..4 |-> Stages(x[c], L, k, c)]))

\* The words of the rounds, two by two: Me and Mo are the key's even and odd
\* words.
RoundKeys(Me, Mo, k) ==
    LET A(i) == H(Word([c \in 1..4 |-> 2 * i]), Me, k)
        B(i) == Rol8(H(Word([c \in 1..4 |-> 2 * i + 1]), Mo, k))
        Half(pair, n) == IF n % 2 = 1 THEN pair[1] ELSE Rol1(Rol8(pair[2]))
        Keys(sums) == List(40, [n \in 1..40 |->
                                   Half(sums[(n + 1) \div 2], n)])
    IN  Keys(List(20, [i \in 1..20 |-> Pht(A(i - 1), B(i - 1))]))

\* The words of the s-boxes, one for eight bytes of the key, the last first.
BoxWords(key, k) ==
    LET v(i, col, row) == Gfm(RS[col][row], key[8 * (k - i) + row], 333)
    IN  List(k, [i \in 1..k |-> Word([col \in 1..4 |->
            Xor[XorOf4(v(i, col, 1), v(i, col, 2), v(i, col, 3), v(i, col, 4))]
               [XorOf4(v(i, col, 5), v(i, col, 6), v(i, col, 7), v(i, col, 8))]
            ])])

\* Twofish.__init__
Schedule(key) ==
    LET k    == Len(key) \div 8
        w(i) == Word([c \in 1..4 |-> key[4 * i + c]])
    IN  [k |-> k,
         K |-> RoundKeys([i \in 1..k |-> w(2 * i - 2)],
                         [i \in 1..k |-> w(2 * i - 1)], k),
         S |-> BoxWords(key, k)]

\* The four words of a block, and back: a block cut short reads as if zeros
\* followed.
Split(block) ==
    LET at(n) == IF n <= Len(block) THEN block[n] ELSE 0
    IN  <<<<at(1), at(2), at(3), at(4)>>, <<at(5), at(6), at(7), at(8)>>,
          <<at(9), at(10), at(11), at(12)>>,
          <<at(13), at(14), at(15), at(16)>>>>
Joined(R) == [n \in 1..16 |-> R[(n + 3) \div 4][1 + ((n + 3) % 4)]]

\* The words with those of the key from word i on.
Whitened(R, tf, i) ==
    <<XorWord(R[1], tf.K[i + 1]), XorWord(R[2], tf.K[i + 2]),
      XorWord(R[3], tf.K[i + 3]), XorWord(R[4], tf.K[i + 4])>>

Swapped(R) == <<R[3], R[4], R[1], R[2]>>

\* Mutant: the words of the rounds begin a place late.
FFromNine(R, tf, r) ==
    LET keyed(p) == <<Add(p[1], tf.K[2 * r + 10]), Add(p[2], tf.K[2 * r + 9])>>
    IN  keyed(Pht(H(R[1], tf.S, tf.k), H(Rol8(R[2]), tf.S, tf.k)))

\* What round r adds to the third and fourth words.
F(R, tf, r) ==
    LET keyed(p) == <<Add(p[1], tf.K[2 * r + 9]), Add(p[2], tf.K[2 * r + 10])>>
    IN  keyed(Pht(H(R[1], tf.S, tf.k), H(Rol8(R[2]), tf.S, tf.k)))

\* A round, and what undoes it.
Forward(R, tf, r) ==
    LET With(f) == <<Ror1(XorWord(R[3], f[1])), XorWord(Rol1(R[4]), f[2]),
                     R[1], R[2]>>
    IN  With(F(R, tf, r))
Backward(R, tf, r) ==
    LET With(f) == <<XorWord(Rol1(R[3]), f[1]), Ror1(XorWord(R[4], f[2])),
                     R[1], R[2]>>
    IN  With(F(R, tf, r))

Encipher(R, tf) ==
    LET done[r \in 0..16] ==
            IF r = 0 THEN R ELSE Forward(done[r - 1], tf, r - 1)
    IN  done[16]
Decipher(R, tf) ==
    LET undone[r \in 0..16] ==
            IF r = 0 THEN R ELSE Backward(undone[r - 1], tf, 16 - r)
    IN  undone[16]

Encrypt(tf, block) ==
    Joined(Whitened(Swapped(Encipher(Whitened(Split(block), tf, 0), tf)),
                    tf, 4))
Decrypt(tf, block) ==
    Joined(Whitened(Swapped(Decipher(Whitened(Split(block), tf, 4), tf)),
                    tf, 0))

-----------------------------------------------------------------------------
Zeros == [i \in 1..16 |-> 0]

\* The vectors of the main block: a key and the cipher of sixteen zeros.
Key24 == <<1, 35, 69, 103, 137, 171, 205, 239, 254, 220, 186, 152,
           118, 84, 50, 16, 0, 17, 34, 51, 68, 85, 102, 119>>
Vectors ==
    {<<Zeros, <<159, 88, 159, 92, 246, 18, 44, 50,
                182, 191, 236, 47, 42, 232, 195, 90>> >>,
     <<Key24, <<207, 209, 210, 229, 169, 190, 156, 223,
                80, 31, 19, 184, 146, 189, 34, 72>> >>,
     <<Key24 \o <<136, 153, 170, 187, 204, 221, 238, 255>>,
              <<55, 82, 123, 224, 5, 35, 52, 184,
                159, 12, 252, 202, 232, 124, 250, 32>> >>}

\* The cipher gives the vectors' answers, with a key of each size, and Decrypt
\* undoes it.
Answers ==
    LET Undone(tf, cipher) ==
            Encrypt(tf, Zeros) = cipher /\ Decrypt(tf, cipher) = Zeros
    IN  \A v \in Vectors : Undone(Schedule(v[1]), v[2])

=============================================================================
