------------------------------ MODULE Ripemd160 ------------------------------
(***************************************************************************)
(* RIPEMD-160 as forager-wallet computes it, at its real width, and below  *)
(* it what its design says of the tables and of the padding.               *)
(***************************************************************************)
EXTENDS Bits

LOCAL INSTANCE SequencesExt

Word      == 32
Hex(a, b) == Shl(BitsOf(a, 16), 16) \cup BitsOf(b, 16)     \* 0xaaaa_bbbb

RL == <<0, 1, 2, 3, 4, 5, 6, 7, 8, 9, 10, 11, 12, 13, 14, 15,
        7, 4, 13, 1, 10, 6, 15, 3, 12, 0, 9, 5, 2, 14, 11, 8,
        3, 10, 14, 4, 9, 15, 8, 1, 2, 7, 0, 6, 13, 11, 5, 12,
        1, 9, 11, 10, 0, 8, 12, 4, 13, 3, 7, 15, 14, 5, 6, 2,
        4, 0, 5, 9, 7, 12, 2, 10, 14, 1, 3, 8, 11, 6, 15, 13>>
RR == <<5, 14, 7, 0, 9, 2, 11, 4, 13, 6, 15, 8, 1, 10, 3, 12,
        6, 11, 3, 7, 0, 13, 5, 10, 14, 15, 8, 12, 4, 9, 1, 2,
        15, 5, 1, 3, 7, 14, 6, 9, 11, 8, 12, 2, 10, 0, 4, 13,
        8, 6, 4, 1, 3, 11, 15, 0, 5, 12, 2, 13, 9, 7, 10, 14,
        12, 15, 10, 4, 1, 5, 8, 7, 6, 2, 13, 14, 0, 3, 9, 11>>
SL == <<11, 14, 15, 12, 5, 8, 7, 9, 11, 13, 14, 15, 6, 7, 9, 8,
        7, 6, 8, 13, 11, 9, 7, 15, 7, 12, 15, 9, 11, 7, 13, 12,
        11, 13, 6, 7, 14, 9, 13, 15, 14, 8, 13, 6, 5, 12, 7, 5,
        11, 12, 14, 15, 14, 15, 9, 8, 9, 14, 5, 6, 8, 6, 5, 12,
        9, 15, 5, 11, 6, 8, 13, 12, 5, 12, 13, 14, 11, 8, 5, 6>>
SR == <<8, 9, 9, 11, 13, 15, 15, 5, 7, 7, 8, 11, 14, 14, 12, 6,
        9, 13, 15, 7, 12, 8, 9, 11, 7, 7, 12, 7, 6, 15, 13, 11,
        9, 7, 15, 11, 8, 6, 6, 14, 12, 13, 5, 14, 13, 13, 7, 5,
        15, 5, 8, 11, 14, 14, 6, 14, 6, 9, 12, 9, 12, 5, 15, 8,
        8, 5, 12, 9, 12, 5, 14, 6, 8, 13, 6, 5, 15, 13, 11, 11>>

KL == <<{}, Hex(\h5a82, \h7999), Hex(\h6ed9, \heba1), Hex(\h8f1b, \hbcdc), Hex(\ha953, \hfd4e)>>
KR == <<Hex(\h50a2, \h8be6), Hex(\h5c4d, \hd124), Hex(\h6d70, \h3ef3), Hex(\h7a6d, \h76e9), {}>>

f(j, x, y, z) ==
    CASE j \in 0..15  -> Xor(Xor(x, y), z)
      [] j \in 16..31 -> (x \cap y) \cup (Not(x, Word) \cap z)
      [] j \in 32..47 -> Xor(x \cup Not(y, Word), z)
      [] j \in 48..63 -> (x \cap z) \cup (y \cap Not(z, Word))
      [] OTHER        -> Xor(x, y \cup Not(z, Word))

Add(a, b) == WrappingAdd(a, b, Word)

\* One step of a line, of its registers <<a, b, c, d, e>>.
LineStep(h, fj, word, constant, s) ==
    LET t == Add(RotateLeft(Add(Add(Add(h[1], f(fj, h[2], h[3], h[4])), word), constant), s, Word), h[5])
    IN  <<h[5], t, h[2], RotateLeft(h[3], 10, Word), h[4]>>

\* The 80 steps of both lines, from step j on.
Block     == [1..16 -> SUBSET (0..(Word - 1))]
Registers == [1..5 -> SUBSET (0..(Word - 1))]
Lines[x \in Block, l \in Registers, r \in Registers, j \in 0..80] ==
    IF j = 80 THEN <<l, r>>
    ELSE LET round == (j \div 16) + 1
         IN  Lines[x, LineStep(l, j, x[RL[j + 1] + 1], KL[round], SL[j + 1]),
                      LineStep(r, 79 - j, x[RR[j + 1] + 1], KR[round], SR[j + 1]), j + 1]

compress(h, block) ==
    LET after == Lines[[i \in 1..16 |-> FromLe(SubSeq(block, 4 * i - 3, 4 * i))], h, h, 0]
        l == after[1]
        r == after[2]
    IN  <<Add(Add(h[2], l[3]), r[4]), Add(Add(h[3], l[4]), r[5]), Add(Add(h[4], l[5]), r[1]),
          Add(Add(h[5], l[1]), r[2]), Add(Add(h[1], l[2]), r[3])>>

\* Mutation: where no zero is needed a whole block of them is put in.
PadZerosStrict(len) == LET used == (len + 1) % 64 IN IF used < 56 THEN 56 - used ELSE 120 - used

pad_zeros(len) == LET used == (len + 1) % 64 IN IF used <= 56 THEN 56 - used ELSE 120 - used

\* The bit count is a u64; no message here has 2^32 bits.
PaddedMessage(data) ==
    data \o <<128>> \o [i \in 1..pad_zeros(Len(data)) |-> 0] \o ToLe(BitsOf(8 * Len(data), 31), 8)

ripemd160(data) ==
    LET message == PaddedMessage(data)
        h0 == <<Hex(\h6745, \h2301), Hex(\hefcd, \hab89), Hex(\h98ba, \hdcfe),
                Hex(\h1032, \h5476), Hex(\hc3d2, \he1f0)>>
        h  == FoldLeft(LAMBDA s, k : compress(s, SubSeq(message, 64 * k - 63, 64 * k)), h0,
                       [k \in 1..(Len(message) \div 64) |-> k])
    IN  ToLe(h[1], 4) \o ToLe(h[2], 4) \o ToLe(h[3], 4) \o ToLe(h[4], 4) \o ToLe(h[5], 4)

-----------------------------------------------------------------------------
(* The design (Dobbertin, Bosselaers, Preneel): the order of the words is  *)
(* made from two permutations, a word is rotated alike in both lines, and  *)
(* the registers stay in place while their roles move on.                  *)

LOCAL Rho       == <<7, 4, 13, 1, 10, 6, 15, 3, 12, 0, 9, 5, 2, 14, 11, 8>>
LOCAL Times(i, round) == FoldLeft(LAMBDA k, n : Rho[k + 1], i, [n \in 1..round |-> n])
LOCAL LeftWord  == Evaluated([j \in 1..80 |-> Times((j - 1) % 16, (j - 1) \div 16)])
LOCAL RightWord == Evaluated([j \in 1..80 |-> Times((9 * ((j - 1) % 16) + 5) % 16, (j - 1) \div 16)])
LOCAL Rotation  == <<<<11, 14, 15, 12, 5, 8, 7, 9, 11, 13, 14, 15, 6, 7, 9, 8>>,
                     <<12, 13, 11, 15, 6, 9, 9, 7, 12, 15, 11, 13, 7, 8, 7, 7>>,
                     <<13, 15, 14, 11, 7, 7, 6, 8, 13, 14, 13, 12, 5, 5, 6, 9>>,
                     <<14, 11, 12, 14, 8, 6, 5, 5, 15, 12, 15, 14, 9, 9, 8, 6>>,
                     <<15, 12, 13, 13, 9, 5, 8, 6, 14, 11, 12, 11, 8, 6, 5, 5>>>>

LOCAL F(n, x, y, z) == f(16 * (n - 1), x, y, z)
LOCAL Line[x \in Block, left \in BOOLEAN, v \in Registers, j \in 1..81] ==
    IF j = 81 THEN v
    ELSE LET role(k) == ((k + 400 - j) % 5) + 1
             round == ((j - 1) \div 16) + 1
             word  == (IF left THEN LeftWord ELSE RightWord)[j] + 1
             mixed == Add(Add(Add(v[role(1)],
                                  F(IF left THEN round ELSE 6 - round, v[role(2)], v[role(3)], v[role(4)])),
                              x[word]),
                          (IF left THEN KL ELSE KR)[round])
         IN  Line[x, left, [v EXCEPT ![role(1)] = Add(RotateLeft(mixed, Rotation[round][word], Word), v[role(5)]),
                                     ![role(3)] = RotateLeft(@, 10, Word)], j + 1]

\* Bits: the message, a one, zeros up to 448 modulo 512, and the length.
RipemdDefinition(data) ==
    LET bits   == 8 * Len(data)
        blocks == (bits + 65 + 511) \div 512
        padded == FromLe(data) \cup {bits + 7} \cup Shl(BitsOf(bits, 31), 512 * blocks - 64)
        word(n, i) == Truncated(Shr(padded, 512 * (n - 1) + 32 * (i - 1)), 32)
        step(h, n) ==
            LET x == Evaluated([i \in 1..16 |-> word(n, i)])
                l == Line[x, TRUE, h, 1]
                r == Line[x, FALSE, h, 1]
                to(k) == ((k - 1) % 5) + 1
            IN  Evaluated([k \in 1..5 |-> Add(Add(h[to(k + 1)], l[to(k + 2)]), r[to(k + 3)])])
        start == <<Hex(\h6745, \h2301), Hex(\hefcd, \hab89), Hex(\h98ba, \hdcfe),
                   Hex(\h1032, \h5476), Hex(\hc3d2, \he1f0)>>
        last  == FoldLeft(step, start, [n \in 1..blocks |-> n])
    IN  [k \in 1..20 |-> ToLe(last[((k - 1) \div 4) + 1], 4)[((k - 1) % 4) + 1]]
=============================================================================
