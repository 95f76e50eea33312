------------------------------- MODULE Keccak -------------------------------
(***************************************************************************)
(* Keccak-256 as forager-addr computes it, at its real width, and below it *)
(* the definition of the hash in bits that it is to agree with.            *)
(***************************************************************************)
EXTENDS Bits

LOCAL INSTANCE SequencesExt
LOCAL INSTANCE FiniteSets
LOCAL INSTANCE Functions

Lane == 64
RATE == 136

RC == <<{0}, {1, 7, 15}, {1, 3, 7, 15, 63}, {15, 31, 63}, {0, 1, 3, 7, 15}, {0, 31},
        {0, 7, 15, 31, 63}, {0, 3, 15, 63}, {1, 3, 7}, {3, 7}, {0, 3, 15, 31}, {1, 3, 31},
        {0, 1, 3, 7, 15, 31}, {0, 1, 3, 7, 63}, {0, 3, 7, 15, 63}, {0, 1, 15, 63}, {1, 15, 63}, {7, 63},
        {1, 3, 15}, {1, 3, 31, 63}, {0, 7, 15, 31, 63}, {7, 15, 63}, {0, 31}, {3, 15, 31, 63}>>

ROT == <<0, 1, 62, 28, 27,
         36, 44, 6, 55, 20,
         3, 10, 43, 25, 39,
         41, 45, 15, 21, 8,
         18, 2, 61, 56, 14>>

\* Lane (x, y) of a state, x and y from 0, modulo 5.
At(x, y) == (x % 5) + 5 * y + 1
Columns  == <<0, 1, 2, 3, 4>>
Lanes    == [i \in 1..25 |-> [x |-> (i - 1) % 5, y |-> (i - 1) \div 5]]

State    == [1..25 -> SUBSET (0..(Lane - 1))]

Round[state \in State, rc \in Range(RC)] ==
    LET c == Evaluated([i \in 1..5 |-> FoldLeft(LAMBDA acc, y : Xor(acc, state[At(i - 1, y)]), {}, Columns)])
        d == Evaluated([i \in 1..5 |-> Xor(c[At(i + 3, 0)], RotateLeft(c[At(i, 0)], 1, Lane))])
        t == Evaluated([i \in 1..25 |-> Xor(state[i], d[Lanes[i].x + 1])])
        b == Evaluated([i \in 1..25 |->
                LET from == CHOOSE k \in 1..25 : i = At(Lanes[k].y, (2 * Lanes[k].x + 3 * Lanes[k].y) % 5)
                IN  RotateLeft(t[from], ROT[from], Lane)])
        a == Evaluated([i \in 1..25 |->
                LET x == Lanes[i].x  y == Lanes[i].y
                IN  Xor(b[i], Not(b[At(x + 1, y)], Lane) \cap b[At(x + 2, y)])])
    IN  [a EXCEPT ![1] = Xor(@, rc)]

\* keccak_f from round j on.
Rounds[state \in State, j \in 1..25] == IF j = 25 THEN state ELSE Rounds[Round[state, RC[j]], j + 1]
keccak_f(state) == Rounds[state, 1]

xor_rate_block(state, block) ==
    Evaluated([i \in 1..25 |-> IF i <= RATE \div 8 THEN Xor(state[i], FromLe(SubSeq(block, 8 * i - 7, 8 * i)))
                                               ELSE state[i]])

\* Mutation: the terminating bit is written over what is there, not added to it.
LastBlockStored(tail) ==
    [i \in 1..RATE |-> IF i = RATE THEN 2^7
                       ELSE IF i <= Len(tail) THEN tail[i]
                       ELSE IF i = Len(tail) + 1 THEN 1 ELSE 0]

\* tail || 0x01 || 0.. || 0x80, where the first and the last byte of the padding may be one.
LastBlock(tail) ==
    [i \in 1..RATE |-> (IF i <= Len(tail) THEN tail[i] ELSE IF i = Len(tail) + 1 THEN 1 ELSE 0)
                        + (IF i = RATE THEN 2^7 ELSE 0)]

keccak256(data) ==
    LET whole == Len(data) \div RATE
        absorbed == FoldLeft(LAMBDA s, k :
                                keccak_f(xor_rate_block(s, SubSeq(data, RATE * (k - 1) + 1, RATE * k))),
                             [i \in 1..25 |-> {}], [k \in 1..whole |-> k])
        last == LastBlock(SubSeq(data, RATE * whole + 1, Len(data)))
        state == keccak_f(xor_rate_block(absorbed, last))
    IN  ToLe(state[1], 8) \o ToLe(state[2], 8) \o ToLe(state[3], 8) \o ToLe(state[4], 8)

-----------------------------------------------------------------------------
(* The definition (keccak.team/keccak_specs_summary), in bits and without  *)
(* its tables: bit (x, y, z) of the state is 64 * (x + 5 * y) + z.         *)

LOCAL Column(q)      == ((q \div 64) % 5) + 5 * (q % 64)
LOCAL Beside(q, n)   == 320 * (q \div 320) + ((q + 64 * n) % 320)
LOCAL Theta(a) ==
    LET odd == {c \in 0..319 : Cardinality({y \in 0..4 : 64 * ((c % 5) + 5 * y) + (c \div 5) \in a}) % 2 = 1}
    IN  {q \in 0..1599 :
            (q \in a) # ((Column(Beside(q, 4)) \in odd) #
                         (5 * ((q + 63) % 64) + (Column(Beside(q, 1)) % 5) \in odd))}

\* The walk from lane (1, 0) through all but (0, 0) gives each its rotation.
LOCAL Moved(p) == <<p[2], (2 * p[1] + 3 * p[2]) % 5>>
LOCAL Walk == FoldLeft(LAMBDA ps, k : Append(ps, Moved(ps[k])), <<<<1, 0>>>>, [k \in 1..23 |-> k])
LOCAL Offset ==
    Evaluated([i \in 1..25 |-> IF i = 1 THEN 0
                           ELSE LET t == CHOOSE t \in 1..24 : Walk[t] = <<(i - 1) % 5, (i - 1) \div 5>>
                                IN  ((t * (t + 1)) \div 2) % 64])
LOCAL RhoPi(a) ==
    {LET lane == q \div 64
         to   == Moved(<<lane % 5, lane \div 5>>)
     IN  64 * (to[1] + 5 * to[2]) + ((q + Offset[lane + 1]) % 64) : q \in a}

LOCAL Chi(a) == {q \in 0..1599 : (q \in a) # (Beside(q, 1) \notin a /\ Beside(q, 2) \in a)}

\* The register x^(7 * round) modulo x^8 + x^6 + x^5 + x^4 + 1 gives a round its bits.
LOCAL Stepped(r)  == IF 7 \in r THEN Xor(Shl(r, 1), {8, 6, 5, 4, 0}) ELSE Shl(r, 1)
LOCAL Register(from, n) == FoldLeft(LAMBDA r, k : Stepped(r), from, [k \in 1..n |-> k])
LOCAL Registers == FoldLeft(LAMBDA rs, k : Append(rs, Register(rs[k], 7)), <<{0}>>, [k \in 1..23 |-> k])
LOCAL Iotas     == Evaluated([k \in 1..24 |-> {2^j - 1 : j \in {j \in 0..6 : 0 \in Register(Registers[k], j)}}])

LOCAL Permuted[a \in SUBSET (0..1599), j \in 1..25] ==
    IF j = 25 THEN a ELSE Permuted[Xor(Chi(RhoPi(Theta(a))), Iotas[j]), j + 1]

\* The sponge over M 1 0* 1.
KeccakDefinition(data) ==
    LET bits   == 8 * Len(data)
        rate   == 8 * RATE
        blocks == bits \div rate + (IF (bits % rate) + 2 > rate THEN 2 ELSE 1)
        padded == FromLe(data) \cup {bits, blocks * rate - 1}
        block(k) == Truncated(Shr(padded, rate * (k - 1)), rate)
    IN  ToLe(FoldLeft(LAMBDA a, k : Permuted[Xor(a, block(k)), 1], {}, [k \in 1..blocks |-> k]), 32)
=============================================================================
