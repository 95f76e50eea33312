----------------------------- MODULE Poseidon2b -----------------------------
(***************************************************************************)
(* The hash of NOID, with the real rounds, matrices and round constants,   *)
(* over a field of BITS bits that all of them lie in: the state is kept in *)
(* one basis of the field, "flat", what goes in and comes out is in        *)
(* another, "tower". Below it the reference, which knows the tower only.   *)
(***************************************************************************)
EXTENDS NoidField

LOCAL INSTANCE SequencesExt
LOCAL INSTANCE FiniteSetsExt

CONSTANTS
    TOWER_TO_FLAT,   \* the image of each basis element, BITS rows
    FLAT_TO_TOWER,
    TowerTimes(_, _) \* the product in the tower, for the reference: the code never multiplies there

T == 4
FULL_ROUNDS    == 8
PARTIAL_ROUNDS == 58
ROUNDS         == FULL_ROUNDS + PARTIAL_ROUNDS
PARTIAL        == (FULL_ROUNDS \div 2)..(FULL_ROUNDS \div 2 + PARTIAL_ROUNDS - 1)

RC_TOWER == <<
  <<0, 1, 0, 3, 7, 7, 6, 6, 2, 1, 7, 2, 2, 3, 3, 2, 6, 5, 7, 5, 0, 2, 2, 3, 1, 5, 2, 6, 1, 4, 1, 0, 3,
    7, 2, 0, 1, 2, 4, 1, 0, 0, 2, 5, 7, 2, 0, 4, 1, 5, 5, 1, 2, 7, 3, 1, 0, 1, 3, 7, 1, 6, 1, 6, 6, 2>>,
  <<3, 3, 0, 6, 7, 1, 1, 2, 7, 3, 7, 5, 7, 1, 7, 3, 6, 1, 7, 5, 5, 5, 7, 1, 6, 5, 1, 2, 6, 3, 5, 4, 4,
    6, 3, 2, 3, 0, 4, 1, 0, 6, 1, 7, 6, 7, 1, 6, 4, 1, 4, 0, 4, 3, 4, 0, 3, 0, 0, 7, 3, 2, 3, 5, 0, 2>>,
  <<6, 0, 5, 3, 2, 5, 6, 5, 6, 7, 2, 7, 6, 4, 1, 0, 6, 3, 2, 6, 2, 1, 5, 3, 1, 7, 7, 6, 7, 1, 1, 4, 4,
    4, 6, 2, 5, 4, 0, 3, 1, 4, 1, 6, 1, 6, 7, 7, 6, 2, 7, 3, 3, 3, 0, 2, 6, 4, 0, 0, 0, 3, 1, 4, 1, 5>>,
  <<7, 1, 1, 5, 1, 2, 2, 7, 5, 0, 5, 5, 1, 4, 6, 5, 2, 4, 0, 1, 0, 4, 6, 4, 3, 7, 3, 2, 4, 0, 1, 6, 3,
    3, 2, 6, 3, 4, 6, 3, 2, 3, 5, 1, 1, 2, 4, 5, 5, 6, 0, 5, 5, 6, 4, 1, 2, 1, 5, 7, 1, 3, 1, 2, 2, 2>>>>

MDS_FULL_TOWER == <<<<5, 7, 1, 3>>, <<4, 6, 1, 1>>, <<1, 3, 5, 7>>, <<1, 1, 4, 6>>>>

MDS_PARTIAL_DIAG_TOWER == <<{5}, {13}, {9}, {11}>>

XorAll(words) == FoldLeft(Xor, {}, words)

apply_matrix(m, v) == FoldSet(LAMBDA i, r : Xor(r, m[i + 1]), {}, v)
tower_to_flat(v)   == apply_matrix(TOWER_TO_FLAT, v)
flat_to_tower(v)   == apply_matrix(FLAT_TO_TOWER, v)

Small(n) == BitsOf(n, 3)

RC(r) == Evaluated([i \in 1..T |-> tower_to_flat(Small(RC_TOWER[i][r + 1]))])

MDS_FULL == Evaluated([i \in 1..T |-> Evaluated([j \in 1..T |-> tower_to_flat(Small(MDS_FULL_TOWER[i][j]))])])

MDS_PARTIAL_DIAG_M1 == Evaluated([i \in 1..T |-> tower_to_flat(Xor(MDS_PARTIAL_DIAG_TOWER[i], {0}))])

sbox[x \in Element] ==
    LET x2 == mul[<<x, x>>]
        x4 == mul[<<x2, x2>>]
    IN  mul[<<mul[<<x, x2>>], x4>>]

-----------------------------------------------------------------------------
(* The permutation *)

State == [1..T -> Element]
Block == [1..2 -> Element]

mds_full(s) == Evaluated([i \in 1..T |-> XorAll([j \in 1..T |-> mul[<<s[j], MDS_FULL[i][j]>>]])])

PartialLayer[s \in State] ==
    LET sum == XorAll(s) IN Evaluated([i \in 1..T |-> Xor(sum, mul[<<s[i], MDS_PARTIAL_DIAG_M1[i]>>])])

PartialRound[s \in State, rc \in State] == PartialLayer[[s EXCEPT ![1] = sbox[Xor(@, rc[1])]]]
FullRound[s \in State, rc \in State]    == mds_full(Evaluated([i \in 1..T |-> sbox[Xor(s[i], rc[i])]]))

\* The rounds from r on, counted from 0.
Rounds[s \in State, r \in 0..ROUNDS] ==
    IF r = ROUNDS THEN s
    ELSE Rounds[IF r \in PARTIAL THEN PartialRound[s, RC(r)] ELSE FullRound[s, RC(r)], r + 1]
permute(s) == Rounds[mds_full(s), 0]

-----------------------------------------------------------------------------
(* The sponge *)

capacity_iv(label) == <<Shl(label, BITS \div 2), label>>

\* Mutation: the capacity is taken over as it is, in the tower basis.
with_ivTower(iv) == <<{}, {}, iv[1], iv[2]>>

with_iv(iv) == <<{}, {}, tower_to_flat(iv[1]), tower_to_flat(iv[2])>>

absorb_block[s \in State, block \in Block] ==
    permute(<<Xor(s[1], tower_to_flat(block[1])), Xor(s[2], tower_to_flat(block[2])), s[3], s[4]>>)

Absorbed(iv, blocks) == FoldLeft(LAMBDA s, block : absorb_block[s, block], with_iv(iv), blocks)

\* The rate, back in the tower basis.
finalize_no_pad[s \in State] == ToLe(flat_to_tower(s[1]), BITS \div 8) \o ToLe(flat_to_tower(s[2]), BITS \div 8)
finalize[s \in State]        == finalize_no_pad[absorb_block[s, <<{7}, {BITS - 8}>>]]

lanes[bytes \in Seq(0..255)] ==
    <<FromLe(SubSeq(bytes, 1, BITS \div 8)),
      FromLe(SubSeq(bytes, BITS \div 8 + 1, BITS \div 4))>>

\* What NOID asks of it: the spend secret of a master secret, and the address of a spend secret.
spend_secret(master, index, domain) ==
    finalize[Absorbed(<<{}, {}>>, <<lanes[master], <<index, domain>>>>)]

address_bytes(spend, tag) == finalize_no_pad[Absorbed(capacity_iv(tag), <<lanes[spend]>>)]

-----------------------------------------------------------------------------
(* The reference: the hash with textbook matrices over the tower, without bases or tables. *)

Times[a \in Element, b \in Element] == TowerTimes(a, b)

TimesMatrix(m, s) == Evaluated([i \in 1..T |-> XorAll([j \in 1..T |-> Times[m[i][j], s[j]]])])

External == [i \in 1..T |-> [j \in 1..T |-> Small(MDS_FULL_TOWER[i][j])]]
Internal == [i \in 1..T |-> [j \in 1..T |-> IF i = j THEN MDS_PARTIAL_DIAG_TOWER[i] ELSE {0}]]

Power7[x \in Element] == LET x3 == Times[x, Times[x, x]] IN Times[x, Times[x3, x3]]

TowerRounds[s \in State, r \in 0..ROUNDS] ==
    LET Entered(i) == Xor(s[i], Small(RC_TOWER[i][r + 1]))
        next == IF r \in PARTIAL
                THEN TimesMatrix(Internal, <<Power7[Entered(1)], s[2], s[3], s[4]>>)
                ELSE TimesMatrix(External, Evaluated([i \in 1..T |-> Power7[Entered(i)]]))
    IN  IF r = ROUNDS THEN s ELSE TowerRounds[next, r + 1]

TowerSponge(iv, blocks) ==
    LET Absorb(s, block) ==
            TowerRounds[TimesMatrix(External, <<Xor(s[1], block[1]), Xor(s[2], block[2]), s[3], s[4]>>), 0]
        s == FoldLeft(Absorb, <<{}, {}, iv[1], iv[2]>>, blocks)
    IN  ToLe(s[1], BITS \div 8) \o ToLe(s[2], BITS \div 8)

SpendSecretDefinition(master, index, domain) ==
    TowerSponge(<<{}, {}>>, <<lanes[master], <<index, domain>>, lanes[
        [i \in 1..(BITS \div 4) |-> CASE i = 1 -> 128 [] i = BITS \div 4 -> 1 [] OTHER -> 0]]>>)

AddressDefinition(spend, tag) == TowerSponge(<<Shl(tag, BITS \div 2), tag>>, <<lanes[spend]>>)
=============================================================================
