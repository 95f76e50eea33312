----------------------------- MODULE Checksums ------------------------------
(***************************************************************************)
(* The checksum polynomials of bech32 and of CashAddr at their real width: *)
(* a register of bits into which groups of five enter at the low end, and  *)
(* which a generator is added to for every bit that leaves at the top.     *)
(* Bech32Codec.tla takes a polynomial for granted; this is what it takes.  *)
(***************************************************************************)
EXTENDS Bits

LOCAL INSTANCE SequencesExt
LOCAL INSTANCE FiniteSets

\* A 32-bit literal as its bits, of its two halves; and a 40-bit one of its top byte and those.
Literal(high, low)   == BitsOf(low, 16) \cup Shl(BitsOf(high, 16), 16)
Long(top, high, low) == Literal(high, low) \cup Shl(BitsOf(top, 8), 32)

BECH32_CONST  == {0}
BECH32M_CONST == Literal(\h2bc8, \h30a3)

Bech32Gen == <<Literal(\h3b6a, \h57b2), Literal(\h2650, \h8e6d), Literal(\h1ea1, \h19fa),
               Literal(\h3d42, \h33dd), Literal(\h2a14, \h62b3)>>
CashGen   == <<Long(\h98, \hf2bc, \h8e61), Long(\h79, \hb76d, \h99e2), Long(\hf3, \h3e5f, \hb3c4),
               Long(\hae, \h2eab, \he2a8), Long(\h1e, \h4f43, \he470)>>

\* A group enters the register below bit `top`.
Step(gen, top, chk, v) ==
    FoldLeft(LAMBDA r, i : IF top + i - 1 \in chk THEN Xor(r, gen[i]) ELSE r,
             Xor(Shl(Truncated(chk, top), 5), BitsOf(v, 5)), <<1, 2, 3, 4, 5>>)
Register[gen \in {Bech32Gen, CashGen}, values \in Seq(0..31)] ==
    FoldLeft(LAMBDA chk, v : Step(gen, IF gen = CashGen THEN 35 ELSE 25, chk, v), {0}, values)

bech32_polymod(values) == Register[Bech32Gen, values]
cash_polymod(values)   == Xor(Register[CashGen, values], {0})

\* Of the characters of a prefix, as bytes.
hrp_expand(hrp) == [i \in DOMAIN hrp |-> hrp[i] \div 32] \o <<0>> \o [i \in DOMAIN hrp |-> hrp[i] % 32]
masked(prefix)  == [i \in DOMAIN prefix |-> prefix[i] % 32] \o <<0>>

\* The lowest n groups of a register, highest first.
Groups(chk, n) == [k \in 1..n |-> Unsigned(Shr(chk, 5 * (n - k)), 5)]

bech32_checksum(values, const) == Groups(Xor(bech32_polymod(values \o Zeros(6)), const), 6)

\* Mutation: the checksum is taken over what has been written, without the place for itself.
cash_checksumUnextended(values) == Groups(cash_polymod(values), 8)

cash_checksum(values) == Groups(cash_polymod(values \o Zeros(8)), 8)

-----------------------------------------------------------------------------

Code == {"bech32", "bech32m", "cash"}

\* What is checksummed of a text: its expanded prefix and its groups.
Checksummed(code, prefix, groups) ==
    IF code = "cash" THEN LET values == masked(prefix) \o groups IN values \o cash_checksum(values)
    ELSE LET values == hrp_expand(prefix) \o groups
         IN  values \o bech32_checksum(values, IF code = "bech32" THEN BECH32_CONST ELSE BECH32M_CONST)

\* What the register is left with by a text whose checksum closes.
Closing(code) == CASE code = "bech32" -> BECH32_CONST [] code = "bech32m" -> BECH32M_CONST [] OTHER -> {}

Residual(code, values) == IF code = "cash" THEN cash_polymod(values) ELSE bech32_polymod(values)

\* How such a text is taken: by either constant, in bech32.
Taken(code, values) ==
    {c \in Code : (c = "cash" <=> code = "cash") /\ Residual(code, values) = Closing(c)}

-----------------------------------------------------------------------------
(* What a wrong group does to the register, by its distance from the end: the registers of a  *)
(* text and of the text with the wrong group differ in the same bits whatever the text.       *)

SPAN == 90

Syndromes(gen, top) ==
    FoldLeft(LAMBDA rows, d : Append(rows, Evaluated([e \in 1..31 |-> Step(gen, top, rows[d][e], 0)])),
             <<Evaluated([e \in 1..31 |-> BitsOf(e, 5)])>>, [d \in 1..(SPAN - 1) |-> d])
Bech32Syndromes == Syndromes(Bech32Gen, 25)
CashSyndromes   == Syndromes(CashGen, 35)
SyndromesOf(code) == IF code = "cash" THEN CashSyndromes ELSE Bech32Syndromes

\* No one or two wrong groups, anywhere in SPAN, close the register again, nor take it from
\* the constant of one variant to that of the other.
ToTheOther == Xor(BECH32_CONST, BECH32M_CONST)
TwoAreSeen(code) ==
    LET rows == SyndromesOf(code)
        all  == UNION {{rows[d][e] : e \in 1..31} : d \in 1..SPAN}
    IN  /\ {} \notin all /\ Cardinality(all) = 31 * SPAN
        /\ code # "cash" => ToTheOther \notin all /\ \A s \in all : Xor(s, ToTheOther) \notin all

\* One wrong group of this text is seen, and as SyndromesOf says.
OneIsSeen(code, values) ==
    \A i \in DOMAIN values, e \in 1..31 :
        LET wrong == [values EXCEPT ![i] = Unsigned(Xor(BitsOf(@, 5), BitsOf(e, 5)), 5)]
        IN  /\ Taken(code, wrong) = {}
            /\ Residual(code, wrong) = Xor(Residual(code, values), SyndromesOf(code)[Len(values) - i + 1][e])
=============================================================================
