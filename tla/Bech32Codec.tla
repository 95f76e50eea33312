----------------------------- MODULE Bech32Codec -----------------------------
(***************************************************************************)
(* The base32 encodings: bit conversion and the string layer of bech32     *)
(* (crates/addr/src/codec/bech32.rs), Kaspa's CashAddr (cashaddr.rs) and   *)
(* Conflux's CIP-37 (conflux.rs), over bytes and groups of any width.      *)
(*                                                                         *)
(* A text is a sequence of characters.  The checksum polynomials are       *)
(* constants; what depends on their being good codes is not modelled here. *)
(***************************************************************************)
EXTENDS Radix

LOCAL INSTANCE SequencesExt

CONSTANTS
    ByteBits,            \* 8
    GroupBits,           \* 5
    AccBits,             \* 32, the width of the accumulator
    Charset,             \* the character of each group, in order
    Lower,               \* the small letter of a character, itself if it is none
    IsUpper(_), IsLower(_),
    Printable(_),        \* ASCII 33..126
    PrefixChar(_),       \* small letters and digits, what a CashAddr prefix is made of
    Mask,                \* a character's low five bits
    Polymod(_, _),       \* the checksum of a prefix and groups, as a sequence of groups
    CHECKSUM_CHARS,      \* 6 of bech32, 8 of CashAddr
    MAX_LEN,             \* 90, BIP173's limit
    ADDR_LEN             \* bytes of a Conflux address, 20

\* The accumulator holds a byte on top of an incomplete group, and the other way round.
ASSUME BitsAssumption ==
    /\ {ByteBits, GroupBits, AccBits} \subseteq Nat \ {0} /\ GroupBits < ByteBits
    /\ AccBits >= ByteBits + GroupBits - 1
\* Small letters are their own, and no capitals.
ASSUME LowerAssumption ==
    \A c \in DOMAIN Lower : /\ Lower[c] \in DOMAIN Lower /\ Lower[Lower[c]] = Lower[c]
                            /\ ~IsUpper(Lower[c])
ASSUME CharsetAssumption ==
    /\ Charset \in Seq(DOMAIN Lower) /\ Len(Charset) = Power(2, GroupBits)
    /\ \A i, j \in DOMAIN Charset : Charset[i] = Charset[j] => i = j
    /\ \A i \in DOMAIN Charset : Charset[i] \notin {"1", ":"} /\ Lower[Charset[i]] = Charset[i]
    /\ {"1", ":"} \subseteq DOMAIN Lower /\ Lower["1"] = "1"
\* No prefix of CashAddr is cut by the ":" after it, or has a capital.
ASSUME PrefixAssumption == \A c \in DOMAIN Lower : PrefixChar(c) => c # ":" /\ Lower[c] = c
ASSUME LengthAssumption == CHECKSUM_CHARS \in Nat \ {0} /\ MAX_LEN \in Nat

-----------------------------------------------------------------------------
(* convertbits *)

\* One value of `from` bits enters the accumulator, which drops its oldest bits, and every
\* complete value of `to` bits leaves it.
Shift(st, v, from, to) ==
    LET acc  == (st.acc * Power(2, from) + v) % Power(2, AccBits)
        bits == st.bits + from
    IN  [acc  |-> acc,
         bits |-> bits % to,
         out  |-> st.out \o [j \in 1..(bits \div to) |-> (acc \div Power(2, bits - j * to)) % Power(2, to)]]

Regroup(data, from, to) ==
    LET after[k \in 0..Len(data)] ==
            IF k = 0 THEN [acc |-> 0, bits |-> 0, out |-> << >>] ELSE Shift(after[k - 1], data[k], from, to)
    IN  after[Len(data)]

\* convertbits_8_to_5, padding with zero bits.
ToGroups(bytes) ==
    LET st == Regroup(bytes, ByteBits, GroupBits)
    IN  st.out \o IF st.bits > 0 THEN <<(st.acc * Power(2, GroupBits - st.bits)) % Power(2, GroupBits)>> ELSE << >>

\* Mutation: whatever is left over is dropped.
ToBytesSloppy(groups) == {Regroup(groups, GroupBits, ByteBits).out}

\* convertbits_5_to_8: None unless what is left over is less than a group, and zero.
ToBytes(groups) ==
    LET st == Regroup(groups, GroupBits, ByteBits)
    IN  IF st.bits >= GroupBits \/ st.acc % Power(2, st.bits) # 0 THEN {} ELSE {st.out}

-----------------------------------------------------------------------------
(* Characters *)

LowerCase(text)  == [i \in DOMAIN text |-> Lower[text[i]]]
Chars(groups)    == [i \in DOMAIN groups |-> Charset[groups[i] + 1]]
\* {} unless every character is in the charset.
GroupsOf(text) ==
    IF \E i \in DOMAIN text : ~Contains(Charset, text[i]) THEN {}
    ELSE {[i \in DOMAIN text |-> SelectInSeq(Charset, LAMBDA c : c = text[i]) - 1]}

From(text, i)    == SubSeq(text, i, Len(text))
ButLast(s, n)    == SubSeq(s, 1, Len(s) - n)
LastOf(s, n)     == SubSeq(s, Len(s) - n + 1, Len(s))

-----------------------------------------------------------------------------
(* bech32 *)

Variant == {"Bech32", "Bech32m"}

\* The checksum of each variant is another constant away from the polynomial's value.
Checksum(hrp, groups, variant) ==
    LET chk == Polymod(hrp, groups)
    IN  [i \in DOMAIN chk |-> (chk[i] + (IF i = Len(chk) /\ variant = "Bech32m" THEN 1 ELSE 0)) % Power(2, GroupBits)]

EncodeData(hrp, groups, variant) ==
    hrp \o <<"1">> \o Chars(groups \o Checksum(hrp, groups, variant))

EncodeSegwit(hrp, witver, program) ==
    EncodeData(hrp, <<witver>> \o ToGroups(program), IF witver = 0 THEN "Bech32" ELSE "Bech32m")

\* What the encoders are called with: a prefix checked takes as it is, and one Polymod is
\* defined for.
HrpOk(hrp)              == hrp # << >> /\ \A i \in DOMAIN hrp : Printable(hrp[i]) /\ Lower[hrp[i]] = hrp[i]
Closed(prefix, groups)  == Polymod(prefix, groups) \in [1..CHECKSUM_CHARS -> 0..(Power(2, GroupBits) - 1)]

\* Mutation: the separator is the first "1".
FirstSeparator(text) == SelectInSeq(text, LAMBDA c : c = "1")

\* 0 if there is none.
Separator(text) == SelectLastInSeq(text, LAMBDA c : c = "1")

\* checked: one case, one separator, the last one, a prefix of printable characters, and the
\* checksum of one of the variants.
Checked(text) ==
    LET lower == LowerCase(text)
        sep   == Separator(lower)
        hrp   == SubSeq(lower, 1, sep - 1)
    IN  IF \/ (\E i \in DOMAIN text : IsUpper(text[i])) /\ (\E i \in DOMAIN text : IsLower(text[i]))
           \/ Len(lower) > MAX_LEN
           \/ sep <= 1 \/ Len(lower) - sep < CHECKSUM_CHARS
           \/ \E i \in DOMAIN hrp : ~Printable(hrp[i])
        THEN {}
        ELSE {[hrp |-> hrp, variant |-> vg[1], groups |-> ButLast(vg[2], CHECKSUM_CHARS)] :
                vg \in {x \in Variant \X GroupsOf(From(lower, sep + 1)) :
                          LastOf(x[2], CHECKSUM_CHARS) = Checksum(hrp, ButLast(x[2], CHECKSUM_CHARS), x[1])}}

Verify(text) == {[hrp |-> c.hrp, variant |-> c.variant] : c \in Checked(text)}

Decode(text) ==
    UNION {{[hrp |-> c.hrp, variant |-> c.variant, bytes |-> bytes] : bytes \in ToBytes(c.groups)} :
             c \in Checked(text)}

-----------------------------------------------------------------------------
(* CashAddr and CIP-37 *)

Masked(prefix) == [i \in DOMAIN prefix |-> Mask[prefix[i]]]

EncodeCash(prefix, bytes) ==
    LET groups == ToGroups(bytes)
    IN  prefix \o <<":">> \o Chars(groups \o Polymod(Masked(prefix), groups))

\* The prefix has to be spelled as the encoder spells it, as the checksum only sees its mask.
PrefixOk(prefix) == prefix # << >> /\ \A i \in DOMAIN prefix : PrefixChar(prefix[i])

\* The bytes behind a prefix and a data part whose checksum closes.
CashBytes(prefix, data) ==
    IF ~PrefixOk(prefix) \/ Len(data) <= CHECKSUM_CHARS THEN {}
    ELSE UNION {ToBytes(ButLast(groups, CHECKSUM_CHARS)) :
                  groups \in {g \in GroupsOf(data) :
                    LastOf(g, CHECKSUM_CHARS) = Polymod(Masked(prefix), ButLast(g, CHECKSUM_CHARS))}}

Colon(text) == SelectInSeq(text, LAMBDA c : c = ":")

\* Kaspa: a version byte and a payload of any length.
DecodeCash(text) ==
    LET prefix == SubSeq(text, 1, Colon(text) - 1)
    IN  IF Colon(text) = 0 THEN {}
        ELSE {[prefix |-> prefix, bytes |-> b] : b \in CashBytes(prefix, From(text, Colon(text) + 1)) \ {<< >>}}

\* What follows the optional field "type.user:"; {} if the field is something else.
AfterType(rest) ==
    IF Colon(rest) = 0 THEN {rest}
    ELSE IF Colon(rest) > 1 /\ rest[1] = "type." THEN {From(rest, Colon(rest) + 1)} ELSE {}

\* Conflux: the version byte 0 and ADDR_LEN bytes.
DecodeConflux(text) ==
    LET prefix == SubSeq(text, 1, Colon(text) - 1)
    IN  IF Colon(text) = 0 THEN {}
        ELSE {[prefix |-> prefix, bytes |-> b] :
                b \in {x \in UNION {CashBytes(prefix, data) : data \in AfterType(From(text, Colon(text) + 1))} :
                         Len(x) = 1 + ADDR_LEN /\ x[1] = 0}}
=============================================================================
