----------------------------- MODULE Base58Codec -----------------------------
(***************************************************************************)
(* The two base58 encodings (crates/addr/src/codec/base58.rs and           *)
(* codec/cryptonote.rs) and the CryptoNote varint, over bytes and digits   *)
(* of any radix.  A byte is a number below Byte, a character of a text the *)
(* digit it stands for, or NotADigit.                                      *)
(***************************************************************************)
EXTENDS Radix

LOCAL INSTANCE FiniteSetsExt
LOCAL INSTANCE SequencesExt

CONSTANTS
    Byte,            \* 256
    Digit,           \* 58
    CHECK,           \* bytes of a checksum, 4
    Sha256d(_),      \* the first CHECK bytes of the double SHA-256
    MAX_INPUT_LEN,   \* the longest text decode looks at
    BLOCK,           \* FULL_BLOCK_SIZE, 8 bytes
    ENC_LEN,         \* the digits a block of 1..BLOCK bytes is written in
    Group,           \* 128, the values of a varint byte without its continuation bit
    U64,             \* 2^64
    TAIL             \* bytes of a CryptoNote payload after its prefix, 68

ASSUME RadixAssumption ==
    Byte \in Nat \ {0, 1} /\ Digit \in Nat \ {0, 1} /\ CHECK \in Nat /\ MAX_INPUT_LEN \in Nat
\* The length table: strictly increasing, and long enough for every block.
ASSUME BlockAssumption ==
    /\ BLOCK \in Nat \ {0} /\ ENC_LEN \in [1..BLOCK -> Nat]
    /\ \A k \in 1..BLOCK : Power(Digit, ENC_LEN[k]) >= Power(Byte, k) /\ (k > 1 => ENC_LEN[k - 1] < ENC_LEN[k])
ASSUME VarintAssumption == Group \in Nat \ {0, 1} /\ Byte = 2 * Group /\ U64 \in Nat \ {0} /\ TAIL \in Nat

NotADigit == Digit

IsDigits(text) == \A i \in DOMAIN text : text[i] < Digit

-----------------------------------------------------------------------------
(* Bitcoin base58 *)

Base58Encode(bytes) == Zeros(LeadingZeros(bytes)) \o Digits(Number(bytes, Byte), Digit)

\* {} is None.
Base58Decode(text) ==
    IF Len(text) > MAX_INPUT_LEN \/ ~IsDigits(text) THEN {}
    ELSE {Zeros(LeadingZeros(text)) \o Digits(Number(text, Digit), Byte)}

EncodeCheck(payload) == Base58Encode(payload \o Sha256d(payload))

\* The payload in front of a checksum that is its own; at least one byte of it.
VerifyCheck(raw) ==
    LET payload == SubSeq(raw, 1, Len(raw) - CHECK)
    IN  IF Len(raw) < CHECK + 1 \/ raw # payload \o Sha256d(payload) THEN {} ELSE {payload}

DecodeCheck(text) == UNION {VerifyCheck(raw) : raw \in Base58Decode(text)}

-----------------------------------------------------------------------------
(* CryptoNote base58 *)

\* s in pieces of n elements, the last one shorter.
Chunks(s, n) == [i \in 1..((Len(s) + n - 1) \div n) |-> SubSeq(s, (i - 1) * n + 1, Min({i * n, Len(s)}))]

EncodeBlock(block) == Padded(Number(block, Byte), Digit, ENC_LEN[Len(block)])

BlockEncode(bytes) == FlattenSeq([i \in DOMAIN Chunks(bytes, BLOCK) |-> EncodeBlock(Chunks(bytes, BLOCK)[i])])

\* A block that no bytes encode to is None: a length that is not in the table, a character
\* that is no digit, a number too large for the bytes.  (For a full block that is the
\* overflow of the u64 the number is accumulated in.)
DecodeBlock(block) ==
    LET want == {k \in 1..BLOCK : ENC_LEN[k] = Len(block)}
        num  == Number(block, Digit)
    IN  IF ~IsDigits(block) THEN {} ELSE {Padded(num, Byte, k) : k \in {w \in want : num < Power(Byte, w)}}

BlockDecode(text) ==
    LET blocks  == Chunks(text, ENC_LEN[BLOCK])
        decoded == [i \in DOMAIN blocks |-> DecodeBlock(blocks[i])]
    IN  IF \E i \in DOMAIN decoded : decoded[i] = {} THEN {}
        ELSE {FlattenSeq([i \in DOMAIN decoded |-> CHOOSE bytes \in decoded[i] : TRUE])}

-----------------------------------------------------------------------------
(* Varints *)

WriteVarint(n) ==
    LET groups == IF n = 0 THEN <<0>> ELSE Reverse(Digits(n, Group))
    IN  [i \in DOMAIN groups |-> groups[i] + (IF i < Len(groups) THEN Group ELSE 0)]

\* Mutation: the bits that fall off the end are not looked at.
ReadVarintWide(data) ==
    LET ends == {i \in DOMAIN data : data[i] < Group}
        last == Min(ends)
    IN  IF ends = {} \/ (last > 1 /\ data[last] = 0) THEN {}
        ELSE {[value |-> Number(Reverse([i \in 1..last |-> data[i] % Group]), Group),
               rest  |-> SubSeq(data, last + 1, Len(data))]}

\* The value and the bytes after it.  None for a number that never ends, one of 64 bits or
\* more, and one padded with a zero group.
ReadVarint(data) ==
    LET ends == {i \in DOMAIN data : data[i] < Group}
        last == Min(ends)
        value == Number(Reverse([i \in 1..last |-> data[i] % Group]), Group)
    IN  IF ends = {} \/ value >= U64 \/ (last > 1 /\ data[last] = 0) THEN {}
        ELSE {[value |-> value, rest |-> SubSeq(data, last + 1, Len(data))]}

-----------------------------------------------------------------------------
(* cryptonote_tag (crates/addr/src/validate.rs): what every address of a   *)
(* network prefix opens with, and how long it is.                          *)

Bracket(nb, byte) == BlockEncode(WriteVarint(nb) \o [i \in 1..TAIL |-> byte])

\* Mutation: the upper bracket ends in zeros, too.
TagOfLowest(nb) == [opening |-> Bracket(nb, 0), len |-> Len(Bracket(nb, 0))]

Tag(nb) == [opening |-> LongestCommonPrefix({Bracket(nb, 0), Bracket(nb, Byte - 1)}), len |-> Len(Bracket(nb, 0))]
=============================================================================
