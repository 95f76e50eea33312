------------------------------ MODULE HexCodec ------------------------------
(***************************************************************************)
(* Hexadecimal (crates/addr/src/hexbytes.rs), a text being a sequence of   *)
(* characters.                                                             *)
(***************************************************************************)
EXTENDS Naturals, Sequences

LOCAL INSTANCE FiniteSetsExt
LOCAL INSTANCE SequencesExt

DIGITS   == <<"0", "1", "2", "3", "4", "5", "6", "7", "8", "9", "a", "b", "c", "d", "e", "f">>
CAPITALS == <<"0", "1", "2", "3", "4", "5", "6", "7", "8", "9", "A", "B", "C", "D", "E", "F">>

HexEncode(bytes) ==
    [i \in 1..(2 * Len(bytes)) |->
        LET b == bytes[(i + 1) \div 2] IN DIGITS[1 + (IF i % 2 = 1 THEN b \div 16 ELSE b % 16)]]

\* Mutation: a pair is read as a number, which may have a sign.
nibbleOrSign(c) == IF c = "+" THEN {0} ELSE {v \in 0..15 : c \in {DIGITS[v + 1], CAPITALS[v + 1]}}

\* {} for whatever is no digit, signs and spaces among them.
nibble(c) == {v \in 0..15 : c \in {DIGITS[v + 1], CAPITALS[v + 1]}}

\* The byte of the i-th two characters; {} if they are not two digits.
pair(text, i) == {16 * hi + lo : hi \in nibble(text[2 * i - 1]), lo \in nibble(text[2 * i])}

\* {} for an odd length and for a pair that is not two digits.
HexDecode(text) ==
    LET bytes == [i \in 1..(Len(text) \div 2) |-> pair(text, i)]
    IN  IF Len(text) % 2 = 1 \/ \E i \in DOMAIN bytes : bytes[i] = {} THEN {}
        ELSE {[i \in DOMAIN bytes |-> Max(bytes[i])]}

\* decode_n: exactly n bytes.
HexDecodeN(text, n) == {bytes \in HexDecode(text) : Len(bytes) = n}

HexLower(text) ==
    [i \in DOMAIN text |-> IF Contains(CAPITALS, text[i]) THEN DIGITS[SelectInSeq(CAPITALS, LAMBDA c : c = text[i])]
                           ELSE text[i]]
=============================================================================
