---------------------------- MODULE CodecsProofs ----------------------------
(***************************************************************************)
(* The codecs in use: in every behaviour of Codecs, what is written reads  *)
(* back, what is read has one spelling, the words of two keys differ, and  *)
(* the tag of a network prefix opens every address of it.                  *)
(***************************************************************************)
EXTENDS Codecs, CodecProofs

LOCAL INSTANCE FiniteSetsExt
LOCAL INSTANCE SequencesExt

(* Whatever is written or typed *)

\* Any character: the provers do not know a literal for a string.
Characters == STRING \cup {DIGITS[d] : d \in 1..16}

\* The texts of each scheme.
TextsOf(s) == CASE s \in {"base58", "base58check", "block58", "cryptonote"} -> Seq(0..Digit)
                [] s = "varint" -> Seq(0..(Byte - 1))
                [] s = "hex" -> Seq(Characters)
                [] s \in {"segwit", "bech32", "cash", "conflux"} -> Seq(Alphabet)
                [] s = "bip39" -> Seq(Char)

\* The encoder of each scheme.
LEMMA EncodedIs ==
    /\ \A p : Encoded("base58", p) = {Base58Encode(p)}
    /\ \A p : Encoded("base58check", p) = {EncodeCheck(p)}
    /\ \A p : Encoded("block58", p) = {BlockEncode(p)}
    /\ \A p : Encoded("varint", p) = {WriteVarint(p.value) \o p.rest}
    /\ \A p : Encoded("cryptonote", p) = {BlockEncode(WriteVarint(p.value) \o p.rest)}
    /\ \A p : Encoded("hex", p) = {HexEncode(p)}
    /\ \A p : Encoded("segwit", p) = {EncodeSegwit(p.hrp, p.witver, p.program)}
    /\ \A p : Encoded("bech32", p) = {EncodeData(p.hrp, ToGroups(p.bytes), p.variant)}
    /\ \A s \in {"cash", "conflux"} : \A p : Encoded(s, p) = {EncodeCash(p.prefix, p.bytes)}
    /\ \A p : Encoded("bip39", p) = EntropyToPhrase(p)
    /\ \A p : Encoded("words", p) = {Monero25(p)}
BY DEF Encoded, OneWayScheme

\* No encoder writes a payload in two ways, and only that of BIP39 refuses one.
LEMMA OneEncoding ==
    ASSUME NEW s \in Readable, NEW p
    PROVE  (s = "bip39" /\ Encoded(s, p) = {}) \/ \E x : Encoded(s, p) = {x}
<1>1. CASE s = "base58"
    <2>1. Encoded(s, p) = {Base58Encode(p)}
        BY <1>1, EncodedIs
    <2> QED
        BY <2>1
<1>2. CASE s = "base58check"
    <2>1. Encoded(s, p) = {EncodeCheck(p)}
        BY <1>2, EncodedIs
    <2> QED
        BY <2>1
<1>3. CASE s = "block58"
    <2>1. Encoded(s, p) = {BlockEncode(p)}
        BY <1>3, EncodedIs
    <2> QED
        BY <2>1
<1>4. CASE s = "varint"
    <2>1. Encoded(s, p) = {WriteVarint(p.value) \o p.rest}
        BY <1>4, EncodedIs
    <2> QED
        BY <2>1
<1>5. CASE s = "cryptonote"
    <2>1. Encoded(s, p) = {BlockEncode(WriteVarint(p.value) \o p.rest)}
        BY <1>5, EncodedIs
    <2> QED
        BY <2>1
<1>6. CASE s = "hex"
    <2>1. Encoded(s, p) = {HexEncode(p)}
        BY <1>6, EncodedIs
    <2> QED
        BY <2>1
<1>7. CASE s = "segwit"
    <2>1. Encoded(s, p) = {EncodeSegwit(p.hrp, p.witver, p.program)}
        BY <1>7, EncodedIs
    <2> QED
        BY <2>1
<1>8. CASE s = "bech32"
    <2>1. Encoded(s, p) = {EncodeData(p.hrp, ToGroups(p.bytes), p.variant)}
        BY <1>8, EncodedIs
    <2> QED
        BY <2>1
<1>9. CASE s = "cash"
    <2>1. Encoded(s, p) = {EncodeCash(p.prefix, p.bytes)}
        BY <1>9, EncodedIs
    <2> QED
        BY <2>1
<1>10. CASE s = "conflux"
    <2>1. Encoded(s, p) = {EncodeCash(p.prefix, p.bytes)}
        BY <1>10, EncodedIs
    <2> QED
        BY <2>1
<1>11. CASE s = "bip39"
    <2>1. Encoded(s, p) = EntropyToPhrase(p)
        BY <1>11, EncodedIs
    <2>2. EntropyToPhrase(p) = {} \/ \E x : EntropyToPhrase(p) = {x}
        BY DEF EntropyToPhrase
    <2> QED
        BY <1>11, <2>1, <2>2
<1> QED
    BY <1>1, <1>2, <1>3, <1>4, <1>5, <1>6, <1>7, <1>8, <1>9, <1>10, <1>11 DEF Readable

\* The decoder of each scheme.
LEMMA DecodedIs ==
    /\ \A t : Decoded("base58", t) = Base58Decode(t)
    /\ \A t : Decoded("base58check", t) = DecodeCheck(t)
    /\ \A t : Decoded("block58", t) = BlockDecode(t)
    /\ \A t : Decoded("varint", t) = ReadVarint(t)
    /\ \A t : Decoded("cryptonote", t) = UNION {ReadVarint(bytes) : bytes \in BlockDecode(t)}
    /\ \A t : Decoded("hex", t) = HexDecode(t)
    /\ \A t : Decoded("segwit", t) = Verify(t)
    /\ \A t : Decoded("bech32", t) = Decode(t)
    /\ \A t : Decoded("cash", t) = DecodeCash(t)
    /\ \A t : Decoded("conflux", t) = DecodeConflux(t)
    /\ \A t : Decoded("bip39", t) = PhraseToEntropy(t)
BY DEF Decoded

\* The characters of each scheme.
LEMMA TextsAre ==
    /\ \A s \in {"base58", "base58check", "block58", "cryptonote"} : TextsOf(s) = Seq(0..Digit)
    /\ TextsOf("varint") = Seq(0..(Byte - 1)) /\ TextsOf("hex") = Seq(Characters)
    /\ \A s \in {"segwit", "bech32", "cash", "conflux"} : TextsOf(s) = Seq(Alphabet)
    /\ TextsOf("bip39") = Seq(Char)
BY DEF TextsOf

\* Base58 writes characters.
LEMMA Base58EncodeIn ==
    ASSUME NEW bytes \in Seq(0..(Byte - 1))
    PROVE  Base58Encode(bytes) \in Seq(0..Digit)
<1>1. PICK t : t = Base58Encode(bytes)
    OBVIOUS
<1>2. t \in Seq(0..(Digit - 1))
    BY <1>1, RadixAssumption, Conversion DEF Base58Encode
<1> QED
    BY <1>1, <1>2, DigitsAreTexts

\* Hexadecimal is made of characters.
LEMMA HexEncodeIn ==
    ASSUME NEW bytes \in Seq(0..255)
    PROVE  HexEncode(bytes) \in Seq(Characters)
<1>1. PICK n \in Nat : n = Len(bytes) /\ bytes \in [1..n -> 0..255]
    BY LenProperties, ZenonT(40)
<1>2. \A v \in 0..15 : DIGITS[1 + v] \in Characters
    <2>1. TAKE v \in 0..15
    <2>2. PICK d \in 1..16 : d = 1 + v
        OBVIOUS
    <2> QED
        BY <2>2 DEF Characters
<1>3. ASSUME NEW i \in 1..(2 * n)
      PROVE  DIGITS[1 + (IF i % 2 = 1 THEN bytes[(i + 1) \div 2] \div 16 ELSE bytes[(i + 1) \div 2] % 16)] \in Characters
    <2>1. (i + 1) \div 2 \in 1..n
        OBVIOUS
    <2>2. PICK b \in 0..255 : b = bytes[(i + 1) \div 2]
        BY <1>1, <2>1
    <2>3. PICK v \in 0..15 : v = IF i % 2 = 1 THEN b \div 16 ELSE b % 16
        OBVIOUS
    <2> QED
        BY <1>2, <2>2, <2>3
<1>4. HexEncode(bytes) \in [1..(2 * n) -> Characters]
    BY <1>1, <1>3 DEF HexEncode
<1>5. 2 * n \in Nat
    OBVIOUS
<1> QED
    BY <1>4, <1>5, FunctionIsSeq

\* What is written in each scheme is a text of it, and is read back.
LEMMA WrittenIsRead ==
    ASSUME NEW s \in Readable, NEW p \in Payload(s), NEW t \in Encoded(s, p)
    PROVE  t \in TextsOf(s) /\ Decoded(s, t) = {Meaning(s, p)}
<1>0. s # "segwit" => Meaning(s, p) = p
    BY DEF Meaning
<1>1. CASE s = "base58"
    <2>1. p \in Seq(0..(Byte - 1)) /\ Len(Base58Encode(p)) <= MAX_INPUT_LEN
        BY <1>1, PayloadAssumption
    <2>2. t = Base58Encode(p)
        BY <1>1, EncodedIs
    <2> QED
        BY <1>0, <1>1, <2>1, <2>2, Base58EncodeIn, Base58ReadsBack, DecodedIs, TextsAre
<1>2. CASE s = "base58check"
    <2>1. p \in Seq(0..(Byte - 1)) /\ p # << >> /\ Len(EncodeCheck(p)) <= MAX_INPUT_LEN
        BY <1>2, PayloadAssumption
    <2>2. Sha256d(p) \in Seq(0..(Byte - 1)) /\ Len(Sha256d(p)) = CHECK
        <3>1. Sha256d(p) \in [1..CHECK -> 0..(Byte - 1)] /\ CHECK \in Nat
            BY <1>2, PayloadAssumption, RadixAssumption
        <3> QED
            BY <3>1, FunctionIsSeq
    <2>3. t = EncodeCheck(p)
        BY <1>2, EncodedIs
    <2>4. t \in Seq(0..Digit)
        <3>1. p \o Sha256d(p) \in Seq(0..(Byte - 1))
            BY <2>1, <2>2, ConcatIs
        <3> QED
            BY <2>3, <3>1, Base58EncodeIn DEF EncodeCheck
    <2>5. DecodeCheck(t) = {p}
        BY <2>1, <2>2, <2>3, Base58CheckReadsBack
    <2> QED
        BY <1>0, <1>2, <2>4, <2>5, DecodedIs, TextsAre
<1>3. CASE s = "block58"
    <2>1. p \in Seq(0..(Byte - 1)) /\ t = BlockEncode(p)
        BY <1>3, EncodedIs, PayloadAssumption
    <2>2. t \in Seq(0..(Digit - 1)) /\ BlockDecode(t) = {p}
        BY <2>1, BlockReadsBack
    <2> QED
        BY <1>0, <1>3, <2>2, DigitsAreTexts, DecodedIs, TextsAre
<1>4. CASE s = "varint"
    <2>1. p \in [value : 0..(U64 - 1), rest : Seq(0..(Byte - 1))] /\ t = WriteVarint(p.value) \o p.rest
        <3>1. p \in [value : 0..(U64 - 1), rest : Seq(0..(Byte - 1))]
            BY <1>4, PayloadAssumption
        <3>2. Encoded(s, p) = {WriteVarint(p.value) \o p.rest}
            BY <1>4, EncodedIs
        <3> QED
            BY <3>1, <3>2
    <2>2. PICK n \in 0..(U64 - 1), rest \in Seq(0..(Byte - 1)) : p = [value |-> n, rest |-> rest]
        BY <2>1
    <2>3. t = WriteVarint(n) \o rest
        BY <2>1, <2>2
    <2>4. ReadVarint(t) = {p}
        BY <2>2, <2>3, VarintReadsBack
    <2>5. t \in Seq(0..(Byte - 1))
        BY <2>3, VarintIn
    <2> QED
        BY <1>0, <1>4, <2>4, <2>5, DecodedIs, TextsAre
<1>5. CASE s = "cryptonote"
    <2>1. /\ p \in [value : 0..(U64 - 1), rest : Seq(0..(Byte - 1))]
          /\ t = BlockEncode(WriteVarint(p.value) \o p.rest)
        BY <1>5, EncodedIs, PayloadAssumption
    <2>2. PICK n \in 0..(U64 - 1), rest \in Seq(0..(Byte - 1)) : p = [value |-> n, rest |-> rest]
        BY <2>1
    <2>3. t = BlockEncode(WriteVarint(n) \o rest)
        BY <2>1, <2>2
    <2>4. UNION {ReadVarint(bytes) : bytes \in BlockDecode(t)} = {p}
        BY <2>2, <2>3, CryptoNoteReadsBack
    <2>5. t \in Seq(0..(Digit - 1))
        <3>1. WriteVarint(n) \o rest \in Seq(0..(Byte - 1))
            BY VarintIn
        <3> QED
            BY <2>3, <3>1, BlockReadsBack
    <2> QED
        BY <1>0, <1>5, <2>4, <2>5, DigitsAreTexts, DecodedIs, TextsAre
<1>6. CASE s = "hex"
    <2>1. p \in Seq(0..255) /\ t = HexEncode(p)
        BY <1>6, EncodedIs, PayloadAssumption
    <2> QED
        BY <1>0, <1>6, <2>1, HexEncodeIn, HexReadsBack, DecodedIs, TextsAre
<1>7. CASE s = "segwit"
    <2>1. /\ p \in [hrp : Seq(DOMAIN Lower), witver : 0..(Power(2, GroupBits) - 1), program : Octets]
          /\ HrpOk(p.hrp) /\ Closed(p.hrp, <<p.witver>> \o ToGroups(p.program))
          /\ Len(EncodeSegwit(p.hrp, p.witver, p.program)) <= MAX_LEN
        BY <1>7, PayloadAssumption
    <2>2. PICK hrp \in Seq(Alphabet), witver \in 0..(Power(2, GroupBits) - 1), program \in ByteSeq :
                hrp = p.hrp /\ witver = p.witver /\ program = p.program
        BY <2>1 DEF Alphabet, ByteSeq, Octets
    <2>3. t = EncodeSegwit(hrp, witver, program)
        BY <1>7, <2>2, EncodedIs
    <2>4. Verify(t) = {[hrp |-> hrp, variant |-> IF witver = 0 THEN "Bech32" ELSE "Bech32m"]}
        BY <2>1, <2>2, <2>3, SegwitReadsBack
    <2>5. t \in Seq(Alphabet)
        BY <2>1, <2>2, <2>3, SegwitIn
    <2>6. Meaning(s, p) = [hrp |-> hrp, variant |-> IF witver = 0 THEN "Bech32" ELSE "Bech32m"]
        BY <1>7, <2>2 DEF Meaning
    <2> QED
        BY <1>7, <2>4, <2>5, <2>6, DecodedIs, TextsAre
<1>8. CASE s = "bech32"
    <2>1. /\ p \in [hrp : Seq(DOMAIN Lower), variant : Variant, bytes : Octets]
          /\ HrpOk(p.hrp) /\ Closed(p.hrp, ToGroups(p.bytes))
          /\ Len(EncodeData(p.hrp, ToGroups(p.bytes), p.variant)) <= MAX_LEN
        BY <1>8, PayloadAssumption
    <2>2. PICK hrp \in Seq(Alphabet), variant \in Variant, bytes \in ByteSeq :
                p = [hrp |-> hrp, variant |-> variant, bytes |-> bytes]
        BY <2>1 DEF Alphabet, ByteSeq, Octets
    <2>3. hrp = p.hrp /\ variant = p.variant /\ bytes = p.bytes
        BY <2>2
    <2>4. t = EncodeData(hrp, ToGroups(bytes), variant)
        BY <1>8, <2>3, EncodedIs
    <2>5. Decode(t) = {p}
        BY <2>1, <2>2, <2>3, <2>4, Bech32ReadsBack
    <2>6. t \in Seq(Alphabet)
        BY <2>1, <2>3, <2>4, ToGroupsIs, EncodeDataIn
    <2> QED
        BY <1>0, <1>8, <2>5, <2>6, DecodedIs, TextsAre
<1>9. CASE s \in {"cash", "conflux"}
    <2>1. /\ p \in [prefix : Seq(DOMAIN Lower), bytes : Octets \ {<< >>}]
          /\ PrefixOk(p.prefix) /\ Closed(Masked(p.prefix), ToGroups(p.bytes))
          /\ s = "conflux" => Len(p.bytes) = 1 + ADDR_LEN /\ p.bytes[1] = 0
        BY <1>9, PayloadAssumption
    <2>2. PICK prefix \in Seq(Alphabet), bytes \in ByteSeq :
                p = [prefix |-> prefix, bytes |-> bytes] /\ bytes # << >>
        BY <2>1 DEF Alphabet, ByteSeq, Octets
    <2>3. prefix = p.prefix /\ bytes = p.bytes
        BY <2>2
    <2>4. t = EncodeCash(prefix, bytes)
        BY <1>9, <2>3, EncodedIs
    <2>5. t \in Seq(Alphabet)
        BY <2>1, <2>2, <2>3, <2>4, CashParts
    <2>6. CASE s = "cash"
        <3>1. DecodeCash(t) = {p}
            BY <2>1, <2>2, <2>3, <2>4, CashReadsBack
        <3> QED
            BY <1>0, <2>5, <2>6, <3>1, DecodedIs, TextsAre
    <2>7. CASE s = "conflux"
        <3>1. DecodeConflux(t) = {p}
            BY <2>1, <2>2, <2>3, <2>4, <2>7, ConfluxReadsBack
        <3> QED
            BY <1>0, <2>5, <2>7, <3>1, DecodedIs, TextsAre
    <2> QED
        BY <1>9, <2>6, <2>7
<1>10. CASE s = "bip39"
    <2>1. p \in Seq(Octet) /\ Digest(p) \in Octet
        BY <1>10, PayloadAssumption DEF Entropy, Digests, Octet
    <2>2. t \in EntropyToPhrase(p)
        BY <1>10, EncodedIs
    <2>3. t \in Seq(Char) /\ PhraseToEntropy(t) = {p}
        BY <2>1, <2>2, PhraseReadsBack
    <2> QED
        BY <1>0, <1>10, <2>3, DecodedIs, TextsAre
<1> QED
    BY <1>1, <1>2, <1>3, <1>4, <1>5, <1>6, <1>7, <1>8, <1>9, <1>10 DEF Readable

\* Only bech32 and hexadecimal read capitals, Conflux its type, and BIP39 more than one space.
LEMMA SpellingIs ==
    /\ \A s \in Readable \ {"hex", "bech32", "conflux", "bip39"} : \A t : Spelling(s, t) = t
    /\ \A t : Spelling("bech32", t) = LowerCase(t)
    /\ \A t : Spelling("conflux", t) =
                SubSeq(t, 1, Colon(t)) \o (CHOOSE rest \in AfterType(From(t, Colon(t) + 1)) : TRUE)
    /\ \A t : Spelling("hex", t) = HexLower(t)
    /\ \A t : Spelling("bip39", t) = CHOOSE sentence \in SeedSentence(t) : TRUE
BY DEF Spelling, Readable

\* What is read of a text of a scheme is written as that text.
LEMMA ReadIsWritten ==
    ASSUME NEW s \in Readable \ {"segwit"}, NEW t \in TextsOf(s), NEW v \in Decoded(s, t),
           s = "bip39" => Digest(v) \in Digests
    PROVE  Encoded(s, v) = {Spelling(s, t)}
<1>1. CASE s = "base58"
    <2>1. t \in Seq(0..Digit) /\ v \in Base58Decode(t)
        BY <1>1, DecodedIs, TextsAre
    <2>2. Base58Encode(v) = t
        BY <2>1, Base58OneSpelling
    <2> QED
        BY <1>1, <2>2, EncodedIs, SpellingIs DEF Readable
<1>2. CASE s = "base58check"
    <2>1. t \in Seq(0..Digit) /\ v \in DecodeCheck(t)
        BY <1>2, DecodedIs, TextsAre
    <2>2. EncodeCheck(v) = t
        BY <2>1, Base58CheckOneSpelling
    <2> QED
        BY <1>2, <2>2, EncodedIs, SpellingIs DEF Readable
<1>3. CASE s = "block58"
    <2>1. t \in Seq(0..Digit) /\ v \in BlockDecode(t)
        BY <1>3, DecodedIs, TextsAre
    <2>2. BlockEncode(v) = t
        BY <2>1, BlockOneSpelling
    <2> QED
        BY <1>3, <2>2, EncodedIs, SpellingIs DEF Readable
<1>4. CASE s = "varint"
    <2>1. t \in Seq(0..(Byte - 1)) /\ v \in ReadVarint(t)
        BY <1>4, DecodedIs, TextsAre
    <2>2. WriteVarint(v.value) \o v.rest = t
        BY <2>1, VarintOneSpelling
    <2>3. Encoded(s, v) = {WriteVarint(v.value) \o v.rest}
        BY <1>4, EncodedIs
    <2>4. Spelling(s, t) = t
        BY <1>4, SpellingIs DEF Readable
    <2> QED
        BY <2>2, <2>3, <2>4
<1>5. CASE s = "cryptonote"
    <2>1. t \in Seq(0..Digit) /\ v \in UNION {ReadVarint(bytes) : bytes \in BlockDecode(t)}
        BY <1>5, DecodedIs, TextsAre
    <2>2. BlockEncode(WriteVarint(v.value) \o v.rest) = t
        BY <2>1, CryptoNoteOneSpelling
    <2> QED
        BY <1>5, <2>2, EncodedIs, SpellingIs DEF Readable
<1>6. CASE s = "hex"
    <2>1. t \in Seq(Characters) /\ v \in HexDecode(t)
        BY <1>6, DecodedIs, TextsAre
    <2>2. HexEncode(v) = HexLower(t)
        BY <2>1, HexOneSpelling
    <2> QED
        BY <1>6, <2>2, EncodedIs, SpellingIs DEF Readable
<1>7. CASE s = "bech32"
    <2>1. t \in Seq(Alphabet) /\ v \in Decode(t)
        BY <1>7, DecodedIs, TextsAre
    <2>2. EncodeData(v.hrp, ToGroups(v.bytes), v.variant) = LowerCase(t)
        BY <2>1, Bech32OneSpelling
    <2> QED
        BY <1>7, <2>2, EncodedIs, SpellingIs
<1>8. CASE s = "cash"
    <2>1. t \in Seq(Alphabet) /\ v \in DecodeCash(t)
        BY <1>8, DecodedIs, TextsAre
    <2>2. EncodeCash(v.prefix, v.bytes) = t
        BY <2>1, CashOneSpelling
    <2> QED
        BY <1>8, <2>2, EncodedIs, SpellingIs DEF Readable
<1>9. CASE s = "conflux"
    <2>1. t \in Seq(Alphabet) /\ v \in DecodeConflux(t)
        BY <1>9, DecodedIs, TextsAre
    <2>2. EncodeCash(v.prefix, v.bytes) =
            SubSeq(t, 1, Colon(t)) \o (CHOOSE rest \in AfterType(From(t, Colon(t) + 1)) : TRUE)
        BY <2>1, ConfluxOneSpelling
    <2>3. Encoded(s, v) = {EncodeCash(v.prefix, v.bytes)}
        BY <1>9, EncodedIs
    <2>4. Spelling(s, t) = SubSeq(t, 1, Colon(t)) \o (CHOOSE rest \in AfterType(From(t, Colon(t) + 1)) : TRUE)
        BY <1>9, SpellingIs
    <2> QED
        BY <2>2, <2>3, <2>4
<1>10. CASE s = "bip39"
    <2>1. t \in Seq(Char) /\ v \in PhraseToEntropy(t) /\ Digest(v) \in Octet
        BY <1>10, DecodedIs, TextsAre DEF Digests, Octet
    <2>2. EntropyToPhrase(v) = {Join(SplitWhitespace(t))}
        BY <2>1, PhraseOneSpelling
    <2>3. SeedSentence(t) = {Join(SplitWhitespace(t))}
        BY <2>1 DEF SeedSentence
    <2>4. Spelling(s, t) = CHOOSE sentence \in SeedSentence(t) : TRUE
        BY <1>10, SpellingIs
    <2>5. Spelling(s, t) = Join(SplitWhitespace(t))
        BY <2>3, <2>4
    <2>6. Encoded(s, v) = EntropyToPhrase(v)
        BY <1>10, EncodedIs
    <2> QED
        BY <2>2, <2>5, <2>6
<1> QED
    BY <1>1, <1>2, <1>3, <1>4, <1>5, <1>6, <1>7, <1>8, <1>9, <1>10 DEF Readable

\* What is typed in a scheme is a text of it.
LEMMA TypedIsText ==
    ASSUME NEW s \in Readable
    PROVE  Typed(s) \subseteq TextsOf(s)
<1>1. CASE s \in {"base58", "base58check", "block58", "cryptonote"}
    BY <1>1, TypedAssumption, TextsAre DEF NotADigit
<1>2. CASE s = "varint"
    BY <1>2, TypedAssumption, TextsAre
<1>3. CASE s = "hex"
    <2>1. Seq(STRING) \subseteq Seq(Characters)
        <3>1. STRING \subseteq Characters
            BY DEF Characters
        <3> QED
            BY <3>1, SeqMonotonic
    <2> QED
        BY <1>3, <2>1, TypedAssumption, TextsAre
<1>4. CASE s \in {"segwit", "bech32", "cash", "conflux"}
    BY <1>4, TypedAssumption, TextsAre DEF Alphabet
<1>5. CASE s = "bip39"
    BY <1>5, TypedAssumption, TextsAre DEF Char
<1> QED
    BY <1>1, <1>2, <1>3, <1>4, <1>5 DEF Readable

\* The text is one that somebody typed, or what the encoder made of the payload; what was read
\* is what the decoder makes of the text.
Inv ==
    /\ scheme \in Scheme \cup {"none"}
    /\ scheme = "none" => payload = {} /\ text = {}
    /\ \/ payload = {} /\ (text = {} \/ \E t \in Typed(scheme) : text = {t})
       \/ \E p \in Payload(scheme) : payload = {p} /\ text = Encoded(scheme, p)
    /\ read = {} \/ (scheme \in Readable /\ \E t \in text : read = {Decoded(scheme, t)})

\* This holds of every state, whatever is written and typed in whatever scheme.
THEOREM TextsHaveOrigins == Spec => []Inv
<1>1. Init => Inv
    <2> SUFFICES ASSUME Init PROVE Inv
        OBVIOUS
    <2>1. scheme = "none" /\ payload = {} /\ text = {} /\ read = {}
        BY DEF Init
    <2>2. scheme = "none" => payload = {} /\ text = {}
        BY <2>1
    <2>3. payload = {} /\ (text = {} \/ \E t \in Typed(scheme) : text = {t})
        BY <2>1
    <2>4. read = {} \/ (scheme \in Readable /\ \E t \in text : read = {Decoded(scheme, t)})
        BY <2>1
    <2> QED
        BY <2>1, <2>2, <2>3, <2>4 DEF Inv
<1>2. Inv /\ [Next]_vars => Inv'
    <2> SUFFICES ASSUME Inv, [Next]_vars
                 PROVE  Inv'
        OBVIOUS
    <2>0. \A s \in Scheme : s # "none"
        BY DEF Scheme, Readable, OneWayScheme
    <2>1. ASSUME NEW s \in Scheme, Write(s) PROVE Inv'
        <3>1. read = {} \/ \E t \in text : read = {Decoded(scheme, t)}
            BY DEF Inv
        <3>2. text = {} /\ read' = read /\ scheme' = s
            BY <2>1 DEF Write, Inv
        <3>3. \E p \in Payload(scheme') : payload' = {p} /\ text' = Encoded(scheme', p)
            BY <2>1 DEF Write
        <3> QED
            BY <2>0, <3>1, <3>2, <3>3 DEF Inv
    <2>2. ASSUME NEW s \in Readable, Type(s) PROVE Inv'
        <3>1. read = {} \/ \E t \in text : read = {Decoded(scheme, t)}
            BY DEF Inv
        <3>2. text = {} /\ payload = {} /\ read' = read /\ payload' = payload /\ scheme' = s
            BY <2>2 DEF Type, Inv
        <3>3. \E t \in Typed(scheme') : text' = {t}
            BY <2>2 DEF Type
        <3>4. s # "none"
            BY <2>0 DEF Scheme
        <3>5. scheme' \in Scheme \cup {"none"}
            BY <3>2 DEF Scheme
        <3> QED
            BY <3>1, <3>2, <3>3, <3>4, <3>5 DEF Inv
    <2>3. CASE Read
        BY <2>3 DEF Read, Inv
    <2>4. CASE UNCHANGED vars
        BY <2>4 DEF vars, Inv
    <2> QED
        BY <2>1, <2>2, <2>3, <2>4 DEF Next
<1> QED
    BY <1>1, <1>2, PTL DEF Spec

\* What there is to be read is a text of its scheme.
LEMMA TextIsOfScheme ==
    ASSUME Inv, scheme \in Readable, NEW t \in text
    PROVE  t \in TextsOf(scheme) /\ text = {t}
<1>1. CASE payload = {}
    BY <1>1, TypedIsText DEF Inv
<1>2. CASE payload # {}
    <2>1. PICK p \in Payload(scheme) : text = Encoded(scheme, p)
        BY <1>2 DEF Inv
    <2>2. t \in TextsOf(scheme)
        BY <2>1, WrittenIsRead
    <2>3. Encoded(scheme, p) = {} \/ \E x : Encoded(scheme, p) = {x}
        BY OneEncoding
    <2> QED
        BY <2>1, <2>2, <2>3
<1> QED
    BY <1>1, <1>2

\* Whatever is written - base58, base58check, blocks, varints, addresses of CryptoNote, SegWit,
\* Bech32m, Kaspa and Conflux, hexadecimal, phrases - is read back as it was (ReadsBack of the
\* run, of every payload there may be).
THEOREM WrittenReadsBack == Spec => []ReadsBack
<1>1. ASSUME Inv PROVE ReadsBack
    <2> SUFFICES ASSUME NEW p \in payload, NEW result \in read
                 PROVE  result = {Meaning(scheme, p)}
        BY DEF ReadsBack
    <2>1. PICK q \in Payload(scheme) : payload = {q} /\ text = Encoded(scheme, q)
        BY <1>1 DEF Inv
    <2>2. PICK t \in text : scheme \in Readable /\ read = {Decoded(scheme, t)}
        BY <1>1 DEF Inv
    <2>3. Decoded(scheme, t) = {Meaning(scheme, p)}
        BY <2>1, <2>2, WrittenIsRead
    <2> QED
        BY <2>2, <2>3
<1> QED
    BY <1>1, TextsHaveOrigins, PTL

\* The digest of what is read of a phrase is a byte.
LEMMA DigestIsByte ==
    ASSUME Inv, scheme = "bip39", NEW t \in text, NEW v \in Decoded("bip39", t)
    PROVE  Digest(v) \in Digests
<1>1. v \in PhraseToEntropy(t)
    BY DecodedIs
<1>2. CASE payload = {}
    <2>1. t \in Typed("bip39")
        BY <1>2 DEF Inv
    <2> QED
        BY <1>1, <2>1, TypedAssumption
<1>3. CASE payload # {}
    <2>1. PICK p \in Payload("bip39") : t \in Encoded("bip39", p)
        BY <1>3 DEF Inv
    <2>2. "bip39" \in Readable /\ Meaning("bip39", p) = p
        BY DEF Readable, Meaning
    <2>3. Decoded("bip39", t) = {p}
        BY <2>1, <2>2, WrittenIsRead
    <2> QED
        BY <2>1, <2>3, PayloadAssumption
<1> QED
    BY <1>2, <1>3

\* Nothing is read that the encoders would not have written: what one value means has one
\* spelling (OneSpelling of the run, of every text there may be).
THEOREM WrittenOneWay == Spec => []OneSpelling
<1>1. ASSUME Inv PROVE OneSpelling
    <2> SUFFICES ASSUME scheme \in Readable \ {"segwit"}, NEW v \in UNION read, NEW t \in text
                 PROVE  Encoded(scheme, v) = {Spelling(scheme, t)}
        BY DEF OneSpelling
    <2>1. t \in TextsOf(scheme) /\ text = {t}
        BY <1>1, TextIsOfScheme
    <2>2. v \in Decoded(scheme, t)
        <3>1. PICK u \in text : read = {Decoded(scheme, u)}
            BY <1>1 DEF Inv
        <3> QED
            BY <2>1, <3>1
    <2>3. scheme = "bip39" => Digest(v) \in Digests
        BY <1>1, <2>2, DigestIsByte
    <2> QED
        BY <2>1, <2>2, <2>3, ReadIsWritten
<1> QED
    BY <1>1, TextsHaveOrigins, PTL

\* The schemes whose decoders are fuzzed.
Fuzzed == {"base58", "base58check", "segwit", "bech32", "hex"}

\* A checksum is so many groups, of whatever is written or typed.
LEMMA ChecksumsClose ==
    ASSUME Inv, scheme \in {"segwit", "bech32"}, NEW t \in text, NEW c \in Checked(t)
    PROVE  Closed(c.hrp, c.groups)
<1>1. CASE payload = {}
    <2>1. PICK u \in Typed(scheme) : text = {u}
        BY <1>1 DEF Inv
    <2>2. t \in Typed(scheme)
        BY <2>1
    <2> QED
        BY <2>2, TypedAssumption
<1>2. CASE payload # {} /\ scheme = "segwit"
    <2>1. PICK p \in Payload("segwit") : text = Encoded("segwit", p)
        BY <1>2 DEF Inv
    <2>2. /\ p \in [hrp : Seq(DOMAIN Lower), witver : 0..(Power(2, GroupBits) - 1), program : Octets]
          /\ HrpOk(p.hrp) /\ Closed(p.hrp, <<p.witver>> \o ToGroups(p.program))
          /\ Len(EncodeSegwit(p.hrp, p.witver, p.program)) <= MAX_LEN
        BY PayloadAssumption
    <2>3. PICK hrp \in Seq(Alphabet), witver \in 0..(Power(2, GroupBits) - 1), program \in ByteSeq :
                hrp = p.hrp /\ witver = p.witver /\ program = p.program
        BY <2>2 DEF Alphabet, ByteSeq, Octets
    <2>4. t = EncodeSegwit(hrp, witver, program)
        BY <2>1, <2>3, EncodedIs
    <2>5. PICK variant \in Variant, groups \in GroupSeq :
                /\ variant = (IF witver = 0 THEN "Bech32" ELSE "Bech32m")
                /\ groups = <<witver>> \o ToGroups(program)
        BY SegwitGroups DEF Variant
    <2>6. t = EncodeData(hrp, groups, variant)
        BY <2>4, <2>5 DEF EncodeSegwit
    <2>7. HrpOk(hrp) /\ Closed(hrp, groups) /\ Len(EncodeData(hrp, groups, variant)) <= MAX_LEN
        BY <2>2, <2>3, <2>4, <2>5, <2>6
    <2>8. Checked(t) = {[hrp |-> hrp, variant |-> variant, groups |-> groups]}
        BY <2>6, <2>7, CheckedReadsBack
    <2> QED
        BY <2>7, <2>8
<1>3. CASE payload # {} /\ scheme = "bech32"
    <2>1. PICK p \in Payload("bech32") : text = Encoded("bech32", p)
        BY <1>3 DEF Inv
    <2>2. /\ p \in [hrp : Seq(DOMAIN Lower), variant : Variant, bytes : Octets]
          /\ HrpOk(p.hrp) /\ Closed(p.hrp, ToGroups(p.bytes))
          /\ Len(EncodeData(p.hrp, ToGroups(p.bytes), p.variant)) <= MAX_LEN
        BY PayloadAssumption
    <2>3. PICK hrp \in Seq(Alphabet), variant \in Variant, bytes \in ByteSeq :
                hrp = p.hrp /\ variant = p.variant /\ bytes = p.bytes
        BY <2>2 DEF Alphabet, ByteSeq, Octets
    <2>4. PICK groups \in GroupSeq : groups = ToGroups(bytes)
        BY GroupsReadBack
    <2>5. t = EncodeData(hrp, groups, variant)
        BY <2>1, <2>3, <2>4, EncodedIs
    <2>6. HrpOk(hrp) /\ Closed(hrp, groups) /\ Len(EncodeData(hrp, groups, variant)) <= MAX_LEN
        BY <2>2, <2>3, <2>4
    <2>7. Checked(t) = {[hrp |-> hrp, variant |-> variant, groups |-> groups]}
        BY <2>5, <2>6, CheckedReadsBack
    <2> QED
        BY <2>6, <2>7
<1> QED
    BY <1>1, <1>2, <1>3

\* The fuzz target of base58.
LEMMA FuzzBase58 ==
    ASSUME NEW t \in Seq(0..Digit)
    PROVE  fuzz_base58(t)
<1>1. \A p \in DecodeCheck(t) : \E raw \in Base58Decode(t) : Len(raw) = Len(p) + CHECK /\ IsPrefix(p, raw)
    BY Base58CheckIsBase58
<1>2. \A raw \in Base58Decode(t) : Base58Encode(raw) = t
    BY Base58OneSpelling
<1> QED
    BY <1>1, <1>2 DEF fuzz_base58

\* The fuzz target of hexbytes.
LEMMA FuzzHex ==
    ASSUME NEW t \in Seq(Characters)
    PROVE  fuzz_hexbytes(t)
<1>1. \A bytes \in HexDecode(t) : 2 * Len(bytes) = Len(t) /\ HexEncode(bytes) = HexLower(t)
    BY HexDecodeLen, HexOneSpelling
<1>2. \A n \in {1, 2} : check_width(t, n)
    BY DEF check_width, HexDecodeN
<1> QED
    BY <1>1, <1>2 DEF fuzz_hexbytes

\* The fuzz target of bech32.
LEMMA FuzzBech32 ==
    ASSUME NEW t \in Seq(Alphabet), \A c \in Checked(t) : Closed(c.hrp, c.groups)
    PROVE  fuzz_bech32(t)
<1> SUFFICES ASSUME NEW v \in Verify(t)
             PROVE  /\ v.hrp # << >> /\ LowerCase(v.hrp) = v.hrp /\ IsPrefix(v.hrp, LowerCase(t))
                    /\ Len(LowerCase(t)) >= Len(v.hrp) + 1 + CHECKSUM_CHARS
                    /\ Len(LowerCase(t)) <= MAX_LEN /\ Len(v.hrp) <= MAX_LEN - 1 - CHECKSUM_CHARS
                    /\ \A i \in DOMAIN v.hrp : Printable(v.hrp[i])
                    /\ Verify(LowerCase(t)) = {v}
    BY DEF fuzz_bech32
<1>1. /\ v.hrp \in Seq(Alphabet) /\ HrpOk(v.hrp) /\ IsPrefix(v.hrp, LowerCase(t))
      /\ Len(v.hrp) + 1 + CHECKSUM_CHARS <= Len(LowerCase(t)) /\ Len(LowerCase(t)) <= MAX_LEN
      /\ Verify(LowerCase(t)) = {v}
    BY VerifiedAgain
<1>2. PICK h \in Nat, l \in Nat, n \in Nat, m \in Nat :
            /\ h = Len(v.hrp) /\ l = Len(LowerCase(t)) /\ n = CHECKSUM_CHARS /\ m = MAX_LEN
            /\ DOMAIN v.hrp = 1..h
    BY <1>1, LowerIn, LenProperties, LengthAssumption
<1>3. l >= h + 1 + n /\ l <= m /\ h <= m - 1 - n
    <2>1. Len(v.hrp) + 1 + CHECKSUM_CHARS = h + 1 + n
        BY <1>2
    <2>2. h + 1 + n <= l /\ l <= m
        BY <1>1, <1>2, <2>1
    <2> QED
        BY <2>2
<1>4. /\ v.hrp # << >> /\ \A i \in DOMAIN v.hrp : Printable(v.hrp[i])
      /\ \A i \in 1..h : Lower[v.hrp[i]] = v.hrp[i]
    BY <1>1, <1>2 DEF HrpOk
<1>5. LowerCase(v.hrp) = v.hrp
    BY <1>1, <1>2, <1>4, LowerIs
<1> QED
    BY <1>1, <1>2, <1>3, <1>4, <1>5

\* No assertion of a fuzz target of the decoders fails, of any text that is typed or written
\* (FuzzTargetsHold of the run, of texts of any length).
THEOREM FuzzTargetsNeverFail == Spec => []FuzzTargetsHold
<1>1. ASSUME Inv, NEW t \in text, scheme \in Fuzzed
      PROVE  CASE scheme \in {"base58", "base58check"} -> fuzz_base58(t)
               [] scheme \in {"segwit", "bech32"} -> fuzz_bech32(t)
               [] scheme = "hex" -> fuzz_hexbytes(t)
               [] OTHER -> TRUE
    <2>1. scheme \in Readable
        BY <1>1 DEF Fuzzed, Readable
    <2>2. t \in TextsOf(scheme)
        BY <1>1, <2>1, TextIsOfScheme
    <2>3. CASE scheme \in {"base58", "base58check"}
        <3>1. fuzz_base58(t)
            BY <2>2, <2>3, TextsAre, FuzzBase58
        <3> QED
            BY <2>3, <3>1
    <2>4. CASE scheme \in {"segwit", "bech32"}
        <3>1. \A c \in Checked(t) : Closed(c.hrp, c.groups)
            BY <1>1, <2>4, ChecksumsClose
        <3>2. fuzz_bech32(t)
            BY <2>2, <2>4, <3>1, TextsAre, FuzzBech32
        <3> QED
            BY <2>4, <3>2
    <2>5. CASE scheme = "hex"
        <3>1. fuzz_hexbytes(t)
            BY <2>2, <2>5, TextsAre, FuzzHex
        <3> QED
            BY <2>5, <3>1
    <2> QED
        BY <1>1, <2>3, <2>4, <2>5 DEF Fuzzed
<1>2. ASSUME Inv PROVE FuzzTargetsHold
    BY <1>1, <1>2 DEF FuzzTargetsHold, Fuzzed
<1> QED
    BY <1>2, TextsHaveOrigins, PTL

\* Two scalars never have the same words: of a CryptoNote wallet they are all that is kept.
THEOREM WordsDiffer == Spec => []WordsTellKeysApart
<1>1. ASSUME Inv PROVE WordsTellKeysApart
    <2> SUFFICES ASSUME scheme = "words", NEW p \in payload, NEW t \in text,
                        NEW q \in Payload("words"), Encoded("words", q) = {t}
                 PROVE  q = p
        BY DEF WordsTellKeysApart
    <2>1. PICK r \in Payload("words") : payload = {r} /\ text = Encoded("words", r)
        BY <1>1 DEF Inv
    <2>2. r = p
        BY <2>1
    <2>3. Monero25(q) = t /\ Monero25(p) = t
        BY <2>1, <2>2, EncodedIs
    <2>4. p \in Seq(0..(GroupValues - 1)) /\ q \in Seq(0..(GroupValues - 1))
        BY <2>1, <2>2, PayloadAssumption
    <2> QED
        BY <2>3, <2>4, Monero25Injective
<1> QED
    BY <1>1, TextsHaveOrigins, PTL

\* The prescreen of detection loses no address, whatever its keys (TagOpensAll of the run, for
\* every network prefix, any number of bytes after it and any blocks).
THEOREM PrescreenKeepsAll == Spec => []TagOpensAll
<1>1. ASSUME Inv PROVE TagOpensAll
    <2> SUFFICES ASSUME scheme = "cryptonote", NEW p \in payload, NEW t \in text
                 PROVE  Len(t) = Tag(p.value).len /\ IsPrefix(Tag(p.value).opening, t)
        BY DEF TagOpensAll
    <2>1. PICK q \in Payload("cryptonote") : payload = {q} /\ text = Encoded("cryptonote", q)
        BY <1>1 DEF Inv
    <2>2. p = q
        BY <2>1
    <2>3. p \in [value : 0..(U64 - 1), rest : Seq(0..(Byte - 1))] /\ Len(p.rest) = TAIL
        BY <2>1, <2>2, PayloadAssumption
    <2>4. PICK nb \in 0..(U64 - 1), rest \in Seq(0..(Byte - 1)) :
            p = [value |-> nb, rest |-> rest] /\ Len(rest) = TAIL
        BY <2>3
    <2>5. t = BlockEncode(WriteVarint(p.value) \o p.rest)
        BY <2>1, <2>2, EncodedIs
    <2>6. t = BlockEncode(WriteVarint(nb) \o rest) /\ p.value = nb
        BY <2>4, <2>5
    <2> QED
        BY <2>4, <2>6, TagOpens
<1> QED
    BY <1>1, TextsHaveOrigins, PTL

\* A decoder gives one value or none.
LEMMA DecodedIsOne ==
    ASSUME NEW s \in Readable, NEW t \in TextsOf(s),
           s \in {"segwit", "bech32"} => \A c \in Checked(t) : Closed(c.hrp, c.groups)
    PROVE  Lone(Decoded(s, t))
<1>1. CASE s = "base58"
    <2>1. Lone(Base58Decode(t))
        BY DEF Base58Decode, Lone
    <2> QED
        BY <1>1, <2>1, DecodedIs
<1>2. CASE s = "base58check"
    <2>1. \A a, b \in Base58Decode(t) : a = b
        BY DEF Base58Decode
    <2>2. \A raw : \A a, b \in VerifyCheck(raw) : a = b
        BY DEF VerifyCheck
    <2>3. Lone(DecodeCheck(t))
        BY <2>1, <2>2 DEF DecodeCheck, Lone
    <2> QED
        BY <1>2, <2>3, DecodedIs
<1>3. \A x : Lone(BlockDecode(x))
    <2> SUFFICES ASSUME NEW x PROVE Lone(BlockDecode(x))
        OBVIOUS
    <2>1. PICK decoded :
            decoded = [i \in DOMAIN Chunks(x, ENC_LEN[BLOCK]) |-> DecodeBlock(Chunks(x, ENC_LEN[BLOCK])[i])]
        OBVIOUS
    <2>2. PICK y : y = FlattenSeq([i \in DOMAIN decoded |-> CHOOSE bytes \in decoded[i] : TRUE])
        OBVIOUS
    <2>3. BlockDecode(x) = IF \E i \in DOMAIN decoded : decoded[i] = {} THEN {} ELSE {y}
        BY <2>1, <2>2 DEF BlockDecode
    <2> QED
        BY <2>3 DEF Lone
<1>4. \A x : Lone(ReadVarint(x))
    <2>1. \A x : ReadVarint(x) = {} \/ \E y : ReadVarint(x) = {y}
        BY DEF ReadVarint
    <2> QED
        BY <2>1 DEF Lone
<1>5. CASE s \in {"block58", "varint"}
    BY <1>3, <1>4, <1>5, DecodedIs
<1>6. CASE s = "cryptonote"
    <2>1. Lone(UNION {ReadVarint(bytes) : bytes \in BlockDecode(t)})
        BY <1>3, <1>4 DEF Lone
    <2> QED
        BY <1>6, <2>1, DecodedIs
<1>7. CASE s = "hex"
    <2>1. HexDecode(t) = {} \/ \E y : HexDecode(t) = {y}
        BY DEF HexDecode
    <2> QED
        BY <1>7, <2>1, DecodedIs DEF Lone
<1>8. ASSUME s \in {"segwit", "bech32"} PROVE \A c, d \in Checked(t) : c = d
    <2>1. t \in Seq(Alphabet)
        BY <1>8, TextsAre
    <2>2. \A c \in Checked(t) : Checked(LowerCase(t)) = {c}
        BY <1>8, <2>1, CheckedAgain
    <2> QED
        BY <2>2
<1>9. CASE s = "segwit"
    <2>1. Lone(Verify(t))
        BY <1>8, <1>9 DEF Verify, Lone
    <2> QED
        BY <1>9, <2>1, DecodedIs
<1>10. \A groups : \A a, b \in ToBytes(groups) : a = b
    BY DEF ToBytes
<1>11. CASE s = "bech32"
    <2>1. Lone(Decode(t))
        <3> SUFFICES ASSUME NEW a \in Decode(t), NEW b \in Decode(t) PROVE a = b
            BY DEF Lone
        <3>1. PICK c \in Checked(t) :
                    \E x \in ToBytes(c.groups) : a = [hrp |-> c.hrp, variant |-> c.variant, bytes |-> x]
            BY DEF Decode
        <3>2. PICK d \in Checked(t) :
                    \E x \in ToBytes(d.groups) : b = [hrp |-> d.hrp, variant |-> d.variant, bytes |-> x]
            BY DEF Decode
        <3>3. c = d
            BY <1>8, <1>11
        <3> QED
            BY <1>10, <3>1, <3>2, <3>3
    <2> QED
        BY <1>11, <2>1, DecodedIs
<1>12. \A prefix, data : \A a, b \in CashBytes(prefix, data) : a = b
    <2> SUFFICES ASSUME NEW prefix, NEW data, NEW a \in CashBytes(prefix, data), NEW b \in CashBytes(prefix, data)
                 PROVE  a = b
        OBVIOUS
    <2>1. PICK g \in GroupsOf(data) : a \in ToBytes(ButLast(g, CHECKSUM_CHARS))
        BY DEF CashBytes
    <2>2. PICK h \in GroupsOf(data) : b \in ToBytes(ButLast(h, CHECKSUM_CHARS))
        BY DEF CashBytes
    <2>3. g = h
        BY DEF GroupsOf
    <2> QED
        BY <1>10, <2>1, <2>2, <2>3
<1>13. CASE s = "cash"
    <2>1. Lone(DecodeCash(t))
        <3> SUFFICES ASSUME NEW a \in DecodeCash(t), NEW b \in DecodeCash(t) PROVE a = b
            BY DEF Lone
        <3>1. PICK x \in CashBytes(SubSeq(t, 1, Colon(t) - 1), From(t, Colon(t) + 1)) :
                    a = [prefix |-> SubSeq(t, 1, Colon(t) - 1), bytes |-> x]
            BY DEF DecodeCash
        <3>2. PICK y \in CashBytes(SubSeq(t, 1, Colon(t) - 1), From(t, Colon(t) + 1)) :
                    b = [prefix |-> SubSeq(t, 1, Colon(t) - 1), bytes |-> y]
            BY DEF DecodeCash
        <3> QED
            BY <1>12, <3>1, <3>2
    <2> QED
        BY <1>13, <2>1, DecodedIs
<1>14. CASE s = "conflux"
    <2>1. Lone(DecodeConflux(t))
        <3> SUFFICES ASSUME NEW a \in DecodeConflux(t), NEW b \in DecodeConflux(t) PROVE a = b
            BY DEF Lone
        <3>1. PICK data \in AfterType(From(t, Colon(t) + 1)) :
                    \E x \in CashBytes(SubSeq(t, 1, Colon(t) - 1), data) :
                        a = [prefix |-> SubSeq(t, 1, Colon(t) - 1), bytes |-> x]
            BY DEF DecodeConflux
        <3>2. PICK other \in AfterType(From(t, Colon(t) + 1)) :
                    \E x \in CashBytes(SubSeq(t, 1, Colon(t) - 1), other) :
                        b = [prefix |-> SubSeq(t, 1, Colon(t) - 1), bytes |-> x]
            BY DEF DecodeConflux
        <3>3. data = other
            BY DEF AfterType
        <3> QED
            BY <1>12, <3>1, <3>2, <3>3
    <2> QED
        BY <1>14, <2>1, DecodedIs
<1>15. CASE s = "bip39"
    <2>1. PhraseToEntropy(t) = {} \/ \E y : PhraseToEntropy(t) = {y}
        BY DEF PhraseToEntropy
    <2> QED
        BY <1>15, <2>1, DecodedIs DEF Lone
<1> QED
    BY <1>1, <1>2, <1>5, <1>6, <1>7, <1>9, <1>11, <1>13, <1>14, <1>15 DEF Readable

\* What a decoder returns is made of bytes, and a network prefix is one its u64 holds.
LEMMA DecodedIsTyped ==
    ASSUME NEW s \in Readable, NEW t \in TextsOf(s), NEW v \in Decoded(s, t),
           s = "bip39" => Digest(v) \in Digests
    PROVE  /\ Bytes(s, v) \in Seq(0..(ByteValues(s) - 1))
           /\ s \in {"varint", "cryptonote"} => v.value \in 0..(U64 - 1)
<1>1. CASE s \in {"base58", "base58check", "block58"}
    <2>1. t \in Seq(0..Digit)
        BY <1>1, TextsAre
    <2>2. v \in Seq(0..(Byte - 1))
        BY <1>1, <2>1, DecodedIs, Base58OneSpelling, Base58CheckOneSpelling, BlockOneSpelling
    <2>3. Bytes(s, v) = v /\ ByteValues(s) = Byte
        BY <1>1 DEF Bytes, ByteValues
    <2> QED
        BY <1>1, <2>2, <2>3
<1>2. CASE s = "varint"
    <2>1. t \in Seq(0..(Byte - 1)) /\ v \in ReadVarint(t)
        BY <1>2, TextsAre, DecodedIs
    <2>2. v.value \in 0..(U64 - 1) /\ v.rest \in Seq(0..(Byte - 1))
        BY <2>1, VarintOneSpelling
    <2>3. Bytes(s, v) = v.rest /\ ByteValues(s) = Byte
        BY <1>2 DEF Bytes, ByteValues
    <2> QED
        BY <2>2, <2>3
<1>3. CASE s = "cryptonote"
    <2>1. t \in Seq(0..Digit) /\ v \in UNION {ReadVarint(bytes) : bytes \in BlockDecode(t)}
        BY <1>3, TextsAre, DecodedIs
    <2>2. v.value \in 0..(U64 - 1) /\ v.rest \in Seq(0..(Byte - 1))
        BY <2>1, CryptoNoteOneSpelling
    <2>3. Bytes(s, v) = v.rest /\ ByteValues(s) = Byte
        BY <1>3 DEF Bytes, ByteValues
    <2> QED
        BY <2>2, <2>3
<1>4. CASE s = "hex"
    <2>1. t \in Seq(Characters) /\ v \in HexDecode(t)
        BY <1>4, TextsAre, DecodedIs
    <2>2. v \in Seq(0..255)
        BY <2>1, HexOneSpelling
    <2>3. Bytes(s, v) = v /\ 0..(ByteValues(s) - 1) = 0..255
        BY <1>4 DEF Bytes, ByteValues
    <2> QED
        BY <1>4, <2>2, <2>3
<1>5. CASE s = "segwit"
    <2>1. Bytes(s, v) = << >>
        BY <1>5 DEF Bytes
    <2> QED
        BY <1>5, <2>1, EmptySeq
<1>6. CASE s \in {"bech32", "cash", "conflux"}
    <2>1. t \in Seq(Alphabet)
        BY <1>6, TextsAre
    <2>2. v.bytes \in ByteSeq
        BY <1>6, <2>1, DecodedIs, Bech32OneSpelling, CashOneSpelling, ConfluxOneSpelling
    <2>3. Bytes(s, v) = v.bytes /\ ByteValues(s) = Power(2, ByteBits)
        BY <1>6 DEF Bytes, ByteValues
    <2> QED
        BY <1>6, <2>2, <2>3 DEF ByteSeq
<1>7. CASE s = "bip39"
    <2>1. t \in Seq(Char) /\ v \in PhraseToEntropy(t) /\ Digest(v) \in Octet
        BY <1>7, TextsAre, DecodedIs DEF Digests, Octet
    <2>2. v \in Seq(Octet)
        BY <2>1, PhraseOneSpelling
    <2>3. Bytes(s, v) = v /\ ByteValues(s) = Power(2, BIP39ByteBits)
        BY <1>7 DEF Bytes, ByteValues
    <2> QED
        BY <1>7, <2>2, <2>3 DEF Octet
<1> QED
    BY <1>1, <1>2, <1>3, <1>4, <1>5, <1>6, <1>7 DEF Readable

\* What is computed of a message is one thing, or refused.
LEMMA ComputedIsOne ==
    ASSUME NEW s \in OneWayScheme, NEW p
    PROVE  Lone(Computed(s, p))
<1>1. \A x : Lone({x})
    BY DEF Lone
<1>2. CASE s = "noid"
    BY <1>2 DEF Computed, Lone
<1>3. CASE s = "secp256k1"
    <2>1. \A d, e \in Curve!scalar_in_range(p) : d = e
        BY DEF Curve!scalar_in_range
    <2> QED
        BY <1>3, <2>1 DEF Computed, Lone
<1>4. CASE s = "checksum"
    <2>1. Computed(s, p) = {Sums!Checksummed(p.code, p.prefix, p.groups)}
        BY <1>4 DEF Computed
    <2> QED
        BY <1>1, <2>1
<1>5. CASE s = "keccak"
    <2>1. Computed(s, p) = {Keccak256!keccak256(p)}
        BY <1>5 DEF Computed
    <2> QED
        BY <1>1, <2>1
<1>6. CASE s = "ripemd"
    <2>1. Computed(s, p) = {Ripemd!ripemd160(p)}
        BY <1>6 DEF Computed
    <2> QED
        BY <1>1, <2>1
<1>7. CASE s = "clmul"
    <2>1. Computed(s, p) = {clmul(p.width, p.x, p.y)}
        BY <1>7 DEF Computed
    <2> QED
        BY <1>1, <2>1
<1>8. CASE s = "field"
    <2>1. Computed(s, p) = {mul[<<p.x, p.y>>]}
        BY <1>8 DEF Computed
    <2>2. \E x : Computed(s, p) = {x}
        BY Zenon, <2>1
    <2> QED
        BY <1>1, <2>2
<1>9. CASE s = "edwards"
    <2>1. Computed(s, p) = {Curve!scalarmult_base(p)}
        BY <1>9 DEF Computed
    <2> QED
        BY <1>1, <2>1
<1> QED
    BY <1>2, <1>3, <1>4, <1>5, <1>6, <1>7, <1>8, <1>9 DEF OneWayScheme

\* So is what an encoder writes.
LEMMA EncodedIsOne ==
    ASSUME NEW s \in Scheme, NEW p
    PROVE  Lone(Encoded(s, p))
<1>1. CASE s \in Readable
    BY <1>1, OneEncoding DEF Lone
<1>2. CASE s = "words"
    BY <1>2, EncodedIs DEF Lone
<1>3. CASE s \in OneWayScheme
    <2>1. Encoded(s, p) = Computed(s, p)
        BY <1>3 DEF Encoded, OneWayScheme
    <2> QED
        BY <1>3, <2>1, ComputedIsOne
<1> QED
    BY <1>1, <1>2, <1>3 DEF Scheme

\* Whatever it was given, a decoder returns at most one value, of bytes that fit their octets and
\* a network prefix that fits its u64 (TypeOK of the run, of texts of any length).
THEOREM TypesHold == Spec => []TypeOK
<1>1. ASSUME Inv PROVE TypeOK
    <2>1. scheme \in Scheme \cup {"none"}
        BY <1>1 DEF Inv
    <2>2. Lone(payload)
        BY <1>1 DEF Inv, Lone
    <2>3. Lone(text)
        <3>1. CASE payload = {}
            BY <1>1, <3>1 DEF Inv, Lone
        <3>2. CASE payload # {}
            <4>1. PICK p : text = Encoded(scheme, p)
                BY <1>1, <3>2 DEF Inv
            <4>2. scheme \in Scheme
                BY <1>1, <3>2 DEF Inv
            <4> QED
                BY <4>1, <4>2, EncodedIsOne
        <3> QED
            BY <3>1, <3>2
    <2>4. Lone(read)
        BY <1>1 DEF Inv, Lone
    <2>5. CASE read = {}
        BY <2>1, <2>2, <2>3, <2>4, <2>5 DEF TypeOK, Lone
    <2>6. CASE read # {}
        <3>1. PICK t \in text : scheme \in Readable /\ read = {Decoded(scheme, t)}
            BY <1>1, <2>6 DEF Inv
        <3>2. t \in TextsOf(scheme)
            BY <1>1, <3>1, TextIsOfScheme
        <3>3. scheme \in {"segwit", "bech32"} => \A c \in Checked(t) : Closed(c.hrp, c.groups)
            BY <1>1, <3>1, ChecksumsClose
        <3>4. UNION read = Decoded(scheme, t)
            BY <3>1
        <3>5. Lone(UNION read)
            BY <3>1, <3>2, <3>3, <3>4, DecodedIsOne
        <3>6. ASSUME NEW v \in UNION read
              PROVE  /\ Bytes(scheme, v) \in Seq(0..(ByteValues(scheme) - 1))
                     /\ scheme \in {"varint", "cryptonote"} => v.value \in 0..(U64 - 1)
            <4>1. v \in Decoded(scheme, t)
                BY <3>4
            <4>2. scheme = "bip39" => Digest(v) \in Digests
                BY <1>1, <3>1, <4>1, DigestIsByte
            <4> QED
                BY <3>1, <3>2, <4>1, <4>2, DecodedIsTyped
        <3>7. \A v \in UNION read : \A i \in DOMAIN Bytes(scheme, v) :
                    Bytes(scheme, v)[i] \in 0..(ByteValues(scheme) - 1)
            BY <3>6, ElementOfSeq, LenProperties
        <3>8. scheme \in {"varint", "cryptonote"} => \A v \in UNION read : v.value \in 0..(U64 - 1)
            BY <3>6
        <3> QED
            BY <2>1, <2>2, <2>3, <2>4, <3>5, <3>7, <3>8 DEF TypeOK
    <2> QED
        BY <2>5, <2>6
<1> QED
    BY <1>1, TextsHaveOrigins, PTL

\* The code's product of two words by integer multiplications and its product of two field
\* elements are the carry-less product and the product bit by bit, whatever the words, the
\* width, the classes and the taps (FieldProducts of the run).
THEOREM FieldProductsHold == Spec => []FieldProducts
<1>1. ASSUME Inv PROVE FieldProducts
    <2>1. ASSUME scheme = "clmul", NEW p \in payload PROVE text = {clmul_bitwise(p.width, p.x, p.y)}
        <3>1. p \in Payload("clmul") /\ text = Encoded("clmul", p)
            BY <1>1, <2>1 DEF Inv
        <3>2. Encoded("clmul", p) = {clmul(p.width, p.x, p.y)}
            BY DEF Encoded, Computed, OneWayScheme
        <3>3. /\ p.width \in 0..WidestWord
              /\ p.x \in SUBSET (0..(p.width - 1)) /\ p.y \in SUBSET (0..(p.width - 1))
            BY <3>1, PayloadAssumption
        <3>4. clmul(p.width, p.x, p.y) = clmul_bitwise(p.width, p.x, p.y)
            BY <3>3, ClmulIs DEF ClmulHolds
        <3> QED
            BY <3>1, <3>2, <3>4
    <2>2. ASSUME scheme = "field", NEW p \in payload PROVE text = {mul_bitwise(p.x, p.y)}
        <3>1. p \in Payload("field") /\ text = Encoded("field", p)
            BY <1>1, <2>2 DEF Inv
        <3>2. Encoded("field", p) = {mul[<<p.x, p.y>>]}
            BY DEF Encoded, Computed, OneWayScheme
        <3>3. p.x \in Element /\ p.y \in Element
            BY <3>1, PayloadAssumption
        <3>4. mul[<<p.x, p.y>>] = mul_bitwise(p.x, p.y)
            BY <3>3, ClmulIs, MulIs
        <3> QED
            BY <3>1, <3>2, <3>4
    <2> QED
        BY <2>1, <2>2 DEF FieldProducts
<1> QED
    BY <1>1, TextsHaveOrigins, PTL
=============================================================================
