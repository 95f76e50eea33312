------------------------------- MODULE Codecs -------------------------------
(***************************************************************************)
(* Texts on paper: a payload is written out in one of the schemes, or      *)
(* somebody types a text that claims to be of one; the text is read.       *)
(* Writing and reading are the encoders and decoders of forager-addr and   *)
(* the phrases of forager-wallet, each whole.  What is only ever computed, *)
(* hashes and public keys, is written down the same way.                   *)
(***************************************************************************)
EXTENDS Base58Codec, Bech32Codec, HexCodec, PhraseCodec, OneWay

LOCAL INSTANCE FiniteSetsExt
LOCAL INSTANCE SequencesExt

CONSTANTS
    Payload(_),      \* what is written, of each scheme
    Typed(_)         \* what is typed

Octets  == Seq(0..(Power(2, ByteBits) - 1))
Digests == 0..(Power(2, BIP39ByteBits) - 1)
Entropy == Seq(Digests)

\* A payload is of its scheme, and short enough that its text is one a decoder looks at.
ASSUME PayloadAssumption ==
    /\ \A p \in Payload("base58") : p \in Seq(0..(Byte - 1)) /\ Len(Base58Encode(p)) <= MAX_INPUT_LEN
    /\ \A p \in Payload("base58check") :
            /\ p \in Seq(0..(Byte - 1)) \ {<< >>} /\ Sha256d(p) \in [1..CHECK -> 0..(Byte - 1)]
            /\ Len(EncodeCheck(p)) <= MAX_INPUT_LEN
    /\ Payload("block58") \subseteq Seq(0..(Byte - 1))
    /\ Payload("varint") \cup Payload("cryptonote") \subseteq [value : 0..(U64 - 1), rest : Seq(0..(Byte - 1))]
    /\ \A p \in Payload("cryptonote") : Len(p.rest) = TAIL
    /\ Payload("hex") \subseteq Seq(0..255)
    /\ Payload("words") \subseteq Seq(0..(GroupValues - 1))
    /\ \A p \in Payload("bip39") : p \in Entropy /\ Digest(p) \in Digests
    /\ \A p \in Payload("segwit") :
            /\ p \in [hrp : Seq(DOMAIN Lower), witver : 0..(Power(2, GroupBits) - 1),
                   program : Octets]
            /\ HrpOk(p.hrp) /\ Closed(p.hrp, <<p.witver>> \o ToGroups(p.program))
            /\ Len(EncodeSegwit(p.hrp, p.witver, p.program)) <= MAX_LEN
    /\ \A p \in Payload("bech32") :
            /\ p \in [hrp : Seq(DOMAIN Lower), variant : Variant, bytes : Octets]
            /\ HrpOk(p.hrp) /\ Closed(p.hrp, ToGroups(p.bytes))
            /\ Len(EncodeData(p.hrp, ToGroups(p.bytes), p.variant)) <= MAX_LEN
    /\ \A p \in Payload("cash") \cup Payload("conflux") :
            /\ p \in [prefix : Seq(DOMAIN Lower), bytes : Octets \ {<< >>}]
            /\ PrefixOk(p.prefix) /\ Closed(Masked(p.prefix), ToGroups(p.bytes))
    /\ \A p \in Payload("clmul") : /\ p.width \in 0..WidestWord
                                 /\ p.x \subseteq 0..(p.width - 1) /\ p.y \subseteq 0..(p.width - 1)
    /\ Payload("field") \subseteq [x : Element, y : Element]
    /\ \A p \in Payload("conflux") : Len(p.bytes) = 1 + ADDR_LEN /\ p.bytes[1] = 0

\* A text is of characters of its scheme, some of which no alphabet has; and whatever is in
\* front of it, a checksum is so many groups.
ASSUME TypedAssumption ==
    /\ \A s \in {"base58", "base58check", "block58", "cryptonote"} : Typed(s) \subseteq Seq(0..NotADigit)
    /\ Typed("varint") \subseteq Seq(0..(Byte - 1))
    /\ Typed("hex") \subseteq Seq(STRING)
    /\ \A s \in {"segwit", "bech32", "cash", "conflux"} : Typed(s) \subseteq Seq(DOMAIN Lower)
    /\ Typed("bip39") \subseteq Seq(0..Space)
    /\ \A t \in Typed("bip39") : \A entropy \in PhraseToEntropy(t) : Digest(entropy) \in Digests
    /\ \A t \in Typed("segwit") \cup Typed("bech32") : \A c \in Checked(t) : Closed(c.hrp, c.groups)

VARIABLES
    scheme,          \* the scheme, "none" at first
    payload,         \* {} or what was written
    text,            \* {} or the text
    read             \* {} or what reading it gave: {}, refused, or {value}

vars == <<scheme, payload, text, read>>

Init == scheme = "none" /\ payload = {} /\ text = {} /\ read = {}

\* The schemes that are read, and those this program only writes: CryptoNote's words and what
\* is computed.
Readable == {"base58", "base58check", "block58", "varint", "cryptonote", "hex", "segwit", "bech32",
             "cash", "conflux", "bip39"}
Scheme   == Readable \cup {"words"} \cup OneWayScheme

-----------------------------------------------------------------------------

\* {} is a payload the encoder refuses.
Encoded(s, p) ==
    CASE s \in OneWayScheme -> Computed(s, p)
      [] s = "base58"     -> {Base58Encode(p)}
      [] s = "base58check" -> {EncodeCheck(p)}
      [] s = "hex"        -> {HexEncode(p)}
      [] s = "block58"    -> {BlockEncode(p)}
      [] s = "varint"     -> {WriteVarint(p.value) \o p.rest}
      [] s = "cryptonote" -> {BlockEncode(WriteVarint(p.value) \o p.rest)}
      [] s = "segwit"     -> {EncodeSegwit(p.hrp, p.witver, p.program)}
      [] s = "bech32"     -> {EncodeData(p.hrp, ToGroups(p.bytes), p.variant)}
      [] s \in {"cash", "conflux"} -> {EncodeCash(p.prefix, p.bytes)}
      [] s = "bip39"      -> EntropyToPhrase(p)
      [] s = "words"      -> {Monero25(p)}

\* {} is a text the decoder refuses.
Decoded(s, t) ==
    CASE s = "base58"     -> Base58Decode(t)
      [] s = "base58check" -> DecodeCheck(t)
      [] s = "hex"        -> HexDecode(t)
      [] s = "block58"    -> BlockDecode(t)
      [] s = "varint"     -> ReadVarint(t)
      [] s = "cryptonote" -> UNION {ReadVarint(bytes) : bytes \in BlockDecode(t)}
      [] s = "segwit"     -> Verify(t)
      [] s = "bech32"     -> Decode(t)
      [] s = "cash"       -> DecodeCash(t)
      [] s = "conflux"    -> DecodeConflux(t)
      [] s = "bip39"      -> PhraseToEntropy(t)

Write(s) ==
    /\ scheme = "none" /\ scheme' = s
    /\ \E p \in Payload(s) : payload' = {p} /\ text' = Encoded(s, p)
    /\ UNCHANGED read

Type(s) ==
    /\ scheme = "none" /\ scheme' = s
    /\ \E t \in Typed(s) : text' = {t}
    /\ UNCHANGED <<payload, read>>

Read ==
    /\ scheme \in Readable /\ read = {}
    /\ \E t \in text : read' = {Decoded(scheme, t)}
    /\ UNCHANGED <<scheme, payload, text>>

Next ==
    \/ \E s \in Scheme : Write(s)
    \/ \E s \in Readable : Type(s)
    \/ Read

Spec == Init /\ [][Next]_vars

-----------------------------------------------------------------------------
(* The fuzz targets of the decoders: what they assert of any string, none of which may fail. *)

fuzz_base58(s) ==
    /\ \A body \in DecodeCheck(s) : \E raw \in Base58Decode(s) :
            Len(raw) = Len(body) + CHECK /\ IsPrefix(body, raw)
    /\ \A raw \in Base58Decode(s) : Base58Encode(raw) = s

fuzz_bech32(s) ==
    LET lower == LowerCase(s)
    IN  \A v \in Verify(s) :
            /\ v.hrp # << >> /\ LowerCase(v.hrp) = v.hrp /\ IsPrefix(v.hrp, lower)
            /\ Len(lower) >= Len(v.hrp) + 1 + CHECKSUM_CHARS
            /\ Len(lower) <= MAX_LEN /\ Len(v.hrp) <= MAX_LEN - 1 - CHECKSUM_CHARS
            /\ \A i \in DOMAIN v.hrp : Printable(v.hrp[i])
            /\ Verify(lower) = {v}

\* decode_n is tried at two widths, 20 and 32.
check_width(s, n) == HexDecodeN(s, n) = {bytes \in HexDecode(s) : Len(bytes) = n}

fuzz_hexbytes(s) ==
    /\ \A bytes \in HexDecode(s) : 2 * Len(bytes) = Len(s) /\ HexEncode(bytes) = HexLower(s)
    /\ \A n \in {1, 2} : check_width(s, n)

-----------------------------------------------------------------------------
(* Properties *)

Bytes(s, v) ==
    CASE s \in {"bech32", "cash", "conflux"} -> v.bytes
      [] s \in {"varint", "cryptonote"} -> v.rest
      [] s = "segwit" -> << >>
      [] OTHER -> v
ByteValues(s) == CASE s \in {"bech32", "cash", "conflux"} -> Power(2, ByteBits)
                   [] s = "bip39" -> Power(2, BIP39ByteBits)
                   [] s = "hex" -> 256
                   [] OTHER -> Byte

\* One value or none.
Lone(S) == \A a, b \in S : a = b

\* Types; and a reader returns bytes, and a network prefix its u64 holds, whatever it was given.
TypeOK ==
    /\ scheme \in Scheme \cup {"none"}
    /\ Lone(payload) /\ Lone(text) /\ Lone(read) /\ Lone(UNION read)
    /\ \A v \in UNION read : \A i \in DOMAIN Bytes(scheme, v) :
            Bytes(scheme, v)[i] \in 0..(ByteValues(scheme) - 1)
    /\ scheme \in {"varint", "cryptonote"} => \A v \in UNION read : v.value \in 0..(U64 - 1)

\* What reading a text written for p is to give: of a SegWit address only the prefix and the
\* variant of its witness version are asked for.
Meaning(s, p) ==
    IF s = "segwit" THEN [hrp |-> p.hrp, variant |-> IF p.witver = 0 THEN "Bech32" ELSE "Bech32m"] ELSE p

\* Whatever is written is read back as it was: leading zeros, incomplete blocks and groups,
\* prefixes of any width, a separator inside the prefix.
ReadsBack == \A p \in payload, result \in read : result = {Meaning(scheme, p)}

\* The text as an encoder writes it: bech32 and hex write no capitals, which they read, Conflux
\* names no type, and a seed is made of a phrase as it is printed however it was spaced.  To the
\* others case is significant, though the checksum of CashAddr does not see it in a prefix.
Spelling(s, t) ==
    CASE s = "bech32" -> LowerCase(t)
      [] s = "hex" -> HexLower(t)
      [] s = "bip39" -> CHOOSE sentence \in SeedSentence(t) : TRUE
      [] s = "conflux" -> SubSeq(t, 1, Colon(t)) \o (CHOOSE rest \in AfterType(From(t, Colon(t) + 1)) : TRUE)
      [] OTHER -> t

\* Nothing is read that the encoder would not have written: what one value means has one
\* spelling (convertbits_5_to_8: "accepting it would give the same bytes two or more
\* spellings"; read_varint: "accepting it would let two strings claim one network prefix").
OneSpelling ==
    scheme \in Readable \ {"segwit"} =>
        \A v \in UNION read, t \in text : Encoded(scheme, v) = {Spelling(scheme, t)}

\* The prescreen of detection loses no address: whatever the keys, the address of a network
\* prefix has the opening and the length computed for it (cryptonote_tag: the two extremes
\* bracket "every address in between").
TagOpensAll ==
    scheme = "cryptonote" => \A p \in payload, t \in text :
        LET tag == Tag(p.value) IN Len(t) = tag.len /\ IsPrefix(tag.opening, t)

\* Two scalars never have the same words, which is all there is to restore a CryptoNote
\* wallet from.
WordsTellKeysApart ==
    scheme = "words" => \A p \in payload, t \in text :
        \A q \in Payload("words") : Encoded("words", q) = {t} => q = p

\* No assertion of a fuzz target fails, of whatever is typed.
FuzzTargetsHold ==
    \A t \in text :
        CASE scheme \in {"base58", "base58check"} -> fuzz_base58(t)
          [] scheme \in {"segwit", "bech32"} -> fuzz_bech32(t)
          [] scheme = "hex" -> fuzz_hexbytes(t)
          [] OTHER -> TRUE

-----------------------------------------------------------------------------
(* Properties of what is computed *)

\* A checksum closes over what it was computed for, under the constant of its variant and no
\* other, and one or two wrong characters anywhere in a text as long as may be are noticed,
\* and never make a text of the other variant of it ("a single mistyped character cannot get
\* here").
TyposNoticed ==
    scheme = "checksum" => \A p \in payload, t \in text :
        /\ Sums!Taken(p.code, t) = {p.code}
        /\ Sums!OneIsSeen(p.code, t)
        /\ Sums!TwoAreSeen(p.code)

\* Keccak-256, table-driven and padded in place, is the sponge of its definition: whatever the
\* tail, empty, one short of the rate (where both ends of the padding are one byte) or whole.
KeccakIsSponge ==
    scheme = "keccak" => \A p \in payload : text = {Keccak256!KeccakDefinition(p)}

\* RIPEMD-160 is its definition, wherever the length falls beside the eight bytes its padding
\* has to end in.
RipemdIsDefined == scheme = "ripemd" => \A p \in payload : text = {Ripemd!RipemdDefinition(p)}

\* A product put together of integer products is the carry-less one: no carry of a class of
\* bits reaches the next bit of the class ("its carries never reach the next bit of the same
\* class"), and what the reduction folds over the top is folded again.
FieldProducts ==
    /\ scheme = "clmul" => \A p \in payload :
            text = {clmul_bitwise(p.width, p.x, p.y)}
    /\ scheme = "field" => \A p \in payload : text = {mul_bitwise(p.x, p.y)}

\* The NOID sponge, which lives in the flat basis and converts at its edges, gives the spend
\* secret and the address that one in the tower basis gives ("bit-identical to the reference").
NoidFlatIsTower ==
    scheme = "noid" => \A p \in payload, t \in text :
        /\ t.spend = SpendSecretDefinition(p.master, {}, p.domain)
        /\ t.address = AddressDefinition(t.spend, p.tag)

\* Any two scalars have the same Edwards key exactly when they reduce to the same, and the key
\* is that multiple of the base point, both roots of the decompression met.
EdwardsKeys == scheme = "edwards" => \A k \in payload, key \in text : Curve!EdwardsKey(k, key)

\* What a Taproot address pays to is what the wallet of its secret can sign for, whether the
\* public key of the secret has an even y or not.
TaprootSpendable ==
    scheme = "secp256k1" => \A d \in payload, t \in text : Curve!TaprootKey(d, t.output)

\* Two secrets never have one compressed key, and only a secret and its negative have one
\* x-only key; a scalar that is no secret has none.
SecretsHaveTheirKeys ==
    scheme = "secp256k1" => \A d \in payload :
        IF d = 0 \/ d >= SecpOrder THEN text = {} ELSE text # {} /\ Curve!SecpKeys(d)
=============================================================================
