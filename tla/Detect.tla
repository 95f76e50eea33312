------------------------------- MODULE Detect -------------------------------
(***************************************************************************)
(* Payout-address detection (crates/addr/src/validate.rs and codec/): the  *)
(* inverse of derivation, from a text somebody pasted.                     *)
(*                                                                         *)
(* A text is a record of what the decoders can see of it:                  *)
(*   scheme   the alphabet and shape it is written in;                     *)
(*   tag      its prefix, HRP or network prefix;                           *)
(*   lead     the leading bytes of a base58 payload, the opening of a      *)
(*            block-base58 text;                                           *)
(*   len      bytes of payload without checksum (of 0x texts, characters); *)
(*   sum      the checksum that verifies over it, "none" when its scheme   *)
(*            has none, "broken" when none of them verifies;               *)
(*   letters  the case of its letters, where the case is no digit.         *)
(* Two checksums do not verify over one text, and a text of one scheme is  *)
(* none of another: a 0x or bare-hex text is not base58 at the lengths the *)
(* arms test, and a block-base58 text is too long for the base58 arms.     *)
(***************************************************************************)
EXTENDS Keys

CONSTANT Hash160     \* the two leading bytes of the hash160 of a key's public key

ASSUME Hash160Assumption == Hash160 \in [Key -> (0..255) \X (0..255)]

Text(scheme, tag, lead, len, sum, letters) ==
    [scheme |-> scheme, tag |-> tag, lead |-> lead, len |-> len, sum |-> sum, letters |-> letters]

Base58(lead, len, sum)  == Text("base58", "", lead, len, sum, "mixed")
Bech32(hrp, len, sum)   == Text("bech32", hrp, << >>, len, sum, "lower")
HexText(len, sum)       == Text("hex", "", << >>, len, sum, "lower")

HASH160_LEN      == 20
ALEPHIUM_LEN     == 33
ERGO_LEN         == 38
NOID_ADDRESS_LEN == 32
ETH_HEX_LEN      == 40

-----------------------------------------------------------------------------
(* What the coin table models. *)

ModelledVersions  == UNION {P2pkhVersionPrefixes(c.params) : c \in Rows}
ModelledHrps      == {c.params.hrp : c \in {r \in Rows : r.params.fam \in {"SegwitV0", "Taproot"}}}
\* Mainnet only, unlike the Conflux and CryptoNote ones.
KaspaPrefixes     == {c.params.hrp : c \in {r \in Rows : r.params.fam = "KaspaAddr"}}
ConfluxPrefixes   == UNION {{c.params.hrp} \cup c.params.hrpT : c \in {r \in Rows : r.params.fam = "Conflux"}}
MONERO_SUBADDRESS_PREFIX == "42"
CryptonotePrefixes ==
    UNION {{c.params.net} \cup c.params.netT : c \in {r \in Rows : r.params.fam = "CryptoNote"}}
        \cup {MONERO_SUBADDRESS_PREFIX}

\* What the addresses of a network prefix open with: one string, but for Monero's
\* testnet, whose addresses open with 9 or with A.
Openings(net) ==
    CASE net = "18" -> {"4"}
      [] net = MONERO_SUBADDRESS_PREFIX -> {"8"}
      [] net = "53" -> {"9", "A"}
      [] net = "0x6241d18c0" -> {"ZEPHYR"}
      [] net = "0x3ef318"    -> {"SaLv"}
      [] OTHER -> {"another"}

\* cryptonote_tag: the opening all addresses share, "" when they share none.
CryptonoteTag(net) == IF Cardinality(Openings(net)) = 1 THEN The(Openings(net)) ELSE ""

\* Mutation: empty tags are filtered out.
CryptonoteTagsFiltered == {CryptonoteTag(net) : net \in CryptonotePrefixes} \ {""}

CryptonoteTags == {CryptonoteTag(net) : net \in CryptonotePrefixes}

-----------------------------------------------------------------------------
(* The arms of detect_family *)

StartsWith(lead, v) == Len(v) <= Len(lead) /\ SubSeq(lead, 1, Len(v)) = v
RawLen(t)   == t.len + (IF t.sum = "none" THEN 0 ELSE 4)
RawFirst(t) == t.lead[1]

\* No checksum where the letters have one case; EIP-55 where they have two.
IsEthereum(t) == /\ t.scheme = "0x" /\ t.len = ETH_HEX_LEN
                 /\ t.letters # "mixed" \/ t.sum = "eip55"
IsWarthog(t)  == t.scheme = "hex" /\ t.len = HASH160_LEN /\ t.sum = "sha256"

\* Mutation: the prefix and the charset are all that is tested.
IsKaspaByShape(t) == t.scheme = "cash" /\ t.letters = "lower" /\ t.tag \in KaspaPrefixes

IsKaspa(t)    == /\ t.scheme = "cash" /\ t.letters = "lower" /\ t.sum = "cash"
                 /\ t.tag \in KaspaPrefixes
IsConflux(t)  == /\ t.scheme = "cip37" /\ t.letters = "lower" /\ t.sum = "cip37"
                 /\ t.len = 1 + HASH160_LEN /\ t.tag \in ConfluxPrefixes

\* bech32's `checked`: one case throughout and one of the two checksums.
Bech32Verifies(t) == t.scheme = "bech32" /\ t.letters # "mixed" /\ t.sum \in {"bech32", "bech32m"}

IsNoid(t)    == Bech32Verifies(t) /\ t.sum = "bech32m" /\ t.tag = "o" /\ t.len = NOID_ADDRESS_LEN
IsSegwit(t)  == Bech32Verifies(t) /\ t.tag \in ModelledHrps /\ t.sum = "bech32"
IsTaproot(t) == Bech32Verifies(t) /\ t.tag \in ModelledHrps /\ t.sum = "bech32m"

\* Mutation: the version is matched and the length is not.
VersionIsModelledAnyLength(t) == \E v \in ModelledVersions : StartsWith(t.lead, v)

VersionIsModelled(t) ==
    \E v \in ModelledVersions : t.len = Len(v) + HASH160_LEN /\ StartsWith(t.lead, v)

IsP2pkh(t)    == t.scheme = "base58" /\ t.sum = "sha256d" /\ VersionIsModelled(t)
IsXdag(t)     == t.scheme = "base58" /\ t.sum = "sha256d" /\ t.len = HASH160_LEN

\* Mutation: the checksum of a 38-byte text is not verified.
IsErgoByShape(t) == t.scheme = "base58" /\ RawLen(t) = ERGO_LEN /\ RawFirst(t) \in {1, 17}

IsErgo(t)     == /\ t.scheme = "base58" /\ RawLen(t) = ERGO_LEN
                 /\ RawFirst(t) \in {1, 17} /\ t.sum = "blake2b"
IsAlephium(t) == t.scheme = "base58" /\ RawLen(t) = ALEPHIUM_LEN /\ RawFirst(t) = 0

\* The tag prescreen, then the prefix and the checksum.
IsCryptonote(t) == /\ t.scheme = "block58"
                   /\ {t.lead, ""} \cap CryptonoteTags # {}
                   /\ t.tag \in CryptonotePrefixes /\ t.sum = "keccak" /\ t.len = 64

\* {} is None.
DetectFamily(t) ==
    CASE IsEthereum(t)   -> {"Ethereum"}
      [] IsWarthog(t)    -> {"Warthog"}
      [] IsKaspa(t)      -> {"KaspaAddr"}
      [] IsConflux(t)    -> {"Conflux"}
      [] IsNoid(t)       -> {"Noid"}
      [] ~IsNoid(t) /\ IsSegwit(t)  -> {"SegwitV0"}
      [] ~IsNoid(t) /\ IsTaproot(t) -> {"Taproot"}
      [] IsP2pkh(t)      -> {"P2pkh"}
      [] ~IsP2pkh(t) /\ IsXdag(t) -> {"Xdag"}
      [] ~IsP2pkh(t) /\ ~IsXdag(t) /\ IsErgo(t) -> {"Ergo"}
      [] ~IsP2pkh(t) /\ ~IsXdag(t) /\ ~IsErgo(t) /\ IsAlephium(t) -> {"Alephium"}
      [] IsCryptonote(t) -> {"CryptoNote"}
      [] OTHER -> {}

-----------------------------------------------------------------------------
(* check *)

IsBitcoinScript(fam) == fam \in {"P2pkh", "SegwitV0", "Taproot"}

FamiliesCompatible(detected, expected) ==
    detected = expected \/ (IsBitcoinScript(detected) /\ IsBitcoinScript(expected))

Unrecognized == <<"Unrecognized">>
Accepted     == <<"Ok">>

\* Mutation: the families are compared, not their compatibility.
CheckAddressExact(t, expected) ==
    LET detected == DetectFamily(t)
    IN  IF detected = {} THEN Unrecognized
        ELSE IF detected = {expected} THEN Accepted
        ELSE <<"Mismatch", The(detected), expected>>

CheckAddress(t, expected) ==
    LET detected == DetectFamily(t)
    IN  IF detected = {} THEN Unrecognized
        ELSE IF FamiliesCompatible(The(detected), expected) THEN Accepted
        ELSE <<"Mismatch", The(detected), expected>>

-----------------------------------------------------------------------------
(* The texts the generator prints, from the terms of Keys.tla. *)

\* The case EIP-55 gives an address is mixed, or single where its digest says so; a
\* Monero testnet address opens as its spend key says.
AddressTexts(a) ==
    CASE a[1] = "base58check" -> {Base58(a[2] \o Hash160[a[3]], Len(a[2]) + HASH160_LEN, "sha256d")}
      [] a[1] = "Xdag"       -> {Base58(Hash160[a[2]], HASH160_LEN, "sha256d")}
      [] a[1] = "ergo"       -> {Base58(<<IF a[2] = "Mainnet" THEN 1 ELSE 17>>, 34, "blake2b")}
      [] a[1] = "Alephium"   -> {Base58(<<0>>, ALEPHIUM_LEN, "none")}
      [] a[1] = "Warthog"    -> {HexText(HASH160_LEN, "sha256")}
      \* Witness version and program: 33 groups of five bits are no byte string, 53 are 33.
      [] a[1] = "bech32"     -> {Bech32(a[2], 0, "bech32")}
      [] a[1] = "bech32m"    -> {Bech32(a[2], 33, "bech32m")}
      [] a[1] = "Noid"       -> {Bech32("o", NOID_ADDRESS_LEN, "bech32m")}
      [] a[1] = "cashaddr"   -> {Text("cash", a[2], << >>, 33, "cash", "lower")}
      [] a[1] = "cip37"      -> {Text("cip37", a[2], << >>, 1 + HASH160_LEN, "cip37", "lower")}
      [] a[1] = "cryptonote" -> {Text("block58", a[2], open, 64, "keccak", "mixed") : open \in Openings(a[2])}
      [] a[1] = "eip55"      -> {Text("0x", "", << >>, ETH_HEX_LEN, "eip55", c) : c \in {"lower", "upper", "mixed"}}

SecretText(s) ==
    CASE s[1] = "wif"   -> Base58(<<s[3]>>, IF s[4] THEN 34 ELSE 33, "sha256d")
      [] s[1] = "hex"   -> HexText(32, "none")
      [] s[1] = "0x"    -> Text("0x", "", << >>, 64, "none", "lower")
      [] s[1] = "words" -> Text("words", "", << >>, 0, "none", "lower")

=============================================================================
