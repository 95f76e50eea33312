--------------------------------- MODULE Hd ---------------------------------
(***************************************************************************)
(* HD derivation (crates/wallet/src/hd.rs): BIP39 phrase to one coin's     *)
(* address at m/<purpose>'/<slip44>'/<account>'/0/<index>.                 *)
(***************************************************************************)
EXTENDS Keys

CONSTANTS
    Phrase,              \* valid BIP39 phrases
    Child(_, _, _)       \* the scalar of a phrase, a passphrase and a path, by BIP32
                         \* (of the bip32 crate)

-----------------------------------------------------------------------------
(* Purposes *)

Purpose == {44, 84, 86}

\* Purpose::parse: the purpose a word names.
PurposeAliases == [p \in Purpose |->
    CASE p = 44 -> {"bip44", "44", "legacy", "p2pkh"}
      [] p = 84 -> {"bip84", "84", "segwit", "p2wpkh"}
      [] p = 86 -> {"bip86", "86", "taproot", "p2tr"}]

ParsePurpose(word) == {p \in Purpose : word \in PurposeAliases[p]}

\* native_purpose: the one whose address type is the single-key generator's.
NativePurpose(spec) ==
    CASE spec.params.fam = "SegwitV0" -> {84}
      [] spec.params.fam = "Taproot"  -> {86}
      [] spec.params.fam \in {"P2pkh", "Ethereum"} -> {44}
      [] OTHER -> {}

\* Mutation: BIP86 is taken to need only the bech32 prefix of a SegWit row.
SupportsSegwitOnly(spec, purpose) ==
    /\ spec.hd_slip44 # {}
    /\ CASE purpose = 44 -> HasP2pkhParts(spec.params)
         [] OTHER -> spec.params.fam = "SegwitV0"

Supports(spec, purpose) ==
    /\ spec.hd_slip44 # {}
    /\ CASE purpose = 44 -> spec.params.fam = "Ethereum" \/ HasP2pkhParts(spec.params)
         [] purpose = 84 -> spec.params.fam = "SegwitV0"
         [] purpose = 86 -> spec.params.fam \in {"SegwitV0", "Taproot"}

HdCapable(spec) == spec.hd_slip44 # {} /\ NativePurpose(spec) # {}

\* supported(): of the first n rows, and of them all, in table order.
SupportedAmong[n \in 0..Len(COINS)] ==
    IF n = 0 THEN << >>
    ELSE IF HdCapable(COINS[n]) THEN Append(SupportedAmong[n - 1], COINS[n])
    ELSE SupportedAmong[n - 1]
Supported == SupportedAmong[Len(COINS)]

\* lookup().
HdLookup(word) == {spec \in Lookup(word) : HdCapable(spec)}

-----------------------------------------------------------------------------
(* derive *)

\* A path element: a u32, of which BIP32 takes those below 2^31.
ChildNumber == {"0", "7"}
U32         == ChildNumber \cup {"2147483648"}

\* Mutation: BIP44 hashes the uncompressed public key.
HdAddressUncompressed(p, purpose, k) ==
    CASE purpose = 44 -> IF p.fam = "Ethereum" THEN EthAddress(k) ELSE P2pkhAddress(p.ver, k, FALSE)
      [] purpose = 84 -> SegwitAddress(p.hrp, k)
      [] purpose = 86 -> TaprootAddress(p.hrp, k)

HdAddress(p, purpose, k) ==
    CASE purpose = 44 -> IF p.fam = "Ethereum" THEN EthAddress(k) ELSE P2pkhAddress(p.ver, k, TRUE)
      [] purpose = 84 -> SegwitAddress(p.hrp, k)
      [] purpose = 86 -> TaprootAddress(p.hrp, k)

\* A row with a WIF byte exports a WIF, whatever the purpose.
HdSecret(p, k) ==
    CASE p.fam = "Ethereum" -> EthHex(k)
      [] p.fam = "Taproot"  -> Hex(k)
      [] OTHER -> Wif(p.wif, k, TRUE)

\* Mutation: the seed is derived without the passphrase.
DeriveNoPassphrase(phrase, passphrase, spec, purpose, account, index) ==
    LET path == <<purpose, spec.hd_slip44, account, index>>
        k    == Child(phrase, "", path)
    IN  IF ~Supports(spec, purpose) THEN Err("UnsupportedPurpose")
        ELSE IF ~({account, index} \subseteq ChildNumber) THEN Err("Derivation")
        ELSE Ok([coin    |-> spec.ticker,
                 address |-> HdAddress(spec.params, purpose, k),
                 secret  |-> HdSecret(spec.params, k),
                 path    |-> path])

\* derive: the checks in the order of the source.  The phrase has been validated.
Derive(phrase, passphrase, spec, purpose, account, index) ==
    LET path == <<purpose, spec.hd_slip44, account, index>>
        k    == Child(phrase, passphrase, path)
    IN  IF spec.hd_slip44 = {} THEN Err("UnknownCoin")
        ELSE IF ~Supports(spec, purpose) THEN Err("UnsupportedPurpose")
        ELSE IF ~({account, index} \subseteq ChildNumber) \/ k \notin Scalar THEN Err("Derivation")
        ELSE Ok([coin    |-> spec.ticker,
                 address |-> HdAddress(spec.params, purpose, k),
                 secret  |-> HdSecret(spec.params, k),
                 path    |-> path])
=============================================================================
