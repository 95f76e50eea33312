-------------------------------- MODULE Keys --------------------------------
(***************************************************************************)
(* Single-key wallets: `dispatch`, the secret encodings and the reading of *)
(* a secret (crates/wallet/src/lib.rs, secret.rs, families/, curves/).     *)
(*                                                                         *)
(* Hashes and point multiplications are injective: an address or a secret  *)
(* string is a term, a tuple that starts with its encoding and holds what  *)
(* the encoding determines.  What the properties depend on is kept: which  *)
(* 32-byte strings are secp256k1 scalars, that an x-only key forgets the   *)
(* sign of its point, and that CryptoNote reduces its scalar.              *)
(***************************************************************************)
EXTENDS Coins

CONSTANTS
    Key,             \* the 32-byte strings
    Scalar,          \* those that are a big-endian integer in 1..n-1
    EvenY,           \* the scalar, of k and n-k, whose point has an even Y
    Reduce,          \* the string read little-endian, modulo the ed25519 group order
    ViewKey,         \* the private view key of a private spend key
    Token            \* the custom coin tokens a user may type

ASSUME ScalarAssumption == Scalar \subseteq Key /\ Scalar # {}
ASSUME EvenYAssumption  == EvenY \in [Scalar -> Scalar] /\ \A k \in Scalar : EvenY[EvenY[k]] = EvenY[k]
ASSUME ReduceAssumption == Reduce \in [Key -> Key] /\ \A k \in Key : Reduce[Reduce[k]] = Reduce[k]
ASSUME ViewKeyAssumption == ViewKey \in [Key -> Key]

Network == {"Mainnet", "Testnet"}

\* Result<T, E>.
Ok(value) == <<"Ok", value>>
Err(e)    == <<"Err", e>>
IsOk(r)   == r[1] = "Ok"

-----------------------------------------------------------------------------
(* Secrets as text.  "padded" hex has white space around it, "spaced" hex  *)
(* has it inside, "0x" hex has Ethereum's prefix.                          *)

Hex(k)    == <<"hex", k>>
EthHex(k) == <<"0x", k>>
Words(k)  == <<"words", k>>          \* the 25-word CryptoNote phrase
Wif(byte, k, compressed) == <<"wif", k, byte, compressed>>

\* Mutation: only the compressed payload shape is read.
FromWifCompressedOnly(text) == IF text[1] = "wif" /\ text[4] THEN {text[2]} ELSE {}

\* from_wif: any version byte, either payload shape.
FromWif(text) == IF text[1] = "wif" THEN {text[2]} ELSE {}

\* parse_secret: trimmed 64-digit hex, or a WIF.
ParseSecret(text) == IF text[1] \in {"hex", "padded"} THEN {text[2]} ELSE FromWif(text)

\* noid's parse_master_secret: hex, whatever white space it holds; never a WIF.
ParseMasterSecret(text) == IF text[1] \in {"hex", "padded", "spaced"} THEN {text[2]} ELSE {}

-----------------------------------------------------------------------------
(* dispatch *)

\* pick: {} is UnsupportedTestnet.
Pick(net, mainnet, testnet) == IF net = "Mainnet" THEN {mainnet} ELSE testnet

P2pkhAddress(ver, k, compressed) == <<"base58check", ver, k, compressed>>
SegwitAddress(hrp, k)  == <<"bech32", hrp, k>>
TaprootAddress(hrp, k) == <<"bech32m", hrp, EvenY[k]>>
KaspaAddress(hrp, k)   == <<"cashaddr", hrp, EvenY[k]>>
EthAddress(k)          == <<"eip55", k>>
ConfluxAddress(hrp, k) == <<"cip37", hrp, k>>
CryptoNoteAddress(nb, k) == <<"cryptonote", nb, Reduce[k]>>
ErgoAddress(net, k)    == <<"ergo", net, k>>
AlephiumAddress(k)     == <<"Alephium", k>>
XdagAddress(k)         == <<"Xdag", k>>
WarthogAddress(k)      == <<"Warthog", k>>
NoidAddress(master)    == <<"Noid", master>>

NetworkAgnostic == {"Ethereum", "Alephium", "Xdag", "Warthog", "Noid"}

\* Mutation: the legacy form of a SegWit coin forgets the network.
AddressesLegacyMainnet(p, k, net, legacy) ==
    CASE p.fam = "SegwitV0" /\ legacy -> {P2pkhAddress(p.ver, k, TRUE)}
      [] p.fam = "SegwitV0" /\ ~legacy -> {SegwitAddress(hrp, k) : hrp \in Pick(net, p.hrp, p.hrpT)}
      [] p.fam = "P2pkh" -> {P2pkhAddress(ver, k, p.compressed) : ver \in Pick(net, p.ver, p.verT)}
      [] OTHER -> {<<p.fam, k>>}

\* The address of a key, {} where the coin has no testnet.  `legacy` is ignored but by
\* SegWit rows.
Addresses(p, k, net, legacy) ==
    CASE p.fam = "Taproot"   -> {TaprootAddress(hrp, k) : hrp \in Pick(net, p.hrp, p.hrpT)}
      [] p.fam = "KaspaAddr" -> {KaspaAddress(hrp, k) : hrp \in Pick(net, p.hrp, p.hrpT)}
      [] p.fam = "SegwitV0"  ->
            IF legacy THEN {P2pkhAddress(ver, k, TRUE) : ver \in Pick(net, p.ver, p.verT)}
                      ELSE {SegwitAddress(hrp, k) : hrp \in Pick(net, p.hrp, p.hrpT)}
      [] p.fam = "P2pkh" ->
            {P2pkhAddress(ver, k, p.compressed) : ver \in Pick(net, p.ver, p.verT)}
      [] p.fam = "Conflux"    -> {ConfluxAddress(hrp, k) : hrp \in Pick(net, p.hrp, p.hrpT)}
      [] p.fam = "CryptoNote" -> {CryptoNoteAddress(nb, k) : nb \in Pick(net, p.net, p.netT)}
      [] p.fam = "Ethereum"   -> {EthAddress(k)}
      [] p.fam = "Ergo"       -> {ErgoAddress(net, k)}
      [] p.fam = "Alephium"   -> {AlephiumAddress(k)}
      [] p.fam = "Xdag"       -> {XdagAddress(k)}
      [] p.fam = "Warthog"    -> {WarthogAddress(k)}
      [] p.fam = "Noid"       -> {NoidAddress(k)}

\* The importable secret of each family, and the key printed as raw hex.
SecretStd(p, k) ==
    CASE p.fam = "SegwitV0" -> Wif(p.wif, k, TRUE)
      [] p.fam = "P2pkh"    -> Wif(p.wif, k, p.compressed)
      [] p.fam \in {"Ethereum", "Conflux"} -> EthHex(k)
      [] p.fam = "CryptoNote" -> Words(Reduce[k])
      [] OTHER -> Hex(k)

Canon(p, k) == IF p.fam = "CryptoNote" THEN Reduce[k] ELSE k

\* build_wallet (and noid_wallet, whose dispatch cannot fail).
BuildWallet(spec, k, net, legacy) ==
    LET addresses == Addresses(spec.params, k, net, legacy)
    IN  IF addresses = {} THEN Err("UnsupportedTestnet")
        ELSE Ok([coin       |-> spec.ticker,
                 fam        |-> spec.params.fam,
                 address    |-> The(addresses),
                 privkey    |-> k,
                 secret_hex |-> Hex(Canon(spec.params, k)),
                 secret_std |-> SecretStd(spec.params, k)])

-----------------------------------------------------------------------------
(* resolve_spec, on a word already folded to lower case *)

\* parse_token of each custom token.
CustomSpecs == [text \in {tok.text : tok \in Token} |->
    LET parsed == ParseToken(The({tok \in Token : tok.text = text}))
    IN  IF parsed = {} THEN Err("BadCoinToken") ELSE Ok(The(parsed))]
TableSpecs  == [ticker \in Tickers |-> Ok(The(Lookup(ticker)))]

ResolveSpec(word) ==
    IF word \in Tickers THEN TableSpecs[word]
    ELSE IF word \in DOMAIN CustomSpecs THEN CustomSpecs[word]
    ELSE Err("UnknownCoin")

-----------------------------------------------------------------------------
(* address_from_secret_kind *)

WalletFromSecret(word, text, net, legacy) ==
    LET spec == ResolveSpec(word)
        noid == IsOk(spec) /\ spec[2].params.fam = "Noid"
        keys == IF noid THEN ParseMasterSecret(text) ELSE ParseSecret(text)
    IN  IF ~IsOk(spec)  THEN spec
        ELSE IF keys = {} THEN Err("BadPrivKeyHex")
        ELSE IF ~noid /\ The(keys) \notin Scalar THEN Err("PrivKeyOutOfRange")
        ELSE BuildWallet(spec[2], The(keys), net, legacy)
=============================================================================
