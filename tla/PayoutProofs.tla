---------------------------- MODULE PayoutProofs ----------------------------
(***************************************************************************)
(* For any 160-bit hash, any key set, any tokens and any number of edits:  *)
(* `validate::check` answers for a pasted text what its family calls for,  *)
(* never for another family, never for a damaged text, never for a secret. *)
(*                                                                         *)
(* The argument: a text mints with the look of its family (LooksLike), the *)
(* detector's arms are told apart by that look, an edit either keeps the   *)
(* look (SameText) or spoils the checksum, and a verdict in the state is   *)
(* the answer to the text now in the field.                                *)
(***************************************************************************)
EXTENDS Payout, KeysProofs, FiniteSetTheorems, SequenceTheorems

\* The letter cases of a text, and a text as the record its constructor makes.
Letters == {"lower", "upper", "mixed"}

IsText(t) ==
    /\ t = Text(t.scheme, t.tag, t.lead, t.len, t.sum, t.letters)
    /\ t.scheme \in Scheme /\ t.sum \in Sum /\ t.letters \in Letters

(***************************************************************************)
(* The look of an address: encoding, checksum and payload length, with the *)
(* few lead bytes that tell base58 families apart.                         *)
(***************************************************************************)
LooksLike(fam, t) ==
    \/ /\ IsBitcoinScript(fam) /\ t.scheme = "base58" /\ t.sum = "sha256d"
       /\ t.len \in {HASH160_LEN + 1, HASH160_LEN + 2}
    \/ /\ IsBitcoinScript(fam) /\ t.scheme = "bech32"
       /\ t.sum = "bech32m" => t.len # NOID_ADDRESS_LEN
    \/ fam = "Xdag" /\ t.scheme = "base58" /\ t.sum = "sha256d" /\ t.len = HASH160_LEN
    \/ fam = "Ergo" /\ t.scheme = "base58" /\ t.sum = "blake2b" /\ t.len = 34 /\ t.lead[1] \in {1, 17}
    \/ fam = "Alephium" /\ t.scheme = "base58" /\ t.sum = "none" /\ t.len = ALEPHIUM_LEN /\ t.lead[1] = 0
    \/ fam = "Noid" /\ t.scheme = "bech32" /\ t.tag = "o" /\ t.sum = "bech32m" /\ t.len = NOID_ADDRESS_LEN
    \/ fam = "Warthog" /\ t.scheme = "hex"
    \/ fam = "KaspaAddr" /\ t.scheme = "cash"
    \/ fam = "Conflux" /\ t.scheme = "cip37"
    \/ fam = "CryptoNote" /\ t.scheme = "block58"
    \/ fam = "Ethereum" /\ t.scheme = "0x"

\* The look of a WIF, raw hex, 0x hex or 25-word phrase.
LooksSecret(t) ==
    \/ t.scheme = "base58" /\ t.sum = "sha256d" /\ t.len \in {33, 34}
    \/ t.scheme = "hex" /\ t.sum = "none"
    \/ t.scheme = "0x" /\ t.len = 64
    \/ t.scheme = "words"

\* The testnet addresses MintedIsRecognised leaves out.
ScriptTestnet(fam, net, t) == net = "Testnet" /\ fam # "Noid" /\ t.scheme \in {"bech32", "cash"}

\* What was pasted looks its part, and where the detector should know it, it does.
SourceOk(s) ==
    /\ s.kind \in {"address", "secret"} /\ s.fam \in Family /\ s.net \in Network
    /\ IsText(s.text)
    /\ s.kind = "address" => LooksLike(s.fam, s.text)
    /\ s.kind = "address" => (s.custom \/ ScriptTestnet(s.fam, s.net, s.text) \/ DetectFamily(s.text) # {})
    /\ s.kind = "secret" => LooksSecret(s.text)

(***************************************************************************)
(* What an edit that changes no character's value leaves of a text: all    *)
(* but its letter cases, and with them EIP-55's checksum.                  *)
(***************************************************************************)
SameText(t, u) ==
    /\ t.scheme = u.scheme /\ t.tag = u.tag /\ t.lead = u.lead /\ t.len = u.len
    /\ t.scheme # "0x" => t.sum = u.sum
    /\ IsBase58(t) => t = u

\* A variable that holds one value or none.
Lone(S) == \A x, y \in S : x = y

(***************************************************************************)
(* The inductive invariant.  The properties relate a verdict to the source *)
(* although the edits between them are many: so it remembers that the text *)
(* in the field is the source's while intact, spoiled once it is not, and  *)
(* that a verdict never outlives the text it is about.                     *)
(***************************************************************************)
IInv ==
    /\ Lone(source) /\ Lone(field) /\ Lone(verdict)
    /\ intact \in BOOLEAN /\ edits \in 0..MaxEdits
    /\ field = {} => source = {} /\ intact /\ verdict = {}
    /\ \A s \in source : SourceOk(s)
    /\ \A t \in field : IsText(t)
    /\ intact => \A s \in source, t \in field : SameText(t, s.text)
    /\ ~intact => \A t \in field : t.sum \in {"none", "broken"}
    /\ \A v \in verdict : v.expected \in Family
    /\ \A v \in verdict : \E t \in field : v.answer = CheckAddress(t, v.expected)

-----------------------------------------------------------------------------

(* The arms of detect_family, in order: which one answered, and which were passed over. *)
LEMMA Arms ==
  ASSUME NEW t
  PROVE
  \/ /\ DetectFamily(t) = {}
     /\ ~IsEthereum(t) /\ ~IsWarthog(t) /\ ~IsKaspa(t) /\ ~IsConflux(t) /\ ~IsNoid(t) /\ ~IsSegwit(t)
     /\ ~IsTaproot(t) /\ ~IsP2pkh(t) /\ ~IsXdag(t) /\ ~IsErgo(t) /\ ~IsAlephium(t) /\ ~IsCryptonote(t)
  \/ DetectFamily(t) = {"Ethereum"} /\ IsEthereum(t)
  \/ DetectFamily(t) = {"Warthog"} /\ IsWarthog(t)
  \/ DetectFamily(t) = {"KaspaAddr"} /\ IsKaspa(t)
  \/ DetectFamily(t) = {"Conflux"} /\ IsConflux(t)
  \/ DetectFamily(t) = {"Noid"} /\ IsNoid(t)
  \/ DetectFamily(t) = {"SegwitV0"} /\ IsSegwit(t) /\ ~IsNoid(t)
  \/ DetectFamily(t) = {"Taproot"} /\ IsTaproot(t) /\ ~IsNoid(t)
  \/ DetectFamily(t) = {"P2pkh"} /\ IsP2pkh(t)
  \/ DetectFamily(t) = {"Xdag"} /\ IsXdag(t) /\ ~IsP2pkh(t)
  \/ DetectFamily(t) = {"Ergo"} /\ IsErgo(t) /\ ~IsP2pkh(t) /\ ~IsXdag(t)
  \/ DetectFamily(t) = {"Alephium"} /\ IsAlephium(t) /\ ~IsP2pkh(t) /\ ~IsXdag(t) /\ ~IsErgo(t)
  \/ DetectFamily(t) = {"CryptoNote"} /\ IsCryptonote(t)
  BY DEF DetectFamily

(* The P2PKH prefixes the detector knows are bytes, one or two. *)
LEMMA ModelledVersionsShort ==
  ASSUME NEW v \in ModelledVersions
  PROVE  v \in Seq(0..255) /\ Len(v) \in {1, 2}
  BY RowsSpelled DEF ModelledVersions, Spelled, Version, Short

(* A P2PKH payload is a hash behind one or two bytes. *)
LEMMA P2pkhLengths ==
  ASSUME NEW t, IsP2pkh(t)
  PROVE  t.len \in {HASH160_LEN + 1, HASH160_LEN + 2}
<1>1. PICK v \in ModelledVersions : t.len = Len(v) + HASH160_LEN
  BY DEF IsP2pkh, VersionIsModelled
<1>2. Len(v) = 1 \/ Len(v) = 2
  BY ModelledVersionsShort
<1>3. t.len = 21 \/ t.len = 22
  <2>1. CASE Len(v) = 1
    BY <1>1, <2>1 DEF HASH160_LEN
  <2>2. CASE Len(v) = 2
    BY <1>1, <2>2 DEF HASH160_LEN
  <2>3. QED
    BY <1>2, <2>1, <2>2
<1>4. QED
  BY <1>3 DEF HASH160_LEN

(* Which arms a base58 text can reach. *)
LEMMA Base58Arms ==
  ASSUME NEW t, t.scheme = "base58"
  PROVE  \/ DetectFamily(t) = {} /\ ~IsP2pkh(t) /\ ~IsXdag(t)
         \/ DetectFamily(t) = {"P2pkh"} /\ IsP2pkh(t)
         \/ DetectFamily(t) = {"Xdag"} /\ IsXdag(t) /\ ~IsP2pkh(t)
         \/ DetectFamily(t) = {"Ergo"} /\ IsErgo(t)
         \/ DetectFamily(t) = {"Alephium"} /\ IsAlephium(t)
  BY Arms, ZenonT(40) DEF IsEthereum, IsWarthog, IsKaspa, IsConflux, IsNoid, IsSegwit, IsTaproot,
     Bech32Verifies, IsCryptonote

(* A text with the look of a family is detected as that family, or as a Bitcoin-like one
   where it is one itself, or not at all. *)
LEMMA DetectedAsMinted ==
  ASSUME NEW fam, NEW t, LooksLike(fam, t)
  PROVE  \/ DetectFamily(t) = {}
         \/ DetectFamily(t) = {fam}
         \/ \E f : DetectFamily(t) = {f} /\ IsBitcoinScript(f) /\ IsBitcoinScript(fam)
<1> USE DEF HASH160_LEN, NOID_ADDRESS_LEN, ALEPHIUM_LEN, ERGO_LEN
<1>1. CASE /\ IsBitcoinScript(fam) /\ t.scheme = "base58" /\ t.sum = "sha256d"
           /\ t.len \in {HASH160_LEN + 1, HASH160_LEN + 2}
  <2>1. ~IsXdag(t) /\ ~IsErgo(t) /\ ~IsAlephium(t)
    BY <1>1 DEF IsXdag, IsErgo, IsAlephium, RawLen
  <2>2. QED
    BY <1>1, <2>1, Base58Arms DEF IsBitcoinScript
<1>2. CASE /\ IsBitcoinScript(fam) /\ t.scheme = "bech32"
           /\ t.sum = "bech32m" => t.len # NOID_ADDRESS_LEN
  BY <1>2, Arms, ZenonT(40) DEF IsBitcoinScript, IsEthereum, IsWarthog, IsKaspa, IsConflux, IsNoid, 
     IsP2pkh, IsXdag, IsErgo, IsAlephium, IsCryptonote
<1>3. CASE fam = "Xdag" /\ t.scheme = "base58" /\ t.sum = "sha256d" /\ t.len = HASH160_LEN
  <2>1. ~IsP2pkh(t) /\ ~IsErgo(t) /\ ~IsAlephium(t)
    BY <1>3, P2pkhLengths DEF IsErgo, IsAlephium, RawLen
  <2>2. QED
    BY <1>3, <2>1, Base58Arms
<1>4. CASE fam = "Ergo" /\ t.scheme = "base58" /\ t.sum = "blake2b" /\ t.len = 34 /\ t.lead[1] \in {1, 17}
  <2>1. ~IsP2pkh(t) /\ ~IsXdag(t) /\ ~IsAlephium(t)
    BY <1>4 DEF IsP2pkh, IsXdag, IsAlephium, RawLen
  <2>2. QED
    BY <1>4, <2>1, Base58Arms
<1>5. CASE fam = "Alephium" /\ t.scheme = "base58" /\ t.sum = "none" /\ t.len = ALEPHIUM_LEN /\ t.lead[1] = 0
  BY <1>5, Base58Arms DEF IsP2pkh, IsXdag, IsErgo
<1>6. CASE fam = "Noid" /\ t.scheme = "bech32" /\ t.tag = "o" /\ t.sum = "bech32m" /\ t.len = NOID_ADDRESS_LEN
  BY <1>6, Arms, ZenonT(40) DEF IsEthereum, IsWarthog, IsKaspa, IsConflux, IsNoid, IsSegwit, IsTaproot,
     IsP2pkh, IsXdag, IsErgo, IsAlephium, IsCryptonote
<1>7. CASE \/ fam = "Warthog" /\ t.scheme = "hex"
           \/ fam = "KaspaAddr" /\ t.scheme = "cash"
           \/ fam = "Conflux" /\ t.scheme = "cip37"
           \/ fam = "CryptoNote" /\ t.scheme = "block58"
           \/ fam = "Ethereum" /\ t.scheme = "0x"
  BY <1>7, Arms, ZenonT(40) DEF IsEthereum, IsWarthog, IsKaspa, IsConflux, IsNoid, IsSegwit, IsTaproot,
     Bech32Verifies, IsP2pkh, IsXdag, IsErgo, IsAlephium, IsCryptonote
<1>8. QED
  BY <1>1, <1>2, <1>3, <1>4, <1>5, <1>6, <1>7 DEF LooksLike

(* No arm takes a text that looks like a secret. *)
LEMMA SecretUndetected ==
  ASSUME NEW t, LooksSecret(t)
  PROVE  DetectFamily(t) = {}
<1> USE DEF HASH160_LEN, NOID_ADDRESS_LEN, ALEPHIUM_LEN, ERGO_LEN, ETH_HEX_LEN
<1>1. CASE t.scheme = "base58" /\ t.sum = "sha256d" /\ t.len \in {33, 34}
  <2>1. ~IsP2pkh(t) /\ ~IsXdag(t) /\ ~IsErgo(t) /\ ~IsAlephium(t)
    BY <1>1, P2pkhLengths DEF IsXdag, IsErgo, IsAlephium, RawLen
  <2>2. QED
    BY <1>1, <2>1, Base58Arms
<1>2. CASE t.scheme \in {"hex", "0x", "words"}
  <2>1. ~IsEthereum(t) /\ ~IsWarthog(t)
    BY <1>2 DEF LooksSecret, IsEthereum, IsWarthog
  <2>2. QED
    BY <1>2, <2>1, Arms, ZenonT(40) DEF IsKaspa, IsConflux, IsNoid, IsSegwit, IsTaproot,
     Bech32Verifies, IsP2pkh, IsXdag, IsErgo, IsAlephium, IsCryptonote
<1>3. QED
  BY <1>1, <1>2 DEF LooksSecret

(* A text whose checksum does not verify is taken only where none is asked for: Alephium,
   and an Ethereum address in one case. *)
LEMMA CorruptUndetected ==
  ASSUME NEW t, t.sum \in {"none", "broken"}
  PROVE  \/ DetectFamily(t) = {}
         \/ DetectFamily(t) = {"Alephium"}
         \/ DetectFamily(t) = {"Ethereum"} /\ t.letters # "mixed"
  BY Arms, ZenonT(40) DEF IsEthereum, IsWarthog, IsKaspa, IsConflux, IsNoid, IsSegwit, IsTaproot,
     Bech32Verifies, IsP2pkh, IsXdag, IsErgo, IsAlephium, IsCryptonote

(* check: unrecognised without a family, otherwise accepted exactly when compatible. *)
LEMMA AnswerTo ==
  ASSUME NEW t, NEW expected
  PROVE  \/ DetectFamily(t) = {} /\ CheckAddress(t, expected) = Unrecognized
         \/ \E f \in Family : 
               /\ DetectFamily(t) = {f} 
               /\ CheckAddress(t, expected) = IF FamiliesCompatible(f, expected) THEN Accepted
                                              ELSE <<"Mismatch", f, expected>>
               /\ CheckAddress(t, expected) # Unrecognized
               /\ CheckAddress(t, expected) = Accepted <=> FamiliesCompatible(f, expected)
<1>1. CASE DetectFamily(t) = {}
  BY <1>1 DEF CheckAddress
<1>2. CASE DetectFamily(t) # {}
  <2>1. PICK f \in Family : DetectFamily(t) = {f}
    BY <1>2, Arms DEF Family
  <2>2. The(DetectFamily(t)) = f
    BY <2>1, TheOfSingleton
  <2>3. CheckAddress(t, expected) = IF FamiliesCompatible(f, expected) THEN Accepted
                                    ELSE <<"Mismatch", f, expected>>
    BY <2>1, <2>2 DEF CheckAddress
  <2>4. Unrecognized # Accepted /\ <<"Mismatch", f, expected>> \notin {Accepted, Unrecognized}
    BY DEF Unrecognized, Accepted
  <2>5. QED
    BY <2>1, <2>3, <2>4
<1>3. QED
  BY <1>1, <1>2

-----------------------------------------------------------------------------
(* A text reads back the fields it was made of. *)
LEMMA TextFields ==
  ASSUME NEW scheme \in Scheme, NEW tag, NEW lead, NEW len, NEW sum \in Sum, NEW letters \in Letters,
         NEW t, t = Text(scheme, tag, lead, len, sum, letters)
  PROVE  /\ IsText(t) /\ t.scheme = scheme /\ t.tag = tag /\ t.lead = lead /\ t.len = len
         /\ t.sum = sum /\ t.letters = letters
  BY DEF Text, IsText

(* The texts without a prefix. *)
LEMMA Untagged ==
  ASSUME NEW lead, NEW len, NEW sum
  PROVE  /\ \E tag : Base58(lead, len, sum) = Text("base58", tag, lead, len, sum, "mixed")
         /\ \E tag : HexText(len, sum) = Text("hex", tag, << >>, len, sum, "lower")
  BY Zenon DEF Base58, HexText

(* The texts of each address, as AddressTexts spells them: P2PKH. *)
LEMMA P2pkhText ==
  ASSUME NEW ver, NEW k, NEW c, NEW t \in AddressTexts(P2pkhAddress(ver, k, c)), Short(ver)
  PROVE  /\ IsText(t) /\ t.scheme = "base58" /\ t.sum = "sha256d" /\ t.lead = ver \o Hash160[k]
         /\ t.len = Len(ver) + HASH160_LEN
         /\ t.len \in {HASH160_LEN + 1, HASH160_LEN + 2}
<1>1. t = Base58(ver \o Hash160[k], Len(ver) + HASH160_LEN, "sha256d")
  BY DEF AddressTexts, P2pkhAddress
<1>2. Len(ver) + HASH160_LEN = HASH160_LEN + 1 \/ Len(ver) + HASH160_LEN = HASH160_LEN + 2
  <2>1. CASE Len(ver) = 1
    BY <2>1 DEF HASH160_LEN
  <2>2. CASE Len(ver) = 2
    BY <2>2 DEF HASH160_LEN
  <2>3. QED
    BY <2>1, <2>2 DEF Short
<1>3. /\ IsText(t) /\ t.scheme = "base58" /\ t.sum = "sha256d" /\ t.lead = ver \o Hash160[k]
      /\ t.len = Len(ver) + HASH160_LEN
  <2>1. ASSUME NEW lead, NEW len, t = Base58(lead, len, "sha256d")
        PROVE  IsText(t) /\ t.scheme = "base58" /\ t.sum = "sha256d" /\ t.lead = lead /\ t.len = len
    BY <2>1, Untagged, TextFields DEF Scheme, Sum, Letters
  <2>2. QED
    BY <1>1, <2>1
<1>4. QED
  BY <1>2, <1>3

(* XDAG. *)
LEMMA XdagText ==
  ASSUME NEW k, NEW t \in AddressTexts(XdagAddress(k))
  PROVE  /\ IsText(t) /\ t.scheme = "base58" /\ t.sum = "sha256d" /\ t.len = HASH160_LEN
<1>1. t = Base58(Hash160[k], HASH160_LEN, "sha256d")
  BY DEF AddressTexts, XdagAddress
<1>2. QED
  BY <1>1, Untagged, TextFields DEF Scheme, Sum, Letters

(* Ergo: its lead byte is 1 or 17. *)
LEMMA ErgoText ==
  ASSUME NEW net, NEW k, NEW t \in AddressTexts(ErgoAddress(net, k))
  PROVE  /\ IsText(t) /\ t.scheme = "base58" /\ t.sum = "blake2b" /\ t.len = 34 /\ t.lead[1] \in {1, 17}
<1>1. t = Base58(<<IF net = "Mainnet" THEN 1 ELSE 17>>, 34, "blake2b")
  BY DEF AddressTexts, ErgoAddress
<1>2. QED
  BY <1>1, Untagged, TextFields DEF Scheme, Sum, Letters

(* Alephium: no checksum. *)
LEMMA AlephiumText ==
  ASSUME NEW k, NEW t \in AddressTexts(AlephiumAddress(k))
  PROVE  /\ IsText(t) /\ t.scheme = "base58" /\ t.sum = "none" /\ t.len = ALEPHIUM_LEN /\ t.lead[1] = 0
<1>1. t = Base58(<<0>>, ALEPHIUM_LEN, "none")
  BY DEF AddressTexts, AlephiumAddress
<1>2. QED
  BY <1>1, Untagged, TextFields DEF Scheme, Sum, Letters

(* Warthog: hex. *)
LEMMA WarthogText ==
  ASSUME NEW k, NEW t \in AddressTexts(WarthogAddress(k))
  PROVE  /\ IsText(t) /\ t.scheme = "hex" /\ t.sum = "sha256" /\ t.len = HASH160_LEN
<1>1. t = HexText(HASH160_LEN, "sha256")
  BY DEF AddressTexts, WarthogAddress
<1>2. QED
  BY <1>1, Untagged, TextFields, SMTT(30) DEF Scheme, Sum, Letters

(* SegWit v0. *)
LEMMA SegwitText ==
  ASSUME NEW hrp, NEW k, NEW t \in AddressTexts(SegwitAddress(hrp, k))
  PROVE  /\ IsText(t) /\ t.scheme = "bech32" /\ t.tag = hrp /\ t.sum = "bech32" /\ t.letters = "lower"
<1>1. t = Bech32(hrp, 0, "bech32")
  BY DEF AddressTexts, SegwitAddress
<1>2. QED
  BY <1>1, TextFields DEF Bech32, Scheme, Sum, Letters

(* Taproot: a witness version and 32 bytes, never noid's length. *)
LEMMA TaprootText ==
  ASSUME NEW hrp, NEW k, NEW t \in AddressTexts(TaprootAddress(hrp, k))
  PROVE  /\ IsText(t) /\ t.scheme = "bech32" /\ t.tag = hrp /\ t.sum = "bech32m" /\ t.len = 33 /\ t.letters = "lower"
<1>1. t = Bech32(hrp, 33, "bech32m")
  BY DEF AddressTexts, TaprootAddress
<1>2. QED
  BY <1>1, TextFields DEF Bech32, Scheme, Sum, Letters

(* noid. *)
LEMMA NoidText ==
  ASSUME NEW k, NEW t \in AddressTexts(NoidAddress(k))
  PROVE  /\ IsText(t) /\ t.scheme = "bech32" /\ t.tag = "o" /\ t.sum = "bech32m" /\ t.len = NOID_ADDRESS_LEN
         /\ t.letters = "lower"
<1>1. t = Bech32("o", NOID_ADDRESS_LEN, "bech32m")
  BY DEF AddressTexts, NoidAddress
<1>2. QED
  BY <1>1, TextFields DEF Bech32, Scheme, Sum, Letters

(* Kaspa. *)
LEMMA KaspaText ==
  ASSUME NEW hrp, NEW k, NEW t \in AddressTexts(KaspaAddress(hrp, k))
  PROVE  /\ IsText(t) /\ t.scheme = "cash" /\ t.tag = hrp /\ t.sum = "cash" /\ t.letters = "lower"
<1>1. t = Text("cash", hrp, << >>, 33, "cash", "lower")
  BY DEF AddressTexts, KaspaAddress
<1>2. QED
  BY <1>1, TextFields DEF Scheme, Sum, Letters

(* Conflux. *)
LEMMA ConfluxText ==
  ASSUME NEW hrp, NEW k, NEW t \in AddressTexts(ConfluxAddress(hrp, k))
  PROVE  /\ IsText(t) /\ t.scheme = "cip37" /\ t.tag = hrp /\ t.sum = "cip37" /\ t.len = 1 + HASH160_LEN /\ t.letters = "lower"
<1>1. t = Text("cip37", hrp, << >>, 1 + HASH160_LEN, "cip37", "lower")
  BY DEF AddressTexts, ConfluxAddress
<1>2. QED
  BY <1>1, TextFields DEF Scheme, Sum, Letters

(* CryptoNote: opened by what its network byte allows. *)
LEMMA CryptoNoteText ==
  ASSUME NEW nb, NEW k, NEW t \in AddressTexts(CryptoNoteAddress(nb, k))
  PROVE  /\ IsText(t) /\ t.scheme = "block58" /\ t.tag = nb /\ t.lead \in Openings(nb)
         /\ t.sum = "keccak" /\ t.len = 64
<1>1. PICK open \in Openings(nb) : t = Text("block58", nb, open, 64, "keccak", "mixed")
  BY DEF AddressTexts, CryptoNoteAddress
<1>2. QED
  BY <1>1, TextFields DEF Scheme, Sum, Letters

(* Ethereum. *)
LEMMA EthText ==
  ASSUME NEW k, NEW t \in AddressTexts(EthAddress(k))
  PROVE  /\ IsText(t) /\ t.scheme = "0x" /\ t.sum = "eip55" /\ t.len = ETH_HEX_LEN
<1>1. \E c \in Letters : t = Text("0x", "", << >>, ETH_HEX_LEN, "eip55", c)
  BY ZenonT(40) DEF AddressTexts, EthAddress, Letters
<1>2. \E tag : \E c \in Letters : t = Text("0x", tag, << >>, ETH_HEX_LEN, "eip55", c)
  BY <1>1, Zenon
<1>3. QED
  BY <1>2, TextFields DEF Scheme, Sum

(* A single-key address has the look of its row's family. *)
LEMMA MintedAddress ==
  ASSUME NEW p, Shaped(p), NEW k, NEW net \in Network, NEW legacy \in BOOLEAN,
         NEW a \in Addresses(p, k, net, legacy), NEW t \in AddressTexts(a)
  PROVE  IsText(t) /\ LooksLike(p.fam, t)
<1>1. ASSUME NEW ver, NEW c, HasP2pkhParts(p), a = P2pkhAddress(ver, k, c), ver \in P2pkhVersionPrefixes(p)
      PROVE  IsText(t) /\ LooksLike(p.fam, t)
  BY <1>1, P2pkhText DEF Shaped, HasP2pkhParts, LooksLike, IsBitcoinScript
<1>2. ASSUME NEW hrp, p.fam \in {"SegwitV0", "Taproot"}, a \in {SegwitAddress(hrp, k), TaprootAddress(hrp, k)}
      PROVE  IsText(t) /\ LooksLike(p.fam, t)
  <2>1. IsText(t) /\ t.scheme = "bech32" /\ (t.sum = "bech32m" => t.len = 33)
    BY <1>2, SegwitText, TaprootText
  <2>2. QED
    BY <1>2, <2>1 DEF LooksLike, IsBitcoinScript, NOID_ADDRESS_LEN
<1>3. CASE p.fam = "Taproot"
  BY <1>2, <1>3 DEF Addresses
<1>4. CASE p.fam = "SegwitV0"
  <2>1. CASE legacy
    <3>1. PICK ver \in Pick(net, p.ver, p.verT) : a = P2pkhAddress(ver, k, TRUE)
      BY <1>4, <2>1 DEF Addresses
    <3>2. HasP2pkhParts(p) /\ ver \in P2pkhVersionPrefixes(p)
      BY <1>4 DEF Pick, P2pkhVersionPrefixes, HasP2pkhParts
    <3>3. \E c : a = P2pkhAddress(ver, k, c)
      BY <3>1, Zenon
    <3>4. QED
      BY <1>1, <3>2, <3>3
  <2>2. CASE ~legacy
    BY <1>2, <1>4, <2>2 DEF Addresses
  <2>3. QED
    BY <2>1, <2>2
<1>5. CASE p.fam = "P2pkh"
  BY <1>1, <1>5 DEF Addresses, Pick, P2pkhVersionPrefixes, HasP2pkhParts
<1>6. CASE p.fam = "KaspaAddr"
  <2>1. PICK hrp : a = KaspaAddress(hrp, k)
    BY <1>6 DEF Addresses
  <2>2. QED
    BY <1>6, <2>1, KaspaText DEF LooksLike
<1>7. CASE p.fam = "Conflux"
  <2>1. PICK hrp : a = ConfluxAddress(hrp, k)
    BY <1>7 DEF Addresses
  <2>2. QED
    BY <1>7, <2>1, ConfluxText DEF LooksLike
<1>8. CASE p.fam = "CryptoNote"
  <2>1. PICK nb : a = CryptoNoteAddress(nb, k)
    BY <1>8 DEF Addresses
  <2>2. QED
    BY <1>8, <2>1, CryptoNoteText DEF LooksLike
<1>9. CASE p.fam = "Ethereum"
  <2>1. a = EthAddress(k)
    BY <1>9 DEF Addresses
  <2>2. QED
    BY <1>9, <2>1, EthText DEF LooksLike
<1>10. CASE p.fam = "Ergo"
  <2>1. a = ErgoAddress(net, k)
    BY <1>10 DEF Addresses
  <2>2. QED
    BY <1>10, <2>1, ErgoText DEF LooksLike
<1>11. CASE p.fam = "Alephium"
  <2>1. a = AlephiumAddress(k)
    BY <1>11 DEF Addresses
  <2>2. QED
    BY <1>11, <2>1, AlephiumText DEF LooksLike
<1>12. CASE p.fam = "Xdag"
  <2>1. a = XdagAddress(k)
    BY <1>12 DEF Addresses
  <2>2. QED
    BY <1>12, <2>1, XdagText DEF LooksLike
<1>13. CASE p.fam = "Warthog"
  <2>1. a = WarthogAddress(k)
    BY <1>13 DEF Addresses
  <2>2. QED
    BY <1>13, <2>1, WarthogText DEF LooksLike
<1>14. CASE p.fam = "Noid"
  <2>1. a = NoidAddress(k)
    BY <1>14 DEF Addresses
  <2>2. QED
    BY <1>14, <2>1, NoidText DEF LooksLike
<1>15. QED
  BY <1>3, <1>4, <1>5, <1>6, <1>7, <1>8, <1>9, <1>10, <1>11, <1>12, <1>13, <1>14 DEF Shaped, Family

(* So has an HD address, whatever the purpose. *)
LEMMA HdMintedAddress ==
  ASSUME NEW row, Shaped(row.params), NEW purpose \in Purpose, Supports(row, purpose), NEW k,
         NEW t \in AddressTexts(HdAddress(row.params, purpose, k))
  PROVE  IsText(t) /\ LooksLike(row.params.fam, t)
<1> DEFINE p == row.params
<1>1. CASE purpose = 44 /\ p.fam = "Ethereum"
  BY <1>1, EthText DEF HdAddress, LooksLike
<1>2. CASE purpose = 44 /\ p.fam # "Ethereum"
  <2>1. HasP2pkhParts(p) /\ \E c : HdAddress(p, purpose, k) = P2pkhAddress(p.ver, k, c)
    <3>1. HasP2pkhParts(p) /\ HdAddress(p, purpose, k) = P2pkhAddress(p.ver, k, TRUE)
      BY <1>2 DEF HdAddress, Supports
    <3>2. QED
      BY <3>1, Zenon
  <2>2. Short(p.ver)
    BY <2>1 DEF Shaped, P2pkhVersionPrefixes
  <2>3. QED
    BY <2>1, <2>2, P2pkhText DEF HasP2pkhParts, LooksLike, IsBitcoinScript
<1>3. CASE purpose # 44
  <2>1. p.fam \in {"SegwitV0", "Taproot"}
    BY <1>3 DEF Supports, Purpose
  <2>2. HdAddress(p, purpose, k) \in {SegwitAddress(p.hrp, k), TaprootAddress(p.hrp, k)}
    BY <1>3 DEF HdAddress, Purpose
  <2>3. IsText(t) /\ t.scheme = "bech32" /\ (t.sum = "bech32m" => t.len = 33)
    BY <2>2, SegwitText, TaprootText
  <2>4. QED
    BY <2>1, <2>3 DEF LooksLike, IsBitcoinScript, NOID_ADDRESS_LEN
<1>4. QED
  BY <1>1, <1>2, <1>3

(* Every secret printed looks like one. *)
LEMMA MintedSecret ==
  ASSUME NEW p, NEW k
  PROVE  \A u \in {SecretStd(p, k), Hex(Canon(p, k)), HdSecret(p, k)} :
            IsText(SecretText(u)) /\ LooksSecret(SecretText(u))
<1>1. ASSUME NEW j PROVE IsText(SecretText(Hex(j))) /\ LooksSecret(SecretText(Hex(j)))
  <2>1. SecretText(Hex(j)) = HexText(32, "none")
    BY DEF SecretText, Hex
  <2>2. QED
    BY <2>1, Untagged, TextFields, SMTT(30) DEF Scheme, Sum, Letters, LooksSecret
<1>2. ASSUME NEW j PROVE IsText(SecretText(EthHex(j))) /\ LooksSecret(SecretText(EthHex(j)))
  <2>1. \E tag : SecretText(EthHex(j)) = Text("0x", tag, << >>, 64, "none", "lower")
    BY ZenonT(40) DEF SecretText, EthHex
  <2>2. QED
    BY <2>1, TextFields DEF Scheme, Sum, Letters, LooksSecret
<1>3. ASSUME NEW j PROVE IsText(SecretText(Words(j))) /\ LooksSecret(SecretText(Words(j)))
  <2>1. \E tag : SecretText(Words(j)) = Text("words", tag, << >>, 0, "none", "lower")
    BY ZenonT(40) DEF SecretText, Words
  <2>2. QED
    BY <2>1, TextFields DEF Scheme, Sum, Letters, LooksSecret
<1>4. ASSUME NEW wif, NEW c
      PROVE  IsText(SecretText(Wif(wif, k, c))) /\ LooksSecret(SecretText(Wif(wif, k, c)))
  <2>1. \E len \in {33, 34} : SecretText(Wif(wif, k, c)) = Base58(<<wif>>, len, "sha256d")
    BY DEF SecretText, Wif
  <2>2. QED
    BY <2>1, Untagged, TextFields DEF Scheme, Sum, Letters, LooksSecret
<1>5. \E wif, c, j : SecretStd(p, k) \in {Wif(wif, k, c), EthHex(j), Words(j), Hex(j)}
  BY DEF SecretStd
<1>6. \E wif, c, j : HdSecret(p, k) \in {Wif(wif, k, c), EthHex(j), Hex(j)}
  BY DEF HdSecret
<1>7. QED
  BY <1>1, <1>2, <1>3, <1>4, <1>5, <1>6

-----------------------------------------------------------------------------
(* A version prefix leads the payload it is put before. *)
LEMMA LeadsWithVersion ==
  ASSUME NEW ver \in Seq(0..255), ver # << >>, NEW k \in Key
  PROVE  StartsWith(ver \o Hash160[k], ver)
<1>1. Hash160[k] \in Seq(0..255) /\ Len(Hash160[k]) = 2
  <2>1. Hash160[k] \in (0..255) \X (0..255)
    BY Hash160Assumption
  <2>2. QED
    BY <2>1, PairIsSeq
<1>2. Len(ver) \in Nat /\ Len(ver) >= 1
  BY EmptySeq
<1>3. SubSeq(ver \o Hash160[k], 1, Len(ver)) = SubSeq(ver, 1, Len(ver))
  BY <1>1, <1>2, SubSeqOfConcat1
<1>4. SubSeq(ver, 1, Len(ver)) = ver
  BY SubSeqFull
<1>5. Len(ver \o Hash160[k]) = Len(ver) + 2
  <2>1. Len(ver \o Hash160[k]) = Len(ver) + Len(Hash160[k])
    BY <1>1, ConcatProperties, ZenonT(40)
  <2>2. QED
    BY <1>1, <2>1
<1>6. QED
  BY <1>2, <1>3, <1>4, <1>5 DEF StartsWith

(* A P2PKH address of a table row is recognised. *)
LEMMA P2pkhRecognised ==
  ASSUME NEW row \in Rows, NEW ver \in P2pkhVersionPrefixes(row.params), NEW k \in Key, NEW c,
         NEW t \in AddressTexts(P2pkhAddress(ver, k, c))
  PROVE  DetectFamily(t) # {}
<1>1. ver \in Seq(0..255) /\ Short(ver) /\ ver \in ModelledVersions
  BY RowsSpelled DEF Spelled, Version, ModelledVersions
<1>2. ver # << >>
  BY <1>1 DEF Short
<1>3. IsP2pkh(t)
  <2>1. t.scheme = "base58" /\ t.sum = "sha256d" /\ t.lead = ver \o Hash160[k] /\ t.len = Len(ver) + HASH160_LEN
    BY <1>1, P2pkhText
  <2>2. StartsWith(ver \o Hash160[k], ver)
    BY <1>1, <1>2, LeadsWithVersion
  <2>3. QED
    BY <1>1, <2>1, <2>2, Zenon DEF IsP2pkh, VersionIsModelled
<1>4. QED
  BY <1>3, Arms

(* The characters a CryptoNote network byte opens with pass the prescreen. *)
LEMMA OpeningsPrescreened ==
  ASSUME NEW net, NEW open \in Openings(net)
  PROVE  CryptonoteTag(net) \in {open, ""}
<1>1. CASE net = "53"
  <2>1. Openings(net) = {"9", "A"}
    BY <1>1 DEF Openings, MONERO_SUBADDRESS_PREFIX
  <2>2. Cardinality(Openings(net)) # 1
    <3>1. "A" \notin {"9"} /\ {"9", "A"} = {"9"} \cup {"A"}
      OBVIOUS
    <3>2. Cardinality({"9"}) = 1 /\ IsFiniteSet({"9"})
      BY FS_Singleton
    <3>3. Cardinality({"9"} \cup {"A"}) = 2
      BY <3>1, <3>2, FS_AddElement
    <3>4. QED
      BY <2>1, <3>1, <3>3
  <2>3. QED
    BY <2>2, Zenon DEF CryptonoteTag
<1>2. CASE net # "53"
  <2>1. Openings(net) = {open}
    BY <1>2 DEF Openings, MONERO_SUBADDRESS_PREFIX
  <2>2. The(Openings(net)) = open
    BY <2>1, TheOfSingleton
  <2>3. QED
    BY <2>2, Zenon DEF CryptonoteTag
<1>3. QED
  BY <1>1, <1>2, ZenonT(40)

(* A CryptoNote address of a table row is recognised. *)
LEMMA CryptoNoteRecognised ==
  ASSUME NEW nb \in CryptonotePrefixes, NEW k, NEW t \in AddressTexts(CryptoNoteAddress(nb, k))
  PROVE  DetectFamily(t) # {}
<1>1. CryptonoteTag(nb) \in {t.lead, ""}
  BY CryptoNoteText, OpeningsPrescreened, ZenonT(40)
<1>2. {t.lead, ""} \cap CryptonoteTags # {}
  BY <1>1, Zenon DEF CryptonoteTags
<1>3. IsCryptonote(t)
  <2>1. t.scheme = "block58" /\ t.tag \in CryptonotePrefixes /\ t.sum = "keccak" /\ t.len = 64
    BY CryptoNoteText
  <2>2. QED
    BY <1>2, <2>1, Zenon DEF IsCryptonote
<1>4. QED
  BY <1>3, Arms

(* A bech32 address under a table row's prefix is recognised. *)
LEMMA ScriptRecognised ==
  ASSUME NEW hrp \in ModelledHrps, NEW k,
         NEW t \in AddressTexts(SegwitAddress(hrp, k)) \cup AddressTexts(TaprootAddress(hrp, k))
  PROVE  DetectFamily(t) # {}
<1>1. IsSegwit(t) \/ IsTaproot(t)
  BY SegwitText, TaprootText DEF IsSegwit, IsTaproot, Bech32Verifies
<1>2. QED
  BY <1>1, Arms

(* Every single-key address of a table row is recognised, but for the script testnets. *)
LEMMA MintedRecognised ==
  ASSUME NEW row \in Rows, NEW k \in Key, NEW net \in Network, NEW legacy \in BOOLEAN,
         NEW a \in Addresses(row.params, k, net, legacy), NEW t \in AddressTexts(a)
  PROVE  ScriptTestnet(row.params.fam, net, t) \/ DetectFamily(t) # {}
<1> DEFINE p == row.params
<1>1. ASSUME NEW ver \in Pick(net, p.ver, p.verT), NEW c, HasP2pkhParts(p), a = P2pkhAddress(ver, k, c)
      PROVE  DetectFamily(t) # {}
  <2>1. ver \in P2pkhVersionPrefixes(p)
    BY <1>1 DEF Pick, P2pkhVersionPrefixes
  <2>2. QED
    BY <1>1, <2>1, P2pkhRecognised
<1>2. ASSUME NEW hrp \in Pick(net, p.hrp, p.hrpT), p.fam \in {"SegwitV0", "Taproot"},
             a \in {SegwitAddress(hrp, k), TaprootAddress(hrp, k)}
      PROVE  ScriptTestnet(p.fam, net, t) \/ DetectFamily(t) # {}
  <2>1. CASE net = "Mainnet"
    <3>1. hrp \in ModelledHrps
      BY <1>2, <2>1 DEF Pick, ModelledHrps
    <3>2. QED
      BY <1>2, <3>1, ScriptRecognised
  <2>2. CASE net = "Testnet"
    <3>1. t.scheme = "bech32"
      BY <1>2, SegwitText, TaprootText
    <3>2. QED
      BY <1>2, <2>2, <3>1 DEF ScriptTestnet
  <2>3. QED
    BY <2>1, <2>2 DEF Network
<1>3. CASE p.fam = "Taproot"
  BY <1>2, <1>3 DEF Addresses
<1>4. CASE p.fam = "SegwitV0"
  <2>1. CASE legacy
    <3>1. PICK ver \in Pick(net, p.ver, p.verT) : a = P2pkhAddress(ver, k, TRUE)
      BY <1>4, <2>1 DEF Addresses
    <3>2. \E c : a = P2pkhAddress(ver, k, c)
      BY <3>1, Zenon
    <3>3. QED
      BY <1>1, <1>4, <3>2 DEF HasP2pkhParts
  <2>2. CASE ~legacy
    BY <1>2, <1>4, <2>2 DEF Addresses
  <2>3. QED
    BY <2>1, <2>2
<1>5. CASE p.fam = "P2pkh"
  BY <1>1, <1>5 DEF Addresses, HasP2pkhParts
<1>6. CASE p.fam = "KaspaAddr"
  <2>1. PICK hrp \in Pick(net, p.hrp, p.hrpT) : a = KaspaAddress(hrp, k)
    BY <1>6 DEF Addresses
  <2>2. t.scheme = "cash" /\ t.tag = hrp /\ t.sum = "cash" /\ t.letters = "lower"
    BY <2>1, KaspaText
  <2>3. CASE net = "Mainnet"
    <3>1. hrp \in KaspaPrefixes
      BY <1>6, <2>3 DEF Pick, KaspaPrefixes
    <3>2. QED
      BY <2>2, <3>1, Arms DEF IsKaspa
  <2>4. CASE net = "Testnet"
    BY <1>6, <2>2, <2>4 DEF ScriptTestnet
  <2>5. QED
    BY <2>3, <2>4 DEF Network
<1>7. CASE p.fam = "Conflux"
  <2>1. PICK hrp \in Pick(net, p.hrp, p.hrpT) : a = ConfluxAddress(hrp, k)
    BY <1>7 DEF Addresses
  <2>2. hrp \in ConfluxPrefixes
    BY <1>7 DEF Pick, ConfluxPrefixes
  <2>3. QED
    <3>1. IsConflux(t)
      BY <2>1, <2>2, ConfluxText DEF IsConflux
    <3>2. QED
      BY <3>1, Arms
<1>8. CASE p.fam = "CryptoNote"
  <2>1. PICK nb \in Pick(net, p.net, p.netT) : a = CryptoNoteAddress(nb, k)
    BY <1>8 DEF Addresses
  <2>2. nb \in CryptonotePrefixes
    <3>1. nb \in {p.net} \cup p.netT
      BY DEF Pick
    <3>2. row \in {r \in Rows : r.params.fam = "CryptoNote"}
      BY <1>8
    <3>3. QED
      BY <3>1, <3>2, Zenon DEF CryptonotePrefixes
  <2>3. QED
    BY <2>1, <2>2, CryptoNoteRecognised
<1>9. CASE p.fam = "Ethereum"
  <2>1. a = EthAddress(k)
    BY <1>9 DEF Addresses
  <2>2. QED
    BY <2>1, EthText, Arms DEF IsEthereum
<1>10. CASE p.fam = "Ergo"
  <2>1. a = ErgoAddress(net, k)
    BY <1>10 DEF Addresses
  <2>2. QED
    <3>1. IsErgo(t)
      BY <2>1, ErgoText DEF IsErgo, RawLen, RawFirst, ERGO_LEN
    <3>2. QED
      BY <3>1, Arms
<1>11. CASE p.fam = "Alephium"
  <2>1. a = AlephiumAddress(k)
    BY <1>11 DEF Addresses
  <2>2. QED
    <3>1. IsAlephium(t)
      BY <2>1, AlephiumText DEF IsAlephium, RawLen, RawFirst, ALEPHIUM_LEN
    <3>2. QED
      BY <3>1, Arms
<1>12. CASE p.fam = "Xdag"
  <2>1. a = XdagAddress(k)
    BY <1>12 DEF Addresses
  <2>2. QED
    BY <2>1, XdagText, Arms DEF IsXdag
<1>13. CASE p.fam = "Warthog"
  <2>1. a = WarthogAddress(k)
    BY <1>13 DEF Addresses
  <2>2. QED
    BY <2>1, WarthogText, Arms DEF IsWarthog
<1>14. CASE p.fam = "Noid"
  <2>1. a = NoidAddress(k)
    BY <1>14 DEF Addresses
  <2>2. QED
    BY <2>1, NoidText, Arms DEF IsNoid, Bech32Verifies
<1>15. p.fam \in Family
  BY RowsSpelled DEF Spelled
<1>16. QED
  BY <1>3, <1>4, <1>5, <1>6, <1>7, <1>8, <1>9, <1>10, <1>11, <1>12, <1>13, <1>14, <1>15 DEF Family

(* Every HD address of a table row is recognised. *)
LEMMA HdMintedRecognised ==
  ASSUME NEW row \in Rows, NEW purpose \in Purpose, Supports(row, purpose), NEW k \in Key,
         NEW t \in AddressTexts(HdAddress(row.params, purpose, k))
  PROVE  DetectFamily(t) # {}
<1> DEFINE p == row.params
<1>1. CASE purpose = 44 /\ p.fam = "Ethereum"
  <2>1. IsEthereum(t)
    BY <1>1, EthText DEF HdAddress, IsEthereum
  <2>2. QED
    BY <2>1, Arms
<1>2. CASE purpose = 44 /\ p.fam # "Ethereum"
  <2>1. HasP2pkhParts(p) /\ HdAddress(p, purpose, k) = P2pkhAddress(p.ver, k, TRUE)
    BY <1>2 DEF HdAddress, Supports
  <2>2. p.ver \in P2pkhVersionPrefixes(p)
    BY <2>1 DEF P2pkhVersionPrefixes
  <2>3. \E c : HdAddress(p, purpose, k) = P2pkhAddress(p.ver, k, c)
    BY <2>1, Zenon
  <2>4. QED
    BY <2>2, <2>3, P2pkhRecognised
<1>3. CASE purpose # 44
  <2>1. p.hrp \in ModelledHrps
    <3>1. purpose \in {84, 86}
      BY <1>3 DEF Purpose
    <3>2. p.fam \in {"SegwitV0", "Taproot"}
      <4>1. CASE purpose = 84
        BY <4>1 DEF Supports
      <4>2. CASE purpose = 86
        BY <4>2 DEF Supports
      <4>3. QED
        BY <3>1, <4>1, <4>2
    <3>3. QED
      BY <3>2 DEF ModelledHrps
  <2>2. HdAddress(p, purpose, k) \in {SegwitAddress(p.hrp, k), TaprootAddress(p.hrp, k)}
    BY <1>3 DEF HdAddress, Purpose
  <2>3. QED
    BY <2>1, <2>2, ScriptRecognised
<1>4. QED
  BY <1>1, <1>2, <1>3

-----------------------------------------------------------------------------
(* Spoiling the checksum leaves the rest. *)
LEMMA SumSet ==
  ASSUME NEW t, IsText(t), NEW sum \in Sum, NEW u, u = [t EXCEPT !.sum = sum]
  PROVE  IsText(u) /\ u.scheme = t.scheme /\ u.tag = t.tag /\ u.lead = t.lead /\ u.len = t.len /\ u.sum = sum
<1>1. t.scheme \in Scheme /\ t.sum \in Sum /\ t.letters \in Letters
  BY DEF IsText
<1>2. u = Text(t.scheme, t.tag, t.lead, t.len, sum, t.letters)
  BY DEF IsText, Text
<1>3. QED
  BY <1>1, <1>2, TextFields

(* Changing the case leaves the rest. *)
LEMMA LettersSet ==
  ASSUME NEW t, IsText(t), NEW c \in Letters, NEW u, u = [t EXCEPT !.letters = c]
  PROVE  IsText(u) /\ u.scheme = t.scheme /\ u.tag = t.tag /\ u.lead = t.lead /\ u.len = t.len /\ u.sum = t.sum
<1>1. t.scheme \in Scheme /\ t.sum \in Sum /\ t.letters \in Letters
  BY DEF IsText
<1>2. u = Text(t.scheme, t.tag, t.lead, t.len, t.sum, c)
  BY DEF IsText, Text
<1>3. QED
  BY <1>1, <1>2, TextFields

(* A mistyped character spoils the checksum, where there is one. *)
LEMMA MistypedBroken ==
  ASSUME NEW t, IsText(t), NEW u \in Mistyped(t)
  PROVE  IsText(u) /\ u.sum \in {"none", "broken"}
<1> DEFINE B == {"none", "broken"}
<1>1. t.scheme \in Scheme /\ t.sum \in Sum /\ t.letters \in Letters
  BY DEF IsText
<1>2. B \subseteq Sum /\ Broken(t.sum) \in B
  BY DEF Sum, Broken
<1>3. ASSUME NEW lead, NEW len, NEW sum \in B, u = Base58(lead, len, sum)
      PROVE  IsText(u) /\ u.sum \in B
  BY <1>2, <1>3, Untagged, TextFields DEF Scheme, Letters
<1>4. CASE t.scheme = "base58"
  BY <1>2, <1>3, <1>4 DEF Mistyped, Scrambled
<1>5. CASE t.scheme = "block58"
  <2>1. PICK open : u = [t EXCEPT !.lead = open, !.sum = "broken"]
    BY <1>5, ZenonT(40) DEF Mistyped
  <2>2. u = Text(t.scheme, t.tag, open, t.len, "broken", t.letters)
    BY <2>1 DEF IsText, Text
  <2>3. QED
    BY <1>1, <1>2, <2>2, TextFields
<1>6. CASE t.scheme = "0x"
  <2>1. PICK c \in Letters : u = [t EXCEPT !.letters = c, !.sum = "broken"]
    BY <1>6 DEF Mistyped, Letters
  <2>2. u = Text(t.scheme, t.tag, t.lead, t.len, "broken", c)
    BY <2>1 DEF IsText, Text
  <2>3. QED
    BY <1>1, <1>2, <2>2, TextFields
<1>7. CASE t.scheme \notin {"base58", "block58", "0x"}
  <2>1. u = [t EXCEPT !.sum = Broken(t.sum)]
    BY <1>7 DEF Mistyped
  <2>2. QED
    BY <1>2, <2>1, SumSet
<1>8. QED
  BY <1>4, <1>5, <1>6, <1>7

(* So does a character lost or gained. *)
LEMMA ResizedBroken ==
  ASSUME NEW t, IsText(t), NEW u \in Resized(t)
  PROVE  IsText(u) /\ u.sum \in {"none", "broken"}
<1>1. t.scheme \in Scheme /\ t.sum \in Sum /\ t.letters \in Letters /\ "broken" \in Sum
  BY DEF IsText, Sum
<1>2. CASE u = [t EXCEPT !.sum = "broken"]
  BY <1>1, <1>2, SumSet
<1>3. ASSUME NEW len, u = [t EXCEPT !.len = len, !.sum = "broken"]
      PROVE  IsText(u) /\ u.sum \in {"none", "broken"}
  <2>1. u = Text(t.scheme, t.tag, t.lead, len, "broken", t.letters)
    BY <1>3 DEF IsText, Text
  <2>2. QED
    BY <1>1, <2>1, TextFields
<1>4. ASSUME NEW lead, NEW len, u = Base58(lead, len, "broken")
      PROVE  IsText(u) /\ u.sum \in {"none", "broken"}
  BY <1>1, <1>4, Untagged, TextFields DEF Scheme, Letters
<1>5. CASE t.scheme = "0x"
  <2>1. PICK len \in {ETH_HEX_LEN - 1, ETH_HEX_LEN} : u = [t EXCEPT !.len = len, !.sum = "broken"]
    <3>1. Resized(t) = {[t EXCEPT !.len = len, !.sum = "broken"] : len \in {ETH_HEX_LEN - 1, ETH_HEX_LEN}}
      BY <1>5 DEF Resized
    <3>2. QED
      BY <3>1
  <2>2. QED
    BY <1>3, <2>1, ZenonT(40)
<1>6. CASE t.scheme # "0x"
  <2>1. \/ u = [t EXCEPT !.sum = "broken"]
        \/ \E lead, len : u = Base58(lead, len, "broken")
    BY <1>6 DEF Resized
  <2>2. QED
    BY <1>2, <1>4, <2>1
<1>7. QED
  BY <1>5, <1>6

(* Changing the case of every letter spoils nothing but EIP-55's sum. *)
LEMMA RecasedSame ==
  ASSUME NEW t, IsText(t), ~IsBase58(t), NEW c \in {"lower", "upper"}, NEW u \in Recased(t, c)
  PROVE  IsText(u) /\ SameText(u, t) /\ u.sum \in {t.sum, "none"}
<1>1. t.scheme \in Scheme /\ t.sum \in Sum /\ c \in Letters /\ "none" \in Sum
  BY DEF IsText, Sum, Letters
<1>2. CASE t.scheme = "0x"
  <2>1. u = [t EXCEPT !.letters = c, !.sum = "none"]
    BY <1>2 DEF Recased
  <2>2. u = Text(t.scheme, t.tag, t.lead, t.len, "none", c)
    BY <2>1 DEF IsText, Text
  <2>3. QED
    BY <1>1, <1>2, <2>2, TextFields DEF SameText, IsBase58
<1>3. CASE t.scheme # "0x"
  <2>1. u = [t EXCEPT !.letters = c]
    BY <1>3 DEF Recased
  <2>2. QED
    BY <1>1, <1>3, <2>1, LettersSet DEF SameText, IsBase58
<1>4. QED
  BY <1>2, <1>3

(* Nor does changing the case of one. *)
LEMMA FlippedSame ==
  ASSUME NEW t, IsText(t), ~IsBase58(t), NEW u \in Flipped(t)
  PROVE  /\ IsText(u) /\ SameText(u, t)
         /\ ~intact => u.sum \in {t.sum, "broken"}
<1>1. t.scheme \in Scheme /\ t.sum \in Sum /\ "mixed" \in Letters /\ {"broken", "eip55"} \subseteq Sum
  BY DEF IsText, Sum, Letters
<1>2. CASE t.scheme = "0x"
  <2>1. PICK x \in {"broken", "eip55"} : u = [t EXCEPT !.letters = "mixed", !.sum = x] /\ (~intact => x = "broken")
    BY <1>2, ZenonT(40) DEF Flipped
  <2>2. u = Text(t.scheme, t.tag, t.lead, t.len, x, "mixed")
    BY <2>1 DEF IsText, Text
  <2>3. QED
    BY <1>1, <1>2, <2>1, <2>2, TextFields DEF SameText, IsBase58
<1>3. CASE t.scheme # "0x"
  <2>1. u = [t EXCEPT !.letters = "mixed"]
    BY <1>3 DEF Flipped
  <2>2. QED
    BY <1>1, <1>3, <2>1, LettersSet DEF SameText, IsBase58
<1>4. QED
  BY <1>2, <1>3

-----------------------------------------------------------------------------
(* Nothing has been pasted. *)
LEMMA InitInv ==
  ASSUME Init
  PROVE  IInv
  BY MaxEditsAssumption DEF Init, IInv, Lone

(* A source that looks its part. *)
LEMMA PastePreserves ==
  ASSUME IInv, field = {}, NEW kind, NEW row, NEW net, NEW t, Paste(kind, row, net, t),
         \A s \in source' : SourceOk(s), IsText(t)
  PROVE  IInv'
<1>1. field' = {t} /\ intact' = TRUE /\ edits' = edits /\ verdict' = {}
  BY DEF IInv, Paste
<1>2. \A s \in source' : s.text = t
  BY DEF Paste
<1>3. SameText(t, t)
  BY DEF SameText
<1>4. Lone(source')
  BY DEF Paste, Lone
<1>5. QED
  BY <1>1, <1>2, <1>3, <1>4 DEF IInv, Lone

(* Two harmless edits are one. *)
LEMMA SameTextTransitive ==
  ASSUME NEW t, NEW u, NEW w, SameText(t, u), SameText(u, w)
  PROVE  SameText(t, w)
  BY DEF SameText, IsBase58

(* An edit that keeps every value, or spoils the sum. *)
LEMMA EditPreserves ==
  ASSUME IInv, NEW t \in field, NEW texts, NEW keepsValue \in BOOLEAN, Edit(texts, keepsValue),
         \A u \in texts : /\ IsText(u)
                          /\ intact /\ keepsValue => SameText(u, t)
                          /\ ~intact \/ ~keepsValue => u.sum \in {"none", "broken"}
  PROVE  IInv'
<1>1. PICK u \in texts : field' = {u}
  BY DEF Edit
<1>2. verdict' = {} /\ source' = source /\ edits' \in 0..MaxEdits
  BY MaxEditsAssumption DEF Edit, IInv
<1>3. intact' \in BOOLEAN /\ (intact' <=> intact /\ keepsValue)
  BY Zenon DEF Edit, IInv
<1>4. \A s \in source' : SourceOk(s)
  BY <1>2 DEF IInv
<1>5. intact' => \A s \in source' : SameText(u, s.text)
  BY <1>2, <1>3, SameTextTransitive DEF IInv
<1>6. QED
  BY <1>1, <1>2, <1>3, <1>4, <1>5 DEF IInv, Lone

(* An edit that spoils it. *)
LEMMA DamagePreserves ==
  ASSUME IInv, NEW t \in field, NEW texts, NEW keepsValue \in BOOLEAN, Edit(texts, keepsValue), ~keepsValue,
         \A u \in texts : IsText(u) /\ u.sum \in {"none", "broken"}
  PROVE  IInv'
  BY EditPreserves

(* An edit that does not. *)
LEMMA HarmlessPreserves ==
  ASSUME IInv, NEW t \in field, NEW texts, NEW keepsValue \in BOOLEAN, Edit(texts, keepsValue), keepsValue,
         \A u \in texts : /\ IsText(u)
                          /\ intact => SameText(u, t)
                          /\ ~intact => u.sum \in {"none", "broken"}
  PROVE  IInv'
  BY EditPreserves

(* The actions, one lemma each. *)
LEMMA MintPreserves ==
  ASSUME IInv, NEW row \in Rows \cup CustomRows, NEW net \in Network, NEW legacy \in BOOLEAN,
         NEW k \in Scalar, Mint(row, net, legacy, k)
  PROVE  IInv'
<1> DEFINE w == BuildWallet(row, k, net, legacy)
           A == Addresses(row.params, k, net, legacy)
<1>1. field = {} /\ A # {} /\ w[2].address \in A
      /\ w[2].secret_std = SecretStd(row.params, k) /\ w[2].secret_hex = Hex(Canon(row.params, k))
  BY TheIsIn DEF Mint, BuildWallet, IsOk, Ok, Err
<1>2. Shaped(row.params)
  BY RowsShaped, TokenShaped DEF CustomRows
<1>3. row.params.fam \in Family
  BY <1>2 DEF Shaped
<1>4. k \in Key
  BY ScalarAssumption
<1>5. ASSUME NEW t \in AddressTexts(w[2].address), Paste("address", row, net, t)
      PROVE  IInv'
  <2>1. IsText(t) /\ LooksLike(row.params.fam, t)
    BY <1>1, <1>2, MintedAddress
  <2>2. row \in CustomRows \/ ScriptTestnet(row.params.fam, net, t) \/ DetectFamily(t) # {}
    BY <1>1, <1>4, MintedRecognised
  <2>3. \A s \in source' : SourceOk(s)
    <3>1. \A s \in source' : /\ s.kind = "address" /\ s.fam = row.params.fam /\ s.net = net
                              /\ s.text = t
      BY <1>5 DEF Paste
    <3>2. ASSUME NEW s \in source' PROVE s.custom = (row \in CustomRows)
      <4>1. s = [kind |-> "address", fam |-> row.params.fam, net |-> net,
                 custom |-> row \in CustomRows, text |-> t]
        BY <1>5, Zenon DEF Paste
      <4>2. QED
        BY <4>1, Zenon
    <3>3. QED
      BY <1>3, <2>1, <2>2, <3>1, <3>2 DEF SourceOk
  <2>4. QED
    BY <1>1, <1>5, <2>1, <2>3, PastePreserves
<1>6. ASSUME NEW u \in {w[2].secret_std, w[2].secret_hex}, Paste("secret", row, net, SecretText(u))
      PROVE  IInv'
  <2>1. IsText(SecretText(u)) /\ LooksSecret(SecretText(u))
    BY <1>1, MintedSecret
  <2>2. \A s \in source' : SourceOk(s)
    BY <1>3, <1>6, <2>1 DEF Paste, SourceOk
  <2>3. QED
    BY <1>1, <1>6, <2>1, <2>2, PastePreserves
<1>7. QED
  BY <1>5, <1>6 DEF Mint

(* An HD row. *)
LEMMA MintHdPreserves ==
  ASSUME IInv, NEW row \in Rows, NEW purpose \in Purpose, NEW k \in Scalar, MintHd(row, purpose, k)
  PROVE  IInv'
<1>1. field = {} /\ Supports(row, purpose)
  BY DEF MintHd
<1>2. Shaped(row.params) /\ row.params.fam \in Family
  BY RowsShaped DEF Shaped
<1>3. k \in Key /\ "Mainnet" \in Network
  BY ScalarAssumption DEF Network
<1>4. ASSUME NEW t \in AddressTexts(HdAddress(row.params, purpose, k)), Paste("address", row, "Mainnet", t)
      PROVE  IInv'
  <2>1. IsText(t) /\ LooksLike(row.params.fam, t)
    BY <1>1, <1>2, HdMintedAddress
  <2>2. DetectFamily(t) # {}
    BY <1>1, <1>3, HdMintedRecognised
  <2>3. \A s \in source' : SourceOk(s)
    BY <1>2, <1>3, <1>4, <2>1, <2>2 DEF Paste, SourceOk
  <2>4. QED
    BY <1>1, <1>4, <2>1, <2>3, PastePreserves
<1>5. ASSUME Paste("secret", row, "Mainnet", SecretText(HdSecret(row.params, k)))
      PROVE  IInv'
  <2>1. IsText(SecretText(HdSecret(row.params, k))) /\ LooksSecret(SecretText(HdSecret(row.params, k)))
    BY MintedSecret
  <2>2. \A s \in source' : SourceOk(s)
    BY <1>2, <1>3, <1>5, <2>1 DEF Paste, SourceOk
  <2>3. QED
    BY <1>1, <1>5, <2>1, <2>2, PastePreserves
<1>6. QED
  BY <1>4, <1>5 DEF MintHd

(* The four edits. *)
LEMMA EditsPreserve ==
  ASSUME IInv, Mistype \/ Resize \/ Recase \/ Flip
  PROVE  IInv'
<1>1. \A t \in field : IsText(t) /\ (~intact => t.sum \in {"none", "broken"})
  BY DEF IInv
<1>2. CASE Mistype
  <2>1. PICK t \in field : Edit(Mistyped(t), FALSE)
    BY <1>2 DEF Mistype
  <2>2. \A u \in Mistyped(t) : IsText(u) /\ u.sum \in {"none", "broken"}
    BY <1>1, MistypedBroken
  <2>3. QED
    BY <2>1, <2>2, DamagePreserves, Zenon
<1>3. CASE Resize
  <2>1. PICK t \in field : Edit(Resized(t), FALSE)
    BY <1>3 DEF Resize
  <2>2. \A u \in Resized(t) : IsText(u) /\ u.sum \in {"none", "broken"}
    BY <1>1, ResizedBroken
  <2>3. QED
    BY <2>1, <2>2, DamagePreserves, Zenon
<1>4. CASE Recase
  <2>1. PICK t \in field, c \in {"lower", "upper"} : Edit(Recased(t, c), ~IsBase58(t))
    BY <1>4 DEF Recase
  <2>2. CASE IsBase58(t)
    <3>1. Recased(t, c) = Mistyped(t)
      BY <2>2 DEF Recased
    <3>2. \A u \in Recased(t, c) : IsText(u) /\ u.sum \in {"none", "broken"}
      BY <1>1, <3>1, MistypedBroken
    <3>3. (~IsBase58(t)) \in BOOLEAN
      BY DEF IsBase58
    <3>4. QED
      BY <2>1, <2>2, <3>2, <3>3, DamagePreserves, Zenon
  <2>3. CASE ~IsBase58(t)
    <3>1. \A u \in Recased(t, c) : /\ IsText(u)
                                   /\ intact => SameText(u, t)
                                   /\ ~intact => u.sum \in {"none", "broken"}
      BY <1>1, <2>3, RecasedSame
    <3>2. (~IsBase58(t)) \in BOOLEAN
      BY DEF IsBase58
    <3>3. QED
      BY <2>1, <2>3, <3>1, <3>2, HarmlessPreserves, Zenon
  <2>4. QED
    BY <2>2, <2>3
<1>5. CASE Flip
  <2>1. PICK t \in field : Edit(Flipped(t), ~IsBase58(t))
    BY <1>5 DEF Flip
  <2>2. CASE IsBase58(t)
    <3>1. Flipped(t) = Mistyped(t)
      BY <2>2 DEF Flipped
    <3>2. \A u \in Flipped(t) : IsText(u) /\ u.sum \in {"none", "broken"}
      BY <1>1, <3>1, MistypedBroken
    <3>3. (~IsBase58(t)) \in BOOLEAN
      BY DEF IsBase58
    <3>4. QED
      BY <2>1, <2>2, <3>2, <3>3, DamagePreserves, Zenon
  <2>3. CASE ~IsBase58(t)
    <3>1. \A u \in Flipped(t) : /\ IsText(u)
                                /\ intact => SameText(u, t)
                                /\ ~intact => u.sum \in {"none", "broken"}
      BY <1>1, <2>3, FlippedSame
    <3>2. (~IsBase58(t)) \in BOOLEAN
      BY DEF IsBase58
    <3>3. QED
      BY <2>1, <2>3, <3>1, <3>2, HarmlessPreserves, Zenon
  <2>4. QED
    BY <2>2, <2>3
<1>6. QED
  BY <1>2, <1>3, <1>4, <1>5

(* validate::check. *)
LEMMA CheckPreserves ==
  ASSUME IInv, NEW expected \in Family, Check(expected)
  PROVE  IInv'
<1>1. PICK t \in field : verdict' = {[expected |-> expected, answer |-> CheckAddress(t, expected)]}
  BY DEF Check
<1>2. source' = source /\ field' = field /\ intact' = intact /\ edits' = edits
  BY DEF Check
<1>3. \A v \in verdict' : v.expected = expected /\ v.answer = CheckAddress(t, expected)
  BY <1>1
<1>4. Lone(verdict')
  BY <1>1 DEF Lone
<1>5. QED
  BY <1>2, <1>3, <1>4 DEF IInv

(* Every step. *)
LEMMA NextInv ==
  ASSUME IInv, [Next]_vars
  PROVE  IInv'
<1>1. CASE UNCHANGED vars
  BY <1>1 DEF vars, IInv
<1>2. CASE Next
  BY <1>2, MintPreserves, MintHdPreserves, EditsPreserve, CheckPreserves DEF Next
<1>3. QED
  BY <1>1, <1>2

-----------------------------------------------------------------------------
(* The verdict is about the text in the field. *)
LEMMA AnswerIsToField ==
  ASSUME IInv, NEW v \in verdict, NEW t \in field
  PROVE  v.expected \in Family /\ v.answer = CheckAddress(t, v.expected)
  BY DEF IInv, Lone

(* Only one thing was pasted. *)
LEMMA KindOfSource ==
  ASSUME IInv, NEW kind, NEW v \in Answers(kind)
  PROVE  v \in verdict /\ \A s \in source : s.kind = kind
  BY DEF IInv, Lone, Answers

(* The look of a text survives harmless edits. *)
LEMMA LooksCarryOver ==
  ASSUME NEW t, NEW u, SameText(t, u)
  PROVE  /\ \A fam : LooksLike(fam, u) => LooksLike(fam, t)
         /\ LooksSecret(u) => LooksSecret(t)
<1>1. CASE IsBase58(t)
  BY <1>1 DEF SameText
<1>2. CASE ~IsBase58(t)
  BY <1>2 DEF SameText, IsBase58, LooksLike, LooksSecret
<1>3. QED
  BY <1>1, <1>2

(* One value or none. *)
LEMMA CardinalityOfLone ==
  ASSUME NEW S, Lone(S)
  PROVE  Cardinality(S) <= 1
<1>1. CASE S = {}
  BY <1>1, FS_EmptySet
<1>2. CASE S # {}
  <2>1. PICK x : S = {x}
    BY <1>2 DEF Lone
  <2>2. QED
    BY <2>1, FS_Singleton
<1>3. QED
  BY <1>1, <1>2

(* The properties, from the invariant alone. *)
LEMMA InvImpliesTypeOK ==
  ASSUME IInv
  PROVE  TypeOK
<1>1. Cardinality(source) <= 1 /\ Cardinality(field) <= 1 /\ Cardinality(verdict) <= 1
  BY CardinalityOfLone DEF IInv
<1>2. \A s \in source : s.kind \in {"address", "secret"} /\ s.fam \in Family /\ s.net \in Network
  BY DEF IInv, SourceOk
<1>3. \A t \in field : t.scheme \in Scheme /\ t.sum \in Sum /\ t.letters \in {"lower", "upper", "mixed"}
  BY DEF IInv, IsText, Letters
<1>4. ASSUME NEW v \in verdict
      PROVE  /\ v.expected \in Family
             /\ v.answer \in {Accepted, Unrecognized} \cup
                  {<<"Mismatch", f, v.expected>> : f \in {g \in Family : ~FamiliesCompatible(g, v.expected)}}
  <2>1. PICK t \in field : v.answer = CheckAddress(t, v.expected)
    BY DEF IInv
  <2>2. v.expected \in Family
    BY DEF IInv
  <2>3. QED
    BY <2>1, <2>2, AnswerTo
<1>5. intact \in BOOLEAN /\ edits \in 0..MaxEdits
  BY DEF IInv
<1>6. QED
  BY <1>1, <1>2, <1>3, <1>4, <1>5 DEF TypeOK

(* The look is the family's, and the arms tell looks apart. *)
LEMMA InvImpliesRightFamily ==
  ASSUME IInv
  PROVE  RightFamily
<1> SUFFICES ASSUME intact, NEW v \in Answers("address"), NEW s \in source, v.answer # Unrecognized
             PROVE  v.answer = Accepted <=> FamiliesCompatible(s.fam, v.expected)
  BY DEF RightFamily
<1>1. v \in verdict /\ s.kind = "address"
  BY KindOfSource
<1>2. PICK t \in field : v.answer = CheckAddress(t, v.expected)
  BY <1>1 DEF IInv
<1>3. LooksLike(s.fam, t)
  BY <1>1, LooksCarryOver DEF IInv, SourceOk
<1>4. PICK f : /\ DetectFamily(t) = {f}
               /\ v.answer = Accepted <=> FamiliesCompatible(f, v.expected)
  BY <1>2, AnswerTo
<1>5. f = s.fam \/ (IsBitcoinScript(f) /\ IsBitcoinScript(s.fam))
  BY <1>3, <1>4, DetectedAsMinted
<1>6. FamiliesCompatible(f, v.expected) <=> FamiliesCompatible(s.fam, v.expected)
  BY <1>5 DEF FamiliesCompatible
<1>7. QED
  BY <1>4, <1>6

(* A text put in one case is recognised still. *)
LEMMA RecasedRecognised ==
  ASSUME NEW t, NEW u, SameText(t, u), DetectFamily(u) # {},
         t.scheme \in {"bech32", "hex", "0x"}, t.letters # "mixed"
  PROVE  DetectFamily(t) # {}
<1>1. CASE t.scheme = "bech32"
  <2>1. IsNoid(u) \/ IsSegwit(u) \/ IsTaproot(u)
    BY <1>1, Arms, ZenonT(40) DEF SameText, IsEthereum, IsWarthog, IsKaspa, IsConflux, IsP2pkh, IsXdag,
       IsErgo, IsAlephium, IsCryptonote
  <2>2. IsNoid(t) \/ IsSegwit(t) \/ IsTaproot(t)
    BY <1>1, <2>1 DEF SameText, IsNoid, IsSegwit, IsTaproot, Bech32Verifies
  <2>3. QED
    BY <2>2, Arms
<1>2. CASE t.scheme = "hex"
  <2>1. IsWarthog(u)
    BY <1>2, Arms, ZenonT(40) DEF SameText, IsEthereum, IsKaspa, IsConflux, IsNoid, IsSegwit, IsTaproot,
       Bech32Verifies, IsP2pkh, IsXdag, IsErgo, IsAlephium, IsCryptonote
  <2>2. IsWarthog(t)
    BY <1>2, <2>1 DEF SameText, IsWarthog
  <2>3. QED
    BY <2>2, Arms
<1>3. CASE t.scheme = "0x"
  <2>1. IsEthereum(u)
    BY <1>3, Arms, ZenonT(40) DEF SameText, IsWarthog, IsKaspa, IsConflux, IsNoid, IsSegwit, IsTaproot,
       Bech32Verifies, IsP2pkh, IsXdag, IsErgo, IsAlephium, IsCryptonote
  <2>2. IsEthereum(t)
    BY <1>3, <2>1 DEF SameText, IsEthereum
  <2>3. QED
    BY <2>2, Arms
<1>4. QED
  BY <1>1, <1>2, <1>3

(* Recognised when minted, and by RecasedRecognised afterwards. *)
LEMMA InvImpliesMintedIsRecognised ==
  ASSUME IInv
  PROVE  MintedIsRecognised
<1> SUFFICES ASSUME intact, NEW v \in Answers("address"), NEW s \in source, NEW t \in field,
                    ~s.custom,
                    s.net = "Testnet" => s.text.scheme \notin {"bech32", "cash"} \/ s.fam = "Noid",
                    t = s.text \/ (t.scheme \in {"bech32", "hex", "0x"} /\ t.letters # "mixed")
             PROVE  v.answer # Unrecognized
  BY DEF MintedIsRecognised
<1>1. v \in verdict /\ s.kind = "address"
  BY KindOfSource
<1>2. DetectFamily(s.text) # {}
  BY <1>1 DEF IInv, SourceOk, ScriptTestnet
<1>3. SameText(t, s.text)
  BY DEF IInv
<1>4. DetectFamily(t) # {}
  BY <1>2, <1>3, RecasedRecognised
<1>5. QED
  BY <1>1, <1>4, AnswerIsToField, AnswerTo

(* A text that is not intact has no checksum that verifies. *)
LEMMA InvImpliesCorruptionNoticed ==
  ASSUME IInv
  PROVE  CorruptionNoticed
<1> SUFFICES ASSUME ~intact, NEW v \in verdict, NEW t \in field
             PROVE  \/ v.answer = Unrecognized
                    \/ DetectFamily(t) = {"Alephium"}
                    \/ DetectFamily(t) = {"Ethereum"} /\ t.letters # "mixed"
  BY DEF CorruptionNoticed
<1>1. t.sum \in {"none", "broken"}
  BY DEF IInv
<1>2. QED
  BY <1>1, CorruptUndetected, AnswerIsToField, AnswerTo

(* The look of a secret opens no arm. *)
LEMMA InvImpliesSecretUnrecognised ==
  ASSUME IInv
  PROVE  SecretUnrecognised
<1> SUFFICES ASSUME intact, NEW v \in Answers("secret")
             PROVE  v.answer = Unrecognized
  BY DEF SecretUnrecognised
<1>1. v \in verdict /\ \E s \in source : s.kind = "secret"
  BY KindOfSource DEF Answers
<1>2. PICK s \in source : s.kind = "secret"
  BY <1>1
<1>3. PICK t \in field : v.answer = CheckAddress(t, v.expected)
  BY <1>1 DEF IInv
<1>4. LooksSecret(t)
  BY <1>2, LooksCarryOver DEF IInv, SourceOk
<1>5. QED
  BY <1>3, <1>4, SecretUndetected, AnswerTo

-----------------------------------------------------------------------------
(***************************************************************************)
(* What was pasted, what has become of it and what `check` said of it stay *)
(* in step, however the text is edited and whichever family is asked for.  *)
(***************************************************************************)
THEOREM Invariant == Spec => []IInv
<1>1. Init => IInv
  BY InitInv
<1>2. IInv /\ [Next]_vars => IInv'
  BY NextInv
<1>3. QED
  BY <1>1, <1>2, PTL DEF Spec

(* The state is of the shapes the model names: one text, one verdict, at most MaxEdits. *)
THEOREM TypeCorrect == Spec => []TypeOK
  BY Invariant, InvImpliesTypeOK, PTL

(***************************************************************************)
(* RightFamily: an address nobody damaged is never accepted for, nor named *)
(* as, a family it does not belong to (FamilyMismatch in validate.rs).     *)
(***************************************************************************)
THEOREM FamilyKept == Spec => []RightFamily
  BY Invariant, InvImpliesRightFamily, PTL

(***************************************************************************)
(* MintedIsRecognised: detect_family recognises whatever address the       *)
(* generator mints for a coin of the table, script testnets aside, also    *)
(* after its letters were put in one case.                                 *)
(***************************************************************************)
THEOREM TableCoinsRecognised == Spec => []MintedIsRecognised
  BY Invariant, InvImpliesMintedIsRecognised, PTL

(***************************************************************************)
(* CorruptionNoticed: once a character has changed its value, `check` does *)
(* not recognise the text, but as Alephium or as an Ethereum address in    *)
(* one case, which carry no checksum.                                      *)
(***************************************************************************)
THEOREM DamageNoticed == Spec => []CorruptionNoticed
  BY Invariant, InvImpliesCorruptionNoticed, PTL

(***************************************************************************)
(* SecretUnrecognised: a secret pasted where an address belongs is never   *)
(* taken for one, whatever family the pool expects.                        *)
(***************************************************************************)
THEOREM SecretsNoAddress == Spec => []SecretUnrecognised
  BY Invariant, InvImpliesSecretUnrecognised, PTL
=============================================================================
