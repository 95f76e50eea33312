----------------------------- MODULE KeysProofs -----------------------------
(***************************************************************************)
(* What a wallet, a row and a secret are, for any keys, any child          *)
(* derivation and any tokens: the facts about the coin table, the secret   *)
(* encodings and HD derivation that the command line and the detector rest *)
(* on.                                                                     *)
(***************************************************************************)
EXTENDS Hd, WellFoundedInduction, SequenceTheorems, TLAPS

-----------------------------------------------------------------------------
(* The coin table and the token parser: every row, built in or typed, is   *)
(* of a known family and has P2PKH version prefixes of one or two bytes;   *)
(* those of the table are bytes.                                           *)

\* A version prefix as parse_ver and the table spell it.
Short(v)   == Len(v) \in {1, 2}
Version    == {v \in Seq(0..255) : Short(v)}
\* Parameters a later stage can rely on: Shaped for tokens and table, Spelled for the table.
Shaped(p)  == p.fam \in Family /\ \A v \in P2pkhVersionPrefixes(p) : Short(v)
Spelled(p) == p.fam \in Family /\ P2pkhVersionPrefixes(p) \subseteq Version

\* The parameters of a table row that has P2PKH prefixes.
Versioned(p) == p.fam \in {"P2pkh", "SegwitV0"} /\ p.ver \in Version /\ p.verT \subseteq Version

(* The prefixes the table is written with are one or two bytes. *)
LEMMA TableVersions ==
  /\ {<<0>>, <<30>>, <<33>>, <<38>>, <<45>>, <<46>>, <<48>>, <<50>>, <<60>>, <<65>>, <<71>>,
      <<74>>, <<82>>, <<109>>, <<111>>, <<113>>} \subseteq Version
  /\ <<28, 184>> \in Version
  BY DEF Version, Short

(* A row with P2PKH parts is spelled right when its prefixes are. *)
LEMMA VersionsSpelled ==
  ASSUME NEW p, Versioned(p)
  PROVE  Spelled(p)
  BY DEF Versioned, Spelled, P2pkhVersionPrefixes, HasP2pkhParts, Family

(* A row of another family has no prefixes to spell. *)
LEMMA NoVersionsSpelled ==
  ASSUME NEW p, p.fam \in Family \ {"P2pkh", "SegwitV0"}
  PROVE  Spelled(p)
  BY DEF Spelled, P2pkhVersionPrefixes, HasP2pkhParts

(* The Bitcoin-like rows, one by one. *)
LEMMA BitcoinRowsSpelled ==
  ASSUME NEW r \in Range1(BitcoinRows)
  PROVE  Spelled(r.params)
<1>1. DOMAIN BitcoinRows = 1..10
  BY DEF BitcoinRows
<1>2. /\ BitcoinRows[1].params.fam = "Taproot"
  BY DEF BitcoinRows, Row, Taproot
<1>3. /\ Versioned(BitcoinRows[2].params)
      /\ Versioned(BitcoinRows[3].params)
      /\ Versioned(BitcoinRows[4].params)
  BY TableVersions, SMTT(30) DEF Versioned, BitcoinRows, Row, SegwitV0
<1>4. \A i \in 5..10 : Versioned(BitcoinRows[i].params)
  <2>1. Versioned(BitcoinRows[5].params)
    BY TableVersions, SMTT(30) DEF Versioned, BitcoinRows, Row, P2pkh
  <2>2. Versioned(BitcoinRows[6].params)
    BY TableVersions, SMTT(30) DEF Versioned, BitcoinRows, Row, P2pkh
  <2>3. Versioned(BitcoinRows[7].params)
    BY TableVersions, SMTT(30) DEF Versioned, BitcoinRows, Row, P2pkh
  <2>4. Versioned(BitcoinRows[8].params)
    BY TableVersions, SMTT(30) DEF Versioned, BitcoinRows, Row, P2pkh
  <2>5. Versioned(BitcoinRows[9].params)
    BY TableVersions, SMTT(30) DEF Versioned, BitcoinRows, Row, P2pkh
  <2>6. Versioned(BitcoinRows[10].params)
    BY TableVersions, SMTT(30) DEF Versioned, BitcoinRows, Row, P2pkh
  <2>7. QED
    BY <2>1, <2>2, <2>3, <2>4, <2>5, <2>6
<1>5. \A i \in 1..10 : Spelled(BitcoinRows[i].params)
  BY <1>2, <1>3, <1>4, VersionsSpelled, NoVersionsSpelled DEF Family
<1>6. QED
  BY <1>1, <1>5 DEF Range1

(* The rows of the other chains. *)
LEMMA OtherChainRowsSpelled ==
  ASSUME NEW r \in Range1(OtherChainRows)
  PROVE  Spelled(r.params)
<1>1. DOMAIN OtherChainRows = 1..12
  BY DEF OtherChainRows
<1>2. /\ OtherChainRows[1].params.fam = "Ethereum" /\ OtherChainRows[2].params.fam = "Ethereum"
      /\ OtherChainRows[3].params.fam = "Conflux" /\ OtherChainRows[4].params.fam = "CryptoNote"
      /\ OtherChainRows[5].params.fam = "CryptoNote" /\ OtherChainRows[6].params.fam = "CryptoNote"
      /\ OtherChainRows[7].params.fam = "KaspaAddr" /\ OtherChainRows[8].params.fam = "KaspaAddr"
      /\ OtherChainRows[9].params.fam = "KaspaAddr" /\ OtherChainRows[10].params.fam = "Ergo"
      /\ OtherChainRows[11].params.fam = "Alephium" /\ OtherChainRows[12].params.fam = "Ethereum"
  BY DEF OtherChainRows, Row, Bare, Conflux, CryptoNote, KaspaAddr
<1>3. \A i \in 1..12 : Spelled(OtherChainRows[i].params)
  BY <1>2, VersionsSpelled, NoVersionsSpelled DEF Family
<1>4. QED
  BY <1>1, <1>3 DEF Range1

(* The rows added last. *)
LEMMA LateRowsSpelled ==
  ASSUME NEW r \in Range1(LateRows)
  PROVE  Spelled(r.params)
<1>1. DOMAIN LateRows = 1..12
  BY DEF LateRows
<1>2. /\ LateRows[1].params.fam = "Ethereum" /\ LateRows[2].params.fam = "Ethereum"
      /\ LateRows[3].params.fam = "Xdag" /\ LateRows[4].params.fam = "Warthog"
      /\ LateRows[5].params.fam = "Noid"
  BY DEF LateRows, Row, Bare
<1>3. /\ Versioned(LateRows[6].params)
      /\ Versioned(LateRows[7].params)
  BY TableVersions DEF Versioned, LateRows, Row, SegwitV0
<1>4. /\ Versioned(LateRows[8].params)
      /\ Versioned(LateRows[9].params)
      /\ Versioned(LateRows[10].params)
      /\ Versioned(LateRows[11].params)
      /\ Versioned(LateRows[12].params)
  BY TableVersions, SMTT(30) DEF Versioned, LateRows, Row, P2pkh
<1>5. \A i \in 1..12 : Spelled(LateRows[i].params)
  BY <1>2, <1>3, <1>4, VersionsSpelled, NoVersionsSpelled DEF Family
<1>6. QED
  BY <1>1, <1>5 DEF Range1

(* A pair is a sequence of two. *)
LEMMA PairIsSeq ==
  ASSUME NEW S, NEW p \in S \X S
  PROVE  p \in Seq(S) /\ Len(p) = 2
<1>1. PICK x \in S, y \in S : p = <<x, y>>
  OBVIOUS
<1>2. <<x, y>> \in Seq(S) /\ Len(<<x, y>>) = 2
  OBVIOUS
<1>3. QED
  BY <1>1, <1>2

(* What a concatenation holds, one of its halves holds. *)
LEMMA RangeOfConcat ==
  ASSUME NEW S, NEW s \in Seq(S), NEW t \in Seq(S)
  PROVE  s \o t \in Seq(S) /\ Range1(s \o t) \subseteq Range1(s) \cup Range1(t)
  BY DEF Range1

(* The table is a sequence, and a row of it is a row of one of its three parts. *)
LEMMA RowsOfTable ==
  /\ COINS \in Seq(Rows)
  /\ \A r \in Rows : r \in Range1(BitcoinRows) \cup Range1(OtherChainRows) \cup Range1(LateRows)
<1> DEFINE S == Range1(BitcoinRows) \cup Range1(OtherChainRows) \cup Range1(LateRows)
<1>1. /\ DOMAIN BitcoinRows = 1..10 /\ BitcoinRows = [i \in 1..10 |-> BitcoinRows[i]]
      /\ DOMAIN OtherChainRows = 1..12 /\ OtherChainRows = [i \in 1..12 |-> OtherChainRows[i]]
      /\ DOMAIN LateRows = 1..12 /\ LateRows = [i \in 1..12 |-> LateRows[i]]
  BY DEF BitcoinRows, OtherChainRows, LateRows
<1>2. BitcoinRows \in Seq(S) /\ OtherChainRows \in Seq(S) /\ LateRows \in Seq(S)
  BY <1>1 DEF Range1
<1> HIDE DEF S
<1>3. BitcoinRows \o OtherChainRows \in Seq(S)
  BY <1>2, RangeOfConcat
<1>4. \A r \in Rows : r \in Range1(BitcoinRows) \cup Range1(OtherChainRows) \cup Range1(LateRows)
  BY <1>2, <1>3, RangeOfConcat DEF Rows, COINS
<1>5. COINS \in Seq(S)
  BY <1>2, <1>3, RangeOfConcat DEF COINS
<1>6. COINS \in Seq(Rows)
  BY <1>5 DEF Rows, Range1
<1>7. QED
  BY <1>4, <1>6

(* Every row of COINS: its family exists, its version prefixes are one or two bytes. *)
LEMMA RowsSpelled ==
  ASSUME NEW r \in Rows
  PROVE  Spelled(r.params)
  BY RowsOfTable, BitcoinRowsSpelled, OtherChainRowsSpelled, LateRowsSpelled

(* A ticker names one row. *)
LEMMA TickersUnique ==
  ASSUME NEW r \in Rows, NEW q \in Rows, r.ticker = q.ticker
  PROVE  r = q
<1> DEFINE B == {"pearl", "btc", "ltc", "vtc", "doge", "rvn", "firo", "mewc", "evr", "kad"}
<1> DEFINE O == {"etc", "eth", "cfx", "xmr", "zeph", "sal", "kas", "kls", "spr", "erg", "alph", "ubq"}
<1> DEFINE L == {"ethw", "octa", "xdag", "wart", "noid", "scash", "alpha", "zec", "btg", "kmd", "btcz", "zer"}
<1>1. DOMAIN BitcoinRows = 1..10
  BY DEF BitcoinRows
<1>2. /\ BitcoinRows[1].ticker = "pearl" /\ BitcoinRows[2].ticker = "btc" /\ BitcoinRows[3].ticker = "ltc"
      /\ BitcoinRows[4].ticker = "vtc" /\ BitcoinRows[5].ticker = "doge" /\ BitcoinRows[6].ticker = "rvn"
      /\ BitcoinRows[7].ticker = "firo" /\ BitcoinRows[8].ticker = "mewc" /\ BitcoinRows[9].ticker = "evr"
      /\ BitcoinRows[10].ticker = "kad"
  BY DEF BitcoinRows, Row
<1>3. \A i, j \in 1..10 : /\ BitcoinRows[i].ticker \in B
                          /\ BitcoinRows[i].ticker = BitcoinRows[j].ticker => i = j
  BY <1>2
<1>4. \A c, d \in Range1(BitcoinRows) : c.ticker \in B /\ (c.ticker = d.ticker => c = d)
  <2> TAKE c, d \in Range1(BitcoinRows)
  <2>1. PICK i \in 1..10 : c = BitcoinRows[i]
    BY <1>1 DEF Range1
  <2>2. PICK j \in 1..10 : d = BitcoinRows[j]
    BY <1>1 DEF Range1
  <2> HIDE DEF B
  <2>3. BitcoinRows[i].ticker \in B /\ (BitcoinRows[i].ticker = BitcoinRows[j].ticker => i = j)
    BY <1>3
  <2>4. QED
    BY <2>1, <2>2, <2>3
<1>5. DOMAIN OtherChainRows = 1..12
  BY DEF OtherChainRows
<1>6. /\ OtherChainRows[1].ticker = "etc" /\ OtherChainRows[2].ticker = "eth" /\ OtherChainRows[3].ticker = "cfx"
      /\ OtherChainRows[4].ticker = "xmr" /\ OtherChainRows[5].ticker = "zeph" /\ OtherChainRows[6].ticker = "sal"
      /\ OtherChainRows[7].ticker = "kas" /\ OtherChainRows[8].ticker = "kls" /\ OtherChainRows[9].ticker = "spr"
      /\ OtherChainRows[10].ticker = "erg" /\ OtherChainRows[11].ticker = "alph" /\ OtherChainRows[12].ticker = "ubq"
  BY DEF OtherChainRows, Row
<1>7. \A i, j \in 1..12 : /\ OtherChainRows[i].ticker \in O
                          /\ OtherChainRows[i].ticker = OtherChainRows[j].ticker => i = j
  BY <1>6
<1>8. \A c, d \in Range1(OtherChainRows) : c.ticker \in O /\ (c.ticker = d.ticker => c = d)
  <2> TAKE c, d \in Range1(OtherChainRows)
  <2>1. PICK i \in 1..12 : c = OtherChainRows[i]
    BY <1>5 DEF Range1
  <2>2. PICK j \in 1..12 : d = OtherChainRows[j]
    BY <1>5 DEF Range1
  <2> HIDE DEF O
  <2>3. OtherChainRows[i].ticker \in O /\ (OtherChainRows[i].ticker = OtherChainRows[j].ticker => i = j)
    BY <1>7
  <2>4. QED
    BY <2>1, <2>2, <2>3
<1>9. DOMAIN LateRows = 1..12
  BY DEF LateRows
<1>10. /\ LateRows[1].ticker = "ethw" /\ LateRows[2].ticker = "octa" /\ LateRows[3].ticker = "xdag"
      /\ LateRows[4].ticker = "wart" /\ LateRows[5].ticker = "noid" /\ LateRows[6].ticker = "scash"
      /\ LateRows[7].ticker = "alpha" /\ LateRows[8].ticker = "zec" /\ LateRows[9].ticker = "btg"
      /\ LateRows[10].ticker = "kmd" /\ LateRows[11].ticker = "btcz" /\ LateRows[12].ticker = "zer"
  BY DEF LateRows, Row
<1>11. \A i, j \in 1..12 : /\ LateRows[i].ticker \in L
                           /\ LateRows[i].ticker = LateRows[j].ticker => i = j
  BY <1>10
<1>12. \A c, d \in Range1(LateRows) : c.ticker \in L /\ (c.ticker = d.ticker => c = d)
  <2> TAKE c, d \in Range1(LateRows)
  <2>1. PICK i \in 1..12 : c = LateRows[i]
    BY <1>9 DEF Range1
  <2>2. PICK j \in 1..12 : d = LateRows[j]
    BY <1>9 DEF Range1
  <2> HIDE DEF L
  <2>3. LateRows[i].ticker \in L /\ (LateRows[i].ticker = LateRows[j].ticker => i = j)
    BY <1>11
  <2>4. QED
    BY <2>1, <2>2, <2>3
<1>13. B \cap O = {} /\ B \cap L = {} /\ O \cap L = {}
  OBVIOUS
<1> HIDE DEF B, O, L
<1>14. QED
  BY <1>4, <1>8, <1>12, <1>13, RowsOfTable

-----------------------------------------------------------------------------
(* The element of a set that has one. *)
LEMMA TheIsIn ==
  ASSUME NEW S, S # {}
  PROVE  The(S) \in S
  BY DEF The

(* Of a singleton it is that element. *)
LEMMA TheOfSingleton ==
  ASSUME NEW x
  PROVE  The({x}) = x
  BY DEF The

(* parse_token returns known families and version prefixes of one or two bytes, whatever
   the token says. *)
LEMMA TokenShaped ==
  ASSUME NEW tok, NEW r \in ParseToken(tok)
  PROVE  Shaped(r.params)
<1>1. InGrammar(tok) /\ r.params = TokenParams(tok)
  BY DEF ParseToken, TokenOk, Row
<1>2. tok.fam \in {"p2pkh", "segwit", "taproot", "cryptonote", "kaspa", "ethereum", "conflux",
                   "ergo", "alephium", "xdag", "warthog", "noid"}
  BY <1>1 DEF InGrammar, TOKEN_GRAMMAR
<1>3. CASE tok.fam = "p2pkh"
  BY <1>1, <1>3 DEF TokenParams, P2pkh, Shaped, Short, P2pkhVersionPrefixes, HasP2pkhParts, Family
<1>4. CASE tok.fam = "segwit"
  BY <1>1, <1>4 DEF TokenParams, SegwitV0, Shaped, Short, P2pkhVersionPrefixes, HasP2pkhParts, Family
<1>5. CASE tok.fam \notin {"p2pkh", "segwit"}
  <2>1. TokenParams(tok).fam \in Family \ {"P2pkh", "SegwitV0"}
    BY <1>2, <1>5 DEF TokenParams, Family, Taproot, Conflux, CryptoNote, KaspaAddr, Bare
  <2>2. QED
    BY <1>1, <2>1 DEF Shaped, P2pkhVersionPrefixes, HasP2pkhParts
<1>6. QED
  BY <1>3, <1>4, <1>5

(* So does the table. *)
LEMMA RowsShaped ==
  ASSUME NEW r \in Rows
  PROVE  Shaped(r.params)
  BY RowsSpelled DEF Shaped, Spelled, Version

(* A set of numbers that is not empty has a least one. *)
LEMMA LeastNat ==
  ASSUME NEW T \in SUBSET Nat, T # {}
  PROVE  \E x \in T : \A y \in T : x <= y
<1> DEFINE R == {ss \in Nat \X Nat : ss[1] < ss[2]}
<1>1. IsWellFoundedOn(R, Nat)
  BY NatLessThanWellFounded DEF OpToRel
<1>2. PICK x \in T : \A y \in T : ~(<<y, x>> \in R)
  <2> HIDE DEF R
  <2>1. QED
    BY <1>1, WFMin
<1>3. \A y \in T : ~(y < x)
  BY <1>2
<1>4. QED
  BY <1>3

(* What a sequence holds once an element is appended, or its head is taken. *)
LEMMA RangeOfAppend ==
  ASSUME NEW S, NEW s \in Seq(S), NEW x \in S
  PROVE  Append(s, x) \in Seq(S) /\ Range1(Append(s, x)) = Range1(s) \cup {x}
<1>1. /\ Append(s, x) \in Seq(S) /\ Len(Append(s, x)) = Len(s) + 1
      /\ \A i \in 1..Len(s) : Append(s, x)[i] = s[i]
      /\ Append(s, x)[Len(s) + 1] = x
  BY AppendProperties
<1>2. Len(s) \in Nat /\ DOMAIN s = 1..Len(s) /\ DOMAIN Append(s, x) = 1..(Len(s) + 1)
  BY <1>1, LenProperties
<1>3. ASSUME NEW y \in Range1(Append(s, x)) PROVE y \in Range1(s) \cup {x}
  <2>1. PICK i \in 1..(Len(s) + 1) : y = Append(s, x)[i]
    BY <1>2 DEF Range1
  <2>2. CASE i = Len(s) + 1
    BY <1>1, <2>1, <2>2
  <2>3. CASE i # Len(s) + 1
    <3>1. i \in 1..Len(s)
      BY <1>2, <2>3
    <3>2. QED
      BY <1>1, <1>2, <2>1, <3>1 DEF Range1
  <2>4. QED
    BY <2>2, <2>3
<1>4. ASSUME NEW y \in Range1(s) \cup {x} PROVE y \in Range1(Append(s, x))
  <2>1. CASE y = x
    <3>1. Len(s) + 1 \in 1..(Len(s) + 1)
      BY <1>2
    <3>2. QED
      BY <1>1, <1>2, <2>1, <3>1 DEF Range1
  <2>2. CASE y \in Range1(s)
    <3>1. PICK i \in 1..Len(s) : y = s[i]
      BY <1>2, <2>2 DEF Range1
    <3>2. i \in 1..(Len(s) + 1) /\ y = Append(s, x)[i]
      BY <1>1, <1>2, <3>1
    <3>3. QED
      BY <1>2, <3>2 DEF Range1
  <2>3. QED
    BY <2>1, <2>2
<1>5. QED
  BY <1>1, <1>3, <1>4

(* A sequence that is not empty is its head and then its tail. *)
LEMMA RangeOfHeadTail ==
  ASSUME NEW S, NEW s \in Seq(S), s # << >>
  PROVE  /\ Head(s) \in S /\ Tail(s) \in Seq(S) /\ Range1(s) = {Head(s)} \cup Range1(Tail(s))
         /\ Len(Tail(s)) = Len(s) - 1 /\ \A i \in 1..(Len(s) - 1) : Tail(s)[i] = s[i + 1]
<1>1. /\ Head(s) \in S /\ Tail(s) \in Seq(S) /\ Len(Tail(s)) = Len(s) - 1
      /\ \A i \in 1..Len(Tail(s)) : Tail(s)[i] = s[i + 1]
  BY HeadTailProperties
<1>2. Len(s) \in Nat /\ Len(s) # 0 /\ DOMAIN s = 1..Len(s) /\ DOMAIN Tail(s) = 1..(Len(s) - 1)
  BY <1>1, LenProperties, EmptySeq
<1>3. Head(s) = s[1]
  OBVIOUS
<1>4. ASSUME NEW y \in Range1(s) PROVE y \in {Head(s)} \cup Range1(Tail(s))
  <2>1. PICK i \in 1..Len(s) : y = s[i]
    BY <1>2 DEF Range1
  <2>2. CASE i = 1
    BY <1>3, <2>1, <2>2
  <2>3. CASE i # 1
    <3>1. i - 1 \in 1..(Len(s) - 1) /\ Tail(s)[i - 1] = s[i]
      BY <1>1, <1>2, <2>3
    <3>2. QED
      BY <1>2, <2>1, <3>1 DEF Range1
  <2>4. QED
    BY <2>2, <2>3
<1>5. ASSUME NEW y \in {Head(s)} \cup Range1(Tail(s)) PROVE y \in Range1(s)
  <2>1. CASE y = Head(s)
    BY <1>2, <1>3, <2>1 DEF Range1
  <2>2. CASE y \in Range1(Tail(s))
    <3>1. PICK i \in 1..(Len(s) - 1) : y = Tail(s)[i]
      BY <1>2, <2>2 DEF Range1
    <3>2. i + 1 \in 1..Len(s) /\ y = s[i + 1]
      BY <1>1, <1>2, <3>1
    <3>3. QED
      BY <1>2, <3>2 DEF Range1
  <2>3. QED
    BY <1>5, <2>1, <2>2
<1>6. QED
  BY <1>1, <1>2, <1>4, <1>5

-----------------------------------------------------------------------------
(* Wallets, secrets and rows *)

\* The wallet build_wallet makes of a key it accepts: the address of that key, the raw hex of
\* its canonical form and its importable secret.
IsWalletOf(w, spec, k, net, legacy) ==
    /\ k \in Key /\ (k \in Scalar \/ spec.params.fam = "Noid")
    /\ Addresses(spec.params, k, net, legacy) # {}
    /\ w.address = The(Addresses(spec.params, k, net, legacy))
    /\ w.fam = spec.params.fam
    /\ w.secret_hex = Hex(Canon(spec.params, k))
    /\ w.secret_std = SecretStd(spec.params, k)

(* CryptoNote's reduction is done once: the reduced key is a key, reduces to itself and has the
   address of the key it came from. *)
LEMMA CanonAddresses ==
  ASSUME NEW p, NEW k \in Key, NEW net, NEW legacy
  PROVE  /\ Canon(p, k) \in Key
         /\ Canon(p, Canon(p, k)) = Canon(p, k)
         /\ Addresses(p, Canon(p, k), net, legacy) = Addresses(p, k, net, legacy)
<1>1. CASE p.fam = "CryptoNote"
  <2>1. Canon(p, k) = Reduce[k] /\ Canon(p, k) \in Key
    BY <1>1, ReduceAssumption DEF Canon
  <2>2. Reduce[Reduce[k]] = Reduce[k]
    BY ReduceAssumption
  <2>3. \A nb : CryptoNoteAddress(nb, Reduce[k]) = CryptoNoteAddress(nb, k)
    BY <2>2 DEF CryptoNoteAddress
  <2>4. \A x : Addresses(p, x, net, legacy) = {CryptoNoteAddress(nb, x) : nb \in Pick(net, p.net, p.netT)}
    BY <1>1 DEF Addresses
  <2>5. QED
    BY <1>1, <2>1, <2>2, <2>3, <2>4 DEF Canon
<1>2. CASE p.fam # "CryptoNote"
  BY <1>2 DEF Canon
<1>3. QED
  BY <1>1, <1>2

(* --legacy changes nothing but the addresses of SegWit rows. *)
LEMMA LegacyOnlySegwit ==
  ASSUME NEW p, NEW k, NEW net, NEW legacy, NEW other,
         p.fam = "SegwitV0" => legacy = other
  PROVE  Addresses(p, k, net, legacy) = Addresses(p, k, net, other)
<1>1. CASE p.fam = "SegwitV0"
  BY <1>1
<1>2. CASE p.fam # "SegwitV0"
  BY <1>2 DEF Addresses
<1>3. QED
  BY <1>1, <1>2

(* build_wallet makes a wallet of a key in range unless the coin has no such network, and then
   says so. *)
LEMMA BuildWalletOk ==
  ASSUME NEW spec, NEW k \in Key, NEW net, NEW legacy, k \in Scalar \/ spec.params.fam = "Noid"
  PROVE  /\ IsOk(BuildWallet(spec, k, net, legacy)) <=> Addresses(spec.params, k, net, legacy) # {}
         /\ IsOk(BuildWallet(spec, k, net, legacy)) =>
                IsWalletOf(BuildWallet(spec, k, net, legacy)[2], spec, k, net, legacy)
         /\ ~IsOk(BuildWallet(spec, k, net, legacy)) =>
                BuildWallet(spec, k, net, legacy)[2] = "UnsupportedTestnet"
<1> DEFINE as == Addresses(spec.params, k, net, legacy)
           w  == [coin       |-> spec.ticker,
                  fam        |-> spec.params.fam,
                  address    |-> The(as),
                  privkey    |-> k,
                  secret_hex |-> Hex(Canon(spec.params, k)),
                  secret_std |-> SecretStd(spec.params, k)]
<1>1. BuildWallet(spec, k, net, legacy) = IF as = {} THEN Err("UnsupportedTestnet") ELSE Ok(w)
  BY DEF BuildWallet
<1>2. CASE as = {}
  BY <1>1, <1>2 DEF Err, IsOk
<1>3. CASE as # {}
  <2>1. BuildWallet(spec, k, net, legacy) = <<"Ok", w>>
    BY <1>1, <1>3 DEF Ok
  <2>2. IsWalletOf(w, spec, k, net, legacy)
    BY <1>3 DEF IsWalletOf
  <2> HIDE DEF w
  <2>3. QED
    BY <1>3, <2>1, <2>2 DEF IsOk
<1>4. QED
  BY <1>2, <1>3

(* Whatever a wallet or a row prints of a key, what is read back of it is that key, or the
   canonical form printed as raw hex. *)
LEMMA SecretIsOf ==
  ASSUME NEW p, NEW k,
         NEW text \in {SecretStd(p, k), Hex(Canon(p, k)), HdSecret(p, k)},
         NEW x \in ParseSecret(text) \cup ParseMasterSecret(text)
  PROVE  x \in {k, Canon(p, k)}
<1>1. x = text[2]
  BY DEF ParseSecret, ParseMasterSecret, FromWif
<1>2. text[2] \in {k, Canon(p, k)} \/ text[1] = "words"
  <2>1. CASE text = SecretStd(p, k)
    <3>1. \/ \E byte, c : text = Wif(byte, k, c)
          \/ text = EthHex(k)
          \/ text = Words(Reduce[k])
          \/ text = Hex(k)
      BY <2>1 DEF SecretStd
    <3>2. QED
      BY <3>1 DEF Wif, EthHex, Words, Hex
  <2>2. CASE text = Hex(Canon(p, k))
    BY <2>2 DEF Hex
  <2>3. CASE text = HdSecret(p, k)
    <3>1. \/ \E byte, c : text = Wif(byte, k, c)
          \/ text = EthHex(k)
          \/ text = Hex(k)
      BY <2>3 DEF HdSecret
    <3>2. QED
      BY <3>1 DEF Wif, EthHex, Hex
  <2>4. QED
    BY <2>1, <2>2, <2>3
<1>3. text[1] # "words"
  BY DEF ParseSecret, ParseMasterSecret, FromWif
<1>4. QED
  BY <1>1, <1>2, <1>3

(* A ticker of the table resolves to its row. *)
LEMMA TableSpec ==
  ASSUME NEW word \in Tickers
  PROVE  /\ ResolveSpec(word) = Ok(The(Lookup(word)))
         /\ IsOk(ResolveSpec(word)) /\ ResolveSpec(word)[2] = The(Lookup(word))
         /\ The(Lookup(word)) \in Rows /\ The(Lookup(word)).ticker = word
<1>1. Lookup(word) # {}
  BY DEF Lookup, Tickers
<1>2. The(Lookup(word)) \in Rows /\ The(Lookup(word)).ticker = word
  BY <1>1, TheIsIn DEF Lookup
<1>3. ResolveSpec(word) = Ok(The(Lookup(word)))
  BY DEF ResolveSpec, TableSpecs
<1>4. QED
  BY <1>2, <1>3 DEF Ok, IsOk

(* A coin that does not resolve is unknown or a token that does not parse. *)
LEMMA ResolveErrors ==
  ASSUME NEW word, ~IsOk(ResolveSpec(word))
  PROVE  ResolveSpec(word)[2] \in {"UnknownCoin", "BadCoinToken"}
<1>1. CASE word \in Tickers
  BY <1>1, TableSpec
<1>2. CASE word \notin Tickers /\ word \in DOMAIN CustomSpecs
  <2>1. ResolveSpec(word) = CustomSpecs[word]
    BY <1>2 DEF ResolveSpec
  <2>2. word \in {tok.text : tok \in Token}
    BY <1>2 DEF CustomSpecs
  <2>3. PICK parsed : CustomSpecs[word] = IF parsed = {} THEN Err("BadCoinToken") ELSE Ok(The(parsed))
    BY <2>2 DEF CustomSpecs
  <2>4. QED
    BY <2>1, <2>3 DEF Err, Ok, IsOk
<1>3. CASE word \notin Tickers /\ word \notin DOMAIN CustomSpecs
  BY <1>3 DEF ResolveSpec, Err
<1>4. QED
  BY <1>1, <1>2, <1>3

\* What the single-key commands may complain of once they have run.
Errors == {"UnknownCoin", "BadCoinToken", "BadPrivKeyHex", "PrivKeyOutOfRange", "UnsupportedTestnet"}

(* address_from_secret_kind either complains, or makes the wallet of a key it read in the text
   for the coin the word resolves to. *)
LEMMA WalletReads ==
  ASSUME NEW word, NEW text, NEW net, NEW legacy,
         \A x \in ParseSecret(text) \cup ParseMasterSecret(text) : x \in Key,
         NEW w, w = WalletFromSecret(word, text, net, legacy),
         NEW spec, spec = ResolveSpec(word)
  PROVE  \/ ~IsOk(w) /\ w[2] \in Errors
         \/ /\ IsOk(w) /\ IsOk(spec)
            /\ \E k \in ParseSecret(text) \cup ParseMasterSecret(text) :
                    IsWalletOf(w[2], spec[2], k, net, legacy)
<1> DEFINE noid == IsOk(spec) /\ spec[2].params.fam = "Noid"
           keys == IF noid THEN ParseMasterSecret(text) ELSE ParseSecret(text)
<1>0. w = IF ~IsOk(spec)  THEN spec
          ELSE IF keys = {} THEN Err("BadPrivKeyHex")
          ELSE IF ~noid /\ The(keys) \notin Scalar THEN Err("PrivKeyOutOfRange")
          ELSE BuildWallet(spec[2], The(keys), net, legacy)
  BY DEF WalletFromSecret
<1>1. CASE ~IsOk(spec)
  <2>1. w = spec
    BY <1>0, <1>1
  <2>2. QED
    BY <1>1, <2>1, ResolveErrors DEF Errors
<1>2. CASE IsOk(spec) /\ keys = {}
  BY <1>0, <1>2 DEF Err, IsOk, Errors
<1>3. CASE IsOk(spec) /\ keys # {} /\ ~noid /\ The(keys) \notin Scalar
  BY <1>0, <1>3 DEF Err, IsOk, Errors
<1>4. CASE IsOk(spec) /\ keys # {} /\ (noid \/ The(keys) \in Scalar)
  <2>1. w = BuildWallet(spec[2], The(keys), net, legacy)
    BY <1>0, <1>4
  <2>2. The(keys) \in ParseSecret(text) \cup ParseMasterSecret(text)
    BY <1>4, TheIsIn
  <2>3. The(keys) \in Key /\ (The(keys) \in Scalar \/ spec[2].params.fam = "Noid")
    BY <1>4, <2>2
  <2>4. CASE IsOk(w)
    <3>1. IsWalletOf(w[2], spec[2], The(keys), net, legacy)
      BY <2>1, <2>3, <2>4, BuildWalletOk, ZenonT(40)
    <3>2. QED
      BY <1>4, <2>2, <2>4, <3>1
  <2>5. CASE ~IsOk(w)
    <3>1. w[2] = "UnsupportedTestnet"
      BY <2>1, <2>3, <2>5, BuildWalletOk
    <3>2. QED
      BY <2>5, <3>1 DEF Errors
  <2>6. QED
    BY <2>4, <2>5
<1>5. QED
  BY <1>1, <1>2, <1>3, <1>4

(* It accepts raw hex of a key in range, and a WIF of one unless the coin is noid, wherever the
   key has an address on that network. *)
LEMMA WalletAccepts ==
  ASSUME NEW word, NEW text, NEW net, NEW legacy, NEW k \in Key,
         IsOk(ResolveSpec(word)),
         k \in Scalar \/ ResolveSpec(word)[2].params.fam = "Noid",
         text[2] = k, text[1] = "hex" \/ (text[1] = "wif" /\ ResolveSpec(word)[2].params.fam # "Noid"),
         Addresses(ResolveSpec(word)[2].params, k, net, legacy) # {}
  PROVE  IsOk(WalletFromSecret(word, text, net, legacy))
<1> DEFINE spec == ResolveSpec(word)
           noid == IsOk(spec) /\ spec[2].params.fam = "Noid"
           keys == IF noid THEN ParseMasterSecret(text) ELSE ParseSecret(text)
<1>1. keys = {k}
  BY DEF ParseMasterSecret, ParseSecret, FromWif
<1>2. The(keys) = k
  BY <1>1, TheOfSingleton
<1>3. WalletFromSecret(word, text, net, legacy) = BuildWallet(spec[2], k, net, legacy)
  BY <1>1, <1>2 DEF WalletFromSecret
<1>4. IsOk(BuildWallet(spec[2], k, net, legacy))
  <2> HIDE DEF spec
  <2>1. QED
    BY BuildWalletOk DEF spec
<1>5. QED
  BY <1>3, <1>4

-----------------------------------------------------------------------------
(* The prefixes of the table: no mainnet prefix is a testnet prefix.       *)
\* Version bytes, human-readable parts and CryptoNote prefixes, by network.
MainVer == {<<0>>, <<48>>, <<71>>, <<30>>, <<60>>, <<82>>, <<50>>, <<33>>, <<45>>, <<38>>, <<28, 184>>}
TestVer == {<<111>>, <<74>>, <<113>>, <<65>>, <<109>>, <<46>>}
MainHrp == {"prl", "bc", "ltc", "vtc", "alpha", "cfx", "kaspa", "karlsen", "spectre"}
TestHrp == {"tprl", "tb", "tltc", "tvtc", "talpha", "cfxtest", "kaspatest", "karlsentest", "spectretest"}
MainNet == {"18", "0x6241d18c0", "0x3ef318"}

\* A row that keeps to them.
VersionsApart(p) == p.ver \in MainVer /\ p.verT \subseteq TestVer
PrefixesApart(p) == p.hrp \in MainHrp /\ p.hrpT \subseteq TestHrp
Apart(p) ==
    \/ p.fam \in NetworkAgnostic \cup {"Ergo"}
    \/ p.fam \in {"Taproot", "KaspaAddr", "Conflux"} /\ PrefixesApart(p)
    \/ p.fam = "SegwitV0" /\ PrefixesApart(p) /\ VersionsApart(p)
    \/ p.fam = "P2pkh" /\ VersionsApart(p) /\ p.compressed
    \/ p.fam = "CryptoNote" /\ p.net \in MainNet /\ p.netT \subseteq {"53"}

(* The networks share no prefix, of any coin. *)
LEMMA NetworksDisjoint ==
  /\ \A x \in MainVer, y \in TestVer : x # y
  /\ MainHrp \cap TestHrp = {} /\ "53" \notin MainNet
<1>1. \A x \in MainVer, y \in TestVer : x # y
  <2>1. \A y \in TestVer : Len(y) = 1 /\ y[1] \in {111, 74, 113, 65, 109, 46}
    BY DEF TestVer
  <2>2. \A x \in MainVer : \/ Len(x) = 2
                           \/ Len(x) = 1 /\ x[1] \in {0, 48, 71, 30, 60, 82, 50, 33, 45, 38}
    <3> TAKE x \in MainVer
    <3>1. CASE x = <<28, 184>>
      BY <3>1
    <3>2. CASE x # <<28, 184>>
      BY <3>2 DEF MainVer
    <3>3. QED
      BY <3>1, <3>2
  <2>3. QED
    BY <2>1, <2>2
<1>2. QED
  BY <1>1 DEF MainHrp, TestHrp, MainNet

(* The Bitcoin-like rows keep to them, one by one; the P2PKH ones use compressed keys, which
   is what HD derivation assumes of them. *)
LEMMA BitcoinRowsApart ==
  ASSUME NEW r \in Range1(BitcoinRows)
  PROVE  Apart(r.params)
<1>1. DOMAIN BitcoinRows = 1..10
  BY DEF BitcoinRows
<1>2. Apart(BitcoinRows[1].params)
  BY DEF BitcoinRows, Row, Apart, Taproot, PrefixesApart, MainHrp, TestHrp
<1>3. Apart(BitcoinRows[2].params)
  BY DEF BitcoinRows, Row, Apart, SegwitV0, PrefixesApart, VersionsApart, MainHrp, TestHrp, MainVer, TestVer
<1>4. Apart(BitcoinRows[3].params)
  BY DEF BitcoinRows, Row, Apart, SegwitV0, PrefixesApart, VersionsApart, MainHrp, TestHrp, MainVer, TestVer
<1>5. Apart(BitcoinRows[4].params)
  BY DEF BitcoinRows, Row, Apart, SegwitV0, PrefixesApart, VersionsApart, MainHrp, TestHrp, MainVer, TestVer
<1>6. Apart(BitcoinRows[5].params)
  BY DEF BitcoinRows, Row, Apart, P2pkh, VersionsApart, MainVer, TestVer
<1>7. Apart(BitcoinRows[6].params)
  BY DEF BitcoinRows, Row, Apart, P2pkh, VersionsApart, MainVer, TestVer
<1>8. Apart(BitcoinRows[7].params)
  BY DEF BitcoinRows, Row, Apart, P2pkh, VersionsApart, MainVer, TestVer
<1>9. Apart(BitcoinRows[8].params)
  BY DEF BitcoinRows, Row, Apart, P2pkh, VersionsApart, MainVer, TestVer
<1>10. Apart(BitcoinRows[9].params)
  BY DEF BitcoinRows, Row, Apart, P2pkh, VersionsApart, MainVer, TestVer
<1>11. Apart(BitcoinRows[10].params)
  BY DEF BitcoinRows, Row, Apart, P2pkh, VersionsApart, MainVer, TestVer
<1>12. \A i \in 1..10 : Apart(BitcoinRows[i].params)
  BY <1>2, <1>3, <1>4, <1>5, <1>6, <1>7, <1>8, <1>9, <1>10, <1>11
<1>13. QED
  BY <1>1, <1>12 DEF Range1

(* So do the rows of the other chains. *)
LEMMA OtherChainRowsApart ==
  ASSUME NEW r \in Range1(OtherChainRows)
  PROVE  Apart(r.params)
<1>1. DOMAIN OtherChainRows = 1..12
  BY DEF OtherChainRows
<1>2. Apart(OtherChainRows[1].params)
  BY DEF OtherChainRows, Row, Apart, Bare, NetworkAgnostic
<1>3. Apart(OtherChainRows[2].params)
  BY DEF OtherChainRows, Row, Apart, Bare, NetworkAgnostic
<1>4. Apart(OtherChainRows[3].params)
  BY DEF OtherChainRows, Row, Apart, Conflux, PrefixesApart, MainHrp, TestHrp
<1>5. Apart(OtherChainRows[4].params)
  BY DEF OtherChainRows, Row, Apart, CryptoNote, MainNet
<1>6. Apart(OtherChainRows[5].params)
  BY DEF OtherChainRows, Row, Apart, CryptoNote, MainNet
<1>7. Apart(OtherChainRows[6].params)
  BY DEF OtherChainRows, Row, Apart, CryptoNote, MainNet
<1>8. Apart(OtherChainRows[7].params)
  BY DEF OtherChainRows, Row, Apart, KaspaAddr, PrefixesApart, MainHrp, TestHrp
<1>9. Apart(OtherChainRows[8].params)
  BY DEF OtherChainRows, Row, Apart, KaspaAddr, PrefixesApart, MainHrp, TestHrp
<1>10. Apart(OtherChainRows[9].params)
  BY DEF OtherChainRows, Row, Apart, KaspaAddr, PrefixesApart, MainHrp, TestHrp
<1>11. Apart(OtherChainRows[10].params)
  BY DEF OtherChainRows, Row, Apart, Bare, NetworkAgnostic
<1>12. Apart(OtherChainRows[11].params)
  BY DEF OtherChainRows, Row, Apart, Bare, NetworkAgnostic
<1>13. Apart(OtherChainRows[12].params)
  BY DEF OtherChainRows, Row, Apart, Bare, NetworkAgnostic
<1>14. \A i \in 1..12 : Apart(OtherChainRows[i].params)
  BY <1>2, <1>3, <1>4, <1>5, <1>6, <1>7, <1>8, <1>9, <1>10, <1>11, <1>12, <1>13
<1>15. QED
  BY <1>1, <1>14 DEF Range1

(* So do the rows added last. *)
LEMMA LateRowsApart ==
  ASSUME NEW r \in Range1(LateRows)
  PROVE  Apart(r.params)
<1>1. DOMAIN LateRows = 1..12
  BY DEF LateRows
<1>2. Apart(LateRows[1].params)
  BY DEF LateRows, Row, Apart, Bare, NetworkAgnostic
<1>3. Apart(LateRows[2].params)
  BY DEF LateRows, Row, Apart, Bare, NetworkAgnostic
<1>4. Apart(LateRows[3].params)
  BY DEF LateRows, Row, Apart, Bare, NetworkAgnostic
<1>5. Apart(LateRows[4].params)
  BY DEF LateRows, Row, Apart, Bare, NetworkAgnostic
<1>6. Apart(LateRows[5].params)
  BY DEF LateRows, Row, Apart, Bare, NetworkAgnostic
<1>7. Apart(LateRows[6].params)
  BY DEF LateRows, Row, Apart, SegwitV0, PrefixesApart, VersionsApart, MainHrp, TestHrp, MainVer, TestVer
<1>8. Apart(LateRows[7].params)
  BY DEF LateRows, Row, Apart, SegwitV0, PrefixesApart, VersionsApart, MainHrp, TestHrp, MainVer, TestVer
<1>9. Apart(LateRows[8].params)
  BY DEF LateRows, Row, Apart, P2pkh, VersionsApart, MainVer, TestVer
<1>10. Apart(LateRows[9].params)
  BY DEF LateRows, Row, Apart, P2pkh, VersionsApart, MainVer, TestVer
<1>11. Apart(LateRows[10].params)
  BY DEF LateRows, Row, Apart, P2pkh, VersionsApart, MainVer, TestVer
<1>12. Apart(LateRows[11].params)
  BY DEF LateRows, Row, Apart, P2pkh, VersionsApart, MainVer, TestVer
<1>13. Apart(LateRows[12].params)
  BY DEF LateRows, Row, Apart, P2pkh, VersionsApart, MainVer, TestVer
<1>14. \A i \in 1..12 : Apart(LateRows[i].params)
  BY <1>2, <1>3, <1>4, <1>5, <1>6, <1>7, <1>8, <1>9, <1>10, <1>11, <1>12, <1>13
<1>15. QED
  BY <1>1, <1>14 DEF Range1

(* So does every row of COINS. *)
LEMMA RowsApart ==
  ASSUME NEW r \in Rows
  PROVE  Apart(r.params)
  BY RowsOfTable, BitcoinRowsApart, OtherChainRowsApart, LateRowsApart

\* The encodings that carry a human-readable part, and an address that carries one of these
\* prefixes.
Script == {"bech32", "bech32m", "cashaddr", "cip37"}
Marked(a, vers, hrps, nets, net) ==
    \/ a[1] = "base58check" /\ a[2] \in vers
    \/ a[1] \in Script /\ a[2] \in hrps
    \/ a[1] = "cryptonote" /\ a[2] \in nets
    \/ a[1] = "ergo" /\ a[2] = net

(* An address carries the prefix its parameters have for the network, or is of a family that
   has one form for every network. *)
LEMMA AddressMark ==
  ASSUME NEW p, NEW k, NEW net \in Network, NEW legacy, NEW a \in Addresses(p, k, net, legacy),
         NEW vers, NEW hrps, NEW nets,
         p.fam \in {"Taproot", "KaspaAddr", "Conflux", "SegwitV0"} => Pick(net, p.hrp, p.hrpT) \subseteq hrps,
         p.fam \in {"SegwitV0", "P2pkh"} => Pick(net, p.ver, p.verT) \subseteq vers,
         p.fam = "CryptoNote" => Pick(net, p.net, p.netT) \subseteq nets,
         p.fam \in Family
  PROVE  \/ p.fam \notin NetworkAgnostic /\ Marked(a, vers, hrps, nets, net)
         \/ p.fam \in NetworkAgnostic /\ a[1] \in {"eip55", "Alephium", "Xdag", "Warthog", "Noid"}
<1> USE DEF Marked, NetworkAgnostic, Script
<1>1. CASE p.fam = "Taproot"
  BY <1>1 DEF Addresses, TaprootAddress
<1>2. CASE p.fam = "KaspaAddr"
  BY <1>2 DEF Addresses, KaspaAddress
<1>3. CASE p.fam = "Conflux"
  BY <1>3 DEF Addresses, ConfluxAddress
<1>4. CASE p.fam = "SegwitV0"
  <2>1. CASE legacy
    <3>1. Addresses(p, k, net, legacy) = {P2pkhAddress(ver, k, TRUE) : ver \in Pick(net, p.ver, p.verT)}
      BY <1>4, <2>1 DEF Addresses
    <3>2. \E ver \in Pick(net, p.ver, p.verT) : \E c : a = P2pkhAddress(ver, k, c)
      BY <3>1, Zenon
    <3>3. QED
      BY <1>4, <3>2 DEF P2pkhAddress
  <2>2. CASE ~legacy
    BY <1>4, <2>2 DEF Addresses, SegwitAddress
  <2>3. QED
    BY <2>1, <2>2
<1>5. CASE p.fam = "P2pkh"
  BY <1>5 DEF Addresses, P2pkhAddress
<1>6. CASE p.fam = "CryptoNote"
  BY <1>6 DEF Addresses, CryptoNoteAddress
<1>7. CASE p.fam = "Ergo"
  BY <1>7 DEF Addresses, ErgoAddress
<1>8. CASE p.fam \in NetworkAgnostic
  <2>1. a \in {EthAddress(k), AlephiumAddress(k), XdagAddress(k), WarthogAddress(k), NoidAddress(k)}
    BY <1>8 DEF Addresses
  <2>2. QED
    BY <1>8, <2>1 DEF EthAddress, AlephiumAddress, XdagAddress, WarthogAddress, NoidAddress
<1>9. QED
  BY <1>1, <1>2, <1>3, <1>4, <1>5, <1>6, <1>7, <1>8 DEF Family

(* The testnet address of a row, of whatever key, is the mainnet address of no row and no key,
   unless its family has one form for every network. *)
LEMMA TestnetApart ==
  ASSUME NEW r \in Rows, r.params.fam \notin NetworkAgnostic, NEW k, NEW legacy,
         NEW a \in Addresses(r.params, k, "Testnet", legacy),
         NEW q \in Rows, NEW x, NEW other
  PROVE  a \notin Addresses(q.params, x, "Mainnet", other)
<1>1. Marked(a, TestVer, TestHrp, {"53"}, "Testnet")
  <2>1. Apart(r.params) /\ r.params.fam \in Family
    BY RowsApart, RowsShaped DEF Shaped
  <2>2. \A m, t : Pick("Testnet", m, t) = t
    BY DEF Pick
  <2>3. "Testnet" \in Network
    BY DEF Network
  <2>4. r.params.fam \in {"Taproot", "KaspaAddr", "Conflux", "SegwitV0"} =>
            Pick("Testnet", r.params.hrp, r.params.hrpT) \subseteq TestHrp
    BY <2>1, <2>2 DEF Apart, PrefixesApart, NetworkAgnostic
  <2>5. r.params.fam \in {"SegwitV0", "P2pkh"} =>
            Pick("Testnet", r.params.ver, r.params.verT) \subseteq TestVer
    BY <2>1, <2>2 DEF Apart, VersionsApart, NetworkAgnostic
  <2>6. r.params.fam = "CryptoNote" => Pick("Testnet", r.params.net, r.params.netT) \subseteq {"53"}
    BY <2>1, <2>2 DEF Apart, NetworkAgnostic
  <2>7. QED
    BY <2>1, <2>3, <2>4, <2>5, <2>6, AddressMark
<1>2. ASSUME a \in Addresses(q.params, x, "Mainnet", other)
      PROVE  \/ Marked(a, MainVer, MainHrp, MainNet, "Mainnet")
             \/ a[1] \in {"eip55", "Alephium", "Xdag", "Warthog", "Noid"}
  <2>1. Apart(q.params) /\ q.params.fam \in Family
    BY RowsApart, RowsShaped DEF Shaped
  <2>2. \A m, t : Pick("Mainnet", m, t) = {m}
    BY DEF Pick
  <2>3. "Mainnet" \in Network
    BY DEF Network
  <2>4. q.params.fam \in {"Taproot", "KaspaAddr", "Conflux", "SegwitV0"} =>
            Pick("Mainnet", q.params.hrp, q.params.hrpT) \subseteq MainHrp
    BY <2>1, <2>2 DEF Apart, PrefixesApart, NetworkAgnostic
  <2>5. q.params.fam \in {"SegwitV0", "P2pkh"} =>
            Pick("Mainnet", q.params.ver, q.params.verT) \subseteq MainVer
    BY <2>1, <2>2 DEF Apart, VersionsApart, NetworkAgnostic
  <2>6. q.params.fam = "CryptoNote" => Pick("Mainnet", q.params.net, q.params.netT) \subseteq MainNet
    BY <2>1, <2>2 DEF Apart, NetworkAgnostic
  <2>7. QED
    BY <1>2, <2>1, <2>3, <2>4, <2>5, <2>6, AddressMark
<1>3. QED
  BY <1>1, <1>2, NetworksDisjoint DEF Marked, Script

-----------------------------------------------------------------------------
(* The coins with HD derivation.                                           *)
(* The loop over COINS is what its two lines say, for every prefix of the table: the function
   exists, by taking the shortest prefix for which it would not. *)
LEMMA SupportedAmongIs ==
  /\ SupportedAmong[0] = << >>
  /\ \A n \in 1..Len(COINS) :
        SupportedAmong[n] = IF HdCapable(COINS[n]) THEN Append(SupportedAmong[n - 1], COINS[n])
                            ELSE SupportedAmong[n - 1]
<1> DEFINE N == Len(COINS)
           Nth(g, n) == IF n = 0 THEN << >>
                        ELSE IF HdCapable(COINS[n]) THEN Append(g[n - 1], COINS[n]) ELSE g[n - 1]
           Upto(m) == \E g : g = [n \in 0..m |-> Nth(g, n)]
           T == {m \in 0..N : ~Upto(m)}
<1>1. N \in Nat
  BY RowsOfTable
<1>2. T = {}
  <2> SUFFICES ASSUME T # {} PROVE FALSE
    OBVIOUS
  <2>1. PICK m \in T : \A k \in T : m <= k
    <3>1. T \in SUBSET Nat
      BY <1>1
    <3> HIDE DEF T
    <3>2. QED
      BY <3>1, LeastNat
  <2>2. m \in 0..N /\ ~Upto(m)
    BY <2>1
  <2>3. CASE m = 0
    <3> DEFINE g == [n \in 0..0 |-> << >>]
    <3>1. \A n \in 0..0 : Nth(g, n) = << >>
      OBVIOUS
    <3>2. g = [n \in 0..0 |-> Nth(g, n)]
      BY <3>1
    <3>3. QED
      BY <2>2, <2>3, <3>2
  <2>4. CASE m # 0
    <3>1. m - 1 \in 0..N /\ m - 1 < m
      BY <1>1, <2>2, <2>4
    <3>2. Upto(m - 1)
      <4>1. ~(m <= m - 1)
        BY <1>1, <2>2
      <4>2. m - 1 \notin T
        <5> HIDE DEF T
        <5>1. QED
          BY <2>1, <4>1
      <4>3. QED
        BY <3>1, <4>2
    <3>3. PICK g : g = [n \in 0..(m - 1) |-> Nth(g, n)]
      BY <3>2
    <3> DEFINE h == [n \in 0..m |-> IF n = m THEN Nth(g, m) ELSE g[n]]
    <3>4. \A n \in 0..m : h[n] = Nth(h, n)
      <4> TAKE n \in 0..m
      <4>1. CASE n = 0
        BY <1>1, <2>2, <2>4, <3>3, <4>1
      <4>2. CASE n # 0
        <5>1. n - 1 \in 0..m /\ n - 1 # m /\ h[n - 1] = g[n - 1]
          BY <1>1, <2>2, <4>2
        <5>2. Nth(h, n) = Nth(g, n)
          BY <5>1
        <5>3. h[n] = Nth(g, n)
          <6>1. CASE n = m
            BY <6>1
          <6>2. CASE n # m
            <7>1. n \in 0..(m - 1)
              BY <1>1, <2>2, <6>2
            <7>2. h[n] = g[n]
              BY <6>2
            <7>3. g[n] = Nth(g, n)
              BY <3>3, <7>1
            <7>4. QED
              BY <7>2, <7>3
          <6>3. QED
            BY <6>1, <6>2
        <5>4. QED
          BY <5>2, <5>3
      <4>3. QED
        BY <4>1, <4>2
    <3>5. h = [n \in 0..m |-> h[n]]
      OBVIOUS
    <3> HIDE DEF h, Nth
    <3>6. h = [n \in 0..m |-> Nth(h, n)]
      BY <3>4, <3>5
    <3>7. QED
      BY <2>2, <3>6
  <2>5. QED
    BY <2>3, <2>4
<1>3. Upto(N)
  BY <1>1, <1>2
<1>4. SupportedAmong = [n \in 0..N |-> Nth(SupportedAmong, n)]
  BY <1>3, ZenonT(40) DEF SupportedAmong
<1>5. 0 \in 0..N /\ SupportedAmong[0] = << >>
  BY <1>1, <1>4
<1>6. \A n \in 1..N : SupportedAmong[n] = Nth(SupportedAmong, n)
  <2> HIDE DEF Nth
  <2>1. QED
    BY <1>1, <1>4
<1>7. QED
  BY <1>1, <1>5, <1>6

(* supported() returns rows of the table, and the HD-capable ones among them. *)
LEMMA SupportedIs ==
  /\ Supported \in Seq(Rows)
  /\ \A r \in Rows : r \in Range1(Supported) <=> HdCapable(r)
<1> DEFINE N == Len(COINS)
           Among(n) == {COINS[i] : i \in {j \in 1..n : HdCapable(COINS[j])}}
           Right(n) == SupportedAmong[n] \in Seq(Rows) /\ Range1(SupportedAmong[n]) = Among(n)
           T == {n \in 0..N : ~Right(n)}
<1>1. N \in Nat /\ DOMAIN COINS = 1..N /\ \A n \in 1..N : COINS[n] \in Rows
  BY RowsOfTable, LenProperties, ElementOfSeq
<1>2. Right(0)
  <2>1. SupportedAmong[0] = << >>
    BY SupportedAmongIs
  <2>2. << >> \in Seq(Rows) /\ Range1(<< >>) = {}
    BY DEF Range1
  <2>3. Among(0) = {}
    OBVIOUS
  <2>4. QED
    BY <2>1, <2>2, <2>3
<1>3. ASSUME NEW n \in 1..N, Right(n - 1)
      PROVE  Right(n)
  <2>1. CASE HdCapable(COINS[n])
    <3>1. SupportedAmong[n] = Append(SupportedAmong[n - 1], COINS[n])
      BY <1>3, <2>1, SupportedAmongIs
    <3>2. SupportedAmong[n] \in Seq(Rows) /\ Range1(SupportedAmong[n]) = Among(n - 1) \cup {COINS[n]}
      BY <1>1, <1>3, <3>1, RangeOfAppend
    <3>3. Among(n) = Among(n - 1) \cup {COINS[n]}
      BY <2>1
    <3>4. QED
      BY <3>2, <3>3
  <2>2. CASE ~HdCapable(COINS[n])
    <3>1. SupportedAmong[n] = SupportedAmong[n - 1]
      BY <1>3, <2>2, SupportedAmongIs
    <3>2. Among(n) = Among(n - 1)
      BY <2>2
    <3>3. QED
      BY <1>3, <3>1, <3>2
  <2>3. QED
    BY <2>1, <2>2
<1> HIDE DEF Right
<1>4. T = {}
  <2> SUFFICES ASSUME T # {} PROVE FALSE
    OBVIOUS
  <2>1. T \in SUBSET Nat
    BY <1>1
  <2>2. PICK m \in T : \A k \in T : m <= k
    <3> HIDE DEF T
    <3>1. QED
      BY <2>1, LeastNat
  <2>3. m \in 0..N /\ ~Right(m) /\ m # 0
    BY <1>2, <2>2
  <2>4. m \in 1..N /\ m - 1 \in 0..N /\ ~(m <= m - 1)
    BY <1>1, <2>3
  <2>5. m - 1 \notin T
    <3> HIDE DEF T
    <3>1. QED
      BY <2>2, <2>4
  <2>6. Right(m - 1)
    BY <2>4, <2>5
  <2>7. QED
    BY <1>3, <2>3, <2>4, <2>6
<1>5. Right(N)
  BY <1>1, <1>4
<1>6. Supported \in Seq(Rows) /\ Range1(Supported) = Among(N)
  BY <1>5 DEF Supported, Right
<1>7. Rows = {COINS[i] : i \in 1..N}
  BY <1>1 DEF Rows, Range1
<1>8. QED
  BY <1>6, <1>7

(* An HD-capable row has a native purpose, and supports it. *)
LEMMA NativeSupported ==
  ASSUME NEW spec, HdCapable(spec)
  PROVE  /\ The(NativePurpose(spec)) \in NativePurpose(spec)
         /\ NativePurpose(spec) \subseteq Purpose
         /\ \A purpose \in NativePurpose(spec) : Supports(spec, purpose)
<1>1. NativePurpose(spec) # {}
  BY DEF HdCapable
<1>2. \A purpose \in NativePurpose(spec) : Supports(spec, purpose) /\ purpose \in Purpose
  <2>1. spec.hd_slip44 # {} /\ spec.params.fam \in {"SegwitV0", "Taproot", "P2pkh", "Ethereum"}
    BY DEF HdCapable, NativePurpose
  <2>2. CASE spec.params.fam = "SegwitV0"
    <3>1. NativePurpose(spec) = {84}
      BY <2>2 DEF NativePurpose
    <3>2. QED
      BY <2>1, <2>2, <3>1 DEF Supports, Purpose
  <2>3. CASE spec.params.fam = "Taproot"
    <3>1. NativePurpose(spec) = {86}
      BY <2>3 DEF NativePurpose
    <3>2. QED
      BY <2>1, <2>3, <3>1 DEF Supports, Purpose
  <2>4. CASE spec.params.fam \in {"P2pkh", "Ethereum"}
    <3>1. NativePurpose(spec) = {44}
      BY <2>4 DEF NativePurpose
    <3>2. QED
      BY <2>1, <2>4, <3>1 DEF Supports, HasP2pkhParts, Purpose
  <2>5. QED
    BY <2>1, <2>2, <2>3, <2>4
<1>3. QED
  BY <1>1, <1>2, TheIsIn

(* derive either complains, for one of four reasons, or returns the address and secret of the
   child at the path it was asked for. *)
LEMMA DeriveIs ==
  ASSUME NEW p, NEW pass, NEW spec, NEW purpose, NEW account, NEW index,
         NEW path, path = <<purpose, spec.hd_slip44, account, index>>,
         NEW k, k = Child(p, pass, path),
         NEW d, d = Derive(p, pass, spec, purpose, account, index)
  PROVE  \/ /\ ~IsOk(d) /\ d[2] \in {"UnknownCoin", "UnsupportedPurpose", "Derivation"}
            /\ \/ spec.hd_slip44 = {} \/ ~Supports(spec, purpose)
               \/ ~({account, index} \subseteq ChildNumber) \/ k \notin Scalar
         \/ /\ IsOk(d) /\ Supports(spec, purpose) /\ k \in Scalar /\ {account, index} \subseteq ChildNumber
            /\ d[2].coin = spec.ticker /\ d[2].path = path
            /\ d[2].address = HdAddress(spec.params, purpose, k)
            /\ d[2].secret = HdSecret(spec.params, k)
<1> DEFINE a == [coin    |-> spec.ticker,
                 address |-> HdAddress(spec.params, purpose, k),
                 secret  |-> HdSecret(spec.params, k),
                 path    |-> path]
<1>1. d = IF spec.hd_slip44 = {} THEN Err("UnknownCoin")
          ELSE IF ~Supports(spec, purpose) THEN Err("UnsupportedPurpose")
          ELSE IF ~({account, index} \subseteq ChildNumber) \/ k \notin Scalar THEN Err("Derivation")
          ELSE Ok(a)
  BY DEF Derive
<1>2. CASE spec.hd_slip44 = {}
  BY <1>1, <1>2 DEF Err, IsOk
<1>3. CASE spec.hd_slip44 # {} /\ ~Supports(spec, purpose)
  BY <1>1, <1>3 DEF Err, IsOk
<1>4. CASE /\ spec.hd_slip44 # {} /\ Supports(spec, purpose)
           /\ ~({account, index} \subseteq ChildNumber) \/ k \notin Scalar
  BY <1>1, <1>4 DEF Err, IsOk
<1>5. CASE /\ spec.hd_slip44 # {} /\ Supports(spec, purpose)
           /\ {account, index} \subseteq ChildNumber /\ k \in Scalar
  <2>1. d = <<"Ok", a>>
    BY <1>1, <1>5 DEF Ok
  <2>2. /\ a.coin = spec.ticker /\ a.path = path /\ a.address = HdAddress(spec.params, purpose, k)
        /\ a.secret = HdSecret(spec.params, k)
    OBVIOUS
  <2> HIDE DEF a
  <2>3. QED
    BY <1>5, <2>1, <2>2 DEF IsOk
<1>6. QED
  BY <1>2, <1>3, <1>4, <1>5

(* The HD address of a row is the one the single-key commands have for that child: native
   purposes without --legacy, BIP44 of a SegWit coin with it. *)
LEMMA HdAddressIsSingle ==
  ASSUME NEW r \in Rows, NEW purpose \in Purpose, Supports(r, purpose), HdCapable(r), NEW k,
         purpose = 86 => r.params.fam = "Taproot",
         NEW legacy \in BOOLEAN, r.params.fam = "SegwitV0" => (legacy <=> purpose = 44)
  PROVE  Addresses(r.params, k, "Mainnet", legacy) = {HdAddress(r.params, purpose, k)}
<1> DEFINE p == r.params
<1>0. \A m, t : Pick("Mainnet", m, t) = {m}
  BY DEF Pick
<1>c. ASSUME NEW c
      PROVE  {P2pkhAddress(ver, k, c) : ver \in Pick("Mainnet", p.ver, p.verT)} = {P2pkhAddress(p.ver, k, c)}
  BY <1>0
<1>1. p.fam \in {"Taproot", "SegwitV0", "P2pkh", "Ethereum"}
  BY DEF HdCapable, NativePurpose
<1>2. CASE p.fam = "Taproot"
  <2>1. purpose = 86
    BY <1>2 DEF Supports, HasP2pkhParts, Purpose
  <2>2. HdAddress(p, purpose, k) = TaprootAddress(p.hrp, k)
    BY <2>1 DEF HdAddress
  <2>3. QED
    BY <1>0, <1>2, <2>2 DEF Addresses
<1>3. CASE p.fam = "SegwitV0"
  <2>1. CASE purpose = 44
    <3>1. HdAddress(p, purpose, k) = P2pkhAddress(p.ver, k, TRUE)
      BY <1>3, <2>1 DEF HdAddress
    <3>2. Addresses(p, k, "Mainnet", legacy) = {P2pkhAddress(ver, k, TRUE) : ver \in Pick("Mainnet", p.ver, p.verT)}
      BY <1>3, <2>1 DEF Addresses
    <3>3. QED
      BY <1>c, <3>1, <3>2, Zenon
  <2>2. CASE purpose = 84
    BY <1>0, <1>3, <2>2 DEF HdAddress, Addresses
  <2>3. QED
    BY <1>3, <2>1, <2>2 DEF Purpose
<1>4. CASE p.fam = "P2pkh"
  <2>1. purpose = 44
    BY <1>4 DEF Supports, HasP2pkhParts, Purpose
  <2>2. HdAddress(p, purpose, k) = P2pkhAddress(p.ver, k, TRUE)
    BY <1>4, <2>1 DEF HdAddress
  <2>3. Addresses(p, k, "Mainnet", legacy) = {P2pkhAddress(ver, k, p.compressed) : ver \in Pick("Mainnet", p.ver, p.verT)}
    BY <1>4 DEF Addresses
  <2>4. p.compressed = TRUE
    BY <1>4, RowsApart, Zenon DEF Apart, NetworkAgnostic
  <2>5. QED
    BY <1>c, <2>2, <2>3, <2>4, Zenon
<1>5. CASE p.fam = "Ethereum"
  <2>1. purpose = 44
    BY <1>5 DEF Supports, HasP2pkhParts, Purpose
  <2>2. QED
    BY <1>5, <2>1 DEF HdAddress, Addresses
<1>6. QED
  BY <1>1, <1>2, <1>3, <1>4, <1>5

(* What a row exports is the child key itself, as 0x hex for Ethereum alone. *)
LEMMA HdSecretTag ==
  ASSUME NEW p, NEW k, NEW s, s = HdSecret(p, k)
  PROVE  s[2] = k /\ s[1] \in {"0x", "hex", "wif"} /\ (s[1] = "0x" <=> p.fam = "Ethereum")
<1>1. \/ p.fam = "Ethereum" /\ s = EthHex(k)
      \/ p.fam # "Ethereum" /\ s = Hex(k)
      \/ p.fam # "Ethereum" /\ \E byte, c : s = Wif(byte, k, c)
  BY DEF HdSecret
<1>2. QED
  BY <1>1 DEF EthHex, Hex, Wif
=============================================================================
