------------------------------- MODULE Coins -------------------------------
(***************************************************************************)
(* The coin table and the runtime coin-token grammar of the                *)
(* `forager-addr` crate (crates/addr/src/coins.rs).                        *)
(*                                                                         *)
(* An Option<T> of the source is a set with at most one element, so that a *)
(* missing parameter is {} and `pick` is a choice of set.  Network         *)
(* prefixes of CryptoNote rows only ever get compared, and one of them     *)
(* does not fit a TLC integer, so they are written as strings.             *)
(***************************************************************************)
EXTENDS Integers, Sequences, FiniteSets

Range1(s) == {s[i] : i \in DOMAIN s}

-----------------------------------------------------------------------------
(* FamilyParams, one constructor per variant. *)

Family == {"P2pkh", "SegwitV0", "Taproot", "Ethereum", "CryptoNote", "KaspaAddr",
           "Ergo", "Alephium", "Xdag", "Warthog", "Conflux", "Noid"}

P2pkh(ver, verT, wif, compressed) ==
    [fam |-> "P2pkh", ver |-> ver, verT |-> verT, wif |-> wif, compressed |-> compressed]
SegwitV0(hrp, hrpT, wif, ver, verT) ==
    [fam |-> "SegwitV0", hrp |-> hrp, hrpT |-> hrpT, wif |-> wif, ver |-> ver, verT |-> verT]
Taproot(hrp, hrpT)    == [fam |-> "Taproot", hrp |-> hrp, hrpT |-> hrpT]
CryptoNote(net, netT) == [fam |-> "CryptoNote", net |-> net, netT |-> netT]
KaspaAddr(hrp, hrpT)  == [fam |-> "KaspaAddr", hrp |-> hrp, hrpT |-> hrpT]
Conflux(hrp, hrpT)    == [fam |-> "Conflux", hrp |-> hrp, hrpT |-> {hrpT}]
\* The variants without parameters: Ethereum, Ergo, Alephium, Xdag, Warthog, Noid.
Bare(fam) == [fam |-> fam]

\* FamilyParams::p2pkh_parts: the families with a base58 P2PKH form.
HasP2pkhParts(p) == p.fam \in {"P2pkh", "SegwitV0"}

\* FamilyParams::p2pkh_version_prefixes: mainnet, then testnet where there is one.
P2pkhVersionPrefixes(p) == IF HasP2pkhParts(p) THEN {p.ver} \cup p.verT ELSE {}

-----------------------------------------------------------------------------
(* COINS, in the order of the source. *)

Row(ticker, slip44, params) == [ticker |-> ticker, hd_slip44 |-> slip44, params |-> params]

BitcoinRows == <<
    Row("pearl", {},     Taproot("prl", {"tprl"})),
    Row("btc",   {0},    SegwitV0("bc", {"tb"}, 128, <<0>>, {<<111>>})),
    Row("ltc",   {2},    SegwitV0("ltc", {"tltc"}, 176, <<48>>, {<<111>>})),
    Row("vtc",   {28},   SegwitV0("vtc", {"tvtc"}, 128, <<71>>, {<<74>>})),
    Row("doge",  {3},    P2pkh(<<30>>, {<<113>>}, 158, TRUE)),
    Row("rvn",   {175},  P2pkh(<<60>>, {<<111>>}, 128, TRUE)),
    Row("firo",  {136},  P2pkh(<<82>>, {<<65>>}, 210, TRUE)),
    Row("mewc",  {1669}, P2pkh(<<50>>, {<<109>>}, 112, TRUE)),
    Row("evr",   {},     P2pkh(<<33>>, {<<111>>}, 128, TRUE)),
    Row("kad",   {},     P2pkh(<<45>>, {<<46>>}, 176, TRUE)) >>

OtherChainRows == <<
    Row("etc",  {61},  Bare("Ethereum")),
    Row("eth",  {60},  Bare("Ethereum")),
    Row("cfx",  {},    Conflux("cfx", "cfxtest")),
    Row("xmr",  {},    CryptoNote("18", {"53"})),
    Row("zeph", {},    CryptoNote("0x6241d18c0", {})),
    Row("sal",  {},    CryptoNote("0x3ef318", {})),
    Row("kas",  {},    KaspaAddr("kaspa", {"kaspatest"})),
    Row("kls",  {},    KaspaAddr("karlsen", {"karlsentest"})),
    Row("spr",  {},    KaspaAddr("spectre", {"spectretest"})),
    Row("erg",  {},    Bare("Ergo")),
    Row("alph", {},    Bare("Alephium")),
    Row("ubq",  {108}, Bare("Ethereum")) >>

LateRows == <<
    Row("ethw",  {},    Bare("Ethereum")),
    Row("octa",  {},    Bare("Ethereum")),
    Row("xdag",  {},    Bare("Xdag")),
    Row("wart",  {},    Bare("Warthog")),
    Row("noid",  {},    Bare("Noid")),
    Row("scash", {},    SegwitV0("bc", {"tb"}, 128, <<0>>, {<<111>>})),
    Row("alpha", {},    SegwitV0("alpha", {"talpha"}, 128, <<0>>, {<<111>>})),
    Row("zec",   {133}, P2pkh(<<28, 184>>, {}, 128, TRUE)),
    Row("btg",   {156}, P2pkh(<<38>>, {}, 128, TRUE)),
    Row("kmd",   {141}, P2pkh(<<60>>, {}, 188, TRUE)),
    Row("btcz",  {177}, P2pkh(<<28, 184>>, {}, 128, TRUE)),
    Row("zer",   {323}, P2pkh(<<28, 184>>, {}, 128, TRUE)) >>

COINS == BitcoinRows \o OtherChainRows \o LateRows

Rows    == Range1(COINS)
Tickers == {c.ticker : c \in Rows}

\* coins::lookup, on a ticker already folded to lower case: {} or the one row.
Lookup(ticker) == {c \in Rows : c.ticker = ticker}

-----------------------------------------------------------------------------
(* The `family:params` token.  A token is its family, its `key=value`      *)
(* pairs in order and its bare flags.  A value is the text typed and the   *)
(* integer it reads as: NaN for text `parse_uint` refuses.                 *)

NaN == -1
Val(text, int) == [text |-> text, int |-> int]

TOKEN_GRAMMAR == [
    p2pkh      |-> [keys |-> {"ver", "wif"},        flags |-> {"uncompressed"}, caveat |-> TRUE],
    segwit     |-> [keys |-> {"hrp", "wif", "ver"}, flags |-> {}, caveat |-> TRUE],
    taproot    |-> [keys |-> {"hrp"},               flags |-> {}, caveat |-> FALSE],
    cryptonote |-> [keys |-> {"net", "net_test"},   flags |-> {}, caveat |-> FALSE],
    kaspa      |-> [keys |-> {"prefix"},            flags |-> {}, caveat |-> FALSE],
    ethereum   |-> [keys |-> {}, flags |-> {}, caveat |-> FALSE],
    conflux    |-> [keys |-> {"prefix"},            flags |-> {}, caveat |-> TRUE],
    ergo       |-> [keys |-> {}, flags |-> {}, caveat |-> FALSE],
    alephium   |-> [keys |-> {}, flags |-> {}, caveat |-> FALSE],
    xdag       |-> [keys |-> {}, flags |-> {}, caveat |-> FALSE],
    warthog    |-> [keys |-> {}, flags |-> {}, caveat |-> FALSE],
    noid       |-> [keys |-> {}, flags |-> {}, caveat |-> FALSE]]

\* The `get` closure: the value of the FIRST pair with that key, if any.
Get(tok, key) ==
    LET at == {i \in DOMAIN tok.kv : tok.kv[i][1] = key}
    IN  {tok.kv[i][2] : i \in {j \in at : \A k \in at : j <= k}}

HasUint(tok, key) == \E v \in Get(tok, key) : v.int # NaN
HasByte(tok, key) == \E v \in Get(tok, key) : v.int \in 0..255
Has(tok, key)     == Get(tok, key) # {}
The(S)            == CHOOSE x \in S : TRUE
ByteOf(tok, key)  == The(Get(tok, key)).int
TextOf(tok, key)  == The(Get(tok, key)).text

\* The family is in the grammar and every key and flag is one it declares.
InGrammar(tok) ==
    /\ tok.fam \in DOMAIN TOKEN_GRAMMAR
    /\ \A i \in DOMAIN tok.kv : tok.kv[i][1] \in TOKEN_GRAMMAR[tok.fam].keys
    /\ tok.flags \subseteq TOKEN_GRAMMAR[tok.fam].flags

\* Each family's required parameters are present and its integers in range; an
\* optional parameter may be absent, never malformed.
ParamsValid(tok) ==
    CASE tok.fam = "p2pkh"      -> HasByte(tok, "ver") /\ HasByte(tok, "wif")
      [] tok.fam = "segwit"     -> /\ Has(tok, "hrp") /\ HasByte(tok, "wif")
                                   /\ Has(tok, "ver") => HasByte(tok, "ver")
      [] tok.fam = "taproot"    -> Has(tok, "hrp")
      [] tok.fam = "cryptonote" -> /\ HasUint(tok, "net")
                                   /\ Has(tok, "net_test") => HasUint(tok, "net_test")
      [] tok.fam \in {"kaspa", "conflux"} -> Has(tok, "prefix")
      [] OTHER -> TRUE

TokenOk(tok) == InGrammar(tok) /\ ParamsValid(tok)

\* The parameters a well-formed token yields.
TokenParams(tok) ==
    CASE tok.fam = "p2pkh" ->
            P2pkh(<<ByteOf(tok, "ver")>>, {}, ByteOf(tok, "wif"), "uncompressed" \notin tok.flags)
      [] tok.fam = "segwit" ->
            SegwitV0(TextOf(tok, "hrp"), {}, ByteOf(tok, "wif"),
                     <<IF Has(tok, "ver") THEN ByteOf(tok, "ver") ELSE 0>>, {})
      [] tok.fam = "taproot"    -> Taproot(TextOf(tok, "hrp"), {})
      [] tok.fam = "conflux"    -> Conflux(TextOf(tok, "prefix"), TextOf(tok, "prefix"))
      [] tok.fam = "cryptonote" -> CryptoNote(TextOf(tok, "net"), {v.text : v \in Get(tok, "net_test")})
      [] tok.fam = "kaspa"      -> KaspaAddr(TextOf(tok, "prefix"), {})
      [] tok.fam = "ethereum"   -> Bare("Ethereum")
      [] tok.fam = "ergo"       -> Bare("Ergo")
      [] tok.fam = "alephium"   -> Bare("Alephium")
      [] tok.fam = "xdag"       -> Bare("Xdag")
      [] tok.fam = "warthog"    -> Bare("Warthog")
      [] tok.fam = "noid"       -> Bare("Noid")

\* parse_token: {} for an error, else the ad-hoc row; HD is never offered for one.
ParseToken(tok) == IF TokenOk(tok) THEN {Row(tok.text, {}, TokenParams(tok))} ELSE {}

\* The values parse_token interns, in order, with the pool each goes to.  A token
\* refused half-way has already interned what came before the refusal.
InternPlan(tok) ==
    LET bytes(key) == <<<<"bytes", ByteOf(tok, key)>>>>
        ticker     == <<<<"str", tok.text>>, <<"str", "custom " \o tok.fam>>>>
        str(key)   == <<<<"str", TextOf(tok, key)>>>>
        params     ==
            CASE tok.fam = "p2pkh" /\ HasByte(tok, "ver") -> bytes("ver")
              [] tok.fam = "segwit" /\ Has(tok, "hrp") ->
                    str("hrp") \o
                    IF ~HasByte(tok, "wif") THEN << >>
                    ELSE IF ~Has(tok, "ver") THEN <<<<"bytes", 0>>>>
                    ELSE IF HasByte(tok, "ver") THEN bytes("ver") ELSE << >>
              [] tok.fam = "taproot" /\ Has(tok, "hrp") -> str("hrp")
              [] tok.fam \in {"kaspa", "conflux"} /\ Has(tok, "prefix") -> str("prefix")
              [] OTHER -> << >>
    IN  IF ~InGrammar(tok) THEN << >>
        ELSE params \o (IF ParamsValid(tok) THEN ticker ELSE << >>)

=============================================================================
