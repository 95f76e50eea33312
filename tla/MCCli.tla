------------------------------- MODULE MCCli --------------------------------
(***************************************************************************)
(* Cli.tla on small keys.  A key is two digits in base 3, read big-endian  *)
(* by secp256k1 and little-endian by ed25519.  n = 6 and l = 3 leave both  *)
(* ends of every range inside: 0, keys from n up, keys from l up, and      *)
(* canonical ed25519 scalars that are no secp256k1 scalar.                 *)
(***************************************************************************)
EXTENDS Cli

Base == 3
n    == 6
l    == 3

Raw(v)     == <<"raw", v>>
BigEndian    == 0..(Base * Base - 1)
LittleEndian(v) == (v % Base) * Base + v \div Base

CONSTANTS
    Phrase1, Phrase2,    \* two phrases
    Passphrases,         \* the passphrases typed
    CoinTypes            \* the SLIP-44 types of the coins derived

MCPhrase == {Phrase1, Phrase2}
MCChild(p, pass, path) == <<"child", p, pass, path>>
Children == {MCChild(p, pass, <<purpose, {slip44}, account, index>>) :
                p \in MCPhrase, pass \in Passphrases, purpose \in Purpose, slip44 \in CoinTypes,
                account \in ChildNumber, index \in ChildNumber}

MCKey    == {Raw(v) : v \in BigEndian} \cup Children
MCScalar == {Raw(v) : v \in 1..(n - 1)} \cup Children
MCReduce == [k \in MCKey |-> IF k[1] = "raw" THEN Raw(LittleEndian(LittleEndian(k[2]) % l)) ELSE k]
MCEvenY  == [k \in MCScalar |-> IF k[1] = "raw" THEN Raw(IF 2 * k[2] <= n THEN k[2] ELSE n - k[2]) ELSE k]
\* Any function will do: the view key is a hash of the spend key, reduced.
MCViewKey == [k \in MCKey |-> MCReduce[IF k[1] = "raw" THEN Raw((5 * k[2] + 3) % (Base * Base)) ELSE k]]

\* `p2pkh:ver=0,wif=128,uncompressed`, and a token with a bad integer.
Uncompressed == [text |-> "p2pkh:ver=0,wif=128,uncompressed", fam |-> "p2pkh", flags |-> {"uncompressed"},
                 kv |-> <<<<"ver", Val("0", 0)>>, <<"wif", Val("128", 128)>>>>]
BadToken     == [text |-> "segwit:hrp=x,wif=999", fam |-> "segwit", flags |-> {},
                 kv |-> <<<<"hrp", Val("x", NaN)>>, <<"wif", Val("999", 999)>>>>]
MCToken == {Uncompressed, BadToken}

Words1(words) == [i \in DOMAIN words |-> W(words[i])]
CoinWords == {"zec", "eth", "xmr", "kas", "noid", Uncompressed.text}

\* The coins with the options typed for them: every pair, where both mean something.
CoinOptions ==
    {<<"--coin", "ltc">> \o opts :
        opts \in {<< >>, <<"--testnet">>, <<"--legacy">>, <<"--legacy", "--testnet">>}}
    \cup {<<"--coin", c>> \o opts : c \in CoinWords, opts \in {<< >>, <<"--testnet">>}}
    \cup {<<"--coin", "xmr", "--legacy">>, <<"--legacy", "--coin", "eth">>}
NewTemplates == {Words1(<<"new">> \o opts) : opts \in CoinOptions}
RestoreTemplates == {Words1(<<"restore">> \o opts) \o <<SecretHole>> : opts \in CoinOptions}
OddTemplates ==
    {<< >>} \cup {Words1(words) : words \in {
        <<"new">>, <<"new", "--coin">>, <<"list">>, <<"help">>, <<"restore", "--coin", "ltc">>,
        <<"new", "--coin", BadToken.text>>, <<"new", "--coin", "--testnet">>}}
    \cup {Words1(<<"inspect">>) \o <<SecretHole>> \o Words1(<<"--testnet", "--coin", "ltc">>),
          Words1(<<"restore", "--verbose", "--coin", "ltc">>) \o <<SecretHole>>}
KeyTemplates == NewTemplates \cup RestoreTemplates \cup OddTemplates
KeyTyped == {<<"padded", Raw(3)>>, <<"spaced", Raw(0)>>, <<"junk">>}

HdPassphrases == {"", "tea", "--purpose", "--mnemonic"}
HdCoinTypes   == UNION {spec.hd_slip44 : spec \in Rows}
HdOptions == {<< >>, <<"--purpose", "bip44">>, <<"--purpose", "taproot">>, <<"--account", "7">>,
              <<"--passphrase", "tea">>, <<"--passphrase", "--purpose", "84">>, <<"--passphrase">>}
HdSelections ==
    {coin \o opts : coin \in {<<"--all">>, <<"--coin", "ltc">>, <<"--coin", "eth">>}, opts \in HdOptions}
    \cup {<< >>, <<"--coin", "xmr">>, <<"--all", "--testnet">>, <<"--all", "--purpose", "bip49">>,
          <<"--all", "--account", "x">>, <<"--coin", "ltc", "--index", "2147483648">>}
HdTemplates ==
    {Words1(<<"new", "--hd">> \o opts) : opts \in HdSelections}
    \cup {Words1(<<"restore">> \o opts \o <<"--mnemonic">>) \o <<PhraseHole>> : opts \in HdSelections}
    \cup {Words1(<<"restore", "--coin", c>> \o opts) \o <<SecretHole>> :
            c \in {"ltc", "doge"}, opts \in {<< >>, <<"--legacy">>}}
\* The command lines of the documents that the code does not honour.
TaprootTemplates == {Words1(<<"new", "--hd", "--all", "--purpose", "taproot">>)}
MintingRestores  == {Words1(<<"restore", "--coin", "ltc", "--mnemonic">>)}
ViewingRestores  == {Words1(<<"restore", "--coin", "xmr">>) \o <<SecretHole>>}
EthTemplates     == {Words1(<<"new", "--coin", "eth">>),
                     Words1(<<"restore", "--coin", "eth">>) \o <<SecretHole>>}
HdTyped  == {<<"phrase", Phrase2>>, <<"junk">>}
=============================================================================
