------------------------------ MODULE MCPayout ------------------------------
(***************************************************************************)
(* Payout.tla with two keys: the hash160 of one opens with Zcash's P2PKH   *)
(* version, that of the other with Bitcoin's.                              *)
(***************************************************************************)
EXTENDS Payout, TLC

CONSTANTS k1, k2

MCKey     == {k1, k2}
MCId      == [k \in MCKey |-> k]
MCHash160 == [k \in MCKey |-> IF k = k1 THEN <<28, 184>> ELSE <<0, 111>>]
MCPhrase  == {"phrase"}
MCChild(p, pass, path) == k1

Custom(fam, text, kv, flags) == [text |-> text, fam |-> fam, kv |-> kv, flags |-> flags]
Byte(key, v)   == <<key, Val(ToString(v), v)>>
Name(key, v)   == <<key, Val(v, NaN)>>

\* A version and two WIF bytes that open other families' addresses, names that are
\* other families' prefixes, and a Monero subaddress prefix.
MCToken == {
    Custom("p2pkh", "p2pkh:ver=0,wif=17", <<Byte("ver", 0), Byte("wif", 17)>>, {}),
    Custom("p2pkh", "p2pkh:ver=1,wif=0,uncompressed", <<Byte("ver", 1), Byte("wif", 0)>>, {"uncompressed"}),
    Custom("segwit", "segwit:hrp=o,wif=1", <<Name("hrp", "o"), Byte("wif", 1)>>, {}),
    Custom("taproot", "taproot:hrp=o", <<Name("hrp", "o")>>, {}),
    Custom("kaspa", "kaspa:prefix=cfx", <<Name("prefix", "cfx")>>, {}),
    Custom("conflux", "conflux:prefix=kaspa", <<Name("prefix", "kaspa")>>, {}),
    Custom("cryptonote", "cryptonote:net=42", <<Byte("net", 42)>>, {}),
    Custom("segwit", "segwit:hrp=bc,wif=999", <<Name("hrp", "bc"), Byte("wif", 999)>>, {})}

=============================================================================
