------------------------------ MODULE MCCodecs ------------------------------
(***************************************************************************)
(* Codecs.tla with small radices that keep the edges of the real ones: a   *)
(* byte is no power of a digit and no whole number of groups, block        *)
(* lengths leave gaps, 2^64 is no power of a varint group.                 *)
(***************************************************************************)
EXTENDS Codecs

LOCAL INSTANCE SequencesExt

B == INSTANCE Bits

Under(n) == 0..(n - 1)

MCEncLen == <<2, 4>>            \* 8 <= 3^2, 64 <= 3^4 and 64 > 3^3: no block has 3 digits

\* bech32: four groups, and besides them a separator, a capital and a space.
MCCharset == <<"q", "p", "2", "3">>
Letters   == {"q", "p"}
Other     == {"2", "3", "1", " ", "Q", ":", "type."}
MCLower   == [c \in Letters \cup Other |-> IF c = "Q" THEN "q" ELSE c]
MCIsUpper(c)    == c = "Q"
MCIsLower(c)    == c \in Letters
MCPrintable(c)  == c # " "
MCPrefixChar(c) == c \in {"q", "p", "2", "3", "1"}
MCMask    == MCLower

\* A checksum of one group in which every character and its place count.
Weight == [c \in DOMAIN MCLower |-> CASE c \in {"q", "Q"} -> 1 [] c = "p" -> 2 [] c = "2" -> 3 [] OTHER -> 0]
MCPolymod(prefix, groups) ==
    <<FoldLeft(LAMBDA chk, g : (3 * chk + g + 1) % 4,
               FoldLeft(LAMBDA chk, c : (3 * chk + Weight[c] + 1) % 4, 1, prefix), groups)>>

MCSha256d(body) == <<FoldLeft(LAMBDA n, b : (3 * n + b + 1) % 8, 5, body)>>
MCDigest(entropy) == FoldLeft(LAMBDA n, b : (3 * n + b + 1) % 8, 5, entropy)
MCCrc(words)      == FoldLeft(LAMBDA n, w : 2 * n + w, 0, words)

-----------------------------------------------------------------------------
(* The field of NOID: the one of 2^16 elements that all its constants lie in, pairs of bytes  *)
(* over x^2 = x + 32, and as polynomials modulo x^16 + x^5 + x^3 + x + 1.                      *)

Word(n) == B!BitsOf(n, 16)
MCToFlat  == B!Evaluated([i \in 1..16 |-> Word(<<1, 16845, 57388, 51255, 55560, 36437, 32397, 30837,
                         41868, 42498, 5987, 41948, 52110, 6537, 11038, 8187>>[i])])
MCToTower == B!Evaluated([i \in 1..16 |-> Word(<<1, 6751, 24560, 45349, 58873, 20626, 60665, 3002,
                         19524, 21433, 45172, 56166, 3516, 38376, 17873, 28282>>[i])])

\* Bytes, modulo x^8 + x^4 + x^3 + x + 1.
ByteTimes[a \in SUBSET (0..7), b \in SUBSET (0..7)] ==
    LET up == B!Shl(a, 1)
    IN  IF b = {} THEN {}
        ELSE B!Xor(IF 0 \in b THEN a ELSE {},
                      ByteTimes[IF 8 \in up THEN B!Xor(up \ {8}, {0, 1, 3, 4}) ELSE up, B!Shr(b, 1)])
MCTower(a, b) ==
    LET low(x)  == B!Truncated(x, 8)
        high(x) == B!Shr(x, 8)
        top     == ByteTimes[high(a), high(b)]
        cross   == B!Xor(ByteTimes[low(a), high(b)], ByteTimes[high(a), low(b)])
    IN  B!Xor(B!Xor(ByteTimes[low(a), low(b)], ByteTimes[top, {5}]), B!Shl(B!Xor(top, cross), 8))

\* Elements at the edges of halves and quarters, and whose products overflow the fold.
Elements == {{}, {0}, 0..15, {15}, {14}, {12, 13}, 8..15, 0..7, {0, 15}, {1, 2, 7}, {7}, {8}, 11..15,
             {3, 7, 11, 15}, {0, 2, 4, 6, 8, 10, 12, 14}}

-----------------------------------------------------------------------------
(* The curves: of 8 * 13 points over the field of 101, and of 67 over the field of 79. *)

MCGenerator    == <<1, 18>>
MCTapTweak(x)  == (37 * x + 11) % 128

-----------------------------------------------------------------------------

Message(len) == [i \in 1..len |-> (37 * i + len) % 256]

Prefixed(values, tails) == {[value |-> v, rest |-> r] : v \in values, r \in tails}
Hrps == {<<"q">>, <<"p", "1">>, <<"1">>, <<"2", "q">>}

MCPayload(s) ==
    CASE s = "base58"     -> BoundedSeq(Under(8), 3)
      [] s = "block58"    -> BoundedSeq(Under(8), 4)
      [] s = "varint"     -> Prefixed(Under(32), BoundedSeq({0, 4, 7}, 1))
      [] s = "cryptonote" -> Prefixed(Under(32), [1..2 -> Under(8)])
      [] s = "segwit"     -> [hrp : Hrps, witver : {0, 1}, program : BoundedSeq(Under(8), 2)]
      [] s = "bech32"     -> [hrp : Hrps, variant : Variant, bytes : BoundedSeq(Under(8), 3)]
      [] s = "cash"       -> [prefix : Hrps, bytes : BoundedSeq(Under(8), 3) \ {<< >>}]
      [] s = "conflux"    -> [prefix : Hrps, bytes : {<<0, b>> : b \in Under(8)}]
      [] s = "bip39"      -> UNION {[1..n -> Under(8)] : n \in 1..3}
      [] s = "base58check" -> BoundedSeq(Under(8), 2) \ {<< >>}
      [] s = "hex"        -> BoundedSeq({0, 9, 10, 160, 255}, 3)
      [] s = "checksum"   -> [code : Sums!Code, prefix : {<<98, 99>>, <<107, 97, 115, 112, 97>>},
                              groups : {<< >>, <<1, 0, 31, 7, 16, 0, 9, 30>>}]
      [] s = "keccak"     -> {Message(len) : len \in {0, 1, 134, 135, 136, 137, 272}}
      [] s = "ripemd"     -> {Message(len) : len \in {0, 3, 32, 54, 55, 56, 63, 64, 119, 120}}
      [] s = "clmul"      -> [width : {6}, x : SUBSET (0..5), y : SUBSET (0..5)]
      [] s = "field"      -> [x : Elements, y : Elements]
      [] s = "noid"       -> [master : {<<0, 0, 0, 0>>, <<1, 2, 254, 255>>, <<255, 255, 255, 255>>},
                              domain : {{0, 3, 12}}, tag : {{1, 6, 7}}]
      [] s \in {"edwards", "secp256k1"} -> Under(128)
      [] s = "words"      -> [1..1 -> Under(16)] \cup [1..2 -> Under(16)]

Prefixes1 == {<< >>, <<"q">>, <<"Q">>, <<" ">>, <<"p", "1">>}
Data      == BoundedSeq({"q", "p", "2", "3"}, 5) \cup BoundedSeq({"q", "2", "Q", "1", ":"}, 3)

MCTyped(s) ==
    CASE s \in {"base58", "base58check", "block58"} -> BoundedSeq(Under(3), 7) \cup BoundedSeq(Under(4), 4)
      [] s = "hex"        -> BoundedSeq({"0", "9", "a", "F", "+", "g"}, 4)
      [] s = "varint"     -> BoundedSeq(Under(8), 4)
      [] s = "cryptonote" -> BoundedSeq(Under(3), 6)
      [] s = "segwit"     -> {<<"q", "1">> \o d : d \in BoundedSeq({"q", "2", "Q", "1", ":"}, 4)}
      [] s = "bech32"     -> {p \o sep \o d : p \in Prefixes1, sep \in {<<"1">>, << >>}, d \in Data}
      [] s = "cash"       -> {p \o <<":">> \o d : p \in Prefixes1, d \in Data}
      [] s = "conflux"    -> {p \o <<":">> \o f \o d : p \in {<<"q">>, <<"Q">>},
                                f \in {<< >>, <<"type.", "q", ":">>, <<"q", ":">>}, d \in Data}
      [] s = "bip39"      -> {Join(words) : words \in UNION {[1..n -> Under(4)] : n \in {2, 4, 5, 6}}
                                                          \cup [1..2 -> Under(5)]}
                             \cup {lead \o <<w[1], Space, Space, w[2]>> \o trail :
                                     lead, trail \in {<< >>, <<Space>>}, w \in [1..2 -> Under(5)]}
=============================================================================
