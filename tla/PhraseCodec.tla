----------------------------- MODULE PhraseCodec -----------------------------
(***************************************************************************)
(* Secrets as words: BIP39 (crates/wallet/src/bip39.rs) and the 25 words   *)
(* of CryptoNote (crates/wallet/src/mnemonic.rs), over words and bytes of  *)
(* any width.  A word is its index in the list, NotAWord if in no list.    *)
(* A BIP39 phrase is a text: words, set apart by one Space or more.        *)
(***************************************************************************)
EXTENDS Radix

LOCAL INSTANCE FiniteSetsExt
LOCAL INSTANCE SequencesExt

CONSTANTS
    BIP39ByteBits,       \* 8
    BITS_PER_WORD,       \* 11
    UnitBytes,           \* 4: a bit of checksum for every 32 bits of entropy
    Units,               \* 4..8, the legal entropy lengths in units
    Digest(_),           \* the first byte of SHA-256
    ListLen,             \* 1626, the words of the CryptoNote list
    GroupValues,         \* 2^32, the values of four bytes
    Crc(_)               \* CRC-32 of the words' prefixes

UnitBits == BIP39ByteBits * UnitBytes

\* A unit and its checksum bit are a whole number of words, and the checksum fits a byte.
ASSUME Bip39Assumption ==
    /\ {BIP39ByteBits, BITS_PER_WORD, UnitBytes} \subseteq Nat \ {0} /\ (UnitBits + 1) % BITS_PER_WORD = 0
    /\ \A u \in Units : u \in Nat \ {0} /\ u <= BIP39ByteBits
\* Three words are more than the values of four bytes.
ASSUME ListAssumption == ListLen \in Nat \ {0} /\ GroupValues \in 1..(ListLen * ListLen * ListLen)

NotAWord == Power(2, BITS_PER_WORD)
Space    == NotAWord + 1

SplitWhitespace(text) == FlattenSeq([i \in DOMAIN text |-> IF text[i] = Space THEN << >> ELSE <<text[i]>>])
\* Words with one space between.
Join(words) == FlattenSeq([i \in DOMAIN words |-> IF i = 1 THEN <<words[i]>> ELSE <<Space, words[i]>>])

-----------------------------------------------------------------------------
(* BIP39 *)

\* Bit i of values of so many bits, most significant bit of the first one first.
BitOf(values, width, i) == (values[i \div width + 1] \div Power(2, width - 1 - (i % width))) % 2

BitAt(bytes, i) == BitOf(bytes, BIP39ByteBits, i)

\* The number `width` bits spell, from bit `at` on.
Bits(bytes, at, width) == Number([j \in 1..width |-> BitAt(bytes, at + j - 1)], 2)

ENTROPY_LENGTHS == {u * UnitBytes : u \in Units}
WORD_COUNTS     == {(u * (UnitBits + 1)) \div BITS_PER_WORD : u \in Units}

\* The entropy, with the checksum behind it, in words.  {} is EntropyLength.
EntropyToPhrase(entropy) ==
    LET buf   == Append(entropy, Digest(entropy))
        total == Len(entropy) * BIP39ByteBits + Len(entropy) \div UnitBytes
    IN  IF Len(entropy) \notin ENTROPY_LENGTHS THEN {}
        ELSE {Join([w \in 1..(total \div BITS_PER_WORD) |-> Bits(buf, (w - 1) * BITS_PER_WORD, BITS_PER_WORD)])}

\* The bytes that words spell, bit by bit; the last one filled up with zeros.
WordBits(phrase) ==
    LET total == Len(phrase) * BITS_PER_WORD
        Bit(i) == IF i >= total THEN 0 ELSE BitOf(phrase, BITS_PER_WORD, i)
    IN  [b \in 1..((total + BIP39ByteBits - 1) \div BIP39ByteBits) |->
            Number([j \in 1..BIP39ByteBits |-> Bit((b - 1) * BIP39ByteBits + j - 1)], 2)]

\* {} is one of the errors, in their order: WordCount, UnknownWord, Checksum.
PhraseToEntropy(text) ==
    LET phrase   == SplitWhitespace(text)
        total    == Len(phrase) * BITS_PER_WORD
        checksum == total \div (UnitBits + 1)
        entropy  == SubSeq(WordBits(phrase), 1, (total * UnitBytes) \div (UnitBits + 1))
        expected == Digest(entropy) \div Power(2, BIP39ByteBits - checksum)
        actual   == Bits(WordBits(phrase), Len(entropy) * BIP39ByteBits, checksum)
    IN  IF Len(phrase) \notin WORD_COUNTS \/ \E i \in DOMAIN phrase : phrase[i] = NotAWord THEN {}
        ELSE IF actual = expected THEN {entropy} ELSE {}

\* The sentence a seed is hashed from, of a phrase that is one: PBKDF2 sees every space.
SeedSentence(text) == IF PhraseToEntropy(text) = {} THEN {} ELSE {Join(SplitWhitespace(text))}

-----------------------------------------------------------------------------
(* monero_25 *)

\* Mutation: the third word is taken from the second quotient.
ThreeWordsShort(x) ==
    LET w1 == x % ListLen
        w2 == (x \div ListLen + w1) % ListLen
        w3 == (x \div ListLen + w2) % ListLen
    IN  <<w1, w2, w3>>

\* The three words of four bytes.
ThreeWords(x) ==
    LET w1 == x % ListLen
        w2 == (x \div ListLen + w1) % ListLen
        w3 == ((x \div ListLen) \div ListLen + w2) % ListLen
    IN  <<w1, w2, w3>>

\* All the groups, and one of their words again as a checksum.
Monero25(groups) ==
    LET words == FlattenSeq([i \in DOMAIN groups |-> ThreeWords(groups[i])])
    IN  Append(words, words[(Crc(words) % Len(words)) + 1])
=============================================================================
