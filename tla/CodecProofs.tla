----------------------------- MODULE CodecProofs -----------------------------
(***************************************************************************)
(* Writing and reading undo each other, for every width, length and list:  *)
(* base58 with and without its checksum, CryptoNote's blocks, varints and  *)
(* addresses, bech32, CashAddr and CIP-37 (crates/addr/src/codec),         *)
(* hexadecimal (hexbytes.rs), the words of a CryptoNote key                *)
(* (crates/wallet/src/mnemonic.rs) and BIP39 phrases (bip39.rs).           *)
(***************************************************************************)
EXTENDS Base58Codec, Bech32Codec, HexCodec, PhraseCodec, NumberProofs

LOCAL INSTANCE FiniteSetsExt
LOCAL INSTANCE SequencesExt

\* A number has one quotient and one remainder.
LEMMA DivisionUnique ==
    ASSUME NEW n \in Nat \ {0}, NEW p \in Nat, NEW q \in Nat,
           NEW r \in 0..(n - 1), NEW s \in 0..(n - 1), n * p + r = n * q + s
    PROVE  p = q /\ r = s
<1>1. n * (p - q) = s - r
    OBVIOUS
<1>2. ASSUME p > q PROVE FALSE
    <2>1. p - q \in Nat /\ p - q >= 1
        BY <1>2
    <2>2. n * (p - q) >= n
        BY <2>1
    <2> QED
        BY <1>1, <2>2
<1>3. ASSUME q > p PROVE FALSE
    <2>1. q - p \in Nat /\ q - p >= 1
        BY <1>3
    <2>2. n * (q - p) >= n
        BY <2>1
    <2>3. n * (q - p) = r - s
        BY <1>1
    <2> QED
        BY <2>2, <2>3
<1>4. p = q
    BY <1>2, <1>3
<1> QED
    BY <1>4

\* A number is its quotient and its remainder.
LEMMA Division ==
    ASSUME NEW n \in Nat \ {0}, NEW x \in Nat
    PROVE  x \div n \in Nat /\ x % n \in 0..(n - 1) /\ x = n * (x \div n) + (x % n)
OBVIOUS

\* Products distribute over sums.
LEMMA Distributes ==
    ASSUME NEW n \in Nat, NEW p \in Nat, NEW q \in Nat
    PROVE  n * (p + q) = n * p + n * q /\ {n * p, n * q} \subseteq Nat
OBVIOUS

\* The summand both numbers have can be taken away: the second and the third word each hide a
\* digit under the word before.
LEMMA SummandCancels ==
    ASSUME NEW n \in Nat \ {0}, NEW a \in Nat, NEW b \in Nat, NEW w \in Nat, (a + w) % n = (b + w) % n
    PROVE  a % n = b % n
<1>1. PICK p \in Nat, t \in 0..(n - 1) : a + w = n * p + t /\ t = (a + w) % n
    <2>1. a + w = n * ((a + w) \div n) + ((a + w) % n) /\ (a + w) \div n \in Nat /\ (a + w) % n \in 0..(n - 1)
        BY a + w \in Nat, Division
    <2> QED
        BY <2>1
<1>2. PICK q \in Nat : b + w = n * q + t
    <2>1. b + w = n * ((b + w) \div n) + ((b + w) % n) /\ (b + w) \div n \in Nat
        BY b + w \in Nat, Division
    <2> QED
        BY <1>1, <2>1
<1>3. PICK c \in Nat, r \in 0..(n - 1) : a = n * c + r /\ r = a % n
    BY Division
<1>4. PICK d \in Nat, s \in 0..(n - 1) : b = n * d + s /\ s = b % n
    BY Division
<1>5. n * (c + q) + r = n * (d + p) + s
    <2>1. n * c + n * q + r = n * d + n * p + s
        <3>1. {n * c, n * q, n * d, n * p, r, s} \subseteq Nat
            BY Distributes
        <3>2. (n * c + r) + w = n * p + t /\ (n * d + s) + w = n * q + t
            BY <1>1, <1>2, <1>3, <1>4
        <3> QED
            BY <3>1, <3>2
    <2>2. n * (c + q) = n * c + n * q /\ n * (d + p) = n * d + n * p
        BY Distributes
    <2> QED
        BY <2>1, <2>2
<1>6. r = s
    <2>1. c + q \in Nat /\ d + p \in Nat
        OBVIOUS
    <2> QED
        BY <1>5, <2>1, DivisionUnique
<1> QED
    BY <1>3, <1>4, <1>6

\* Two values of four bytes have different words: the three words of a group determine it, so
\* the 24 words before the checksum determine the spend key (monero_25).
THEOREM WordsInjective ==
    ASSUME NEW x \in 0..(GroupValues - 1), NEW y \in 0..(GroupValues - 1), ThreeWords(x) = ThreeWords(y)
    PROVE  x = y
<1>1. PICK n \in Nat \ {0} : n = ListLen
    BY ListAssumption
<1>2. x \in Nat /\ y \in Nat /\ x < n * n * n /\ y < n * n * n
    BY <1>1, ListAssumption
<1>3. PICK x1 \in Nat, u \in 0..(n - 1) : x = n * x1 + u /\ x1 = x \div n /\ u = x % n
    BY <1>2, Division
<1>4. PICK y1 \in Nat, v \in 0..(n - 1) : y = n * y1 + v /\ y1 = y \div n /\ v = y % n
    BY <1>2, Division
<1>5. PICK x2 \in Nat, s \in 0..(n - 1) : x1 = n * x2 + s /\ x2 = x1 \div n /\ s = x1 % n
    BY Division
<1>6. PICK y2 \in Nat, t \in 0..(n - 1) : y1 = n * y2 + t /\ y2 = y1 \div n /\ t = y1 % n
    BY Division
<1>7. u = v /\ (x1 + u) % n = (y1 + u) % n /\ (x2 + ((x1 + u) % n)) % n = (y2 + ((x1 + u) % n)) % n
    <2>1. ThreeWords(x) = <<u, (x1 + u) % n, (x2 + ((x1 + u) % n)) % n>>
        BY <1>1, <1>3, <1>5 DEF ThreeWords
    <2>2. ThreeWords(y) = <<v, (y1 + v) % n, (y2 + ((y1 + v) % n)) % n>>
        BY <1>1, <1>4, <1>6 DEF ThreeWords
    <2>3. <<u, (x1 + u) % n, (x2 + ((x1 + u) % n)) % n>> = <<v, (y1 + v) % n, (y2 + ((y1 + v) % n)) % n>>
        BY <2>1, <2>2
    <2>4. /\ u = v /\ (x1 + u) % n = (y1 + v) % n
          /\ (x2 + ((x1 + u) % n)) % n = (y2 + ((y1 + v) % n)) % n
        BY ONLY <2>3, Zenon
    <2> QED
        BY <2>4, Zenon
<1>8. s = t
    <2>1. PICK w \in Nat : w = u
        OBVIOUS
    <2>2. (x1 + w) % n = (y1 + w) % n
        BY <1>7, <2>1
    <2>3. x1 % n = y1 % n
        BY <2>2, SummandCancels, ZenonT(40)
    <2> QED
        BY <1>5, <1>6, <2>3
<1>9. x2 % n = y2 % n
    <2>1. x1 + u \in Nat
        OBVIOUS
    <2>2. PICK w \in Nat : w = (x1 + u) % n
        <3>1. (x1 + u) % n \in 0..(n - 1)
            BY <2>1, Division
        <3> QED
            BY <3>1
    <2>3. (x2 + w) % n = (y2 + w) % n
        BY <1>7, <2>2
    <2> QED
        BY <2>3, SummandCancels, ZenonT(40)
<1>10. x2 < n /\ y2 < n
    <2>1. ASSUME NEW z \in Nat, NEW z1 \in Nat, NEW z2 \in Nat, NEW r1 \in Nat, NEW r2 \in Nat,
                 z = n * z1 + r1, z1 = n * z2 + r2, z < n * n * n
          PROVE  z2 < n
        <3>1. SUFFICES ASSUME z2 >= n PROVE FALSE
            OBVIOUS
        <3>2. z1 >= n * n
            <4>1. n * z2 >= n * n
                BY <3>1
            <4> QED
                BY <2>1, <4>1
        <3>3. n * z1 >= n * (n * n)
            BY <3>2
        <3> QED
            BY <2>1, <3>3
    <2>2. x2 < n
        BY <1>2, <1>3, <1>5, <2>1
    <2>3. y2 < n
        BY <1>2, <1>4, <1>6, <2>1
    <2> QED
        BY <2>2, <2>3
<1>11. x2 = y2
    BY <1>9, <1>10
<1> QED
    BY <1>3, <1>4, <1>5, <1>6, <1>7, <1>8, <1>11, ZenonT(40)

-----------------------------------------------------------------------------
(* Base58 *)

\* A sequence whose elements all lie in V is a sequence over V.
LEMMA Narrowed ==
    ASSUME NEW S, NEW s \in Seq(S), NEW V, \A i \in 1..Len(s) : s[i] \in V
    PROVE  s \in Seq(V)
<1>1. PICK n \in Nat : n = Len(s) /\ s \in [1..n -> S]
    BY LenProperties
<1>2. s \in [1..n -> V]
    BY <1>1
<1> QED
    BY <1>2, SeqDef

\* A text without a character outside the alphabet is a sequence of digits, and every digit
\* is in the alphabet.
LEMMA TextIsDigits ==
    ASSUME NEW t \in Seq(0..Digit)
    PROVE  IsDigits(t) <=> t \in Seq(0..(Digit - 1))
<1>1. ASSUME IsDigits(t) PROVE t \in Seq(0..(Digit - 1))
    <2>1. DOMAIN t = 1..Len(t)
        BY LenProperties
    <2>2. ASSUME NEW i \in 1..Len(t) PROVE t[i] \in 0..(Digit - 1)
        <3>1. t[i] \in 0..Digit
            BY ElementOfSeq
        <3>2. t[i] < Digit
            BY <1>1, <2>1 DEF IsDigits
        <3> QED
            BY <3>1, <3>2, RadixAssumption
    <2> QED
        BY <2>2, Narrowed
<1>2. ASSUME t \in Seq(0..(Digit - 1)) PROVE IsDigits(t)
    <2>1. DOMAIN t = 1..Len(t)
        BY LenProperties
    <2>2. \A i \in 1..Len(t) : t[i] \in 0..(Digit - 1)
        BY <1>2, ElementOfSeq
    <2> QED
        BY <2>1, <2>2, RadixAssumption DEF IsDigits
<1> QED
    BY <1>1, <1>2

\* Digits are characters.
LEMMA DigitsAreTexts == Seq(0..(Digit - 1)) \subseteq Seq(0..Digit)
<1>1. 0..(Digit - 1) \subseteq 0..Digit
    BY RadixAssumption
<1> QED
    BY <1>1, SeqMonotonic

\* What base58::decode reads of a text: the number the digits spell, and a zero byte for each
\* leading zero.
LEMMA Base58DecodeIs ==
    ASSUME NEW t \in Seq(0..(Digit - 1)), Len(t) <= MAX_INPUT_LEN
    PROVE  Base58Decode(t) = {Zeros(LeadingZeros(t)) \o Digits(Number(t, Digit), Byte)}
<1>1. IsDigits(t)
    BY DigitsAreTexts, TextIsDigits
<1>2. Len(t) \in Nat
    BY LenProperties
<1> QED
    BY <1>1, <1>2, RadixAssumption DEF Base58Decode

\* Bytes of any length written in base58 are read back, leading zeros and all, as long as the
\* text is not longer than what decode looks at (codec/base58.rs encode, decode).
THEOREM Base58ReadsBack ==
    ASSUME NEW bytes \in Seq(0..(Byte - 1)), Len(Base58Encode(bytes)) <= MAX_INPUT_LEN
    PROVE  Base58Decode(Base58Encode(bytes)) = {bytes}
<1>1. PICK t : t = Base58Encode(bytes)
    OBVIOUS
<1>2. t = Zeros(LeadingZeros(bytes)) \o Digits(Number(bytes, Byte), Digit)
    BY <1>1 DEF Base58Encode
<1>3. t \in Seq(0..(Digit - 1)) /\ Zeros(LeadingZeros(t)) \o Digits(Number(t, Digit), Byte) = bytes
    BY <1>2, RadixAssumption, Conversion
<1>4. Base58Decode(t) = {Zeros(LeadingZeros(t)) \o Digits(Number(t, Digit), Byte)}
    BY <1>1, <1>3, Base58DecodeIs
<1> QED
    BY <1>1, <1>3, <1>4

\* Whatever text base58::decode reads, the bytes it gives are bytes, and encoding them gives
\* that text: no two texts are read as the same bytes (fuzz target base58: "decode must be
\* injective").
THEOREM Base58OneSpelling ==
    ASSUME NEW t \in Seq(0..Digit), NEW bytes \in Base58Decode(t)
    PROVE  bytes \in Seq(0..(Byte - 1)) /\ Base58Encode(bytes) = t
<1>1. t \in Seq(0..(Digit - 1)) /\ bytes = Zeros(LeadingZeros(t)) \o Digits(Number(t, Digit), Byte)
    BY TextIsDigits DEF Base58Decode
<1>2. bytes \in Seq(0..(Byte - 1)) /\ Zeros(LeadingZeros(bytes)) \o Digits(Number(bytes, Byte), Digit) = t
    BY <1>1, RadixAssumption, Conversion
<1> QED
    BY <1>2 DEF Base58Encode

-----------------------------------------------------------------------------
(* Base58Check *)

\* A sequence put together of two comes apart where they were joined.
LEMMA JoinedApart ==
    ASSUME NEW A, NEW s \in Seq(A), NEW u \in Seq(A)
    PROVE  SubSeq(s \o u, 1, Len(s)) = s
<1>0. s \o u \in Seq(A) /\ Len(s \o u) = Len(s) + Len(u) /\ \A i \in 1..Len(s) : (s \o u)[i] = s[i]
    BY ConcatIs
<1>1. PICK w \in Seq(A) : w = s \o u /\ Len(w) = Len(s) + Len(u) /\ \A i \in 1..Len(s) : w[i] = s[i]
    BY <1>0
<1>2. PICK n \in Nat : n = Len(s) /\ 1 \in Int /\ n \in Int /\ Len(u) \in Nat
    BY LenProperties
<1>3. \A i \in 1..n : w[i] \in A
    BY <1>1, <1>2, ElementOfSeq
<1>4. PICK x \in Seq(A) : /\ x = SubSeq(w, 1, n) /\ Len(x) = IF 1 <= n THEN n - 1 + 1 ELSE 0
                          /\ \A i \in 1..(n - 1 + 1) : x[i] = w[1 + i - 1]
    <2>1. /\ SubSeq(w, 1, n) \in Seq(A) /\ Len(SubSeq(w, 1, n)) = IF 1 <= n THEN n - 1 + 1 ELSE 0
          /\ \A i \in 1..(n - 1 + 1) : SubSeq(w, 1, n)[i] = w[1 + i - 1]
        BY <1>2, <1>3, SubSeqProperties
    <2> QED
        BY <2>1
<1>5. Len(x) = n /\ \A i \in 1..n : x[i] = s[i]
    <2>1. Len(x) = n
        BY <1>2, <1>4
    <2>2. ASSUME NEW i \in 1..n PROVE x[i] = s[i]
        <3>1. i \in 1..(n - 1 + 1) /\ 1 + i - 1 = i
            OBVIOUS
        <3> QED
            BY <1>1, <1>2, <1>4, <3>1
    <2> QED
        BY <2>1, <2>2
<1>6. x = s
    BY <1>2, <1>5, SeqEqual
<1> QED
    BY <1>1, <1>2, <1>4, <1>6

\* A payload written with its checksum is read back without it (encode_check, decode_check),
\* whatever the checksum function is, as long as it gives CHECK bytes.
THEOREM Base58CheckReadsBack ==
    ASSUME NEW p \in Seq(0..(Byte - 1)), p # << >>, Sha256d(p) \in Seq(0..(Byte - 1)), Len(Sha256d(p)) = CHECK,
           Len(EncodeCheck(p)) <= MAX_INPUT_LEN
    PROVE  DecodeCheck(EncodeCheck(p)) = {p}
<1>1. PICK c \in Seq(0..(Byte - 1)) : c = Sha256d(p) /\ Len(c) = CHECK
    OBVIOUS
<1>2. PICK raw \in Seq(0..(Byte - 1)) : raw = p \o c /\ Len(raw) = Len(p) + Len(c)
    BY ConcatIs
<1>3. Base58Decode(EncodeCheck(p)) = {raw}
    BY <1>1, <1>2, Base58ReadsBack DEF EncodeCheck
<1>4. SubSeq(raw, 1, Len(raw) - CHECK) = p
    <2>1. Len(raw) - CHECK = Len(p)
        BY <1>1, <1>2, LenProperties
    <2> QED
        BY <1>2, <2>1, JoinedApart
<1>5. ~(Len(raw) < CHECK + 1)
    <2>1. Len(p) \in Nat \ {0} /\ CHECK \in Nat
        BY EmptySeq, RadixAssumption
    <2> QED
        BY <1>1, <1>2, <2>1
<1>6. VerifyCheck(raw) = {p}
    BY <1>1, <1>2, <1>4, <1>5 DEF VerifyCheck
<1> QED
    BY <1>3, <1>6 DEF DecodeCheck

\* What decode_check accepts is the one text encode_check writes for that payload: the
\* checksum it dropped is determined by what it kept.
THEOREM Base58CheckOneSpelling ==
    ASSUME NEW t \in Seq(0..Digit), NEW p \in DecodeCheck(t)
    PROVE  p \in Seq(0..(Byte - 1)) /\ EncodeCheck(p) = t
<1>1. PICK raw \in Base58Decode(t) : p \in VerifyCheck(raw)
    BY DEF DecodeCheck
<1>2. raw \in Seq(0..(Byte - 1)) /\ Base58Encode(raw) = t
    BY Base58OneSpelling
<1>3. p = SubSeq(raw, 1, Len(raw) - CHECK) /\ raw = p \o Sha256d(p) /\ ~(Len(raw) < CHECK + 1)
    BY <1>1 DEF VerifyCheck
<1>4. p \in Seq(0..(Byte - 1))
    <2>1. PICK n \in Nat : n = Len(raw)
        BY <1>2, LenProperties
    <2>2. PICK c \in Nat : c = CHECK
        BY RadixAssumption
    <2>3. PICK k \in Int : k = n - c /\ k <= n /\ 1 \in Int
        OBVIOUS
    <2>4. ASSUME NEW i \in 1..k PROVE raw[i] \in 0..(Byte - 1)
        <3>1. i \in 1..Len(raw)
            BY <2>1, <2>3
        <3> QED
            BY <1>2, <3>1, ElementOfSeq
    <2>5. SubSeq(raw, 1, k) \in Seq(0..(Byte - 1))
        BY <2>3, <2>4, SubSeqProperties
    <2> QED
        BY <1>3, <2>1, <2>2, <2>3, <2>5
<1> QED
    BY <1>2, <1>3, <1>4 DEF EncodeCheck

-----------------------------------------------------------------------------
(* Varints *)

\* Reverse is its own inverse.
LEMMA ReverseIs ==
    ASSUME NEW A, NEW s \in Seq(A)
    PROVE  /\ Reverse(s) \in Seq(A) /\ Len(Reverse(s)) = Len(s)
           /\ \A i \in 1..Len(s) : Reverse(s)[i] = s[(Len(s) - i) + 1]
           /\ Reverse(Reverse(s)) = s
<1>1. ASSUME NEW u \in Seq(A)
      PROVE  /\ Reverse(u) \in Seq(A) /\ Len(Reverse(u)) = Len(u)
             /\ \A i \in 1..Len(u) : Reverse(u)[i] = u[(Len(u) - i) + 1]
    <2>1. PICK n \in Nat : n = Len(u)
        BY LenProperties
    <2>2. \A i \in 1..n : (n - i) + 1 \in 1..n
        OBVIOUS
    <2>3. \A i \in 1..n : u[(n - i) + 1] \in A
        BY <2>1, <2>2, ElementOfSeq
    <2>4. Reverse(u) = [i \in 1..n |-> u[(n - i) + 1]]
        BY <2>1 DEF Reverse
    <2>5. Reverse(u) \in [1..n -> A]
        BY <2>3, <2>4
    <2>6. Reverse(u) \in Seq(A)
        BY <2>5, SeqDef
    <2>7. Len(Reverse(u)) = n
        BY <2>4
    <2> QED
        BY <2>1, <2>4, <2>6, <2>7
<1>2. PICK n \in Nat : n = Len(s)
    BY LenProperties
<1>3. PICK r \in Seq(A) : r = Reverse(s) /\ Len(r) = n /\ \A i \in 1..n : r[i] = s[(n - i) + 1]
    <2>1. /\ Reverse(s) \in Seq(A) /\ Len(Reverse(s)) = n
          /\ \A i \in 1..n : Reverse(s)[i] = s[(n - i) + 1]
        BY <1>1, <1>2
    <2> QED
        BY <2>1
<1>4. PICK w \in Seq(A) : w = Reverse(r) /\ Len(w) = n /\ \A i \in 1..n : w[i] = r[(n - i) + 1]
    <2>1. /\ Reverse(r) \in Seq(A) /\ Len(Reverse(r)) = n
          /\ \A i \in 1..n : Reverse(r)[i] = r[(n - i) + 1]
        BY <1>1, <1>3
    <2> QED
        BY <2>1
<1>5. ASSUME NEW i \in 1..n PROVE w[i] = s[i]
    <2>1. (n - i) + 1 \in 1..n /\ (n - ((n - i) + 1)) + 1 = i
        OBVIOUS
    <2> QED
        BY <1>3, <1>4, <2>1
<1>6. w = s
    BY <1>2, <1>4, <1>5, SeqEqual
<1> QED
    BY <1>1, <1>3, <1>4, <1>6

\* A function on 1..n is a sequence of that length.
LEMMA FunctionIsSeq ==
    ASSUME NEW S, NEW n \in Nat, NEW f \in [1..n -> S]
    PROVE  f \in Seq(S) /\ Len(f) = n
BY SeqDef

\* The one group of zero spells zero.
LEMMA NumberOfZero == \A r \in Nat : Number(<<0>>, r) = 0
<1> TAKE r \in Nat
<1>1. Number(<< >>, r) = 0 /\ << >> \in Seq(Nat) /\ 0 \in Nat
    BY NumberEmpty, EmptySeq
<1>2. Number(Append(<< >>, 0), r) = 0 * r + 0
    BY <1>1, NumberAppend
<1>3. Append(<< >>, 0) = <<0>>
    OBVIOUS
<1> QED
    BY <1>2, <1>3

\* The groups of a number, least significant first: one of them at least, and the last one is
\* zero for the number zero only.
Groups(n) == IF n = 0 THEN <<0>> ELSE Reverse(Digits(n, Group))

\* The groups of a number, least first: at least one, no zero at the end but that of zero itself.
LEMMA GroupsAre ==
    ASSUME NEW n \in Nat
    PROVE  /\ Groups(n) \in Seq(0..(Group - 1)) /\ Len(Groups(n)) \in Nat \ {0}
           /\ Groups(n)[Len(Groups(n))] = 0 => Len(Groups(n)) = 1
           /\ Number(Reverse(Groups(n)), Group) = n
<1>1. PICK r \in Nat \ {0, 1} : r = Group
    BY VarintAssumption
<1>2. CASE n = 0
    <2>1. PICK g : g = <<0>>
        OBVIOUS
    <2>2. << >> \in Seq(0..(r - 1)) /\ 0 \in 0..(r - 1) /\ Append(<< >>, 0) = g
        BY <2>1, EmptySeq
    <2>3. g \in Seq(0..(r - 1)) /\ Len(g) = 1
        BY <2>1, <2>2, AppendIs
    <2>4. Reverse(g) = g
        BY <2>1 DEF Reverse
    <2>5. Number(g, r) = 0
        BY <2>1, NumberOfZero
    <2> QED
        BY <1>1, <1>2, <2>1, <2>3, <2>4, <2>5 DEF Groups
<1>3. CASE n # 0
    <2>1. PICK d \in Seq(0..(r - 1)) : d = Digits(n, r) /\ Canonical(d) /\ d # << >> /\ Number(d, r) = n
        BY <1>3, DigitsSpell
    <2>2. PICK g \in Seq(0..(r - 1)) : g = Reverse(d) /\ Len(g) = Len(d) /\ Reverse(g) = d
                                      /\ \A i \in 1..Len(d) : g[i] = d[(Len(d) - i) + 1]
        BY ReverseIs
    <2>3. PICK k \in Nat \ {0} : k = Len(d)
        BY <2>1, EmptySeq
    <2>4. g[k] = d[1]
        <3>1. k \in 1..k /\ (k - k) + 1 = 1
            BY SMTT(30)
        <3> QED
            BY <2>2, <2>3, <3>1
    <2>5. g[k] # 0
        BY <2>1, <2>4 DEF Canonical
    <2>6. Groups(n) = g
        BY <1>1, <1>3, <2>1, <2>2 DEF Groups
    <2> QED
        BY <1>1, <2>1, <2>2, <2>3, <2>5, <2>6
<1> QED
    BY <1>2, <1>3

\* What read_varint does once it has found the last byte of the number.
LastByte(data, last) ==
    last \in DOMAIN data /\ data[last] < Group /\ \A i \in 1..(last - 1) : data[i] >= Group
GroupsRead(data, last) == [i \in 1..last |-> data[i] % Group]

\* What read_varint gives of bytes of which the last one of the number is known.
LEMMA VarintEnds ==
    ASSUME NEW data \in Seq(0..(Byte - 1)), NEW last \in Nat, LastByte(data, last)
    PROVE  ReadVarint(data) =
             IF Number(Reverse(GroupsRead(data, last)), Group) >= U64 \/ (last > 1 /\ data[last] = 0) THEN {}
             ELSE {[value |-> Number(Reverse(GroupsRead(data, last)), Group),
                    rest  |-> SubSeq(data, last + 1, Len(data))]}
<1> DEFINE ends == {i \in DOMAIN data : data[i] < Group}
<1>1. last \in ends
    BY DEF LastByte
<1>2. ends \in SUBSET Nat /\ ends # {}
    <2>1. DOMAIN data = 1..Len(data)
        BY LenProperties
    <2> QED
        BY <1>1, <2>1
<1>3. Min(ends) = last
    <2>1. PICK m \in Nat : m = Min(ends) /\ m \in ends /\ m <= last
        <3> HIDE DEF ends
        <3> QED
            BY <1>1, <1>2, LeastNat
    <2>2. ASSUME m < last PROVE FALSE
        <3>1. m \in 1..(last - 1) /\ m \in 1..Len(data)
            BY <2>1, <2>2, LenProperties
        <3>2. data[m] \in Nat /\ data[m] >= Group /\ data[m] < Group
            <4>1. data[m] \in 0..(Byte - 1)
                BY <3>1, ElementOfSeq
            <4> QED
                BY <2>1, <3>1, <4>1 DEF LastByte
        <3> QED
            BY <3>2, VarintAssumption
    <2> QED
        BY <2>1, <2>2
<1> QED
    BY <1>2, <1>3 DEF ReadVarint, GroupsRead

\* Nothing is read where the number does not end.
LEMMA VarintHasEnd ==
    ASSUME NEW data \in Seq(0..(Byte - 1)), ReadVarint(data) # {}
    PROVE  \E last \in Nat : LastByte(data, last)
<1> DEFINE ends == {i \in DOMAIN data : data[i] < Group}
<1>1. ends # {}
    BY DEF ReadVarint
<1>2. ends \in SUBSET Nat
    <2>1. DOMAIN data = 1..Len(data)
        BY LenProperties
    <2> QED
        BY <2>1
<1>3. PICK m \in Nat : m \in ends /\ \A y \in ends : m <= y
    <2> HIDE DEF ends
    <2> QED
        BY <1>1, <1>2, LeastNat
<1>4. ASSUME NEW i \in 1..(m - 1) PROVE data[i] >= Group
    <2>1. i \in DOMAIN data /\ m \in DOMAIN data /\ i < m /\ i \in 1..Len(data)
        BY <1>3, LenProperties
    <2>2. data[i] \in 0..(Byte - 1)
        BY <2>1, ElementOfSeq
    <2>3. ~(data[i] < Group)
        BY <1>3, <2>1
    <2> QED
        BY <2>2, <2>3, VarintAssumption
<1> QED
    BY <1>3, <1>4 DEF LastByte

\* The other half of a sequence put together of two.
LEMMA JoinedRest ==
    ASSUME NEW A, NEW s \in Seq(A), NEW u \in Seq(A)
    PROVE  SubSeq(s \o u, Len(s) + 1, Len(s \o u)) = u
<1>1. PICK n \in Nat, k \in Nat : n = Len(s) /\ k = Len(u)
    BY LenProperties
<1>2. PICK w \in Seq(A) : w = s \o u /\ Len(w) = n + k /\ \A i \in 1..k : w[n + i] = u[i]
    <2>1. s \o u \in Seq(A) /\ Len(s \o u) = n + k /\ \A i \in 1..k : (s \o u)[n + i] = u[i]
        BY <1>1, ConcatIs
    <2> QED
        BY <2>1
<1>3. PICK a \in Int, b \in Int : a = n + 1 /\ b = n + k /\ \A i \in a..b : i \in 1..Len(w)
    BY <1>2, SMTT(30)
<1>4. \A i \in a..b : w[i] \in A
    BY <1>3, ElementOfSeq
<1>5. PICK x \in Seq(A) : /\ x = SubSeq(w, a, b) /\ Len(x) = IF a <= b THEN b - a + 1 ELSE 0
                          /\ \A i \in 1..(b - a + 1) : x[i] = w[a + i - 1]
    <2>1. /\ SubSeq(w, a, b) \in Seq(A) /\ Len(SubSeq(w, a, b)) = IF a <= b THEN b - a + 1 ELSE 0
          /\ \A i \in 1..(b - a + 1) : SubSeq(w, a, b)[i] = w[a + i - 1]
        BY <1>4, SubSeqProperties
    <2> QED
        BY <2>1
<1>6. Len(x) = k
    BY <1>3, <1>5
<1>7. ASSUME NEW i \in 1..k PROVE x[i] = u[i]
    <2>1. i \in 1..(b - a + 1) /\ a + i - 1 = n + i
        BY <1>3
    <2> QED
        BY <1>2, <1>5, <2>1
<1>8. x = u
    BY <1>1, <1>6, <1>7, SeqEqual
<1> QED
    BY <1>1, <1>2, <1>3, <1>5, <1>8

\* The bytes of a number: its groups, all but the last with the continuation bit.
LEMMA VarintIs ==
    ASSUME NEW n \in Nat, NEW g \in Seq(0..(Group - 1)), g = Groups(n), NEW k \in Nat \ {0}, k = Len(g)
    PROVE  /\ WriteVarint(n) \in Seq(0..(Byte - 1)) /\ Len(WriteVarint(n)) = k
           /\ \A i \in 1..k : WriteVarint(n)[i] = g[i] + (IF i < k THEN Group ELSE 0)
<1>1. DOMAIN g = 1..k
    BY LenProperties
<1>2. WriteVarint(n) = [i \in 1..k |-> g[i] + (IF i < k THEN Group ELSE 0)]
    BY <1>1 DEF WriteVarint, Groups
<1>3. ASSUME NEW i \in 1..k PROVE g[i] + (IF i < k THEN Group ELSE 0) \in 0..(Byte - 1)
    <2>1. g[i] \in 0..(Group - 1)
        BY ElementOfSeq
    <2> QED
        BY <2>1, VarintAssumption, SMTT(30)
<1>4. WriteVarint(n) \in [1..k -> 0..(Byte - 1)]
    BY <1>2, <1>3
<1>5. WriteVarint(n) \in Seq(0..(Byte - 1)) /\ Len(WriteVarint(n)) = k
    BY <1>4, FunctionIsSeq
<1> QED
    BY <1>2, <1>5

\* A number below 2^64 in front of any bytes is read back, and the bytes after it are what is
\* left (write_varint, read_varint).
THEOREM VarintReadsBack ==
    ASSUME NEW n \in 0..(U64 - 1), NEW rest \in Seq(0..(Byte - 1))
    PROVE  ReadVarint(WriteVarint(n) \o rest) = {[value |-> n, rest |-> rest]}
<1>1. n \in Nat /\ n < U64
    BY VarintAssumption
<1>2. PICK r \in Nat \ {0, 1} : r = Group
    BY VarintAssumption
<1>3. PICK g \in Seq(0..(Group - 1)), k \in Nat \ {0} :
        g = Groups(n) /\ k = Len(g) /\ (g[k] = 0 => k = 1) /\ Number(Reverse(g), Group) = n
    BY <1>1, GroupsAre
<1>4. PICK w \in Seq(0..(Byte - 1)) :
        w = WriteVarint(n) /\ Len(w) = k /\ \A i \in 1..k : w[i] = g[i] + (IF i < k THEN Group ELSE 0)
    <2>1. /\ WriteVarint(n) \in Seq(0..(Byte - 1)) /\ Len(WriteVarint(n)) = k
          /\ \A i \in 1..k : WriteVarint(n)[i] = g[i] + (IF i < k THEN Group ELSE 0)
        BY <1>1, <1>3, VarintIs
    <2> QED
        BY <2>1
<1>5. PICK data \in Seq(0..(Byte - 1)) :
        /\ data = w \o rest /\ Len(data) = k + Len(rest) /\ Len(rest) \in Nat
        /\ \A i \in 1..k : data[i] = w[i]
    <2>1. /\ w \o rest \in Seq(0..(Byte - 1)) /\ Len(w \o rest) = Len(w) + Len(rest) /\ Len(rest) \in Nat
          /\ \A i \in 1..Len(w) : (w \o rest)[i] = w[i]
        BY ConcatIs
    <2> QED
        BY <1>4, <2>1
<1>6. \A i \in 1..k : g[i] \in 0..(r - 1) /\ data[i] = g[i] + (IF i < k THEN r ELSE 0)
    BY <1>2, <1>3, <1>4, <1>5, ElementOfSeq
<1>7. LastByte(data, k)
    <2>1. k \in DOMAIN data
        BY <1>5, LenProperties
    <2>2. data[k] < r
        <3>1. k \in 1..k /\ ~(k < k)
            OBVIOUS
        <3>2. PICK x \in 0..(r - 1) : x = g[k] /\ data[k] = x + 0
            BY <1>6, <3>1
        <3> QED
            BY <3>2, SMTT(30)
    <2>3. \A i \in 1..(k - 1) : data[i] >= r
        BY <1>6, SMTT(30)
    <2> QED
        BY <1>2, <2>1, <2>2, <2>3 DEF LastByte
<1>8. GroupsRead(data, k) = g
    <2>1. ASSUME NEW i \in 1..k PROVE data[i] % r = g[i]
        <3>1. PICK x \in 0..(r - 1), q \in Nat : x = g[i] /\ data[i] = q * r + x
            <4>1. CASE i < k
                <5>1. data[i] = 1 * r + g[i]
                    BY <1>6, <4>1
                <5> QED
                    BY <1>6, <5>1
            <4>2. CASE ~(i < k)
                <5>1. data[i] = 0 * r + g[i]
                    BY <1>6, <4>2
                <5> QED
                    BY <1>6, <5>1
            <4> QED
                BY <4>1, <4>2
        <3>2. (q * r + x) % r = x
            BY QuotientIs
        <3> QED
            BY <3>1, <3>2
    <2>2. g \in [1..k -> 0..(Group - 1)]
        BY <1>3, LenProperties
    <2> QED
        BY <1>2, <2>1, <2>2 DEF GroupsRead
<1>9. data[k] = g[k]
    <2>1. k \in 1..k /\ ~(k < k)
        OBVIOUS
    <2>2. PICK x \in 0..(r - 1) : x = g[k] /\ data[k] = x + 0
        BY <1>6, <2>1
    <2> QED
        BY <2>2
<1>10. SubSeq(data, k + 1, Len(data)) = rest
    BY <1>4, <1>5, JoinedRest
<1>11. ~(n >= U64 \/ (k > 1 /\ data[k] = 0))
    <2>1. k > 1 => data[k] # 0
        BY <1>3, <1>9
    <2>2. ~(n >= U64)
        BY <1>1, VarintAssumption
    <2> QED
        BY <2>1, <2>2
<1>12. ReadVarint(data) = {[value |-> n, rest |-> rest]}
    <2>1. ReadVarint(data) =
             IF Number(Reverse(GroupsRead(data, k)), Group) >= U64 \/ (k > 1 /\ data[k] = 0) THEN {}
             ELSE {[value |-> Number(Reverse(GroupsRead(data, k)), Group),
                    rest  |-> SubSeq(data, k + 1, Len(data))]}
        BY <1>7, VarintEnds
    <2> QED
        BY <1>3, <1>8, <1>10, <1>11, <2>1
<1> QED
    BY <1>4, <1>5, <1>12

\* Whatever bytes read_varint takes a number from, they are the bytes write_varint writes for
\* that number: no longer spelling of it is taken, so that no two strings claim one network
\* prefix.
THEOREM VarintOneSpelling ==
    ASSUME NEW data \in Seq(0..(Byte - 1)), NEW v \in ReadVarint(data)
    PROVE  /\ v.value \in 0..(U64 - 1) /\ v.rest \in Seq(0..(Byte - 1))
           /\ v = [value |-> v.value, rest |-> v.rest] /\ WriteVarint(v.value) \o v.rest = data
<1>1. PICK k \in Nat : LastByte(data, k)
    BY VarintHasEnd
<1>2. PICK r \in Nat \ {0, 1} : r = Group
    BY VarintAssumption
<1>3. /\ ~(Number(Reverse(GroupsRead(data, k)), Group) >= U64) /\ ~(k > 1 /\ data[k] = 0)
      /\ v = [value |-> Number(Reverse(GroupsRead(data, k)), Group), rest |-> SubSeq(data, k + 1, Len(data))]
    BY <1>1, VarintEnds
<1>4. PICK len \in Nat : /\ len = Len(data) /\ DOMAIN data = 1..len /\ k \in 1..len
                         /\ \A i \in 1..len : data[i] \in 0..(Byte - 1)
    BY <1>1, LenProperties, ElementOfSeq DEF LastByte
<1>5. \A i \in 1..k : /\ data[i] % r \in 0..(r - 1)
                      /\ data[i] = (data[i] % r) + (IF i < k THEN r ELSE 0)
    <2> SUFFICES ASSUME NEW i \in 1..k
                 PROVE  data[i] % r \in 0..(r - 1) /\ data[i] = (data[i] % r) + (IF i < k THEN r ELSE 0)
        OBVIOUS
    <2>1. data[i] \in 0..(2 * r - 1)
        BY <1>2, <1>4, VarintAssumption
    <2>2. CASE i < k
        <3>1. data[i] >= r
            BY <1>1, <1>2, <2>2 DEF LastByte
        <3>2. PICK x \in 0..(r - 1) : data[i] = r + x
            <4>1. data[i] - r \in 0..(r - 1) /\ data[i] = r + (data[i] - r)
                BY <2>1, <3>1
            <4> QED
                BY <4>1
        <3>3. (1 * r + x) % r = x
            BY QuotientIs
        <3>4. 1 * r + x = r + x /\ r + x = x + r
            OBVIOUS
        <3> QED
            BY <2>2, <3>2, <3>3, <3>4
    <2>3. CASE ~(i < k)
        <3>1. data[i] < r
            BY <1>1, <1>2, <2>3 DEF LastByte
        <3>2. PICK x \in 0..(r - 1) : data[i] = x
            BY <2>1, <3>1
        <3>3. (0 * r + x) % r = x
            BY QuotientIs
        <3>4. 0 * r + x = x /\ x = x + 0
            OBVIOUS
        <3> QED
            BY <2>3, <3>2, <3>3, <3>4
    <2> QED
        BY <2>2, <2>3
<1>6. PICK g \in Seq(0..(r - 1)) : g = GroupsRead(data, k) /\ Len(g) = k /\ \A i \in 1..k : g[i] = data[i] % r
    <2>1. GroupsRead(data, k) \in [1..k -> 0..(r - 1)]
        BY <1>2, <1>5 DEF GroupsRead
    <2>2. GroupsRead(data, k) \in Seq(0..(r - 1))
        BY <2>1, SeqDef
    <2>3. Len(GroupsRead(data, k)) = k
        BY <2>1
    <2>4. \A i \in 1..k : GroupsRead(data, k)[i] = data[i] % r
        BY <1>2 DEF GroupsRead
    <2> QED
        BY <2>2, <2>3, <2>4
<1>7. PICK n \in Nat : n = Number(Reverse(g), Group) /\ n \in 0..(U64 - 1)
    <2>1. Reverse(g) \in Seq(0..(r - 1))
        BY ReverseIs
    <2>2. Reverse(g) \in Seq(Nat) /\ r \in Nat
        BY <2>1, DigitsAreNats
    <2>3. Number(Reverse(g), r) \in Nat
        BY <2>2, NumberIn
    <2> QED
        BY <1>2, <1>3, <1>6, <2>3, VarintAssumption
<1>8. Groups(n) = g
    <2>1. PICK d \in Seq(0..(r - 1)) : d = Reverse(g) /\ Len(d) = k /\ Reverse(d) = g
                                      /\ \A i \in 1..k : d[i] = g[(k - i) + 1]
        <3>1. /\ Reverse(g) \in Seq(0..(r - 1)) /\ Len(Reverse(g)) = Len(g) /\ Reverse(Reverse(g)) = g
              /\ \A i \in 1..Len(g) : Reverse(g)[i] = g[(Len(g) - i) + 1]
            BY ReverseIs
        <3> QED
            BY <1>6, <3>1
    <2>2. d[1] = g[k] /\ g[k] = data[k] /\ k \in 1..k
        <3>1. 1 \in 1..k /\ (k - 1) + 1 = k /\ k \in 1..k
            BY <1>4
        <3> QED
            BY <1>5, <1>6, <2>1, <3>1, SMTT(30)
    <2>3. CASE data[k] = 0
        <3>1. k = 1
            BY <1>3, <1>4, <2>3
        <3>2. g = <<0>>
            <4>1. g[1] = 0 /\ Len(g) = 1 /\ g \in [1..1 -> 0..(r - 1)]
                BY <1>6, <2>2, <2>3, <3>1, LenProperties
            <4> QED
                BY <4>1
        <3>3. n = 0
            <4>1. Number(<<0>>, r) = 0
                BY NumberOfZero
            <4>2. Reverse(g) = <<0>>
                BY <3>2 DEF Reverse
            <4> QED
                BY <1>2, <1>7, <4>1, <4>2
        <3> QED
            BY <3>2, <3>3 DEF Groups
    <2>4. CASE data[k] # 0
        <3>1. Canonical(d)
            BY <2>2, <2>4 DEF Canonical
        <3>2. d # << >>
            BY <1>4, <2>1, EmptySeq
        <3>3. Digits(Number(d, r), r) = d /\ Number(d, r) # 0
            BY <3>1, <3>2, SpellingIsDigits
        <3> QED
            BY <1>2, <1>7, <2>1, <3>3 DEF Groups
    <2> QED
        BY <2>3, <2>4
<1>9. PICK u \in Seq(0..(Byte - 1)) : u = SubSeq(data, k + 1, len) /\ data = SubSeq(data, 1, k) \o u
    <2>1. k + 1 \in Int /\ len \in Int /\ \A i \in (k + 1)..len : data[i] \in 0..(Byte - 1)
        BY <1>4
    <2>2. SubSeq(data, k + 1, len) \in Seq(0..(Byte - 1))
        BY <2>1, SubSeqProperties
    <2>3. 1 \in 1..(Len(data) + 1) /\ k \in (1 - 1)..Len(data) /\ len \in k..Len(data)
        BY <1>4
    <2>4. SubSeq(data, 1, k) \o SubSeq(data, k + 1, len) = SubSeq(data, 1, len)
        BY <2>3, ConcatAdjacentSubSeq
    <2>5. SubSeq(data, 1, len) = data
        BY <1>4, SubSeqFull
    <2> QED
        BY <2>2, <2>4, <2>5
<1>10. WriteVarint(n) = SubSeq(data, 1, k)
    <2>1. PICK w \in Seq(0..(Byte - 1)) :
            w = WriteVarint(n) /\ Len(w) = k /\ \A i \in 1..k : w[i] = g[i] + (IF i < k THEN Group ELSE 0)
        <3>1. k \in Nat \ {0} /\ g \in Seq(0..(Group - 1))
            BY <1>2, <1>4
        <3>2. /\ WriteVarint(n) \in Seq(0..(Byte - 1)) /\ Len(WriteVarint(n)) = k
              /\ \A i \in 1..k : WriteVarint(n)[i] = g[i] + (IF i < k THEN Group ELSE 0)
            BY <1>6, <1>8, <3>1, VarintIs
        <3> QED
            BY <3>2
    <2>2. PICK x \in Seq(0..(Byte - 1)) : x = SubSeq(data, 1, k) /\ Len(x) = k /\ \A i \in 1..k : x[i] = data[i]
        <3>1. 1 \in Int /\ k \in Int /\ 1 <= k /\ k - 1 + 1 = k /\ \A i \in 1..k : data[i] \in 0..(Byte - 1)
            BY <1>4
        <3>2. /\ SubSeq(data, 1, k) \in Seq(0..(Byte - 1)) /\ Len(SubSeq(data, 1, k)) = k
              /\ \A i \in 1..k : SubSeq(data, 1, k)[i] = data[1 + i - 1]
            BY <3>1, SubSeqProperties
        <3>3. \A i \in 1..k : 1 + i - 1 = i
            OBVIOUS
        <3> QED
            BY <3>2, <3>3
    <2>3. ASSUME NEW i \in 1..k PROVE w[i] = x[i]
        <3>1. w[i] = g[i] + (IF i < k THEN r ELSE 0)
            BY <1>2, <2>1
        <3>2. g[i] = data[i] % r /\ data[i] = (data[i] % r) + (IF i < k THEN r ELSE 0)
            BY <1>5, <1>6
        <3> QED
            BY <2>2, <3>1, <3>2
    <2> QED
        BY <2>1, <2>2, <2>3, SeqEqual
<1> QED
    BY <1>3, <1>4, <1>6, <1>7, <1>9, <1>10

-----------------------------------------------------------------------------
(* Sequences in pieces *)

\* The loop of FlattenSeq: each piece is put behind the ones before.
FlattenRun(F, ss) == F[0] = << >> /\ \A i \in 1..Len(ss) : F[i] = F[i - 1] \o ss[i]

\* Flattening joins one piece a step.
LEMMA FlattenLoop ==
    ASSUME NEW A, NEW ss \in Seq(Seq(A))
    PROVE  \E F \in [0..Len(ss) -> Seq(A)] : FlattenRun(F, ss) /\ FlattenSeq(ss) = F[Len(ss)]
<1> DEFINE n == Len(ss)
           step == [p \in Seq(A) \X (1..n) |-> p[1] \o ss[p[2]]]
           before == [m \in 1..n |-> m - 1]
           Eq(f) == f = [i \in 1..n |-> IF i = 1 THEN ss[i] ELSE f[i - 1] \o ss[i]]
<1>1. n \in Nat /\ \A i \in 1..n : ss[i] \in Seq(A)
    BY LenProperties, ElementOfSeq
<1>2. << >> \in Seq(A)
    BY EmptySeq
<1>3. PICK F \in [0..n -> Seq(A)] : F[0] = << >> /\ \A i \in 1..n : F[i] = F[i - 1] \o ss[i]
    <2>1. step \in [Seq(A) \X (1..n) -> Seq(A)]
        BY <1>1, ConcatProperties
    <2>2. before \in [1..n -> Nat] /\ \A m \in 1..n : before[m] < m /\ before[m] = m - 1
        BY <1>1
    <2>3. PICK F \in [0..n -> Seq(A)] : F[0] = << >> /\ \A m \in 1..n : F[m] = step[<<F[before[m]], m>>]
        <3>1. Earlier(before, n)
            BY <2>2 DEF Earlier
        <3> HIDE DEF step, before, n
        <3>2. PICK F \in [0..n -> Seq(A)] : Unrolls(F, n, << >>, step, before)
            BY <1>1, <1>2, <2>1, <2>2, <3>1, Recursion
        <3> QED
            BY <3>2 DEF Unrolls
    <2>4. ASSUME NEW i \in 1..n PROVE F[i] = F[i - 1] \o ss[i]
        <3>0. i - 1 \in 0..n
            BY <1>1
        <3>1. i - 1 \in 0..n /\ F[i - 1] \in Seq(A)
            BY <2>3, <3>0
        <3>2. step[<<F[i - 1], i>>] = F[i - 1] \o ss[i]
            BY <3>1
        <3> HIDE DEF step, before
        <3> QED
            BY <2>2, <2>3, <3>2
    <2> QED
        BY <2>3, <2>4
<1>4. 1 \in 1..n => F[1] = ss[1]
    <2> SUFFICES ASSUME 1 \in 1..n PROVE F[1] = ss[1]
        OBVIOUS
    <2>1. ss[1] \in Seq(A)
        BY <1>1
    <2>2. << >> \o ss[1] = ss[1]
        BY <2>1, ConcatEmptySeq
    <2>3. PICK j \in 1..n : j = 1 /\ j - 1 = 0
        OBVIOUS
    <2>4. F[j] = F[j - 1] \o ss[j]
        BY <1>3
    <2> QED
        BY <1>3, <2>2, <2>3, <2>4
<1> DEFINE f == CHOOSE f : Eq(f)
<1>5. Eq(f)
    <2> DEFINE G == [i \in 1..n |-> F[i]]
    <2>1. ASSUME NEW i \in 1..n PROVE G[i] = IF i = 1 THEN ss[i] ELSE G[i - 1] \o ss[i]
        <3>1. CASE i = 1
            BY <1>4, <3>1
        <3>2. CASE i # 1
            <4>1. i - 1 \in 1..n
                BY <1>1, <3>2
            <4> QED
                BY <1>3, <3>2, <4>1
        <3> QED
            BY <3>1, <3>2
    <2>2. Eq(G)
        BY <2>1
    <2> HIDE DEF Eq
    <2> QED
        BY <2>2
<1>6. \A i \in 1..n : f[i] = IF i = 1 THEN ss[i] ELSE f[i - 1] \o ss[i]
    <2>1. f = [i \in 1..n |-> IF i = 1 THEN ss[i] ELSE f[i - 1] \o ss[i]]
        BY <1>5, ZenonT(40)
    <2> HIDE DEF f
    <2> QED
        BY <2>1
<1>7. \A i \in 1..n : f[i] = F[i]
    <2> DEFINE L == {k \in Nat : k + 1 \in 1..n => f[k + 1] = F[k + 1]}
    <2> HIDE DEF f
    <2>1. 0 \in L
        <3> SUFFICES ASSUME 1 \in 1..n PROVE f[1] = F[1]
            OBVIOUS
        <3> QED
            BY <1>4, <1>6
    <2>2. ASSUME NEW k \in Nat, k \in L PROVE k + 1 \in L
        <3> SUFFICES ASSUME (k + 1) + 1 \in 1..n PROVE f[(k + 1) + 1] = F[(k + 1) + 1]
            OBVIOUS
        <3>1. k + 1 \in 1..n /\ ((k + 1) + 1) - 1 = k + 1 /\ (k + 1) + 1 # 1
            BY <1>1
        <3>2. PICK j \in 1..n : j = (k + 1) + 1 /\ j - 1 = k + 1 /\ j # 1
            BY <3>1
        <3>3. f[j] = f[j - 1] \o ss[j]
            BY <1>6, <3>2
        <3>4. F[j] = F[j - 1] \o ss[j]
            BY <1>3
        <3>5. f[j - 1] = F[j - 1]
            BY <2>2, <3>1, <3>2
        <3> QED
            BY <3>2, <3>3, <3>4, <3>5
    <2>3. Nat \subseteq L
        <3> HIDE DEF L
        <3> QED
            BY <2>1, <2>2, Induction
    <2>4. ASSUME NEW i \in 1..n PROVE f[i] = F[i]
        <3>1. i - 1 \in Nat /\ (i - 1) + 1 = i
            OBVIOUS
        <3> QED
            BY <2>3, <3>1
    <2> QED
        BY <2>4
<1>8. FlattenSeq(ss) = F[n]
    <2>1. CASE n = 0
        <3>1. ss = << >>
            BY <2>1, EmptySeq
        <3> QED
            BY <1>3, <2>1, <3>1 DEF FlattenSeq
    <2>2. CASE n # 0
        <3>1. FlattenSeq(ss) = f[n]
            BY <2>2 DEF FlattenSeq
        <3>2. n \in 1..n
            BY <1>1, <2>2
        <3> HIDE DEF f
        <3> QED
            BY <1>7, <3>1, <3>2
    <2> QED
        BY <2>1, <2>2
<1> QED
    BY <1>3, <1>8 DEF FlattenRun

\* Pieces of one kind make a sequence of it.
LEMMA FlattenIn ==
    ASSUME NEW A, NEW ss \in Seq(Seq(A))
    PROVE  FlattenSeq(ss) \in Seq(A)
<1>1. PICK n \in Nat : n = Len(ss) /\ n \in 0..n
    BY LenProperties
<1>2. PICK F \in [0..n -> Seq(A)] : FlattenSeq(ss) = F[n]
    BY <1>1, FlattenLoop
<1> QED
    BY <1>1, <1>2

\* No pieces make nothing.
LEMMA FlattenEmpty == FlattenSeq(<< >>) = << >>
BY EmptySeq DEF FlattenSeq

\* One more piece.
LEMMA FlattenAppend ==
    ASSUME NEW A, NEW ss \in Seq(Seq(A)), NEW x \in Seq(A)
    PROVE  FlattenSeq(Append(ss, x)) = FlattenSeq(ss) \o x
<1>1. PICK n \in Nat : n = Len(ss)
    BY LenProperties
<1>2. PICK tt \in Seq(Seq(A)) :
        tt = Append(ss, x) /\ Len(tt) = n + 1 /\ tt[n + 1] = x /\ \A i \in 1..n : tt[i] = ss[i]
    <2>1. /\ Append(ss, x) \in Seq(Seq(A)) /\ Len(Append(ss, x)) = Len(ss) + 1
          /\ \A i \in 1..Len(ss) : Append(ss, x)[i] = ss[i]
          /\ Append(ss, x)[Len(ss) + 1] = x
        BY AppendIs
    <2> QED
        BY <1>1, <2>1
<1>3. PICK F \in [0..n -> Seq(A)] :
        F[0] = << >> /\ (\A i \in 1..n : F[i] = F[i - 1] \o ss[i]) /\ FlattenSeq(ss) = F[n]
    <2>1. PICK F \in [0..Len(ss) -> Seq(A)] : FlattenRun(F, ss) /\ FlattenSeq(ss) = F[Len(ss)]
        BY FlattenLoop
    <2> QED
        BY <1>1, <2>1 DEF FlattenRun
<1>4. PICK G \in [0..(n + 1) -> Seq(A)] :
        G[0] = << >> /\ (\A i \in 1..(n + 1) : G[i] = G[i - 1] \o tt[i]) /\ FlattenSeq(tt) = G[n + 1]
    <2>1. PICK G \in [0..Len(tt) -> Seq(A)] : FlattenRun(G, tt) /\ FlattenSeq(tt) = G[Len(tt)]
        BY FlattenLoop
    <2> QED
        BY <1>2, <2>1 DEF FlattenRun
<1> DEFINE L == {k \in Nat : k \in 0..n => G[k] = F[k]}
<1>5. 0 \in L
    BY <1>3, <1>4
<1>6. ASSUME NEW k \in Nat, k \in L PROVE k + 1 \in L
    <2> SUFFICES ASSUME k + 1 \in 0..n PROVE G[k + 1] = F[k + 1]
        OBVIOUS
    <2>1. k + 1 \in 1..n /\ k + 1 \in 1..(n + 1) /\ (k + 1) - 1 = k /\ k \in 0..n /\ G[k] = F[k]
        BY <1>6
    <2> QED
        BY <1>2, <1>3, <1>4, <2>1, ZenonT(40)
<1>7. Nat \subseteq L
    <2> HIDE DEF L
    <2> QED
        BY <1>5, <1>6, Induction
<1>8. G[n] = F[n] /\ n + 1 \in 1..(n + 1) /\ (n + 1) - 1 = n
    BY <1>7
<1> QED
    BY <1>2, <1>3, <1>4, <1>8

\* The lesser of two numbers.
LEMMA MinOfPair ==
    ASSUME NEW a \in Nat, NEW b \in Nat, a <= b
    PROVE  Min({a, b}) = a /\ Min({b, a}) = a
<1>1. {a, b} \in SUBSET Nat /\ {a, b} # {} /\ a \in {a, b}
    OBVIOUS
<1>2. Min({a, b}) \in {a, b} /\ Min({a, b}) <= a
    BY <1>1, LeastNat
<1>3. Min({a, b}) = a
    BY <1>2
<1>4. {b, a} = {a, b}
    OBVIOUS
<1> QED
    BY <1>3, <1>4

\* u has as many elements as k whole pieces, x as many as one piece may have.
Joinable(u, x, k, n) == Len(u) = k * n /\ Len(x) \in 1..n

\* Whole pieces and one more, which may be shorter, are cut where they were joined.
LEMMA ChunksJoined ==
    ASSUME NEW A, NEW n \in Nat \ {0}, NEW k \in Nat, NEW u \in Seq(A), NEW x \in Seq(A),
           Joinable(u, x, k, n)
    PROVE  /\ Chunks(u, n) \in Seq(Seq(A)) /\ Len(Chunks(u, n)) = k
           /\ Chunks(u \o x, n) = Append(Chunks(u, n), x)
<1> USE DEF Joinable
<1>1. PICK d \in 1..n : d = Len(x)
    OBVIOUS
<1>2. PICK m \in Nat : m = k * n
    OBVIOUS
<1>3. PICK w \in Seq(A) : w = u \o x /\ Len(w) = m + d
    <2>1. u \o x \in Seq(A) /\ Len(u \o x) = Len(u) + Len(x)
        BY ConcatIs
    <2> QED
        BY <1>1, <1>2, <2>1
<1>4. (m + n - 1) \div n = k /\ (m + d + n - 1) \div n = k + 1
    <2>1. n - 1 \in 0..(n - 1) /\ m + n - 1 = k * n + (n - 1)
        BY <1>2
    <2>2. d - 1 \in 0..(n - 1)
        OBVIOUS
    <2>3. (k + 1) * n = m + n
        BY <1>2
    <2>4. m + d + n - 1 = (k + 1) * n + (d - 1)
        BY <2>3
    <2>5. (k * n + (n - 1)) \div n = k
        BY <2>1, QuotientIs
    <2>6. k + 1 \in Nat
        OBVIOUS
    <2>7. ((k + 1) * n + (d - 1)) \div n = k + 1
        BY <2>2, <2>6, QuotientIs
    <2> QED
        BY <2>1, <2>4, <2>5, <2>7
<1>5. ASSUME NEW i \in 1..k
      PROVE  /\ Min({i * n, m}) = i * n /\ Min({i * n, m + d}) = i * n
             /\ SubSeq(u, (i - 1) * n + 1, i * n) \in Seq(A)
             /\ SubSeq(w, (i - 1) * n + 1, i * n) = SubSeq(u, (i - 1) * n + 1, i * n)
    <2>1. PICK a \in Nat, b \in Nat : a = (i - 1) * n /\ b = i * n /\ b = a + n /\ b <= m
        <3>1. i - 1 \in Nat /\ k - i \in Nat
            OBVIOUS
        <3>2. (i - 1) * n \in Nat /\ i * n \in Nat /\ (k - i) * n \in Nat
            BY <3>1
        <3>3. i * n = (i - 1) * n + n /\ k * n = i * n + (k - i) * n
            OBVIOUS
        <3> QED
            BY <1>2, <3>2, <3>3
    <2>2. Min({b, m}) = b /\ Min({b, m + d}) = b
        <3>1. m + d \in Nat /\ b <= m + d
            BY <2>1
        <3> QED
            BY <2>1, <3>1, MinOfPair
    <2>3. a + 1 \in 1..Len(u) /\ b \in 1..Len(u)
        BY <1>2, <2>1, SMTT(30)
    <2>4. SubSeq(u \o x, a + 1, b) = SubSeq(u, a + 1, b)
        BY <2>3, SubSeqOfConcat1
    <2>5. SubSeq(u, a + 1, b) \in Seq(A)
        <3>1. a + 1 \in Int /\ b \in Int /\ \A j \in (a + 1)..b : j \in 1..Len(u)
            BY <2>3
        <3>2. \A j \in (a + 1)..b : u[j] \in A
            BY <3>1, ElementOfSeq
        <3> QED
            BY <3>1, <3>2, SubSeqProperties
    <2> QED
        BY <1>3, <2>1, <2>2, <2>4, <2>5
<1>6. PICK c \in Seq(Seq(A)) : c = Chunks(u, n) /\ Len(c) = k
                             /\ \A i \in 1..k : c[i] = SubSeq(u, (i - 1) * n + 1, i * n)
    <2>1. Chunks(u, n) = [i \in 1..k |-> SubSeq(u, (i - 1) * n + 1, Min({i * n, m}))]
        BY <1>2, <1>4 DEF Chunks
    <2>2. \A i \in 1..k : Chunks(u, n)[i] = SubSeq(u, (i - 1) * n + 1, i * n)
        BY <1>5, <2>1
    <2>3. Chunks(u, n) \in [1..k -> Seq(A)]
        BY <1>5, <2>1, <2>2
    <2>4. Chunks(u, n) \in Seq(Seq(A)) /\ Len(Chunks(u, n)) = k
        BY <2>3, FunctionIsSeq
    <2> QED
        BY <2>2, <2>4
<1>7. PICK e \in Seq(Seq(A)) : /\ e = Append(c, x) /\ Len(e) = k + 1
                               /\ (\A i \in 1..k : e[i] = c[i]) /\ e[k + 1] = x
    <2>1. /\ Append(c, x) \in Seq(Seq(A)) /\ Len(Append(c, x)) = Len(c) + 1
          /\ \A i \in 1..Len(c) : Append(c, x)[i] = c[i]
          /\ Append(c, x)[Len(c) + 1] = x
        BY AppendIs
    <2> QED
        BY <1>6, <2>1
<1>8. Chunks(w, n) = [i \in 1..(k + 1) |-> SubSeq(w, (i - 1) * n + 1, Min({i * n, m + d}))]
    BY <1>3, <1>4 DEF Chunks
<1>9. ASSUME NEW i \in 1..(k + 1) PROVE SubSeq(w, (i - 1) * n + 1, Min({i * n, m + d})) = e[i]
    <2>1. CASE i = k + 1
        <3>1. (i - 1) * n = m
            BY <1>2, <2>1
        <3>2. PICK b \in Nat : b = i * n /\ m + d <= b
            <4>1. i * n = m + n
                BY <1>2, <2>1
            <4> QED
                BY <4>1
        <3>3. Min({b, m + d}) = m + d
            <4>1. m + d \in Nat
                OBVIOUS
            <4> QED
                BY <3>2, <4>1, MinOfPair
        <3>4. SubSeq(w, m + 1, m + d) = x
            BY <1>2, <1>3, JoinedRest
        <3> QED
            BY <1>7, <2>1, <3>1, <3>2, <3>3, <3>4
    <2>2. CASE i # k + 1
        <3>1. i \in 1..k
            BY <2>2
        <3> QED
            BY <1>5, <1>6, <1>7, <3>1
    <2> QED
        BY <2>1, <2>2
<1>10. Chunks(w, n) = e
    <2>1. e \in [1..(k + 1) -> Seq(A)]
        BY <1>7, LenProperties
    <2> QED
        BY <1>8, <1>9, <2>1
<1> QED
    BY <1>3, <1>6, <1>7, <1>10

\* Nothing has no chunks.
LEMMA ChunksEmpty == \A n \in Nat \ {0} : Chunks(<< >>, n) = << >>
<1> TAKE n \in Nat \ {0}
<1>1. (0 + n - 1) \div n = 0
    <2>1. n - 1 \in 0..(n - 1) /\ 0 \in Nat /\ 0 + n - 1 = 0 * n + (n - 1)
        OBVIOUS
    <2>2. (0 * n + (n - 1)) \div n = 0
        BY <2>1, QuotientIs
    <2> QED
        BY <2>1, <2>2
<1>2. Len(<< >>) = 0
    BY EmptySeq
<1>3. Chunks(<< >>, n) = [i \in 1..0 |-> SubSeq(<< >>, (i - 1) * n + 1, Min({i * n, 0}))]
    BY <1>1, <1>2 DEF Chunks
<1>4. 1..0 = {}
    OBVIOUS
<1> QED
    BY <1>3, <1>4

\* A sequence is what lies before a place in it and what lies after.
ComesApart(s, j, A) == \E v \in Seq(A), x \in Seq(A) : s = v \o x /\ Len(v) = j /\ Len(x) = Len(s) - j

\* A sequence is its two parts, wherever it is cut.
LEMMA CutApart ==
    ASSUME NEW A, NEW s \in Seq(A), NEW j \in 0..Len(s)
    PROVE  ComesApart(s, j, A)
<1>1. PICK n \in Nat : n = Len(s) /\ j \in 0..n /\ j \in Int /\ n \in Int /\ 1 \in Int /\ j + 1 \in Int
    BY LenProperties
<1>2. (\A i \in 1..j : s[i] \in A) /\ (\A i \in (j + 1)..n : s[i] \in A)
    <2>1. \A i \in 1..n : s[i] \in A
        BY <1>1, ElementOfSeq
    <2> QED
        BY <1>1, <2>1
<1>3. SubSeq(s, 1, j) \in Seq(A) /\ Len(SubSeq(s, 1, j)) = j
    <2>1. SubSeq(s, 1, j) \in Seq(A) /\ Len(SubSeq(s, 1, j)) = IF 1 <= j THEN j - 1 + 1 ELSE 0
        BY <1>1, <1>2, SubSeqProperties
    <2> QED
        BY <1>1, <2>1
<1>4. SubSeq(s, j + 1, n) \in Seq(A) /\ Len(SubSeq(s, j + 1, n)) = n - j
    <2>1. SubSeq(s, j + 1, n) \in Seq(A) /\ Len(SubSeq(s, j + 1, n)) = IF j + 1 <= n THEN n - (j + 1) + 1 ELSE 0
        BY <1>1, <1>2, SubSeqProperties
    <2> QED
        BY <1>1, <2>1
<1>5. s = SubSeq(s, 1, j) \o SubSeq(s, j + 1, n)
    <2>1. 1 \in 1..(Len(s) + 1) /\ j \in (1 - 1)..Len(s) /\ n \in j..Len(s)
        BY <1>1
    <2>2. SubSeq(s, 1, j) \o SubSeq(s, j + 1, n) = SubSeq(s, 1, n)
        BY <2>1, ConcatAdjacentSubSeq
    <2>3. SubSeq(s, 1, n) = s
        BY <1>1, SubSeqFull
    <2> QED
        BY <2>2, <2>3
<1> QED
    BY <1>1, <1>3, <1>4, <1>5 DEF ComesApart

\* All pieces are of n elements; or the last one, which is not empty, is shorter.
AllWhole(ss, n) == \A i \in 1..Len(ss) : Len(ss[i]) = n
IsPieces(ss, n) == \A i \in 1..Len(ss) : Len(ss[i]) \in 1..n /\ (i < Len(ss) => Len(ss[i]) = n)

\* No pieces are whole pieces.
LEMMA NoPieces == \A n \in Nat \ {0} : AllWhole(<< >>, n) /\ IsPieces(<< >>, n)
<1>1. Len(<< >>) = 0 /\ 1..0 = {}
    BY EmptySeq
<1> QED
    BY <1>1 DEF AllWhole, IsPieces

\* Pieces with one more: all before the last have to be whole.
LEMMA WholeAppend ==
    ASSUME NEW A, NEW n \in Nat \ {0}, NEW ss \in Seq(Seq(A)), NEW x \in Seq(A)
    PROVE  /\ AllWhole(Append(ss, x), n) <=> AllWhole(ss, n) /\ Len(x) = n
           /\ IsPieces(Append(ss, x), n) <=> AllWhole(ss, n) /\ Len(x) \in 1..n
<1>1. PICK k \in Nat : k = Len(ss)
    BY LenProperties
<1>2. PICK tt \in Seq(Seq(A)) :
        tt = Append(ss, x) /\ Len(tt) = k + 1 /\ tt[k + 1] = x /\ \A i \in 1..k : tt[i] = ss[i]
    <2>1. /\ Append(ss, x) \in Seq(Seq(A)) /\ Len(Append(ss, x)) = Len(ss) + 1
          /\ \A i \in 1..Len(ss) : Append(ss, x)[i] = ss[i]
          /\ Append(ss, x)[Len(ss) + 1] = x
        BY AppendIs
    <2> QED
        BY <1>1, <2>1
<1>3. k + 1 \in 1..(k + 1) /\ (\A i \in 1..k : i \in 1..(k + 1) /\ i < k + 1)
      /\ (\A i \in 1..(k + 1) : i \in 1..k \/ i = k + 1) /\ ~(k + 1 < k + 1)
    OBVIOUS
<1>4. AllWhole(tt, n) <=> AllWhole(ss, n) /\ Len(x) = n
    BY <1>1, <1>2, <1>3 DEF AllWhole
<1>5. IsPieces(tt, n) <=> AllWhole(ss, n) /\ Len(x) \in 1..n
    <2>1. ASSUME IsPieces(tt, n) PROVE AllWhole(ss, n) /\ Len(x) \in 1..n
        BY <1>1, <1>2, <1>3, <2>1 DEF AllWhole, IsPieces
    <2>2. ASSUME AllWhole(ss, n), Len(x) \in 1..n PROVE IsPieces(tt, n)
        <3> SUFFICES ASSUME NEW i \in 1..(k + 1)
                     PROVE  Len(tt[i]) \in 1..n /\ (i < k + 1 => Len(tt[i]) = n)
            BY <1>2 DEF IsPieces
        <3>1. CASE i = k + 1
            BY <1>2, <2>2, <3>1
        <3>2. CASE i # k + 1
            <4>1. i \in 1..k /\ tt[i] = ss[i]
                BY <1>2, <3>2
            <4>2. Len(ss[i]) = n /\ n \in 1..n
                BY <1>1, <2>2, <4>1 DEF AllWhole
            <4> QED
                BY <4>1, <4>2
        <3> QED
            BY <3>1, <3>2
    <2> QED
        BY <2>1, <2>2
<1> QED
    BY <1>2, <1>4, <1>5

\* As many elements as whole pieces have are cut into whole pieces, ...
LEMMA WholeChunks ==
    ASSUME NEW A, NEW n \in Nat \ {0}, NEW k \in Nat, NEW s \in Seq(A), Len(s) = k * n
    PROVE  /\ Chunks(s, n) \in Seq(Seq(A)) /\ AllWhole(Chunks(s, n), n) /\ FlattenSeq(Chunks(s, n)) = s
<1> DEFINE Ok(u) == /\ Chunks(u, n) \in Seq(Seq(A)) /\ AllWhole(Chunks(u, n), n)
                    /\ FlattenSeq(Chunks(u, n)) = u
           L == {j \in Nat : \A u \in Seq(A) : Len(u) = j * n => Ok(u)}
<1>1. 0 \in L
    <2> SUFFICES ASSUME NEW u \in Seq(A), Len(u) = 0 * n PROVE Ok(u)
        OBVIOUS
    <2>1. 0 * n = 0
        OBVIOUS
    <2>2. u = << >> /\ << >> \in Seq(Seq(A)) /\ Len(<< >>) = 0
        BY <2>1, EmptySeq
    <2>3. Chunks(u, n) = << >>
        BY <2>2, ChunksEmpty
    <2> QED
        BY <2>2, <2>3, FlattenEmpty, NoPieces
<1>2. ASSUME NEW j \in Nat, j \in L PROVE j + 1 \in L
    <2> SUFFICES ASSUME NEW u \in Seq(A), Len(u) = (j + 1) * n PROVE Ok(u)
        OBVIOUS
    <2>1. PICK m \in Nat : m = j * n /\ Len(u) = m + n
        <3>1. (j + 1) * n = j * n + n /\ j * n \in Nat
            OBVIOUS
        <3> QED
            BY <3>1
    <2>2. PICK v \in Seq(A), x \in Seq(A) : u = v \o x /\ Len(v) = m /\ Len(x) = Len(u) - m
        <3>1. m \in 0..Len(u)
            BY <2>1
        <3>2. ComesApart(u, m, A)
            BY <3>1, CutApart
        <3> QED
            BY <3>2 DEF ComesApart
    <2>3. Len(v) = j * n /\ Len(x) = n /\ Len(x) \in 1..n /\ Joinable(v, x, j, n)
        BY <2>1, <2>2 DEF Joinable
    <2>4. PICK c \in Seq(Seq(A)) : c = Chunks(v, n) /\ AllWhole(c, n) /\ FlattenSeq(c) = v
        BY <1>2, <2>3
    <2>5. Chunks(u, n) = Append(c, x)
        <3>1. Chunks(v \o x, n) = Append(Chunks(v, n), x)
            BY <2>3, ChunksJoined
        <3> QED
            BY <2>2, <2>4, <3>1
    <2>6. FlattenSeq(Append(c, x)) = u
        BY <2>2, <2>4, FlattenAppend
    <2>7. AllWhole(Append(c, x), n)
        BY <2>3, <2>4, WholeAppend
    <2>8. Append(c, x) \in Seq(Seq(A))
        BY AppendIs
    <2> QED
        BY <2>5, <2>6, <2>7, <2>8
<1>3. Nat \subseteq L
    <2> HIDE DEF L
    <2> QED
        BY <1>1, <1>2, Induction
<1>4. Ok(s)
    BY <1>3
<1> QED
    BY <1>4

\* ... and the other way round.
LEMMA WholePieces ==
    ASSUME NEW A, NEW n \in Nat \ {0}, NEW ss \in Seq(Seq(A)), AllWhole(ss, n)
    PROVE  Len(FlattenSeq(ss)) = Len(ss) * n /\ Chunks(FlattenSeq(ss), n) = ss
<1> DEFINE Ok(tt) == Len(FlattenSeq(tt)) = Len(tt) * n /\ Chunks(FlattenSeq(tt), n) = tt
           S == {tt \in Seq(Seq(A)) : AllWhole(tt, n) => Ok(tt)}
<1>1. << >> \in S
    <2>1. << >> \in Seq(Seq(A)) /\ Len(<< >>) = 0 /\ 0 = 0 * n
        BY EmptySeq
    <2>2. Ok(<< >>)
        BY <2>1, FlattenEmpty, ChunksEmpty
    <2> QED
        BY <2>1, <2>2
<1>2. ASSUME NEW tt \in Seq(Seq(A)), NEW x \in Seq(A), tt \in S PROVE Append(tt, x) \in S
    <2>1. Append(tt, x) \in Seq(Seq(A)) /\ Len(Append(tt, x)) = Len(tt) + 1 /\ Len(tt) \in Nat
        BY AppendIs, LenProperties
    <2> SUFFICES ASSUME AllWhole(Append(tt, x), n) PROVE Ok(Append(tt, x))
        BY <2>1
    <2>2. AllWhole(tt, n) /\ Len(x) = n /\ Len(x) \in 1..n
        <3>1. AllWhole(tt, n) /\ Len(x) = n
            BY WholeAppend
        <3> QED
            BY <3>1
    <2>3. PICK u \in Seq(A) : u = FlattenSeq(tt) /\ Len(u) = Len(tt) * n /\ Chunks(u, n) = tt
        BY <1>2, <2>2, FlattenIn
    <2>4. FlattenSeq(Append(tt, x)) = u \o x
        BY <2>3, FlattenAppend
    <2>5. Len(u \o x) = (Len(tt) + 1) * n
        <3>1. Len(u \o x) = Len(u) + Len(x)
            BY ConcatIs
        <3>2. PICK k \in Nat : k = Len(tt)
            BY <2>1
        <3>3. (k + 1) * n = k * n + n
            OBVIOUS
        <3> QED
            BY <2>2, <2>3, <3>1, <3>2, <3>3
    <2>6. Chunks(u \o x, n) = Append(tt, x)
        <3>1. PICK k \in Nat : k = Len(tt)
            BY <2>1
        <3>2. Joinable(u, x, k, n)
            BY <2>2, <2>3, <3>1 DEF Joinable
        <3>3. Chunks(u \o x, n) = Append(Chunks(u, n), x)
            BY <3>2, ChunksJoined
        <3> QED
            BY <2>3, <3>3
    <2> QED
        BY <2>1, <2>4, <2>5, <2>6
<1>3. Seq(Seq(A)) \subseteq S
    <2> HIDE DEF S
    <2> QED
        BY <1>1, <1>2, SequenceInduction
<1>4. Ok(ss)
    BY <1>3
<1> QED
    BY <1>4

\* Cut into pieces, every sequence is put together again; and pieces put together are cut as
\* they were.
LEMMA ChunksArePieces ==
    ASSUME NEW A, NEW n \in Nat \ {0}, NEW s \in Seq(A)
    PROVE  Chunks(s, n) \in Seq(Seq(A)) /\ IsPieces(Chunks(s, n), n) /\ FlattenSeq(Chunks(s, n)) = s
<1>1. CASE s = << >>
    <2>1. Chunks(s, n) = << >> /\ << >> \in Seq(Seq(A)) /\ Len(<< >>) = 0
        BY <1>1, ChunksEmpty, EmptySeq
    <2> QED
        BY <1>1, <2>1, FlattenEmpty, NoPieces
<1>2. CASE s # << >>
    <2>1. PICK m \in Nat : Len(s) = m + 1
        <3>1. Len(s) \in Nat \ {0}
            BY <1>2, EmptySeq
        <3>2. Len(s) - 1 \in Nat /\ Len(s) = (Len(s) - 1) + 1
            BY <3>1
        <3> QED
            BY <3>2, ZenonT(40)
    <2>2. PICK q \in Nat, d \in 0..(n - 1) : m = n * q + d
        <3>1. m \div n \in Nat /\ m % n \in 0..(n - 1) /\ m = n * (m \div n) + (m % n)
            BY Division
        <3> QED
            BY <3>1
    <2>3. PICK j \in Nat : j = q * n /\ Len(s) = j + (d + 1)
        <3>1. q * n \in Nat /\ n * q = q * n
            OBVIOUS
        <3> QED
            BY <2>1, <2>2, <3>1
    <2>4. PICK v \in Seq(A), x \in Seq(A) : s = v \o x /\ Len(v) = j /\ Len(x) = Len(s) - j
        <3>1. j \in 0..Len(s)
            BY <2>3
        <3>2. ComesApart(s, j, A)
            BY <3>1, CutApart
        <3> QED
            BY <3>2 DEF ComesApart
    <2>5. Len(v) = q * n /\ Len(x) \in 1..n /\ Joinable(v, x, q, n)
        BY <2>3, <2>4 DEF Joinable
    <2>6. PICK c \in Seq(Seq(A)) : c = Chunks(v, n) /\ AllWhole(c, n) /\ FlattenSeq(c) = v
        BY <2>5, WholeChunks
    <2>7. Chunks(s, n) = Append(c, x)
        <3>1. Chunks(v \o x, n) = Append(Chunks(v, n), x)
            BY <2>5, ChunksJoined
        <3> QED
            BY <2>4, <2>6, <3>1
    <2>8. FlattenSeq(Append(c, x)) = s
        BY <2>4, <2>6, FlattenAppend
    <2>9. IsPieces(Append(c, x), n)
        BY <2>5, <2>6, WholeAppend
    <2>10. Append(c, x) \in Seq(Seq(A))
        BY AppendIs
    <2> QED
        BY <2>7, <2>8, <2>9, <2>10
<1> QED
    BY <1>1, <1>2

\* Pieces of which all but the last are whole are the chunks of what they make.
LEMMA PiecesAreChunks ==
    ASSUME NEW A, NEW n \in Nat \ {0}, NEW ss \in Seq(Seq(A)), IsPieces(ss, n)
    PROVE  FlattenSeq(ss) \in Seq(A) /\ Chunks(FlattenSeq(ss), n) = ss
<1>1. FlattenSeq(ss) \in Seq(A)
    BY FlattenIn
<1>2. CASE ss = << >>
    BY <1>1, <1>2, FlattenEmpty, ChunksEmpty
<1>3. CASE ss # << >>
    <2>1. PICK tt \in Seq(Seq(A)), x \in Seq(A) : ss = Append(tt, x)
        BY <1>3, LastApart
    <2>2. AllWhole(tt, n) /\ Len(x) \in 1..n
        BY <2>1, WholeAppend
    <2>3. PICK u \in Seq(A), k \in Nat : u = FlattenSeq(tt) /\ k = Len(tt) /\ Len(u) = k * n /\ Chunks(u, n) = tt
        BY <2>2, WholePieces, FlattenIn, LenProperties
    <2>4. Chunks(u \o x, n) = Append(tt, x)
        <3>1. Joinable(u, x, k, n)
            BY <2>2, <2>3 DEF Joinable
        <3> QED
            BY <2>2, <2>3, <3>1, ChunksJoined
    <2>5. FlattenSeq(ss) = u \o x
        BY <2>1, <2>3, FlattenAppend
    <2> QED
        BY <1>1, <2>1, <2>4, <2>5
<1> QED
    BY <1>2, <1>3

-----------------------------------------------------------------------------
(* CryptoNote base58 *)

\* A longer block has more digits, and every block has some.
LEMMA EncLenGrows ==
    ASSUME NEW k \in 1..BLOCK
    PROVE  ENC_LEN[k] \in Nat \ {0} /\ \A j \in 1..(k - 1) : ENC_LEN[j] < ENC_LEN[k]
<1>1. PICK n \in Nat \ {0} : n = BLOCK
    BY BlockAssumption
<1>2. \A i \in 1..n : ENC_LEN[i] \in Nat /\ (i > 1 => ENC_LEN[i - 1] < ENC_LEN[i])
    BY <1>1, BlockAssumption
<1>3. ENC_LEN[1] # 0
    <2> SUFFICES ASSUME ENC_LEN[1] = 0 PROVE FALSE
        OBVIOUS
    <2>1. Power(Digit, 0) = 1
        BY PowerZero, RadixAssumption
    <2>2. Power(Byte, 1) = Byte
        <3>1. 0 \in Nat /\ 0 + 1 = 1 /\ Byte \in Nat
            BY RadixAssumption
        <3>2. Power(Byte, 0 + 1) = Byte * Power(Byte, 0) /\ Power(Byte, 0) = 1
            BY <3>1, PowerStep, PowerZero
        <3> QED
            BY <3>1, <3>2
    <2>3. 1 \in 1..n
        OBVIOUS
    <2>4. Power(Digit, ENC_LEN[1]) >= Power(Byte, 1)
        BY <1>1, <2>3, BlockAssumption
    <2> QED
        BY <2>1, <2>2, <2>4, RadixAssumption
<1> DEFINE L == {i \in Nat : i + 1 \in 1..n =>
                    ENC_LEN[i + 1] \in Nat \ {0} /\ \A j \in 1..i : ENC_LEN[j] < ENC_LEN[i + 1]}
<1>4. 0 \in L
    BY <1>2, <1>3
<1>5. ASSUME NEW i \in Nat, i \in L PROVE i + 1 \in L
    <2> SUFFICES ASSUME (i + 1) + 1 \in 1..n
                 PROVE  /\ ENC_LEN[(i + 1) + 1] \in Nat \ {0}
                        /\ \A j \in 1..(i + 1) : ENC_LEN[j] < ENC_LEN[(i + 1) + 1]
        OBVIOUS
    <2>1. PICK a \in 1..n, b \in 1..n : a = i + 1 /\ b = (i + 1) + 1 /\ b - 1 = a /\ b > 1
        OBVIOUS
    <2>2. ENC_LEN[a] \in Nat \ {0} /\ (\A j \in 1..i : ENC_LEN[j] < ENC_LEN[a])
        BY <1>5, <2>1
    <2>3. ENC_LEN[b] \in Nat /\ ENC_LEN[a] < ENC_LEN[b]
        BY <1>2, <2>1
    <2>4. ASSUME NEW j \in 1..a PROVE ENC_LEN[j] < ENC_LEN[b]
        <3>1. CASE j = a
            BY <2>3, <3>1
        <3>2. CASE j # a
            <4>1. j \in 1..i /\ j \in 1..n
                BY <2>1, <3>2
            <4>2. ENC_LEN[j] < ENC_LEN[a] /\ ENC_LEN[j] \in Nat
                BY <1>2, <2>2, <4>1
            <4> QED
                BY <2>2, <2>3, <4>2
        <3> QED
            BY <3>1, <3>2
    <2>5. ENC_LEN[b] # 0
        BY <2>2, <2>3
    <2> QED
        BY <2>1, <2>3, <2>4, <2>5
<1>6. Nat \subseteq L
    <2> HIDE DEF L
    <2> QED
        BY <1>4, <1>5, Induction
<1>7. k - 1 \in Nat /\ (k - 1) + 1 = k /\ k \in 1..n
    BY <1>1
<1>8. k - 1 \in L
    BY <1>6, <1>7
<1> QED
    BY <1>7, <1>8

\* A length of text belongs to one length of block (ENC_LEN grows).
LEMMA OneBlockLength ==
    ASSUME NEW j \in 1..BLOCK, NEW k \in 1..BLOCK, ENC_LEN[j] = ENC_LEN[k]
    PROVE  j = k
<1>1. PICK n \in Nat \ {0} : n = BLOCK
    BY BlockAssumption
<1>2. ASSUME j < k PROVE FALSE
    <2>1. j \in 1..(k - 1)
        BY <1>1, <1>2
    <2>2. ENC_LEN[j] < ENC_LEN[k] /\ ENC_LEN[k] \in Nat \ {0}
        BY <2>1, EncLenGrows
    <2> QED
        BY <2>2
<1>3. ASSUME k < j PROVE FALSE
    <2>1. k \in 1..(j - 1)
        BY <1>1, <1>3
    <2>2. ENC_LEN[k] < ENC_LEN[j] /\ ENC_LEN[j] \in Nat \ {0}
        BY <2>1, EncLenGrows
    <2> QED
        BY <2>2
<1> QED
    BY <1>1, <1>2, <1>3

\* A block of bytes has the digits its length gives it, and they are read back.
LEMMA BlockIs ==
    ASSUME NEW k \in 1..BLOCK, NEW block \in Seq(0..(Byte - 1)), Len(block) = k
    PROVE  /\ EncodeBlock(block) \in Seq(0..(Digit - 1)) /\ Len(EncodeBlock(block)) = ENC_LEN[k]
           /\ DecodeBlock(EncodeBlock(block)) = {block}
<1>1. PICK w \in Nat \ {0} : w = ENC_LEN[k]
    BY EncLenGrows
<1>2. PICK b \in Nat \ {0, 1}, r \in Nat \ {0, 1} : b = Byte /\ r = Digit
    BY RadixAssumption
<1>3. k \in Nat
    BY BlockAssumption
<1>4. PICK num \in Nat : num = Number(block, b) /\ num < Power(b, k)
    BY <1>2, NumberFits
<1>5. num < Power(r, w)
    <2>1. Power(r, w) >= Power(b, k)
        BY <1>1, <1>2, BlockAssumption
    <2>2. Power(r, w) \in Nat /\ Power(b, k) \in Nat
        BY <1>3, PowerIn
    <2> QED
        BY <1>4, <2>1, <2>2
<1>6. PICK e \in Seq(0..(r - 1)) : e = Padded(num, r, w) /\ Len(e) = w /\ Number(e, r) = num
    <2>1. /\ Padded(num, r, w) \in Seq(0..(r - 1)) /\ Len(Padded(num, r, w)) = w
          /\ Number(Padded(num, r, w), r) = num
        BY <1>5, PaddedSpells
    <2> QED
        BY <2>1
<1>7. EncodeBlock(block) = e
    BY <1>1, <1>2, <1>4, <1>6 DEF EncodeBlock
<1>8. Padded(num, b, k) = block
    BY <1>2, <1>4, SpellingIsPadded
<1>9. {j \in 1..BLOCK : ENC_LEN[j] = Len(e)} = {k}
    BY <1>1, <1>6, OneBlockLength
<1>10. IsDigits(e)
    BY <1>2, DigitsAreTexts, TextIsDigits
<1>11. DecodeBlock(e) = {block}
    BY <1>2, <1>4, <1>6, <1>8, <1>9, <1>10 DEF DecodeBlock
<1> QED
    BY <1>1, <1>2, <1>6, <1>7, <1>11

\* What is read of a block of digits is a block of bytes that encodes to it.
LEMMA DecodedBlockIs ==
    ASSUME NEW block \in Seq(0..Digit), NEW bytes \in DecodeBlock(block)
    PROVE  \E k \in 1..BLOCK : /\ ENC_LEN[k] = Len(block) /\ bytes \in Seq(0..(Byte - 1)) /\ Len(bytes) = k
                               /\ EncodeBlock(bytes) = block
<1>1. PICK b \in Nat \ {0, 1}, r \in Nat \ {0, 1} : b = Byte /\ r = Digit
    BY RadixAssumption
<1>2. block \in Seq(0..(r - 1))
    BY <1>1, TextIsDigits DEF DecodeBlock
<1>3. PICK num \in Nat : num = Number(block, r)
    BY <1>2, DigitsAreNats, NumberIn
<1>4. PICK k \in 1..BLOCK : ENC_LEN[k] = Len(block) /\ num < Power(b, k) /\ bytes = Padded(num, b, k)
    BY <1>1, <1>3 DEF DecodeBlock
<1>5. k \in Nat
    BY BlockAssumption
<1>6. bytes \in Seq(0..(b - 1)) /\ Len(bytes) = k /\ Number(bytes, b) = num
    BY <1>4, <1>5, PaddedSpells
<1>7. Padded(num, r, Len(block)) = block
    BY <1>2, <1>3, SpellingIsPadded
<1>8. EncodeBlock(bytes) = block
    BY <1>1, <1>4, <1>6, <1>7 DEF EncodeBlock
<1> QED
    BY <1>1, <1>4, <1>6, <1>8

\* Of one there is one choice.
LEMMA ChooseOne == \A S, x : S = {x} => (CHOOSE y \in S : TRUE) = x
OBVIOUS

\* What is chosen is there.
LEMMA ChooseIn == \A S : S # {} => (CHOOSE y \in S : TRUE) \in S
OBVIOUS

\* Bytes c, block by block, are written as e, whose texts in a row are t.
InBlocks(bytes, t, c, e) ==
    /\ c = Chunks(bytes, BLOCK) /\ IsPieces(c, BLOCK) /\ FlattenSeq(c) = bytes /\ Len(e) = Len(c)
    /\ \A i \in 1..Len(c) : e[i] = EncodeBlock(c[i]) /\ DecodeBlock(e[i]) = {c[i]}
    /\ t = FlattenSeq(e) /\ Chunks(t, ENC_LEN[BLOCK]) = e
Blocked(bytes, t) == \E c \in Seq(Seq(0..(Byte - 1))), e \in Seq(Seq(0..(Digit - 1))) : InBlocks(bytes, t, c, e)

\* What bytes are written as is cut again where their blocks end.
LEMMA BlocksApart ==
    ASSUME NEW bytes \in Seq(0..(Byte - 1))
    PROVE  Blocked(bytes, BlockEncode(bytes))
<1> DEFINE B == 0..(Byte - 1)
           D == 0..(Digit - 1)
<1>1. PICK n \in Nat \ {0} : n = BLOCK
    BY BlockAssumption
<1>2. PICK c \in Seq(Seq(B)) : c = Chunks(bytes, n) /\ IsPieces(c, n) /\ FlattenSeq(c) = bytes
    BY ChunksArePieces
<1>3. PICK m \in Nat : m = Len(c) /\ DOMAIN c = 1..m /\ \A i \in 1..m : c[i] \in Seq(B)
    BY LenProperties, ElementOfSeq
<1>4. \A i \in 1..m : Len(c[i]) \in 1..n /\ (i < m => Len(c[i]) = n)
    BY <1>2, <1>3 DEF IsPieces
<1>5. PICK full \in Nat \ {0} : full = ENC_LEN[BLOCK]
    <2>1. BLOCK \in 1..BLOCK
        BY BlockAssumption
    <2> QED
        BY <2>1, EncLenGrows
<1>6. ASSUME NEW i \in 1..m
      PROVE  /\ EncodeBlock(c[i]) \in Seq(D) /\ DecodeBlock(EncodeBlock(c[i])) = {c[i]}
             /\ Len(EncodeBlock(c[i])) \in 1..full /\ (i < m => Len(EncodeBlock(c[i])) = full)
    <2>1. PICK k \in 1..n : k = Len(c[i]) /\ (i < m => k = n)
        BY <1>4
    <2>2. /\ EncodeBlock(c[i]) \in Seq(D) /\ Len(EncodeBlock(c[i])) = ENC_LEN[k]
          /\ DecodeBlock(EncodeBlock(c[i])) = {c[i]}
        BY <1>1, <1>3, <2>1, BlockIs
    <2>3. ENC_LEN[k] \in 1..full
        <3>1. CASE k = n
            <4>1. full \in 1..full
                OBVIOUS
            <4> QED
                BY <1>1, <1>5, <3>1, <4>1
        <3>2. CASE k # n
            <4>1. n \in 1..BLOCK /\ k \in 1..(n - 1) /\ k \in 1..BLOCK
                BY <1>1, <3>2
            <4>2. ENC_LEN[k] < ENC_LEN[n] /\ ENC_LEN[k] \in Nat \ {0}
                BY <4>1, EncLenGrows
            <4> QED
                BY <1>1, <1>5, <4>2
        <3> QED
            BY <3>1, <3>2
    <2>4. i < m => ENC_LEN[k] = full
        BY <1>1, <1>5, <2>1
    <2> QED
        BY <2>2, <2>3, <2>4
<1>7. PICK e \in Seq(Seq(D)) : Len(e) = m /\ (\A i \in 1..m : e[i] = EncodeBlock(c[i])) /\ BlockEncode(bytes) = FlattenSeq(e)
    <2> DEFINE f == [i \in 1..m |-> EncodeBlock(c[i])]
    <2>1. f \in [1..m -> Seq(D)]
        BY <1>6
    <2>2. \A i \in 1..m : f[i] = EncodeBlock(c[i])
        OBVIOUS
    <2>3. BlockEncode(bytes) = FlattenSeq(f)
        BY <1>1, <1>2, <1>3 DEF BlockEncode
    <2> HIDE DEF f
    <2>4. f \in Seq(Seq(D)) /\ Len(f) = m
        BY <2>1, FunctionIsSeq
    <2> QED
        BY <2>2, <2>3, <2>4
<1>8. IsPieces(e, full)
    BY <1>6, <1>7 DEF IsPieces
<1>9. PICK t \in Seq(D) : t = FlattenSeq(e) /\ Chunks(t, full) = e
    <2>1. FlattenSeq(e) \in Seq(D) /\ Chunks(FlattenSeq(e), full) = e
        BY <1>8, PiecesAreChunks
    <2> QED
        BY <2>1
<1>10. InBlocks(bytes, t, c, e)
    <2>1. \A i \in 1..m : e[i] = EncodeBlock(c[i]) /\ DecodeBlock(e[i]) = {c[i]}
        BY <1>6, <1>7
    <2> QED
        BY <1>1, <1>2, <1>3, <1>5, <1>7, <1>9, <2>1 DEF InBlocks
<1>11. t = BlockEncode(bytes)
    BY <1>7, <1>9
<1> QED
    BY <1>10, <1>11 DEF Blocked

\* Bytes of any length written in blocks are read back, whatever the last block holds
\* (codec/cryptonote.rs encode, decode).
THEOREM BlockReadsBack ==
    ASSUME NEW bytes \in Seq(0..(Byte - 1))
    PROVE  BlockEncode(bytes) \in Seq(0..(Digit - 1)) /\ BlockDecode(BlockEncode(bytes)) = {bytes}
<1> DEFINE B == 0..(Byte - 1)
           D == 0..(Digit - 1)
<1>1. PICK t : t = BlockEncode(bytes)
    OBVIOUS
<1>2. PICK c \in Seq(Seq(B)), e \in Seq(Seq(D)) : InBlocks(bytes, t, c, e)
    BY <1>1, BlocksApart DEF Blocked
<1>3. PICK m \in Nat : m = Len(c) /\ DOMAIN c = 1..m /\ \A i \in 1..m : c[i] \in Seq(B)
    BY LenProperties, ElementOfSeq
<1>4. /\ FlattenSeq(c) = bytes /\ Len(e) = m /\ t = FlattenSeq(e) /\ Chunks(t, ENC_LEN[BLOCK]) = e
      /\ \A i \in 1..m : DecodeBlock(e[i]) = {c[i]}
    BY <1>2, <1>3 DEF InBlocks
<1>5. t \in Seq(D)
    BY <1>4, FlattenIn
<1>6. DOMAIN e = 1..m
    BY <1>4, LenProperties
<1>7. PICK d : d = [i \in 1..m |-> DecodeBlock(e[i])]
    OBVIOUS
<1>8. \A i \in 1..m : d[i] = {c[i]}
    BY <1>4, <1>7
<1>9. DOMAIN d = 1..m
    BY <1>7
<1>10. \A i \in 1..m : (CHOOSE x \in d[i] : TRUE) = c[i]
    BY <1>8, ChooseOne
<1>11. [i \in DOMAIN d |-> CHOOSE x \in d[i] : TRUE] = c
    <2>1. [i \in DOMAIN d |-> CHOOSE x \in d[i] : TRUE] = [i \in 1..m |-> c[i]]
        BY <1>9, <1>10
    <2>2. c \in [1..m -> Seq(B)]
        BY <1>3, LenProperties
    <2>3. c = [i \in 1..m |-> c[i]]
        BY <2>2
    <2> QED
        BY <2>1, <2>3
<1>12. ~ \E i \in DOMAIN d : d[i] = {}
    BY <1>8, <1>9
<1>13. BlockDecode(t) = {FlattenSeq([i \in DOMAIN d |-> CHOOSE x \in d[i] : TRUE])}
    <2> DEFINE read == [i \in DOMAIN Chunks(t, ENC_LEN[BLOCK]) |->
                            DecodeBlock(Chunks(t, ENC_LEN[BLOCK])[i])]
    <2>1. read = d
        BY <1>4, <1>6, <1>7
    <2>2. BlockDecode(t) =
              IF \E i \in DOMAIN read : read[i] = {} THEN {}
              ELSE {FlattenSeq([i \in DOMAIN read |-> CHOOSE x \in read[i] : TRUE])}
        BY DEF BlockDecode
    <2> HIDE DEF read
    <2> QED
        BY <1>12, <2>1, <2>2
<1> QED
    BY <1>1, <1>4, <1>5, <1>11, <1>13

\* Whatever text is read in blocks, encoding the bytes it gives writes that text again: no
\* block has a second spelling, and no length is read that the encoder does not write.
THEOREM BlockOneSpelling ==
    ASSUME NEW t \in Seq(0..Digit), NEW bytes \in BlockDecode(t)
    PROVE  bytes \in Seq(0..(Byte - 1)) /\ BlockEncode(bytes) = t
<1> DEFINE B == 0..(Byte - 1)
           D == 0..Digit
<1>1. PICK n \in Nat \ {0} : n = BLOCK
    BY BlockAssumption
<1>2. n \in 1..BLOCK
    BY <1>1
<1>3. PICK full \in Nat \ {0} : full = ENC_LEN[n]
    BY <1>2, EncLenGrows
<1>4. PICK c \in Seq(Seq(D)) : c = Chunks(t, full) /\ IsPieces(c, full) /\ FlattenSeq(c) = t
    BY ChunksArePieces
<1>5. PICK m \in Nat : m = Len(c) /\ DOMAIN c = 1..m /\ \A i \in 1..m : c[i] \in Seq(D)
    BY LenProperties, ElementOfSeq
<1>6. \A i \in 1..m : Len(c[i]) \in 1..full /\ (i < m => Len(c[i]) = full)
    BY <1>4, <1>5 DEF IsPieces
<1>7. PICK d : d = [i \in 1..m |-> DecodeBlock(c[i])]
    OBVIOUS
<1>8. DOMAIN d = 1..m /\ \A i \in 1..m : d[i] = DecodeBlock(c[i])
    BY <1>7
<1>9. /\ ~ \E i \in DOMAIN d : d[i] = {}
      /\ bytes = FlattenSeq([i \in DOMAIN d |-> CHOOSE x \in d[i] : TRUE])
    BY <1>1, <1>3, <1>4, <1>5, <1>7 DEF BlockDecode
<1>10. PICK f : f = [i \in 1..m |-> CHOOSE x \in d[i] : TRUE]
    OBVIOUS
<1>11. ASSUME NEW i \in 1..m PROVE f[i] \in DecodeBlock(c[i])
    <2>1. d[i] # {} /\ f[i] = CHOOSE x \in d[i] : TRUE
        BY <1>8, <1>9, <1>10
    <2>2. (CHOOSE x \in d[i] : TRUE) \in d[i]
        BY <2>1, ChooseIn
    <2> QED
        BY <1>8, <2>1, <2>2
<1>12. ASSUME NEW i \in 1..m
       PROVE  /\ f[i] \in Seq(B) /\ Len(f[i]) \in 1..n /\ (i < m => Len(f[i]) = n)
              /\ EncodeBlock(f[i]) = c[i]
    <2>1. PICK k \in 1..BLOCK : /\ ENC_LEN[k] = Len(c[i]) /\ f[i] \in Seq(B) /\ Len(f[i]) = k
                                /\ EncodeBlock(f[i]) = c[i]
        BY <1>5, <1>11, DecodedBlockIs
    <2>2. ASSUME i < m PROVE k = n
        <3>1. ENC_LEN[k] = ENC_LEN[n]
            BY <1>3, <1>6, <2>1, <2>2
        <3> QED
            BY <1>2, <3>1, OneBlockLength
    <2> QED
        BY <1>1, <2>1, <2>2
<1>13. PICK p \in Seq(Seq(B)) : p = f /\ Len(p) = m
    <2>1. DOMAIN f = 1..m
        BY <1>10
    <2>2. f \in [1..m -> Seq(B)]
        BY <1>10, <1>12, <2>1
    <2> QED
        BY <2>2, FunctionIsSeq
<1>14. IsPieces(p, n)
    BY <1>12, <1>13 DEF IsPieces
<1>15. bytes = FlattenSeq(p)
    BY <1>8, <1>9, <1>10, <1>13
<1>16. bytes \in Seq(B) /\ Chunks(bytes, n) = p
    BY <1>14, <1>15, PiecesAreChunks
<1>17. BlockEncode(bytes) = FlattenSeq([i \in 1..m |-> EncodeBlock(p[i])])
    <2>1. DOMAIN p = 1..m
        BY <1>13, LenProperties
    <2> QED
        BY <1>1, <1>16, <2>1 DEF BlockEncode
<1>18. [i \in 1..m |-> EncodeBlock(p[i])] = c
    <2>1. c \in [1..m -> Seq(D)]
        BY <1>5, LenProperties
    <2>2. c = [i \in 1..m |-> c[i]]
        BY <2>1
    <2> QED
        BY <1>12, <1>13, <2>2
<1> QED
    BY <1>4, <1>16, <1>17, <1>18

-----------------------------------------------------------------------------
(* Hexadecimal *)

\* Sixteen digits, each with a value of its own, in either case.
LEMMA DigitsOfHex ==
    /\ \A v \in 0..15 : nibble(DIGITS[v + 1]) = {v} /\ nibble(CAPITALS[v + 1]) = {v}
    /\ Len(CAPITALS) = 16
    /\ \A v \in 0..15, j \in 1..16 : DIGITS[v + 1] = CAPITALS[j] => j = v + 1
    /\ \A i, j \in 1..16 : CAPITALS[i] = CAPITALS[j] => i = j
<1>1. DIGITS[1] = "0" /\ DIGITS[2] = "1" /\ DIGITS[3] = "2" /\ DIGITS[4] = "3" /\ DIGITS[5] = "4"
      /\ DIGITS[6] = "5" /\ DIGITS[7] = "6" /\ DIGITS[8] = "7" /\ DIGITS[9] = "8" /\ DIGITS[10] = "9"
      /\ DIGITS[11] = "a" /\ DIGITS[12] = "b" /\ DIGITS[13] = "c" /\ DIGITS[14] = "d" /\ DIGITS[15] = "e"
      /\ DIGITS[16] = "f"
    BY DEF DIGITS
<1>2. CAPITALS[1] = "0" /\ CAPITALS[2] = "1" /\ CAPITALS[3] = "2" /\ CAPITALS[4] = "3" /\ CAPITALS[5] = "4"
      /\ CAPITALS[6] = "5" /\ CAPITALS[7] = "6" /\ CAPITALS[8] = "7" /\ CAPITALS[9] = "8" /\ CAPITALS[10] = "9"
      /\ CAPITALS[11] = "A" /\ CAPITALS[12] = "B" /\ CAPITALS[13] = "C" /\ CAPITALS[14] = "D" /\ CAPITALS[15] = "E"
      /\ CAPITALS[16] = "F"
    BY DEF CAPITALS
<1>3. \A i, j \in 1..16 : CAPITALS[i] = CAPITALS[j] => i = j
    BY <1>2
<1>4. \A i, j \in 1..16 : DIGITS[i] = DIGITS[j] => i = j
    BY <1>1
<1>5. \A i, j \in 1..16 : DIGITS[i] = CAPITALS[j] => i = j
    BY <1>1, <1>2
<1>6. Len(CAPITALS) = 16
    BY DEF CAPITALS
<1>7. ASSUME NEW v \in 0..15 PROVE nibble(DIGITS[v + 1]) = {v} /\ nibble(CAPITALS[v + 1]) = {v}
    <2>1. PICK i \in 1..16 : i = v + 1
        OBVIOUS
    <2>2. ASSUME NEW w \in 0..15
          PROVE  /\ DIGITS[i] \in {DIGITS[w + 1], CAPITALS[w + 1]} <=> w = v
                 /\ CAPITALS[i] \in {DIGITS[w + 1], CAPITALS[w + 1]} <=> w = v
        <3>1. PICK j \in 1..16 : j = w + 1 /\ (j = i <=> w = v)
            BY <2>1
        <3>2. (DIGITS[i] = DIGITS[j] => j = i) /\ (DIGITS[i] = CAPITALS[j] => j = i)
            BY <1>4, <1>5
        <3>3. (CAPITALS[i] = DIGITS[j] => j = i) /\ (CAPITALS[i] = CAPITALS[j] => j = i)
            BY <1>3, <1>5
        <3>4. DIGITS[i] \in {DIGITS[j], CAPITALS[j]} <=> j = i
            BY <3>2
        <3>5. CAPITALS[i] \in {DIGITS[j], CAPITALS[j]} <=> j = i
            BY <3>3
        <3> QED
            BY <3>1, <3>4, <3>5
    <2>3. nibble(DIGITS[i]) = {v}
        BY <2>2 DEF nibble
    <2>4. nibble(CAPITALS[i]) = {v}
        BY <2>2 DEF nibble
    <2> QED
        BY <2>1, <2>3, <2>4
<1>8. ASSUME NEW v \in 0..15, NEW j \in 1..16, DIGITS[v + 1] = CAPITALS[j] PROVE j = v + 1
    <2>1. PICK i \in 1..16 : i = v + 1
        OBVIOUS
    <2> QED
        BY <1>5, <1>8, <2>1
<1> QED
    BY <1>3, <1>6, <1>7, <1>8

\* The largest of one number.
LEMMA MaxOfOne == \A x \in Nat : Max({x}) = x
BY DEF Max

\* Whatever bytes are written as hexadecimal are read back (hexbytes::encode, decode).
THEOREM HexReadsBack ==
    ASSUME NEW bytes \in Seq(0..255)
    PROVE  HexDecode(HexEncode(bytes)) = {bytes}
<1>1. PICK n \in Nat : n = Len(bytes) /\ bytes \in [1..n -> 0..255]
    BY LenProperties, ZenonT(40)
<1>2. PICK t : t = HexEncode(bytes)
    OBVIOUS
<1>3. t = [i \in 1..(2 * n) |->
             DIGITS[1 + (IF i % 2 = 1 THEN bytes[(i + 1) \div 2] \div 16 ELSE bytes[(i + 1) \div 2] % 16)]]
    BY <1>1, <1>2 DEF HexEncode
<1>4. Len(t) = 2 * n
    BY <1>3
<1>5. ASSUME NEW i \in 1..n PROVE pair(t, i) = {bytes[i]}
    <2>1. PICK b \in 0..255 : b = bytes[i]
        BY <1>1
    <2>2. PICK h \in 0..15, l \in 0..15 : h = b \div 16 /\ l = b % 16 /\ b = 16 * h + l
        OBVIOUS
    <2>3. /\ 2 * i - 1 \in 1..(2 * n) /\ (2 * i - 1) % 2 = 1 /\ ((2 * i - 1) + 1) \div 2 = i
          /\ 2 * i \in 1..(2 * n) /\ (2 * i) % 2 = 0 /\ (2 * i + 1) \div 2 = i
        OBVIOUS
    <2>4. t[2 * i - 1] = DIGITS[h + 1]
        <3>1. PICK j \in 1..(2 * n) : j = 2 * i - 1 /\ j % 2 = 1 /\ (j + 1) \div 2 = i
            BY <2>3
        <3>2. t[j] = DIGITS[1 + (IF j % 2 = 1 THEN bytes[(j + 1) \div 2] \div 16 ELSE bytes[(j + 1) \div 2] % 16)]
            BY <1>3
        <3>3. t[j] = DIGITS[1 + h]
            BY <2>1, <2>2, <3>1, <3>2
        <3>4. 1 + h = h + 1
            OBVIOUS
        <3> QED
            BY <3>1, <3>3, <3>4
    <2>5. t[2 * i] = DIGITS[l + 1]
        <3>1. PICK j \in 1..(2 * n) : j = 2 * i /\ ~(j % 2 = 1) /\ (j + 1) \div 2 = i
            BY <2>3
        <3>2. t[j] = DIGITS[1 + (IF j % 2 = 1 THEN bytes[(j + 1) \div 2] \div 16 ELSE bytes[(j + 1) \div 2] % 16)]
            BY <1>3
        <3>3. t[j] = DIGITS[1 + l]
            BY <2>1, <2>2, <3>1, <3>2
        <3>4. 1 + l = l + 1
            OBVIOUS
        <3> QED
            BY <3>1, <3>3, <3>4
    <2>6. nibble(DIGITS[h + 1]) = {h} /\ nibble(DIGITS[l + 1]) = {l}
        BY DigitsOfHex
    <2>7. pair(t, i) = {16 * h + l}
        BY <2>4, <2>5, <2>6 DEF pair
    <2> QED
        BY <2>1, <2>2, <2>7
<1>6. PICK p : p = [i \in 1..n |-> pair(t, i)]
    OBVIOUS
<1>7. DOMAIN p = 1..n /\ \A i \in 1..n : p[i] = {bytes[i]}
    BY <1>5, <1>6
<1>8. ~ \E i \in DOMAIN p : p[i] = {}
    BY <1>7
<1>9. [i \in DOMAIN p |-> Max(p[i])] = bytes
    <2>1. \A i \in 1..n : Max(p[i]) = bytes[i]
        <3> SUFFICES ASSUME NEW i \in 1..n PROVE Max(p[i]) = bytes[i]
            OBVIOUS
        <3>1. PICK b \in Nat : b = bytes[i]
            BY <1>1
        <3> QED
            BY <1>7, <3>1, MaxOfOne
    <2> QED
        BY <1>1, <1>7, <2>1
<1>10. Len(t) \div 2 = n /\ Len(t) % 2 = 0
    BY <1>4
<1>11. HexDecode(t) = {[i \in DOMAIN p |-> Max(p[i])]}
    <2>1. HexDecode(t) = IF Len(t) % 2 = 1 \/ \E i \in DOMAIN p : p[i] = {} THEN {}
                         ELSE {[i \in DOMAIN p |-> Max(p[i])]}
        BY <1>6, <1>10 DEF HexDecode
    <2> QED
        BY <1>8, <1>10, <2>1
<1> QED
    BY <1>2, <1>9, <1>11

\* The small letters of a text are the digits its characters stand for.
LEMMA HexLowerIs ==
    ASSUME NEW A, NEW t \in Seq(A), NEW i \in 1..Len(t), NEW v \in nibble(t[i])
    PROVE  v \in 0..15 /\ HexLower(t)[i] = DIGITS[v + 1]
<1>1. v \in 0..15 /\ (t[i] = DIGITS[v + 1] \/ t[i] = CAPITALS[v + 1])
    BY DEF nibble
<1>2. DOMAIN t = 1..Len(t)
    BY LenProperties
<1>3. CASE Contains(CAPITALS, t[i])
    <2> DEFINE I == {j \in 1..Len(CAPITALS) : CAPITALS[j] = t[i]}
    <2>1. I # {} /\ I \in SUBSET Nat
        BY <1>3 DEF Contains
    <2>2. PICK j \in I : j = Min(I)
        <3> HIDE DEF I
        <3> QED
            BY <2>1, LeastNat
    <2>3. SelectInSeq(CAPITALS, LAMBDA c : c = t[i]) = j
        BY <2>1, <2>2 DEF SelectInSeq
    <2>4. j \in 1..16 /\ CAPITALS[j] = t[i]
        BY <2>2, DigitsOfHex
    <2>5. j = v + 1
        <3>1. CASE t[i] = DIGITS[v + 1]
            BY <1>1, <2>4, <3>1, DigitsOfHex
        <3>2. CASE t[i] = CAPITALS[v + 1]
            <4>1. v \in 0..15 => v + 1 \in 1..16
                OBVIOUS
            <4> QED
                BY <1>1, <2>4, <3>2, <4>1, DigitsOfHex
        <3> QED
            BY <1>1, <3>1, <3>2
    <2>6. HexLower(t)[i] = DIGITS[SelectInSeq(CAPITALS, LAMBDA c : c = t[i])]
        BY <1>2, <1>3 DEF HexLower
    <2> QED
        BY <1>1, <2>3, <2>5, <2>6
<1>4. CASE ~Contains(CAPITALS, t[i])
    <2>1. t[i] # CAPITALS[v + 1]
        <3>1. v + 1 \in 1..Len(CAPITALS)
            BY <1>1, DigitsOfHex
        <3> QED
            BY <1>4, <3>1 DEF Contains
    <2>2. HexLower(t)[i] = t[i]
        BY <1>2, <1>4 DEF HexLower
    <2> QED
        BY <1>1, <2>1, <2>2
<1> QED
    BY <1>3, <1>4

\* Whatever text is read as hexadecimal, it is the one that is written for the bytes it gives,
\* up to the case of its letters: no sign, no space and no odd digit is taken for one.
THEOREM HexOneSpelling ==
    ASSUME NEW A, NEW t \in Seq(A), NEW bytes \in HexDecode(t)
    PROVE  bytes \in Seq(0..255) /\ HexEncode(bytes) = HexLower(t)
<1>1. PICK len \in Nat : len = Len(t) /\ DOMAIN t = 1..len
    BY LenProperties
<1>2. PICK p : p = [i \in 1..(len \div 2) |-> pair(t, i)]
    OBVIOUS
<1>3. /\ len % 2 # 1 /\ (~ \E i \in DOMAIN p : p[i] = {})
      /\ bytes = [i \in DOMAIN p |-> Max(p[i])]
    BY <1>1, <1>2 DEF HexDecode
<1>4. PICK n \in Nat : n = len \div 2 /\ len = 2 * n
    <2>1. len \div 2 \in Nat /\ len = 2 * (len \div 2)
        BY <1>3
    <2> QED
        BY <2>1
<1>5. DOMAIN p = 1..n /\ \A i \in 1..n : p[i] = pair(t, i)
    BY <1>2, <1>4
<1>6. ASSUME NEW i \in 1..n
      PROVE  \E h \in 0..15, l \in 0..15 : /\ bytes[i] = 16 * h + l
                                           /\ HexLower(t)[2 * i - 1] = DIGITS[h + 1]
                                           /\ HexLower(t)[2 * i] = DIGITS[l + 1]
    <2>1. pair(t, i) # {}
        BY <1>3, <1>5
    <2>2. PICK h \in nibble(t[2 * i - 1]), l \in nibble(t[2 * i]) : TRUE
        BY <2>1 DEF pair
    <2>3. PICK a \in 1..Len(t), b \in 1..Len(t) : a = 2 * i - 1 /\ b = 2 * i
        BY <1>1, <1>4
    <2>4. h \in 0..15 /\ HexLower(t)[a] = DIGITS[h + 1] /\ l \in 0..15 /\ HexLower(t)[b] = DIGITS[l + 1]
        <3>1. h \in nibble(t[a]) /\ l \in nibble(t[b])
            BY <2>2, <2>3
        <3>2. h \in 0..15 /\ HexLower(t)[a] = DIGITS[h + 1]
            BY <3>1, HexLowerIs
        <3>3. l \in 0..15 /\ HexLower(t)[b] = DIGITS[l + 1]
            BY <3>1, HexLowerIs
        <3> QED
            BY <3>2, <3>3
    <2>5. nibble(t[a]) = {h}
        <3>1. t[a] = DIGITS[h + 1] \/ t[a] = CAPITALS[h + 1]
            BY <2>2, <2>3 DEF nibble
        <3> QED
            BY <2>4, <3>1, DigitsOfHex
    <2>6. nibble(t[b]) = {l}
        <3>1. t[b] = DIGITS[l + 1] \/ t[b] = CAPITALS[l + 1]
            BY <2>2, <2>3 DEF nibble
        <3> QED
            BY <2>4, <3>1, DigitsOfHex
    <2>7. pair(t, i) = {16 * h + l}
        BY <2>3, <2>5, <2>6 DEF pair
    <2>8. PICK x \in Nat : x = 16 * h + l
        <3>1. h \in 0..15 /\ l \in 0..15
            BY <2>4
        <3>2. 16 * h + l \in Nat
            BY <3>1
        <3> QED
            BY <3>2
    <2>9. bytes[i] = x
        BY <1>3, <1>5, <2>7, <2>8, MaxOfOne
    <2> QED
        BY <2>3, <2>4, <2>8, <2>9
<1>7. bytes \in Seq(0..255) /\ Len(bytes) = n
    <2>1. ASSUME NEW i \in 1..n PROVE bytes[i] \in 0..255
        <3>1. PICK h \in 0..15, l \in 0..15 : bytes[i] = 16 * h + l
            BY <1>6
        <3> QED
            BY <3>1
    <2>2. bytes \in [1..n -> 0..255]
        BY <1>3, <1>5, <2>1
    <2> QED
        BY <2>2, FunctionIsSeq
<1>8. HexEncode(bytes) = [j \in 1..len |->
             DIGITS[1 + (IF j % 2 = 1 THEN bytes[(j + 1) \div 2] \div 16 ELSE bytes[(j + 1) \div 2] % 16)]]
    BY <1>4, <1>7 DEF HexEncode
<1>9. ASSUME NEW j \in 1..len
      PROVE  HexLower(t)[j] =
               DIGITS[1 + (IF j % 2 = 1 THEN bytes[(j + 1) \div 2] \div 16 ELSE bytes[(j + 1) \div 2] % 16)]
    <2>1. PICK i \in 1..n : i = (j + 1) \div 2 /\ (j % 2 = 1 => j = 2 * i - 1) /\ (j % 2 # 1 => j = 2 * i)
        <3>1. (j + 1) \div 2 \in 1..n
            BY <1>4
        <3>2. (j % 2 = 1 => j = 2 * ((j + 1) \div 2) - 1) /\ (j % 2 # 1 => j = 2 * ((j + 1) \div 2))
            OBVIOUS
        <3> QED
            BY <3>1, <3>2
    <2>2. PICK h \in 0..15, l \in 0..15 : /\ bytes[i] = 16 * h + l
                                          /\ HexLower(t)[2 * i - 1] = DIGITS[h + 1]
                                          /\ HexLower(t)[2 * i] = DIGITS[l + 1]
        BY <1>6
    <2>3. (16 * h + l) \div 16 = h /\ (16 * h + l) % 16 = l /\ 1 + h = h + 1 /\ 1 + l = l + 1
        OBVIOUS
    <2>4. bytes[i] \div 16 = h /\ bytes[i] % 16 = l
        BY <2>2, <2>3
    <2>5. CASE j % 2 = 1
        <3>1. HexLower(t)[j] = DIGITS[h + 1]
            BY <2>1, <2>2, <2>5
        <3> QED
            BY <2>1, <2>3, <2>4, <2>5, <3>1
    <2>6. CASE j % 2 # 1
        <3>1. HexLower(t)[j] = DIGITS[l + 1]
            BY <2>1, <2>2, <2>6
        <3> QED
            BY <2>1, <2>3, <2>4, <2>6, <3>1
    <2> QED
        BY <2>5, <2>6
<1>10. HexLower(t) = [j \in 1..len |-> HexLower(t)[j]]
    BY <1>1 DEF HexLower
<1> QED
    BY <1>7, <1>8, <1>9, <1>10

-----------------------------------------------------------------------------
(* CryptoNote addresses *)

\* A varint and what follows it are bytes.
LEMMA VarintIn ==
    ASSUME NEW n \in 0..(U64 - 1), NEW rest \in Seq(0..(Byte - 1))
    PROVE  WriteVarint(n) \o rest \in Seq(0..(Byte - 1))
<1>1. n \in Nat
    BY VarintAssumption
<1>2. WriteVarint(n) \in Seq(0..(Byte - 1))
    BY <1>1, GroupsAre, VarintIs
<1> QED
    BY <1>2, ConcatIs

\* A network prefix and the bytes behind it, written in blocks, are read back
\* (codec/cryptonote.rs encode_raw with write_varint, decode_prefixed with read_varint).
THEOREM CryptoNoteReadsBack ==
    ASSUME NEW n \in 0..(U64 - 1), NEW rest \in Seq(0..(Byte - 1))
    PROVE  UNION {ReadVarint(bytes) : bytes \in BlockDecode(BlockEncode(WriteVarint(n) \o rest))}
             = {[value |-> n, rest |-> rest]}
<1>1. WriteVarint(n) \o rest \in Seq(0..(Byte - 1))
    BY VarintIn
<1>2. PICK data \in Seq(0..(Byte - 1)) : data = WriteVarint(n) \o rest
    BY <1>1
<1>3. BlockDecode(BlockEncode(data)) = {data}
    BY BlockReadsBack
<1>4. ReadVarint(data) = {[value |-> n, rest |-> rest]}
    BY <1>2, VarintReadsBack
<1> QED
    BY <1>2, <1>3, <1>4

\* Whatever text is read as a network prefix and bytes, it is the one that is written for them:
\* neither the blocks nor the number in front have a second spelling.
THEOREM CryptoNoteOneSpelling ==
    ASSUME NEW t \in Seq(0..Digit), NEW v \in UNION {ReadVarint(bytes) : bytes \in BlockDecode(t)}
    PROVE  /\ v.value \in 0..(U64 - 1) /\ v.rest \in Seq(0..(Byte - 1))
           /\ BlockEncode(WriteVarint(v.value) \o v.rest) = t
<1>1. PICK bytes \in BlockDecode(t) : v \in ReadVarint(bytes)
    OBVIOUS
<1>2. bytes \in Seq(0..(Byte - 1)) /\ BlockEncode(bytes) = t
    BY BlockOneSpelling
<1>3. /\ v.value \in 0..(U64 - 1) /\ v.rest \in Seq(0..(Byte - 1))
      /\ WriteVarint(v.value) \o v.rest = bytes
    BY <1>1, <1>2, VarintOneSpelling
<1> QED
    BY <1>2, <1>3

-----------------------------------------------------------------------------
(* The words of a CryptoNote wallet *)

\* The words of all groups, before the checksum word.
AllWords(groups) == FlattenSeq([i \in DOMAIN groups |-> ThreeWords(groups[i])])

\* A value is three words of the list.
LEMMA ThreeWordsAre ==
    ASSUME NEW x \in 0..(GroupValues - 1)
    PROVE  ThreeWords(x) \in Seq(0..(ListLen - 1)) /\ Len(ThreeWords(x)) = 3
<1>1. PICK n \in Nat \ {0} : n = ListLen
    BY ListAssumption
<1>2. x \in Nat
    BY ListAssumption
<1>3. ASSUME NEW y \in Nat PROVE y % n \in 0..(n - 1) /\ y \div n \in Nat
    BY Division
<1>4. PICK a \in 0..(n - 1), x1 \in Nat : a = x % n /\ x1 = x \div n
    BY <1>2, <1>3
<1>5. PICK b \in 0..(n - 1), x2 \in Nat : b = (x1 + a) % n /\ x2 = x1 \div n
    BY x1 + a \in Nat, <1>3
<1>6. PICK c \in 0..(n - 1) : c = (x2 + b) % n
    BY x2 + b \in Nat, <1>3
<1>7. ThreeWords(x) = <<a, b, c>>
    BY <1>1, <1>4, <1>5, <1>6 DEF ThreeWords
<1>8. <<a, b, c>> \in [1..3 -> 0..(n - 1)]
    OBVIOUS
<1>9. <<a, b, c>> \in Seq(0..(n - 1)) /\ Len(<<a, b, c>>) = 3
    BY <1>8, FunctionIsSeq
<1> QED
    BY <1>1, <1>7, <1>9

\* The words of a key, three by three.
LEMMA AllWordsAre ==
    ASSUME NEW p \in Seq(0..(GroupValues - 1))
    PROVE  /\ AllWords(p) \in Seq(0..(ListLen - 1))
           /\ Chunks(AllWords(p), 3) = [i \in DOMAIN p |-> ThreeWords(p[i])]
<1> DEFINE W == 0..(ListLen - 1)
<1>0. PICK f : f = [i \in DOMAIN p |-> ThreeWords(p[i])]
    OBVIOUS
<1>1. PICK n \in Nat : n = Len(p) /\ DOMAIN p = 1..n /\ \A i \in 1..n : p[i] \in 0..(GroupValues - 1)
    BY LenProperties, ElementOfSeq
<1>2. \A i \in 1..n : f[i] = ThreeWords(p[i]) /\ f[i] \in Seq(W) /\ Len(f[i]) = 3
    BY <1>0, <1>1, ThreeWordsAre
<1> HIDE DEF W
<1>3. f \in [1..n -> Seq(W)]
    <2>1. f = [i \in 1..n |-> f[i]]
        BY <1>0, <1>1
    <2> QED
        BY <1>2, <2>1
<1>4. PICK ss \in Seq(Seq(W)) : ss = f /\ Len(ss) = n
    BY <1>3, FunctionIsSeq
<1>5. AllWhole(ss, 3)
    BY <1>2, <1>4 DEF AllWhole
<1>6. 3 \in Nat \ {0}
    OBVIOUS
<1>7. FlattenSeq(ss) \in Seq(W) /\ Chunks(FlattenSeq(ss), 3) = ss
    BY <1>5, <1>6, WholePieces, FlattenIn
<1>8. AllWords(p) = FlattenSeq(ss)
    BY <1>0, <1>4 DEF AllWords
<1> QED
    BY <1>0, <1>4, <1>7, <1>8 DEF W

\* Whatever the checksum word is, two lists of groups never have the same words: the 25 words
\* of a wallet determine its spend key (monero_25).
THEOREM Monero25Injective ==
    ASSUME NEW p \in Seq(0..(GroupValues - 1)), NEW q \in Seq(0..(GroupValues - 1)), Monero25(p) = Monero25(q)
    PROVE  p = q
<1> DEFINE W == 0..(ListLen - 1)
<1>1. PICK u \in Seq(W) : u = AllWords(p) /\ Chunks(u, 3) = [i \in DOMAIN p |-> ThreeWords(p[i])]
    BY AllWordsAre
<1>2. PICK v \in Seq(W) : v = AllWords(q) /\ Chunks(v, 3) = [i \in DOMAIN q |-> ThreeWords(q[i])]
    BY AllWordsAre
<1>3. PICK x, y : Append(u, x) = Append(v, y)
    BY <1>1, <1>2 DEF Monero25, AllWords
<1>4. u = v
    <2> DEFINE V == W \cup {x, y}
    <2>1. u \in Seq(V) /\ v \in Seq(V) /\ x \in V /\ y \in V
        BY SeqMonotonic
    <2> HIDE DEF V
    <2>2. Len(Append(u, x)) = Len(u) + 1 /\ \A i \in 1..Len(u) : Append(u, x)[i] = u[i]
        BY <2>1, AppendIs
    <2>3. Len(Append(v, y)) = Len(v) + 1 /\ \A i \in 1..Len(v) : Append(v, y)[i] = v[i]
        BY <2>1, AppendIs
    <2>4. Len(u) = Len(v)
        BY <1>3, <2>1, <2>2, <2>3, LenProperties
    <2>5. \A i \in 1..Len(u) : u[i] = v[i]
        BY <1>3, <2>2, <2>3, <2>4
    <2> QED
        BY <2>1, <2>4, <2>5, SeqEqual
<1>5. [i \in DOMAIN p |-> ThreeWords(p[i])] = [i \in DOMAIN q |-> ThreeWords(q[i])]
    BY <1>1, <1>2, <1>4
<1>6. PICK f : f = [i \in DOMAIN p |-> ThreeWords(p[i])] /\ f = [i \in DOMAIN q |-> ThreeWords(q[i])]
    BY <1>5
<1>7. DOMAIN p = DOMAIN q /\ \A i \in DOMAIN p : ThreeWords(p[i]) = ThreeWords(q[i])
    <2>1. DOMAIN f = DOMAIN p /\ DOMAIN f = DOMAIN q
        BY <1>6
    <2>2. \A i \in DOMAIN p : f[i] = ThreeWords(p[i])
        BY <1>6
    <2>3. \A i \in DOMAIN q : f[i] = ThreeWords(q[i])
        BY <1>6
    <2> QED
        BY <2>1, <2>2, <2>3
<1>8. PICK n \in Nat : n = Len(p) /\ DOMAIN p = 1..n /\ \A i \in 1..n : p[i] \in 0..(GroupValues - 1)
    BY LenProperties, ElementOfSeq
<1>9. PICK m \in Nat : m = Len(q) /\ DOMAIN q = 1..m /\ \A i \in 1..m : q[i] \in 0..(GroupValues - 1)
    BY LenProperties, ElementOfSeq
<1>10. n = m
    <2>1. 1..n = 1..m
        <3>1. DOMAIN p = 1..n /\ DOMAIN q = 1..m /\ DOMAIN p = DOMAIN q
            BY <1>7, <1>8, <1>9, Zenon
        <3> QED
            BY <3>1, Zenon
    <2> QED
        BY <2>1
<1>11. \A i \in 1..n : p[i] = q[i]
    BY <1>7, <1>8, <1>9, <1>10, WordsInjective
<1> QED
    BY <1>8, <1>9, <1>10, <1>11, SeqEqual

-----------------------------------------------------------------------------
(* What every address of a network prefix opens with *)

\* Sequences of one length, cut into chunks, have chunks of the same lengths, and where no element
\* is greater, none is in any chunk.
LEMMA ChunksBelow ==
    ASSUME NEW A \in SUBSET Nat, NEW n \in Nat \ {0}, NEW s \in Seq(A), NEW u \in Seq(A), Below(s, u)
    PROVE  /\ Len(Chunks(s, n)) = Len(Chunks(u, n))
           /\ \A i \in 1..Len(Chunks(s, n)) : Below(Chunks(s, n)[i], Chunks(u, n)[i])
<1>1. PICK len \in Nat : len = Len(s) /\ len = Len(u)
    BY LenProperties DEF Below
<1>2. PICK k \in Nat : k = (len + n - 1) \div n
    BY SMTT(30)
<1>3. PICK c \in Seq(Seq(A)), d \in Seq(Seq(A)) : c = Chunks(s, n) /\ d = Chunks(u, n)
    BY ChunksArePieces
<1>4. c = [i \in 1..k |-> SubSeq(s, (i - 1) * n + 1, Min({i * n, len}))]
    BY <1>1, <1>2, <1>3 DEF Chunks
<1>5. d = [i \in 1..k |-> SubSeq(u, (i - 1) * n + 1, Min({i * n, len}))]
    BY <1>1, <1>2, <1>3 DEF Chunks
<1>6. Len(c) = k /\ Len(d) = k
    BY <1>4, <1>5, LenProperties
<1>7. ASSUME NEW i \in 1..k PROVE Below(c[i], d[i])
    <2>1. PICK a \in Nat \ {0}, b \in Nat : a = (i - 1) * n + 1 /\ b = Min({i * n, len}) /\ b <= len
        <3>1. PICK p \in Nat, q \in Nat : p = (i - 1) * n /\ q = i * n
            OBVIOUS
        <3>2. Min({q, len}) \in Nat /\ Min({q, len}) <= len
            <4>1. CASE q <= len
                BY <4>1, MinOfPair
            <4>2. CASE len <= q
                <5>1. Min({len, q}) = len
                    BY <4>2, MinOfPair
                <5>2. {len, q} = {q, len}
                    OBVIOUS
                <5>3. Min({q, len}) = len
                    BY <5>1, <5>2
                <5> QED
                    BY <5>3
            <4> QED
                BY <4>1, <4>2
        <3>3. p + 1 \in Nat \ {0}
            OBVIOUS
        <3> QED
            BY <3>1, <3>2, <3>3
    <2>0. a \in Nat \ {0} /\ b \in Nat /\ b <= len
        BY <2>1
    <2>2. a \in Int /\ b \in Int /\ a..b \subseteq 1..len
        BY <2>0
    <2>3. (\A j \in a..b : s[j] \in A) /\ (\A j \in a..b : u[j] \in A)
        <3>1. (\A j \in 1..len : s[j] \in A) /\ (\A j \in 1..len : u[j] \in A)
            BY <1>1, ElementOfSeq
        <3> QED
            BY <2>2, <3>1
    <2>4. PICK x \in Seq(A) : /\ x = c[i] /\ Len(x) = (IF a <= b THEN b - a + 1 ELSE 0)
                              /\ \A j \in 1..(b - a + 1) : x[j] = s[a + j - 1]
        <3>1. /\ SubSeq(s, a, b) \in Seq(A) /\ Len(SubSeq(s, a, b)) = (IF a <= b THEN b - a + 1 ELSE 0)
              /\ \A j \in 1..(b - a + 1) : SubSeq(s, a, b)[j] = s[a + j - 1]
            BY <2>2, <2>3, SubSeqProperties
        <3>2. c[i] = SubSeq(s, a, b)
            BY <1>4, <2>1
        <3> QED
            BY <3>1, <3>2
    <2>5. PICK y \in Seq(A) : /\ y = d[i] /\ Len(y) = (IF a <= b THEN b - a + 1 ELSE 0)
                              /\ \A j \in 1..(b - a + 1) : y[j] = u[a + j - 1]
        <3>1. /\ SubSeq(u, a, b) \in Seq(A) /\ Len(SubSeq(u, a, b)) = (IF a <= b THEN b - a + 1 ELSE 0)
              /\ \A j \in 1..(b - a + 1) : SubSeq(u, a, b)[j] = u[a + j - 1]
            BY <2>2, <2>3, SubSeqProperties
        <3>2. d[i] = SubSeq(u, a, b)
            BY <1>5, <2>1
        <3> QED
            BY <3>1, <3>2
    <2>6. \A j \in 1..len : s[j] <= u[j]
        BY <1>1 DEF Below
    <2>7. ASSUME NEW j \in 1..Len(x) PROVE x[j] <= y[j]
        <3>1. j \in 1..(b - a + 1)
            BY <2>4
        <3>2. PICK o \in 1..len : o = a + j - 1
            BY <2>0, <3>1
        <3> QED
            BY <2>4, <2>5, <2>6, <3>1, <3>2
    <2> QED
        BY <2>4, <2>5, <2>7 DEF Below
<1> QED
    BY <1>3, <1>6, <1>7

\* One text is as long as two others, and opens with whatever both of them open with.
Inside(x, y, z) ==
    /\ Len(y) = Len(x) /\ Len(z) = Len(x)
    /\ \A k \in 0..Len(x) : Agree(x, z, k) => Agree(x, y, k)

\* The text of a block whose bytes lie between those of two others is inside theirs.
LEMMA BlockInside ==
    ASSUME NEW n \in 1..BLOCK, NEW x \in Seq(0..(Byte - 1)), NEW y \in Seq(0..(Byte - 1)), NEW z \in Seq(0..(Byte - 1)),
           Len(x) = n, Below(x, y), Below(y, z)
    PROVE  Inside(EncodeBlock(x), EncodeBlock(y), EncodeBlock(z))
<1>1. PICK b \in Nat \ {0, 1}, r \in Nat \ {0, 1} : b = Byte /\ r = Digit
    BY RadixAssumption
<1>2. Len(y) = n /\ Len(z) = n
    BY DEF Below
<1>3. PICK w \in Nat : w = ENC_LEN[n] /\ Power(r, w) >= Power(b, n)
    BY <1>1, EncLenGrows, BlockAssumption
<1>4. ASSUME NEW v \in Seq(0..(b - 1)), Len(v) = n
      PROVE  /\ EncodeBlock(v) \in Seq(0..(r - 1)) /\ Len(EncodeBlock(v)) = w
             /\ Number(EncodeBlock(v), r) = Number(v, b)
    <2>1. PICK m \in Nat : m = Number(v, b) /\ m < Power(b, n)
        BY <1>4, NumberFits
    <2>2. m < Power(r, w)
        <3>1. Power(r, w) \in Nat /\ Power(b, n) \in Nat
            <4>1. n \in Nat /\ b \in Nat /\ r \in Nat
                BY BlockAssumption
            <4> QED
                BY <4>1, PowerIn
        <3> QED
            BY <1>3, <2>1, <3>1, SMTT(30)
    <2>3. EncodeBlock(v) = Padded(m, r, w)
        BY <1>1, <1>3, <1>4, <2>1 DEF EncodeBlock
    <2> QED
        BY <2>1, <2>2, <2>3, PaddedSpells
<1>5. PICK s \in Seq(0..(r - 1)) : s = EncodeBlock(x) /\ Len(s) = w /\ Number(s, r) = Number(x, b)
    BY <1>1, <1>4
<1>6. PICK t \in Seq(0..(r - 1)) : t = EncodeBlock(y) /\ Len(t) = w /\ Number(t, r) = Number(y, b)
    BY <1>1, <1>2, <1>4
<1>7. PICK u \in Seq(0..(r - 1)) : u = EncodeBlock(z) /\ Len(u) = w /\ Number(u, r) = Number(z, b)
    BY <1>1, <1>2, <1>4
<1>8. Number(x, b) <= Number(y, b) /\ Number(y, b) <= Number(z, b)
    BY <1>1, NumberGrows
<1>9. Between(s, t, u, r)
    BY <1>5, <1>6, <1>7, <1>8 DEF Between
<1>10. \A k \in 0..Len(s) : Agree(s, u, k) => Agree(s, t, k)
    BY <1>9, BetweenAgrees
<1> QED
    BY <1>5, <1>6, <1>7, <1>10 DEF Inside

\* Block by block, one text is inside two others.
InsideEach(ss, tt, uu) ==
    Len(tt) = Len(ss) /\ Len(uu) = Len(ss) /\ \A i \in 1..Len(ss) : Inside(ss[i], tt[i], uu[i])

\* One more block, inside the two others'.
LEMMA InsideJoined ==
    ASSUME NEW A, NEW x \in Seq(A), NEW y \in Seq(A), NEW z \in Seq(A), Inside(x, y, z),
           NEW p \in Seq(A), NEW q \in Seq(A), NEW r \in Seq(A), Inside(p, q, r)
    PROVE  Inside(x \o p, y \o q, z \o r)
<1>1. PICK m \in Nat : m = Len(x) /\ m = Len(y) /\ m = Len(z)
    BY LenProperties DEF Inside
<1>2. PICK n \in Nat : n = Len(p) /\ n = Len(q) /\ n = Len(r)
    BY LenProperties DEF Inside
<1>3. PICK a \in Seq(A) : /\ a = x \o p /\ Len(a) = m + n /\ \A i \in 1..m : a[i] = x[i]
                          /\ \A i \in 1..n : a[m + i] = p[i]
    <2>1. /\ x \o p \in Seq(A) /\ Len(x \o p) = Len(x) + Len(p)
          /\ \A i \in 1..Len(x) : (x \o p)[i] = x[i]
          /\ \A i \in 1..Len(p) : (x \o p)[Len(x) + i] = p[i]
        BY ConcatIs
    <2> QED
        BY <1>1, <1>2, <2>1
<1>4. PICK b \in Seq(A) : /\ b = y \o q /\ Len(b) = m + n /\ \A i \in 1..m : b[i] = y[i]
                          /\ \A i \in 1..n : b[m + i] = q[i]
    <2>1. /\ y \o q \in Seq(A) /\ Len(y \o q) = Len(y) + Len(q)
          /\ \A i \in 1..Len(y) : (y \o q)[i] = y[i]
          /\ \A i \in 1..Len(q) : (y \o q)[Len(y) + i] = q[i]
        BY ConcatIs
    <2> QED
        BY <1>1, <1>2, <2>1
<1>5. PICK c \in Seq(A) : /\ c = z \o r /\ Len(c) = m + n /\ \A i \in 1..m : c[i] = z[i]
                          /\ \A i \in 1..n : c[m + i] = r[i]
    <2>1. /\ z \o r \in Seq(A) /\ Len(z \o r) = Len(z) + Len(r)
          /\ \A i \in 1..Len(z) : (z \o r)[i] = z[i]
          /\ \A i \in 1..Len(r) : (z \o r)[Len(z) + i] = r[i]
        BY ConcatIs
    <2> QED
        BY <1>1, <1>2, <2>1, ZenonT(40)
<1>6. ASSUME NEW k \in 0..(m + n), Agree(a, c, k) PROVE Agree(a, b, k)
    <2>1. CASE k <= m
        <3>1. k \in 0..m /\ 1..k \subseteq 1..m
            BY <2>1
        <3>2. Agree(x, z, k)
            BY <1>3, <1>5, <1>6, <3>1 DEF Agree
        <3>3. Agree(x, y, k)
            BY <1>1, <3>1, <3>2 DEF Inside
        <3> QED
            BY <1>3, <1>4, <3>1, <3>3 DEF Agree
    <2>2. CASE k > m
        <3>1. PICK j \in 0..n : k = m + j
            <4>1. k - m \in 0..n /\ k = m + (k - m)
                BY <2>2
            <4> QED
                BY <4>1
        <3>2. m \in 0..m /\ 1..m \subseteq 1..k
            BY <2>2
        <3>3. Agree(x, z, m)
            BY <1>3, <1>5, <1>6, <3>2 DEF Agree
        <3>4. Agree(x, y, m)
            BY <1>1, <3>2, <3>3 DEF Inside
        <3>5. ASSUME NEW i \in 1..j PROVE p[i] = r[i]
            <4>1. m + i \in 1..k /\ i \in 1..n
                BY <3>1
            <4>2. a[m + i] = c[m + i]
                BY <1>6, <4>1 DEF Agree
            <4> QED
                BY <1>3, <1>5, <4>1, <4>2
        <3>6. Agree(p, q, j)
            BY <1>2, <3>5 DEF Inside, Agree
        <3>7. ASSUME NEW i \in 1..k PROVE a[i] = b[i]
            <4>1. CASE i <= m
                <5>1. i \in 1..m
                    BY <4>1
                <5> QED
                    BY <1>3, <1>4, <3>4, <5>1 DEF Agree
            <4>2. CASE i > m
                <5>1. PICK o \in 1..j : i = m + o
                    <6>1. i - m \in 1..j /\ i = m + (i - m)
                        BY <3>1, <4>2
                    <6> QED
                        BY <6>1
                <5>2. o \in 1..n
                    OBVIOUS
                <5>3. p[o] = q[o]
                    BY <3>6, <5>1 DEF Agree
                <5> QED
                    BY <1>3, <1>4, <5>1, <5>2, <5>3
            <4> QED
                BY <4>1, <4>2
        <3> QED
            BY <3>7 DEF Agree
    <2> QED
        BY <2>1, <2>2
<1> QED
    BY <1>3, <1>4, <1>5, <1>6 DEF Inside

\* What blocks inside two others' make is inside what those make.
LEMMA InsideFlattened ==
    ASSUME NEW A, NEW ss \in Seq(Seq(A)), NEW tt \in Seq(Seq(A)), NEW uu \in Seq(Seq(A)), InsideEach(ss, tt, uu)
    PROVE  Inside(FlattenSeq(ss), FlattenSeq(tt), FlattenSeq(uu))
<1>1. PICK n \in Nat : n = Len(ss) /\ n = Len(tt) /\ n = Len(uu)
    BY LenProperties DEF InsideEach
<1>2. PICK F \in [0..n -> Seq(A)] : FlattenRun(F, ss) /\ FlattenSeq(ss) = F[n]
    BY <1>1, FlattenLoop
<1>3. PICK G \in [0..n -> Seq(A)] : FlattenRun(G, tt) /\ FlattenSeq(tt) = G[n]
    BY <1>1, FlattenLoop
<1>4. PICK H \in [0..n -> Seq(A)] : FlattenRun(H, uu) /\ FlattenSeq(uu) = H[n]
    BY <1>1, FlattenLoop
<1> DEFINE L == {k \in Nat : k \in 0..n => Inside(F[k], G[k], H[k])}
<1>5. 0 \in L
    <2>1. F[0] = << >> /\ G[0] = << >> /\ H[0] = << >>
        BY <1>2, <1>3, <1>4 DEF FlattenRun
    <2>2. Len(<< >>) = 0 /\ \A k \in 0..0 : 1..k = {}
        BY EmptySeq
    <2> QED
        BY <2>1, <2>2 DEF Inside, Agree
<1>6. ASSUME NEW k \in Nat, k \in L PROVE k + 1 \in L
    <2> SUFFICES ASSUME k + 1 \in 0..n PROVE Inside(F[k + 1], G[k + 1], H[k + 1])
        OBVIOUS
    <2>1. PICK j \in 1..n : j = k + 1 /\ j - 1 = k /\ k \in 0..n
        OBVIOUS
    <2>2. F[j] = F[k] \o ss[j] /\ G[j] = G[k] \o tt[j] /\ H[j] = H[k] \o uu[j]
        BY <1>1, <1>2, <1>3, <1>4, <2>1 DEF FlattenRun
    <2>3. ss[j] \in Seq(A) /\ tt[j] \in Seq(A) /\ uu[j] \in Seq(A)
        BY <1>1, ElementOfSeq
    <2>4. F[k] \in Seq(A) /\ G[k] \in Seq(A) /\ H[k] \in Seq(A)
        BY <2>1
    <2>5. Inside(F[k], G[k], H[k]) /\ Inside(ss[j], tt[j], uu[j])
        BY <1>1, <1>6, <2>1 DEF InsideEach
    <2>6. Inside(F[k] \o ss[j], G[k] \o tt[j], H[k] \o uu[j])
        BY <2>3, <2>4, <2>5, InsideJoined
    <2> QED
        BY <2>1, <2>2, <2>6
<1>7. Nat \subseteq L
    <2> HIDE DEF L
    <2> QED
        BY <1>5, <1>6, Induction
<1>8. n \in 0..n
    OBVIOUS
<1> QED
    BY <1>2, <1>3, <1>4, <1>7, <1>8

\* The text of bytes between those of two others is inside theirs: what both of theirs open
\* with, it opens with.
LEMMA TextInside ==
    ASSUME NEW x \in Seq(0..(Byte - 1)), NEW y \in Seq(0..(Byte - 1)), NEW z \in Seq(0..(Byte - 1)),
           Below(x, y), Below(y, z)
    PROVE  Inside(BlockEncode(x), BlockEncode(y), BlockEncode(z))
<1> DEFINE B == 0..(Byte - 1)
           D == 0..(Digit - 1)
<1>1. PICK n \in Nat \ {0} : n = BLOCK
    BY BlockAssumption
<1>2. PICK c1 \in Seq(Seq(B)), e1 \in Seq(Seq(D)) : InBlocks(x, BlockEncode(x), c1, e1)
    BY BlocksApart DEF Blocked
<1>3. PICK c2 \in Seq(Seq(B)), e2 \in Seq(Seq(D)) : InBlocks(y, BlockEncode(y), c2, e2)
    BY BlocksApart DEF Blocked
<1>4. PICK c3 \in Seq(Seq(B)), e3 \in Seq(Seq(D)) : InBlocks(z, BlockEncode(z), c3, e3)
    BY BlocksApart DEF Blocked
<1>5. c1 = Chunks(x, n) /\ c2 = Chunks(y, n) /\ c3 = Chunks(z, n)
    BY <1>1, <1>2, <1>3, <1>4 DEF InBlocks
<1>6. PICK m \in Nat : m = Len(c1)
    BY LenProperties
<1>7. B \in SUBSET Nat
    BY RadixAssumption
<1>8. Len(c2) = m /\ \A i \in 1..m : Below(c1[i], c2[i])
    BY <1>5, <1>6, <1>7, ChunksBelow
<1>9. Len(c3) = m /\ \A i \in 1..m : Below(c2[i], c3[i])
    BY <1>5, <1>7, <1>8, ChunksBelow
<1>10. Len(e1) = m /\ Len(e2) = m /\ Len(e3) = m
    BY <1>2, <1>3, <1>4, <1>6, <1>8, <1>9 DEF InBlocks
<1>11. ASSUME NEW i \in 1..m PROVE Inside(e1[i], e2[i], e3[i])
    <2>1. c1[i] \in Seq(B) /\ c2[i] \in Seq(B) /\ c3[i] \in Seq(B)
        BY <1>6, <1>8, <1>9, ElementOfSeq
    <2>2. Len(c1[i]) \in 1..BLOCK
        BY <1>2, <1>6 DEF InBlocks, IsPieces
    <2>3. Inside(EncodeBlock(c1[i]), EncodeBlock(c2[i]), EncodeBlock(c3[i]))
        BY <1>8, <1>9, <2>1, <2>2, BlockInside
    <2>4. e1[i] = EncodeBlock(c1[i]) /\ e2[i] = EncodeBlock(c2[i]) /\ e3[i] = EncodeBlock(c3[i])
        BY <1>2, <1>3, <1>4, <1>6, <1>8, <1>9 DEF InBlocks
    <2> QED
        BY <2>3, <2>4
<1>12. InsideEach(e1, e2, e3)
    BY <1>10, <1>11 DEF InsideEach
<1>13. BlockEncode(x) = FlattenSeq(e1) /\ BlockEncode(y) = FlattenSeq(e2) /\ BlockEncode(z) = FlattenSeq(e3)
    BY <1>2, <1>3, <1>4 DEF InBlocks
<1> QED
    BY <1>12, <1>13, InsideFlattened

\* The longest common prefix of two sequences is one.
LEMMA LongestOpens ==
    ASSUME NEW A, NEW a \in Seq(A), NEW b \in Seq(A)
    PROVE  /\ IsPrefix(LongestCommonPrefix({a, b}), a) /\ IsPrefix(LongestCommonPrefix({a, b}), b)
           /\ Len(LongestCommonPrefix({a, b})) \in Nat
<1>1. PICK len \in Nat : len = Len(a)
    BY LenProperties
<1>2. PICK C : C = CommonPrefixes({a, b})
    OBVIOUS
<1>3. ASSUME NEW c \in C PROVE IsPrefix(c, a) /\ IsPrefix(c, b) /\ Len(c) \in 0..len
    <2>1. IsPrefix(c, a) /\ IsPrefix(c, b)
        BY <1>2 DEF CommonPrefixes
    <2>2. Len(c) <= len
        BY <1>1, <2>1 DEF IsPrefix
    <2>3. Len(c) \in Nat
        <3>0. PICK s \in {a, b} : c \in Prefixes(s)
            BY <1>2 DEF CommonPrefixes
        <3>1. PICK l \in 0..Len(s) : c = SubSeq(s, 1, l)
            BY <3>0 DEF Prefixes
        <3>2. s \in Seq(A) /\ l \in Int /\ 1 \in Int /\ \A i \in 1..l : s[i] \in A
            BY LenProperties, ElementOfSeq
        <3>3. c \in Seq(A)
            BY <3>1, <3>2, SubSeqProperties
        <3> QED
            BY <3>3, LenProperties
    <2> QED
        BY <2>1, <2>2, <2>3
<1>4. << >> \in C
    <2>1. SubSeq(a, 1, 0) = << >> /\ SubSeq(b, 1, 0) = << >> /\ SubSeq(<< >>, 1, 0) = << >>
        <3>1. 1 \in Int /\ 0 \in Int /\ 0 < 1
            OBVIOUS
        <3> QED
            BY <3>1, SubSeqEmpty
    <2>2. Len(<< >>) = 0 /\ 0 \in 0..Len(a) /\ 0 <= Len(a) /\ 0 <= Len(b)
        BY EmptySeq, LenProperties
    <2>3. << >> \in Prefixes(a)
        BY <2>1, <2>2 DEF Prefixes
    <2>4. IsPrefix(<< >>, a) /\ IsPrefix(<< >>, b)
        BY <2>1, <2>2 DEF IsPrefix
    <2> QED
        BY <1>2, <2>3, <2>4 DEF CommonPrefixes
<1>5. \E longest \in C : \A other \in C : Len(other) <= Len(longest)
    <2> DEFINE V == {len - Len(c) : c \in C}
    <2>1. V \in SUBSET Nat /\ V # {}
        BY <1>3, <1>4
    <2>2. PICK m \in V : \A y \in V : m <= y
        <3> HIDE DEF V
        <3> QED
            BY <2>1, LeastNat
    <2>3. PICK c \in C : m = len - Len(c)
        OBVIOUS
    <2>4. ASSUME NEW d \in C PROVE Len(d) <= Len(c)
        <3>1. len - Len(d) \in V
            OBVIOUS
        <3>2. len - Len(c) <= len - Len(d)
            BY <2>2, <2>3, <3>1
        <3>3. Len(c) \in 0..len /\ Len(d) \in 0..len
            BY <1>3
        <3> QED
            BY <3>2, <3>3
    <2> QED
        BY <2>4
<1>6. LongestCommonPrefix({a, b}) \in C
    BY <1>2, <1>5 DEF LongestCommonPrefix
<1> QED
    BY <1>3, <1>6

\* Whatever the keys of a CryptoNote address, its text is as long as what cryptonote_tag
\* computes for the network prefix, and opens as it computes (validate.rs: the two extremes
\* bracket "every address in between").
THEOREM TagOpens ==
    ASSUME NEW nb \in 0..(U64 - 1), NEW rest \in Seq(0..(Byte - 1)), Len(rest) = TAIL
    PROVE  /\ Len(BlockEncode(WriteVarint(nb) \o rest)) = Tag(nb).len
           /\ IsPrefix(Tag(nb).opening, BlockEncode(WriteVarint(nb) \o rest))
<1> DEFINE B == 0..(Byte - 1)
           D == 0..(Digit - 1)
<1>1. PICK last \in B : last = Byte - 1 /\ 0 \in B
    BY RadixAssumption
<1>2. PICK v \in Seq(B) : v = WriteVarint(nb)
    <2>1. nb \in Nat
        BY VarintAssumption
    <2> QED
        BY <2>1, GroupsAre, VarintIs
<1>3. ASSUME NEW e \in B PROVE /\ v \o [i \in 1..TAIL |-> e] \in Seq(B)
                               /\ (e = 0 => Below(v \o [i \in 1..TAIL |-> e], v \o rest))
                               /\ (e = last => Below(v \o rest, v \o [i \in 1..TAIL |-> e]))
    <2>1. PICK n \in Nat, m \in Nat : n = TAIL /\ m = Len(v)
        BY VarintAssumption, LenProperties
    <2>2. PICK u \in Seq(B) : u = [i \in 1..TAIL |-> e] /\ Len(u) = n /\ \A i \in 1..n : u[i] = e
        <3>1. PICK f : f = [i \in 1..TAIL |-> e]
            OBVIOUS
        <3>2. f \in [1..n -> B] /\ \A i \in 1..n : f[i] = e
            BY <2>1, <3>1
        <3>3. f \in Seq(B) /\ Len(f) = n
            BY <3>2, FunctionIsSeq
        <3> QED
            BY <3>1, <3>2, <3>3
    <2>3. PICK x \in Seq(B) : /\ x = v \o u /\ Len(x) = m + n /\ (\A i \in 1..m : x[i] = v[i])
                              /\ \A i \in 1..n : x[m + i] = e
        <3>1. /\ v \o u \in Seq(B) /\ Len(v \o u) = Len(v) + Len(u) /\ \A i \in 1..Len(v) : (v \o u)[i] = v[i]
              /\ \A i \in 1..Len(u) : (v \o u)[Len(v) + i] = u[i]
            BY ConcatIs
        <3> QED
            BY <2>1, <2>2, <3>1, ZenonT(40)
    <2>4. PICK y \in Seq(B) : /\ y = v \o rest /\ Len(y) = m + n /\ (\A i \in 1..m : y[i] = v[i])
                              /\ \A i \in 1..n : y[m + i] \in B
        <3>1. /\ v \o rest \in Seq(B) /\ Len(v \o rest) = Len(v) + Len(rest) /\ \A i \in 1..Len(v) : (v \o rest)[i] = v[i]
              /\ \A i \in 1..Len(rest) : (v \o rest)[Len(v) + i] = rest[i]
            BY ConcatIs
        <3>2. \A i \in 1..n : rest[i] \in B
            BY <2>1, ElementOfSeq
        <3>3. Len(rest) = n
            BY <2>1
        <3>4. PICK y : y = v \o rest
            OBVIOUS
        <3>5. y \in Seq(B) /\ Len(y) = m + n /\ \A i \in 1..m : y[i] = v[i]
            BY <2>1, <3>1, <3>3, <3>4
        <3>6. \A i \in 1..n : y[m + i] = rest[i]
            BY <2>1, <3>1, <3>3, <3>4
        <3> QED
            BY <3>2, <3>4, <3>5, <3>6
    <2>5. \A i \in 1..m : v[i] \in Nat
        <3>1. \A i \in 1..m : v[i] \in B
            BY <2>1, ElementOfSeq
        <3> QED
            BY <1>1, <3>1
    <2>6. ASSUME NEW i \in 1..(m + n) PROVE (e = 0 => x[i] <= y[i]) /\ (e = last => y[i] <= x[i])
        <3>1. CASE i <= m
            <4>1. i \in 1..m
                BY <3>1
            <4>2. x[i] = v[i] /\ y[i] = v[i] /\ v[i] \in Nat
                BY <2>3, <2>4, <2>5, <4>1
            <4>3. PICK a \in Nat : a = v[i]
                BY <4>2
            <4>4. x[i] = a /\ y[i] = a
                BY <4>2, <4>3
            <4>5. a <= a
                OBVIOUS
            <4> QED
                BY <4>4, <4>5
        <3>2. CASE i > m
            <4>1. PICK j \in 1..n : i = m + j
                <5>1. i - m \in 1..n /\ i = m + (i - m)
                    BY <3>2
                <5> QED
                    BY <5>1
            <4>2. x[i] = e /\ y[i] \in B
                BY <2>3, <2>4, <4>1
            <4>3. PICK o \in 0..(Byte - 1) : o = y[i]
                BY <4>2
            <4>4. 0 <= o /\ o <= last
                BY <1>1, RadixAssumption
            <4> QED
                BY <4>2, <4>3, <4>4
        <3> QED
            BY <3>1, <3>2
    <2>7. (e = 0 => Below(x, y)) /\ (e = last => Below(y, x))
        BY <2>3, <2>4, <2>6 DEF Below
    <2> QED
        BY <2>2, <2>3, <2>4, <2>7
<1>4. PICK x \in Seq(B), y \in Seq(B), z \in Seq(B) :
        /\ BlockEncode(x) = Bracket(nb, 0) /\ y = v \o rest /\ BlockEncode(z) = Bracket(nb, Byte - 1)
        /\ Below(x, y) /\ Below(y, z)
    <2>1. v \o [i \in 1..TAIL |-> 0] \in Seq(B) /\ Below(v \o [i \in 1..TAIL |-> 0], v \o rest)
        BY <1>1, <1>3
    <2>2. v \o [i \in 1..TAIL |-> last] \in Seq(B) /\ Below(v \o rest, v \o [i \in 1..TAIL |-> last])
        BY <1>3
    <2>3. v \o rest \in Seq(B)
        BY ConcatIs
    <2>4. BlockEncode(v \o [i \in 1..TAIL |-> 0]) = Bracket(nb, 0)
        BY <1>2 DEF Bracket
    <2>5. BlockEncode(v \o [i \in 1..TAIL |-> last]) = Bracket(nb, Byte - 1)
        BY <1>1, <1>2 DEF Bracket
    <2> QED
        BY <2>1, <2>2, <2>3, <2>4, <2>5
<1>5. PICK low \in Seq(D), t \in Seq(D), high \in Seq(D) :
        low = BlockEncode(x) /\ t = BlockEncode(y) /\ high = BlockEncode(z)
    BY BlockReadsBack
<1>6. Inside(low, t, high)
    BY <1>4, <1>5, TextInside
<1>7. PICK tag : tag = Tag(nb) /\ tag.len = Len(low) /\ tag.opening = LongestCommonPrefix({low, high})
    <2>1. Tag(nb) = [opening |-> LongestCommonPrefix({Bracket(nb, 0), Bracket(nb, Byte - 1)}),
                     len |-> Len(Bracket(nb, 0))]
        BY DEF Tag
    <2>2. Bracket(nb, 0) = low /\ Bracket(nb, Byte - 1) = high
        BY <1>4, <1>5
    <2>3. Tag(nb).len = Len(low) /\ Tag(nb).opening = LongestCommonPrefix({low, high})
        <3>1. Tag(nb).len = Len(Bracket(nb, 0))
            BY <2>1, SMTT(30)
        <3>2. Tag(nb).opening = LongestCommonPrefix({Bracket(nb, 0), Bracket(nb, Byte - 1)})
            BY <2>1
        <3> QED
            BY <2>2, <3>1, <3>2
    <2> QED
        BY <2>3
<1>8. PICK c : c = tag.opening /\ IsPrefix(c, low) /\ IsPrefix(c, high) /\ Len(c) \in Nat
    BY <1>7, LongestOpens
<1>9. IsPrefix(c, t)
    <2>1. PICK k \in Nat : k = Len(c)
        BY <1>8
    <2>2. /\ k \in 0..Len(low) /\ Len(t) = Len(low) /\ Len(high) = Len(low)
          /\ SubSeq(low, 1, k) = SubSeq(high, 1, k) /\ SubSeq(low, 1, k) = SubSeq(c, 1, k)
        <3>1. Len(low) \in Nat
            BY LenProperties
        <3> QED
            BY <1>6, <1>8, <2>1, <3>1 DEF IsPrefix, Inside
    <2>3. ASSUME NEW s \in Seq(D), Len(s) = Len(low)
          PROVE  /\ SubSeq(s, 1, k) \in Seq(D) /\ Len(SubSeq(s, 1, k)) = k
                 /\ \A i \in 1..k : SubSeq(s, 1, k)[i] = s[i]
        <3>1. 1 \in Int /\ k \in Int /\ \A i \in 1..k : s[i] \in D
            <4>1. Len(s) \in Nat /\ \A i \in 1..Len(s) : s[i] \in D
                BY LenProperties, ElementOfSeq
            <4> QED
                BY <2>2, <2>3, <4>1, SMTT(30)
        <3>2. /\ SubSeq(s, 1, k) \in Seq(D) /\ Len(SubSeq(s, 1, k)) = (IF 1 <= k THEN k - 1 + 1 ELSE 0)
              /\ \A i \in 1..(k - 1 + 1) : SubSeq(s, 1, k)[i] = s[1 + i - 1]
            BY <3>1, SubSeqProperties, SMTT(30)
        <3>3. k - 1 + 1 = k /\ (~(1 <= k) => k = 0) /\ \A i \in 1..k : 1 + i - 1 = i
            OBVIOUS
        <3> QED
            BY <3>2, <3>3
    <2>4. PICK u \in Seq(D) : u = SubSeq(low, 1, k) /\ Len(u) = k /\ \A i \in 1..k : u[i] = low[i]
        BY <2>3
    <2>5. PICK w \in Seq(D) : w = SubSeq(high, 1, k) /\ Len(w) = k /\ \A i \in 1..k : w[i] = high[i]
        BY <2>2, <2>3
    <2>6. PICK q \in Seq(D) : q = SubSeq(t, 1, k) /\ Len(q) = k /\ \A i \in 1..k : q[i] = t[i]
        BY <2>2, <2>3
    <2>7. Agree(low, high, k)
        BY <2>2, <2>4, <2>5 DEF Agree
    <2>8. Agree(low, t, k)
        BY <1>6, <2>2, <2>7 DEF Inside
    <2>9. u = q
        BY <2>4, <2>6, <2>8, SeqEqual DEF Agree
    <2>10. SubSeq(c, 1, k) = SubSeq(t, 1, k)
        BY <2>2, <2>4, <2>6, <2>9
    <2>11. k <= Len(t)
        BY <2>2
    <2> QED
        BY <2>1, <2>10, <2>11 DEF IsPrefix
<1> QED
    BY <1>2, <1>4, <1>5, <1>6, <1>7, <1>8, <1>9 DEF Inside

-----------------------------------------------------------------------------
(* Bits: what convertbits computes is the next digits of the number that entered, though its *)
(* accumulator has dropped the oldest of them.                                              *)

\* The same, with names for the quotient and the remainder.
LEMMA Divided ==
    ASSUME NEW n \in Nat \ {0}, NEW x \in Nat
    PROVE  \E a \in Nat, r \in 0..(n - 1) : a = x \div n /\ r = x % n /\ x = n * a + r
BY Division

\* Powers of sums are products of powers.
LEMMA PowerSum ==
    ASSUME NEW b \in Nat, NEW m \in Nat, NEW n \in Nat
    PROVE  Power(b, m + n) = Power(b, m) * Power(b, n)
<1> DEFINE S == {k \in Nat : Power(b, m + k) = Power(b, m) * Power(b, k)}
<1>1. 0 \in S
    BY PowerZero, PowerIn
<1>2. ASSUME NEW k \in Nat, k \in S PROVE k + 1 \in S
    <2>1. PICK x \in Nat, y \in Nat : x = Power(b, m) /\ y = Power(b, k)
        BY PowerIn
    <2>2. Power(b, m + k) = x * y
        BY <1>2, <2>1
    <2>3. Power(b, (m + k) + 1) = b * (x * y)
        BY <2>2, PowerStep
    <2>4. Power(b, k + 1) = b * y
        BY <2>1, PowerStep
    <2>5. b * (x * y) = x * (b * y) /\ m + (k + 1) = (m + k) + 1
        OBVIOUS
    <2> QED
        BY <2>1, <2>3, <2>4, <2>5
<1> HIDE DEF S
<1>3. Nat \subseteq S
    BY <1>1, <1>2, Induction
<1> QED
    BY <1>3 DEF S

\* A quotient of a quotient.
Twice(n, p, q) == n \div (q * p) = (n \div p) \div q

\* Dividing by a product is dividing twice.
LEMMA DivideTwice ==
    ASSUME NEW n \in Nat, NEW p \in Nat \ {0}, NEW q \in Nat \ {0}
    PROVE  Twice(n, p, q)
<1>1. PICK a \in Nat, r \in 0..(p - 1) : a = n \div p /\ r = n % p /\ n = p * a + r
    BY Divided
<1>2. PICK c \in Nat, d \in 0..(q - 1) : c = a \div q /\ d = a % q /\ a = q * c + d
    BY Divided
<1>3. PICK w \in Nat \ {0} : w = q * p
    OBVIOUS
<1>4. p * d + r \in 0..(w - 1)
    <2>1. p * d \in Nat /\ p * d <= p * (q - 1)
        OBVIOUS
    <2>2. p * (q - 1) = w - p
        BY <1>3
    <2> QED
        BY <2>1, <2>2
<1>5. n = c * w + (p * d + r)
    <2>1. p * (q * c + d) = c * w + p * d
        BY <1>3
    <2>2. n = p * (q * c + d) + r
        BY <1>1, <1>2
    <2> QED
        BY <2>1, <2>2
<1>6. n \div w = c
    BY <1>4, <1>5, QuotientIs
<1> QED
    BY <1>1, <1>2, <1>3, <1>6 DEF Twice

\* A digit of n, of radix t and place value p, is no other when all beyond w is dropped.
SameDigit(n, w, p, t) == ((n % w) \div p) % t = (n \div p) % t

\* The oldest bits can be dropped: digits below them are those of the whole number.
LEMMA DigitOfRest ==
    ASSUME NEW n \in Nat, NEW p \in Nat \ {0}, NEW t \in Nat \ {0}, NEW s \in Nat \ {0}
    PROVE  SameDigit(n, p * (t * s), p, t)
<1>1. PICK a \in Nat, r \in 0..(p - 1) : a = n \div p /\ r = n % p /\ n = p * a + r
    BY Divided
<1>2. PICK m \in Nat \ {0} : m = t * s
    OBVIOUS
<1>3. PICK c \in Nat, e \in 0..(m - 1) : c = a \div m /\ e = a % m /\ a = m * c + e
    BY Divided
<1>4. PICK w \in Nat \ {0} : w = p * m
    OBVIOUS
<1>5. p * e + r \in 0..(w - 1)
    <2>1. p * e \in Nat /\ p * e <= p * (m - 1)
        OBVIOUS
    <2>2. p * (m - 1) = w - p
        BY <1>4
    <2> QED
        BY <2>1, <2>2
<1>6. n = c * w + (p * e + r)
    <2>1. p * (m * c + e) = c * w + p * e
        BY <1>4
    <2>2. n = p * (m * c + e) + r
        BY <1>1, <1>3
    <2> QED
        BY <2>1, <2>2
<1>7. n % w = p * e + r
    BY <1>5, <1>6, QuotientIs
<1>8. (e * p + r) \div p = e
    BY QuotientIs
<1>9. (n % w) \div p = e
    <2>1. p * e + r = e * p + r
        OBVIOUS
    <2> QED
        BY <1>7, <1>8, <2>1
<1>10. a % t = e % t
    <2>1. PICK f \in Nat, g \in 0..(t - 1) : f = e \div t /\ g = e % t /\ e = t * f + g
        BY Divided
    <2>2. PICK k \in Nat : k = s * c + f
        OBVIOUS
    <2>3. a = k * t + g
        <3>1. (t * s) * c + t * f = k * t
            BY <2>2
        <3>2. a = (t * s) * c + e
            BY <1>2, <1>3
        <3>3. {(t * s) * c, t * f, k * t} \subseteq Nat
            OBVIOUS
        <3> QED
            BY <2>1, <3>1, <3>2, <3>3
    <2>4. a % t = g
        BY <2>3, QuotientIs
    <2> QED
        BY <2>1, <2>4
<1> QED
    BY <1>1, <1>2, <1>4, <1>9, <1>10 DEF SameDigit

-----------------------------------------------------------------------------
(* Bits regrouped *)

\* A power of two is no zero.
LEMMA TwoPower == \A n \in Nat : Power(2, n) \in Nat \ {0}
BY PowerPositive

\* The values an accumulator of b bits gives, m of them, `to` bits each.
Emitted(acc, b, to, m) == [j \in 1..m |-> (acc \div Power(2, b - j * to)) % Power(2, to)]

\* The accumulator has as many.
Holds(b, to, m) == m * to <= b

\* Multiples of a width, one after the other.
LEMMA Multiples ==
    ASSUME NEW to \in Nat \ {0}, NEW b \in Nat, NEW m \in Nat, Holds(b, to, m)
    PROVE  \A j \in 1..m : b - j * to \in Nat
<1> SUFFICES ASSUME NEW j \in 1..m PROVE b - j * to \in Nat
    OBVIOUS
<1>1. j * to <= m * to /\ j * to \in Nat /\ m * to \in Nat
    OBVIOUS
<1> QED
    BY <1>1 DEF Holds

\* They are values of `to` bits.
LEMMA EmittedIs ==
    ASSUME NEW acc \in Nat, NEW to \in Nat \ {0}, NEW b \in Nat, NEW m \in Nat, Holds(b, to, m)
    PROVE  Emitted(acc, b, to, m) \in Seq(0..(Power(2, to) - 1)) /\ Len(Emitted(acc, b, to, m)) = m
<1>1. PICK V \in Nat \ {0} : V = Power(2, to)
    BY TwoPower
<1>2. \A j \in 1..m : (acc \div Power(2, b - j * to)) % V \in 0..(V - 1)
    <2> SUFFICES ASSUME NEW j \in 1..m PROVE (acc \div Power(2, b - j * to)) % V \in 0..(V - 1)
        OBVIOUS
    <2>0. b - j * to \in Nat
        BY Multiples
    <2>1. PICK p \in Nat \ {0} : p = Power(2, b - j * to)
        BY <2>0, TwoPower
    <2>2. acc \div p \in Nat
        BY Division
    <2> QED
        BY <2>1, <2>2, Division
<1>3. Emitted(acc, b, to, m) \in [1..m -> 0..(V - 1)]
    BY <1>1, <1>2 DEF Emitted
<1> QED
    BY <1>1, <1>3, FunctionIsSeq

\* One more leaves.
EmitsNext(acc, b, to, m) ==
    Emitted(acc, b, to, m + 1)
      = Append(Emitted(acc, b, to, m), (acc \div Power(2, b - (m + 1) * to)) % Power(2, to))

\* One value more is the next digit.
LEMMA EmittedStep ==
    ASSUME NEW acc \in Nat, NEW to \in Nat \ {0}, NEW b \in Nat, NEW m \in Nat, Holds(b, to, m + 1)
    PROVE  EmitsNext(acc, b, to, m)
<1> DEFINE D == 0..(Power(2, to) - 1)
<1>1. Holds(b, to, m)
    BY DEF Holds
<1>2. PICK u \in Seq(D) : u = Emitted(acc, b, to, m) /\ Len(u) = m
    BY <1>1, EmittedIs
<1>3. PICK w \in Seq(D) : w = Emitted(acc, b, to, m + 1) /\ Len(w) = m + 1
    <2>1. PICK k \in Nat : k = m + 1
        OBVIOUS
    <2>2. Holds(b, to, k)
        BY <2>1
    <2>3. Emitted(acc, b, to, k) \in Seq(D) /\ Len(Emitted(acc, b, to, k)) = k
        BY <2>2, EmittedIs
    <2> QED
        BY <2>1, <2>3
<1> HIDE DEF D
<1>4. PICK d \in D : d = w[m + 1]
    BY <1>3
<1>5. \A j \in 1..m : w[j] = u[j]
    BY <1>2, <1>3 DEF Emitted
<1>6. d = (acc \div Power(2, b - (m + 1) * to)) % Power(2, to)
    BY <1>3, <1>4 DEF Emitted
<1>7. w = Append(u, d)
    <2>1. /\ Append(u, d) \in Seq(D) /\ Len(Append(u, d)) = m + 1
          /\ \A j \in 1..m : Append(u, d)[j] = u[j]
          /\ Append(u, d)[m + 1] = d
        BY <1>2, AppendIs
    <2>2. \A j \in 1..(m + 1) : w[j] = Append(u, d)[j]
        BY <1>4, <1>5, <2>1
    <2> QED
        BY <1>3, <2>1, <2>2, SeqEqual
<1> QED
    BY <1>2, <1>3, <1>6, <1>7 DEF EmitsNext

\* A value added to the second of two sequences is added to both.
LEMMA ConcatAppend ==
    ASSUME NEW S, NEW s \in Seq(S), NEW t \in Seq(S), NEW d \in S
    PROVE  s \o Append(t, d) = Append(s \o t, d) /\ s \o t \in Seq(S)
OBVIOUS

\* What leaves the accumulator are the next digits of the number that entered, though the
\* accumulator has dropped its oldest bits.
LEMMA EmittedSpell ==
    ASSUME NEW to \in Nat \ {0}, NEW A \in Nat, NEW b \in 0..A, NEW n \in Nat, NEW m \in Nat, Holds(b, to, m),
           NEW out \in Seq(0..(Power(2, to) - 1)), Number(out, Power(2, to)) = n \div Power(2, b)
    PROVE  Number(out \o Emitted(n % Power(2, A), b, to, m), Power(2, to)) = n \div Power(2, b - m * to)
<1>1. PICK V \in Nat \ {0} : V = Power(2, to)
    BY TwoPower
<1>2. PICK acc \in Nat : acc = n % Power(2, A)
    <2>1. PICK w \in Nat \ {0} : w = Power(2, A)
        BY TwoPower
    <2>2. n % w \in Nat
        BY Division
    <2> QED
        BY <2>1, <2>2
<1> DEFINE D == 0..(V - 1)
           S == {k \in Nat : Holds(b, to, k) => Number(out \o Emitted(acc, b, to, k), V) = n \div Power(2, b - k * to)}
<1>3. 0 \in S
    <2>1. Emitted(acc, b, to, 0) = << >>
        BY DEF Emitted
    <2>2. out \o << >> = out
        OBVIOUS
    <2>3. 0 * to = 0 /\ b - 0 = b
        OBVIOUS
    <2> QED
        BY <1>1, <2>1, <2>2, <2>3
<1>4. ASSUME NEW k \in Nat, k \in S PROVE k + 1 \in S
    <2> SUFFICES ASSUME Holds(b, to, k + 1)
                 PROVE  Number(out \o Emitted(acc, b, to, k + 1), V) = n \div Power(2, b - (k + 1) * to)
        OBVIOUS
    <2>1. (k + 1) * to = k * to + to /\ k * to \in Nat /\ (k + 1) * to <= b /\ Holds(b, to, k)
        BY DEF Holds
    <2>2. PICK c \in Nat : c = b - (k + 1) * to /\ b - k * to = c + to
        BY <2>1
    <2>3. PICK p \in Nat \ {0} : p = Power(2, c)
        BY TwoPower
    <2>4. Number(out \o Emitted(acc, b, to, k), V) = n \div Power(2, c + to)
        BY <1>4, <2>1, <2>2
    <2>5. Power(2, c + to) = V * p
        <3>1. Power(2, c + to) = p * V
            BY <1>1, <2>3, PowerSum
        <3> QED
            BY <3>1
    <2>6. PICK q \in Nat : q = n \div p
        BY Division
    <2>7. Number(out \o Emitted(acc, b, to, k), V) = q \div V
        <3>1. Twice(n, p, V)
            BY DivideTwice
        <3> QED
            BY <2>4, <2>5, <2>6, <3>1 DEF Twice
    <2>8. PICK d \in D : d = q % V /\ q = (q \div V) * V + d
        <3>1. PICK x \in Nat, y \in 0..(V - 1) : x = q \div V /\ y = q % V /\ q = V * x + y
            BY Divided
        <3>2. V * x = x * V
            OBVIOUS
        <3> QED
            BY <3>1, <3>2
    <2>9. (acc \div p) % V = d
        <3>1. PICK e \in Nat : e = A - (c + to)
            BY <2>1, <2>2
        <3>2. PICK s \in Nat \ {0} : s = Power(2, e)
            BY TwoPower
        <3>3. Power(2, (c + to) + e) = (V * p) * s
            BY <2>5, <3>2, PowerSum
        <3>4. (c + to) + e = A
            BY <3>1
        <3>5. (V * p) * s = p * (V * s)
            OBVIOUS
        <3>6. Power(2, A) = p * (V * s)
            BY <3>3, <3>4, <3>5
        <3>7. SameDigit(n, p * (V * s), p, V)
            BY DigitOfRest
        <3> QED
            BY <1>2, <2>6, <2>8, <3>6, <3>7 DEF SameDigit
    <2>10. PICK u \in Seq(D) : u = Emitted(acc, b, to, k)
        BY <1>1, <2>1, EmittedIs
    <2>11. Emitted(acc, b, to, k + 1) = Append(u, d)
        <3>1. EmitsNext(acc, b, to, k)
            BY EmittedStep
        <3>2. (acc \div Power(2, b - (k + 1) * to)) % Power(2, to) = d
            BY <1>1, <2>2, <2>3, <2>9
        <3> QED
            BY <2>10, <3>1, <3>2 DEF EmitsNext
    <2>12. out \o Append(u, d) = Append(out \o u, d) /\ out \o u \in Seq(D)
        BY <1>1, ConcatAppend
    <2>13. Number(Append(out \o u, d), V) = Number(out \o u, V) * V + d
        <3>1. out \o u \in Seq(Nat) /\ d \in Nat
            BY <2>12, DigitsAreNats
        <3> QED
            BY <3>1, NumberAppend, ZenonT(40)
    <2> QED
        BY <2>2, <2>3, <2>6, <2>7, <2>8, <2>10, <2>11, <2>12, <2>13
<1> HIDE DEF S
<1>5. Nat \subseteq S
    BY <1>3, <1>4, Induction
<1> QED
    BY <1>1, <1>2, <1>5 DEF S

\* Between two values the accumulator keeps the newest bits of the number n that k values spell,
\* and out the rest of it: all but the last st.bits bits, in values of `to` bits.
RegroupState(st, n, k, from, to) ==
    /\ st.out \in Seq(0..(Power(2, to) - 1)) /\ st.bits \in 0..(to - 1)
    /\ st.bits + to * Len(st.out) = from * k
    /\ st.acc = n % Power(2, AccBits)
    /\ Number(st.out, Power(2, to)) = n \div Power(2, st.bits)

\* The accumulator has room.
Roomy(from, to) == from + to <= AccBits + 1

\* The newest bits are of the newest value and the newest bits before.
SameNewest(n, A, R, v) == ((n % A) * R + v) % A = (n * R + v) % A

\* An accumulator that drops its oldest bits keeps the newest, whatever enters.
LEMMA NewestBits ==
    ASSUME NEW n \in Nat, NEW A \in Nat \ {0}, NEW R \in Nat, NEW v \in Nat
    PROVE  SameNewest(n, A, R, v)
<1>1. PICK q \in Nat, r \in 0..(A - 1) : q = n \div A /\ r = n % A /\ n = A * q + r
    BY Divided
<1>2. PICK y \in Nat : y = r * R + v
    OBVIOUS
<1>3. PICK a \in Nat, b \in 0..(A - 1) : a = y \div A /\ b = y % A /\ y = A * a + b
    BY Divided
<1>4. n * R + v = (q * R + a) * A + b
    <2>1. n * R = (q * R) * A + r * R
        BY <1>1
    <2>2. (q * R + a) * A = (q * R) * A + A * a
        OBVIOUS
    <2>3. PICK x \in Nat, y2 \in Nat, z \in Nat, w \in Nat : x = n * R /\ y2 = r * R /\ z = (q * R) * A /\ w = A * a
        OBVIOUS
    <2>4. x = z + y2 /\ (q * R + a) * A = z + w /\ y2 + v = w + b
        BY <1>2, <1>3, <2>1, <2>2, <2>3
    <2> QED
        BY <2>3, <2>4
<1>5. PICK c \in Nat : c = q * R + a
    OBVIOUS
<1>6. (c * A + b) % A = b
    BY QuotientIs
<1> QED
    BY <1>1, <1>2, <1>3, <1>4, <1>5, <1>6 DEF SameNewest

\* One value enters: the state is still one.
Enters(st, v, n, k, from, to) == RegroupState(Shift(st, v, from, to), n * Power(2, from) + v, k + 1, from, to)

\* One value that enters, and those that leave for it, leave the state as it should be.
LEMMA ShiftKeeps ==
    ASSUME NEW from \in Nat \ {0}, NEW to \in Nat \ {0}, Roomy(from, to), NEW n \in Nat, NEW k \in Nat,
           NEW st, RegroupState(st, n, k, from, to), NEW v \in 0..(Power(2, from) - 1)
    PROVE  Enters(st, v, n, k, from, to)
<1>1. PICK R \in Nat \ {0} : R = Power(2, from)
    BY TwoPower
<1>2. PICK A \in Nat \ {0} : A = Power(2, AccBits)
    BY TwoPower, BitsAssumption
<1>3. PICK V \in Nat \ {0} : V = Power(2, to)
    BY TwoPower
<1>4. PICK N \in Nat : N = n * R + v
    BY <1>1
<1>5. PICK b \in 0..(to - 1) : b = st.bits
    BY DEF RegroupState
<1>6. PICK out \in Seq(0..(V - 1)) : out = st.out
    BY <1>3 DEF RegroupState
<1>7. PICK bits \in Nat : bits = b + from /\ bits <= AccBits
    <2>1. AccBits \in Nat
        BY BitsAssumption
    <2>2. from + to <= AccBits + 1
        BY DEF Roomy
    <2> QED
        BY <2>1, <2>2
<1>8. PICK m \in Nat, rest \in 0..(to - 1) : m = bits \div to /\ rest = bits % to /\ bits = to * m + rest
    BY Divided
<1>9. Holds(bits, to, m) /\ bits - m * to = rest
    <2>1. PICK x \in Nat : x = to * m /\ x = m * to
        OBVIOUS
    <2>2. bits = x + rest
        BY <1>8, <2>1
    <2>3. x <= bits /\ bits - x = rest
        BY <2>2
    <2> QED
        BY <2>1, <2>3 DEF Holds
<1>10. (st.acc * R + v) % A = N % A
    <2>1. st.acc = n % A
        BY <1>2 DEF RegroupState
    <2>2. v \in Nat
        BY <1>1
    <2>3. SameNewest(n, A, R, v)
        BY <2>2, NewestBits
    <2> QED
        BY <1>4, <2>1, <2>3 DEF SameNewest
<1>11. PICK acc \in Nat : acc = N % A
    <2>1. N % A \in Nat
        BY Division
    <2> QED
        BY <2>1
<1>12. PICK u \in Seq(0..(V - 1)) : u = Emitted(acc, bits, to, m) /\ Len(u) = m
    BY <1>3, <1>9, EmittedIs
<1>13. Shift(st, v, from, to) = [acc |-> acc, bits |-> rest, out |-> out \o u]
    BY <1>1, <1>2, <1>5, <1>6, <1>7, <1>8, <1>10, <1>11, <1>12 DEF Shift, Emitted
<1>14. Number(out, V) = N \div Power(2, bits)
    <2>0. b \in Nat
        OBVIOUS
    <2>1. PICK p \in Nat \ {0} : p = Power(2, b)
        BY <2>0, TwoPower
    <2>2. Power(2, bits) = p * R
        BY <1>1, <1>7, <2>0, <2>1, PowerSum
    <2>3. Twice(N, R, p)
        BY DivideTwice
    <2>4. N \div R = n
        <3>1. v \in 0..(R - 1)
            BY <1>1
        <3>2. (n * R + v) \div R = n
            BY <3>1, QuotientIs
        <3> QED
            BY <1>4, <3>2
    <2>5. Number(out, V) = n \div p
        BY <1>3, <1>5, <1>6, <2>1 DEF RegroupState
    <2> QED
        BY <2>2, <2>3, <2>4, <2>5 DEF Twice
<1>15. Number(out \o u, V) = N \div Power(2, rest)
    <2>1. bits \in 0..AccBits
        BY <1>7, BitsAssumption
    <2>2. AccBits \in Nat
        BY BitsAssumption
    <2>3. Number(out \o Emitted(N % Power(2, AccBits), bits, to, m), Power(2, to)) = N \div Power(2, bits - m * to)
        BY <1>3, <1>9, <1>14, <2>1, <2>2, EmittedSpell, SMTT(30)
    <2> QED
        BY <1>2, <1>3, <1>9, <1>11, <1>12, <2>3
<1>16. out \o u \in Seq(0..(V - 1)) /\ Len(out \o u) = Len(out) + m /\ Len(out) \in Nat
    BY <1>12, ConcatIs
<1>17. rest + to * (Len(out) + m) = from * (k + 1)
    <2>1. b + to * Len(out) = from * k
        BY <1>5, <1>6 DEF RegroupState
    <2>2. to * (Len(out) + m) = to * Len(out) + to * m
        BY <1>16
    <2>3. from * (k + 1) = from * k + from
        OBVIOUS
    <2>4. PICK x \in Nat, y \in Nat, z \in Nat : x = to * Len(out) /\ y = to * m /\ z = from * k
        BY <1>16
    <2>5. b + x = z /\ b + from = y + rest
        BY <1>7, <1>8, <2>1, <2>4
    <2>6. rest + (x + y) = z + from
        BY <2>5
    <2> QED
        BY <2>2, <2>3, <2>4, <2>6
<1>18. RegroupState([acc |-> acc, bits |-> rest, out |-> out \o u], N, k + 1, from, to)
    BY <1>2, <1>3, <1>11, <1>15, <1>16, <1>17 DEF RegroupState
<1> QED
    BY <1>1, <1>4, <1>13, <1>18 DEF Enters

\* The loop: every value in turn.
RegroupRun(F, data, from, to) ==
    /\ F[0] = [acc |-> 0, bits |-> 0, out |-> << >>]
    /\ \A k \in 1..Len(data) : F[k] = Shift(F[k - 1], data[k], from, to)

\* A state of the accumulator.
AnyState(to) == [acc : Nat, bits : Nat, out : Seq(0..(Power(2, to) - 1))]

\* A value that enters leaves a state.
LEMMA ShiftIn ==
    ASSUME NEW from \in Nat \ {0}, NEW to \in Nat \ {0}, NEW st \in AnyState(to), NEW v \in Nat
    PROVE  Shift(st, v, from, to) \in AnyState(to)
<1>1. PICK R \in Nat \ {0}, A \in Nat \ {0}, V \in Nat \ {0} : R = Power(2, from) /\ A = Power(2, AccBits) /\ V = Power(2, to)
    <2>1. AccBits \in Nat
        BY BitsAssumption
    <2> QED
        BY <2>1, TwoPower
<1>2. PICK acc \in Nat : acc = (st.acc * R + v) % A
    <2>1. PICK x \in Nat : x = st.acc * R + v
        BY DEF AnyState
    <2>2. x % A \in Nat
        BY Division
    <2> QED
        BY <2>1, <2>2
<1>3. PICK bits \in Nat : bits = st.bits + from
    BY DEF AnyState
<1>4. PICK m \in Nat, rest \in 0..(to - 1) : m = bits \div to /\ rest = bits % to /\ bits = to * m + rest
    BY Divided
<1>5. Holds(bits, to, m)
    <2>1. PICK x \in Nat : x = to * m /\ x = m * to
        OBVIOUS
    <2>2. bits = x + rest
        BY <1>4, <2>1
    <2> QED
        BY <2>1, <2>2 DEF Holds
<1>6. PICK u \in Seq(0..(V - 1)) : u = Emitted(acc, bits, to, m)
    BY <1>1, <1>5, EmittedIs
<1>7. st.out \o u \in Seq(0..(V - 1))
    BY <1>1, ConcatProperties DEF AnyState
<1>8. Shift(st, v, from, to) = [acc |-> acc, bits |-> rest, out |-> st.out \o u]
    BY <1>1, <1>2, <1>3, <1>4, <1>6 DEF Shift, Emitted
<1> QED
    BY <1>1, <1>7, <1>8 DEF AnyState

\* The loop takes the values in one by one.
LEMMA RegroupLoop ==
    ASSUME NEW from \in Nat \ {0}, NEW to \in Nat \ {0}, NEW data \in Seq(Nat)
    PROVE  \E F \in [0..Len(data) -> AnyState(to)] :
               RegroupRun(F, data, from, to) /\ Regroup(data, from, to) = F[Len(data)]
<1> DEFINE n == Len(data)
           V == AnyState(to)
           first == [acc |-> 0, bits |-> 0, out |-> << >>]
           step == [p \in V \X (1..n) |-> Shift(p[1], data[p[2]], from, to)]
           before == [m \in 1..n |-> m - 1]
           Eq(f) == f = [k \in 0..n |-> IF k = 0 THEN first ELSE Shift(f[k - 1], data[k], from, to)]
<1>1. n \in Nat /\ \A k \in 1..n : data[k] \in Nat
    BY LenProperties, ElementOfSeq
<1>2. first \in V
    BY DEF AnyState
<1>3. \E f : Eq(f)
    <2>1. step \in [V \X (1..n) -> V]
        <3>1. \A st \in V, k \in 1..n : Shift(st, data[k], from, to) \in V
            BY <1>1, ShiftIn
        <3> HIDE DEF V
        <3> QED
            BY <3>1
    <2>2. before \in [1..n -> Nat] /\ \A m \in 1..n : before[m] < m /\ before[m] = m - 1
        BY <1>1
    <2>3. PICK F \in [0..n -> V] : F[0] = first /\ \A m \in 1..n : F[m] = step[<<F[before[m]], m>>]
        <3>1. Earlier(before, n)
            BY <2>2 DEF Earlier
        <3> HIDE DEF step, before, n, V, first
        <3>2. PICK F \in [0..n -> V] : Unrolls(F, n, first, step, before)
            BY <1>1, <1>2, <2>1, <2>2, <3>1, Recursion
        <3> QED
            BY <3>2 DEF Unrolls
    <2>4. ASSUME NEW k \in 0..n PROVE F[k] = IF k = 0 THEN first ELSE Shift(F[k - 1], data[k], from, to)
        <3>1. CASE k = 0
            <4> HIDE DEF step, before, first
            <4> QED
                BY <2>3, <3>1
        <3>2. CASE k # 0
            <4>1. k \in 1..n /\ k - 1 \in 0..n
                BY <1>1, <3>2
            <4>2. F[k - 1] \in V
                BY <2>3, <4>1
            <4>3. step[<<F[k - 1], k>>] = Shift(F[k - 1], data[k], from, to)
                <5> HIDE DEF V
                <5> QED
                    BY <4>1, <4>2
            <4> HIDE DEF step, before, first
            <4> QED
                BY <2>2, <2>3, <3>2, <4>1, <4>3
        <3> QED
            BY <3>1, <3>2
    <2> QED
        <3> HIDE DEF first
        <3> QED
            BY <2>3, <2>4
<1> DEFINE F == CHOOSE f : Eq(f)
<1>4. Eq(F)
    BY <1>3
<1>5. Regroup(data, from, to) = F[n]
    BY DEF Regroup
<1>6. F[0] = first /\ \A k \in 1..n : F[k] = Shift(F[k - 1], data[k], from, to)
    <2>1. F = [k \in 0..n |-> IF k = 0 THEN first ELSE Shift(F[k - 1], data[k], from, to)]
        BY <1>4
    <2> HIDE DEF F, first
    <2> QED
        BY <1>1, <2>1
<1>7. F \in [0..n -> V]
    <2>1. F = [k \in 0..n |-> IF k = 0 THEN first ELSE Shift(F[k - 1], data[k], from, to)]
        BY <1>4
    <2> DEFINE S == {k \in Nat : k \in 0..n => F[k] \in V}
    <2>2. 0 \in S
        BY <1>1, <1>2, <1>6
    <2>3. ASSUME NEW k \in Nat, k \in S PROVE k + 1 \in S
        <3> SUFFICES ASSUME k + 1 \in 0..n PROVE F[k + 1] \in V
            OBVIOUS
        <3>1. k \in 0..n /\ k + 1 \in 1..n /\ (k + 1) - 1 = k
            BY <1>1
        <3>2. F[k] \in V /\ data[k + 1] \in Nat
            BY <1>1, <2>3, <3>1
        <3>3. F[k + 1] = Shift(F[k], data[k + 1], from, to)
            <4> HIDE DEF F
            <4> QED
                BY <1>6, <3>1
        <3> HIDE DEF F
        <3> QED
            BY <3>2, <3>3, ShiftIn
    <2> HIDE DEF S
    <2>4. Nat \subseteq S
        BY <2>2, <2>3, Induction
    <2>5. \A k \in 0..n : F[k] \in V
        <3> HIDE DEF F
        <3> QED
            BY <1>1, <2>4 DEF S
    <2>6. F = [k \in 0..n |-> F[k]]
        <3> HIDE DEF first
        <3>1. \E G : F = [k \in 0..n |-> G[k]]
            <4> DEFINE G == [k \in 0..n |-> IF k = 0 THEN first ELSE Shift(F[k - 1], data[k], from, to)]
            <4>1. F = G
                BY <2>1
            <4> QED
                BY <4>1
        <3> HIDE DEF F
        <3> QED
            BY <3>1
    <2> HIDE DEF F, V
    <2> QED
        BY <2>5, <2>6
<1> HIDE DEF F
<1> QED
    BY <1>5, <1>6, <1>7 DEF RegroupRun

\* So when it ends the state is the one all of the values give.
LEMMA Regrouped ==
    ASSUME NEW from \in Nat \ {0}, NEW to \in Nat \ {0}, Roomy(from, to), NEW data \in Seq(0..(Power(2, from) - 1))
    PROVE  RegroupState(Regroup(data, from, to), Number(data, Power(2, from)), Len(data), from, to)
<1>1. PICK R \in Nat \ {0} : R = Power(2, from)
    BY TwoPower
<1>2. data \in Seq(Nat) /\ Len(data) \in Nat /\ \A k \in 1..Len(data) : data[k] \in 0..(R - 1)
    BY <1>1, DigitsAreNats, LenProperties, ElementOfSeq
<1>3. PICK n \in Nat : n = Len(data)
    BY <1>2
<1>4. PICK N \in [0..n -> Nat] : NumberRun(N, data, R) /\ Number(data, R) = N[n]
    BY <1>2, <1>3, NumberLoop
<1>5. PICK F \in [0..n -> AnyState(to)] : RegroupRun(F, data, from, to) /\ Regroup(data, from, to) = F[n]
    BY <1>2, <1>3, RegroupLoop
<1> DEFINE S == {k \in Nat : k \in 0..n => RegroupState(F[k], N[k], k, from, to)}
<1>6. 0 \in S
    <2>1. PICK A \in Nat \ {0} : A = Power(2, AccBits)
        BY TwoPower, BitsAssumption
    <2>2. F[0] = [acc |-> 0, bits |-> 0, out |-> << >>] /\ N[0] = 0
        BY <1>4, <1>5 DEF RegroupRun, NumberRun
    <2>3. Power(2, to) \in Nat /\ Number(<< >>, Power(2, to)) = 0 /\ Power(2, 0) = 1
        BY TwoPower, NumberEmpty, PowerZero
    <2>4. 0 % A = 0 /\ 0 \div 1 = 0 /\ to * 0 = 0 /\ from * 0 = 0
        OBVIOUS
    <2>5. << >> \in Seq(0..(Power(2, to) - 1)) /\ Len(<< >>) = 0 /\ 0 \in 0..(to - 1)
        OBVIOUS
    <2>6. RegroupState([acc |-> 0, bits |-> 0, out |-> << >>], 0, 0, from, to)
        BY <2>1, <2>3, <2>4, <2>5 DEF RegroupState
    <2> QED
        BY <2>2, <2>6
<1>7. ASSUME NEW k \in Nat, k \in S PROVE k + 1 \in S
    <2> SUFFICES ASSUME k + 1 \in 0..n PROVE RegroupState(F[k + 1], N[k + 1], k + 1, from, to)
        OBVIOUS
    <2>1. k \in 0..n /\ k + 1 \in 1..n /\ (k + 1) - 1 = k
        OBVIOUS
    <2>2. PICK m \in Nat, v \in 0..(R - 1) : m = N[k] /\ v = data[k + 1]
        BY <1>2, <1>3, <2>1
    <2>3. RegroupState(F[k], m, k, from, to)
        BY <1>7, <2>1, <2>2
    <2>4. N[k + 1] = m * R + v
        BY <1>3, <1>4, <2>1, <2>2 DEF NumberRun
    <2>5. F[k + 1] = Shift(F[k], v, from, to)
        BY <1>3, <1>5, <2>1, <2>2 DEF RegroupRun
    <2>6. Enters(F[k], v, m, k, from, to)
        BY <1>1, <2>3, ShiftKeeps
    <2> QED
        BY <1>1, <2>4, <2>5, <2>6 DEF Enters
<1> HIDE DEF S
<1>8. Nat \subseteq S
    BY <1>6, <1>7, Induction
<1>9. RegroupState(F[n], N[n], n, from, to)
    BY <1>8 DEF S
<1> QED
    BY <1>1, <1>3, <1>4, <1>5, <1>9

\* Bytes, and groups.
ByteSeq  == Seq(0..(Power(2, ByteBits) - 1))
GroupSeq == Seq(0..(Power(2, GroupBits) - 1))

\* The groups spell the bits of the bytes, and `pad` zeros after them.
SameBits(groups, bytes, pad) ==
    /\ GroupBits * Len(groups) = ByteBits * Len(bytes) + pad
    /\ Number(groups, Power(2, GroupBits)) = Number(bytes, Power(2, ByteBits)) * Power(2, pad)

\* The widths are such that no bit is dropped before it has left.
LEMMA Widths ==
    /\ ByteBits \in Nat \ {0} /\ GroupBits \in Nat \ {0} /\ AccBits \in Nat \ {0} /\ GroupBits < ByteBits
    /\ Roomy(ByteBits, GroupBits) /\ Roomy(GroupBits, ByteBits)
    /\ ByteBits <= AccBits /\ GroupBits <= AccBits
BY BitsAssumption DEF Roomy

\* One number has one sequence of so many digits.
LEMMA SameDigits ==
    ASSUME NEW r \in Nat \ {0, 1}, NEW s \in Seq(0..(r - 1)), NEW t \in Seq(0..(r - 1)),
           Len(s) = Len(t), Number(s, r) = Number(t, r)
    PROVE  s = t
BY SpellingIsPadded

\* A bit has two values.
LEMMA TwoValues == \A w \in Nat \ {0} : Power(2, w) \in Nat \ {0, 1}
<1> SUFFICES ASSUME NEW w \in Nat \ {0} PROVE Power(2, w) \in Nat \ {0, 1}
    OBVIOUS
<1>1. PICK k \in Nat : w = k + 1
    <2>1. w - 1 \in Nat /\ w = (w - 1) + 1
        OBVIOUS
    <2> QED
        BY <2>1
<1>2. Power(2, k + 1) = 2 * Power(2, k) /\ Power(2, k) \in Nat \ {0}
    BY PowerStep, TwoPower
<1> QED
    BY <1>1, <1>2

\* Bytes have one such spelling.
LEMMA OneRegrouping ==
    ASSUME NEW bytes \in ByteSeq, NEW g \in GroupSeq, NEW h \in GroupSeq,
           NEW p \in 0..(GroupBits - 1), NEW q \in 0..(GroupBits - 1), SameBits(g, bytes, p), SameBits(h, bytes, q)
    PROVE  g = h
<1>1. PICK w \in Nat \ {0} : w = GroupBits
    BY Widths
<1>2. PICK i \in Nat, j \in Nat, n \in Nat : i = Len(g) /\ j = Len(h) /\ n = ByteBits * Len(bytes)
    BY Widths, LenProperties DEF GroupSeq, ByteSeq
<1>3. w * i = n + p /\ w * j = n + q
    BY <1>1, <1>2 DEF SameBits
<1>4. i = j
    <2>1. ASSUME i > j PROVE FALSE
        <3>1. PICK d \in Nat : i = j + (d + 1)
            <4>1. i - (j + 1) \in Nat /\ i = j + ((i - (j + 1)) + 1)
                BY <2>1
            <4> QED
                BY <4>1
        <3>2. w * i = w * j + (w * d + w) /\ {w * i, w * j, w * d} \subseteq Nat
            BY <3>1
        <3> QED
            BY <1>1, <1>3, <3>2
    <2>2. ASSUME j > i PROVE FALSE
        <3>1. PICK d \in Nat : j = i + (d + 1)
            <4>1. j - (i + 1) \in Nat /\ j = i + ((j - (i + 1)) + 1)
                BY <2>2
            <4> QED
                BY <4>1
        <3>2. w * j = w * i + (w * d + w) /\ {w * i, w * j, w * d} \subseteq Nat
            BY <3>1
        <3> QED
            BY <1>1, <1>3, <3>2
    <2> QED
        BY <2>1, <2>2
<1>5. p = q
    BY <1>1, <1>3, <1>4
<1>6. Number(g, Power(2, GroupBits)) = Number(h, Power(2, GroupBits))
    BY <1>5 DEF SameBits
<1> QED
    BY <1>2, <1>4, <1>6, Widths, TwoValues, SameDigits DEF GroupSeq

\* A remainder of a remainder.
RemainsSame(n, p, e) == (n % (p * e)) % p = n % p

\* The newest bits of the newest bits.
LEMMA RemainderTwice ==
    ASSUME NEW n \in Nat, NEW p \in Nat \ {0}, NEW e \in Nat \ {0}
    PROVE  RemainsSame(n, p, e)
<1>1. PICK w \in Nat \ {0} : w = p * e
    OBVIOUS
<1>2. PICK q \in Nat, r \in 0..(w - 1) : q = n \div w /\ r = n % w /\ n = w * q + r
    BY Divided
<1>3. PICK a \in Nat, b \in 0..(p - 1) : a = r \div p /\ b = r % p /\ r = p * a + b
    BY Divided
<1>4. PICK c \in Nat : c = e * q + a
    OBVIOUS
<1>5. n = c * p + b
    <2>1. c * p = (p * e) * q + p * a
        BY <1>4
    <2>2. PICK x \in Nat, y \in Nat : x = w * q /\ y = p * a
        OBVIOUS
    <2>3. c * p = x + y /\ n = x + r /\ r = y + b
        BY <1>1, <1>2, <1>3, <2>1, <2>2
    <2> QED
        BY <2>3
<1>6. (c * p + b) % p = b
    BY QuotientIs
<1> QED
    BY <1>1, <1>2, <1>3, <1>5, <1>6 DEF RemainsSame

\* A remainder moved to the left.
MovesLeft(n, p, q) == (n * q) % (p * q) = (n % p) * q

\* Zeros that enter move the rest to the left.
LEMMA RemainderTimes ==
    ASSUME NEW n \in Nat, NEW p \in Nat \ {0}, NEW q \in Nat \ {0}
    PROVE  MovesLeft(n, p, q)
<1>1. PICK w \in Nat \ {0} : w = p * q
    OBVIOUS
<1>2. PICK a \in Nat, b \in 0..(p - 1) : a = n \div p /\ b = n % p /\ n = p * a + b
    BY Divided
<1>3. PICK x \in Nat : x = b * q /\ x \in 0..(w - 1)
    <2>1. b * q \in Nat /\ b * q <= (p - 1) * q /\ (p - 1) * q = w - q
        BY <1>1
    <2> QED
        BY <2>1
<1>4. n * q = a * w + x
    <2>1. (p * a + b) * q = a * (p * q) + b * q
        OBVIOUS
    <2> QED
        BY <1>1, <1>2, <1>3, <2>1
<1>5. (a * w + x) % w = x
    BY <1>3, QuotientIs
<1> QED
    BY <1>1, <1>2, <1>3, <1>4, <1>5 DEF MovesLeft

\* The bits the accumulator still has to give are those of the whole number.
LEMMA KeptBits ==
    ASSUME NEW n \in Nat, NEW b \in 0..AccBits
    PROVE  (n % Power(2, AccBits)) % Power(2, b) = n % Power(2, b)
<1>1. PICK c \in Nat, d \in Nat : c = b /\ d = AccBits - b /\ AccBits = c + d
    BY Widths
<1>2. PICK p \in Nat \ {0}, e \in Nat \ {0} : p = Power(2, c) /\ e = Power(2, d)
    BY TwoPower
<1>3. Power(2, AccBits) = p * e
    BY <1>1, <1>2, PowerSum
<1>4. RemainsSame(n, p, e)
    BY RemainderTwice
<1> QED
    BY <1>1, <1>2, <1>3, <1>4 DEF RemainsSame

\* A sequence of one at the end.
LEMMA LastJoined ==
    ASSUME NEW S, NEW s \in Seq(S), NEW d \in S
    PROVE  s \o <<d>> = Append(s, d) /\ s \o << >> = s
OBVIOUS

\* The encoder writes the bits of the bytes, and less than a group of zeros.
LEMMA ToGroupsIs ==
    ASSUME NEW bytes \in ByteSeq
    PROVE  /\ ToGroups(bytes) \in GroupSeq
           /\ \E pad \in 0..(GroupBits - 1) : SameBits(ToGroups(bytes), bytes, pad)
<1>1. PICK V \in Nat \ {0} : V = Power(2, GroupBits)
    BY Widths, TwoPower
<1>2. PICK w \in Nat \ {0} : w = GroupBits
    BY Widths
<1>3. PICK N \in Nat : N = Number(bytes, Power(2, ByteBits))
    <2>1. Power(2, ByteBits) \in Nat
        BY Widths, TwoPower
    <2>2. bytes \in Seq(Nat)
        BY <2>1, DigitsAreNats DEF ByteSeq
    <2> QED
        BY <2>1, <2>2, NumberIn
<1>4. PICK st : st = Regroup(bytes, ByteBits, GroupBits)
    OBVIOUS
<1>5. RegroupState(st, N, Len(bytes), ByteBits, GroupBits)
    BY <1>3, <1>4, Widths, Regrouped DEF ByteSeq
<1>6. PICK out \in Seq(0..(V - 1)), b \in 0..(w - 1) : out = st.out /\ b = st.bits
    BY <1>1, <1>2, <1>5 DEF RegroupState
<1>7. b + w * Len(out) = ByteBits * Len(bytes) /\ Number(out, V) = N \div Power(2, b) /\ st.acc = N % Power(2, AccBits)
    BY <1>1, <1>2, <1>5, <1>6 DEF RegroupState
<1>8. Len(out) \in Nat
    BY LenProperties
<1>9. CASE b = 0
    <2>1. ToGroups(bytes) = out
        BY <1>4, <1>6, <1>9, LastJoined DEF ToGroups
    <2>2. N \div 1 = N /\ N * 1 = N /\ w * Len(out) = ByteBits * Len(bytes) + 0
        BY <1>7, <1>8, <1>9
    <2>3. Number(out, V) = N * Power(2, 0)
        BY <1>7, <1>9, <2>2, PowerZero
    <2>4. SameBits(out, bytes, 0)
        BY <1>1, <1>2, <1>3, <2>2, <2>3 DEF SameBits
    <2> QED
        BY <1>1, <1>2, <2>1, <2>4 DEF GroupSeq
<1>10. CASE b # 0
    <2>1. PICK pad \in 0..(w - 1) : pad = w - b /\ w = b + pad /\ b \in Nat /\ pad \in Nat
        BY <1>10
    <2>2. PICK P \in Nat \ {0}, Q \in Nat \ {0} : P = Power(2, b) /\ Q = Power(2, pad)
        BY <2>1, TwoPower
    <2>3. V = P * Q
        BY <1>1, <1>2, <2>1, <2>2, PowerSum
    <2>4. PICK x \in Nat, y \in 0..(P - 1) : x = N \div P /\ y = N % P /\ N = P * x + y
        BY Divided
    <2>5. PICK acc \in Nat : acc = N % Power(2, AccBits)
        <3>1. PICK A \in Nat \ {0} : A = Power(2, AccBits)
            BY Widths, TwoPower
        <3>2. N % A \in Nat
            BY Division
        <3> QED
            BY <3>1, <3>2
    <2>6. acc % P = y
        <3>1. b \in 0..AccBits
            BY <1>2, Widths
        <3> QED
            BY <2>2, <2>4, <2>5, <3>1, KeptBits
    <2>7. PICK d \in 0..(V - 1) : d = (acc * Q) % V /\ d = y * Q
        <3>1. MovesLeft(acc, P, Q)
            BY RemainderTimes
        <3>2. (acc * Q) % V = y * Q
            BY <2>3, <2>6, <3>1 DEF MovesLeft
        <3>3. PICK z \in Nat : z = acc * Q
            OBVIOUS
        <3>4. z % V \in 0..(V - 1)
            BY Division
        <3> QED
            BY <3>2, <3>3, <3>4
    <2>8. ToGroups(bytes) = out \o <<d>>
        <3>1. (st.acc * Power(2, GroupBits - st.bits)) % Power(2, GroupBits) = d
            BY <1>1, <1>2, <1>6, <1>7, <2>1, <2>2, <2>5, <2>7
        <3>2. st.bits > 0
            BY <1>6, <1>10
        <3>3. ToGroups(bytes)
                = st.out \o <<(st.acc * Power(2, GroupBits - st.bits)) % Power(2, GroupBits)>>
            BY <1>4, <3>2 DEF ToGroups
        <3> QED
            BY <1>6, <3>1, <3>3
    <2>9. out \o <<d>> = Append(out, d) /\ Append(out, d) \in Seq(0..(V - 1)) /\ Len(Append(out, d)) = Len(out) + 1
        BY AppendIs, LastJoined
    <2>10. Number(Append(out, d), V) = x * V + d
        <3>1. out \in Seq(Nat) /\ d \in Nat
            BY DigitsAreNats
        <3> QED
            <4>1. Number(out, V) = x
                BY <1>7, <2>2, <2>4
            <4>2. Number(Append(out, d), V) = Number(out, V) * V + d
                BY <3>1, NumberAppend
            <4> QED
                BY <4>1, <4>2
    <2>11. x * V + d = N * Q
        <3>1. x * (P * Q) + y * Q = (P * x + y) * Q
            OBVIOUS
        <3> QED
            BY <2>3, <2>4, <2>7, <3>1
    <2>12. w * (Len(out) + 1) = ByteBits * Len(bytes) + pad
        <3>1. w * (Len(out) + 1) = w * Len(out) + w
            BY <1>8
        <3>2. PICK z \in Nat : z = w * Len(out)
            BY <1>8
        <3>3. ByteBits * Len(bytes) = b + z
            BY <1>7, <3>2
        <3>4. (b + z) + pad = z + w
            BY <2>1
        <3> QED
            BY <3>1, <3>2, <3>3, <3>4
    <2>13. SameBits(Append(out, d), bytes, pad)
        BY <1>1, <1>2, <1>3, <2>2, <2>9, <2>10, <2>11, <2>12 DEF SameBits
    <2> QED
        BY <1>1, <1>2, <2>8, <2>9, <2>13 DEF GroupSeq
<1> QED
    BY <1>9, <1>10

\* What the loop leaves of groups.
LEMMA BytesState ==
    ASSUME NEW groups \in GroupSeq
    PROVE  \E N \in Nat, out \in ByteSeq, b \in 0..(ByteBits - 1) :
              /\ N = Number(groups, Power(2, GroupBits))
              /\ b + ByteBits * Len(out) = GroupBits * Len(groups)
              /\ Number(out, Power(2, ByteBits)) = N \div Power(2, b)
              /\ ToBytes(groups) = IF b >= GroupBits \/ N % Power(2, b) # 0 THEN {} ELSE {out}
<1>1. PICK N \in Nat : N = Number(groups, Power(2, GroupBits))
    <2>1. Power(2, GroupBits) \in Nat
        BY Widths, TwoPower
    <2>2. groups \in Seq(Nat)
        BY <2>1, DigitsAreNats DEF GroupSeq
    <2> QED
        BY <2>1, <2>2, NumberIn
<1>2. PICK st : st = Regroup(groups, GroupBits, ByteBits)
    OBVIOUS
<1>3. RegroupState(st, N, Len(groups), GroupBits, ByteBits)
    BY <1>1, <1>2, Widths, Regrouped DEF GroupSeq
<1>4. PICK out \in ByteSeq, b \in 0..(ByteBits - 1) : out = st.out /\ b = st.bits
    BY <1>3 DEF RegroupState, ByteSeq
<1>5. b + ByteBits * Len(out) = GroupBits * Len(groups)
    BY <1>3, <1>4 DEF RegroupState
<1>6. Number(out, Power(2, ByteBits)) = N \div Power(2, b)
    BY <1>3, <1>4 DEF RegroupState
<1>7. st.acc % Power(2, st.bits) = N % Power(2, b)
    <2>1. b \in 0..AccBits
        BY Widths
    <2> QED
        BY <1>3, <1>4, <2>1, KeptBits DEF RegroupState
<1>8. ToBytes(groups) = IF b >= GroupBits \/ N % Power(2, b) # 0 THEN {} ELSE {out}
    BY <1>2, <1>4, <1>7 DEF ToBytes
<1> QED
    BY <1>1, <1>5, <1>6, <1>8

\* Groups are read as the bytes whose bits they are, less the zeros that fill the last group.
LEMMA ToBytesOf ==
    ASSUME NEW groups \in GroupSeq, NEW bytes \in ByteSeq, NEW pad \in 0..(GroupBits - 1), SameBits(groups, bytes, pad)
    PROVE  ToBytes(groups) = {bytes}
<1>1. PICK N \in Nat, out \in ByteSeq, b \in 0..(ByteBits - 1) :
              /\ N = Number(groups, Power(2, GroupBits))
              /\ b + ByteBits * Len(out) = GroupBits * Len(groups)
              /\ Number(out, Power(2, ByteBits)) = N \div Power(2, b)
              /\ ToBytes(groups) = IF b >= GroupBits \/ N % Power(2, b) # 0 THEN {} ELSE {out}
    BY BytesState
<1>2. Len(out) \in Nat /\ Len(bytes) \in Nat
    BY LenProperties DEF ByteSeq
<1>3. b = pad /\ Len(out) = Len(bytes)
    <2>1. PICK w \in Nat \ {0} : w = ByteBits /\ b \in 0..(w - 1) /\ pad \in 0..(w - 1)
        BY Widths
    <2>2. w * Len(out) + b = w * Len(bytes) + pad
        <3>1. PICK x \in Nat, y \in Nat, z \in Nat :
                    x = w * Len(out) /\ y = w * Len(bytes) /\ z = GroupBits * Len(groups)
            BY <1>2, Widths, LenProperties DEF GroupSeq
        <3>2. b + x = z /\ z = y + pad
            BY <1>1, <2>1, <3>1 DEF SameBits
        <3>3. x + b = y + pad
            BY <3>2
        <3> QED
            BY <3>1, <3>3
    <2> QED
        BY <1>2, <2>1, <2>2, DivisionUnique
<1>4. PICK M \in Nat : M = Number(bytes, Power(2, ByteBits))
    <2>1. Power(2, ByteBits) \in Nat
        BY Widths, TwoPower
    <2>2. bytes \in Seq(Nat)
        BY <2>1, DigitsAreNats DEF ByteSeq
    <2> QED
        BY <2>1, <2>2, NumberIn
<1>5. PICK P \in Nat \ {0} : P = Power(2, pad)
    BY Widths, TwoPower
<1>6. N = M * P + 0
    BY <1>1, <1>4, <1>5 DEF SameBits
<1>7. N % P = 0 /\ N \div P = M
    <2>1. 0 \in 0..(P - 1)
        OBVIOUS
    <2>2. (M * P + 0) \div P = M /\ (M * P + 0) % P = 0
        BY <2>1, QuotientIs
    <2> QED
        BY <1>6, <2>2
<1>8. out = bytes
    <2>1. Number(out, Power(2, ByteBits)) = Number(bytes, Power(2, ByteBits))
        BY <1>1, <1>3, <1>4, <1>5, <1>7
    <2> QED
        BY <1>3, <2>1, Widths, TwoValues, SameDigits DEF ByteSeq
<1>9. ~(b >= GroupBits) /\ N % Power(2, b) = 0
    BY <1>3, <1>5, <1>7, Widths
<1> QED
    BY <1>1, <1>8, <1>9

\* The bytes of groups have the bits of the groups.
LEMMA ToBytesIs ==
    ASSUME NEW groups \in GroupSeq, NEW bytes \in ToBytes(groups)
    PROVE  bytes \in ByteSeq /\ \E pad \in 0..(GroupBits - 1) : SameBits(groups, bytes, pad)
<1>1. PICK N \in Nat, out \in ByteSeq, b \in 0..(ByteBits - 1) :
              /\ N = Number(groups, Power(2, GroupBits))
              /\ b + ByteBits * Len(out) = GroupBits * Len(groups)
              /\ Number(out, Power(2, ByteBits)) = N \div Power(2, b)
              /\ ToBytes(groups) = IF b >= GroupBits \/ N % Power(2, b) # 0 THEN {} ELSE {out}
    BY BytesState
<1>2. bytes = out /\ b < GroupBits /\ N % Power(2, b) = 0
    BY <1>1, Widths
<1>3. b \in 0..(GroupBits - 1) /\ b \in Nat
    BY <1>2, Widths
<1>4. PICK P \in Nat \ {0} : P = Power(2, b)
    BY <1>3, TwoPower
<1>5. N = (N \div P) * P
    <2>1. PICK x \in Nat, y \in 0..(P - 1) : x = N \div P /\ y = N % P /\ N = P * x + y
        BY Divided
    <2>2. y = 0 /\ P * x = x * P
        BY <1>2, <1>4, <2>1
    <2> QED
        BY <2>1, <2>2
<1>6. GroupBits * Len(groups) = ByteBits * Len(bytes) + b
    <2>1. PICK x \in Nat : x = ByteBits * Len(out)
        BY Widths, LenProperties DEF ByteSeq
    <2>2. GroupBits * Len(groups) = x + b
        BY <1>1, <2>1
    <2> QED
        BY <1>2, <2>1, <2>2
<1>7. SameBits(groups, bytes, b)
    BY <1>1, <1>2, <1>4, <1>5, <1>6 DEF SameBits
<1> QED
    BY <1>2, <1>3, <1>7

\* Bytes regrouped read back, whatever the widths, and nothing else is read as them: not with a
\* bit of the padding set, not with a group too many (convertbits_5_to_8: "accepting it would
\* give the same bytes two or more spellings").
THEOREM GroupsReadBack ==
    ASSUME NEW bytes \in ByteSeq
    PROVE  ToGroups(bytes) \in GroupSeq /\ ToBytes(ToGroups(bytes)) = {bytes}
BY ToGroupsIs, ToBytesOf

\* No other groups give those bytes: padding of a whole group, or any that is not zero, is refused.
THEOREM GroupsOneSpelling ==
    ASSUME NEW groups \in GroupSeq, NEW bytes \in ToBytes(groups)
    PROVE  bytes \in ByteSeq /\ ToGroups(bytes) = groups
BY ToBytesIs, ToGroupsIs, OneRegrouping

-----------------------------------------------------------------------------
(* Characters of base32 *)

\* The characters a text may be of.
Alphabet == DOMAIN Lower

\* The one place a set of numbers is greatest at, or least.
LEMMA GreatestIs ==
    ASSUME NEW I \in SUBSET Nat, NEW j \in I, \A i \in I : i <= j
    PROVE  Max(I) = j
<1>1. \A i \in I : i >= j => i = j
    OBVIOUS
<1> QED
    BY <1>1 DEF Max

\* The same of the least.
LEMMA LeastIs ==
    ASSUME NEW I \in SUBSET Nat, NEW j \in I, \A i \in I : j <= i
    PROVE  Min(I) = j
<1>1. \A i \in I : i <= j => i = j
    OBVIOUS
<1> QED
    BY <1>1 DEF Min

\* A bounded set of numbers has a greatest.
LEMMA GreatestNat ==
    ASSUME NEW n \in Nat, NEW I \in SUBSET (1..n), I # {}
    PROVE  Max(I) \in I /\ \A i \in I : i <= Max(I)
<1> DEFINE S == {k \in Nat : \E i \in I : i + k = n}
<1>1. S \in SUBSET Nat /\ S # {}
    <2>1. PICK i \in I : TRUE
        OBVIOUS
    <2>2. n - i \in Nat /\ i + (n - i) = n
        BY <2>1
    <2> QED
        BY <2>2
<1>2. PICK k \in S : \A x \in S : k <= x
    <2> HIDE DEF S
    <2> QED
        BY <1>1, LeastNat
<1>3. PICK j \in I : j + k = n
    BY <1>2
<1>4. \A i \in I : i <= j
    <2> SUFFICES ASSUME NEW i \in I PROVE i <= j
        OBVIOUS
    <2>1. n - i \in S
        OBVIOUS
    <2> QED
        BY <1>2, <1>3, <2>1
<1>5. I \in SUBSET Nat
    OBVIOUS
<1> QED
    BY <1>3, <1>4, <1>5, GreatestIs

\* The place of a character in the charset.
Places(c) == {j \in 1..Len(Charset) : Charset[j] = c}

\* Every character of it has one.
LEMMA PlaceOf ==
    ASSUME NEW i \in 1..Len(Charset)
    PROVE  Min(Places(Charset[i])) = i /\ i \in Places(Charset[i])
<1>1. Len(Charset) \in Nat /\ DOMAIN Charset = 1..Len(Charset)
    BY CharsetAssumption, LenProperties
<1> DEFINE I == Places(Charset[i])
<1>2. I \in SUBSET Nat /\ i \in I /\ \A j \in I : j = i
    BY <1>1, CharsetAssumption DEF Places
<1> HIDE DEF I
<1>3. \A j \in I : i <= j
    BY <1>2
<1>4. Min(I) = i
    BY <1>2, <1>3, LeastIs
<1> QED
    BY <1>2, <1>4 DEF I

\* Groups are written in characters that are small, and no separators.
LEMMA CharsAre ==
    ASSUME NEW groups \in GroupSeq
    PROVE  /\ Chars(groups) \in Seq(Alphabet) /\ Len(Chars(groups)) = Len(groups)
           /\ \A i \in 1..Len(groups) : /\ groups[i] + 1 \in 1..Len(Charset) /\ Chars(groups)[i] = Charset[groups[i] + 1]
                                        /\ Chars(groups)[i] \notin {"1", ":"} /\ Lower[Chars(groups)[i]] = Chars(groups)[i]
<1>1. PICK V \in Nat \ {0} : V = Power(2, GroupBits)
    BY Widths, TwoPower
<1>2. PICK n \in Nat : n = Len(groups) /\ DOMAIN groups = 1..n
    BY LenProperties DEF GroupSeq
<1>3. Len(Charset) = V /\ DOMAIN Charset = 1..V
    BY <1>1, CharsetAssumption, LenProperties
<1>4. \A i \in 1..n : groups[i] + 1 \in 1..V
    <2>1. \A i \in 1..n : groups[i] \in 0..(V - 1)
        BY <1>1, <1>2, ElementOfSeq DEF GroupSeq
    <2> QED
        BY <2>1
<1>5. \A k \in 1..V : Charset[k] \in Alphabet /\ Charset[k] \notin {"1", ":"} /\ Lower[Charset[k]] = Charset[k]
    BY <1>3, CharsetAssumption, ElementOfSeq DEF Alphabet
<1>6. Chars(groups) = [i \in 1..n |-> Charset[groups[i] + 1]]
    BY <1>2 DEF Chars
<1>7. Chars(groups) \in [1..n -> Alphabet]
    BY <1>4, <1>5, <1>6
<1> QED
    BY <1>2, <1>3, <1>4, <1>5, <1>6, <1>7, FunctionIsSeq

\* The characters of groups are read as the groups.
LEMMA CharsRead ==
    ASSUME NEW groups \in GroupSeq
    PROVE  GroupsOf(Chars(groups)) = {groups}
<1>1. PICK n \in Nat : n = Len(groups) /\ DOMAIN groups = 1..n
    BY LenProperties DEF GroupSeq
<1>2. PICK t \in Seq(Alphabet) : t = Chars(groups) /\ Len(t) = n /\ DOMAIN t = 1..n
    BY <1>1, CharsAre, LenProperties
<1>3. ASSUME NEW i \in 1..n
      PROVE  Contains(Charset, t[i]) /\ SelectInSeq(Charset, LAMBDA c : c = t[i]) - 1 = groups[i]
    <2>1. PICK k \in 1..Len(Charset) : k = groups[i] + 1 /\ t[i] = Charset[k]
        BY <1>1, <1>2, CharsAre
    <2>2. Contains(Charset, t[i]) /\ SelectInSeq(Charset, LAMBDA c : c = t[i]) = k
        <3>1. Min(Places(t[i])) = k /\ Places(t[i]) # {}
            BY <2>1, PlaceOf
        <3> QED
            BY <2>1, <3>1 DEF Contains, SelectInSeq, Places
    <2>3. groups[i] \in Nat
        <3>1. Power(2, GroupBits) \in Nat
            BY Widths, TwoPower
        <3> QED
            BY <1>1, <3>1, ElementOfSeq DEF GroupSeq
    <2>4. k - 1 = groups[i]
        BY <2>1, <2>3
    <2> QED
        BY <2>2, <2>4
<1>4. GroupsOf(t) = {[i \in 1..n |-> SelectInSeq(Charset, LAMBDA c : c = t[i]) - 1]}
    BY <1>2, <1>3 DEF GroupsOf
<1>5. groups = [i \in 1..n |-> groups[i]]
    BY <1>1 DEF GroupSeq
<1>6. [i \in 1..n |-> SelectInSeq(Charset, LAMBDA c : c = t[i]) - 1] = [i \in 1..n |-> groups[i]]
    BY <1>3
<1> QED
    BY <1>2, <1>4, <1>5, <1>6

\* Groups are read of their characters and of nothing else.
LEMMA CharsOnly ==
    ASSUME NEW A, NEW t \in Seq(A), NEW groups \in GroupsOf(t)
    PROVE  groups \in GroupSeq /\ Len(groups) = Len(t) /\ Chars(groups) = t
<1>1. PICK n \in Nat : n = Len(t) /\ DOMAIN t = 1..n
    BY LenProperties
<1>2. PICK V \in Nat \ {0} : V = Power(2, GroupBits) /\ Len(Charset) = V
    BY Widths, TwoPower, CharsetAssumption
<1>3. /\ \A i \in 1..n : Contains(Charset, t[i])
      /\ groups = [i \in 1..n |-> SelectInSeq(Charset, LAMBDA c : c = t[i]) - 1]
    BY <1>1 DEF GroupsOf
<1>4. ASSUME NEW i \in 1..n PROVE groups[i] \in 0..(V - 1) /\ Charset[groups[i] + 1] = t[i]
    <2>1. PICK k \in 1..Len(Charset) : Charset[k] = t[i]
        BY <1>3 DEF Contains
    <2>2. SelectInSeq(Charset, LAMBDA c : c = t[i]) = k
        <3>1. Min(Places(t[i])) = k /\ Places(t[i]) # {}
            BY <2>1, PlaceOf
        <3> QED
            BY <3>1 DEF SelectInSeq, Places
    <2>3. groups[i] = k - 1
        BY <1>3, <2>2
    <2> QED
        BY <1>2, <2>1, <2>3
<1>5. groups \in [1..n -> 0..(V - 1)]
    BY <1>3, <1>4
<1>6. groups \in GroupSeq /\ Len(groups) = n
    BY <1>2, <1>5, FunctionIsSeq DEF GroupSeq
<1>7. Chars(groups) = [i \in 1..n |-> Charset[groups[i] + 1]]
    BY <1>5 DEF Chars
<1>8. t = [i \in 1..n |-> t[i]]
    BY <1>1
<1> QED
    BY <1>1, <1>4, <1>6, <1>7, <1>8

\* However three parts are joined.
LEMMA ThreeJoined ==
    ASSUME NEW A, NEW s \in Seq(A), NEW c \in A, NEW u \in Seq(A)
    PROVE  <<c>> \o u \in Seq(A) /\ (s \o <<c>>) \o u = s \o (<<c>> \o u)
<1>1. <<c>> \in Seq(A)
    OBVIOUS
<1> QED
    BY <1>1, ConcatProperties, ConcatAssociative

\* A sequence in three parts, the middle one a single value.
LEMMA ThreeParts ==
    ASSUME NEW A, NEW s \in Seq(A), NEW c \in A, NEW u \in Seq(A), NEW t, t = (s \o <<c>>) \o u
    PROVE  /\ t \in Seq(A) /\ Len(t) = (Len(s) + 1) + Len(u)
           /\ SubSeq(t, 1, Len(s)) = s /\ t[Len(s) + 1] = c /\ SubSeq(t, Len(s) + 2, Len(t)) = u
           /\ \A i \in 1..Len(s) : t[i] = s[i]
           /\ \A i \in 1..Len(u) : t[(Len(s) + 1) + i] = u[i]
<1>1. PICK n \in Nat : n = Len(s)
    BY LenProperties
<1>2. PICK w \in Seq(A) : /\ w = s \o <<c>> /\ Len(w) = n + 1
                          /\ (\A i \in 1..n : w[i] = s[i]) /\ w[n + 1] = c
    <2>1. s \o <<c>> = Append(s, c)
        BY LastJoined
    <2>2. /\ Append(s, c) \in Seq(A) /\ Len(Append(s, c)) = Len(s) + 1
          /\ \A i \in 1..Len(s) : Append(s, c)[i] = s[i]
          /\ Append(s, c)[Len(s) + 1] = c
        BY AppendIs
    <2> QED
        BY <1>1, <2>1, <2>2
<1>3. /\ t \in Seq(A) /\ Len(t) = (n + 1) + Len(u)
      /\ \A i \in 1..(n + 1) : t[i] = w[i]
      /\ \A i \in 1..Len(u) : t[(n + 1) + i] = u[i]
    <2>1. /\ w \o u \in Seq(A) /\ Len(w \o u) = Len(w) + Len(u)
          /\ \A i \in 1..Len(w) : (w \o u)[i] = w[i]
          /\ \A i \in 1..Len(u) : (w \o u)[Len(w) + i] = u[i]
        BY ConcatIs
    <2> QED
        BY <1>2, <2>1
<1>4. SubSeq(t, (n + 1) + 1, Len(t)) = u
    BY <1>2, JoinedRest
<1>5. (n + 1) + 1 = n + 2 /\ n + 1 \in 1..(n + 1) /\ \A i \in 1..n : i \in 1..(n + 1)
    OBVIOUS
<1>6. <<c>> \o u \in Seq(A) /\ t = s \o (<<c>> \o u)
    BY ThreeJoined
<1>7. SubSeq(t, 1, n) = s
    BY <1>1, <1>6, JoinedApart
<1> QED
    BY <1>1, <1>2, <1>3, <1>4, <1>5, <1>7

\* A sequence cut around a place of it.
Around(t, k, A) ==
    /\ t = (SubSeq(t, 1, k - 1) \o <<t[k]>>) \o SubSeq(t, k + 1, Len(t))
    /\ SubSeq(t, 1, k - 1) \in Seq(A) /\ Len(SubSeq(t, 1, k - 1)) = k - 1
    /\ SubSeq(t, k + 1, Len(t)) \in Seq(A) /\ Len(SubSeq(t, k + 1, Len(t))) = Len(t) - k
    /\ t[k] \in A
    /\ \A i \in 1..(k - 1) : SubSeq(t, 1, k - 1)[i] = t[i]
    /\ \A i \in 1..(Len(t) - k) : SubSeq(t, k + 1, Len(t))[i] = t[k + i]

\* Every sequence is so made, at any place of it.
LEMMA CutAround ==
    ASSUME NEW A, NEW t \in Seq(A), NEW k \in 1..Len(t)
    PROVE  Around(t, k, A)
<1>1. PICK n \in Nat : n = Len(t) /\ k \in 1..n /\ \A i \in 1..n : t[i] \in A
    BY LenProperties, ElementOfSeq
<1>2. PICK s \in Seq(A) : s = SubSeq(t, 1, k - 1) /\ Len(s) = k - 1 /\ \A i \in 1..(k - 1) : s[i] = t[i]
    <2>1. SubSeq(t, 1, k - 1) \in Seq(A)
        BY <1>1, SubSeqProperties
    <2>2. Len(SubSeq(t, 1, k - 1)) = k - 1 /\ \A i \in 1..(k - 1) : SubSeq(t, 1, k - 1)[i] = t[i]
        BY <1>1
    <2> QED
        BY <2>1, <2>2
<1>3. PICK u \in Seq(A) : u = SubSeq(t, k + 1, n) /\ Len(u) = n - k /\ \A i \in 1..(n - k) : u[i] = t[k + i]
    <2>1. SubSeq(t, k + 1, n) \in Seq(A)
        BY <1>1, SubSeqProperties
    <2>2. Len(SubSeq(t, k + 1, n)) = n - k /\ \A i \in 1..(n - k) : SubSeq(t, k + 1, n)[i] = t[k + i]
        BY <1>1
    <2> QED
        BY <2>1, <2>2
<1>4. PICK w : w = (s \o <<t[k]>>) \o u
    OBVIOUS
<1>5. /\ w \in Seq(A) /\ Len(w) = ((k - 1) + 1) + (n - k) /\ w[(k - 1) + 1] = t[k]
      /\ \A i \in 1..(k - 1) : w[i] = s[i]
      /\ \A i \in 1..(n - k) : w[((k - 1) + 1) + i] = u[i]
    <2>1. t[k] \in A
        BY <1>1
    <2>2. /\ w \in Seq(A) /\ Len(w) = (Len(s) + 1) + Len(u) /\ w[Len(s) + 1] = t[k]
          /\ \A i \in 1..Len(s) : w[i] = s[i]
          /\ \A i \in 1..Len(u) : w[(Len(s) + 1) + i] = u[i]
        BY <1>4, <2>1, ThreeParts
    <2> QED
        BY <1>2, <1>3, <2>2
<1>6. Len(w) = n /\ \A i \in 1..n : w[i] = t[i]
    <2>1. Len(w) = n
        BY <1>1, <1>5
    <2>2. ASSUME NEW i \in 1..n PROVE w[i] = t[i]
        <3>1. CASE i < k
            BY <1>2, <1>5, <3>1
        <3>2. CASE i = k
            BY <1>5, <3>2
        <3>3. CASE i > k
            <4>1. PICK j \in 1..(n - k) : i = k + j /\ ((k - 1) + 1) + j = i
                <5>1. i - k \in 1..(n - k) /\ i = k + (i - k) /\ ((k - 1) + 1) + (i - k) = i
                    BY <1>1, <3>3
                <5> QED
                    BY <5>1
            <4> QED
                BY <1>3, <1>5, <4>1, ZenonT(40)
        <3> QED
            BY <3>1, <3>2, <3>3
    <2> QED
        BY <2>1, <2>2
<1>7. w = t
    BY <1>1, <1>5, <1>6, SeqEqual
<1> QED
    BY <1>1, <1>2, <1>3, <1>4, <1>7 DEF Around

\* The checksum comes off where it was put on.
LEMMA EndApart ==
    ASSUME NEW A, NEW s \in Seq(A), NEW u \in Seq(A)
    PROVE  ButLast(s \o u, Len(u)) = s /\ LastOf(s \o u, Len(u)) = u
<1>1. PICK n \in Nat, m \in Nat : n = Len(s) /\ m = Len(u) /\ Len(s \o u) = n + m
    BY ConcatIs
<1>2. (n + m) - m = n
    OBVIOUS
<1> QED
    BY <1>1, <1>2, JoinedApart, JoinedRest DEF ButLast, LastOf

\* Every end comes off so.
LEMMA EndJoined ==
    ASSUME NEW A, NEW t \in Seq(A), NEW n \in 0..Len(t)
    PROVE  /\ ButLast(t, n) \in Seq(A) /\ LastOf(t, n) \in Seq(A) /\ t = ButLast(t, n) \o LastOf(t, n)
           /\ Len(ButLast(t, n)) = Len(t) - n /\ Len(LastOf(t, n)) = n
<1>1. PICK m \in Nat : m = Len(t) /\ n \in 0..m /\ m - n \in 0..m
    BY LenProperties
<1>2. PICK v \in Seq(A), x \in Seq(A) : t = v \o x /\ Len(v) = m - n /\ Len(x) = m - (m - n)
    <2>1. PICK j \in 0..m : j = m - n
        BY <1>1
    <2>2. ComesApart(t, j, A)
        BY <1>1, <2>1, CutApart
    <2> QED
        BY <1>1, <2>1, <2>2 DEF ComesApart
<1>3. Len(x) = n
    BY <1>1, <1>2
<1>4. ButLast(t, n) = v /\ LastOf(t, n) = x
    BY <1>2, <1>3, EndApart
<1> QED
    BY <1>1, <1>2, <1>3, <1>4

\* The next remainder is another one.
LEMMA NextRemainder ==
    ASSUME NEW t \in Nat \ {0, 1}, NEW x \in Nat
    PROVE  (x + 1) % t # (x + 0) % t
<1>1. PICK q \in Nat, r \in 0..(t - 1) : q = x \div t /\ r = x % t /\ x = t * q + r
    BY Divided
<1>2. CASE r + 1 < t
    <2>1. (q * t + (r + 1)) % t = r + 1
        <3>1. PICK d \in 0..(t - 1) : d = r + 1
            BY <1>2
        <3>2. (q * t + d) % t = d
            BY QuotientIs
        <3> QED
            BY <3>1, <3>2
    <2>2. x + 1 = q * t + (r + 1)
        BY <1>1
    <2> QED
        BY <1>1, <2>1, <2>2
<1>3. CASE r + 1 = t
    <2>1. ((q + 1) * t + 0) % t = 0
        BY QuotientIs
    <2>2. x + 1 = (q + 1) * t + 0
        BY <1>1, <1>3
    <2> QED
        BY <1>1, <1>3, <2>1, <2>2
<1> QED
    BY <1>2, <1>3

-----------------------------------------------------------------------------
(* bech32 *)

\* The checksums of the two variants are so many groups, and are not the same.
LEMMA ChecksumIs ==
    ASSUME NEW hrp, NEW groups, Closed(hrp, groups)
    PROVE  /\ \A v \in Variant : Checksum(hrp, groups, v) \in GroupSeq /\ Len(Checksum(hrp, groups, v)) = CHECKSUM_CHARS
           /\ Checksum(hrp, groups, "Bech32") # Checksum(hrp, groups, "Bech32m")
<1>1. PICK V \in Nat \ {0, 1} : V = Power(2, GroupBits)
    BY Widths, TwoValues
<1>2. PICK n \in Nat \ {0} : n = CHECKSUM_CHARS
    BY LengthAssumption
<1>3. PICK chk \in [1..n -> 0..(V - 1)] : chk = Polymod(hrp, groups)
    BY <1>1, <1>2 DEF Closed
<1>4. Len(chk) = n /\ DOMAIN chk = 1..n /\ n \in 1..n
    BY FunctionIsSeq
<1> DEFINE plus(i, v) == IF i = n /\ v = "Bech32m" THEN 1 ELSE 0
<1>5. \A v : Checksum(hrp, groups, v) = [i \in 1..n |-> (chk[i] + plus(i, v)) % V]
    BY <1>1, <1>3, <1>4 DEF Checksum
<1>6. ASSUME NEW v \in Variant
      PROVE  Checksum(hrp, groups, v) \in GroupSeq /\ Len(Checksum(hrp, groups, v)) = n
    <2>1. ASSUME NEW i \in 1..n PROVE (chk[i] + plus(i, v)) % V \in 0..(V - 1)
        <3>1. PICK x \in Nat : x = chk[i] + plus(i, v)
            OBVIOUS
        <3>2. x % V \in 0..(V - 1)
            BY Division
        <3> QED
            BY <3>1, <3>2
    <2> HIDE DEF plus
    <2>2. Checksum(hrp, groups, v) \in [1..n -> 0..(V - 1)]
        BY <1>5, <2>1
    <2> QED
        BY <1>1, <2>2, FunctionIsSeq DEF GroupSeq
<1>7. Checksum(hrp, groups, "Bech32")[n] # Checksum(hrp, groups, "Bech32m")[n]
    <2>1. PICK x \in Nat : x = chk[n]
        BY <1>4
    <2>2. Checksum(hrp, groups, "Bech32")[n] = (x + 0) % V
        BY <1>4, <1>5, <2>1
    <2>3. Checksum(hrp, groups, "Bech32m")[n] = (x + 1) % V
        BY <1>4, <1>5, <2>1
    <2> QED
        BY <2>2, <2>3, NextRemainder
<1> QED
    BY <1>2, <1>6, <1>7

\* The parts of a text with a checksum: the prefix, the separator and the groups.
Parts(t, hrp, sep, full) == t = (hrp \o <<sep>>) \o Chars(full)

\* They are found where they were put, if the separator is not in what is searched.
LEMMA PartsFound ==
    ASSUME NEW hrp \in Seq(Alphabet), NEW sep \in Alphabet, NEW full \in GroupSeq, NEW t, Parts(t, hrp, sep, full)
    PROVE  /\ t \in Seq(Alphabet) /\ Len(t) = (Len(hrp) + 1) + Len(full)
           /\ SubSeq(t, 1, Len(hrp)) = hrp /\ t[Len(hrp) + 1] = sep
           /\ From(t, Len(hrp) + 2) = Chars(full) /\ GroupsOf(From(t, Len(hrp) + 2)) = {full}
           /\ \A i \in 1..Len(hrp) : t[i] = hrp[i]
           /\ \A i \in 1..Len(full) : /\ t[(Len(hrp) + 1) + i] \notin {"1", ":"}
                                      /\ Lower[t[(Len(hrp) + 1) + i]] = t[(Len(hrp) + 1) + i]
<1>1. PICK u \in Seq(Alphabet) : u = Chars(full) /\ Len(u) = Len(full)
    BY CharsAre
<1>2. \A i \in 1..Len(full) : u[i] \notin {"1", ":"} /\ Lower[u[i]] = u[i]
    BY <1>1, CharsAre
<1>3. t = (hrp \o <<sep>>) \o u
    BY <1>1 DEF Parts
<1>4. /\ t \in Seq(Alphabet) /\ Len(t) = (Len(hrp) + 1) + Len(u)
      /\ SubSeq(t, 1, Len(hrp)) = hrp /\ t[Len(hrp) + 1] = sep /\ SubSeq(t, Len(hrp) + 2, Len(t)) = u
      /\ \A i \in 1..Len(hrp) : t[i] = hrp[i]
      /\ \A i \in 1..Len(u) : t[(Len(hrp) + 1) + i] = u[i]
    BY <1>3, ThreeParts
<1>5. From(t, Len(hrp) + 2) = u
    BY <1>4 DEF From
<1>6. GroupsOf(u) = {full}
    BY <1>1, CharsRead
<1> QED
    BY <1>1, <1>2, <1>4, <1>5, <1>6

\* The separator is the last "1": the data has none, the prefix may.
LEMMA SeparatorFound ==
    ASSUME NEW hrp \in Seq(Alphabet), NEW full \in GroupSeq, NEW t, Parts(t, hrp, "1", full)
    PROVE  Separator(t) = Len(hrp) + 1
<1>0. "1" \in Alphabet
    BY CharsetAssumption DEF Alphabet
<1>1. PICK h \in Nat, m \in Nat : h = Len(hrp) /\ m = Len(full)
    BY LenProperties DEF GroupSeq
<1>2. Len(t) = (h + 1) + m /\ t[h + 1] = "1" /\ \A i \in 1..m : t[(h + 1) + i] # "1"
    BY <1>0, <1>1, PartsFound
<1> DEFINE I == {i \in 1..Len(t) : t[i] = "1"}
<1>3. h + 1 \in I /\ I \in SUBSET Nat
    BY <1>1, <1>2
<1>4. \A i \in I : i <= h + 1
    <2> SUFFICES ASSUME NEW i \in I, i > h + 1 PROVE FALSE
        BY <1>2
    <2>1. PICK j \in 1..m : (h + 1) + j = i
        <3>1. i - (h + 1) \in 1..m /\ (h + 1) + (i - (h + 1)) = i
            BY <1>2
        <3> QED
            BY <3>1
    <2> QED
        BY <1>2, <2>1
<1>5. Max(I) = h + 1
    <2> HIDE DEF I
    <2> QED
        BY <1>3, <1>4, GreatestIs
<1>6. Separator(t) = Max(I)
    BY <1>3 DEF Separator, SelectLastInSeq
<1> QED
    BY <1>1, <1>5, <1>6

\* A text of small letters is its own lower case.
LEMMA LowerIs ==
    ASSUME NEW A, NEW t \in Seq(A), \A i \in 1..Len(t) : Lower[t[i]] = t[i]
    PROVE  LowerCase(t) = t
<1>1. PICK n \in Nat : n = Len(t) /\ DOMAIN t = 1..n
    BY LenProperties
<1>2. t = [i \in 1..n |-> t[i]]
    BY <1>1
<1> QED
    BY <1>1, <1>2 DEF LowerCase

\* What is written in bech32 is checked to be what it was written of, in the variant it was
\* written in and no other.
THEOREM CheckedReadsBack ==
    ASSUME NEW hrp \in Seq(Alphabet), HrpOk(hrp), NEW groups \in GroupSeq, NEW variant \in Variant,
           Closed(hrp, groups), Len(EncodeData(hrp, groups, variant)) <= MAX_LEN
    PROVE  Checked(EncodeData(hrp, groups, variant)) = {[hrp |-> hrp, variant |-> variant, groups |-> groups]}
<1>1. PICK n \in Nat \ {0} : n = CHECKSUM_CHARS
    BY LengthAssumption
<1>2. PICK sum \in GroupSeq : sum = Checksum(hrp, groups, variant) /\ Len(sum) = n
    BY <1>1, ChecksumIs
<1>3. PICK full \in GroupSeq : /\ full = groups \o sum /\ Len(full) = Len(groups) + n /\ Len(groups) \in Nat
                               /\ ButLast(full, n) = groups /\ LastOf(full, n) = sum
    <2>1. groups \o sum \in GroupSeq /\ Len(groups \o sum) = Len(groups) + n /\ Len(groups) \in Nat
        BY <1>2, ConcatIs DEF GroupSeq
    <2>2. ButLast(groups \o sum, n) = groups /\ LastOf(groups \o sum, n) = sum
        BY <1>2, EndApart DEF GroupSeq
    <2> QED
        BY <2>1, <2>2
<1>4. PICK t : t = EncodeData(hrp, groups, variant)
    OBVIOUS
<1>5. Parts(t, hrp, "1", full)
    BY <1>2, <1>3, <1>4 DEF EncodeData, Parts
<1>6. PICK h \in Nat : h = Len(hrp) /\ DOMAIN hrp = 1..h
    BY LenProperties
<1>7. "1" \in Alphabet
    BY CharsetAssumption DEF Alphabet
<1>8. /\ t \in Seq(Alphabet) /\ Len(t) = (h + 1) + Len(full)
      /\ SubSeq(t, 1, h) = hrp /\ t[h + 1] = "1" /\ GroupsOf(From(t, h + 2)) = {full}
      /\ \A i \in 1..h : t[i] = hrp[i]
      /\ \A i \in 1..Len(full) : Lower[t[(h + 1) + i]] = t[(h + 1) + i]
    BY <1>5, <1>6, <1>7, PartsFound
<1>9. Separator(t) = h + 1
    BY <1>5, <1>6, SeparatorFound
<1>10. \A i \in 1..Len(t) : Lower[t[i]] = t[i]
    <2> SUFFICES ASSUME NEW i \in 1..Len(t) PROVE Lower[t[i]] = t[i]
        OBVIOUS
    <2>1. CASE i <= h
        <3>1. t[i] = hrp[i] /\ i \in DOMAIN hrp
            BY <1>6, <1>8, <2>1
        <3> QED
            BY <3>1 DEF HrpOk
    <2>2. CASE i = h + 1
        BY <1>8, <2>2, CharsetAssumption
    <2>3. CASE i > h + 1
        <3>1. PICK j \in 1..Len(full) : (h + 1) + j = i
            <4>1. i - (h + 1) \in 1..Len(full) /\ (h + 1) + (i - (h + 1)) = i
                BY <1>3, <1>8, <2>3
            <4> QED
                BY <4>1
        <3> QED
            BY <1>8, <3>1
    <2> QED
        BY <2>1, <2>2, <2>3
<1>11. LowerCase(t) = t
    BY <1>8, <1>10, LowerIs
<1>12. DOMAIN t = 1..Len(t)
    BY <1>8, LenProperties
<1>13. ~ \E i \in DOMAIN t : IsUpper(t[i])
    <2>1. \A i \in 1..Len(t) : t[i] \in Alphabet
        BY <1>8, ElementOfSeq
    <2>2. \A i \in 1..Len(t) : ~IsUpper(Lower[t[i]])
        BY <2>1, LowerAssumption DEF Alphabet
    <2> QED
        BY <1>10, <1>12, <2>2
<1>14. h # 0
    BY <1>6, EmptySeq DEF HrpOk
<1>15. /\ ~(h + 1 <= 1) /\ ~(Len(t) - (h + 1) < n) /\ (h + 1) - 1 = h /\ (h + 1) + 1 = h + 2
    BY <1>3, <1>8, <1>14
<1>16. SubSeq(LowerCase(t), 1, Separator(LowerCase(t)) - 1) = hrp
    BY <1>8, <1>9, <1>11, <1>15
<1>17. GroupsOf(From(LowerCase(t), Separator(LowerCase(t)) + 1)) = {full}
    BY <1>8, <1>9, <1>11, <1>15
<1>18. ~ \E i \in DOMAIN hrp : ~Printable(hrp[i])
    BY DEF HrpOk
<1>19. ~(Len(LowerCase(t)) > MAX_LEN)
    <2>1. PICK m \in Nat, l \in Nat : m = MAX_LEN /\ l = Len(t) /\ l <= m
        BY <1>4, <1>8, LenProperties, LengthAssumption
    <2> QED
        BY <1>11, <2>1
<1> DEFINE taken == {x \in Variant \X {full} : LastOf(x[2], n) = Checksum(hrp, ButLast(x[2], n), x[1])}
<1>20. Checked(t) = {[hrp |-> hrp, variant |-> vg[1], groups |-> ButLast(vg[2], n)] : vg \in taken}
    BY <1>1, <1>9, <1>11, <1>13, <1>15, <1>16, <1>17, <1>18, <1>19 DEF Checked
<1>21. taken = {<<variant, full>>}
    <2>1. ASSUME NEW v \in Variant, sum = Checksum(hrp, groups, v) PROVE v = variant
        <3>1. Checksum(hrp, groups, "Bech32") # Checksum(hrp, groups, "Bech32m")
            BY ChecksumIs
        <3>2. Checksum(hrp, groups, v) = Checksum(hrp, groups, variant)
            BY <1>2, <2>1
        <3>3. v \in {"Bech32", "Bech32m"} /\ variant \in {"Bech32", "Bech32m"}
            BY DEF Variant
        <3> HIDE DEF Variant
        <3> QED
            BY <3>1, <3>2, <3>3
    <2>2. \A x \in Variant \X {full} : x = <<x[1], full>> /\ x[1] \in Variant /\ x[2] = full
        OBVIOUS
    <2>3. ASSUME NEW x \in taken PROVE x = <<variant, full>>
        <3>1. x[1] \in Variant /\ x = <<x[1], full>> /\ x[2] = full
            BY <2>2
        <3>2. LastOf(x[2], n) = Checksum(hrp, ButLast(x[2], n), x[1])
            BY <2>3
        <3>3. sum = Checksum(hrp, groups, x[1])
            BY <1>3, <3>1, <3>2
        <3> QED
            BY <2>1, <3>1, <3>3
    <2>4. <<variant, full>> \in taken
        <3>1. <<variant, full>>[1] = variant /\ <<variant, full>>[2] = full /\ <<variant, full>> \in Variant \X {full}
            OBVIOUS
        <3> QED
            BY <1>2, <1>3, <3>1
    <2> HIDE DEF taken
    <2> QED
        BY <2>3, <2>4
<1> HIDE DEF taken
<1>22. Checked(t) = {[hrp |-> hrp, variant |-> variant, groups |-> ButLast(full, n)]}
    BY <1>20, <1>21
<1> QED
    BY <1>3, <1>4, <1>22

\* Small letters are of the alphabet, and their own.
LEMMA LowerIn ==
    ASSUME NEW t \in Seq(Alphabet)
    PROVE  /\ LowerCase(t) \in Seq(Alphabet) /\ Len(LowerCase(t)) = Len(t)
           /\ \A i \in 1..Len(t) : LowerCase(t)[i] = Lower[t[i]] /\ Lower[LowerCase(t)[i]] = LowerCase(t)[i]
                                   /\ ~IsUpper(LowerCase(t)[i])
<1>1. PICK n \in Nat : n = Len(t) /\ DOMAIN t = 1..n /\ \A i \in 1..n : t[i] \in Alphabet
    BY LenProperties, ElementOfSeq
<1>2. PICK u : u = LowerCase(t) /\ u = [i \in 1..n |-> Lower[t[i]]]
    BY <1>1 DEF LowerCase
<1>3. \A i \in 1..n : /\ Lower[t[i]] \in Alphabet /\ Lower[Lower[t[i]]] = Lower[t[i]]
                      /\ ~IsUpper(Lower[t[i]])
    BY <1>1, LowerAssumption DEF Alphabet
<1>4. u \in [1..n -> Alphabet]
    BY <1>2, <1>3
<1>5. u \in Seq(Alphabet) /\ Len(u) = n
    BY <1>4, FunctionIsSeq
<1> QED
    BY <1>1, <1>2, <1>3, <1>5

\* A last "1" is one: the text is a prefix, it, and the rest.
LEMMA SeparatorIs ==
    ASSUME NEW t \in Seq(Alphabet), Separator(t) > 1
    PROVE  Separator(t) \in 1..Len(t) /\ t[Separator(t)] = "1"
<1>1. PICK n \in Nat : n = Len(t)
    BY LenProperties
<1> DEFINE I == {i \in 1..n : t[i] = "1"}
<1>2. Separator(t) = IF I # {} THEN Max(I) ELSE 0
    BY <1>1 DEF Separator, SelectLastInSeq
<1>3. I # {}
    <2> HIDE DEF I
    <2> QED
        BY <1>2
<1>4. Max(I) \in I
    <2>1. I \in SUBSET (1..n)
        OBVIOUS
    <2> HIDE DEF I
    <2> QED
        BY <1>3, <2>1, GreatestNat
<1>5. Separator(t) \in I
    BY <1>2, <1>3, <1>4
<1> QED
    BY <1>1, <1>5

\* What checked finds are the parts of the text in small letters: the prefix, the separator,
\* the groups and their checksum.
LEMMA CheckedIs ==
    ASSUME NEW t \in Seq(Alphabet), NEW c \in Checked(t)
    PROVE  /\ c.hrp \in Seq(Alphabet) /\ HrpOk(c.hrp) /\ c.variant \in Variant /\ c.groups \in GroupSeq
           /\ c = [hrp |-> c.hrp, variant |-> c.variant, groups |-> c.groups]
           /\ EncodeData(c.hrp, c.groups, c.variant) = LowerCase(t)
           /\ SubSeq(LowerCase(t), 1, Len(c.hrp)) = c.hrp
           /\ Len(c.hrp) + 1 + CHECKSUM_CHARS <= Len(LowerCase(t)) /\ Len(LowerCase(t)) <= MAX_LEN
<1>1. PICK n \in Nat \ {0}, m \in Nat : n = CHECKSUM_CHARS /\ m = MAX_LEN
    BY LengthAssumption
<1>2. PICK lower \in Seq(Alphabet), len \in Nat :
            /\ lower = LowerCase(t) /\ len = Len(lower)
            /\ \A i \in 1..len : Lower[lower[i]] = lower[i]
    BY LowerIn, LenProperties
<1>3. PICK sep : sep = Separator(lower)
    OBVIOUS
<1>4. PICK hrp : hrp = SubSeq(lower, 1, sep - 1)
    OBVIOUS
<1> DEFINE taken == {x \in Variant \X GroupsOf(From(lower, sep + 1)) :
                          LastOf(x[2], n) = Checksum(hrp, ButLast(x[2], n), x[1])}
<1>5. /\ ~(len > m) /\ ~(sep <= 1) /\ ~(len - sep < n) /\ ~ \E i \in DOMAIN hrp : ~Printable(hrp[i])
      /\ c \in {[hrp |-> hrp, variant |-> vg[1], groups |-> ButLast(vg[2], n)] : vg \in taken}
    BY <1>1, <1>2, <1>3, <1>4 DEF Checked
<1>6. sep \in 1..len /\ lower[sep] = "1"
    <2>1. sep \in Int
        <3>1. PICK N \in Nat : N = Len(lower)
            BY LenProperties
        <3> DEFINE I == {i \in 1..N : lower[i] = "1"}
        <3>2. Separator(lower) = IF I # {} THEN Max(I) ELSE 0
            BY <3>1 DEF Separator, SelectLastInSeq
        <3>3. I \in SUBSET (1..N)
            OBVIOUS
        <3> HIDE DEF I
        <3>4. I # {} => Max(I) \in 1..N
            BY <3>3, GreatestNat
        <3> QED
            BY <1>3, <3>2, <3>4
    <2>2. sep > 1
        BY <1>5, <2>1
    <2> QED
        BY <1>2, <1>3, <2>2, SeparatorIs
<1>7. PICK vg \in taken : c = [hrp |-> hrp, variant |-> vg[1], groups |-> ButLast(vg[2], n)]
    BY <1>5
<1>8. PICK variant \in Variant, full \in GroupsOf(From(lower, sep + 1)) :
            /\ LastOf(full, n) = Checksum(hrp, ButLast(full, n), variant)
            /\ c = [hrp |-> hrp, variant |-> variant, groups |-> ButLast(full, n)]
    <2>1. vg[1] \in Variant /\ vg[2] \in GroupsOf(From(lower, sep + 1))
        BY <1>7
    <2>2. LastOf(vg[2], n) = Checksum(hrp, ButLast(vg[2], n), vg[1])
        BY <1>7
    <2> QED
        BY <1>7, <2>1, <2>2
<1>9. PICK u \in Seq(Alphabet) :
            /\ u = From(lower, sep + 1) /\ lower = (hrp \o <<"1">>) \o u /\ Len(u) = len - sep
            /\ hrp \in Seq(Alphabet) /\ Len(hrp) = sep - 1
            /\ \A i \in 1..(sep - 1) : hrp[i] = lower[i]
    <2>1. PICK k \in 1..Len(lower) : k = sep
        BY <1>2, <1>6
    <2>2. Around(lower, k, Alphabet)
        BY CutAround
    <2>3. PICK l \in Nat : l = len /\ l = Len(lower)
        BY <1>2
    <2>4. PICK h, u : h = SubSeq(lower, 1, k - 1) /\ u = SubSeq(lower, k + 1, Len(lower))
        OBVIOUS
    <2>5. /\ lower = (h \o <<lower[k]>>) \o u /\ h \in Seq(Alphabet) /\ Len(h) = k - 1
          /\ u \in Seq(Alphabet) /\ Len(u) = Len(lower) - k
          /\ \A i \in 1..(k - 1) : h[i] = lower[i]
        BY <2>2, <2>4 DEF Around
    <2>6. hrp = h /\ u = From(lower, sep + 1) /\ lower[k] = "1"
        BY <1>4, <1>6, <2>1, <2>4 DEF From
    <2> QED
        BY <1>2, <2>1, <2>5, <2>6
<1>10. full \in GroupSeq /\ Len(full) = len - sep /\ Chars(full) = u
    BY <1>8, <1>9, CharsOnly
<1>11. n \in 0..Len(full)
    BY <1>5, <1>6, <1>10
<1>12. ButLast(full, n) \in GroupSeq /\ full = ButLast(full, n) \o LastOf(full, n)
    <2> DEFINE D == 0..(Power(2, GroupBits) - 1)
    <2>1. full \in Seq(D)
        BY <1>10 DEF GroupSeq
    <2> HIDE DEF D
    <2>2. ButLast(full, n) \in Seq(D) /\ full = ButLast(full, n) \o LastOf(full, n)
        BY <1>11, <2>1, EndJoined
    <2> QED
        BY <2>2 DEF D, GroupSeq
<1>13. EncodeData(hrp, ButLast(full, n), variant) = lower
    BY <1>8, <1>9, <1>10, <1>12 DEF EncodeData
<1>14. HrpOk(hrp)
    <2>1. sep - 1 \in Nat \ {0} /\ DOMAIN hrp = 1..(sep - 1) /\ hrp # << >>
        <3>1. PICK k \in Nat \ {0} : k = sep - 1 /\ k = Len(hrp)
            BY <1>5, <1>6, <1>9
        <3> QED
            BY <1>9, <3>1, LenProperties, EmptySeq
    <2>2. \A i \in 1..(sep - 1) : i \in 1..len
        BY <1>6
    <2>3. \A i \in 1..(sep - 1) : Lower[hrp[i]] = hrp[i]
        BY <1>2, <1>9, <2>2
    <2> QED
        BY <1>5, <2>1, <2>3 DEF HrpOk
<1>15. /\ SubSeq(lower, 1, Len(hrp)) = hrp /\ Len(hrp) + 1 + n <= len /\ len <= m
    BY <1>1, <1>2, <1>4, <1>5, <1>6, <1>9
<1>16. c.hrp = hrp /\ c.variant = variant /\ c.groups = ButLast(full, n)
    BY <1>8
<1> QED
    BY <1>1, <1>2, <1>8, <1>9, <1>12, <1>13, <1>14, <1>15, <1>16

\* What is checked was written so, up to its case.
THEOREM CheckedOneSpelling ==
    ASSUME NEW t \in Seq(Alphabet), NEW c \in Checked(t)
    PROVE  c.groups \in GroupSeq /\ EncodeData(c.hrp, c.groups, c.variant) = LowerCase(t)
BY CheckedIs

\* And is checked again in small letters, to be the same and nothing else.
THEOREM CheckedAgain ==
    ASSUME NEW t \in Seq(Alphabet), NEW c \in Checked(t), Closed(c.hrp, c.groups)
    PROVE  Checked(LowerCase(t)) = {c}
<1>1. /\ c.hrp \in Seq(Alphabet) /\ HrpOk(c.hrp) /\ c.variant \in Variant /\ c.groups \in GroupSeq
      /\ c = [hrp |-> c.hrp, variant |-> c.variant, groups |-> c.groups]
      /\ EncodeData(c.hrp, c.groups, c.variant) = LowerCase(t)
      /\ Len(EncodeData(c.hrp, c.groups, c.variant)) <= MAX_LEN
    BY CheckedIs
<1>2. Checked(EncodeData(c.hrp, c.groups, c.variant)) = {[hrp |-> c.hrp, variant |-> c.variant, groups |-> c.groups]}
    BY <1>1, CheckedReadsBack
<1> QED
    BY <1>1, <1>2

\* The whole of a sequence is a part of it.
LEMMA WholeIs ==
    ASSUME NEW A, NEW s \in Seq(A)
    PROVE  SubSeq(s, 1, Len(s)) = s
<1>1. PICK n \in Nat : n = Len(s) /\ DOMAIN s = 1..n /\ s \in [1..n -> A]
    BY LenProperties
<1>2. SubSeq(s, 1, n) = [i \in 1..n |-> s[i]]
    <2>1. SubSeq(s, 1, n) = [i \in 1..((1 + n) - 1) |-> s[(i + 1) - 1]]
        BY DEF SubSeq
    <2>2. (1 + n) - 1 = n /\ \A i \in 1..n : (i + 1) - 1 = i
        OBVIOUS
    <2> QED
        BY <2>1, <2>2
<1> QED
    BY <1>1, <1>2

\* What verify says of a text: the prefix is of it, room is left for a checksum, and it says
\* the same of the text in small letters.
THEOREM VerifiedAgain ==
    ASSUME NEW t \in Seq(Alphabet), \A c \in Checked(t) : Closed(c.hrp, c.groups), NEW v \in Verify(t)
    PROVE  /\ v.hrp \in Seq(Alphabet) /\ HrpOk(v.hrp) /\ IsPrefix(v.hrp, LowerCase(t))
           /\ Len(v.hrp) + 1 + CHECKSUM_CHARS <= Len(LowerCase(t)) /\ Len(LowerCase(t)) <= MAX_LEN
           /\ Verify(LowerCase(t)) = {v}
<1>1. PICK c \in Checked(t) : v = [hrp |-> c.hrp, variant |-> c.variant]
    BY DEF Verify
<1>2. v.hrp = c.hrp
    BY <1>1
<1>3. Checked(LowerCase(t)) = {c}
    BY CheckedAgain
<1>4. Verify(LowerCase(t)) = {[hrp |-> d.hrp, variant |-> d.variant] : d \in {c}}
    BY <1>3 DEF Verify
<1>5. Verify(LowerCase(t)) = {v}
    BY <1>1, <1>4
<1>6. /\ c.hrp \in Seq(Alphabet) /\ HrpOk(c.hrp) /\ SubSeq(LowerCase(t), 1, Len(c.hrp)) = c.hrp
      /\ Len(c.hrp) + 1 + CHECKSUM_CHARS <= Len(LowerCase(t)) /\ Len(LowerCase(t)) <= MAX_LEN
    BY CheckedIs
<1>7. IsPrefix(c.hrp, LowerCase(t))
    <2>1. PICK h \in Nat, l \in Nat, n \in Nat : h = Len(c.hrp) /\ l = Len(LowerCase(t)) /\ n = CHECKSUM_CHARS
        BY <1>6, LowerIn, LenProperties, LengthAssumption
    <2>2. h <= l
        BY <1>6, <2>1
    <2>3. SubSeq(c.hrp, 1, Len(c.hrp)) = c.hrp
        BY <1>6, WholeIs
    <2> QED
        BY <1>6, <2>1, <2>2, <2>3 DEF IsPrefix
<1> QED
    BY <1>2, <1>5, <1>6, <1>7

\* What decode_check accepts decode accepts, as the same bytes and a checksum behind them.
THEOREM Base58CheckIsBase58 ==
    ASSUME NEW t \in Seq(0..Digit), NEW p \in DecodeCheck(t)
    PROVE  \E raw \in Base58Decode(t) : Len(raw) = Len(p) + CHECK /\ IsPrefix(p, raw)
<1>1. PICK raw \in Base58Decode(t) : p \in VerifyCheck(raw)
    BY DEF DecodeCheck
<1>2. raw \in Seq(0..(Byte - 1))
    BY Base58OneSpelling
<1>3. p = SubSeq(raw, 1, Len(raw) - CHECK) /\ ~(Len(raw) < CHECK + 1)
    BY <1>1 DEF VerifyCheck
<1>4. PICK n \in Nat, c \in Nat : n = Len(raw) /\ c = CHECK
    BY <1>2, LenProperties, RadixAssumption
<1>5. PICK k \in Nat : k = n - c /\ k <= n /\ n = k + c
    BY <1>3, <1>4
<1>6. p = SubSeq(raw, 1, k)
    BY <1>3, <1>4, <1>5
<1>7. p \in Seq(0..(Byte - 1))
    BY Base58CheckOneSpelling
<1>8. Len(p) = k
    BY <1>2, <1>4, <1>5, <1>6, SubSeqProperties
<1>9. IsPrefix(p, raw)
    <2>1. SubSeq(p, 1, k) = p
        BY <1>7, <1>8, WholeIs
    <2> QED
        BY <1>4, <1>5, <1>6, <1>8, <2>1 DEF IsPrefix
<1> QED
    BY <1>1, <1>4, <1>5, <1>8, <1>9

\* Two characters are read for every byte.
LEMMA HexDecodeLen ==
    ASSUME NEW A, NEW t \in Seq(A), NEW bytes \in HexDecode(t)
    PROVE  2 * Len(bytes) = Len(t)
<1>1. PICK len \in Nat : len = Len(t)
    BY LenProperties
<1>2. PICK p : p = [i \in 1..(len \div 2) |-> pair(t, i)]
    OBVIOUS
<1>3. len % 2 # 1 /\ bytes = [i \in DOMAIN p |-> Max(p[i])]
    BY <1>1, <1>2 DEF HexDecode
<1>4. PICK n \in Nat : n = len \div 2 /\ len = 2 * n
    <2>1. len \div 2 \in Nat /\ len = 2 * (len \div 2)
        BY <1>3
    <2> QED
        BY <2>1
<1>5. bytes = [i \in 1..n |-> Max(p[i])]
    BY <1>2, <1>3, <1>4
<1> QED
    BY <1>1, <1>4, <1>5

\* Whatever is written in bech32 is read back as it was: the prefix, though it may hold the
\* separator, the variant and the bytes, though they are no whole number of groups.
THEOREM Bech32ReadsBack ==
    ASSUME NEW hrp \in Seq(Alphabet), HrpOk(hrp), NEW variant \in Variant, NEW bytes \in ByteSeq,
           Closed(hrp, ToGroups(bytes)), Len(EncodeData(hrp, ToGroups(bytes), variant)) <= MAX_LEN
    PROVE  Decode(EncodeData(hrp, ToGroups(bytes), variant)) = {[hrp |-> hrp, variant |-> variant, bytes |-> bytes]}
<1>1. PICK groups \in GroupSeq : groups = ToGroups(bytes) /\ ToBytes(groups) = {bytes}
    BY GroupsReadBack
<1>2. PICK t : t = EncodeData(hrp, groups, variant)
    OBVIOUS
<1>3. Checked(t) = {[hrp |-> hrp, variant |-> variant, groups |-> groups]}
    BY <1>1, <1>2, CheckedReadsBack
<1>4. PICK c : c = [hrp |-> hrp, variant |-> variant, groups |-> groups]
    OBVIOUS
<1>5. Decode(t) = UNION {{[hrp |-> d.hrp, variant |-> d.variant, bytes |-> b] : b \in ToBytes(d.groups)} : d \in {c}}
    BY <1>3, <1>4 DEF Decode
<1>6. c.hrp = hrp /\ c.variant = variant /\ c.groups = groups
    BY <1>4
<1>7. Decode(t) = {[hrp |-> hrp, variant |-> variant, bytes |-> b] : b \in ToBytes(groups)}
    BY <1>5, <1>6
<1> QED
    BY <1>1, <1>2, <1>7

\* Nothing is read in bech32 that the encoder would not have written, in small letters.
THEOREM Bech32OneSpelling ==
    ASSUME NEW t \in Seq(Alphabet), NEW v \in Decode(t)
    PROVE  v.bytes \in ByteSeq /\ EncodeData(v.hrp, ToGroups(v.bytes), v.variant) = LowerCase(t)
<1>1. PICK c \in Checked(t) :
            \E b \in ToBytes(c.groups) : v = [hrp |-> c.hrp, variant |-> c.variant, bytes |-> b]
    BY DEF Decode
<1>0. PICK bytes \in ToBytes(c.groups) : v = [hrp |-> c.hrp, variant |-> c.variant, bytes |-> bytes]
    BY <1>1
<1>2. c.groups \in GroupSeq /\ EncodeData(c.hrp, c.groups, c.variant) = LowerCase(t)
    BY CheckedOneSpelling
<1>3. bytes \in ByteSeq /\ ToGroups(bytes) = c.groups
    BY <1>2, GroupsOneSpelling
<1>4. v.hrp = c.hrp /\ v.variant = c.variant /\ v.bytes = bytes
    BY <1>0
<1> QED
    BY <1>2, <1>3, <1>4

\* A witness version and a program are groups.
LEMMA SegwitGroups ==
    ASSUME NEW witver \in 0..(Power(2, GroupBits) - 1), NEW program \in ByteSeq
    PROVE  <<witver>> \o ToGroups(program) \in GroupSeq
<1> DEFINE D == 0..(Power(2, GroupBits) - 1)
<1>1. witver \in D
    OBVIOUS
<1>2. ToGroups(program) \in Seq(D)
    BY ToGroupsIs DEF GroupSeq
<1> HIDE DEF D
<1>3. <<witver>> \o ToGroups(program) \in Seq(D)
    BY <1>1, <1>2, ThreeJoined
<1> QED
    BY <1>3 DEF D, GroupSeq

\* Bech32 is made of characters.
LEMMA EncodeDataIn ==
    ASSUME NEW hrp \in Seq(Alphabet), NEW groups \in GroupSeq, NEW variant \in Variant, Closed(hrp, groups)
    PROVE  EncodeData(hrp, groups, variant) \in Seq(Alphabet)
<1>1. "1" \in Alphabet
    BY CharsetAssumption DEF Alphabet
<1>2. PICK full \in GroupSeq : full = groups \o Checksum(hrp, groups, variant)
    BY ChecksumIs, ConcatIs DEF GroupSeq
<1>3. PICK u \in Seq(Alphabet) : u = Chars(full)
    BY CharsAre
<1>4. <<"1">> \o u \in Seq(Alphabet)
    BY <1>1, ThreeJoined
<1> QED
    BY <1>2, <1>3, <1>4, ConcatIs DEF EncodeData

\* So is a SegWit address.
LEMMA SegwitIn ==
    ASSUME NEW hrp \in Seq(Alphabet), NEW witver \in 0..(Power(2, GroupBits) - 1), NEW program \in ByteSeq,
           Closed(hrp, <<witver>> \o ToGroups(program))
    PROVE  EncodeSegwit(hrp, witver, program) \in Seq(Alphabet)
<1>1. PICK groups \in GroupSeq : groups = <<witver>> \o ToGroups(program)
    BY SegwitGroups
<1>2. PICK variant \in Variant : variant = IF witver = 0 THEN "Bech32" ELSE "Bech32m"
    BY DEF Variant
<1>3. EncodeSegwit(hrp, witver, program) = EncodeData(hrp, groups, variant)
    BY <1>1, <1>2 DEF EncodeSegwit
<1> QED
    BY <1>1, <1>3, EncodeDataIn

\* The SegWit address of a witness program is verified: its prefix, and the variant its witness
\* version is written in.
THEOREM SegwitReadsBack ==
    ASSUME NEW hrp \in Seq(Alphabet), HrpOk(hrp), NEW witver \in 0..(Power(2, GroupBits) - 1), NEW program \in ByteSeq,
           Closed(hrp, <<witver>> \o ToGroups(program)), Len(EncodeSegwit(hrp, witver, program)) <= MAX_LEN
    PROVE  Verify(EncodeSegwit(hrp, witver, program)) =
               {[hrp |-> hrp, variant |-> IF witver = 0 THEN "Bech32" ELSE "Bech32m"]}
<1>1. PICK groups \in GroupSeq : groups = <<witver>> \o ToGroups(program)
    BY SegwitGroups
<1>2. PICK variant \in Variant : variant = IF witver = 0 THEN "Bech32" ELSE "Bech32m"
    BY DEF Variant
<1>3. PICK t : t = EncodeSegwit(hrp, witver, program) /\ t = EncodeData(hrp, groups, variant)
    BY <1>1, <1>2 DEF EncodeSegwit
<1>4. Checked(t) = {[hrp |-> hrp, variant |-> variant, groups |-> groups]}
    BY <1>1, <1>3, CheckedReadsBack
<1>5. PICK c : c = [hrp |-> hrp, variant |-> variant, groups |-> groups]
    OBVIOUS
<1>6. c.hrp = hrp /\ c.variant = variant
    BY <1>5
<1>7. Verify(t) = {[hrp |-> d.hrp, variant |-> d.variant] : d \in {c}}
    BY <1>4, <1>5 DEF Verify
<1> QED
    BY <1>2, <1>3, <1>6, <1>7

-----------------------------------------------------------------------------
(* CashAddr and CIP-37 *)

\* The first ":" of a text, 0 if there is none.
LEMMA ColonIs ==
    ASSUME NEW t \in Seq(Alphabet)
    PROVE  \/ Colon(t) = 0 /\ \A i \in 1..Len(t) : t[i] # ":"
           \/ Colon(t) \in 1..Len(t) /\ t[Colon(t)] = ":"
<1>1. PICK n \in Nat : n = Len(t)
    BY LenProperties
<1> DEFINE I == {i \in 1..n : t[i] = ":"}
<1>2. Colon(t) = IF I # {} THEN Min(I) ELSE 0
    BY <1>1 DEF Colon, SelectInSeq
<1>3. CASE I = {}
    BY <1>1, <1>2, <1>3
<1>4. CASE I # {}
    <2>1. I \in SUBSET Nat
        OBVIOUS
    <2>2. PICK k \in I : \A i \in I : k <= i
        <3> HIDE DEF I
        <3> QED
            BY <1>4, <2>1, LeastNat
    <2>3. Min(I) = k
        <3> HIDE DEF I
        <3> QED
            BY <2>1, <2>2, LeastIs
    <2> QED
        BY <1>1, <1>2, <1>4, <2>2, <2>3
<1> QED
    BY <1>3, <1>4

\* It is where it was put, after a prefix that has none.
LEMMA ColonFound ==
    ASSUME NEW t \in Seq(Alphabet), NEW k \in 1..Len(t), t[k] = ":", \A i \in 1..(k - 1) : t[i] # ":"
    PROVE  Colon(t) = k
<1>1. PICK n \in Nat : n = Len(t)
    BY LenProperties
<1> DEFINE I == {i \in 1..n : t[i] = ":"}
<1>2. I \in SUBSET Nat /\ k \in I
    BY <1>1
<1>3. \A i \in I : k <= i
    BY <1>1
<1>4. Min(I) = k
    <2> HIDE DEF I
    <2> QED
        BY <1>2, <1>3, LeastIs
<1> QED
    BY <1>1, <1>2, <1>4 DEF Colon, SelectInSeq

\* Bytes are written in groups, some of them.
LEMMA SomeGroups ==
    ASSUME NEW bytes \in ByteSeq, bytes # << >>
    PROVE  Len(ToGroups(bytes)) \in Nat \ {0}
<1>1. PICK g \in GroupSeq : g = ToGroups(bytes)
    BY ToGroupsIs
<1>2. PICK pad \in 0..(GroupBits - 1) : GroupBits * Len(g) = ByteBits * Len(bytes) + pad
    BY <1>1, ToGroupsIs DEF SameBits
<1>3. PICK n \in Nat, m \in Nat : n = Len(bytes) /\ m = Len(g)
    BY LenProperties DEF GroupSeq, ByteSeq
<1>4. n # 0
    BY <1>3, EmptySeq DEF ByteSeq
<1>5. PICK w \in Nat \ {0}, B \in Nat \ {0} : w = GroupBits /\ B = ByteBits
    BY Widths
<1>6. w * m = B * n + pad /\ pad \in Nat
    BY <1>2, <1>3, <1>5
<1>7. B * n \in Nat \ {0}
    BY <1>4
<1>8. m # 0
    <2> SUFFICES ASSUME m = 0 PROVE FALSE
        OBVIOUS
    <2>1. w * m = 0
        OBVIOUS
    <2> QED
        BY <1>6, <1>7, <2>1
<1> QED
    BY <1>1, <1>3, <1>8

\* What the decoder is given of a written text: its prefix, and the characters of the data.
LEMMA CashParts ==
    ASSUME NEW prefix \in Seq(Alphabet), PrefixOk(prefix), NEW bytes \in ByteSeq, bytes # << >>,
           Closed(Masked(prefix), ToGroups(bytes)), NEW t, t = EncodeCash(prefix, bytes)
    PROVE  /\ t \in Seq(Alphabet) /\ Colon(t) = Len(prefix) + 1 /\ Colon(t) # 0
           /\ SubSeq(t, 1, Colon(t) - 1) = prefix
           /\ CashBytes(prefix, From(t, Colon(t) + 1)) = {bytes}
           /\ AfterType(From(t, Colon(t) + 1)) = {From(t, Colon(t) + 1)}
<1>1. PICK n \in Nat \ {0} : n = CHECKSUM_CHARS
    BY LengthAssumption
<1>2. PICK groups \in GroupSeq, g \in Nat \ {0} :
            groups = ToGroups(bytes) /\ ToBytes(groups) = {bytes} /\ g = Len(groups)
    BY GroupsReadBack, SomeGroups
<1>3. PICK sum \in GroupSeq : sum = Polymod(Masked(prefix), groups) /\ Len(sum) = n
    <2>1. PICK V \in Nat : V = Power(2, GroupBits)
        BY Widths, TwoPower
    <2>2. PICK chk \in [1..n -> 0..(V - 1)] : chk = Polymod(Masked(prefix), groups)
        BY <1>1, <1>2, <2>1 DEF Closed
    <2>3. chk \in Seq(0..(V - 1)) /\ Len(chk) = n
        BY FunctionIsSeq
    <2> QED
        BY <2>1, <2>2, <2>3 DEF GroupSeq
<1>4. PICK full \in GroupSeq : /\ full = groups \o sum /\ Len(full) = g + n
                               /\ ButLast(full, n) = groups /\ LastOf(full, n) = sum
    <2>1. groups \o sum \in GroupSeq /\ Len(groups \o sum) = g + n
        BY <1>2, <1>3, ConcatIs, ZenonT(40) DEF GroupSeq
    <2>2. ButLast(groups \o sum, n) = groups /\ LastOf(groups \o sum, n) = sum
        BY <1>3, EndApart DEF GroupSeq
    <2> QED
        BY <2>1, <2>2
<1>5. Parts(t, prefix, ":", full)
    BY <1>2, <1>3, <1>4, ThreeJoined, CharsAre, CharsetAssumption DEF EncodeCash, Parts, Alphabet
<1>6. PICK h \in Nat : h = Len(prefix) /\ DOMAIN prefix = 1..h
    BY LenProperties
<1>7. ":" \in Alphabet
    BY CharsetAssumption DEF Alphabet
<1>8. /\ t \in Seq(Alphabet) /\ Len(t) = (Len(prefix) + 1) + Len(full)
       /\ SubSeq(t, 1, Len(prefix)) = prefix /\ t[Len(prefix) + 1] = ":"
       /\ From(t, Len(prefix) + 2) = Chars(full) /\ GroupsOf(From(t, Len(prefix) + 2)) = {full}
       /\ \A i \in 1..Len(prefix) : t[i] = prefix[i]
    BY <1>5, <1>7, PartsFound
<1>9. /\ Chars(full) \in Seq(Alphabet) /\ Len(Chars(full)) = Len(full)
       /\ \A i \in 1..Len(full) : Chars(full)[i] # ":"
    BY CharsAre
<1>10. PICK data \in Seq(Alphabet) :
        /\ data = Chars(full) /\ Len(data) = g + n /\ data = From(t, h + 2) /\ GroupsOf(data) = {full}
        /\ \A i \in 1..(g + n) : data[i] # ":"
    BY <1>4, <1>6, <1>8, <1>9
<1>11. /\ t \in Seq(Alphabet) /\ Len(t) = (h + 1) + (g + n)
      /\ SubSeq(t, 1, h) = prefix /\ t[h + 1] = ":" /\ \A i \in 1..h : t[i] = prefix[i]
    BY <1>4, <1>6, <1>8
<1>12. Colon(t) = h + 1
    <2>1. PICK k \in 1..Len(t) : k = h + 1 /\ k - 1 = h
        BY <1>11
    <2>2. \A i \in 1..h : t[i] # ":"
        <3>1. \A i \in 1..h : prefix[i] \in Alphabet /\ PrefixChar(prefix[i])
            BY <1>6, ElementOfSeq DEF PrefixOk
        <3> QED
            BY <1>11, <3>1, PrefixAssumption DEF Alphabet
    <2> QED
        BY <1>11, <2>1, <2>2, ColonFound
<1>13. Colon(data) = 0
    <2>1. PICK n1 \in Nat : n1 = g + n /\ n1 = Len(data)
        BY <1>10
    <2>2. \A i \in 1..Len(data) : data[i] # ":"
        BY <1>10
    <2> QED
        BY <2>2, ColonIs
<1> DEFINE taken == {x \in {full} : LastOf(x, n) = Polymod(Masked(prefix), ButLast(x, n))}
<1>14. taken = {full}
    BY <1>3, <1>4
<1>15. CashBytes(prefix, data) = {bytes}
    <2>1. ~(Len(data) <= n)
        BY <1>10
    <2>2. CashBytes(prefix, data) = UNION {ToBytes(ButLast(x, n)) : x \in taken}
        BY <1>1, <1>10, <2>1 DEF CashBytes
    <2> HIDE DEF taken
    <2>3. CashBytes(prefix, data) = ToBytes(ButLast(full, n))
        BY <1>14, <2>2
    <2> QED
        BY <1>2, <1>4, <2>3
<1>16. (h + 1) + 1 = h + 2 /\ (h + 1) - 1 = h /\ h + 1 # 0
    OBVIOUS
<1>17. From(t, Colon(t) + 1) = data
    BY <1>10, <1>12, <1>16
<1> QED
    BY <1>6, <1>11, <1>12, <1>13, <1>15, <1>16, <1>17 DEF AfterType

\* Kaspa: whatever is written is read back, the prefix and the version byte with its payload.
THEOREM CashReadsBack ==
    ASSUME NEW prefix \in Seq(Alphabet), PrefixOk(prefix), NEW bytes \in ByteSeq, bytes # << >>,
           Closed(Masked(prefix), ToGroups(bytes))
    PROVE  DecodeCash(EncodeCash(prefix, bytes)) = {[prefix |-> prefix, bytes |-> bytes]}
<1>1. PICK t : t = EncodeCash(prefix, bytes)
    OBVIOUS
<1>2. /\ Colon(t) # 0 /\ SubSeq(t, 1, Colon(t) - 1) = prefix
      /\ CashBytes(prefix, From(t, Colon(t) + 1)) = {bytes}
    BY <1>1, CashParts
<1>3. DecodeCash(t) = {[prefix |-> prefix, bytes |-> b] : b \in {bytes} \ {<< >>}}
    BY <1>2 DEF DecodeCash
<1>4. {bytes} \ {<< >>} = {bytes}
    OBVIOUS
<1> QED
    BY <1>1, <1>3, <1>4

\* Conflux: the same of the version byte 0 and an address.
THEOREM ConfluxReadsBack ==
    ASSUME NEW prefix \in Seq(Alphabet), PrefixOk(prefix), NEW bytes \in ByteSeq, bytes # << >>,
           Closed(Masked(prefix), ToGroups(bytes)), Len(bytes) = 1 + ADDR_LEN, bytes[1] = 0
    PROVE  DecodeConflux(EncodeCash(prefix, bytes)) = {[prefix |-> prefix, bytes |-> bytes]}
<1>1. PICK t : t = EncodeCash(prefix, bytes)
    OBVIOUS
<1>2. PICK data : data = From(t, Colon(t) + 1)
    OBVIOUS
<1>3. /\ Colon(t) # 0 /\ SubSeq(t, 1, Colon(t) - 1) = prefix
      /\ CashBytes(prefix, data) = {bytes} /\ AfterType(data) = {data}
    BY <1>1, <1>2, CashParts
<1> DEFINE taken == {x \in UNION {CashBytes(prefix, d) : d \in AfterType(data)} : Len(x) = 1 + ADDR_LEN /\ x[1] = 0}
<1>4. DecodeConflux(t) = {[prefix |-> prefix, bytes |-> b] : b \in taken}
    BY <1>2, <1>3 DEF DecodeConflux
<1>5. taken = {bytes}
    <2>1. UNION {CashBytes(prefix, d) : d \in AfterType(data)} = {bytes}
        BY <1>3
    <2> QED
        BY <2>1
<1> HIDE DEF taken
<1> QED
    BY <1>1, <1>4, <1>5

\* Bytes are read behind a prefix of the characters they are written in.
LEMMA CashBytesAre ==
    ASSUME NEW prefix, NEW data \in Seq(Alphabet), NEW bytes \in CashBytes(prefix, data)
    PROVE  /\ bytes \in ByteSeq /\ PrefixOk(prefix)
           /\ \E full \in GroupSeq : /\ Chars(full) = data
                                     /\ full = ToGroups(bytes) \o Polymod(Masked(prefix), ToGroups(bytes))
<1>1. PICK n \in Nat \ {0}, m \in Nat : n = CHECKSUM_CHARS /\ m = Len(data)
    BY LengthAssumption, LenProperties
<1>2. /\ PrefixOk(prefix) /\ ~(m <= n)
      /\ bytes \in UNION {ToBytes(ButLast(groups, n)) :
                            groups \in {g \in GroupsOf(data) : LastOf(g, n) = Polymod(Masked(prefix), ButLast(g, n))}}
    BY <1>1 DEF CashBytes
<1>3. PICK full \in GroupsOf(data) : /\ LastOf(full, n) = Polymod(Masked(prefix), ButLast(full, n))
                                     /\ bytes \in ToBytes(ButLast(full, n))
    BY <1>2
<1>4. full \in GroupSeq /\ Len(full) = m /\ Chars(full) = data
    BY <1>1, CharsOnly
<1>5. PICK groups \in GroupSeq : groups = ButLast(full, n) /\ full = groups \o LastOf(full, n)
    <2> DEFINE D == 0..(Power(2, GroupBits) - 1)
    <2>1. full \in Seq(D) /\ n \in 0..Len(full)
        BY <1>2, <1>4 DEF GroupSeq
    <2> HIDE DEF D
    <2>2. ButLast(full, n) \in Seq(D) /\ full = ButLast(full, n) \o LastOf(full, n)
        BY <2>1, EndJoined
    <2> QED
        BY <2>2 DEF D, GroupSeq
<1>6. bytes \in ByteSeq /\ ToGroups(bytes) = groups
    BY <1>3, <1>5, GroupsOneSpelling
<1> QED
    BY <1>2, <1>3, <1>4, <1>5, <1>6

\* A text is its prefix, the ":" and the rest.
LEMMA ColonCuts ==
    ASSUME NEW t \in Seq(Alphabet), Colon(t) # 0
    PROVE  /\ t = (SubSeq(t, 1, Colon(t) - 1) \o <<":">>) \o From(t, Colon(t) + 1)
           /\ SubSeq(t, 1, Colon(t) - 1) \in Seq(Alphabet) /\ From(t, Colon(t) + 1) \in Seq(Alphabet)
           /\ SubSeq(t, 1, Colon(t)) = SubSeq(t, 1, Colon(t) - 1) \o <<":">>
<1>1. PICK k \in 1..Len(t) : k = Colon(t) /\ t[k] = ":"
    BY ColonIs
<1>2. PICK p, u : p = SubSeq(t, 1, k - 1) /\ u = SubSeq(t, k + 1, Len(t))
    OBVIOUS
<1>3. t = (p \o <<":">>) \o u /\ p \in Seq(Alphabet) /\ u \in Seq(Alphabet) /\ Len(p) = k - 1
    <2>1. Around(t, k, Alphabet)
        BY CutAround
    <2> QED
        BY <1>1, <1>2, <2>1 DEF Around
<1>4. SubSeq(t, 1, k) = p \o <<":">>
    <2>1. ":" \in Alphabet
        BY CharsetAssumption DEF Alphabet
    <2>2. PICK w \in Seq(Alphabet) : w = p \o <<":">> /\ Len(w) = k
        <3>1. p \o <<":">> = Append(p, ":")
            BY <1>3, <2>1, LastJoined
        <3>2. Append(p, ":") \in Seq(Alphabet) /\ Len(Append(p, ":")) = Len(p) + 1
            BY <1>3, <2>1, AppendIs
        <3>3. Len(p) + 1 = k
            BY <1>3
        <3> QED
            BY <3>1, <3>2, <3>3
    <2>3. SubSeq(w \o u, 1, Len(w)) = w
        BY <1>3, JoinedApart
    <2> QED
        BY <1>3, <2>2, <2>3
<1> QED
    BY <1>1, <1>2, <1>3, <1>4, ZenonT(40) DEF From

\* Bytes read behind a prefix are written as the prefix, the ":" and what they were read of.
LEMMA CashWrites ==
    ASSUME NEW prefix \in Seq(Alphabet), NEW data \in Seq(Alphabet), NEW bytes \in CashBytes(prefix, data)
    PROVE  bytes \in ByteSeq /\ EncodeCash(prefix, bytes) = (prefix \o <<":">>) \o data
<1>1. PICK full \in GroupSeq : /\ Chars(full) = data
                               /\ full = ToGroups(bytes) \o Polymod(Masked(prefix), ToGroups(bytes))
    BY CashBytesAre
<1>2. bytes \in ByteSeq
    BY CashBytesAre
<1>3. EncodeCash(prefix, bytes) = prefix \o <<":">> \o Chars(full)
    BY <1>1 DEF EncodeCash
<1> QED
    BY <1>1, <1>2, <1>3

\* Kaspa: nothing is read that the encoder would not have written, to the letter.
THEOREM CashOneSpelling ==
    ASSUME NEW t \in Seq(Alphabet), NEW v \in DecodeCash(t)
    PROVE  v.bytes \in ByteSeq /\ EncodeCash(v.prefix, v.bytes) = t
<1>1. PICK prefix, data : prefix = SubSeq(t, 1, Colon(t) - 1) /\ data = From(t, Colon(t) + 1)
    OBVIOUS
<1>2. Colon(t) # 0
    BY DEF DecodeCash
<1>3. PICK bytes \in CashBytes(prefix, data) : v = [prefix |-> prefix, bytes |-> bytes]
    BY <1>1, <1>2 DEF DecodeCash
<1>4. prefix \in Seq(Alphabet) /\ data \in Seq(Alphabet) /\ t = (prefix \o <<":">>) \o data
    BY <1>1, <1>2, ColonCuts
<1>5. bytes \in ByteSeq /\ EncodeCash(prefix, bytes) = (prefix \o <<":">>) \o data
    BY <1>4, CashWrites
<1> QED
    BY <1>3, <1>4, <1>5

\* At most one rest of a text follows its type.
LEMMA OneRest ==
    ASSUME NEW rest \in Seq(Alphabet), NEW data \in AfterType(rest)
    PROVE  data \in Seq(Alphabet) /\ AfterType(rest) = {data}
<1>1. CASE Colon(rest) = 0
    BY <1>1 DEF AfterType
<1>2. CASE Colon(rest) # 0
    BY <1>2, ColonCuts DEF AfterType
<1> QED
    BY <1>1, <1>2

\* Conflux: nothing is read that the encoder would not have written, but for the type.
THEOREM ConfluxOneSpelling ==
    ASSUME NEW t \in Seq(Alphabet), NEW v \in DecodeConflux(t)
    PROVE  /\ v.bytes \in ByteSeq
           /\ EncodeCash(v.prefix, v.bytes) =
                  SubSeq(t, 1, Colon(t)) \o (CHOOSE rest \in AfterType(From(t, Colon(t) + 1)) : TRUE)
<1>1. PICK prefix, rest : prefix = SubSeq(t, 1, Colon(t) - 1) /\ rest = From(t, Colon(t) + 1)
    OBVIOUS
<1>2. Colon(t) # 0
    BY DEF DecodeConflux
<1>3. PICK bytes \in UNION {CashBytes(prefix, d) : d \in AfterType(rest)} : v = [prefix |-> prefix, bytes |-> bytes]
    BY <1>1, <1>2 DEF DecodeConflux
<1>4. PICK data \in AfterType(rest) : bytes \in CashBytes(prefix, data)
    BY <1>3
<1>5. /\ prefix \in Seq(Alphabet) /\ rest \in Seq(Alphabet)
      /\ SubSeq(t, 1, Colon(t)) = prefix \o <<":">>
    BY <1>1, <1>2, ColonCuts
<1>6. data \in Seq(Alphabet) /\ AfterType(rest) = {data}
    BY <1>5, OneRest
<1>7. bytes \in ByteSeq /\ EncodeCash(prefix, bytes) = (prefix \o <<":">>) \o data
    BY <1>4, <1>5, <1>6, CashWrites
<1>8. (CHOOSE r \in AfterType(rest) : TRUE) = data
    BY <1>6
<1> QED
    BY <1>1, <1>3, <1>5, <1>7, <1>8
-----------------------------------------------------------------------------
(* BIP39 phrases: the bits of the entropy and of its checksum are those of the words. *)

\* The first u bits of a value of w bits.
TopBits(x, w, u) == [j \in 1..u |-> (x \div Power(2, w - j)) % 2]

\* They spell what is left of it when the others are dropped.
LEMMA TopBitsSpell ==
    ASSUME NEW w \in Nat, NEW x \in 0..(Power(2, w) - 1), NEW u \in 0..w
    PROVE  /\ TopBits(x, w, u) \in Seq(0..1) /\ Len(TopBits(x, w, u)) = u
           /\ Number(TopBits(x, w, u), 2) = x \div Power(2, w - u)
<1>1. Power(2, 1) = 2 /\ 0..(Power(2, 1) - 1) = 0..1
    <2>1. Power(2, 0 + 1) = 2 * Power(2, 0)
        BY PowerStep
    <2> QED
        BY <2>1, PowerZero
<1>2. Holds(w, 1, u) /\ u \in Nat /\ 1 \in Nat \ {0} /\ w \in 0..w
    BY DEF Holds
<1>3. TopBits(x, w, u) = Emitted(x, w, 1, u)
    <2>1. \A j \in 1..u : w - j * 1 = w - j
        OBVIOUS
    <2> QED
        BY <1>1, <2>1 DEF TopBits, Emitted
<1>4. PICK p \in Nat \ {0} : p = Power(2, w) /\ x \in 0..(p - 1) /\ x \in Nat
    BY TwoPower
<1>5. x = x % p /\ x \div p = 0
    <2>1. (0 * p + x) \div p = 0 /\ (0 * p + x) % p = x
        BY <1>4, QuotientIs
    <2>2. 0 * p + x = x
        BY <1>4
    <2> QED
        BY <2>1, <2>2
<1>6. PICK b \in Seq(0..(Power(2, 1) - 1)) : b = Emitted(x, w, 1, u) /\ Len(b) = u
    BY <1>2, <1>4, EmittedIs
<1>7. << >> \in Seq(0..(Power(2, 1) - 1)) /\ Number(<< >>, Power(2, 1)) = x \div Power(2, w)
    BY <1>1, <1>4, <1>5, EmptySeq, NumberEmpty
<1>8. Number(<< >> \o Emitted(x % Power(2, w), w, 1, u), Power(2, 1)) = x \div Power(2, w - u * 1)
    <2>1. PICK o \in Seq(0..(Power(2, 1) - 1)) : o = << >>
        BY <1>7
    <2>2. Number(o, Power(2, 1)) = x \div Power(2, w)
        BY <1>7, <2>1
    <2>3. Number(o \o Emitted(x % Power(2, w), w, 1, u), Power(2, 1)) = x \div Power(2, w - u * 1)
        <3>1. PICK e \in Nat \ {0} : e = 1
            OBVIOUS
        <3>2. Holds(w, e, u) /\ o \in Seq(0..(Power(2, e) - 1)) /\ Number(o, Power(2, e)) = x \div Power(2, w)
            BY <1>2, <2>2, <3>1
        <3>3. Number(o \o Emitted(x % Power(2, w), w, e, u), Power(2, e)) = x \div Power(2, w - u * e)
            BY <1>2, <1>4, <3>2, EmittedSpell
        <3> QED
            BY <3>1, <3>3
    <2> QED
        BY <2>1, <2>3
<1>9. << >> \o b = b /\ w - u * 1 = w - u
    BY <1>6, ConcatEmptySeq
<1> QED
    BY <1>1, <1>3, <1>4, <1>5, <1>6, <1>8, <1>9

\* So many bits are those of the number they spell.
LEMMA SpelledBits ==
    ASSUME NEW s \in Seq(0..1)
    PROVE  /\ Number(s, 2) \in 0..(Power(2, Len(s)) - 1)
           /\ \A j \in 1..Len(s) : (Number(s, 2) \div Power(2, Len(s) - j)) % 2 = s[j]
<1>1. PICK w \in Nat : w = Len(s)
    BY LenProperties
<1>2. s \in Seq(0..(2 - 1))
    OBVIOUS
<1>3. PICK p \in Nat \ {0}, x \in Nat : p = Power(2, w) /\ x = Number(s, 2) /\ x < p
    <2>1. PICK r \in Nat \ {0} : r = 2
        OBVIOUS
    <2>2. s \in Seq(0..(r - 1))
        BY <1>2, <2>1
    <2>3. Number(s, r) \in Nat /\ Number(s, r) < Power(r, Len(s))
        BY <2>2, NumberFits
    <2> QED
        BY <1>1, <2>1, <2>3, TwoPower
<1>4. x \in 0..(Power(2, w) - 1)
    BY <1>3
<1>5. w \in 0..w /\ w - w = 0
    OBVIOUS
<1>6. PICK t \in Seq(0..(2 - 1)) : t = TopBits(x, w, w) /\ Len(t) = w /\ Number(t, 2) = x \div Power(2, w - w)
    BY <1>4, <1>5, TopBitsSpell
<1>7. Number(t, 2) = x
    <2>1. (x * 1 + 0) \div 1 = x
        BY QuotientIs
    <2> QED
        BY <1>5, <1>6, <2>1, PowerZero
<1>8. t = s
    BY <1>1, <1>2, <1>3, <1>6, <1>7, SameDigits
<1> QED
    BY <1>1, <1>3, <1>4, <1>6, <1>8 DEF TopBits

\* Bit j of the k-th of values of w bits.
LEMMA BitIs ==
    ASSUME NEW s, NEW w \in Nat \ {0}, NEW k \in Nat \ {0}, NEW j \in 1..w
    PROVE  /\ (k - 1) * w + j - 1 \in Nat
           /\ BitOf(s, w, (k - 1) * w + j - 1) = (s[k] \div Power(2, w - j)) % 2
<1>1. PICK q \in Nat, d \in 0..(w - 1) : q = k - 1 /\ d = j - 1 /\ k = q + 1 /\ j = d + 1
    OBVIOUS
<1>2. q * w \in Nat /\ (k - 1) * w + j - 1 = q * w + d
    BY <1>1
<1>3. (q * w + d) \div w = q /\ (q * w + d) % w = d
    BY QuotientIs
<1>4. w - 1 - d = w - j
    BY <1>1
<1> QED
    BY <1>1, <1>2, <1>3, <1>4 DEF BitOf

\* Every bit is one of some value.
LEMMA BitPlace ==
    ASSUME NEW w \in Nat \ {0}, NEW n \in Nat, NEW i \in 0..(n * w - 1)
    PROVE  \E k \in 1..n, j \in 1..w : i = (k - 1) * w + j - 1
<1>1. n * w \in Nat /\ i \in Nat /\ i < n * w
    OBVIOUS
<1>2. PICK q \in Nat, d \in 0..(w - 1) : q = i \div w /\ d = i % w /\ i = w * q + d
    BY Divided
<1>3. q < n
    <2>1. ASSUME q >= n PROVE FALSE
        <3>1. PICK c \in Nat : q = n + c
            <4>1. q - n \in Nat /\ q = n + (q - n)
                BY <2>1
            <4> QED
                BY <4>1
        <3>2. w * q = n * w + w * c /\ w * c \in Nat /\ w * q \in Nat
            BY <3>1
        <3> QED
            BY <1>1, <1>2, <3>2
    <2> QED
        BY <2>1
<1>4. q + 1 \in 1..n /\ d + 1 \in 1..w
    BY <1>3
<1>5. i = ((q + 1) - 1) * w + (d + 1) - 1
    BY <1>2
<1> QED
    BY <1>4, <1>5

\* All the bits of n values.
AllBits(s, n, w) == [i \in 0..(n * w - 1) |-> BitOf(s, w, i)]

\* n values that spell the bits f, w bits each.
SpelledOf(f, n, w) == [k \in 1..n |-> Number([j \in 1..w |-> f[(k - 1) * w + j - 1]], 2)]

\* A place among them.
LEMMA PlaceIn ==
    ASSUME NEW w \in Nat \ {0}, NEW n \in Nat, NEW k \in 1..n, NEW j \in 1..w
    PROVE  (k - 1) * w + j - 1 \in 0..(n * w - 1)
<1>1. PICK q \in Nat, d \in 0..(w - 1), r \in Nat : q = k - 1 /\ d = j - 1 /\ n = q + 1 + r
    <2>1. n - k \in Nat /\ n = (k - 1) + 1 + (n - k)
        OBVIOUS
    <2> QED
        BY <2>1
<1>2. {q * w, r * w} \subseteq Nat /\ n * w = q * w + w + r * w
    BY <1>1
<1>3. (k - 1) * w + j - 1 = q * w + d
    BY <1>1, <1>2
<1> QED
    BY <1>2, <1>3

\* Values that spell bits have them.
LEMMA SpelledHave ==
    ASSUME NEW w \in Nat \ {0}, NEW n \in Nat, NEW f \in [0..(n * w - 1) -> 0..1]
    PROVE  /\ SpelledOf(f, n, w) \in Seq(0..(Power(2, w) - 1)) /\ Len(SpelledOf(f, n, w)) = n
           /\ AllBits(SpelledOf(f, n, w), n, w) = f
<1>1. PICK s : s = SpelledOf(f, n, w)
    OBVIOUS
<1>2. ASSUME NEW k \in 1..n
      PROVE  /\ s[k] \in 0..(Power(2, w) - 1)
             /\ \A j \in 1..w : (s[k] \div Power(2, w - j)) % 2 = f[(k - 1) * w + j - 1]
    <2>1. PICK b : b = [j \in 1..w |-> f[(k - 1) * w + j - 1]]
        OBVIOUS
    <2>2. \A j \in 1..w : f[(k - 1) * w + j - 1] \in 0..1
        BY PlaceIn
    <2>3. b \in [1..w -> 0..1]
        BY <2>1, <2>2
    <2>4. b \in Seq(0..1) /\ Len(b) = w
        BY <2>3, FunctionIsSeq
    <2>5. s[k] = Number(b, 2)
        BY <1>1, <2>1 DEF SpelledOf
    <2>6. s[k] \in 0..(Power(2, w) - 1) /\ \A j \in 1..w : (s[k] \div Power(2, w - j)) % 2 = b[j]
        BY <2>4, <2>5, SpelledBits
    <2> QED
        BY <2>1, <2>6
<1>3. s \in Seq(0..(Power(2, w) - 1)) /\ Len(s) = n
    <2> DEFINE D == 0..(Power(2, w) - 1)
    <2>1. s \in [1..n -> D]
        BY <1>1, <1>2 DEF SpelledOf
    <2> HIDE DEF D
    <2>2. s \in Seq(D) /\ Len(s) = n
        BY <2>1, FunctionIsSeq
    <2> QED
        BY <2>2 DEF D
<1>4. ASSUME NEW i \in 0..(n * w - 1) PROVE BitOf(s, w, i) = f[i]
    <2>1. PICK k \in 1..n, j \in 1..w : i = (k - 1) * w + j - 1
        BY BitPlace
    <2>2. k \in Nat \ {0}
        OBVIOUS
    <2>3. BitOf(s, w, (k - 1) * w + j - 1) = (s[k] \div Power(2, w - j)) % 2
        BY <2>2, BitIs, ZenonT(40)
    <2> QED
        BY <1>2, <2>1, <2>3
<1>5. AllBits(s, n, w) = f
    BY <1>4 DEF AllBits
<1> QED
    BY <1>1, <1>3, <1>5

\* And values are spelled by the bits they have.
LEMMA SpelledBack ==
    ASSUME NEW w \in Nat \ {0}, NEW n \in Nat, NEW s \in Seq(0..(Power(2, w) - 1)), Len(s) = n
    PROVE  AllBits(s, n, w) \in [0..(n * w - 1) -> 0..1] /\ SpelledOf(AllBits(s, n, w), n, w) = s
<1>1. PICK f : f = AllBits(s, n, w)
    OBVIOUS
<1>2. s \in [1..n -> 0..(Power(2, w) - 1)]
    BY LenProperties
<1>3. ASSUME NEW k \in 1..n
      PROVE  /\ Number([j \in 1..w |-> f[(k - 1) * w + j - 1]], 2) = s[k]
             /\ \A j \in 1..w : f[(k - 1) * w + j - 1] \in 0..1
    <2>1. PICK x \in 0..(Power(2, w) - 1) : x = s[k]
        BY <1>2
    <2>2. w \in 0..w /\ w - w = 0
        OBVIOUS
    <2>3. ASSUME NEW j \in 1..w PROVE f[(k - 1) * w + j - 1] = (x \div Power(2, w - j)) % 2
        <3>1. (k - 1) * w + j - 1 \in 0..(n * w - 1)
            BY PlaceIn
        <3>2. k \in Nat \ {0}
            OBVIOUS
        <3>3. BitOf(s, w, (k - 1) * w + j - 1) = (s[k] \div Power(2, w - j)) % 2
            BY <3>2, BitIs
        <3> QED
            BY <1>1, <2>1, <3>1, <3>3 DEF AllBits
    <2>4. [j \in 1..w |-> f[(k - 1) * w + j - 1]] = TopBits(x, w, w)
        BY <2>3 DEF TopBits
    <2>5. TopBits(x, w, w) \in Seq(0..1) /\ Len(TopBits(x, w, w)) = w /\ Number(TopBits(x, w, w), 2) = x \div Power(2, w - w)
        BY <2>2, TopBitsSpell
    <2>6. x \div Power(2, w - w) = x
        <3>1. x \in Nat /\ (x * 1 + 0) \div 1 = x
            <4>1. x \in Nat
                BY TwoPower
            <4> QED
                BY <4>1, QuotientIs
        <3> QED
            BY <2>2, <3>1, PowerZero
    <2>7. \A j \in 1..w : TopBits(x, w, w)[j] \in 0..1
        BY <2>5, ElementOfSeq
    <2>8. \A j \in 1..w : f[(k - 1) * w + j - 1] \in 0..1
        BY <2>3, <2>7 DEF TopBits
    <2> QED
        BY <2>1, <2>4, <2>5, <2>6, <2>8
<1>4. f \in [0..(n * w - 1) -> 0..1]
    <2>1. ASSUME NEW i \in 0..(n * w - 1) PROVE f[i] \in 0..1
        <3>1. PICK k \in 1..n, j \in 1..w : i = (k - 1) * w + j - 1
            BY BitPlace
        <3> QED
            BY <1>3, <3>1
    <2> QED
        BY <1>1, <2>1 DEF AllBits
<1>5. SpelledOf(f, n, w) = s
    <2>1. SpelledOf(f, n, w) = [k \in 1..n |-> s[k]]
        BY <1>3 DEF SpelledOf
    <2> QED
        BY <1>2, <2>1
<1> QED
    BY <1>1, <1>4, <1>5

\* A character of a phrase is a word, no word of the list, or the space.
Char == 0..Space
Words == 0..NotAWord

\* The numbers that stand for them.
LEMMA CharsAreNats ==
    /\ NotAWord \in Nat \ {0} /\ Space = NotAWord + 1 /\ Words \subseteq Char /\ Space \in Char /\ Space \notin Words
    /\ \A c \in Char : c # Space => c \in Words
<1>1. BITS_PER_WORD \in Nat
    BY Bip39Assumption
<1>2. NotAWord \in Nat \ {0}
    BY <1>1, TwoPower DEF NotAWord
<1> QED
    BY <1>2 DEF Space, Char, Words

\* The pieces a phrase is put together of.
Piece(i, word) == IF i = 1 THEN <<word>> ELSE <<Space, word>>

\* The words of a text with one more character.
LEMMA SplitAppend ==
    ASSUME NEW s \in Seq(Char), NEW d \in Char
    PROVE  SplitWhitespace(Append(s, d)) = SplitWhitespace(s) \o (IF d = Space THEN << >> ELSE <<d>>)
<1> DEFINE cut(c) == IF c = Space THEN << >> ELSE <<c>>
           m == [i \in DOMAIN s |-> cut(s[i])]
           t == Append(s, d)
           q == [i \in DOMAIN t |-> cut(t[i])]
<1>1. PICK n \in Nat : n = Len(s) /\ DOMAIN s = 1..n /\ s \in [1..n -> Char]
    BY LenProperties
<1>2. \A c \in Char : cut(c) \in Seq(Char)
    BY EmptySeq
<1>3. m \in Seq(Seq(Char)) /\ Len(m) = n
    <2>1. m \in [1..n -> Seq(Char)]
        BY <1>1, <1>2
    <2> HIDE DEF m
    <2> QED
        BY <1>1, <2>1, FunctionIsSeq
<1>4. t \in Seq(Char) /\ Len(t) = n + 1 /\ (\A i \in 1..n : t[i] = s[i]) /\ t[n + 1] = d /\ DOMAIN t = 1..(n + 1)
    <2>1. Append(s, d) \in Seq(Char) /\ Len(Append(s, d)) = Len(s) + 1
        BY AppendIs
    <2>2. (\A i \in 1..Len(s) : Append(s, d)[i] = s[i]) /\ Append(s, d)[Len(s) + 1] = d
        BY AppendIs
    <2> QED
        BY <1>1, <2>1, <2>2, LenProperties
<1>5. q = Append(m, cut(d))
    <2>1. /\ Append(m, cut(d)) \in Seq(Seq(Char)) /\ Len(Append(m, cut(d))) = n + 1
          /\ (\A i \in 1..n : Append(m, cut(d))[i] = m[i]) /\ Append(m, cut(d))[n + 1] = cut(d)
        <3>1. PICK x \in Seq(Char) : x = cut(d)
            BY <1>2
        <3> HIDE DEF m, cut
        <3>2. Append(m, x) \in Seq(Seq(Char)) /\ Len(Append(m, x)) = Len(m) + 1
            BY <1>3, AppendIs
        <3>3. (\A i \in 1..Len(m) : Append(m, x)[i] = m[i]) /\ Append(m, x)[Len(m) + 1] = x
            BY <1>3, AppendIs
        <3> QED
            BY <1>3, <3>1, <3>2, <3>3
    <2>2. \A i \in 1..(n + 1) : t[i] \in Char
        BY <1>4, ElementOfSeq
    <2>3. q \in Seq(Seq(Char)) /\ Len(q) = n + 1
        <3> HIDE DEF t, cut
        <3>1. q \in [1..(n + 1) -> Seq(Char)]
            BY <1>2, <1>4, <2>2
        <3> HIDE DEF q
        <3> QED
            BY <3>1, FunctionIsSeq
    <2>4. \A i \in 1..(n + 1) : q[i] = Append(m, cut(d))[i]
        <3> SUFFICES ASSUME NEW i \in 1..(n + 1) PROVE q[i] = Append(m, cut(d))[i]
            OBVIOUS
        <3>1. q[i] = cut(t[i])
            <4> HIDE DEF t, cut
            <4> QED
                BY <1>4
        <3>2. CASE i = n + 1
            <4> HIDE DEF q, m, cut, t
            <4> QED
                BY <1>4, <2>1, <3>1, <3>2
        <3>3. CASE i \in 1..n
            <4>1. m[i] = cut(s[i])
                <5> HIDE DEF cut
                <5> QED
                    BY <1>1, <3>3
            <4> HIDE DEF q, m, cut, t
            <4> QED
                BY <1>4, <2>1, <3>1, <3>3, <4>1
        <3>4. i = n + 1 \/ i \in 1..n
            BY <1>1
        <3> HIDE DEF q, m, cut, t
        <3> QED
            BY <3>2, <3>3, <3>4
    <2> HIDE DEF q, m, cut, t
    <2> QED
        BY <2>1, <2>3, <2>4, SeqEqual
<1>6. FlattenSeq(Append(m, cut(d))) = FlattenSeq(m) \o cut(d)
    <2>1. cut(d) \in Seq(Char)
        BY <1>2
    <2> HIDE DEF m, cut
    <2> QED
        BY <1>3, <2>1, FlattenAppend
<1> QED
    BY <1>5, <1>6 DEF SplitWhitespace

\* No text has no words, and no words are no text.
LEMMA NothingSplit == SplitWhitespace(<< >>) = << >> /\ Join(<< >>) = << >>
<1>1. DOMAIN << >> = {}
    BY EmptySeq
<1>2. \A f, g : DOMAIN << >> = {} => [i \in DOMAIN << >> |-> f[i]] = << >>
    BY <1>1
<1>3. SplitWhitespace(<< >>) = FlattenSeq(<< >>)
    <2>1. [i \in DOMAIN << >> |-> IF << >>[i] = Space THEN << >> ELSE << << >>[i]>>] = << >>
        BY <1>1
    <2> QED
        BY <2>1 DEF SplitWhitespace
<1>4. Join(<< >>) = FlattenSeq(<< >>)
    <2>1. [i \in DOMAIN << >> |-> IF i = 1 THEN << << >>[i]>> ELSE <<Space, << >>[i]>>] = << >>
        BY <1>1
    <2> QED
        BY <2>1 DEF Join
<1> QED
    BY <1>3, <1>4, FlattenEmpty

\* A phrase with one more word.
LEMMA JoinAppend ==
    ASSUME NEW s \in Seq(Words), NEW d \in Words
    PROVE  /\ Join(s) \in Seq(Char)
           /\ Join(Append(s, d)) = Join(s) \o Piece(Len(s) + 1, d)
<1> DEFINE m == [i \in DOMAIN s |-> Piece(i, s[i])]
           t == Append(s, d)
           q == [i \in DOMAIN t |-> Piece(i, t[i])]
<1>1. PICK n \in Nat : n = Len(s) /\ DOMAIN s = 1..n /\ s \in [1..n -> Words]
    BY LenProperties
<1>2. \A i \in Nat, c \in Words : Piece(i, c) \in Seq(Char)
    <2> SUFFICES ASSUME NEW i \in Nat, NEW c \in Words PROVE Piece(i, c) \in Seq(Char)
        OBVIOUS
    <2>1. c \in Char /\ Space \in Char
        BY CharsAreNats
    <2> HIDE DEF Piece
    <2>2. <<c>> \in Seq(Char) /\ <<Space, c>> \in Seq(Char)
        BY <2>1
    <2> QED
        BY <2>2 DEF Piece
<1>3. m \in Seq(Seq(Char)) /\ Len(m) = n
    <2>1. m \in [1..n -> Seq(Char)]
        BY <1>1, <1>2
    <2> HIDE DEF m
    <2> QED
        BY <1>1, <2>1, FunctionIsSeq
<1>4. t \in Seq(Words) /\ Len(t) = n + 1 /\ (\A i \in 1..n : t[i] = s[i]) /\ t[n + 1] = d /\ DOMAIN t = 1..(n + 1)
    <2>1. Append(s, d) \in Seq(Words) /\ Len(Append(s, d)) = Len(s) + 1
        BY AppendIs
    <2>2. (\A i \in 1..Len(s) : Append(s, d)[i] = s[i]) /\ Append(s, d)[Len(s) + 1] = d
        BY AppendIs
    <2> QED
        BY <1>1, <2>1, <2>2, LenProperties
<1>5. PICK x \in Seq(Char) : x = Piece(n + 1, d)
    BY <1>2
<1>6. q = Append(m, x)
    <2>1. /\ Append(m, x) \in Seq(Seq(Char)) /\ Len(Append(m, x)) = n + 1
          /\ (\A i \in 1..n : Append(m, x)[i] = m[i]) /\ Append(m, x)[n + 1] = x
        <3> HIDE DEF m
        <3>2. Append(m, x) \in Seq(Seq(Char)) /\ Len(Append(m, x)) = Len(m) + 1
            BY <1>3, AppendIs
        <3>3. (\A i \in 1..Len(m) : Append(m, x)[i] = m[i]) /\ Append(m, x)[Len(m) + 1] = x
            BY <1>3, AppendIs
        <3> QED
            BY <1>3, <3>2, <3>3
    <2>2. \A i \in 1..(n + 1) : i \in Nat /\ t[i] \in Words
        BY <1>4, ElementOfSeq
    <2>3. q \in Seq(Seq(Char)) /\ Len(q) = n + 1
        <3> HIDE DEF t
        <3>1. q \in [1..(n + 1) -> Seq(Char)]
            BY <1>2, <1>4, <2>2
        <3> HIDE DEF q
        <3> QED
            BY <3>1, FunctionIsSeq
    <2>4. \A i \in 1..(n + 1) : q[i] = Append(m, x)[i]
        <3> SUFFICES ASSUME NEW i \in 1..(n + 1) PROVE q[i] = Append(m, x)[i]
            OBVIOUS
        <3>1. q[i] = Piece(i, t[i])
            <4> HIDE DEF t
            <4> QED
                BY <1>4
        <3>2. CASE i = n + 1
            <4> HIDE DEF q, m, t
            <4> QED
                BY <1>4, <1>5, <2>1, <3>1, <3>2
        <3>3. CASE i \in 1..n
            <4>1. m[i] = Piece(i, s[i])
                BY <1>1, <3>3
            <4> HIDE DEF q, m, t
            <4> QED
                BY <1>4, <2>1, <3>1, <3>3, <4>1
        <3>4. i = n + 1 \/ i \in 1..n
            BY <1>1
        <3> HIDE DEF q, m, t
        <3> QED
            BY <3>2, <3>3, <3>4
    <2> HIDE DEF q, m, t
    <2> QED
        BY <2>1, <2>3, <2>4, SeqEqual
<1>7. FlattenSeq(Append(m, x)) = FlattenSeq(m) \o x /\ FlattenSeq(m) \in Seq(Char)
    <2> HIDE DEF m
    <2> QED
        BY <1>3, FlattenAppend, FlattenIn
<1>8. Join(s) = FlattenSeq(m) /\ Join(t) = FlattenSeq(q)
    BY DEF Join, Piece
<1> QED
    BY <1>1, <1>5, <1>6, <1>7, <1>8

\* What is split at spaces are words.
LEMMA SplitIn ==
    ASSUME NEW t \in Seq(Char)
    PROVE  SplitWhitespace(t) \in Seq(Words)
<1> DEFINE S == {s \in Seq(Char) : SplitWhitespace(s) \in Seq(Words)}
<1>1. << >> \in S
    BY NothingSplit, EmptySeq
<1>2. ASSUME NEW s \in Seq(Char), NEW d \in Char, s \in S PROVE Append(s, d) \in S
    <2>1. Append(s, d) \in Seq(Char)
        BY AppendIs
    <2>2. PICK p : p = (IF d = Space THEN << >> ELSE <<d>>)
        OBVIOUS
    <2>3. p \in Seq(Words)
        <3>1. d = Space \/ d \in Words
            BY CharsAreNats
        <3> QED
            BY <2>2, <3>1, EmptySeq
    <2>4. SplitWhitespace(Append(s, d)) = SplitWhitespace(s) \o p
        BY <2>2, SplitAppend
    <2>5. SplitWhitespace(s) \o p \in Seq(Words)
        BY <1>2, <2>3, ConcatIs
    <2> QED
        BY <2>1, <2>4, <2>5
<1> HIDE DEF S
<1>3. Seq(Char) \subseteq S
    BY <1>1, <1>2, SequenceInduction
<1> QED
    BY <1>3 DEF S

\* The words of a phrase are the words it was put together of.
LEMMA JoinSplit ==
    ASSUME NEW words \in Seq(Words)
    PROVE  Join(words) \in Seq(Char) /\ SplitWhitespace(Join(words)) = words
<1> DEFINE S == {s \in Seq(Words) : Join(s) \in Seq(Char) /\ SplitWhitespace(Join(s)) = s}
<1>1. << >> \in S
    BY NothingSplit, EmptySeq
<1>2. ASSUME NEW s \in Seq(Words), NEW d \in Words, s \in S PROVE Append(s, d) \in S
    <2>1. Append(s, d) \in Seq(Words) /\ d \in Char /\ Space \in Char /\ d # Space
        BY AppendIs, CharsAreNats
    <2>2. PICK j \in Seq(Char) : j = Join(s) /\ SplitWhitespace(j) = s
        BY <1>2
    <2>3. Join(Append(s, d)) = j \o Piece(Len(s) + 1, d)
        BY <2>2, JoinAppend
    <2>4. SplitWhitespace(Append(j, d)) = Append(s, d) /\ Append(j, d) \in Seq(Char)
        <3>1. SplitWhitespace(Append(j, d)) = s \o <<d>>
            BY <2>1, <2>2, SplitAppend
        <3> QED
            BY <2>1, <3>1, LastJoined, AppendIs
    <2>5. CASE Len(s) = 0
        <3>1. Piece(Len(s) + 1, d) = <<d>>
            BY <2>5 DEF Piece
        <3>2. j \o <<d>> = Append(j, d)
            BY <2>1, LastJoined
        <3> QED
            BY <2>1, <2>3, <2>4, <3>1, <3>2
    <2>6. CASE Len(s) # 0
        <3>1. Piece(Len(s) + 1, d) = <<Space, d>>
            <4>1. Len(s) + 1 # 1
                BY <2>6, LenProperties
            <4> QED
                BY <4>1 DEF Piece
        <3>2. PICK k \in Seq(Char) : k = Append(j, Space)
            BY <2>1, AppendIs
        <3>3. SplitWhitespace(k) = s
            <4>1. SplitWhitespace(k) = s \o << >>
                BY <2>1, <2>2, <3>2, SplitAppend
            <4> QED
                BY <4>1, ConcatEmptySeq
        <3>4. SplitWhitespace(Append(k, d)) = Append(s, d) /\ Append(k, d) \in Seq(Char)
            <4>1. SplitWhitespace(Append(k, d)) = s \o <<d>>
                BY <2>1, <3>3, SplitAppend
            <4> QED
                BY <2>1, <4>1, LastJoined, AppendIs
        <3>5. j \o <<Space, d>> = Append(k, d)
            <4>1. <<Space>> \in Seq(Char) /\ <<Space, d>> = Append(<<Space>>, d)
                BY <2>1
            <4>2. j \o Append(<<Space>>, d) = Append(j \o <<Space>>, d)
                BY <2>1, <4>1, ConcatAppend
            <4>3. j \o <<Space>> = k
                BY <2>1, <3>2, LastJoined
            <4> QED
                BY <4>1, <4>2, <4>3
        <3> QED
            BY <2>1, <2>3, <3>1, <3>4, <3>5
    <2> QED
        BY <2>5, <2>6
<1> HIDE DEF S
<1>3. Seq(Words) \subseteq S
    BY <1>1, <1>2, SequenceInduction
<1> QED
    BY <1>3 DEF S

\* Bytes, and the words of the list.
Octet == 0..(Power(2, BIP39ByteBits) - 1)
Listed == 0..(Power(2, BITS_PER_WORD) - 1)

\* The words of the list are words.
LEMMA ListedIs ==
    /\ Listed \subseteq Words /\ NotAWord \notin Listed /\ \A c \in Words : c # NotAWord => c \in Listed
    /\ Seq(Listed) \subseteq Seq(Words)
<1>1. PICK n \in Nat \ {0} : n = NotAWord /\ n = Power(2, BITS_PER_WORD)
    BY CharsAreNats DEF NotAWord
<1>2. Listed = 0..(n - 1) /\ Words = 0..n
    BY <1>1 DEF Listed, Words
<1>3. Listed \subseteq Words /\ NotAWord \notin Listed /\ \A c \in Words : c # NotAWord => c \in Listed
    BY <1>1, <1>2
<1>4. Seq(Listed) \subseteq Seq(Words)
    BY <1>3, SeqMonotonic
<1> QED
    BY <1>3, <1>4

\* u units of entropy are n bytes, and m words with their checksum of u bits.
Sized(u, n, m) ==
    /\ n = u * UnitBytes /\ n \div UnitBytes = u
    /\ m * BITS_PER_WORD = n * BIP39ByteBits + u
    /\ m = (u * (UnitBits + 1)) \div BITS_PER_WORD
    /\ (n * BIP39ByteBits + u) \div BITS_PER_WORD = m
    /\ (m * BITS_PER_WORD) \div (UnitBits + 1) = u
    /\ ((m * BITS_PER_WORD) * UnitBytes) \div (UnitBits + 1) = n
    /\ (m * BITS_PER_WORD + BIP39ByteBits - 1) \div BIP39ByteBits = n + 1

\* Widths are not zero.
LEMMA PhraseWidths ==
    /\ BIP39ByteBits \in Nat \ {0} /\ BITS_PER_WORD \in Nat \ {0} /\ UnitBytes \in Nat \ {0}
    /\ UnitBits \in Nat /\ UnitBits = BIP39ByteBits * UnitBytes
    /\ \A u \in Units : u \in 1..BIP39ByteBits
<1>1. BIP39ByteBits \in Nat \ {0} /\ BITS_PER_WORD \in Nat \ {0} /\ UnitBytes \in Nat \ {0}
    BY Bip39Assumption
<1>2. \A u \in Units : u \in 1..BIP39ByteBits
    BY <1>1, Bip39Assumption
<1> QED
    BY <1>1, <1>2 DEF UnitBits

\* Every legal length has its number of words, and the other way round: nothing is left over.
LEMMA UnitsSized ==
    ASSUME NEW u \in Units
    PROVE  \E n \in Nat, m \in Nat : Sized(u, n, m)
<1>1. PICK B \in Nat \ {0}, W \in Nat \ {0}, Y \in Nat \ {0}, U \in Nat :
            B = BIP39ByteBits /\ W = BITS_PER_WORD /\ Y = UnitBytes /\ U = UnitBits /\ U = B * Y
    BY PhraseWidths
<1>2. u \in 1..B /\ u \in Nat
    BY <1>1, PhraseWidths
<1>3. PICK q \in Nat : U + 1 = W * q
    <2>1. PICK a \in Nat, r \in 0..(W - 1) : a = (U + 1) \div W /\ r = (U + 1) % W /\ U + 1 = W * a + r
        <3>1. U + 1 \in Nat
            OBVIOUS
        <3> QED
            BY <3>1, Divided
    <2>2. r = 0
        BY <1>1, <2>1, Bip39Assumption
    <2> QED
        BY <2>1, <2>2
<1>4. PICK n \in Nat, m \in Nat, b \in Nat, c \in Nat : n = u * Y /\ m = u * q /\ b = n * B /\ c = m * W
    BY <1>2
<1>5. c = u * (U + 1) /\ c = b + u
    <2>1. m * W = u * (W * q)
        <3>1. (u * q) * W = u * (W * q)
            BY <1>2
        <3> QED
            BY <1>4, <3>1
    <2>2. u * (B * Y) = (u * Y) * B
        BY <1>2
    <2>3. u * (U + 1) = u * U + u
        BY <1>2
    <2> QED
        BY <1>1, <1>2, <1>3, <1>4, <2>1, <2>2, <2>3
<1>6. n \div Y = u
    <2>1. (u * Y + 0) \div Y = u
        BY <1>2, QuotientIs
    <2> QED
        BY <1>2, <1>4, <2>1
<1>7. c \div W = m
    <2>1. (m * W + 0) \div W = m
        BY QuotientIs
    <2> QED
        BY <1>4, <2>1
<1>8. c \div (U + 1) = u
    <2>1. U + 1 \in Nat \ {0}
        OBVIOUS
    <2>2. (u * (U + 1) + 0) \div (U + 1) = u
        BY <1>2, <2>1, QuotientIs
    <2>3. u * (U + 1) + 0 = c
        BY <1>2, <1>5
    <2> QED
        BY <2>2, <2>3
<1>9. (c * Y) \div (U + 1) = n
    <2>1. U + 1 \in Nat \ {0}
        OBVIOUS
    <2>2. (n * (U + 1) + 0) \div (U + 1) = n
        BY <2>1, QuotientIs
    <2>3. c * Y = n * (U + 1) + 0
        <3>1. (u * (U + 1)) * Y = (u * Y) * (U + 1)
            BY <1>2
        <3>2. n * (U + 1) \in Nat
            OBVIOUS
        <3> QED
            BY <1>4, <1>5, <3>1, <3>2
    <2> QED
        BY <2>2, <2>3
<1>10. (c + B - 1) \div B = n + 1
    <2>1. u - 1 \in 0..(B - 1) /\ n + 1 \in Nat
        BY <1>2
    <2>2. ((n + 1) * B + (u - 1)) \div B = n + 1
        BY <2>1, QuotientIs
    <2>3. (n + 1) * B = b + B
        BY <1>4
    <2>4. c + B - 1 = (n + 1) * B + (u - 1)
        BY <1>2, <1>5, <2>3
    <2> QED
        BY <2>2, <2>4
<1>11. m = (u * (U + 1)) \div W
    BY <1>5, <1>7
<1>12. Sized(u, n, m)
    BY <1>1, <1>4, <1>5, <1>6, <1>7, <1>8, <1>9, <1>10, <1>11 DEF Sized
<1> QED
    BY <1>12

\* Values that begin alike, and their bits.
Alike(s, t, n)       == \A k \in 1..n : s[k] = t[k]
BitsAlike(s, t, n, w) == \A i \in 0..(n * w - 1) : BitOf(s, w, i) = BitOf(t, w, i)

\* Values that begin alike have the same bits there.
LEMMA SameBitsBefore ==
    ASSUME NEW w \in Nat \ {0}, NEW n \in Nat, NEW s, NEW t, Alike(s, t, n)
    PROVE  BitsAlike(s, t, n, w)
<1> USE DEF Alike, BitsAlike
<1> SUFFICES ASSUME NEW i \in 0..(n * w - 1) PROVE BitOf(s, w, i) = BitOf(t, w, i)
    OBVIOUS
<1>1. PICK k \in 1..n, j \in 1..w : i = (k - 1) * w + j - 1
    BY BitPlace
<1>2. k \in Nat \ {0}
    OBVIOUS
<1>3. /\ BitOf(s, w, (k - 1) * w + j - 1) = (s[k] \div Power(2, w - j)) % 2
      /\ BitOf(t, w, (k - 1) * w + j - 1) = (t[k] \div Power(2, w - j)) % 2
    BY <1>2, BitIs
<1> QED
    BY <1>1, <1>3

\* The bits of the entropy and, behind them, those of its checksum.
BufferBits(entropy, m) ==
    [i \in 0..(m * BITS_PER_WORD - 1) |-> BitOf(Append(entropy, Digest(entropy)), BIP39ByteBits, i)]

\* Bit j of the checksum is behind the entropy.
LEMMA BufferIs ==
    ASSUME NEW u \in Units, NEW n \in Nat, NEW m \in Nat, Sized(u, n, m),
           NEW entropy \in Seq(Octet), Len(entropy) = n, Digest(entropy) \in Octet
    PROVE  /\ BufferBits(entropy, m) \in [0..(m * BITS_PER_WORD - 1) -> 0..1]
           /\ \A i \in 0..(n * BIP39ByteBits - 1) : BufferBits(entropy, m)[i] = BitOf(entropy, BIP39ByteBits, i)
           /\ \A j \in 1..u : BufferBits(entropy, m)[n * BIP39ByteBits + j - 1]
                                = TopBits(Digest(entropy), BIP39ByteBits, u)[j]
<1>1. PICK B \in Nat \ {0} : B = BIP39ByteBits
    BY PhraseWidths
<1>2. u \in 1..B
    BY <1>1, PhraseWidths
<1>3. PICK b \in Nat, c \in Nat : b = n * B /\ c = m * BITS_PER_WORD /\ c = b + u /\ (n + 1) * B = b + B
    <2>1. m * BITS_PER_WORD = n * B + u
        BY <1>1 DEF Sized
    <2>2. n * B \in Nat /\ (n + 1) * B = n * B + B
        OBVIOUS
    <2> QED
        BY <1>2, <2>1, <2>2
<1>4. PICK d \in Octet : d = Digest(entropy)
    OBVIOUS
<1>5. PICK buf \in Seq(Octet) : /\ buf = Append(entropy, d) /\ Len(buf) = n + 1
                                /\ (\A k \in 1..n : buf[k] = entropy[k]) /\ buf[n + 1] = d
    <2>1. Append(entropy, d) \in Seq(Octet) /\ Len(Append(entropy, d)) = Len(entropy) + 1
        BY AppendIs
    <2>2. (\A k \in 1..Len(entropy) : Append(entropy, d)[k] = entropy[k]) /\ Append(entropy, d)[Len(entropy) + 1] = d
        BY AppendIs
    <2> QED
        BY <2>1, <2>2
<1>6. PICK f : f = BufferBits(entropy, m)
    OBVIOUS
<1>7. \A i \in 0..(c - 1) : f[i] = BitOf(buf, B, i)
    BY <1>1, <1>3, <1>4, <1>5, <1>6 DEF BufferBits
<1>8. f \in [0..(c - 1) -> 0..1]
    <2>1. PICK N \in Nat : N = n + 1
        OBVIOUS
    <2>2. buf \in Seq(0..(Power(2, B) - 1)) /\ Len(buf) = N
        BY <1>1, <1>5, <2>1 DEF Octet
    <2>3. AllBits(buf, N, B) \in [0..(N * B - 1) -> 0..1]
        BY <2>2, SpelledBack
    <2>4. \A i \in 0..(N * B - 1) : BitOf(buf, B, i) \in 0..1
        BY <2>3 DEF AllBits
    <2>5. \A i \in 0..(c - 1) : i \in 0..(N * B - 1)
        BY <1>2, <1>3, <2>1
    <2>6. \A i \in 0..(c - 1) : BitOf(buf, B, i) \in 0..1
        BY <2>4, <2>5
    <2>7. f = [i \in 0..(c - 1) |-> BitOf(buf, B, i)]
        BY <1>1, <1>3, <1>4, <1>5, <1>6 DEF BufferBits
    <2> QED
        BY <2>6, <2>7
<1>9. \A i \in 0..(b - 1) : f[i] = BitOf(entropy, B, i)
    <2>1. BitsAlike(buf, entropy, n, B)
        <3>1. Alike(buf, entropy, n)
            BY <1>5 DEF Alike
        <3> QED
            BY <3>1, SameBitsBefore
    <2>2. \A i \in 0..(b - 1) : i \in 0..(c - 1)
        BY <1>2, <1>3
    <2> QED
        BY <1>3, <1>7, <2>1, <2>2 DEF BitsAlike
<1>10. ASSUME NEW j \in 1..u PROVE f[b + j - 1] = TopBits(d, B, u)[j]
    <2>1. PICK k \in Nat \ {0} : k = n + 1 /\ k - 1 = n
        OBVIOUS
    <2>2. j \in 1..B
        BY <1>2
    <2>3. BitOf(buf, B, (k - 1) * B + j - 1) = (buf[k] \div Power(2, B - j)) % 2
        BY <2>2, BitIs
    <2>4. (k - 1) * B + j - 1 = b + j - 1 /\ b + j - 1 \in 0..(c - 1)
        BY <1>2, <1>3, <2>1
    <2>5. BitOf(buf, B, b + j - 1) = (d \div Power(2, B - j)) % 2
        BY <1>5, <2>1, <2>3, <2>4
    <2> QED
        BY <1>7, <2>4, <2>5 DEF TopBits
<1> QED
    BY <1>1, <1>3, <1>4, <1>6, <1>8, <1>9, <1>10

\* What entropy is written as: words that spell its bits and its checksum's.
LEMMA EntropyWritten ==
    ASSUME NEW u \in Units, NEW n \in Nat, NEW m \in Nat, Sized(u, n, m),
           NEW entropy \in Seq(Octet), Len(entropy) = n, Digest(entropy) \in Octet
    PROVE  EntropyToPhrase(entropy) = {Join(SpelledOf(BufferBits(entropy, m), m, BITS_PER_WORD))}
<1>1. PICK buf : buf = Append(entropy, Digest(entropy))
    OBVIOUS
<1>2. PICK f : f = BufferBits(entropy, m)
    OBVIOUS
<1>3. n \in ENTROPY_LENGTHS
    BY DEF ENTROPY_LENGTHS, Sized
<1>4. (n * BIP39ByteBits + n \div UnitBytes) \div BITS_PER_WORD = m
    BY DEF Sized
<1>5. ASSUME NEW k \in 1..m PROVE Bits(buf, (k - 1) * BITS_PER_WORD, BITS_PER_WORD)
                                    = Number([j \in 1..BITS_PER_WORD |-> f[(k - 1) * BITS_PER_WORD + j - 1]], 2)
    <2>1. ASSUME NEW j \in 1..BITS_PER_WORD
          PROVE  BitAt(buf, (k - 1) * BITS_PER_WORD + j - 1) = f[(k - 1) * BITS_PER_WORD + j - 1]
        <3>1. (k - 1) * BITS_PER_WORD + j - 1 \in 0..(m * BITS_PER_WORD - 1)
            BY PhraseWidths, PlaceIn
        <3> QED
            BY <1>1, <1>2, <3>1 DEF BufferBits, BitAt
    <2> QED
        BY <2>1 DEF Bits
<1>6. [k \in 1..m |-> Bits(buf, (k - 1) * BITS_PER_WORD, BITS_PER_WORD)] = SpelledOf(f, m, BITS_PER_WORD)
    BY <1>5 DEF SpelledOf
<1>7. EntropyToPhrase(entropy) = {Join([k \in 1..m |-> Bits(buf, (k - 1) * BITS_PER_WORD, BITS_PER_WORD)])}
    BY <1>1, <1>3, <1>4 DEF EntropyToPhrase
<1> QED
    BY <1>2, <1>6, <1>7

\* The bits of m words, filled up with zeros to n + 1 bytes.
FilledBits(phrase, n, m) ==
    [i \in 0..((n + 1) * BIP39ByteBits - 1) |->
        IF i >= m * BITS_PER_WORD THEN 0 ELSE BitOf(phrase, BITS_PER_WORD, i)]

\* The bytes that words spell.
LEMMA WordBitsAre ==
    ASSUME NEW u \in Units, NEW n \in Nat, NEW m \in Nat, Sized(u, n, m),
           NEW phrase \in Seq(Listed), Len(phrase) = m
    PROVE  /\ WordBits(phrase) \in Seq(Octet) /\ Len(WordBits(phrase)) = n + 1
           /\ \A i \in 0..(m * BITS_PER_WORD - 1) :
                    BitOf(WordBits(phrase), BIP39ByteBits, i) = BitOf(phrase, BITS_PER_WORD, i)
<1>1. PICK B \in Nat \ {0}, W \in Nat \ {0} : B = BIP39ByteBits /\ W = BITS_PER_WORD
    BY PhraseWidths
<1>2. u \in 1..B
    BY <1>1, PhraseWidths
<1>3. PICK N \in Nat : N = n + 1
    OBVIOUS
<1>4. PICK c \in Nat : c = m * W /\ c <= N * B /\ (c + B - 1) \div B = N
    <2>1. m * W = n * B + u
        BY <1>1 DEF Sized
    <2>2. n * B \in Nat /\ N * B = n * B + B
        BY <1>3
    <2>3. (m * W + B - 1) \div B = N
        BY <1>1, <1>3 DEF Sized
    <2> QED
        BY <1>2, <2>1, <2>2, <2>3
<1>5. PICK g : g = FilledBits(phrase, n, m)
    OBVIOUS
<1>6. \A i \in 0..(N * B - 1) : g[i] = IF i >= c THEN 0 ELSE BitOf(phrase, W, i)
    BY <1>1, <1>3, <1>4, <1>5 DEF FilledBits
<1>7. g \in [0..(N * B - 1) -> 0..1]
    <2>1. phrase \in Seq(0..(Power(2, W) - 1))
        BY <1>1 DEF Listed
    <2>2. AllBits(phrase, m, W) \in [0..(m * W - 1) -> 0..1]
        BY <2>1, SpelledBack
    <2>3. \A i \in 0..(m * W - 1) : BitOf(phrase, W, i) \in 0..1
        BY <2>2 DEF AllBits
    <2>4. ASSUME NEW i \in 0..(N * B - 1) PROVE (IF i >= c THEN 0 ELSE BitOf(phrase, W, i)) \in 0..1
        <3>1. CASE i >= c
            BY <3>1
        <3>2. CASE ~(i >= c)
            <4>1. i \in 0..(m * W - 1)
                BY <1>4, <3>2
            <4> QED
                BY <2>3, <3>2, <4>1
        <3> QED
            BY <3>1, <3>2
    <2>5. g = [i \in 0..(N * B - 1) |-> IF i >= c THEN 0 ELSE BitOf(phrase, W, i)]
        BY <1>1, <1>3, <1>4, <1>5 DEF FilledBits
    <2> QED
        BY <2>4, <2>5
<1>8. WordBits(phrase) = SpelledOf(g, N, B)
    <2>1. ASSUME NEW k \in 1..N, NEW j \in 1..B
          PROVE  g[(k - 1) * B + j - 1]
                    = IF (k - 1) * B + j - 1 >= c THEN 0 ELSE BitOf(phrase, W, (k - 1) * B + j - 1)
        <3>1. (k - 1) * B + j - 1 \in 0..(N * B - 1)
            BY PlaceIn
        <3> QED
            BY <1>6, <3>1
    <2>2. WordBits(phrase) =
            [k \in 1..N |-> Number([j \in 1..B |-> IF (k - 1) * B + j - 1 >= c THEN 0
                                                   ELSE BitOf(phrase, W, (k - 1) * B + j - 1)], 2)]
        BY <1>1, <1>4 DEF WordBits
    <2>3. \A k \in 1..N : [j \in 1..B |-> IF (k - 1) * B + j - 1 >= c THEN 0
                                         ELSE BitOf(phrase, W, (k - 1) * B + j - 1)]
                           = [j \in 1..B |-> g[(k - 1) * B + j - 1]]
        BY <2>1
    <2> QED
        BY <2>2, <2>3 DEF SpelledOf
<1>9. PICK wb : wb = WordBits(phrase)
    OBVIOUS
<1>10. wb \in Seq(0..(Power(2, B) - 1)) /\ Len(wb) = N /\ AllBits(wb, N, B) = g
    BY <1>7, <1>8, <1>9, SpelledHave
<1>11. ASSUME NEW i \in 0..(c - 1) PROVE BitOf(wb, B, i) = BitOf(phrase, W, i)
    <2>1. i \in 0..(N * B - 1) /\ ~(i >= c)
        BY <1>4
    <2>2. BitOf(wb, B, i) = g[i]
        BY <1>10, <2>1 DEF AllBits
    <2> QED
        BY <1>6, <2>1, <2>2
<1> QED
    BY <1>1, <1>3, <1>4, <1>9, <1>10, <1>11 DEF Octet

\* The checksum that words end in.
Ending(phrase, n, u) == [j \in 1..u |-> BitOf(phrase, BITS_PER_WORD, n * BIP39ByteBits + j - 1)]

\* What is read of words: the bytes of their bits but the last, if those are the checksum.
LEMMA WordsRead ==
    ASSUME NEW u \in Units, NEW n \in Nat, NEW m \in Nat, Sized(u, n, m), NEW t,
           NEW phrase \in Seq(Listed), phrase = SplitWhitespace(t), Len(phrase) = m
    PROVE  \E entropy \in Seq(Octet) :
               /\ Len(entropy) = n
               /\ \A i \in 0..(n * BIP39ByteBits - 1) :
                        BitOf(entropy, BIP39ByteBits, i) = BitOf(phrase, BITS_PER_WORD, i)
               /\ PhraseToEntropy(t) =
                    IF Number(Ending(phrase, n, u), 2) = Digest(entropy) \div Power(2, BIP39ByteBits - u)
                    THEN {entropy} ELSE {}
<1>1. PICK B \in Nat \ {0}, W \in Nat \ {0} : B = BIP39ByteBits /\ W = BITS_PER_WORD
    BY PhraseWidths
<1>2. u \in 1..B
    BY <1>1, PhraseWidths
<1>3. PICK b \in Nat, c \in Nat : b = n * B /\ c = m * W /\ c = b + u
    <2>1. m * W = n * B + u
        BY <1>1 DEF Sized
    <2> QED
        BY <1>2, <2>1
<1>4. PICK wb \in Seq(Octet) : /\ wb = WordBits(phrase) /\ Len(wb) = n + 1
                               /\ \A i \in 0..(c - 1) : BitOf(wb, B, i) = BitOf(phrase, W, i)
    BY <1>1, <1>3, WordBitsAre
<1>5. PICK entropy \in Seq(Octet) : /\ entropy = SubSeq(wb, 1, n) /\ Len(entropy) = n
                                    /\ \A k \in 1..n : entropy[k] = wb[k]
    <2>1. \A k \in 1..n : k \in 1..Len(wb)
        BY <1>4
    <2>2. \A k \in 1..n : wb[k] \in Octet
        BY <1>4, <2>1, ElementOfSeq
    <2>3. SubSeq(wb, 1, n) = [k \in 1..n |-> wb[k]]
        <3>1. SubSeq(wb, 1, n) = [k \in 1..((1 + n) - 1) |-> wb[(k + 1) - 1]]
            BY DEF SubSeq
        <3>2. (1 + n) - 1 = n /\ \A k \in 1..n : (k + 1) - 1 = k
            OBVIOUS
        <3> QED
            BY <3>1, <3>2
    <2>4. SubSeq(wb, 1, n) \in [1..n -> Octet]
        BY <2>2, <2>3
    <2>5. SubSeq(wb, 1, n) \in Seq(Octet) /\ Len(SubSeq(wb, 1, n)) = n
        <3> HIDE DEF Octet
        <3> QED
            BY <2>4, FunctionIsSeq
    <2> QED
        BY <2>3, <2>5
<1>6. \A i \in 0..(b - 1) : BitOf(entropy, B, i) = BitOf(phrase, W, i)
    <2>1. BitsAlike(entropy, wb, n, B)
        <3>1. Alike(entropy, wb, n)
            BY <1>5 DEF Alike
        <3> QED
            BY <3>1, SameBitsBefore
    <2>2. \A i \in 0..(b - 1) : i \in 0..(c - 1)
        BY <1>2, <1>3
    <2> QED
        BY <1>3, <1>4, <2>1, <2>2 DEF BitsAlike
<1>7. Bits(wb, b, u) = Number(Ending(phrase, n, u), 2)
    <2>1. ASSUME NEW j \in 1..u PROVE BitAt(wb, b + j - 1) = BitOf(phrase, W, b + j - 1)
        <3>1. b + j - 1 \in 0..(c - 1)
            <4>1. c = b + u /\ u \in Nat
                BY <1>2, <1>3
            <4> QED
                BY <4>1
        <3> QED
            BY <1>1, <1>4, <3>1 DEF BitAt
    <2>2. [j \in 1..u |-> BitAt(wb, b + j - 1)] = [j \in 1..u |-> BitOf(phrase, W, b + j - 1)]
        BY <2>1
    <2>3. Ending(phrase, n, u) = [j \in 1..u |-> BitOf(phrase, W, b + j - 1)]
        BY <1>1, <1>3 DEF Ending
    <2> QED
        BY <2>2, <2>3 DEF Bits
<1>8. m \in WORD_COUNTS
    BY DEF WORD_COUNTS, Sized
<1>9. ~ \E i \in DOMAIN phrase : phrase[i] = NotAWord
    <2>1. \A i \in 1..m : phrase[i] \in Listed
        BY ElementOfSeq
    <2>2. DOMAIN phrase = 1..m
        BY LenProperties
    <2> QED
        BY <2>1, <2>2, ListedIs
<1>10. c \div (UnitBits + 1) = u /\ (c * UnitBytes) \div (UnitBits + 1) = n
    BY <1>1, <1>3 DEF Sized
<1>11. PhraseToEntropy(t) =
            IF Bits(wb, Len(entropy) * B, u) = Digest(entropy) \div Power(2, B - u) THEN {entropy} ELSE {}
    BY <1>1, <1>3, <1>4, <1>5, <1>8, <1>9, <1>10 DEF PhraseToEntropy
<1>12. PhraseToEntropy(t) =
            IF Number(Ending(phrase, n, u), 2) = Digest(entropy) \div Power(2, B - u) THEN {entropy} ELSE {}
    BY <1>3, <1>5, <1>7, <1>11
<1> QED
    BY <1>1, <1>3, <1>5, <1>6, <1>12

\* Entropy written as a phrase is read back as it was, whatever the digest: of every legal
\* length, though no byte but the first ends where a word does (entropy_to_phrase,
\* phrase_to_entropy).
THEOREM PhraseReadsBack ==
    ASSUME NEW entropy \in Seq(Octet), Digest(entropy) \in Octet, NEW t \in EntropyToPhrase(entropy)
    PROVE  t \in Seq(Char) /\ PhraseToEntropy(t) = {entropy}
<1>1. Len(entropy) \in ENTROPY_LENGTHS
    BY DEF EntropyToPhrase
<1>2. PICK u \in Units : Len(entropy) = u * UnitBytes
    BY <1>1 DEF ENTROPY_LENGTHS
<1>3. PICK n \in Nat, m \in Nat : Sized(u, n, m)
    BY UnitsSized
<1>4. Len(entropy) = n
    BY <1>2, <1>3 DEF Sized
<1>5. PICK B \in Nat \ {0}, W \in Nat \ {0} : B = BIP39ByteBits /\ W = BITS_PER_WORD
    BY PhraseWidths
<1>6. u \in 1..B
    BY <1>5, PhraseWidths
<1>7. PICK b \in Nat, c \in Nat : b = n * B /\ c = m * W /\ c = b + u
    <2>1. m * W = n * B + u
        BY <1>3, <1>5 DEF Sized
    <2> QED
        BY <1>6, <2>1
<1>8. PICK f \in [0..(c - 1) -> 0..1] :
            /\ f = BufferBits(entropy, m)
            /\ \A i \in 0..(b - 1) : f[i] = BitOf(entropy, B, i)
            /\ \A j \in 1..u : f[b + j - 1] = TopBits(Digest(entropy), B, u)[j]
    BY <1>3, <1>4, <1>5, <1>7, BufferIs
<1>9. PICK phrase \in Seq(Listed) : /\ phrase = SpelledOf(f, m, W) /\ Len(phrase) = m
                                    /\ \A i \in 0..(c - 1) : BitOf(phrase, W, i) = f[i]
    <2>1. f \in [0..(m * W - 1) -> 0..1]
        BY <1>7, <1>8
    <2>2. /\ SpelledOf(f, m, W) \in Seq(0..(Power(2, W) - 1)) /\ Len(SpelledOf(f, m, W)) = m
          /\ AllBits(SpelledOf(f, m, W), m, W) = f
        BY <2>1, SpelledHave
    <2>3. \A i \in 0..(c - 1) : BitOf(SpelledOf(f, m, W), W, i) = AllBits(SpelledOf(f, m, W), m, W)[i]
        BY <1>7 DEF AllBits
    <2> QED
        BY <1>5, <2>2, <2>3 DEF Listed
<1>10. t = Join(phrase)
    BY <1>3, <1>4, <1>5, <1>8, <1>9, EntropyWritten
<1>11. t \in Seq(Char) /\ phrase = SplitWhitespace(t)
    BY <1>10, ListedIs, JoinSplit
<1>12. PICK e \in Seq(Octet) :
            /\ Len(e) = n
            /\ \A i \in 0..(b - 1) : BitOf(e, B, i) = BitOf(phrase, W, i)
            /\ PhraseToEntropy(t) = IF Number(Ending(phrase, n, u), 2) = Digest(e) \div Power(2, B - u)
                                    THEN {e} ELSE {}
    BY <1>3, <1>5, <1>7, <1>9, <1>11, WordsRead
<1>13. e = entropy
    <2>1. \A i \in 0..(n * B - 1) : BitOf(e, B, i) = BitOf(entropy, B, i)
        <3>1. \A i \in 0..(b - 1) : i \in 0..(c - 1)
            BY <1>6, <1>7
        <3> QED
            BY <1>7, <1>8, <1>9, <1>12, <3>1
    <2>2. AllBits(e, n, B) = AllBits(entropy, n, B)
        BY <2>1 DEF AllBits
    <2>3. SpelledOf(AllBits(e, n, B), n, B) = e
        BY <1>5, <1>12, SpelledBack DEF Octet
    <2>4. SpelledOf(AllBits(entropy, n, B), n, B) = entropy
        BY <1>4, <1>5, SpelledBack DEF Octet
    <2> QED
        BY <2>2, <2>3, <2>4
<1>14. Number(Ending(phrase, n, u), 2) = Digest(entropy) \div Power(2, B - u)
    <2>1. ASSUME NEW j \in 1..u PROVE Ending(phrase, n, u)[j] = TopBits(Digest(entropy), B, u)[j]
        <3>1. b + j - 1 \in 0..(c - 1)
            <4>1. c = b + u /\ u \in Nat
                BY <1>6, <1>7
            <4> QED
                BY <4>1
        <3>2. Ending(phrase, n, u)[j] = BitOf(phrase, W, b + j - 1)
            BY <1>5, <1>7 DEF Ending
        <3> QED
            BY <1>8, <1>9, <3>1, <3>2
    <2>2. Ending(phrase, n, u) = TopBits(Digest(entropy), B, u)
        BY <2>1 DEF Ending, TopBits
    <2>3. Digest(entropy) \in 0..(Power(2, B) - 1) /\ u \in 0..B
        BY <1>5, <1>6 DEF Octet
    <2>4. Number(TopBits(Digest(entropy), B, u), 2) = Digest(entropy) \div Power(2, B - u)
        BY <2>3, TopBitsSpell
    <2> QED
        BY <2>2, <2>4
<1> QED
    BY <1>11, <1>12, <1>13, <1>14

\* A phrase that is read is the one that is written for what was read of it, with one space
\* between its words: no two phrases restore one wallet, and the seed, which is hashed from
\* the words, is that of the entropy.
THEOREM PhraseOneSpelling ==
    ASSUME NEW t \in Seq(Char), NEW entropy \in PhraseToEntropy(t), Digest(entropy) \in Octet
    PROVE  entropy \in Seq(Octet) /\ EntropyToPhrase(entropy) = {Join(SplitWhitespace(t))}
<1>1. PICK phrase \in Seq(Words) : phrase = SplitWhitespace(t)
    BY SplitIn
<1>2. Len(phrase) \in WORD_COUNTS /\ ~ \E i \in DOMAIN phrase : phrase[i] = NotAWord
    BY <1>1 DEF PhraseToEntropy
<1>3. phrase \in Seq(Listed)
    <2>1. DOMAIN phrase = 1..Len(phrase)
        BY LenProperties
    <2>2. \A i \in 1..Len(phrase) : phrase[i] \in Words /\ phrase[i] # NotAWord
        BY <1>2, <2>1, ElementOfSeq
    <2>3. \A i \in 1..Len(phrase) : phrase[i] \in Listed
        BY <2>2, ListedIs
    <2> QED
        BY <2>3, Narrowed
<1>4. PICK u \in Units : Len(phrase) = (u * (UnitBits + 1)) \div BITS_PER_WORD
    BY <1>2 DEF WORD_COUNTS
<1>5. PICK n \in Nat, m \in Nat : Sized(u, n, m)
    BY UnitsSized
<1>6. Len(phrase) = m
    BY <1>4, <1>5 DEF Sized
<1>7. PICK B \in Nat \ {0}, W \in Nat \ {0} : B = BIP39ByteBits /\ W = BITS_PER_WORD
    BY PhraseWidths
<1>8. u \in 1..B
    BY <1>7, PhraseWidths
<1>9. PICK b \in Nat, c \in Nat : b = n * B /\ c = m * W /\ c = b + u
    <2>1. m * W = n * B + u
        BY <1>5, <1>7 DEF Sized
    <2> QED
        BY <1>8, <2>1
<1>10. PICK e \in Seq(Octet) :
            /\ Len(e) = n
            /\ \A i \in 0..(b - 1) : BitOf(e, B, i) = BitOf(phrase, W, i)
            /\ PhraseToEntropy(t) = IF Number(Ending(phrase, n, u), 2) = Digest(e) \div Power(2, B - u)
                                    THEN {e} ELSE {}
    BY <1>1, <1>3, <1>5, <1>6, <1>7, <1>9, WordsRead
<1>11. e = entropy /\ Number(Ending(phrase, n, u), 2) = Digest(entropy) \div Power(2, B - u)
    BY <1>10
<1>12. PICK f \in [0..(c - 1) -> 0..1] :
            /\ f = BufferBits(entropy, m)
            /\ \A i \in 0..(b - 1) : f[i] = BitOf(entropy, B, i)
            /\ \A j \in 1..u : f[b + j - 1] = TopBits(Digest(entropy), B, u)[j]
    BY <1>5, <1>7, <1>9, <1>10, <1>11, BufferIs
<1>13. PICK g \in [0..(c - 1) -> 0..1] : g = AllBits(phrase, m, W) /\ SpelledOf(g, m, W) = phrase
    BY <1>3, <1>6, <1>7, <1>9, SpelledBack DEF Listed
<1>14. \A j \in 1..u : TopBits(Digest(entropy), B, u)[j] = Ending(phrase, n, u)[j]
    <2>1. Digest(entropy) \in 0..(Power(2, B) - 1) /\ u \in 0..B
        BY <1>7, <1>8 DEF Octet
    <2>2. PICK x \in Seq(0..1) : /\ x = TopBits(Digest(entropy), B, u) /\ Len(x) = u
                                 /\ Number(x, 2) = Digest(entropy) \div Power(2, B - u)
        BY <2>1, TopBitsSpell
    <2>3. \A j \in 1..u : BitOf(phrase, W, b + j - 1) \in 0..1
        <3> SUFFICES ASSUME NEW j \in 1..u PROVE BitOf(phrase, W, b + j - 1) \in 0..1
            OBVIOUS
        <3>1. b + j - 1 \in 0..(c - 1)
            <4>1. c = b + u /\ u \in Nat
                BY <1>8, <1>9
            <4> QED
                BY <4>1
        <3>2. g[b + j - 1] = BitOf(phrase, W, b + j - 1)
            BY <1>9, <1>13, <3>1 DEF AllBits
        <3> QED
            BY <1>13, <3>1, <3>2
    <2>4. PICK y \in Seq(0..1) : y = Ending(phrase, n, u) /\ Len(y) = u
        <3>1. Ending(phrase, n, u) = [j \in 1..u |-> BitOf(phrase, W, b + j - 1)]
            BY <1>7, <1>9 DEF Ending
        <3>2. Ending(phrase, n, u) \in [1..u -> 0..1]
            BY <2>3, <3>1
        <3>3. u \in Nat
            BY <1>8
        <3> QED
            BY <3>2, <3>3, FunctionIsSeq
    <2>5. x = y
        <3>1. PICK r \in Nat \ {0, 1} : r = 2 /\ 0..(r - 1) = 0..1
            OBVIOUS
        <3>2. x \in Seq(0..(r - 1)) /\ y \in Seq(0..(r - 1)) /\ Len(x) = Len(y) /\ Number(x, r) = Number(y, r)
            BY <1>11, <2>2, <2>4, <3>1
        <3> QED
            BY <3>2, SameDigits
    <2> QED
        BY <2>2, <2>4, <2>5
<1>15. f = g
    <2>1. ASSUME NEW i \in 0..(c - 1) PROVE f[i] = g[i]
        <3>1. g[i] = BitOf(phrase, W, i)
            BY <1>9, <1>13 DEF AllBits
        <3>2. CASE i < b
            <4>1. i \in 0..(b - 1)
                BY <3>2
            <4> QED
                BY <1>10, <1>11, <1>12, <3>1, <4>1
        <3>3. CASE ~(i < b)
            <4>1. PICK j \in 1..u : i = b + j - 1
                <5>1. i - b + 1 \in 1..u /\ i = b + (i - b + 1) - 1
                    BY <1>8, <1>9, <3>3
                <5> QED
                    BY <5>1
            <4>2. f[i] = Ending(phrase, n, u)[j]
                BY <1>12, <1>14, <4>1
            <4>3. Ending(phrase, n, u)[j] = BitOf(phrase, W, i)
                BY <1>7, <1>9, <4>1 DEF Ending
            <4> QED
                BY <3>1, <4>2, <4>3
        <3> QED
            BY <3>2, <3>3
    <2> QED
        BY <1>12, <1>13, <2>1
<1>16. EntropyToPhrase(entropy) = {Join(SpelledOf(f, m, W))}
    BY <1>5, <1>7, <1>10, <1>11, <1>12, EntropyWritten
<1> QED
    BY <1>1, <1>10, <1>11, <1>13, <1>15, <1>16
=============================================================================
