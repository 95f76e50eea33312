------------------------------- MODULE Radix --------------------------------
(***************************************************************************)
(* Numbers and their digits in any radix, most significant first: the      *)
(* big-number arithmetic of the base58 codecs, the bits of a phrase.       *)
(***************************************************************************)
EXTENDS Naturals, Sequences

LOCAL INSTANCE FiniteSetsExt

Power(b, n) ==
    LET P[k \in 0..n] == IF k = 0 THEN 1 ELSE b * P[k - 1]
    IN  P[n]

\* The number whose digits are s: each digit enters the number so far from the right.
Number(s, radix) ==
    LET N[k \in 0..Len(s)] == IF k = 0 THEN 0 ELSE N[k - 1] * radix + s[k]
    IN  N[Len(s)]

\* Its digits, without leading zeros.
Digits(n, radix) ==
    LET D[m \in 0..n] == IF m = 0 THEN << >> ELSE Append(D[m \div radix], m % radix)
    IN  D[n]

Zeros(n) == [i \in 1..n |-> 0]

\* The digits of n, in exactly `width` places.
Padded(n, radix, width) == LET ds == Digits(n, radix) IN Zeros(width - Len(ds)) \o ds

LeadingZeros(s) == Min({i \in 0..Len(s) : i = Len(s) \/ s[i + 1] # 0})
=============================================================================
