-------------------------------- MODULE Bits --------------------------------
(***************************************************************************)
(* Machine words as the sets of their bits: bit i of u64 0x82 is set for i *)
(* in {1, 7}. XOR is the symmetric difference, AND the intersection, and a *)
(* shift or a rotation moves every member, whatever the width.             *)
(***************************************************************************)
EXTENDS Radix

Xor(a, b)          == (a \ b) \cup (b \ a)
\* Of the words f[i], for the i < n there are.
XorOver(f, n) ==
    LET sum[i \in 0..n] ==
            IF i = 0 THEN {} ELSE Xor(sum[i - 1], IF i - 1 \in DOMAIN f THEN f[i - 1] ELSE {})
    IN  sum[n]
Not(a, width)      == (0..(width - 1)) \ a
Shl(a, n)          == {i + n : i \in a}
Shr(a, n)          == {i - n : i \in {j \in a : j >= n}}
Truncated(a, width) == {i \in a : i < width}
RotateLeft(a, n, width) == {(i + n) % width : i \in a}

\* wrapping_add: a bit is carried into i when a lower position makes one and all those
\* between hand it on.
Carries(a, b, i) == \E j \in a \cap b : j < i /\ \A k \in (j + 1)..(i - 1) : k \in a \cup b
WrappingAdd(a, b, width) ==
    {i \in 0..(width - 1) : (i \in Xor(a, b)) # Carries(a, b, i)}

BitsOf(n, width) == {i \in 0..(width - 1) : (n \div Power(2, i)) % 2 = 1}
Unsigned(a, width) ==
    LET value[n \in 0..width] ==
            IF n = 0 THEN 0 ELSE value[n - 1] + (IF n - 1 \in a THEN Power(2, n - 1) ELSE 0)
    IN  value[width]

\* from_le_bytes and to_le_bytes.
FromLe(bytes) == UNION {Shl(BitsOf(bytes[k], 8), 8 * (k - 1)) : k \in DOMAIN bytes}
ToLe(a, n)    == [k \in 1..n |-> Unsigned(Shr(a, 8 * (k - 1)), 8)]

\* The sequence f itself, each of its words worked out once.
Evaluated(f) == f \o << >>
=============================================================================
