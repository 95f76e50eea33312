------------------------------- MODULE Curves -------------------------------
(***************************************************************************)
(* The public keys: Edwards25519 as forager-wallet computes it, and what   *)
(* it asks of a secp256k1 library, with the key-path tweak of Taproot on   *)
(* top. Both over small fields of the shape of the real ones; a key is the *)
(* number its bytes spell.                                                 *)
(***************************************************************************)
EXTENDS Naturals, Sequences

CONSTANTS
    p,               \* 2^255 - 19: a prime, 5 modulo 8, below MSB
    l,               \* 2^252 + ..: the prime order of the base point
    A,               \* 121665: d is -A / (A + 1), no square
    MSB,             \* 2^255: the highest bit of a compressed key
    ScalarBits,      \* 256
    FieldPrime,      \* of secp256k1: 3 modulo 4
    CurveB,          \* 7
    n,               \* the prime order of secp256k1
    G,               \* its generator
    TapTweak(_)      \* hash of an x-only key, an integer of ScalarBits bits

modpow(a, e, m) ==
    LET power[i \in 0..e] == IF i = 0 THEN 1 ELSE (power[i - 1] * a) % m IN power[e]

inv(a, m) == modpow(a, m - 2, m)

Bit(k, i) == (k \div 2^i) % 2 = 1

-----------------------------------------------------------------------------
(* Edwards25519 *)

d_param == ((p - A) * inv(A + 1, p)) % p

sqrt_m1 == modpow(2, (p - 1) \div 4, p)

Root(x, sign) == IF x % 2 = sign THEN x ELSE p - x

\* Mutation: the candidate is taken for the root without the test that it is one.
recover_xUntested(y, sign) ==
    LET u == (y * y + p - 1) % p
        v == (d_param * y * y + 1) % p
    IN  Root((u * modpow(v, 3, p) * modpow((u * modpow(v, 7, p)) % p, (p - 5) \div 8, p)) % p, sign)

\* A root of (y^2 - 1) / (d y^2 + 1), of the parity asked for: the candidate, or if that is a
\* root of minus it, the candidate times the root of -1.
recover_x(y, sign) ==
    LET u == (y * y + p - 1) % p
        v == (d_param * y * y + 1) % p
        x == (u * modpow(v, 3, p) * modpow((u * modpow(v, 7, p)) % p, (p - 5) \div 8, p)) % p
    IN  Root(IF (v * x * x) % p = u THEN x ELSE (x * sqrt_m1) % p, sign)

base == LET y == (4 * inv(5, p)) % p IN <<recover_x(y, 0), y>>

identity == <<0, 1>>

\* One law for all pairs: different points, the same point, the identity.
add[p1 \in (0..p) \X (0..p), p2 \in (0..p) \X (0..p)] ==
    LET x1x2 == (p1[1] * p2[1]) % p
        y1y2 == (p1[2] * p2[2]) % p
        dxy  == (d_param * x1x2 * y1y2) % p
    IN  <<((p1[1] * p2[2] + p1[2] * p2[1]) * inv((1 + dxy) % p, p)) % p,
          ((y1y2 + x1x2) * inv((p + 1 - dxy) % p, p)) % p>>

scalarmult(k, point) ==
    LET doubled[i \in 0..ScalarBits] == IF i = 0 THEN point ELSE add[doubled[i - 1], doubled[i - 1]]
        acc[i \in 0..ScalarBits] ==
            IF i = 0 THEN identity
            ELSE IF Bit(k, i - 1) THEN add[acc[i - 1], doubled[i - 1]] ELSE acc[i - 1]
    IN  acc[ScalarBits]

compress(x, y) == IF x % 2 = 1 /\ y < MSB THEN y + MSB ELSE y

scalarmult_base(k) == LET key == scalarmult(k, base) IN compress(key[1], key[2])

reduce_scalar_mod_l(k) == k % l

OnEdwards(q) == (q[2] * q[2]) % p = (1 + q[1] * q[1] + d_param * ((q[1] * q[1] * q[2] * q[2]) % p)) % p

\* The point a key stands for.
Decompressed(key) == <<recover_x(key % MSB, key \div MSB), key % MSB>>

\* Of a key of the scalar k: a point of the curve it decompresses to, the k-th multiple of
\* the base point; and the scalars of the same key are those of the same residue, of which
\* the reduced one is kept.
EdwardsKey(k, key) ==
    LET multiple[i \in 0..k] == IF i = 0 THEN identity ELSE add[multiple[i - 1], base]
    IN  /\ OnEdwards(Decompressed(key))
        /\ Decompressed(key) = multiple[k]
        /\ scalarmult_base(reduce_scalar_mod_l(k)) = key
        /\ \A other \in 0..(l - 1) : scalarmult_base(other) = key => other = reduce_scalar_mod_l(k)

-----------------------------------------------------------------------------
(* secp256k1 *)

\* k256: points, <<>> the one at infinity, and their sum.
Infinity == << >>
Minus(a) == (FieldPrime - (a % FieldPrime)) % FieldPrime
Point == {Infinity} \cup ((0..FieldPrime) \X (0..FieldPrime))
PointAdd[q \in Point, r \in Point] ==
    LET Slope == IF q = r THEN 3 * q[1] * q[1] * inv((2 * q[2]) % FieldPrime, FieldPrime)
                 ELSE (r[2] + Minus(q[2])) * inv((r[1] + Minus(q[1])) % FieldPrime, FieldPrime)
        x == (Slope * Slope + Minus(q[1] + r[1])) % FieldPrime
    IN  CASE q = Infinity -> r
          [] r = Infinity -> q
          [] q # Infinity /\ r # Infinity /\ q[1] = r[1] /\ (q[2] + r[2]) % FieldPrime = 0 -> Infinity
          [] OTHER -> <<x, (Slope * (q[1] + Minus(x)) + Minus(q[2])) % FieldPrime>>

mul_by_generator(k) ==
    LET multiple[i \in 0..k] == IF i = 0 THEN Infinity ELSE PointAdd[multiple[i - 1], G] IN multiple[k]

\* The x of a point, of which infinity has a zero.
XOf(q) == IF q = Infinity THEN 0 ELSE q[1]

\* {} is a refusal.
scalar_in_range(k) == IF k \in 1..(n - 1) THEN {k} ELSE {}

internal_xonly(d) == XOf(mul_by_generator(d))

\* Mutation: the parity of y is left out of the prefix.
pubkey_compressedEven(d) == LET q == mul_by_generator(d) IN <<2, q[1]>>

pubkey_compressed(d)   == LET q == mul_by_generator(d) IN <<2 + (q[2] % 2), q[1]>>
pubkey_uncompressed(d) == <<4>> \o mul_by_generator(d)

OnCurve(x, y) == (y * y) % FieldPrime = (x * x * x + CurveB) % FieldPrime

\* Mutation: decompression by the prefix of odd Y.
lift_xOdd(x) == {<<x, y>> : y \in {r \in 0..(FieldPrime - 1) : OnCurve(x, r) /\ r % 2 = 1}}

\* {} when x is of no point, otherwise the point with the even y.
lift_x(x) == IF x >= FieldPrime THEN {}
             ELSE {<<x, y>> : y \in {r \in 0..(FieldPrime - 1) : OnCurve(x, r) /\ r % 2 = 0}}

\* {} is a panic.
taptweak_output(xonly) ==
    {XOf(PointAdd[internal, mul_by_generator(TapTweak(xonly) % n)]) : internal \in lift_x(xonly)}

\* What the address of the key d pays to: Taproot locks a coin to an x-only key, and the wallet
\* that is given d signs with the even one of d and n - d, plus the tweak. The two together are
\* a signature exactly when the x-only keys agree. A sum of zero is no key, and is left out.
TaprootKey(d, output) ==
    LET even == IF mul_by_generator(d)[2] % 2 = 0 THEN d ELSE n - d
        signer == (even + TapTweak(internal_xonly(d))) % n
    IN  /\ output # {}
        /\ signer # 0 => output = {internal_xonly(signer)}

\* The keys of the legacy formats: d and n - d are one x-only key and no other is, and two
\* scalars never share a compressed or an uncompressed key, which are of one point.
SecpKeys(d) ==
    /\ \A e \in 1..(n - 1) :
        /\ internal_xonly(e) = internal_xonly(d) => e \in {d, n - d}
        /\ pubkey_compressed(e) = pubkey_compressed(d) => e = d
    /\ internal_xonly(n - d) = internal_xonly(d)
    /\ OnCurve(pubkey_uncompressed(d)[2], pubkey_uncompressed(d)[3])
    /\ pubkey_compressed(d) = <<2 + (pubkey_uncompressed(d)[3] % 2), pubkey_uncompressed(d)[2]>>
=============================================================================
