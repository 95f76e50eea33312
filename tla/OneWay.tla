------------------------------- MODULE OneWay -------------------------------
(***************************************************************************)
(* What is computed of a secret or of a message and never read back: the   *)
(* checksums, the hashes and the public keys, each beside what it is to    *)
(* agree with.                                                             *)
(***************************************************************************)
EXTENDS Poseidon2b

CONSTANTS
    EdPrime, EdOrder, EdA, MSB, ScalarBits,                                 \* of Curves
    FieldPrime, CurveB, SecpOrder, Generator, TapTweak(_)

Keccak256  == INSTANCE Keccak
Ripemd     == INSTANCE Ripemd160
Sums       == INSTANCE Checksums
Curve      == INSTANCE Curves WITH p <- EdPrime, l <- EdOrder, A <- EdA, n <- SecpOrder, G <- Generator

OneWayScheme == {"checksum", "keccak", "ripemd", "clmul", "field", "noid", "edwards", "secp256k1"}

\* Of a text's groups, a message, two words, two field elements, a NOID master secret, a scalar. {} is refused.
Computed(s, m) ==
    CASE s = "checksum"  -> {Sums!Checksummed(m.code, m.prefix, m.groups)}
      [] s = "keccak"    -> {Keccak256!keccak256(m)}
      [] s = "ripemd"    -> {Ripemd!ripemd160(m)}
      [] s = "clmul"     -> {clmul(m.width, m.x, m.y)}
      [] s = "field"     -> {mul[<<m.x, m.y>>]}
      [] s = "noid"      -> {[spend |-> spend, address |-> address_bytes(spend, m.tag)] :
                                spend \in {spend_secret(m.master, {}, m.domain)}}
      [] s = "edwards"   -> {Curve!scalarmult_base(m)}
      [] s = "secp256k1" -> {[output |-> Curve!taptweak_output(Curve!internal_xonly(d)),
                              key    |-> Curve!pubkey_compressed(d)] : d \in Curve!scalar_in_range(m)}
=============================================================================
