----------------------------- MODULE NoidField ------------------------------
(***************************************************************************)
(* The field the hash of NOID works in, of BITS bits: products of parts,   *)
(* made of integer products of bit classes, reduced twice. Below it the    *)
(* reference, a product as a sum of shifts.                                *)
(***************************************************************************)
EXTENDS Bits

CONSTANTS
    BITS,            \* of a field element: 128 in the code, four times as wide as clmul32
    CLASSES,         \* interleaved bit classes of clmul32: 4 in the code
    Taps             \* x^BITS is 1 plus these powers of x: {1, 2, 7} in the code

\* Mutation: what overflows the first fold is dropped.
reduceOnce(hi, lo) ==
    Xor(lo, Truncated(Xor(hi, XorOver([t \in Taps |-> Shl(hi, t)], BITS)), BITS))

reduce(hi, lo) ==
    LET Folded(v) == Xor(v, XorOver([t \in Taps |-> Shl(v, t)], BITS))
        over == XorOver([t \in Taps |-> Shr(hi, BITS - t)], BITS)
    IN  Xor(Xor(lo, Truncated(Folded(hi), BITS)), Folded(over))

\* Carry-less, of two words of w bits, out of integer products: the carries of a class stay
\* clear of the next bit of the class.
Class(x, c) == {i \in x : i % CLASSES = c}
clmul(w, x, y) ==
    LET product(a, b) == BitsOf(Unsigned(a, w) * Unsigned(b, w), 2 * w)
        z(c) == XorOver([i \in 0..(CLASSES - 1) |->
                            product(Class(x, i), Class(y, (c + CLASSES - i) % CLASSES))], CLASSES)
    IN  UNION {Class(z(c), c) : c \in 0..(CLASSES - 1)}

\* The most bits a word may have so that no more than 2^CLASSES - 1 ones of its classes meet in
\* one bit of a product: 60 in the code, for clmul32.
WidestWord == CLASSES * (Power(2, CLASSES) - 1)

\* An element is four words, and what the reduction folds over the top goes no further than
\* half way up again.
ASSUME NoidAssumption ==
    /\ BITS \in Nat \ {0} /\ BITS % 4 = 0 /\ CLASSES \in Nat \ {0} /\ BITS \div 4 <= WidestWord
    /\ Taps \subseteq 1..(BITS \div 2)

Element == SUBSET (0..(BITS - 1))

\* One Karatsuba level: the factors of the three products of two operands of two halves of w
\* bits, and the products, of which the middle one has the other two taken out.
Factors(w, a, b) ==
    LET low(v)  == Truncated(v, w)
        high(v) == Shr(v, w)
    IN  [lo  |-> <<low(a), low(b)>>,
         hi  |-> <<high(a), high(b)>>,
         mid |-> <<Xor(low(a), high(a)), Xor(low(b), high(b))>>]
Products == [{"lo", "hi", "mid"} -> Element]
Karatsuba[k \in Products] == [k EXCEPT !.mid = Xor(Xor(@, k.lo), k.hi)]

clmul64[ab \in Element \X Element] ==
    LET w == BITS \div 4
        f == Factors(w, ab[1], ab[2])
        Joined[k \in Products] == Xor(Xor(k.lo, Shl(k.mid, w)), Shl(k.hi, 2 * w))
    IN  Joined[Karatsuba[[part \in DOMAIN f |-> clmul(w, f[part][1], f[part][2])]]]

mul[ab \in Element \X Element] ==
    LET w == BITS \div 2
        f == Factors(w, ab[1], ab[2])
        Joined[k \in Products] == reduce(Xor(k.hi, Shr(k.mid, w)), Xor(k.lo, Truncated(Shl(k.mid, w), BITS)))
    IN  Joined[Karatsuba[[part \in DOMAIN f |-> clmul64[f[part]]]]]

-----------------------------------------------------------------------------
(* The references *)

MulByX(a) == LET up == Shl(a, 1) IN IF BITS \in up THEN Xor(up \ {BITS}, Taps \cup {0}) ELSE up

mul_bitwise(a, b) ==
    LET shifted[i \in 0..BITS] == IF i = 0 THEN a ELSE MulByX(shifted[i - 1])
    IN  XorOver([i \in b |-> shifted[i]], BITS)

\* Carry-less, of words of w bits.
clmul_bitwise(w, x, y) == XorOver([i \in y |-> Shl(x, i)], w)
=============================================================================
