---------------------------- MODULE NumberProofs -----------------------------
(***************************************************************************)
(* What loops over digits and bits compute, for every number, radix and    *)
(* length: a number and its digits determine each other, and the field of  *)
(* NOID multiplies by parts what a sum of shifts multiplies bit by bit.    *)
(***************************************************************************)
EXTENDS NoidField, WellFoundedInduction, SequenceTheorems, TLAPS
LOCAL INSTANCE FiniteSetsExt

(* Induction, over sets of numbers and of sequences. *)
LEMMA StrongInduction ==
  ASSUME NEW S, \A k \in Nat : (\A j \in 0..(k - 1) : j \in S) => k \in S
  PROVE  Nat \subseteq S
<1> DEFINE V == Nat \ S
<1> SUFFICES ASSUME V # {} PROVE FALSE
  OBVIOUS
<1> DEFINE R == {ss \in Nat \X Nat : ss[1] < ss[2]}
<1>1. IsWellFoundedOn(R, Nat)
  BY NatLessThanWellFounded DEF OpToRel
<1>2. PICK k \in V : \A j \in V : ~(<<j, k>> \in R)
  <2>1. V \subseteq Nat
    OBVIOUS
  <2> HIDE DEF R, V
  <2>2. QED
    BY <1>1, <2>1, WFMin
<1>3. \A j \in 0..(k - 1) : j \in S
  <2> TAKE j \in 0..(k - 1)
  <2>1. j \in Nat /\ k \in Nat /\ j < k
    OBVIOUS
  <2>2. <<j, k>> \in R
    BY <2>1
  <2>3. QED
    BY <1>2, <2>1, <2>2
<1>4. QED
  BY <1>3

\* From one number to the next.
LEMMA Induction ==
  ASSUME NEW S, 0 \in S, \A k \in Nat : k \in S => k + 1 \in S
  PROVE  Nat \subseteq S
<1>1. ASSUME NEW k \in Nat, \A j \in 0..(k - 1) : j \in S PROVE k \in S
  <2>1. CASE k = 0
    BY <2>1
  <2>2. CASE k # 0
    <3>1. k - 1 \in Nat /\ k - 1 \in 0..(k - 1) /\ (k - 1) + 1 = k
      BY <2>2
    <3>2. QED
      BY <1>1, <3>1
  <2>3. QED
    BY <2>1, <2>2
<1>2. QED
  BY <1>1, StrongInduction

\* A sequence that is not empty is a shorter one and its last element.
LEMMA LastApart ==
  ASSUME NEW A, NEW s \in Seq(A), s # << >>
  PROVE  \E t \in Seq(A), d \in A : s = Append(t, d) /\ Len(s) = Len(t) + 1
<1>1. Len(s) \in Nat \ {0} /\ \A i \in 1..Len(s) : s[i] \in A
  BY EmptySeq, LenProperties, ElementOfSeq
<1> DEFINE n == Len(s)
           t == [i \in 1..(n - 1) |-> s[i]]
<1>2. n - 1 \in Nat /\ n \in 1..n
  BY <1>1
<1>3. t \in Seq(A) /\ Len(t) = n - 1
  BY <1>1, <1>2
<1>4. s = Append(t, s[n])
  <2>1. Append(t, s[n]) \in Seq(A) /\ Len(Append(t, s[n])) = n
    BY <1>1, <1>2, <1>3, AppendProperties
  <2>2. ASSUME NEW i \in 1..n PROVE s[i] = Append(t, s[n])[i]
    <3>1. CASE i = n
      BY <1>1, <1>2, <1>3, <3>1, AppendProperties
    <3>2. CASE i # n
      <4>1. i \in 1..(n - 1) /\ t[i] = s[i]
        BY <1>1, <3>2
      <4> HIDE DEF t
      <4>2. QED
        BY <1>1, <1>2, <1>3, <4>1, AppendProperties
    <3>3. QED
      BY <3>1, <3>2
  <2> HIDE DEF t, n
  <2>3. QED
    BY <2>1, <2>2, SeqEqual DEF n
<1>5. s[n] \in A /\ Len(s) = Len(t) + 1
  BY <1>1, <1>2, <1>3
<1>6. QED
  <2> HIDE DEF t
  <2>1. QED
    BY <1>3, <1>4, <1>5

\* From a sequence to the sequence with one more element.
LEMMA SequenceInduction ==
  ASSUME NEW A, NEW S, << >> \in S, \A s \in Seq(A), d \in A : s \in S => Append(s, d) \in S
  PROVE  Seq(A) \subseteq S
<1> DEFINE L == {n \in Nat : \A s \in Seq(A) : Len(s) = n => s \in S}
<1>1. 0 \in L
  BY EmptySeq
<1>2. ASSUME NEW k \in Nat, k \in L PROVE k + 1 \in L
  <2> SUFFICES ASSUME NEW s \in Seq(A), Len(s) = k + 1 PROVE s \in S
    OBVIOUS
  <2>1. s # << >>
    BY EmptySeq
  <2>2. PICK t \in Seq(A), d \in A : s = Append(t, d) /\ Len(s) = Len(t) + 1
    BY <2>1, LastApart
  <2>3. Len(t) = k
    BY <2>2, LenProperties
  <2>4. QED
    BY <1>2, <2>2, <2>3
<1>3. Nat \subseteq L
  <2> HIDE DEF L
  <2>1. QED
    BY <1>1, <1>2, Induction
<1>4. QED
  BY <1>3, LenProperties

(***************************************************************************)
(* A recursive function exists: V holds its values, step gives the value   *)
(* at m from the value at an earlier place.                                *)
(***************************************************************************)
Earlier(before, n) == \A m \in 1..n : before[m] < m
Unrolls(F, n, base, step, before) == F[0] = base /\ \A m \in 1..n : F[m] = step[<<F[before[m]], m>>]

\* A recursive definition over numbers, whatever earlier number each step takes up, has a function.
LEMMA Recursion ==
  ASSUME NEW n \in Nat, NEW V, NEW base \in V, NEW step \in [V \X (1..n) -> V],
         NEW before \in [1..n -> Nat], Earlier(before, n)
  PROVE  \E F \in [0..n -> V] : Unrolls(F, n, base, step, before)
<1> USE DEF Earlier, Unrolls
<1> DEFINE Upto(k) == \E F \in [0..k -> V] :
                         F[0] = base /\ \A m \in 1..k : F[m] = step[<<F[before[m]], m>>]
           L == {k \in Nat : k <= n => Upto(k)}
<1>1. 0 \in L
  <2> DEFINE F == [k \in 0..0 |-> base]
  <2>1. F \in [0..0 -> V] /\ F[0] = base /\ 1..0 = {}
    OBVIOUS
  <2>2. QED
    BY <2>1
<1>2. ASSUME NEW k \in Nat, k \in L PROVE k + 1 \in L
  <2> SUFFICES ASSUME k + 1 <= n PROVE Upto(k + 1)
    OBVIOUS
  <2>1. PICK F \in [0..k -> V] : F[0] = base /\ \A m \in 1..k : F[m] = step[<<F[before[m]], m>>]
    BY <1>2
  <2>2. k + 1 \in 1..n /\ before[k + 1] \in 0..k
    BY <1>2
  <2>3. PICK v \in V : v = step[<<F[before[k + 1]], k + 1>>]
    BY <2>2
  <2> DEFINE G == [m \in 0..(k + 1) |-> IF m = k + 1 THEN v ELSE F[m]]
  <2>4. G \in [0..(k + 1) -> V] /\ G[0] = base
    BY <2>1, <2>3
  <2>5. ASSUME NEW m \in 1..(k + 1) PROVE G[m] = step[<<G[before[m]], m>>]
    <3>1. m \in 1..n /\ before[m] \in 0..(m - 1) /\ before[m] \in 0..k
      BY <2>2
    <3>2. G[before[m]] = F[before[m]]
      BY <3>1
    <3>3. CASE m = k + 1
      <4>1. G[m] = v /\ step[<<F[before[m]], m>>] = v
        BY <2>3, <3>3
      <4> HIDE DEF G
      <4>2. QED
        BY <3>2, <4>1
    <3>4. CASE m # k + 1
      <4>1. m \in 1..k /\ G[m] = F[m]
        BY <3>4
      <4>2. QED
        BY <2>1, <3>2, <4>1
    <3>5. QED
      BY <3>3, <3>4
  <2>6. QED
    BY <2>4, <2>5
<1>3. Nat \subseteq L
  <2> HIDE DEF L
  <2>1. QED
    BY <1>1, <1>2, Induction
<1>4. QED
  BY <1>3

-----------------------------------------------------------------------------
(* The loop of Number: the function its definition names, and its values. *)
NumberRun(N, s, r) == N[0] = 0 /\ \A k \in 1..Len(s) : N[k] = N[k - 1] * r + s[k]

\* Number goes through the digits once.
LEMMA NumberLoop ==
  ASSUME NEW s \in Seq(Nat), NEW r \in Nat
  PROVE  \E N \in [0..Len(s) -> Nat] : NumberRun(N, s, r) /\ Number(s, r) = N[Len(s)]
<1> DEFINE n == Len(s)
           step == [p \in Nat \X (1..n) |-> p[1] * r + s[p[2]]]
           before == [m \in 1..n |-> m - 1]
           Eq(N) == N = [k \in 0..n |-> IF k = 0 THEN 0 ELSE N[k - 1] * r + s[k]]
<1>1. n \in Nat /\ \A k \in 1..n : s[k] \in Nat
  BY LenProperties, ElementOfSeq
<1>2. \E N : Eq(N)
  <2>1. step \in [Nat \X (1..n) -> Nat]
    BY <1>1
  <2>2. before \in [1..n -> Nat] /\ \A m \in 1..n : before[m] < m /\ before[m] = m - 1
    BY <1>1
  <2>3. PICK F \in [0..n -> Nat] : F[0] = 0 /\ \A m \in 1..n : F[m] = step[<<F[before[m]], m>>]
    <3>1. Earlier(before, n)
      BY <2>2 DEF Earlier
    <3> HIDE DEF step, before, n
    <3>2. PICK F \in [0..n -> Nat] : Unrolls(F, n, 0, step, before)
      BY <1>1, <2>1, <2>2, <3>1, Recursion
    <3>3. QED
      BY <3>2 DEF Unrolls
  <2>4. ASSUME NEW k \in 0..n PROVE F[k] = IF k = 0 THEN 0 ELSE F[k - 1] * r + s[k]
    <3>1. CASE k = 0
      BY <2>3, <3>1
    <3>2. CASE k # 0
      <4>1. k \in 1..n /\ k - 1 \in 0..n
        BY <1>1, <3>2
      <4>2. step[<<F[k - 1], k>>] = F[k - 1] * r + s[k]
        BY <4>1
      <4> HIDE DEF step, before
      <4>3. QED
        BY <2>2, <2>3, <3>2, <4>1, <4>2
    <3>3. QED
      BY <3>1, <3>2
  <2>5. QED
    BY <2>4
<1> DEFINE N == CHOOSE N : Eq(N)
<1>3. Eq(N)
  BY <1>2
<1>4. N[0] = 0 /\ \A k \in 1..n : N[k] = N[k - 1] * r + s[k]
  <2>1. N = [k \in 0..n |-> IF k = 0 THEN 0 ELSE N[k - 1] * r + s[k]]
    BY <1>3
  <2> HIDE DEF N
  <2>2. QED
    BY <1>1, <2>1
<1>5. N \in [0..n -> Nat]
  <2>1. N = [k \in 0..n |-> IF k = 0 THEN 0 ELSE N[k - 1] * r + s[k]]
    BY <1>3
  <2> DEFINE L == {k \in Nat : k \in 0..n => N[k] \in Nat}
  <2> HIDE DEF N
  <2>2. 0 \in L
    BY <1>4
  <2>3. ASSUME NEW k \in Nat, k \in L PROVE k + 1 \in L
    <3> SUFFICES ASSUME k + 1 \in 0..n PROVE N[k + 1] \in Nat
      OBVIOUS
    <3>1. k + 1 \in 1..n /\ (k + 1) - 1 = k /\ N[k] \in Nat
      BY <2>3, <1>1
    <3>2. N[k + 1] = N[k] * r + s[k + 1]
      BY <1>4, <3>1
    <3>3. PICK p \in Nat, d \in Nat : p = N[k] /\ d = s[k + 1]
      BY <1>1, <3>1
    <3>4. p * r + d \in Nat
      OBVIOUS
    <3>5. QED
      BY <3>2, <3>3, <3>4
  <2>4. Nat \subseteq L
    <3> HIDE DEF L
    <3>1. QED
      BY <2>2, <2>3, Induction
  <2>5. \A k \in 0..n : N[k] \in Nat
    BY <1>1, <2>4
  <2>6. DOMAIN N = 0..n /\ N = [k \in DOMAIN N |-> N[k]]
    BY <2>1, Zenon
  <2>7. QED
    BY <2>5, <2>6
<1>6. Number(s, r) = N[n]
  BY DEF Number
<1>7. QED
  <2> HIDE DEF N
  <2>1. QED
    BY <1>4, <1>5, <1>6 DEF NumberRun

\* No digits are zero.
LEMMA NumberEmpty == \A r \in Nat : Number(<< >>, r) = 0
<1> TAKE r \in Nat
<1>1. << >> \in Seq(Nat) /\ Len(<< >>) = 0
  BY EmptySeq
<1>2. PICK N \in [0..Len(<< >>) -> Nat] : NumberRun(N, << >>, r) /\ Number(<< >>, r) = N[Len(<< >>)]
  BY <1>1, NumberLoop
<1>3. QED
  BY <1>1, <1>2 DEF NumberRun

\* Digits spell a number.
LEMMA NumberIn ==
  ASSUME NEW s \in Seq(Nat), NEW r \in Nat
  PROVE  Number(s, r) \in Nat
  BY NumberLoop, LenProperties

\* One more digit.
LEMMA NumberAppend ==
  ASSUME NEW s \in Seq(Nat), NEW r \in Nat, NEW d \in Nat
  PROVE  Number(Append(s, d), r) = Number(s, r) * r + d
<1> DEFINE n == Len(s)
           t == Append(s, d)
<1>1. n \in Nat /\ t \in Seq(Nat) /\ Len(t) = n + 1 /\ t[n + 1] = d /\ \A k \in 1..n : t[k] = s[k]
  BY LenProperties, AppendProperties
<1>2. PICK M \in [0..n -> Nat] : M[0] = 0 /\ (\A k \in 1..n : M[k] = M[k - 1] * r + s[k]) /\ Number(s, r) = M[n]
  BY NumberLoop DEF NumberRun
<1>3. PICK N \in [0..(n + 1) -> Nat] :
        N[0] = 0 /\ (\A k \in 1..(n + 1) : N[k] = N[k - 1] * r + t[k]) /\ Number(t, r) = N[n + 1]
  <2> HIDE DEF t
  <2>1. PICK N \in [0..Len(t) -> Nat] : NumberRun(N, t, r) /\ Number(t, r) = N[Len(t)]
    BY <1>1, NumberLoop
  <2>2. QED
    BY <1>1, <2>1 DEF NumberRun
<1> DEFINE L == {k \in Nat : k \in 0..n => N[k] = M[k]}
<1>4. 0 \in L
  BY <1>2, <1>3
<1>5. ASSUME NEW k \in Nat, k \in L PROVE k + 1 \in L
  <2> SUFFICES ASSUME k + 1 \in 0..n PROVE N[k + 1] = M[k + 1]
    OBVIOUS
  <2>1. k + 1 \in 1..n /\ k + 1 \in 1..(n + 1) /\ (k + 1) - 1 = k /\ k \in 0..n /\ N[k] = M[k]
    BY <1>1, <1>5
  <2> HIDE DEF t
  <2>2. QED
    BY <1>1, <1>2, <1>3, <2>1
<1>6. Nat \subseteq L
  <2> HIDE DEF L
  <2>1. QED
    BY <1>4, <1>5, Induction
<1>7. N[n] = M[n] /\ n + 1 \in 1..(n + 1) /\ (n + 1) - 1 = n
  BY <1>1, <1>6
<1> HIDE DEF t
<1>8. Number(t, r) = Number(s, r) * r + d
  BY <1>1, <1>2, <1>3, <1>7
<1>9. QED
  BY <1>8 DEF t

(* The loop of Digits. *)
LEMMA DivisionBelow ==
  ASSUME NEW m \in Nat \ {0}, NEW r \in Nat \ {0, 1}
  PROVE  m \div r \in Nat /\ m \div r < m /\ m % r \in 0..(r - 1) /\ m = r * (m \div r) + (m % r)
<1>1. m \div r \in Nat /\ m % r \in 0..(r - 1) /\ m = r * (m \div r) + (m % r)
  OBVIOUS
<1>2. m \div r < m
  <2> SUFFICES ASSUME m \div r >= m PROVE FALSE
    BY <1>1
  <2>1. r * (m \div r) >= 2 * (m \div r)
    <3>1. PICK q \in Nat : q = m \div r
      BY <1>1
    <3>2. r >= 2
      OBVIOUS
    <3>3. r * q >= 2 * q
      BY <3>2
    <3>4. QED
      BY <3>1, <3>3
  <2>2. PICK q \in Nat, p \in Nat, e \in Nat : q = m \div r /\ p = r * (m \div r) /\ e = m % r
    BY <1>1
  <2>3. m = p + e /\ p >= 2 * q /\ q >= m
    BY <1>1, <2>1, <2>2
  <2>4. QED
    BY <2>3
<1>3. QED
  BY <1>1, <1>2

DigitsRun(D, n, r) == D[0] = << >> /\ \A m \in 1..n : D[m] = Append(D[m \div r], m % r)

\* Digits takes one digit after another off a number.
LEMMA DigitsLoop ==
  ASSUME NEW n \in Nat, NEW r \in Nat \ {0, 1}
  PROVE  \E D \in [0..n -> Seq(Nat)] : DigitsRun(D, n, r) /\ Digits(n, r) = D[n]
<1> DEFINE V == Seq(Nat)
           step == [p \in V \X (1..n) |-> Append(p[1], p[2] % r)]
           before == [m \in 1..n |-> m \div r]
           Eq(D) == D = [m \in 0..n |-> IF m = 0 THEN << >> ELSE Append(D[m \div r], m % r)]
<1>1. \A m \in 1..n : m \div r \in Nat /\ m \div r < m /\ m % r \in Nat /\ m \div r \in 0..n
  BY DivisionBelow
<1>2. << >> \in V
  OBVIOUS
<1>3. \E D : Eq(D)
  <2>1. step \in [V \X (1..n) -> V]
    BY <1>1, AppendProperties
  <2>2. before \in [1..n -> Nat] /\ \A m \in 1..n : before[m] < m /\ before[m] = m \div r
    BY <1>1
  <2>3. PICK F \in [0..n -> V] : F[0] = << >> /\ \A m \in 1..n : F[m] = step[<<F[before[m]], m>>]
    <3>1. Earlier(before, n)
      BY <2>2 DEF Earlier
    <3> HIDE DEF step, before, V
    <3>2. PICK F \in [0..n -> V] : Unrolls(F, n, << >>, step, before)
      BY <1>2, <2>1, <2>2, <3>1, Recursion
    <3>3. QED
      BY <3>2 DEF Unrolls
  <2>4. ASSUME NEW m \in 0..n PROVE F[m] = IF m = 0 THEN << >> ELSE Append(F[m \div r], m % r)
    <3>1. CASE m = 0
      BY <2>3, <3>1
    <3>2. CASE m # 0
      <4>1. m \in 1..n
        BY <3>2
      <4>2. F[m \div r] \in V
        BY <1>1, <4>1
      <4>3. step[<<F[m \div r], m>>] = Append(F[m \div r], m % r)
        BY <4>1, <4>2
      <4> HIDE DEF step, before, V
      <4>4. QED
        BY <2>2, <2>3, <3>2, <4>1, <4>3
    <3>3. QED
      BY <3>1, <3>2
  <2>5. QED
    BY <2>4
<1> DEFINE D == CHOOSE D : Eq(D)
<1>4. Eq(D)
  BY <1>3, ZenonT(40)
<1>5. D = [m \in 0..n |-> IF m = 0 THEN << >> ELSE Append(D[m \div r], m % r)]
  BY <1>4, ZenonT(40)
<1>6. Digits(n, r) = D[n]
  BY DEF Digits
<1> HIDE DEF D
<1>7. D[0] = << >> /\ \A m \in 1..n : D[m] = Append(D[m \div r], m % r)
  <2>1. ASSUME NEW m \in 0..n PROVE D[m] = IF m = 0 THEN << >> ELSE Append(D[m \div r], m % r)
    BY <1>5, Zenon
  <2>2. D[0] = << >>
    <3>1. 0 \in 0..n
      OBVIOUS
    <3>2. QED
      BY <2>1, <3>1
  <2>3. ASSUME NEW m \in 1..n PROVE D[m] = Append(D[m \div r], m % r)
    <3>1. m \in 0..n /\ m # 0
      OBVIOUS
    <3>2. QED
      BY <2>1, <3>1
  <2>4. QED
    BY <2>2, <2>3
<1>8. D \in [0..n -> V]
  <2> DEFINE L == {k \in Nat : k \in 0..n => D[k] \in V}
  <2>1. ASSUME NEW k \in Nat, \A j \in 0..(k - 1) : j \in L PROVE k \in L
    <3> SUFFICES ASSUME k \in 0..n PROVE D[k] \in V
      OBVIOUS
    <3>1. CASE k = 0
      BY <1>2, <1>7, <3>1
    <3>2. CASE k # 0
      <4>1. k \in 1..n /\ k \div r \in 0..(k - 1) /\ k \div r \in 0..n /\ k % r \in Nat
        BY <1>1, <3>2
      <4>2. D[k \div r] \in V
        BY <2>1, <4>1
      <4>3. Append(D[k \div r], k % r) \in V
        BY <4>1, <4>2, AppendProperties
      <4>4. QED
        BY <1>7, <4>1, <4>3
    <3>3. QED
      BY <3>1, <3>2
  <2>2. Nat \subseteq L
    <3> HIDE DEF L
    <3>1. QED
      BY <2>1, StrongInduction
  <2>3. \A k \in 0..n : D[k] \in V
    BY <2>2
  <2>4. DOMAIN D = 0..n /\ D = [k \in DOMAIN D |-> D[k]]
    BY <1>5, Zenon
  <2>5. QED
    BY <2>3, <2>4
<1>9. QED
  BY <1>6, <1>7, <1>8 DEF DigitsRun

\* Zero has no digits.
LEMMA DigitsZero == \A r \in Nat \ {0, 1} : Digits(0, r) = << >>
  BY DigitsLoop DEF DigitsRun

\* Digits are numbers.
LEMMA DigitsIn ==
  ASSUME NEW n \in Nat, NEW r \in Nat \ {0, 1}
  PROVE  Digits(n, r) \in Seq(Nat)
<1>1. PICK D \in [0..n -> Seq(Nat)] : Digits(n, r) = D[n]
  BY DigitsLoop
<1>2. n \in 0..n
  OBVIOUS
<1>3. QED
  BY <1>1, <1>2

\* The last digit is the remainder, the others are those of the quotient.
LEMMA DigitsStep ==
  ASSUME NEW n \in Nat \ {0}, NEW r \in Nat \ {0, 1}
  PROVE  Digits(n, r) = Append(Digits(n \div r, r), n % r)
<1>1. PICK q \in Nat : q = n \div r /\ q < n
  BY DivisionBelow
<1>2. PICK D \in [0..n -> Seq(Nat)] :
        D[0] = << >> /\ (\A m \in 1..n : D[m] = Append(D[m \div r], m % r)) /\ Digits(n, r) = D[n]
  BY DigitsLoop DEF DigitsRun
<1>3. PICK E \in [0..q -> Seq(Nat)] :
        E[0] = << >> /\ (\A m \in 1..q : E[m] = Append(E[m \div r], m % r)) /\ Digits(q, r) = E[q]
  BY DigitsLoop DEF DigitsRun
<1> DEFINE L == {k \in Nat : k \in 0..q => D[k] = E[k]}
<1>4. ASSUME NEW k \in Nat, \A j \in 0..(k - 1) : j \in L PROVE k \in L
  <2> SUFFICES ASSUME k \in 0..q PROVE D[k] = E[k]
    OBVIOUS
  <2>1. CASE k = 0
    BY <1>2, <1>3, <2>1
  <2>2. CASE k # 0
    <3>1. PICK j \in 0..(k - 1) : j = k \div r
      <4>1. k \in Nat \ {0}
        BY <2>2
      <4>2. k \div r \in Nat /\ k \div r < k
        BY <4>1, DivisionBelow
      <4>3. k \div r \in 0..(k - 1)
        BY <4>1, <4>2
      <4>4. QED
        BY <4>3
    <3>2. j \in 0..q /\ D[j] = E[j]
      BY <1>4, <3>1
    <3>3. k \in 1..n /\ k \in 1..q
      BY <1>1, <2>2
    <3>4. D[k] = Append(D[j], k % r) /\ E[k] = Append(E[j], k % r)
      BY <1>2, <1>3, <3>1, <3>3
    <3>5. QED
      BY <3>2, <3>4
  <2>3. QED
    BY <2>1, <2>2
<1>5. D[q] = E[q]
  <2>1. Nat \subseteq L
    <3> HIDE DEF L
    <3>1. QED
      BY <1>4, StrongInduction
  <2>2. QED
    BY <2>1
<1>6. n \in 1..n
  OBVIOUS
<1>7. QED
  BY <1>1, <1>2, <1>3, <1>5, <1>6

-----------------------------------------------------------------------------
(* A number and its digits.  Canonical is a sequence without leading zeros. *)
Canonical(s) == s # << >> => s[1] # 0

\* A sequence with one more element.
LEMMA AppendIs ==
  ASSUME NEW A, NEW s \in Seq(A), NEW d \in A
  PROVE  /\ Append(s, d) \in Seq(A) /\ Append(s, d) # << >> /\ Len(Append(s, d)) = Len(s) + 1
         /\ s # << >> => Append(s, d)[1] = s[1]
         /\ s = << >> => Append(s, d)[1] = d
         /\ \A i \in 1..Len(s) : Append(s, d)[i] = s[i]
         /\ Append(s, d)[Len(s) + 1] = d
<1>1. Len(s) \in Nat /\ (s # << >> => Len(s) # 0) /\ Len(<< >>) = 0
  BY EmptySeq, LenProperties
<1>2. /\ Append(s, d) \in Seq(A) /\ Len(Append(s, d)) = Len(s) + 1
      /\ \A i \in 1..Len(s) : Append(s, d)[i] = s[i]
      /\ Append(s, d)[Len(s) + 1] = d
  BY AppendProperties
<1>3. Append(s, d) # << >>
  BY <1>1, <1>2
<1>4. s # << >> => Append(s, d)[1] = s[1]
  BY <1>1, <1>2
<1>5. s = << >> => Append(s, d)[1] = d
  BY <1>1, <1>2
<1>6. QED
  BY <1>2, <1>3, <1>4, <1>5

\* Digits of a radix are numbers.
LEMMA DigitsAreNats ==
  ASSUME NEW r \in Nat, NEW s \in Seq(0..(r - 1))
  PROVE  s \in Seq(Nat)
<1>1. 0..(r - 1) \subseteq Nat
  OBVIOUS
<1>2. QED
  BY <1>1, SeqMonotonic

(* The digits of n are digits, do not begin with a zero and spell n. *)
LEMMA DigitsSpell ==
  ASSUME NEW r \in Nat \ {0, 1}, NEW n \in Nat
  PROVE  /\ Digits(n, r) \in Seq(0..(r - 1)) /\ Canonical(Digits(n, r))
         /\ n # 0 => Digits(n, r) # << >>
         /\ Number(Digits(n, r), r) = n
<1> DEFINE Ok(k) == /\ Digits(k, r) \in Seq(0..(r - 1)) /\ Canonical(Digits(k, r))
                    /\ k # 0 => Digits(k, r) # << >>
                    /\ Number(Digits(k, r), r) = k
           S == {k \in Nat : Ok(k)}
<1>1. ASSUME NEW k \in Nat, \A j \in 0..(k - 1) : j \in S PROVE Ok(k)
  <2>1. CASE k = 0
    <3>1. Digits(0, r) = << >> /\ Number(<< >>, r) = 0
      BY DigitsZero, NumberEmpty
    <3>2. << >> \in Seq(0..(r - 1))
      BY EmptySeq
    <3>3. QED
      BY <2>1, <3>1, <3>2 DEF Canonical
  <2>2. CASE k # 0
    <3>1. k \in Nat \ {0}
      BY <2>2
    <3>2. PICK j \in Nat, d \in 0..(r - 1) : j = k \div r /\ d = k % r /\ k = r * j + d /\ j < k
      BY <3>1, DivisionBelow
    <3>3. Ok(j) /\ Digits(k, r) = Append(Digits(j, r), d)
      <4>1. j \in 0..(k - 1)
        BY <3>2
      <4>2. QED
        BY <1>1, <3>1, <3>2, <4>1, DigitsStep
    <3>4. PICK t \in Seq(0..(r - 1)) : t = Digits(j, r)
      BY <3>3
    <3>5. Append(t, d) \in Seq(0..(r - 1)) /\ Append(t, d) # << >>
      BY AppendIs
    <3>6. Canonical(Append(t, d))
      <4>1. CASE t = << >>
        <5>1. j = 0
          BY <3>3, <3>4, <4>1
        <5>2. d # 0
          BY <2>2, <3>2, <5>1
        <5>3. QED
          BY <4>1, <5>2, AppendIs DEF Canonical
      <4>2. CASE t # << >>
        BY <3>3, <3>4, <4>2, AppendIs DEF Canonical
      <4>3. QED
        BY <4>1, <4>2
    <3>7. Number(Append(t, d), r) = k
      <4>1. t \in Seq(Nat) /\ d \in Nat /\ r \in Nat
        BY DigitsAreNats
      <4>2. Number(Append(t, d), r) = Number(t, r) * r + d
        BY <4>1, NumberAppend
      <4>3. Number(t, r) = j
        BY <3>3, <3>4
      <4>4. j * r + d = r * j + d
        OBVIOUS
      <4>5. QED
        BY <3>2, <4>2, <4>3, <4>4
    <3>8. QED
      BY <3>3, <3>4, <3>5, <3>6, <3>7
  <2>3. QED
    BY <2>1, <2>2
<1>2. Nat \subseteq S
  <2> HIDE DEF Ok
  <2>1. \A k \in Nat : (\A j \in 0..(k - 1) : j \in S) => k \in S
    BY <1>1
  <2> HIDE DEF S
  <2>2. QED
    BY <2>1, StrongInduction
<1>3. QED
  BY <1>2

\* Quotient and remainder of a number that is given by them.
LEMMA QuotientIs ==
  ASSUME NEW r \in Nat \ {0}, NEW q \in Nat, NEW d \in 0..(r - 1)
  PROVE  (q * r + d) \div r = q /\ (q * r + d) % r = d
<1>1. PICK x \in Nat : x = q * r + d
  OBVIOUS
<1>2. PICK p \in Nat, e \in 0..(r - 1) : p = x \div r /\ e = x % r /\ x = r * p + e
  OBVIOUS
<1>3. r * (p - q) = d - e
  <2>1. r * (p - q) = r * p - r * q
    OBVIOUS
  <2>2. r * q = q * r
    OBVIOUS
  <2>3. QED
    BY <1>1, <1>2, <2>1, <2>2
<1>4. ASSUME p > q PROVE FALSE
  <2>1. p - q \in Nat /\ p - q >= 1
    BY <1>4
  <2>2. r * (p - q) >= r
    BY <2>1
  <2>3. QED
    BY <1>3, <2>2
<1>5. ASSUME q > p PROVE FALSE
  <2>1. q - p \in Nat /\ q - p >= 1
    BY <1>5
  <2>2. r * (q - p) >= r
    BY <2>1
  <2>3. r * (q - p) = e - d
    BY <1>3
  <2>4. QED
    BY <2>2, <2>3
<1>6. p = q
  BY <1>4, <1>5
<1>7. e = d
  BY <1>1, <1>2, <1>6
<1>8. QED
  BY <1>1, <1>2, <1>6, <1>7

(* Digits without leading zeros are those of the number they spell. *)
LEMMA SpellingIsDigits ==
  ASSUME NEW r \in Nat \ {0, 1}, NEW s \in Seq(0..(r - 1)), Canonical(s)
  PROVE  Digits(Number(s, r), r) = s /\ (s # << >> => Number(s, r) # 0)
<1> DEFINE Ok(t) == Canonical(t) => Digits(Number(t, r), r) = t /\ (t # << >> => Number(t, r) # 0)
           S == {t \in Seq(0..(r - 1)) : Ok(t)}
<1>1. << >> \in S
  <2>1. Digits(0, r) = << >> /\ Number(<< >>, r) = 0 /\ << >> \in Seq(0..(r - 1))
    BY DigitsZero, NumberEmpty, EmptySeq
  <2>2. QED
    BY <2>1
<1>2. ASSUME NEW t \in Seq(0..(r - 1)), NEW d \in 0..(r - 1), t \in S PROVE Append(t, d) \in S
  <2>1. Append(t, d) \in Seq(0..(r - 1)) /\ Append(t, d) # << >>
    BY AppendIs
  <2> SUFFICES ASSUME Canonical(Append(t, d))
               PROVE  Digits(Number(Append(t, d), r), r) = Append(t, d) /\ Number(Append(t, d), r) # 0
    BY <2>1
  <2>2. t \in Seq(Nat) /\ d \in Nat /\ r \in Nat
    BY DigitsAreNats
  <2>3. PICK q \in Nat : q = Number(t, r)
    BY <2>2, NumberIn
  <2>4. Number(Append(t, d), r) = q * r + d
    BY <2>2, <2>3, NumberAppend
  <2>5. Digits(q, r) = t
    <3>1. Canonical(t)
      BY <2>1, AppendIs DEF Canonical
    <3>2. QED
      BY <1>2, <2>3, <3>1
  <2>6. q * r + d # 0
    <3>1. CASE t = << >>
      <4>1. d # 0
        BY <2>1, <3>1, AppendIs DEF Canonical
      <4>2. PICK p \in Nat : p = q * r
        OBVIOUS
      <4>3. p + d # 0
        BY <4>1
      <4>4. QED
        BY <4>2, <4>3
    <3>2. CASE t # << >>
      <4>1. Canonical(t)
        BY <2>1, AppendIs DEF Canonical
      <4>2. q >= 1
        BY <1>2, <2>3, <3>2, <4>1
      <4>3. q * r >= r
        BY <4>2
      <4>4. QED
        BY <4>3, SMTT(30)
    <3>3. QED
      BY <3>1, <3>2
  <2>7. PICK n \in Nat \ {0} : n = q * r + d
    BY <2>6
  <2>8. n \div r = q /\ n % r = d
    BY <2>7, QuotientIs
  <2>9. Digits(n, r) = Append(t, d)
    BY <2>5, <2>8, DigitsStep
  <2>10. QED
    BY <2>4, <2>7, <2>9
<1>3. Seq(0..(r - 1)) \subseteq S
  <2> HIDE DEF S
  <2>1. QED
    BY <1>1, <1>2, SequenceInduction
<1>4. QED
  BY <1>3

-----------------------------------------------------------------------------
(* Leading zeros. *)
LEMMA LeastNat ==
  ASSUME NEW V \in SUBSET Nat, V # {}
  PROVE  Min(V) \in V /\ \A y \in V : Min(V) <= y
<1>1. \E x \in V : \A y \in V : x <= y
  <2> SUFFICES ASSUME \A x \in V : \E y \in V : ~(x <= y) PROVE FALSE
    OBVIOUS
  <2> DEFINE S == {k \in Nat : k \notin V}
  <2>1. ASSUME NEW k \in Nat, \A j \in 0..(k - 1) : j \in S PROVE k \in S
    <3> SUFFICES ASSUME k \in V PROVE FALSE
      OBVIOUS
    <3>1. PICK y \in V : ~(k <= y)
      OBVIOUS
    <3>2. y \in 0..(k - 1)
      BY <3>1
    <3>3. QED
      BY <2>1, <3>2
  <2>2. Nat \subseteq S
    <3> HIDE DEF S
    <3>1. QED
      BY <2>1, StrongInduction
  <2>3. QED
    BY <2>2
<1>2. QED
  BY <1>1 DEF Min

\* So many zeros, which are digits of every radix.
LEMMA ZerosIs ==
  ASSUME NEW z \in Nat
  PROVE  /\ Len(Zeros(z)) = z /\ \A i \in 1..z : Zeros(z)[i] = 0
         /\ \A r \in Nat \ {0} : Zeros(z) \in Seq(0..(r - 1))
<1>1. Zeros(z) \in [1..z -> {0}] /\ DOMAIN Zeros(z) = 1..z
  BY DEF Zeros
<1>2. ASSUME NEW r \in Nat \ {0} PROVE Zeros(z) \in Seq(0..(r - 1))
  <2>1. Zeros(z) \in [1..z -> 0..(r - 1)]
    BY DEF Zeros
  <2>2. QED
    BY <2>1, SeqDef
<1>3. Len(Zeros(z)) = z
  BY <1>1
<1>4. QED
  BY <1>2, <1>3 DEF Zeros

\* Two sequences in one.
LEMMA ConcatIs ==
  ASSUME NEW A, NEW s \in Seq(A), NEW t \in Seq(A)
  PROVE  /\ s \o t \in Seq(A) /\ Len(s \o t) = Len(s) + Len(t) /\ Len(s) \in Nat /\ Len(t) \in Nat
         /\ \A i \in 1..Len(s) : (s \o t)[i] = s[i]
         /\ \A i \in 1..Len(t) : (s \o t)[Len(s) + i] = t[i]
<1>1. Len(s) \in Nat /\ Len(t) \in Nat
  BY LenProperties
<1>2. /\ s \o t \in Seq(A) /\ Len(s \o t) = Len(s) + Len(t)
      /\ \A i \in 1..Len(s) + Len(t) : (s \o t)[i] = IF i <= Len(s) THEN s[i] ELSE t[i - Len(s)]
  BY ConcatProperties
<1>3. ASSUME NEW i \in 1..Len(t) PROVE (s \o t)[Len(s) + i] = t[i]
  <2>1. Len(s) + i \in 1..Len(s) + Len(t) /\ ~(Len(s) + i <= Len(s)) /\ (Len(s) + i) - Len(s) = i
    BY <1>1
  <2>2. QED
    BY <1>2, <2>1
<1>4. \A i \in 1..Len(s) : i \in 1..Len(s) + Len(t) /\ i <= Len(s)
  BY <1>1
<1>5. QED
  BY <1>1, <1>2, <1>3, <1>4

\* Zeros as a sequence of numbers.
LEMMA ZerosPicked ==
  ASSUME NEW z \in Nat
  PROVE  \E w \in Seq(Nat) : w = Zeros(z) /\ Len(w) = z /\ \A i \in 1..z : w[i] = 0
<1>1. Zeros(z) \in Seq(0..(1 - 1)) /\ Len(Zeros(z)) = z /\ \A i \in 1..z : Zeros(z)[i] = 0
  <2>1. 1 \in Nat \ {0}
    OBVIOUS
  <2>2. QED
    BY <2>1, ZerosIs
<1>2. Zeros(z) \in Seq(Nat)
  BY <1>1, DigitsAreNats
<1> DEFINE w == Zeros(z)
<1> HIDE DEF w
<1>3. w \in Seq(Nat) /\ w = Zeros(z) /\ Len(w) = z /\ \A i \in 1..z : w[i] = 0
  BY <1>1, <1>2 DEF w
<1>4. QED
  BY <1>3

(* What a sequence of nothing but zeros and then a canonical one opens with. *)
LEMMA LeadingZerosIs ==
  ASSUME NEW z \in Nat, NEW t \in Seq(Nat), Canonical(t)
  PROVE  LeadingZeros(Zeros(z) \o t) = z
<1> DEFINE s == Zeros(z) \o t
           V == {i \in 0..Len(s) : i = Len(s) \/ s[i + 1] # 0}
<1>1. PICK w \in Seq(Nat) : w = Zeros(z) /\ Len(w) = z /\ \A i \in 1..z : w[i] = 0
  BY ZerosPicked
<1>2. /\ Len(s) = z + Len(t) /\ Len(t) \in Nat
      /\ \A i \in 1..z : s[i] = 0
      /\ \A i \in 1..Len(t) : s[z + i] = t[i]
  <2>1. s = w \o t
    BY <1>1
  <2> HIDE DEF s
  <2>2. /\ Len(s) = Len(w) + Len(t) /\ Len(t) \in Nat
        /\ \A i \in 1..Len(w) : s[i] = w[i]
        /\ \A i \in 1..Len(t) : s[Len(w) + i] = t[i]
    BY <2>1, ConcatIs
  <2>3. QED
    BY <1>1, <2>2
<1> HIDE DEF s
<1>3. z \in V
  <2>1. CASE t = << >>
    BY <1>2, <2>1, EmptySeq
  <2>2. CASE t # << >>
    <3>1. Len(t) # 0 /\ t[1] # 0
      BY <2>2, EmptySeq DEF Canonical
    <3>2. s[z + 1] = t[1]
      BY <1>2, <3>1
    <3>3. QED
      BY <1>2, <3>1, <3>2
  <2>3. QED
    BY <2>1, <2>2
<1>4. ASSUME NEW i \in V PROVE z <= i
  <2> SUFFICES ASSUME i < z PROVE FALSE
    BY <1>2
  <2>1. i + 1 \in 1..z /\ i # Len(s)
    BY <1>2
  <2>2. QED
    BY <1>2, <2>1
<1>5. V \in SUBSET Nat
  BY <1>2
<1>6. LeadingZeros(s) = Min(V)
  BY DEF LeadingZeros
<1>7. Min(V) \in V /\ Min(V) <= z
  <2> HIDE DEF V
  <2>1. QED
    BY <1>3, <1>5, LeastNat
<1>8. Min(V) = z
  BY <1>4, <1>5, <1>7
<1>9. QED
  BY <1>6, <1>8 DEF s

(* Every sequence is so made. *)
LEMMA ZerosApart ==
  ASSUME NEW A \in SUBSET Nat, NEW s \in Seq(A)
  PROVE  /\ LeadingZeros(s) \in 0..Len(s)
         /\ \E t \in Seq(A) : Canonical(t) /\ s = Zeros(LeadingZeros(s)) \o t
<1> DEFINE V == {i \in 0..Len(s) : i = Len(s) \/ s[i + 1] # 0}
           z == LeadingZeros(s)
           n == Len(s)
           t == [i \in 1..(n - z) |-> s[z + i]]
<1>1. n \in Nat /\ \A i \in 1..n : s[i] \in A
  BY LenProperties, ElementOfSeq
<1>2. z \in V /\ \A y \in V : z <= y
  <2>1. V \in SUBSET Nat /\ n \in V
    BY <1>1
  <2>2. z = Min(V)
    BY DEF LeadingZeros
  <2> HIDE DEF V, z
  <2>3. QED
    BY <2>1, <2>2, LeastNat
<1>3. z \in 0..n /\ (z = n \/ s[z + 1] # 0)
  BY <1>2
<1>4. ASSUME NEW i \in 1..z PROVE s[i] = 0
  <2>1. i - 1 \in 0..n /\ ~(z <= i - 1) /\ i - 1 # n /\ (i - 1) + 1 = i
    BY <1>1, <1>3
  <2>2. i - 1 \notin V
    BY <1>2, <2>1
  <2>3. QED
    BY <2>1, <2>2
<1> HIDE DEF z
<1>5. t \in Seq(A) /\ Len(t) = n - z /\ \A i \in 1..(n - z) : t[i] = s[z + i]
  <2>1. n - z \in Nat /\ t \in [1..(n - z) -> A]
    BY <1>1, <1>3
  <2>2. QED
    BY <2>1, SeqDef
<1> HIDE DEF t
<1>6. Canonical(t)
  <2> SUFFICES ASSUME t # << >> PROVE t[1] # 0
    BY DEF Canonical
  <2>1. n - z # 0
    BY <1>5, EmptySeq
  <2>2. QED
    BY <1>1, <1>3, <1>5, <2>1
<1>7. s = Zeros(z) \o t
  <2>1. PICK w \in Seq(Nat) : w = Zeros(z) /\ Len(w) = z /\ \A i \in 1..z : w[i] = 0
    BY <1>1, <1>3, ZerosPicked
  <2>2. s \in Seq(Nat) /\ t \in Seq(Nat)
    BY <1>5, SeqMonotonic
  <2>3. PICK u \in Seq(Nat) : u = w \o t
    BY <2>1, <2>2, ConcatIs
  <2>4. Len(u) = n
    <3>1. Len(u) = Len(w) + Len(t)
      BY <2>1, <2>2, <2>3, ConcatIs
    <3>2. QED
      BY <1>1, <1>3, <1>5, <2>1, <3>1
  <2>5. ASSUME NEW i \in 1..n PROVE s[i] = u[i]
    <3>1. CASE i <= z
      <4>1. i \in 1..z
        BY <1>3, <3>1
      <4>2. QED
        BY <1>4, <2>1, <2>2, <2>3, <4>1, ConcatIs
    <3>2. CASE ~(i <= z)
      <4>1. PICK j \in 1..(n - z) : i = z + j
        <5>1. i - z \in 1..(n - z) /\ i = z + (i - z)
          BY <1>1, <1>3, <3>2
        <5>2. QED
          BY <5>1
      <4>2. j \in 1..Len(t)
        BY <1>5
      <4>3. u[Len(w) + j] = t[j]
        BY <2>2, <2>3, <4>2, ConcatIs
      <4>4. QED
        BY <1>5, <2>1, <4>1, <4>3
    <3>3. QED
      BY <3>1, <3>2
  <2>6. s = u
    BY <2>2, <2>3, <2>4, <2>5, SeqEqual
  <2>7. QED
    BY <2>1, <2>3, <2>6
<1>8. QED
  BY <1>3, <1>5, <1>6, <1>7 DEF z

(* Leading zeros change nothing of the number. *)
LEMMA NumberSkipsZeros ==
  ASSUME NEW z \in Nat, NEW r \in Nat, NEW t \in Seq(Nat)
  PROVE  Number(Zeros(z) \o t, r) = Number(t, r)
<1>1. Number(Zeros(z), r) = 0
  <2> DEFINE L == {k \in Nat : Number(Zeros(k), r) = 0}
  <2>1. 0 \in L
    <3>1. Zeros(0) = << >>
      <4>1. PICK w \in Seq(Nat) : w = Zeros(0) /\ Len(w) = 0
        BY ZerosPicked
      <4>2. QED
        BY <4>1, EmptySeq
    <3>2. QED
      BY <3>1, NumberEmpty
  <2>2. ASSUME NEW k \in Nat, k \in L PROVE k + 1 \in L
    <3>1. PICK w \in Seq(Nat) : w = Zeros(k) /\ Len(w) = k /\ \A i \in 1..k : w[i] = 0
      BY ZerosPicked
    <3>2. PICK u \in Seq(Nat) : u = Zeros(k + 1) /\ Len(u) = k + 1 /\ \A i \in 1..(k + 1) : u[i] = 0
      BY ZerosPicked
    <3>3. PICK v \in Seq(Nat) : v = Append(w, 0)
      BY AppendIs
    <3>4. Len(v) = k + 1 /\ (\A i \in 1..Len(w) : v[i] = w[i]) /\ v[Len(w) + 1] = 0
      <4>1. 0 \in Nat
        OBVIOUS
      <4>2. /\ Len(Append(w, 0)) = Len(w) + 1 /\ (\A i \in 1..Len(w) : Append(w, 0)[i] = w[i])
            /\ Append(w, 0)[Len(w) + 1] = 0
        BY <4>1, AppendIs
      <4>3. QED
        BY <3>1, <3>3, <4>2
    <3>5. ASSUME NEW i \in 1..(k + 1) PROVE u[i] = v[i]
      <4>1. CASE i = k + 1
        BY <3>1, <3>2, <3>4, <4>1
      <4>2. CASE i # k + 1
        <5>1. i \in 1..k
          BY <4>2
        <5>2. QED
          BY <3>1, <3>2, <3>4, <5>1
      <4>3. QED
        BY <4>1, <4>2
    <3>6. u = v
      BY <3>2, <3>4, <3>5, SeqEqual
    <3>7. Number(v, r) = Number(w, r) * r + 0
      BY <3>3, NumberAppend
    <3>8. Number(w, r) = 0
      BY <2>2, <3>1
    <3>9. QED
      BY <3>2, <3>6, <3>7, <3>8
  <2>3. Nat \subseteq L
    <3> HIDE DEF L
    <3>1. QED
      BY <2>1, <2>2, Induction
  <2>4. QED
    BY <2>3
<1>2. PICK w \in Seq(Nat) : w = Zeros(z)
  BY ZerosPicked
<1> DEFINE S == {u \in Seq(Nat) : Number(w \o u, r) = Number(u, r)}
<1>3. << >> \in S
  <2>1. << >> \in Seq(Nat) /\ w \o << >> = w
    BY EmptySeq, ConcatEmptySeq
  <2>2. QED
    BY <1>1, <1>2, <2>1, NumberEmpty
<1>4. ASSUME NEW u \in Seq(Nat), NEW d \in Nat, u \in S PROVE Append(u, d) \in S
  <2>1. PICK v \in Seq(Nat) : v = w \o u
    BY ConcatIs
  <2>2. w \o Append(u, d) = Append(v, d)
    <3>1. PICK a \in Seq(Nat) : a = Append(u, d)
      BY AppendIs
    <3>2. PICK b \in Seq(Nat) : b = w \o a
      BY ConcatIs
    <3>3. PICK c \in Seq(Nat) : c = Append(v, d)
      BY AppendIs
    <3>4. /\ Len(v) = Len(w) + Len(u) /\ Len(w) \in Nat /\ Len(u) \in Nat
          /\ \A i \in 1..Len(w) : v[i] = w[i]
          /\ \A i \in 1..Len(u) : v[Len(w) + i] = u[i]
      BY <2>1, ConcatIs
    <3>5. Len(a) = Len(u) + 1 /\ (\A i \in 1..Len(u) : a[i] = u[i]) /\ a[Len(u) + 1] = d
      BY <3>1, AppendIs
    <3>6. /\ Len(b) = Len(w) + Len(a)
          /\ \A i \in 1..Len(w) : b[i] = w[i]
          /\ \A i \in 1..Len(a) : b[Len(w) + i] = a[i]
      BY <3>2, ConcatIs
    <3>7. Len(c) = Len(v) + 1 /\ (\A i \in 1..Len(v) : c[i] = v[i]) /\ c[Len(v) + 1] = d
      BY <3>3, AppendIs
    <3>8. ASSUME NEW i \in 1..Len(b) PROVE b[i] = c[i]
      <4>1. CASE i <= Len(w)
        <5>1. i \in 1..Len(w) /\ i \in 1..Len(v)
          BY <3>4, <4>1
        <5>2. QED
          BY <3>4, <3>6, <3>7, <5>1
      <4>2. CASE ~(i <= Len(w)) /\ i <= Len(v)
        <5>1. PICK j \in 1..Len(u) : i = Len(w) + j
          <6>1. i - Len(w) \in 1..Len(u) /\ i = Len(w) + (i - Len(w))
            BY <3>4, <4>2, SMTT(30)
          <6>2. QED
            BY <6>1
        <5>2. j \in 1..Len(a) /\ i \in 1..Len(v)
          BY <3>4, <3>5, <4>2
        <5>3. QED
          BY <3>4, <3>5, <3>6, <3>7, <5>1, <5>2
      <4>3. CASE ~(i <= Len(v))
        <5>1. i = Len(v) + 1 /\ i = Len(w) + (Len(u) + 1) /\ Len(u) + 1 \in 1..Len(a)
          <6>1. Len(b) = Len(v) + 1 /\ Len(v) = Len(w) + Len(u) /\ Len(w) \in Nat /\ Len(u) \in Nat
            BY <3>4, <3>5, <3>6
          <6>2. i = Len(v) + 1
            <7>1. PICK m \in Nat : m = Len(v)
              BY <6>1
            <7>2. i \in 1..(m + 1)
              BY <6>1, <7>1
            <7>3. ~(i <= m)
              BY <4>3, <7>1
            <7>4. i = m + 1
              BY ONLY <7>2, <7>3, m \in Nat
            <7>5. QED
              BY <7>1, <7>4
          <6>3. QED
            BY <3>5, <6>1, <6>2
        <5>2. QED
          BY <3>5, <3>6, <3>7, <5>1
      <4>4. QED
        BY <4>1, <4>2, <4>3
    <3>9. Len(b) = Len(c)
      BY <3>4, <3>5, <3>6, <3>7
    <3>10. b = c
      BY <3>8, <3>9, SeqEqual
    <3>11. QED
      BY <3>1, <3>2, <3>3, <3>10
  <2>3. Number(Append(v, d), r) = Number(v, r) * r + d
    BY NumberAppend
  <2>4. Number(Append(u, d), r) = Number(u, r) * r + d
    BY NumberAppend
  <2>5. Number(v, r) = Number(u, r)
    BY <1>4, <2>1
  <2>6. Append(u, d) \in Seq(Nat)
    BY AppendIs
  <2>7. QED
    BY <2>2, <2>3, <2>4, <2>5, <2>6
<1>5. Seq(Nat) \subseteq S
  <2> HIDE DEF S
  <2>1. QED
    BY <1>3, <1>4, SequenceInduction
<1>6. QED
  BY <1>2, <1>5

(***************************************************************************)
(* Conversion between radices, as Bitcoin's base58 does it: leading zeros  *)
(* one for one, the number behind them digit by digit.  What comes out is  *)
(* of the number and the zeros that went in, and gives them back.          *)
(***************************************************************************)
LEMMA Conversion ==
  ASSUME NEW r \in Nat \ {0, 1}, NEW q \in Nat \ {0, 1}, NEW s \in Seq(0..(r - 1)),
         NEW u, u = Zeros(LeadingZeros(s)) \o Digits(Number(s, r), q)
  PROVE  u \in Seq(0..(q - 1)) /\ Zeros(LeadingZeros(u)) \o Digits(Number(u, q), r) = s
<1>1. 0..(r - 1) \in SUBSET Nat
  OBVIOUS
<1>2. PICK z \in Nat : z = LeadingZeros(s)
  <2>1. LeadingZeros(s) \in 0..Len(s) /\ Len(s) \in Nat
    BY <1>1, ZerosApart, LenProperties
  <2>2. QED
    BY <2>1
<1>3. PICK t \in Seq(0..(r - 1)) : Canonical(t) /\ s = Zeros(z) \o t
  BY <1>1, <1>2, ZerosApart
<1>4. t \in Seq(Nat) /\ r \in Nat
  BY DigitsAreNats
<1>5. PICK n \in Nat : n = Number(s, r) /\ n = Number(t, r)
  <2>1. Number(s, r) = Number(t, r) /\ Number(t, r) \in Nat
    BY <1>3, <1>4, NumberSkipsZeros, NumberIn
  <2>2. QED
    BY <2>1
<1>6. Digits(n, r) = t
  BY <1>3, <1>5, SpellingIsDigits
<1>7. PICK d \in Seq(0..(q - 1)) : d = Digits(n, q) /\ Canonical(d) /\ Number(d, q) = n
  BY DigitsSpell
<1>8. u = Zeros(z) \o d /\ d \in Seq(Nat) /\ q \in Nat
  BY <1>2, <1>5, <1>7, DigitsAreNats
<1>9. LeadingZeros(u) = z /\ Number(u, q) = n
  BY <1>7, <1>8, LeadingZerosIs, NumberSkipsZeros
<1>10. u \in Seq(0..(q - 1))
  <2>1. Zeros(z) \in Seq(0..(q - 1))
    BY ZerosIs
  <2>2. QED
    BY <1>8, <2>1, ConcatIs
<1>11. QED
  BY <1>3, <1>6, <1>9, <1>10

-----------------------------------------------------------------------------
(* Powers, and what fits so many places. *)
PowerRun(P, b, n) == P[0] = 1 /\ \A k \in 1..n : P[k] = b * P[k - 1]

\* Power multiplies once a step.
LEMMA PowerLoop ==
  ASSUME NEW b \in Nat, NEW n \in Nat
  PROVE  \E P \in [0..n -> Nat] : PowerRun(P, b, n) /\ Power(b, n) = P[n]
<1> DEFINE step == [p \in Nat \X (1..n) |-> b * p[1]]
           before == [m \in 1..n |-> m - 1]
           Eq(P) == P = [k \in 0..n |-> IF k = 0 THEN 1 ELSE b * P[k - 1]]
<1>1. \E P : Eq(P)
  <2>1. step \in [Nat \X (1..n) -> Nat]
    OBVIOUS
  <2>2. before \in [1..n -> Nat] /\ \A m \in 1..n : before[m] < m /\ before[m] = m - 1
    OBVIOUS
  <2>3. PICK F \in [0..n -> Nat] : F[0] = 1 /\ \A m \in 1..n : F[m] = step[<<F[before[m]], m>>]
    <3>1. Earlier(before, n)
      BY <2>2 DEF Earlier
    <3> HIDE DEF step, before
    <3>2. PICK F \in [0..n -> Nat] : Unrolls(F, n, 1, step, before)
      BY <2>1, <2>2, <3>1, Recursion
    <3>3. QED
      BY <3>2 DEF Unrolls
  <2>4. ASSUME NEW k \in 0..n PROVE F[k] = IF k = 0 THEN 1 ELSE b * F[k - 1]
    <3>1. CASE k = 0
      BY <2>3, <3>1
    <3>2. CASE k # 0
      <4>1. k \in 1..n /\ k - 1 \in 0..n
        BY <3>2
      <4>2. step[<<F[k - 1], k>>] = b * F[k - 1]
        BY <4>1
      <4> HIDE DEF step, before
      <4>3. QED
        BY <2>2, <2>3, <3>2, <4>1, <4>2
    <3>3. QED
      BY <3>1, <3>2
  <2>5. QED
    BY <2>4
<1> DEFINE P == CHOOSE P : Eq(P)
<1>2. Eq(P)
  BY <1>1
<1>3. P = [k \in 0..n |-> IF k = 0 THEN 1 ELSE b * P[k - 1]]
  BY <1>2
<1>4. Power(b, n) = P[n]
  BY DEF Power
<1> HIDE DEF P
<1>5. P[0] = 1 /\ \A k \in 1..n : P[k] = b * P[k - 1]
  BY <1>3
<1>6. P \in [0..n -> Nat]
  <2> DEFINE L == {k \in Nat : k \in 0..n => P[k] \in Nat}
  <2>1. 0 \in L
    BY <1>5
  <2>2. ASSUME NEW k \in Nat, k \in L PROVE k + 1 \in L
    <3> SUFFICES ASSUME k + 1 \in 0..n PROVE P[k + 1] \in Nat
      OBVIOUS
    <3>1. k + 1 \in 1..n /\ (k + 1) - 1 = k /\ P[k] \in Nat
      BY <2>2
    <3>2. P[k + 1] = b * P[k]
      BY <1>5, <3>1
    <3>3. PICK p \in Nat : p = P[k]
      BY <3>1
    <3>4. b * p \in Nat
      OBVIOUS
    <3>5. QED
      BY <3>2, <3>3, <3>4
  <2>3. Nat \subseteq L
    <3> HIDE DEF L
    <3>1. QED
      BY <2>1, <2>2, Induction
  <2>4. \A k \in 0..n : P[k] \in Nat
    BY <2>3
  <2>5. DOMAIN P = 0..n /\ P = [k \in DOMAIN P |-> P[k]]
    BY <1>3, Zenon
  <2>6. QED
    BY <2>4, <2>5
<1>7. QED
  BY <1>4, <1>5, <1>6 DEF PowerRun

\* The empty product.
LEMMA PowerZero == \A b \in Nat : Power(b, 0) = 1
<1> TAKE b \in Nat
<1>1. PICK P \in [0..0 -> Nat] : PowerRun(P, b, 0) /\ Power(b, 0) = P[0]
  BY PowerLoop
<1>2. QED
  BY <1>1 DEF PowerRun

\* Powers are numbers.
LEMMA PowerIn ==
  ASSUME NEW b \in Nat, NEW n \in Nat
  PROVE  Power(b, n) \in Nat
<1>1. PICK P \in [0..n -> Nat] : Power(b, n) = P[n]
  BY PowerLoop
<1>2. n \in 0..n
  OBVIOUS
<1>3. QED
  BY <1>1, <1>2

\* One more factor.
LEMMA PowerStep ==
  ASSUME NEW b \in Nat, NEW n \in Nat
  PROVE  Power(b, n + 1) = b * Power(b, n)
<1>1. PICK P \in [0..n -> Nat] : PowerRun(P, b, n) /\ Power(b, n) = P[n]
  BY PowerLoop
<1>2. PICK Q \in [0..(n + 1) -> Nat] : PowerRun(Q, b, n + 1) /\ Power(b, n + 1) = Q[n + 1]
  <2>1. n + 1 \in Nat
    OBVIOUS
  <2>2. QED
    BY <2>1, PowerLoop
<1> DEFINE L == {k \in Nat : k \in 0..n => P[k] = Q[k]}
<1>3. 0 \in L
  BY <1>1, <1>2 DEF PowerRun
<1>4. ASSUME NEW k \in Nat, k \in L PROVE k + 1 \in L
  <2> SUFFICES ASSUME k + 1 \in 0..n PROVE P[k + 1] = Q[k + 1]
    OBVIOUS
  <2>1. k + 1 \in 1..n /\ k + 1 \in 1..(n + 1) /\ (k + 1) - 1 = k /\ P[k] = Q[k]
    BY <1>4
  <2>2. QED
    BY <1>1, <1>2, <2>1 DEF PowerRun
<1>5. Nat \subseteq L
  <2> HIDE DEF L
  <2>1. QED
    BY <1>3, <1>4, Induction
<1>6. P[n] = Q[n] /\ n + 1 \in 1..(n + 1) /\ (n + 1) - 1 = n
  BY <1>5
<1>7. QED
  BY <1>1, <1>2, <1>6 DEF PowerRun

\* Powers are not zero.
LEMMA PowerPositive ==
  ASSUME NEW b \in Nat \ {0}, NEW n \in Nat
  PROVE  Power(b, n) \in Nat \ {0}
<1> DEFINE L == {k \in Nat : Power(b, k) \in Nat \ {0}}
<1>1. 0 \in L
  BY PowerZero
<1>2. ASSUME NEW k \in Nat, k \in L PROVE k + 1 \in L
  <2>1. PICK p \in Nat \ {0} : p = Power(b, k)
    BY <1>2
  <2>2. b * p \in Nat \ {0}
    <3>1. b * p >= 1 * p
      OBVIOUS
    <3>2. QED
      BY <3>1
  <2>3. QED
    BY <2>1, <2>2, PowerStep
<1>3. Nat \subseteq L
  <2> HIDE DEF L
  <2>1. QED
    BY <1>1, <1>2, Induction
<1>4. QED
  BY <1>3

\* So many places hold no more.
LEMMA NumberFits ==
  ASSUME NEW r \in Nat \ {0}, NEW s \in Seq(0..(r - 1))
  PROVE  Number(s, r) \in Nat /\ Number(s, r) < Power(r, Len(s))
<1> DEFINE S == {t \in Seq(0..(r - 1)) : Number(t, r) < Power(r, Len(t))}
<1>1. << >> \in S
  BY EmptySeq, NumberEmpty, PowerZero
<1>2. ASSUME NEW t \in Seq(0..(r - 1)), NEW d \in 0..(r - 1), t \in S PROVE Append(t, d) \in S
  <2>1. t \in Seq(Nat) /\ d \in Nat /\ r \in Nat /\ Len(t) \in Nat
    BY DigitsAreNats, LenProperties
  <2>2. PICK m \in Nat, p \in Nat : m = Number(t, r) /\ p = Power(r, Len(t))
    BY <2>1, NumberIn, PowerIn
  <2>3. Number(Append(t, d), r) = m * r + d
    BY <2>1, <2>2, NumberAppend
  <2>4. Append(t, d) \in Seq(0..(r - 1)) /\ Len(Append(t, d)) = Len(t) + 1
    BY AppendIs
  <2>5. Power(r, Len(t) + 1) = r * p
    BY <2>1, <2>2, PowerStep
  <2>6. m * r + d < r * p
    <3>1. m + 1 <= p
      BY <1>2, <2>2
    <3>2. r * (m + 1) <= r * p
      BY <3>1
    <3>3. r * (m + 1) = m * r + r
      OBVIOUS
    <3>4. PICK x \in Nat, y \in Nat : x = m * r /\ y = r * p
      OBVIOUS
    <3>5. x + r <= y
      BY <3>2, <3>3, <3>4
    <3>6. x + d < y
      BY <3>5
    <3>7. QED
      BY <3>4, <3>6
  <2>7. QED
    BY <2>3, <2>4, <2>5, <2>6
<1>3. Seq(0..(r - 1)) \subseteq S
  <2> HIDE DEF S
  <2>1. QED
    BY <1>1, <1>2, SequenceInduction
<1>4. s \in Seq(Nat)
  BY DigitsAreNats
<1>5. QED
  BY <1>3, <1>4, NumberIn

\* What is less has no more digits.
LEMMA DigitsFit ==
  ASSUME NEW r \in Nat \ {0, 1}, NEW w \in Nat, NEW n \in Nat, n < Power(r, w)
  PROVE  Len(Digits(n, r)) \in 0..w
<1> DEFINE L == {k \in Nat : \A m \in Nat : m < Power(r, k) => Len(Digits(m, r)) \in 0..k}
<1>1. 0 \in L
  <2> SUFFICES ASSUME NEW m \in Nat, m < Power(r, 0) PROVE Len(Digits(m, r)) \in 0..0
    OBVIOUS
  <2>1. m = 0
    BY PowerZero
  <2>2. QED
    BY <2>1, DigitsZero, EmptySeq
<1>2. ASSUME NEW k \in Nat, k \in L PROVE k + 1 \in L
  <2> SUFFICES ASSUME NEW m \in Nat, m < Power(r, k + 1) PROVE Len(Digits(m, r)) \in 0..(k + 1)
    OBVIOUS
  <2>1. CASE m = 0
    BY <2>1, DigitsZero, EmptySeq
  <2>2. CASE m # 0
    <3>1. m \in Nat \ {0} /\ r \in Nat
      BY <2>2
    <3>2. PICK q \in Nat, d \in 0..(r - 1) : q = m \div r /\ d = m % r /\ m = r * q + d
      BY <3>1, DivisionBelow
    <3>3. PICK p \in Nat : p = Power(r, k) /\ m < r * p
      BY <3>1, PowerIn, PowerStep
    <3>4. q < p
      <4> SUFFICES ASSUME q >= p PROVE FALSE
        OBVIOUS
      <4>1. r * q >= r * p
        OBVIOUS
      <4>2. PICK x \in Nat, y \in Nat : x = r * q /\ y = r * p
        OBVIOUS
      <4>3. x >= y /\ x + d < y
        BY <3>2, <3>3, <4>1, <4>2
      <4>4. QED
        BY <4>3
    <3>5. Len(Digits(q, r)) \in 0..k
      BY <1>2, <3>3, <3>4
    <3>6. PICK t \in Seq(Nat) : t = Digits(q, r)
      BY DigitsIn
    <3>7. Digits(m, r) = Append(t, d) /\ Len(Append(t, d)) = Len(t) + 1
      <4>1. d \in Nat
        OBVIOUS
      <4>2. Digits(m, r) = Append(Digits(m \div r, r), m % r)
        BY <3>1, DigitsStep
      <4>3. Len(Append(t, d)) = Len(t) + 1
        BY <4>1, AppendIs
      <4>4. QED
        BY <3>2, <3>6, <4>2, <4>3
    <3>8. QED
      BY <3>5, <3>6, <3>7
  <2>3. QED
    BY <2>1, <2>2
<1>3. Nat \subseteq L
  <2> HIDE DEF L
  <2>1. QED
    BY <1>1, <1>2, Induction
<1>4. QED
  BY <1>3

(* A number written in so many places: it fits, it spells the number, and nothing else of
   that length does. *)
LEMMA PaddedSpells ==
  ASSUME NEW r \in Nat \ {0, 1}, NEW w \in Nat, NEW n \in Nat, n < Power(r, w)
  PROVE  /\ Padded(n, r, w) \in Seq(0..(r - 1)) /\ Len(Padded(n, r, w)) = w
         /\ Number(Padded(n, r, w), r) = n
<1>1. PICK d \in Seq(0..(r - 1)) : d = Digits(n, r) /\ Number(d, r) = n
  BY DigitsSpell
<1>2. PICK z \in Nat : z = w - Len(d) /\ Len(d) \in Nat
  <2>1. Len(d) \in 0..w
    BY <1>1, DigitsFit
  <2>2. w - Len(d) \in Nat
    BY <2>1
  <2>3. QED
    BY <2>1, <2>2
<1>3. Padded(n, r, w) = Zeros(z) \o d
  BY <1>1, <1>2 DEF Padded
<1>4. d \in Seq(Nat) /\ r \in Nat
  BY DigitsAreNats
<1>5. PICK o \in Seq(0..(r - 1)) : o = Zeros(z) /\ Len(o) = z
  BY ZerosIs
<1>6. o \o d \in Seq(0..(r - 1)) /\ Len(o \o d) = Len(o) + Len(d)
  BY ConcatIs
<1>7. Number(o \o d, r) = n
  BY <1>1, <1>4, <1>5, NumberSkipsZeros
<1>8. z + Len(d) = w
  BY <1>2
<1>9. QED
  BY <1>3, <1>5, <1>6, <1>7, <1>8

\* A spelling of known length is the padded digits of its number.
LEMMA SpellingIsPadded ==
  ASSUME NEW r \in Nat \ {0, 1}, NEW s \in Seq(0..(r - 1))
  PROVE  Padded(Number(s, r), r, Len(s)) = s
<1>1. 0..(r - 1) \in SUBSET Nat
  OBVIOUS
<1>2. PICK z \in Nat : z = LeadingZeros(s)
  <2>1. LeadingZeros(s) \in 0..Len(s) /\ Len(s) \in Nat
    BY <1>1, ZerosApart, LenProperties
  <2>2. QED
    BY <2>1
<1>3. PICK t \in Seq(0..(r - 1)) : Canonical(t) /\ s = Zeros(z) \o t
  BY <1>1, <1>2, ZerosApart
<1>4. t \in Seq(Nat) /\ r \in Nat
  BY DigitsAreNats
<1>5. Number(s, r) = Number(t, r)
  BY <1>3, <1>4, NumberSkipsZeros
<1>6. Digits(Number(s, r), r) = t
  BY <1>3, <1>5, SpellingIsDigits
<1>7. Len(s) - Len(t) = z
  <2>1. PICK o \in Seq(0..(r - 1)) : o = Zeros(z) /\ Len(o) = z
    BY ZerosIs
  <2>2. Len(o \o t) = Len(o) + Len(t) /\ Len(t) \in Nat
    BY ConcatIs
  <2>3. Len(s) = z + Len(t)
    BY <1>3, <2>1, <2>2
  <2>4. QED
    BY <2>2, <2>3
<1>8. QED
  BY <1>3, <1>6, <1>7 DEF Padded

-----------------------------------------------------------------------------
(* Order: numbers of so many places are ordered as their digits are. *)

Below(s, t) == Len(s) = Len(t) /\ \A i \in 1..Len(s) : s[i] <= t[i]

Shortened(t, s, A) == \E u \in Seq(A), e \in A : t = Append(u, e) /\ Len(u) = Len(s)

\* Of two sequences of one length, what is said of them is said of all but their last digits.
LEMMA BothApart ==
  ASSUME NEW A, NEW s \in Seq(A), NEW d \in A, NEW t \in Seq(A), Len(t) = Len(Append(s, d))
  PROVE  Shortened(t, s, A)
<1>1. Len(t) = Len(s) + 1 /\ Len(s) \in Nat
  BY AppendIs, LenProperties
<1>2. t # << >>
  BY <1>1, EmptySeq
<1>3. PICK u \in Seq(A), e \in A : t = Append(u, e) /\ Len(t) = Len(u) + 1
  BY <1>2, LastApart
<1>4. Len(u) \in Nat
  BY LenProperties
<1>5. QED
  BY <1>1, <1>3, <1>4 DEF Shortened

\* Digits none of which is greater make no greater number.
LEMMA NumberGrows ==
  ASSUME NEW r \in Nat \ {0}, NEW s \in Seq(0..(r - 1)), NEW t \in Seq(0..(r - 1)), Below(s, t)
  PROVE  Number(s, r) <= Number(t, r)
<1> DEFINE D == 0..(r - 1)
           Ok(v) == \A w \in Seq(D) : Below(v, w) => Number(v, r) <= Number(w, r)
           S == {v \in Seq(D) : Ok(v)}
<1>0. \A w, x, y, z \in Nat : w <= x /\ y <= z => w + y <= x + z
  OBVIOUS
<1>1. << >> \in S
  <2>1. ASSUME NEW w \in Seq(D), Below(<< >>, w) PROVE w = << >>
    BY <2>1, EmptySeq DEF Below
  <2>2. << >> \in Seq(D) /\ Number(<< >>, r) = 0
    BY EmptySeq, NumberEmpty
  <2>3. QED
    BY <2>1, <2>2
<1>2. ASSUME NEW v \in Seq(D), NEW d \in D, v \in S PROVE Append(v, d) \in S
  <2>1. Append(v, d) \in Seq(D)
    BY AppendIs
  <2>2. ASSUME NEW w \in Seq(D), Below(Append(v, d), w) PROVE Number(Append(v, d), r) <= Number(w, r)
    <3>1. PICK u \in Seq(D), e \in D : w = Append(u, e) /\ Len(u) = Len(v)
      <4>1. Len(w) = Len(Append(v, d))
        BY <2>2 DEF Below
      <4>2. Shortened(w, v, D)
        BY <4>1, BothApart
      <4>3. QED
        BY <4>2 DEF Shortened
    <3>2. PICK n \in Nat : n = Len(v) /\ Len(Append(v, d)) = n + 1
      BY AppendIs, LenProperties
    <3>3. /\ \A i \in 1..n : Append(v, d)[i] = v[i] /\ w[i] = u[i]
          /\ Append(v, d)[n + 1] = d /\ w[n + 1] = e
      <4>1. (\A i \in 1..n : Append(v, d)[i] = v[i]) /\ Append(v, d)[n + 1] = d
        BY <3>2, AppendIs
      <4>2. (\A i \in 1..n : w[i] = u[i]) /\ w[n + 1] = e
        BY <3>1, <3>2, AppendIs
      <4>3. QED
        BY <4>1, <4>2
    <3>4. \A i \in 1..(n + 1) : Append(v, d)[i] <= w[i]
      BY <2>2, <3>2 DEF Below
    <3>5. d <= e /\ Below(v, u)
      <4>1. n + 1 \in 1..(n + 1) /\ 1..n \subseteq 1..(n + 1)
        OBVIOUS
      <4>2. d <= e
        BY <3>3, <3>4, <4>1
      <4>3. \A i \in 1..n : v[i] <= u[i]
        BY <3>3, <3>4, <4>1
      <4>4. QED
        BY <3>1, <3>2, <4>2, <4>3 DEF Below
    <3>6. v \in Seq(Nat) /\ u \in Seq(Nat) /\ d \in Nat /\ e \in Nat /\ r \in Nat
      BY DigitsAreNats
    <3>7. PICK a \in Nat, b \in Nat : a = Number(v, r) /\ b = Number(u, r)
      BY <3>6, NumberIn
    <3>8. a <= b
      BY <1>2, <3>5, <3>7
    <3>9. Number(Append(v, d), r) = a * r + d
      BY <3>6, <3>7, NumberAppend
    <3>10. Number(w, r) = b * r + e
      BY <3>1, <3>6, <3>7, NumberAppend
    <3>11. a * r <= b * r /\ a * r \in Nat /\ b * r \in Nat
      BY <3>8
    <3>12. a * r + d <= b * r + e
      <4>1. PICK x \in Nat, y \in Nat : x = a * r /\ y = b * r /\ x <= y
        BY <3>11
      <4>2. d <= e /\ d \in Nat /\ e \in Nat
        BY <3>5, <3>6
      <4>3. x + d <= y + e
        BY <1>0, <4>1, <4>2
      <4>4. QED
        BY <4>1, <4>3
    <3>13. QED
      BY <3>9, <3>10, <3>12
  <2>3. QED
    BY <2>1, <2>2
<1>3. Seq(D) \subseteq S
  <2> HIDE DEF S
  <2>1. QED
    BY <1>1, <1>2, SequenceInduction
<1>4. QED
  BY <1>3

\* The order of two numbers is that of their quotients, their last digits aside.
LEMMA QuotientsOrdered ==
  ASSUME NEW r \in Nat \ {0}, NEW a \in Nat, NEW b \in Nat, NEW d \in 0..(r - 1), NEW e \in 0..(r - 1),
         a * r + d <= b * r + e
  PROVE  a <= b
<1>1. ASSUME b + 1 <= a PROVE FALSE
  <2>1. (b + 1) * r <= a * r
    BY <1>1
  <2>2. (b + 1) * r = b * r + r
    OBVIOUS
  <2>3. PICK x \in Nat, y \in Nat : x = a * r /\ y = b * r
    OBVIOUS
  <2>4. y + r <= x /\ x + d <= y + e
    BY <2>1, <2>2, <2>3
  <2>5. QED
    BY <2>4
<1>2. QED
  BY <1>1

Between(s, t, u, r) ==
  /\ Len(t) = Len(s) /\ Len(u) = Len(s)
  /\ Number(s, r) <= Number(t, r) /\ Number(t, r) <= Number(u, r)
Agree(s, u, k) == \A i \in 1..k : s[i] = u[i]

\* A number between two others of as many places opens with the digits both of them open with.
LEMMA BetweenAgrees ==
  ASSUME NEW r \in Nat \ {0, 1}, NEW s \in Seq(0..(r - 1)), NEW t \in Seq(0..(r - 1)), NEW u \in Seq(0..(r - 1)),
         Between(s, t, u, r), NEW k \in 0..Len(s), Agree(s, u, k)
  PROVE  Agree(s, t, k)
<1> DEFINE D == 0..(r - 1)
           Ok(v) == \A w \in Seq(D), x \in Seq(D) : \A j \in 0..Len(v) :
                        Between(v, w, x, r) /\ Agree(v, x, j) => Agree(v, w, j)
           S == {v \in Seq(D) : Ok(v)}
<1>1. << >> \in S
  <2>1. << >> \in Seq(D) /\ Len(<< >>) = 0
    BY EmptySeq
  <2>2. \A j \in 0..0 : 1..j = {}
    OBVIOUS
  <2>3. QED
    BY <2>1, <2>2 DEF Agree
<1>2. ASSUME NEW v \in Seq(D), NEW d \in D, v \in S PROVE Append(v, d) \in S
  <2>1. Append(v, d) \in Seq(D)
    BY AppendIs
  <2>2. PICK n \in Nat : n = Len(v) /\ Len(Append(v, d)) = n + 1
    BY AppendIs, LenProperties
  <2>3. ASSUME NEW w \in Seq(D), NEW x \in Seq(D), NEW j \in 0..(n + 1),
               Between(Append(v, d), w, x, r), Agree(Append(v, d), x, j)
        PROVE  Agree(Append(v, d), w, j)
    <3>0. Len(w) = Len(Append(v, d)) /\ Len(x) = Len(Append(v, d))
      BY <2>3 DEF Between
    <3>1. PICK p \in Seq(D), e \in D : w = Append(p, e) /\ Len(p) = Len(v)
      <4>1. Shortened(w, v, D)
        BY <3>0, BothApart
      <4>2. QED
        BY <4>1 DEF Shortened
    <3>2. PICK q \in Seq(D), f \in D : x = Append(q, f) /\ Len(q) = Len(v)
      <4>1. Shortened(x, v, D)
        BY <3>0, BothApart
      <4>2. QED
        BY <4>1 DEF Shortened
    <3>3. /\ v \in Seq(Nat) /\ p \in Seq(Nat) /\ q \in Seq(Nat)
          /\ d \in Nat /\ e \in Nat /\ f \in Nat /\ r \in Nat /\ r \in Nat \ {0}
      BY DigitsAreNats
    <3>4. PICK a \in Nat, b \in Nat, c \in Nat : a = Number(v, r) /\ b = Number(p, r) /\ c = Number(q, r)
      BY <3>3, NumberIn
    <3>5. Number(Append(v, d), r) = a * r + d
      BY <3>3, <3>4, NumberAppend, SMTT(30)
    <3>6. Number(w, r) = b * r + e
      BY <3>1, <3>3, <3>4, NumberAppend, SMTT(30)
    <3>7. Number(x, r) = c * r + f
      BY <3>2, <3>3, <3>4, NumberAppend
    <3>8. a * r + d <= b * r + e /\ b * r + e <= c * r + f
      BY <2>3, <3>5, <3>6, <3>7 DEF Between
    <3>9. a <= b /\ b <= c
      BY <3>3, <3>8, QuotientsOrdered
    <3>10. Between(v, p, q, r)
      BY <3>1, <3>2, <3>4, <3>9 DEF Between
    <3>11. CASE j <= n
      <4>1. j \in 0..Len(v) /\ 1..j \subseteq 1..n
        BY <2>2, <3>11
      <4>2. \A i \in 1..n : Append(v, d)[i] = v[i]
        BY <2>2, AppendIs
      <4>3. \A i \in 1..n : w[i] = p[i]
        BY <2>2, <3>1, AppendIs
      <4>4. \A i \in 1..n : x[i] = q[i]
        BY <2>2, <3>2, AppendIs
      <4>5. Agree(v, q, j)
        BY <2>3, <4>1, <4>2, <4>4 DEF Agree
      <4>6. Agree(v, p, j)
        BY <1>2, <3>10, <4>1, <4>5
      <4>7. QED
        BY <4>1, <4>2, <4>3, <4>6 DEF Agree
    <3>12. CASE j = n + 1
      <4>1. Append(v, d) = x
        <5>1. Len(x) = n + 1 /\ \A i \in 1..(n + 1) : Append(v, d)[i] = x[i]
          BY <2>2, <2>3, <3>12 DEF Between, Agree
        <5>2. QED
          BY <2>1, <2>2, <5>1, SeqEqual
      <4>2. Number(w, r) = Number(Append(v, d), r)
        <5>1. PICK y \in Nat, z \in Nat : y = Number(w, r) /\ z = Number(Append(v, d), r)
          <6>1. w \in Seq(Nat) /\ Append(v, d) \in Seq(Nat)
            BY <2>1, DigitsAreNats
          <6>2. QED
            BY <3>3, <6>1, NumberIn
        <5>2. QED
          BY <2>3, <4>1, <5>1 DEF Between
      <4>3. Len(w) = Len(Append(v, d))
        BY <2>3 DEF Between
      <4>4. Padded(Number(w, r), r, Len(w)) = w
        BY SpellingIsPadded
      <4>5. Padded(Number(Append(v, d), r), r, Len(Append(v, d))) = Append(v, d)
        BY <2>1, SpellingIsPadded
      <4>6. w = Append(v, d)
        BY <4>2, <4>3, <4>4, <4>5
      <4>7. QED
        BY <4>6 DEF Agree
    <3>13. QED
      BY <3>11, <3>12
  <2>4. QED
    BY <2>1, <2>2, <2>3
<1>3. Seq(D) \subseteq S
  <2> HIDE DEF S
  <2>1. QED
    BY <1>1, <1>2, SequenceInduction
<1>4. QED
  BY <1>3

-----------------------------------------------------------------------------
(* Words under exclusive or: sums of words, and what goes through them. *)

\* A loop that counts one up each time.
Counts(F, n, base, step) == F = [i \in 0..n |-> IF i = 0 THEN base ELSE step[<<F[i - 1], i>>]]

\* It has a function.
LEMMA CountingLoop ==
    ASSUME NEW n \in Nat, NEW V, NEW base \in V, NEW step \in [V \X (1..n) -> V]
    PROVE  \E F \in [0..n -> V] : Counts(F, n, base, step)
<1> DEFINE before == [m \in 1..n |-> m - 1]
<1>1. before \in [1..n -> Nat] /\ Earlier(before, n) /\ \A m \in 1..n : before[m] = m - 1
    BY DEF Earlier
<1> HIDE DEF before
<1>2. PICK F \in [0..n -> V] : Unrolls(F, n, base, step, before)
    BY <1>1, Recursion
<1>3. ASSUME NEW i \in 0..n PROVE F[i] = IF i = 0 THEN base ELSE step[<<F[i - 1], i>>]
    <2>1. CASE i = 0
        BY <1>2, <2>1 DEF Unrolls
    <2>2. CASE i # 0
        <3>1. i \in 1..n
            BY <2>2
        <3> QED
            BY <1>1, <1>2, <2>2, <3>1 DEF Unrolls
    <2> QED
        BY <2>1, <2>2
<1> QED
    BY <1>3 DEF Counts

\* What f gives at i to a sum.
Term(f, i) == IF i \in DOMAIN f THEN f[i] ELSE {}

SumRun(F, f, n) == F[0] = {} /\ \A i \in 1..n : F[i] = Xor(F[i - 1], Term(f, i - 1))

\* A sum is gathered term by term.
LEMMA XorOverLoop ==
    ASSUME NEW f, NEW n \in Nat
    PROVE  \E F : SumRun(F, f, n) /\ XorOver(f, n) = F[n]
<1> DEFINE U == UNION {Term(f, i) : i \in 0..(n - 1)}
           V == SUBSET U
           step == [p \in V \X (1..n) |-> Xor(p[1], Term(f, p[2] - 1))]
           Eq(F) == F = [i \in 0..n |-> IF i = 0 THEN {} ELSE Xor(F[i - 1], Term(f, i - 1))]
<1>1. step \in [V \X (1..n) -> V]
    <2> SUFFICES ASSUME NEW a \in V, NEW m \in 1..n PROVE Xor(a, Term(f, m - 1)) \in V
        OBVIOUS
    <2>1. m - 1 \in 0..(n - 1)
        OBVIOUS
    <2>2. Term(f, m - 1) \in V
        BY <2>1
    <2> HIDE DEF U
    <2> QED
        BY <2>2 DEF Xor
<1>2. {} \in V
    OBVIOUS
<1>3. \E F : Eq(F)
    <2>1. \A a \in V, m \in 1..n : step[<<a, m>>] = Xor(a, Term(f, m - 1))
        OBVIOUS
    <2> HIDE DEF step, V
    <2>2. PICK F \in [0..n -> V] : Counts(F, n, {}, step)
        BY <1>1, <1>2, CountingLoop
    <2>3. ASSUME NEW i \in 0..n PROVE F[i] = IF i = 0 THEN {} ELSE Xor(F[i - 1], Term(f, i - 1))
        <3>1. CASE i = 0
            BY <2>2, <3>1 DEF Counts
        <3>2. CASE i # 0
            <4>1. i \in 1..n /\ i - 1 \in 0..n
                BY <3>2
            <4>2. F[i] = step[<<F[i - 1], i>>] /\ F[i - 1] \in V
                BY <2>2, <3>2, <4>1 DEF Counts
            <4> QED
                BY <2>1, <3>2, <4>1, <4>2
        <3> QED
            BY <3>1, <3>2
    <2> QED
        BY <2>2, <2>3
<1> DEFINE F == CHOOSE F : Eq(F)
<1>4. F = [i \in 0..n |-> IF i = 0 THEN {} ELSE Xor(F[i - 1], Term(f, i - 1))]
    BY <1>3
<1>5. XorOver(f, n) = F[n]
    BY Zenon DEF XorOver, Term
<1> HIDE DEF F
<1>6. F[0] = {} /\ \A i \in 1..n : F[i] = Xor(F[i - 1], Term(f, i - 1))
    <2> DEFINE body(i) == IF i = 0 THEN {} ELSE Xor(F[i - 1], Term(f, i - 1))
    <2>1. F = [i \in 0..n |-> body(i)]
        BY <1>4
    <2>2. body(0) = {} /\ \A i \in 1..n : body(i) = Xor(F[i - 1], Term(f, i - 1))
        OBVIOUS
    <2> HIDE DEF body
    <2> QED
        BY <2>1, <2>2
<1> QED
    BY <1>5, <1>6 DEF SumRun

\* Nothing adds up to nothing.
LEMMA XorOverNone == \A f : XorOver(f, 0) = {}
    BY XorOverLoop DEF SumRun

\* One more term.
LEMMA XorOverStep ==
    ASSUME NEW f, NEW n \in Nat
    PROVE  XorOver(f, n + 1) = Xor(XorOver(f, n), Term(f, n))
<1>1. PICK F : SumRun(F, f, n) /\ XorOver(f, n) = F[n]
    BY XorOverLoop
<1>2. PICK G : SumRun(G, f, n + 1) /\ XorOver(f, n + 1) = G[n + 1]
    BY XorOverLoop
<1> DEFINE L == {k \in Nat : k \in 0..n => F[k] = G[k]}
<1>3. 0 \in L
    BY <1>1, <1>2 DEF SumRun
<1>4. ASSUME NEW k \in Nat, k \in L PROVE k + 1 \in L
    <2> SUFFICES ASSUME k + 1 \in 0..n PROVE F[k + 1] = G[k + 1]
        OBVIOUS
    <2>1. k + 1 \in 1..n /\ k + 1 \in 1..(n + 1) /\ (k + 1) - 1 = k /\ F[k] = G[k]
        BY <1>4
    <2> QED
        BY <1>1, <1>2, <2>1 DEF SumRun
<1>5. Nat \subseteq L
    <2> HIDE DEF L
    <2> QED
        BY <1>3, <1>4, Induction
<1>6. F[n] = G[n] /\ n + 1 \in 1..(n + 1) /\ (n + 1) - 1 = n
    BY <1>5
<1>7. G[n + 1] = Xor(G[n], Term(f, n))
    BY <1>2, <1>6 DEF SumRun
<1> QED
    BY <1>1, <1>2, <1>6, <1>7

\* Two sums of the same terms.
SameTerms(f, g, n) == \A i \in 0..(n - 1) : Term(f, i) = Term(g, i)

\* A sum is of its terms, wherever they come from.
LEMMA XorOverSame ==
    ASSUME NEW f, NEW g, NEW n \in Nat, SameTerms(f, g, n)
    PROVE  XorOver(f, n) = XorOver(g, n)
<1> DEFINE L == {k \in Nat : k <= n => XorOver(f, k) = XorOver(g, k)}
<1>1. 0 \in L
    BY XorOverNone
<1>2. ASSUME NEW k \in Nat, k \in L PROVE k + 1 \in L
    <2> SUFFICES ASSUME k + 1 <= n PROVE XorOver(f, k + 1) = XorOver(g, k + 1)
        OBVIOUS
    <2>1. Term(f, k) = Term(g, k)
        BY DEF SameTerms
    <2>2. XorOver(f, k) = XorOver(g, k)
        BY <1>2
    <2> QED
        BY <2>1, <2>2, XorOverStep
<1>3. Nat \subseteq L
    <2> HIDE DEF L
    <2> QED
        BY <1>1, <1>2, Induction
<1> QED
    BY <1>3

\* The terms of f are among U.
TermsIn(f, n, U) == \A i \in 0..(n - 1) : Term(f, i) \subseteq U

\* A sum has no bit that no term has.
LEMMA XorOverIn ==
    ASSUME NEW f, NEW n \in Nat, NEW U, TermsIn(f, n, U)
    PROVE  XorOver(f, n) \subseteq U
<1> DEFINE L == {k \in Nat : k <= n => XorOver(f, k) \subseteq U}
<1>1. 0 \in L
    BY XorOverNone
<1>2. ASSUME NEW k \in Nat, k \in L PROVE k + 1 \in L
    <2> SUFFICES ASSUME k + 1 <= n PROVE XorOver(f, k + 1) \subseteq U
        OBVIOUS
    <2>1. Term(f, k) \subseteq U
        BY DEF TermsIn
    <2>2. XorOver(f, k) \subseteq U
        BY <1>2
    <2>3. Xor(XorOver(f, k), Term(f, k)) \subseteq U
        BY <2>1, <2>2 DEF Xor
    <2> QED
        BY <2>3, XorOverStep
<1>3. Nat \subseteq L
    <2> HIDE DEF L
    <2> QED
        BY <1>1, <1>2, Induction
<1> QED
    BY <1>3

\* The order in which four words are added up.
LEMMA XorExchanges ==
    \A a, b, c, d : Xor(Xor(a, b), Xor(c, d)) = Xor(Xor(a, c), Xor(b, d))
    BY DEF Xor

\* And three.
LEMMA XorAssociates ==
    \A a, b, c : Xor(Xor(a, b), c) = Xor(a, Xor(b, c))
    BY DEF Xor

\* And two, of which none is nothing and both are, if they are the same.
LEMMA XorIs ==
    \A a, b : /\ Xor(a, b) = Xor(b, a)
              /\ Xor(a, {}) = a /\ Xor({}, a) = a /\ Xor(a, a) = {}
    BY DEF Xor

\* The terms of f are those of g and of h together.
TermsAdd(f, g, h, n) == \A i \in 0..(n - 1) : Term(f, i) = Xor(Term(g, i), Term(h, i))

\* A sum of sums.
LEMMA XorOverAdds ==
    ASSUME NEW f, NEW g, NEW h, NEW n \in Nat, TermsAdd(f, g, h, n)
    PROVE  XorOver(f, n) = Xor(XorOver(g, n), XorOver(h, n))
<1> DEFINE L == {k \in Nat : k <= n => XorOver(f, k) = Xor(XorOver(g, k), XorOver(h, k))}
<1>1. 0 \in L
    BY XorOverNone, XorIs
<1>2. ASSUME NEW k \in Nat, k \in L PROVE k + 1 \in L
    <2> SUFFICES ASSUME k + 1 <= n
                 PROVE  XorOver(f, k + 1) = Xor(XorOver(g, k + 1), XorOver(h, k + 1))
        OBVIOUS
    <2>1. Term(f, k) = Xor(Term(g, k), Term(h, k))
        BY DEF TermsAdd
    <2>2. XorOver(f, k) = Xor(XorOver(g, k), XorOver(h, k))
        BY <1>2
    <2>3. /\ XorOver(f, k + 1) = Xor(XorOver(f, k), Term(f, k))
          /\ XorOver(g, k + 1) = Xor(XorOver(g, k), Term(g, k))
          /\ XorOver(h, k + 1) = Xor(XorOver(h, k), Term(h, k))
        BY XorOverStep
    <2> QED
        BY <2>1, <2>2, <2>3, XorExchanges
<1>3. Nat \subseteq L
    <2> HIDE DEF L
    <2> QED
        BY <1>1, <1>2, Induction
<1> QED
    BY <1>3

\* What keeps sums; and the terms of f are those of g put through it.
Additive(H) ==
    /\ H[{}] = {}
    /\ \A a, b \in SUBSET Nat : H[Xor(a, b)] = Xor(H[a], H[b])
TermsMap(f, g, H, n) == \A i \in 0..(n - 1) : Term(g, i) \subseteq Nat /\ Term(f, i) = H[Term(g, i)]

\* A sum put through what keeps sums.
LEMMA XorOverMaps ==
    ASSUME NEW f, NEW g, NEW H, NEW n \in Nat, Additive(H), TermsMap(f, g, H, n)
    PROVE  XorOver(f, n) = H[XorOver(g, n)]
<1> DEFINE L == {k \in Nat : k <= n => XorOver(f, k) = H[XorOver(g, k)]
                                       /\ XorOver(g, k) \subseteq Nat}
<1>1. 0 \in L
    BY XorOverNone DEF Additive
<1>2. ASSUME NEW k \in Nat, k \in L PROVE k + 1 \in L
    <2> SUFFICES ASSUME k + 1 <= n
                 PROVE  XorOver(f, k + 1) = H[XorOver(g, k + 1)] /\ XorOver(g, k + 1) \subseteq Nat
        OBVIOUS
    <2>1. Term(g, k) \subseteq Nat /\ Term(f, k) = H[Term(g, k)]
        BY DEF TermsMap
    <2>2. XorOver(f, k) = H[XorOver(g, k)] /\ XorOver(g, k) \subseteq Nat
        BY <1>2
    <2>3. /\ XorOver(f, k + 1) = Xor(XorOver(f, k), Term(f, k))
          /\ XorOver(g, k + 1) = Xor(XorOver(g, k), Term(g, k))
        BY XorOverStep
    <2>4. H[Xor(XorOver(g, k), Term(g, k))] = Xor(H[XorOver(g, k)], H[Term(g, k)])
        BY <2>1, <2>2 DEF Additive
    <2>5. XorOver(g, k + 1) \subseteq Nat
        BY <2>1, <2>2, <2>3 DEF Xor
    <2> QED
        BY <2>1, <2>2, <2>3, <2>4, <2>5
<1>3. Nat \subseteq L
    <2> HIDE DEF L
    <2> QED
        BY <1>1, <1>2, Induction
<1> QED
    BY <1>3

\* The terms of h are those of f from m on.
TermsFrom(f, m, h, n) == \A i \in 0..(n - 1) : Term(h, i) = Term(f, m + i)

\* A sum in two parts.
LEMMA XorOverSplits ==
    ASSUME NEW f, NEW m \in Nat, NEW h, NEW n \in Nat, TermsFrom(f, m, h, n)
    PROVE  XorOver(f, m + n) = Xor(XorOver(f, m), XorOver(h, n))
<1> DEFINE L == {k \in Nat : k <= n => XorOver(f, m + k) = Xor(XorOver(f, m), XorOver(h, k))}
<1>1. 0 \in L
    <2>1. XorOver(h, 0) = {} /\ m + 0 = m
        BY XorOverNone
    <2>2. Xor(XorOver(f, m), {}) = XorOver(f, m)
        BY DEF Xor
    <2> QED
        BY <2>1, <2>2
<1>2. ASSUME NEW k \in Nat, k \in L PROVE k + 1 \in L
    <2> SUFFICES ASSUME k + 1 <= n
                 PROVE  XorOver(f, m + (k + 1)) = Xor(XorOver(f, m), XorOver(h, k + 1))
        OBVIOUS
    <2>1. Term(h, k) = Term(f, m + k)
        BY DEF TermsFrom
    <2>2. XorOver(f, m + k) = Xor(XorOver(f, m), XorOver(h, k))
        BY <1>2
    <2>3. m + (k + 1) = (m + k) + 1 /\ m + k \in Nat
        OBVIOUS
    <2>4. /\ XorOver(f, (m + k) + 1) = Xor(XorOver(f, m + k), Term(f, m + k))
          /\ XorOver(h, k + 1) = Xor(XorOver(h, k), Term(h, k))
        BY <2>3, XorOverStep
    <2> QED
        BY <2>1, <2>2, <2>3, <2>4, XorAssociates
<1>3. Nat \subseteq L
    <2> HIDE DEF L
    <2> QED
        BY <1>1, <1>2, Induction
<1> QED
    BY <1>3

-----------------------------------------------------------------------------
(* Shifts and parts of words. *)

\* A shift up of a sum, and of a shift.
LEMMA ShlIs ==
    ASSUME NEW m \in Nat
    PROVE  /\ Shl({}, m) = {}
           /\ \A a \in SUBSET Nat : /\ Shl(a, m) \subseteq Nat
                                    /\ \A k \in Nat : k \in Shl(a, m) <=> k - m \in a
                                    /\ \A n \in Nat : Shl(Shl(a, m), n) = Shl(a, m + n)
           /\ \A a, b \in SUBSET Nat : Shl(Xor(a, b), m) = Xor(Shl(a, m), Shl(b, m))
<1>1. Shl({}, m) = {}
    BY DEF Shl
<1>2. ASSUME NEW a \in SUBSET Nat
      PROVE  Shl(a, m) \subseteq Nat /\ \A k \in Nat : k \in Shl(a, m) <=> k - m \in a
    <2>1. ASSUME NEW k \in Nat, k - m \in a PROVE k \in Shl(a, m)
        <3>1. k = (k - m) + m
            OBVIOUS
        <3> QED
            BY <2>1, <3>1 DEF Shl
    <2>2. ASSUME NEW k \in Shl(a, m) PROVE k \in Nat /\ k - m \in a
        <3>1. PICK i \in a : k = i + m
            BY DEF Shl
        <3>2. i \in Nat /\ k - m = i
            BY <3>1
        <3> QED
            BY <3>1, <3>2
    <2> QED
        BY <2>1, <2>2
<1>3. ASSUME NEW a \in SUBSET Nat, NEW n \in Nat PROVE Shl(Shl(a, m), n) = Shl(a, m + n)
    <2>1. \A i \in a : (i + m) + n = i + (m + n)
        OBVIOUS
    <2>2. Shl(Shl(a, m), n) = {(i + m) + n : i \in a}
        BY DEF Shl
    <2>3. Shl(a, m + n) = {i + (m + n) : i \in a}
        BY DEF Shl
    <2> QED
        BY <2>1, <2>2, <2>3
<1>4. ASSUME NEW a \in SUBSET Nat, NEW b \in SUBSET Nat
      PROVE  Shl(Xor(a, b), m) = Xor(Shl(a, m), Shl(b, m))
    <2>1. Xor(a, b) \in SUBSET Nat /\ Xor(Shl(a, m), Shl(b, m)) \subseteq Nat
        BY <1>2 DEF Xor
    <2>2. ASSUME NEW k \in Nat
          PROVE  k \in Shl(Xor(a, b), m) <=> k \in Xor(Shl(a, m), Shl(b, m))
        BY <1>2, <2>1 DEF Xor
    <2> QED
        BY <1>2, <2>1, <2>2
<1> QED
    BY <1>1, <1>2, <1>3, <1>4

\* The low bits and the high ones of a sum, and of a word.
LEMMA PartsAre ==
    ASSUME NEW m \in Nat
    PROVE  /\ \A a \in SUBSET Nat : /\ Truncated(a, m) \subseteq 0..(m - 1)
                                    /\ Truncated(a, m) \subseteq Nat
                                    /\ Shr(a, m) \subseteq Nat
                                    /\ \A k \in Nat : k \in Shr(a, m) <=> k + m \in a
                                    /\ \A k \in Nat : k \in Truncated(a, m) <=> k \in a /\ k < m
                                    /\ a = Xor(Truncated(a, m), Shl(Shr(a, m), m))
           /\ \A a, b \in SUBSET Nat :
                /\ Truncated(Xor(a, b), m) = Xor(Truncated(a, m), Truncated(b, m))
                /\ Shr(Xor(a, b), m) = Xor(Shr(a, m), Shr(b, m))
           /\ Truncated({}, m) = {} /\ Shr({}, m) = {}
<1>1. ASSUME NEW a \in SUBSET Nat
      PROVE  /\ Truncated(a, m) \subseteq 0..(m - 1) /\ Truncated(a, m) \subseteq Nat
             /\ \A k \in Nat : k \in Truncated(a, m) <=> k \in a /\ k < m
    <2>1. \A k : k \in Truncated(a, m) <=> k \in a /\ k < m
        BY DEF Truncated
    <2>2. ASSUME NEW k \in Truncated(a, m) PROVE k \in Nat /\ k \in 0..(m - 1)
        <3>1. k \in Nat /\ k < m
            BY <2>1
        <3> QED
            BY <3>1
    <2> QED
        BY <2>1, <2>2
<1>2. ASSUME NEW a \in SUBSET Nat
      PROVE  Shr(a, m) \subseteq Nat /\ \A k \in Nat : k \in Shr(a, m) <=> k + m \in a
    <2>1. ASSUME NEW k \in Nat, k + m \in a PROVE k \in Shr(a, m)
        <3>1. k + m \in {j \in a : j >= m} /\ k = (k + m) - m
            BY <2>1
        <3> QED
            BY <3>1 DEF Shr
    <2>2. ASSUME NEW k \in Shr(a, m) PROVE k \in Nat /\ k + m \in a
        BY DEF Shr
    <2> QED
        BY <2>1, <2>2
<1>3. ASSUME NEW a \in SUBSET Nat PROVE a = Xor(Truncated(a, m), Shl(Shr(a, m), m))
    <2>1. Shl(Shr(a, m), m) \subseteq Nat
          /\ \A k \in Nat : k \in Shl(Shr(a, m), m) <=> k - m \in Shr(a, m)
        BY <1>2, ShlIs
    <2>2. \A k \in Nat : k - m \in Shr(a, m) <=> k \in a /\ k >= m
        <3> TAKE k \in Nat
        <3>1. CASE k >= m
            <4>1. k - m \in Nat /\ (k - m) + m = k
                BY <3>1
            <4> QED
                BY <1>2, <3>1, <4>1
        <3>2. CASE ~(k >= m)
            BY <1>2, <3>2
        <3> QED
            BY <3>1, <3>2
    <2>3. \A k \in Nat : k \in Xor(Truncated(a, m), Shl(Shr(a, m), m)) <=> k \in a
        BY <1>1, <2>1, <2>2 DEF Xor
    <2>4. Xor(Truncated(a, m), Shl(Shr(a, m), m)) \subseteq Nat
        BY <1>1, <2>1 DEF Xor
    <2> QED
        BY <2>3, <2>4
<1>4. ASSUME NEW a \in SUBSET Nat, NEW b \in SUBSET Nat
      PROVE  /\ Truncated(Xor(a, b), m) = Xor(Truncated(a, m), Truncated(b, m))
             /\ Shr(Xor(a, b), m) = Xor(Shr(a, m), Shr(b, m))
    <2>1. Truncated(Xor(a, b), m) = Xor(Truncated(a, m), Truncated(b, m))
        BY DEF Truncated, Xor
    <2>2. Xor(a, b) \in SUBSET Nat /\ Xor(Shr(a, m), Shr(b, m)) \subseteq Nat
        BY <1>2 DEF Xor
    <2>3. ASSUME NEW k \in Nat
          PROVE  k \in Shr(Xor(a, b), m) <=> k \in Xor(Shr(a, m), Shr(b, m))
        BY <1>2, <2>2 DEF Xor
    <2> QED
        BY <1>2, <2>1, <2>2, <2>3
<1>5. Truncated({}, m) = {} /\ Shr({}, m) = {}
    BY DEF Truncated, Shr
<1> QED
    BY <1>1, <1>2, <1>3, <1>4, <1>5

\* Carry-less products, as functions of either factor.
LEMMA ProductTerms ==
    \A x, y, i : Term([j \in y |-> Shl(x, j)], i) = IF i \in y THEN Shl(x, i) ELSE {}
    BY DEF Term

\* A product in each of its factors: of sums, of shifts, in two parts, and how long it is.
LEMMA ProductAdds ==
    ASSUME NEW n \in Nat, NEW x1 \in SUBSET Nat, NEW x2 \in SUBSET Nat, NEW y
    PROVE  clmul_bitwise(n, Xor(x1, x2), y)
           = Xor(clmul_bitwise(n, x1, y), clmul_bitwise(n, x2, y))
<1> DEFINE f == [j \in y |-> Shl(Xor(x1, x2), j)]
           g == [j \in y |-> Shl(x1, j)]
           h == [j \in y |-> Shl(x2, j)]
<1>1. TermsAdd(f, g, h, n)
    <2>1. ASSUME NEW i \in 0..(n - 1) PROVE Term(f, i) = Xor(Term(g, i), Term(h, i))
        <3>1. Shl(Xor(x1, x2), i) = Xor(Shl(x1, i), Shl(x2, i))
            BY ShlIs
        <3>2. /\ Term(f, i) = IF i \in y THEN Shl(Xor(x1, x2), i) ELSE {}
              /\ Term(g, i) = IF i \in y THEN Shl(x1, i) ELSE {}
              /\ Term(h, i) = IF i \in y THEN Shl(x2, i) ELSE {}
            BY ProductTerms
        <3> HIDE DEF f, g, h
        <3> QED
            BY <3>1, <3>2, XorIs
    <2> QED
        BY <2>1 DEF TermsAdd
<1> HIDE DEF f, g, h
<1>2. XorOver(f, n) = Xor(XorOver(g, n), XorOver(h, n))
    BY <1>1, XorOverAdds
<1> QED
    BY <1>2 DEF clmul_bitwise, f, g, h

\* The other factor a sum.
LEMMA ProductAddsRight ==
    ASSUME NEW n \in Nat, NEW x \in SUBSET Nat, NEW y1, NEW y2
    PROVE  clmul_bitwise(n, x, Xor(y1, y2))
           = Xor(clmul_bitwise(n, x, y1), clmul_bitwise(n, x, y2))
<1> DEFINE f == [j \in Xor(y1, y2) |-> Shl(x, j)]
           g == [j \in y1 |-> Shl(x, j)]
           h == [j \in y2 |-> Shl(x, j)]
<1>1. TermsAdd(f, g, h, n)
    <2>1. ASSUME NEW i \in 0..(n - 1) PROVE Term(f, i) = Xor(Term(g, i), Term(h, i))
        <3>1. i \in Xor(y1, y2) <=> ((i \in y1) # (i \in y2))
            BY DEF Xor
        <3>2. /\ Term(f, i) = IF i \in Xor(y1, y2) THEN Shl(x, i) ELSE {}
              /\ Term(g, i) = IF i \in y1 THEN Shl(x, i) ELSE {}
              /\ Term(h, i) = IF i \in y2 THEN Shl(x, i) ELSE {}
            BY ProductTerms
        <3> HIDE DEF f, g, h
        <3> QED
            BY <3>1, <3>2, XorIs
    <2> QED
        BY <2>1 DEF TermsAdd
<1> HIDE DEF f, g, h
<1>2. XorOver(f, n) = Xor(XorOver(g, n), XorOver(h, n))
    BY <1>1, XorOverAdds
<1> QED
    BY <1>2 DEF clmul_bitwise, f, g, h

\* A product is of numbered bits, as many as both factors have but one.
LEMMA ProductIn ==
    ASSUME NEW n \in Nat, NEW d \in Nat, NEW x \in SUBSET (0..(d - 1)), NEW y
    PROVE  clmul_bitwise(n, x, y) \subseteq 0..(d + n - 2) /\ clmul_bitwise(n, x, y) \subseteq Nat
<1> DEFINE f == [j \in y |-> Shl(x, j)]
<1>1. TermsIn(f, n, 0..(d + n - 2))
    <2>1. ASSUME NEW i \in 0..(n - 1) PROVE Shl(x, i) \subseteq 0..(d + n - 2)
        BY DEF Shl
    <2>2. \A i \in 0..(n - 1) : Term(f, i) = IF i \in y THEN Shl(x, i) ELSE {}
        BY ProductTerms
    <2> HIDE DEF f
    <2> QED
        BY <2>1, <2>2 DEF TermsIn
<1> HIDE DEF f
<1>2. XorOver(f, n) \subseteq 0..(d + n - 2)
    BY <1>1, XorOverIn
<1> QED
    BY <1>2 DEF clmul_bitwise, f

\* A product is a word, whatever its factors.
LEMMA ProductIsWord ==
    ASSUME NEW n \in Nat, NEW x \in SUBSET Nat, NEW y
    PROVE  clmul_bitwise(n, x, y) \in SUBSET Nat
<1> DEFINE f == [j \in y |-> Shl(x, j)]
<1>1. TermsIn(f, n, Nat)
    <2>1. \A i \in 0..(n - 1) : Shl(x, i) \subseteq Nat
        BY ShlIs
    <2>2. \A i \in 0..(n - 1) : Term(f, i) = IF i \in y THEN Shl(x, i) ELSE {}
        BY ProductTerms
    <2> HIDE DEF f
    <2> QED
        BY <2>1, <2>2 DEF TermsIn
<1> HIDE DEF f
<1>2. XorOver(f, n) \subseteq Nat
    BY <1>1, XorOverIn
<1> QED
    BY <1>2 DEF clmul_bitwise, f

\* A factor shifted up.
LEMMA ProductShifts ==
    ASSUME NEW n \in Nat, NEW m \in Nat, NEW x \in SUBSET Nat, NEW y
    PROVE  clmul_bitwise(n, Shl(x, m), y) = Shl(clmul_bitwise(n, x, y), m)
<1> DEFINE f == [j \in y |-> Shl(Shl(x, m), j)]
           g == [j \in y |-> Shl(x, j)]
           H == [a \in SUBSET Nat |-> Shl(a, m)]
<1>1. Additive(H)
    <2>1. \A a, b \in SUBSET Nat : Xor(a, b) \in SUBSET Nat
        BY DEF Xor
    <2> QED
        BY <2>1, ShlIs DEF Additive
<1>2. TermsMap(f, g, H, n)
    <2>1. ASSUME NEW i \in 0..(n - 1) PROVE Term(g, i) \subseteq Nat /\ Term(f, i) = H[Term(g, i)]
        <3>1. /\ Shl(x, i) \subseteq Nat /\ Shl(Shl(x, i), m) = Shl(x, i + m)
              /\ Shl(Shl(x, m), i) = Shl(x, m + i) /\ i + m = m + i
            BY ShlIs
        <3>2. /\ Term(f, i) = IF i \in y THEN Shl(Shl(x, m), i) ELSE {}
              /\ Term(g, i) = IF i \in y THEN Shl(x, i) ELSE {}
            BY ProductTerms
        <3>3. H[{}] = {} /\ \A a \in SUBSET Nat : H[a] = Shl(a, m)
            BY ShlIs
        <3> HIDE DEF f, g, H
        <3> QED
            BY <3>1, <3>2, <3>3
    <2> QED
        BY <2>1 DEF TermsMap
<1>3. \A a \in SUBSET Nat : H[a] = Shl(a, m)
    OBVIOUS
<1>4. clmul_bitwise(n, x, y) \in SUBSET Nat
    BY ProductIsWord
<1> HIDE DEF f, g, H
<1>5. XorOver(f, n) = H[XorOver(g, n)]
    BY <1>1, <1>2, XorOverMaps
<1> QED
    BY <1>3, <1>4, <1>5 DEF clmul_bitwise, f, g

\* The other factor in two parts.
LEMMA ProductSplits ==
    ASSUME NEW m \in Nat, NEW n \in Nat, NEW x \in SUBSET Nat, NEW y \in SUBSET Nat
    PROVE  clmul_bitwise(m + n, x, y)
           = Xor(clmul_bitwise(m, x, Truncated(y, m)),
                      Shl(clmul_bitwise(n, x, Shr(y, m)), m))
<1> DEFINE f == [j \in y |-> Shl(x, j)]
           g == [j \in Truncated(y, m) |-> Shl(x, j)]
           h == [j \in Shr(y, m) |-> Shl(Shl(x, m), j)]
<1>1. TermsFrom(f, m, h, n)
    <2>1. ASSUME NEW i \in 0..(n - 1) PROVE Term(h, i) = Term(f, m + i)
        <3>1. Shl(Shl(x, m), i) = Shl(x, m + i) /\ i + m = m + i
            BY ShlIs
        <3>2. i \in Shr(y, m) <=> i + m \in y
            BY PartsAre
        <3>3. Term(h, i) = IF i \in Shr(y, m) THEN Shl(Shl(x, m), i) ELSE {}
            BY ProductTerms
        <3>4. Term(f, m + i) = IF m + i \in y THEN Shl(x, m + i) ELSE {}
            BY ProductTerms
        <3> HIDE DEF f, h
        <3> QED
            BY <3>1, <3>2, <3>3, <3>4
    <2> QED
        BY <2>1 DEF TermsFrom
<1>2. SameTerms(f, g, m)
    <2>1. ASSUME NEW i \in 0..(m - 1) PROVE Term(f, i) = Term(g, i)
        <3>1. i \in Truncated(y, m) <=> i \in y
            BY PartsAre
        <3>2. Term(f, i) = IF i \in y THEN Shl(x, i) ELSE {}
            BY ProductTerms
        <3>3. Term(g, i) = IF i \in Truncated(y, m) THEN Shl(x, i) ELSE {}
            BY ProductTerms
        <3> HIDE DEF f, g
        <3> QED
            BY <3>1, <3>2, <3>3
    <2> QED
        BY <2>1 DEF SameTerms
<1> HIDE DEF f, g, h
<1>3. XorOver(f, m + n) = Xor(XorOver(f, m), XorOver(h, n))
    BY <1>1, XorOverSplits
<1>4. XorOver(f, m) = XorOver(g, m)
    BY <1>2, XorOverSame
<1>5. clmul_bitwise(n, Shl(x, m), Shr(y, m)) = Shl(clmul_bitwise(n, x, Shr(y, m)), m)
    BY ProductShifts
<1> QED
    BY <1>3, <1>4, <1>5 DEF clmul_bitwise, f, g, h

\* The two halves of either factor: four products, of which the two in the middle are had from
\* one more product and the outer two.
Middle(w, a0, a1, b0, b1) ==
    Xor(Xor(clmul_bitwise(w, Xor(a0, a1), Xor(b0, b1)),
                      clmul_bitwise(w, a0, b0)),
             clmul_bitwise(w, a1, b1))

\* Three products of halves make the product.
LEMMA KaratsubaIs ==
    ASSUME NEW w \in Nat, NEW a \in SUBSET Nat, NEW b \in SUBSET Nat,
           NEW a0, a0 = Truncated(a, w), NEW a1, a1 = Shr(a, w),
           NEW b0, b0 = Truncated(b, w), NEW b1, b1 = Shr(b, w)
    PROVE  clmul_bitwise(2 * w, a, b)
           = Xor(Xor(clmul_bitwise(w, a0, b0), Shl(Middle(w, a0, a1, b0, b1), w)),
                      Shl(clmul_bitwise(w, a1, b1), 2 * w))
<1>1. /\ a0 \in SUBSET Nat /\ a1 \in SUBSET Nat /\ b0 \in SUBSET Nat /\ b1 \in SUBSET Nat
      /\ a = Xor(a0, Shl(a1, w)) /\ Shl(a1, w) \in SUBSET Nat
    BY PartsAre, ShlIs
<1>2. PICK p00 \in SUBSET Nat : p00 = clmul_bitwise(w, a0, b0)
    BY <1>1, ProductIsWord
<1>3. PICK p01 \in SUBSET Nat : p01 = clmul_bitwise(w, a0, b1)
    BY <1>1, ProductIsWord
<1>4. PICK p10 \in SUBSET Nat : p10 = clmul_bitwise(w, a1, b0)
    BY <1>1, ProductIsWord
<1>5. PICK p11 \in SUBSET Nat : p11 = clmul_bitwise(w, a1, b1)
    BY <1>1, ProductIsWord
<1>6. clmul_bitwise(2 * w, a, b)
      = Xor(clmul_bitwise(w, a, b0), Shl(clmul_bitwise(w, a, b1), w))
    <2>1. 2 * w = w + w
        OBVIOUS
    <2>2. clmul_bitwise(w + w, a, b)
          = Xor(clmul_bitwise(w, a, b0), Shl(clmul_bitwise(w, a, b1), w))
        BY ProductSplits
    <2> QED
        BY <2>1, <2>2
<1>7. ASSUME NEW y
      PROVE  clmul_bitwise(w, a, y)
             = Xor(clmul_bitwise(w, a0, y), Shl(clmul_bitwise(w, a1, y), w))
    <2>1. clmul_bitwise(w, Xor(a0, Shl(a1, w)), y)
          = Xor(clmul_bitwise(w, a0, y), clmul_bitwise(w, Shl(a1, w), y))
        BY <1>1, ProductAdds
    <2>2. clmul_bitwise(w, Shl(a1, w), y) = Shl(clmul_bitwise(w, a1, y), w)
        BY <1>1, ProductShifts
    <2> QED
        BY <1>1, <2>1, <2>2
<1>8. Middle(w, a0, a1, b0, b1) = Xor(p01, p10)
    <2>1. clmul_bitwise(w, Xor(a0, a1), Xor(b0, b1))
          = Xor(clmul_bitwise(w, a0, Xor(b0, b1)), clmul_bitwise(w, a1, Xor(b0, b1)))
        BY <1>1, ProductAdds
    <2>2. clmul_bitwise(w, a0, Xor(b0, b1)) = Xor(p00, p01)
        <3>1. clmul_bitwise(w, a0, Xor(b0, b1))
              = Xor(clmul_bitwise(w, a0, b0), clmul_bitwise(w, a0, b1))
            BY <1>1, ProductAddsRight
        <3> QED
            BY <1>2, <1>3, <3>1
    <2>3. clmul_bitwise(w, a1, Xor(b0, b1)) = Xor(p10, p11)
        <3>1. clmul_bitwise(w, a1, Xor(b0, b1))
              = Xor(clmul_bitwise(w, a1, b0), clmul_bitwise(w, a1, b1))
            BY <1>1, ProductAddsRight
        <3> QED
            BY <1>4, <1>5, <3>1
    <2>4. Xor(Xor(Xor(Xor(p00, p01), Xor(p10, p11)), p00), p11) = Xor(p01, p10)
        BY DEF Xor
    <2> QED
        BY <1>2, <1>5, <2>1, <2>2, <2>3, <2>4 DEF Middle
<1>9. /\ Shl(Xor(p01, p10), w) = Xor(Shl(p01, w), Shl(p10, w))
      /\ Shl(Xor(p01, Shl(p11, w)), w) = Xor(Shl(p01, w), Shl(Shl(p11, w), w))
      /\ Shl(Shl(p11, w), w) = Shl(p11, 2 * w)
    <2>1. w + w = 2 * w /\ Shl(p11, w) \in SUBSET Nat
        BY ShlIs
    <2> QED
        BY <2>1, ShlIs
<1>10. clmul_bitwise(2 * w, a, b)
       = Xor(Xor(p00, Shl(p10, w)), Xor(Shl(p01, w), Shl(p11, 2 * w)))
    <2>1. clmul_bitwise(w, a, b0) = Xor(p00, Shl(p10, w))
        BY <1>2, <1>4, <1>7
    <2>2. clmul_bitwise(w, a, b1) = Xor(p01, Shl(p11, w))
        BY <1>3, <1>5, <1>7
    <2> QED
        BY <1>6, <1>9, <2>1, <2>2
<1>11. \A s, t, u, v : Xor(Xor(s, t), Xor(u, v)) = Xor(Xor(s, Xor(u, t)), v)
    BY DEF Xor
<1>12. Shl(Middle(w, a0, a1, b0, b1), w) = Xor(Shl(p01, w), Shl(p10, w))
    BY <1>8, <1>9
<1> QED
    BY <1>2, <1>5, <1>10, <1>11, <1>12

-----------------------------------------------------------------------------
(* The reduction: what is over the top is added again at the bottom, by every tap; twice. *)

Fold(v)    == Xor(v, clmul_bitwise(BITS, v, Taps))
Once(p)    == Xor(Truncated(p, BITS), Fold(Shr(p, BITS)))
Reduced(p) == Once(Once(p))

\* The numbers of NoidAssumption that the reduction needs.
LEMMA FieldNumbers ==
    /\ BITS \in Nat \ {0} /\ BITS \div 2 \in Nat /\ 2 * (BITS \div 2) = BITS
    /\ BITS \div 4 \in Nat /\ 4 * (BITS \div 4) = BITS /\ 2 * (BITS \div 4) = BITS \div 2
    /\ \A t \in Taps : t \in Nat /\ 1 <= t /\ t <= BITS \div 2 /\ t < BITS
<1>1. BITS \in Nat \ {0} /\ BITS % 4 = 0 /\ Taps \subseteq 1..(BITS \div 2)
    BY NoidAssumption
<1>2. /\ BITS \div 2 \in Nat /\ 2 * (BITS \div 2) = BITS
      /\ BITS \div 4 \in Nat /\ 4 * (BITS \div 4) = BITS /\ 2 * (BITS \div 4) = BITS \div 2
    BY <1>1
<1>3. \A t \in Taps : t \in Nat /\ 1 <= t /\ t <= BITS \div 2
    BY <1>1, <1>2
<1> QED
    BY <1>1, <1>2, <1>3

\* A sum is a word.
LEMMA XorIsWord == \A a, b \in SUBSET Nat : Xor(a, b) \in SUBSET Nat
    BY DEF Xor

\* Adding at the bottom keeps sums and shifts.
LEMMA FoldIs ==
    /\ Fold({}) = {}
    /\ \A v \in SUBSET Nat : Fold(v) \in SUBSET Nat /\ Fold(Shl(v, 1)) = Shl(Fold(v), 1)
    /\ \A u, v \in SUBSET Nat : Fold(Xor(u, v)) = Xor(Fold(u), Fold(v))
<1>1. BITS \in Nat
    BY FieldNumbers
<1>2. ASSUME NEW u \in SUBSET Nat, NEW v \in SUBSET Nat
      PROVE  Fold(Xor(u, v)) = Xor(Fold(u), Fold(v))
    <2>1. clmul_bitwise(BITS, Xor(u, v), Taps)
          = Xor(clmul_bitwise(BITS, u, Taps), clmul_bitwise(BITS, v, Taps))
        BY <1>1, ProductAdds
    <2> QED
        BY <2>1, XorExchanges DEF Fold
<1>3. ASSUME NEW v \in SUBSET Nat
      PROVE  Fold(v) \in SUBSET Nat /\ Fold(Shl(v, 1)) = Shl(Fold(v), 1)
    <2>1. PICK q \in SUBSET Nat : q = clmul_bitwise(BITS, v, Taps)
        BY <1>1, ProductIsWord
    <2>2. clmul_bitwise(BITS, Shl(v, 1), Taps) = Shl(q, 1)
        BY <1>1, <2>1, ProductShifts
    <2>3. Shl(Xor(v, q), 1) = Xor(Shl(v, 1), Shl(q, 1))
        BY ShlIs
    <2> QED
        BY <2>1, <2>2, <2>3, XorIsWord DEF Fold
<1>4. Fold({}) = {}
    <2>1. {} \in SUBSET Nat /\ Xor({}, {}) = {}
        BY XorIs
    <2>2. Fold({}) = Xor(Fold({}), Fold({}))
        BY <1>2, <2>1
    <2> QED
        BY <2>2, XorIs
<1> QED
    BY <1>2, <1>3, <1>4

\* It reaches no more than half way up beyond what it adds.
LEMMA FoldIn ==
    ASSUME NEW e \in Int, NEW v \in SUBSET (0..e)
    PROVE  Fold(v) \subseteq 0..(e + BITS \div 2)
<1> DEFINE f == [t \in Taps |-> Shl(v, t)]
           U == 0..(e + BITS \div 2)
<1>1. ASSUME NEW t \in Taps PROVE Shl(v, t) \subseteq U
    <2>1. t \in Nat /\ t <= BITS \div 2 /\ BITS \div 2 \in Nat
        BY FieldNumbers
    <2> QED
        BY <2>1 DEF Shl
<1>2. \A i \in 0..(BITS - 1) : Term(f, i) = IF i \in Taps THEN Shl(v, i) ELSE {}
    BY ProductTerms
<1>3. v \subseteq U
    BY FieldNumbers
<1> HIDE DEF f, U
<1>4. TermsIn(f, BITS, U)
    BY <1>1, <1>2 DEF TermsIn
<1>5. XorOver(f, BITS) \subseteq U
    BY <1>4, FieldNumbers, XorOverIn
<1>6. clmul_bitwise(BITS, v, Taps) \subseteq U
    BY <1>5 DEF clmul_bitwise, f
<1>7. Fold(v) \subseteq U
    BY <1>3, <1>6 DEF Fold, Xor
<1> QED
    BY <1>7 DEF U

\* One bit is added at the bottom and at every tap.
LEMMA FoldOfOne == Fold({0}) = Taps \cup {0} /\ Fold({0}) \subseteq 0..(BITS - 1)
<1> DEFINE f == [t \in Taps |-> Shl({0}, t)]
           L == {n \in Nat : XorOver(f, n) = {t \in Taps : t < n}}
<1>1. \A t \in Taps : t \in Nat /\ 1 <= t /\ t < BITS
    BY FieldNumbers
<1>2. 0 \in L
    BY <1>1, XorOverNone
<1>3. ASSUME NEW n \in Nat, n \in L PROVE n + 1 \in L
    <2>1. Term(f, n) = IF n \in Taps THEN Shl({0}, n) ELSE {}
        BY ProductTerms
    <2>2. Shl({0}, n) = {n}
        BY DEF Shl
    <2>3. XorOver(f, n) = {t \in Taps : t < n}
        BY <1>3
    <2>4. XorOver(f, n + 1) = Xor(XorOver(f, n), Term(f, n))
        BY XorOverStep
    <2> HIDE DEF f
    <2>5. Xor({t \in Taps : t < n}, IF n \in Taps THEN {n} ELSE {}) = {t \in Taps : t < n + 1}
        BY <1>1 DEF Xor
    <2>6. Term(f, n) = IF n \in Taps THEN {n} ELSE {}
        BY <2>1, <2>2
    <2>7. XorOver(f, n + 1) = {t \in Taps : t < n + 1}
        BY <2>3, <2>4, <2>5, <2>6
    <2> QED
        BY <2>7
<1>4. Nat \subseteq L
    <2> HIDE DEF L
    <2> QED
        BY <1>2, <1>3, Induction
<1>5. XorOver(f, BITS) = Taps
    <2>1. BITS \in L
        BY <1>4, FieldNumbers
    <2> HIDE DEF f
    <2> QED
        BY <1>1, <2>1
<1>6. clmul_bitwise(BITS, {0}, Taps) = Taps
    BY <1>5 DEF clmul_bitwise
<1>7. Xor({0}, Taps) = Taps \cup {0}
    BY <1>1 DEF Xor
<1>8. \A t \in Taps \cup {0} : t \in 0..(BITS - 1)
    BY <1>1, FieldNumbers
<1> QED
    BY <1>6, <1>7, <1>8 DEF Fold

\* One round of it keeps sums.
LEMMA OnceIs ==
    /\ Once({}) = {}
    /\ \A p \in SUBSET Nat : Once(p) \in SUBSET Nat
    /\ \A p, q \in SUBSET Nat : Once(Xor(p, q)) = Xor(Once(p), Once(q))
<1>1. BITS \in Nat
    BY FieldNumbers
<1>2. Once({}) = {}
    BY <1>1, PartsAre, FoldIs, XorIs DEF Once
<1>3. ASSUME NEW p \in SUBSET Nat PROVE Once(p) \in SUBSET Nat
    BY <1>1, PartsAre, FoldIs, XorIsWord DEF Once
<1>4. ASSUME NEW p \in SUBSET Nat, NEW q \in SUBSET Nat
      PROVE  Once(Xor(p, q)) = Xor(Once(p), Once(q))
    <2>1. /\ Truncated(Xor(p, q), BITS) = Xor(Truncated(p, BITS), Truncated(q, BITS))
          /\ Shr(Xor(p, q), BITS) = Xor(Shr(p, BITS), Shr(q, BITS))
          /\ Shr(p, BITS) \in SUBSET Nat /\ Shr(q, BITS) \in SUBSET Nat
        BY <1>1, PartsAre
    <2>2. Fold(Xor(Shr(p, BITS), Shr(q, BITS)))
          = Xor(Fold(Shr(p, BITS)), Fold(Shr(q, BITS)))
        BY <2>1, FoldIs
    <2> QED
        BY <2>1, <2>2, XorExchanges DEF Once
<1> QED
    BY <1>2, <1>3, <1>4

\* What is nothing in the field: the bit over the top, and what is added for it.
Modulus == Xor({BITS}, Fold({0}))

\* One round takes it away.
LEMMA ModulusGoes == Modulus \in SUBSET Nat /\ Once(Modulus) = {}
<1>1. BITS \in Nat \ {0} /\ {BITS} \in SUBSET Nat
    BY FieldNumbers
<1>2. Fold({0}) \subseteq 0..(BITS - 1) /\ Fold({0}) \in SUBSET Nat
    BY <1>1, FoldOfOne
<1>3. Truncated({BITS}, BITS) = {} /\ Shr({BITS}, BITS) = {0}
    BY <1>1 DEF Truncated, Shr
<1>4. Truncated(Fold({0}), BITS) = Fold({0}) /\ Shr(Fold({0}), BITS) = {}
    <2> DEFINE v == Fold({0})
    <2>1. v \subseteq 0..(BITS - 1)
        BY <1>2
    <2> HIDE DEF v
    <2>2. v \in SUBSET Nat /\ \A k \in v : k < BITS
        BY <1>1, <2>1
    <2>3. Truncated(v, BITS) = v
        BY <2>2 DEF Truncated
    <2>4. \A k \in Nat : k + BITS \notin v
        BY <1>1, <2>2
    <2>5. Shr(v, BITS) = {}
        BY <1>1, <2>2, <2>4, PartsAre
    <2> QED
        BY <2>3, <2>5 DEF v
<1>5. Once({BITS}) = Fold({0}) /\ Once(Fold({0})) = Fold({0})
    BY <1>3, <1>4, FoldIs, XorIs DEF Once
<1>6. Once(Modulus) = Xor(Fold({0}), Fold({0}))
    BY <1>1, <1>2, <1>5, OnceIs DEF Modulus
<1> QED
    BY <1>1, <1>2, <1>6, XorIs, XorIsWord DEF Modulus

\* A word one bit higher: one round of it is the round of the word one bit higher, but for the
\* bit that went over the top.
LEMMA OnceShifts ==
    ASSUME NEW p \in SUBSET Nat
    PROVE  Once(Shl(p, 1)) = Xor(Shl(Once(p), 1), IF BITS - 1 \in p THEN Modulus ELSE {})
<1>1. BITS \in Nat \ {0}
    BY FieldNumbers
<1>2. PICK lo \in SUBSET Nat : /\ lo = Truncated(p, BITS)
                               /\ \A k \in Nat : k \in lo <=> k \in p /\ k < BITS
    BY <1>1, PartsAre
<1>3. PICK hi \in SUBSET Nat : hi = Shr(p, BITS) /\ \A k \in Nat : k \in hi <=> k + BITS \in p
    BY <1>1, PartsAre
<1>4. PICK up \in SUBSET Nat : up = Shl(p, 1) /\ \A k \in Nat : k \in up <=> k - 1 \in p
    BY ShlIs
<1>5. PICK e : e = IF BITS - 1 \in p THEN {BITS} ELSE {}
    OBVIOUS
<1>6. PICK e0 : e0 = IF BITS - 1 \in p THEN {0} ELSE {}
    OBVIOUS
<1>7. Truncated(up, BITS) = Xor(Shl(lo, 1), e)
    <2>1. ASSUME NEW k \in Nat
          PROVE  k \in Truncated(up, BITS) <=> k \in Xor(Shl(lo, 1), e)
        <3>1. k \in Truncated(up, BITS) <=> k - 1 \in p /\ k < BITS
            BY <1>1, <1>4, PartsAre
        <3>2. k \in Shl(lo, 1) <=> k - 1 \in p /\ k - 1 < BITS
            <4>1. k \in Shl(lo, 1) <=> k - 1 \in lo
                BY ShlIs
            <4> QED
                BY <1>2, <4>1
        <3>3. k \in e <=> k = BITS /\ k - 1 \in p
            BY <1>1, <1>5
        <3> QED
            BY <1>1, <3>1, <3>2, <3>3 DEF Xor
    <2>2. Truncated(up, BITS) \in SUBSET Nat /\ Shl(lo, 1) \in SUBSET Nat /\ e \in SUBSET Nat
        BY <1>1, <1>5, PartsAre, ShlIs
    <2>3. Xor(Shl(lo, 1), e) \in SUBSET Nat
        BY <2>2, XorIsWord
    <2> QED
        BY <2>1, <2>2, <2>3
<1>8. Shr(up, BITS) = Xor(Shl(hi, 1), e0)
    <2>1. ASSUME NEW k \in Nat
          PROVE  k \in Shr(up, BITS) <=> k \in Xor(Shl(hi, 1), e0)
        <3>1. k \in Shr(up, BITS) <=> (k + BITS) - 1 \in p
            <4>1. k \in Shr(up, BITS) <=> k + BITS \in up
                BY <1>1, PartsAre
            <4> QED
                BY <1>1, <1>4, <4>1
        <3>2. k \in Shl(hi, 1) <=> k # 0 /\ (k + BITS) - 1 \in p
            <4>1. k \in Shl(hi, 1) <=> k - 1 \in hi
                BY ShlIs
            <4>2. k # 0 => k - 1 \in Nat /\ (k - 1) + BITS = (k + BITS) - 1
                BY <1>1
            <4> QED
                BY <1>3, <4>1, <4>2
        <3>3. k \in e0 <=> k = 0 /\ (k + BITS) - 1 \in p
            BY <1>1, <1>6
        <3> QED
            BY <3>1, <3>2, <3>3 DEF Xor
    <2>2. Shr(up, BITS) \in SUBSET Nat /\ Shl(hi, 1) \in SUBSET Nat /\ e0 \in SUBSET Nat
        BY <1>1, <1>6, PartsAre, ShlIs
    <2>3. Xor(Shl(hi, 1), e0) \in SUBSET Nat
        BY <2>2, XorIsWord
    <2> QED
        BY <2>1, <2>2, <2>3
<1>9. Once(up) = Xor(Xor(Shl(lo, 1), e), Xor(Shl(Fold(hi), 1), Fold(e0)))
    <2>1. e0 \in SUBSET Nat /\ Shl(hi, 1) \in SUBSET Nat
        BY <1>6, ShlIs
    <2>2. Fold(Xor(Shl(hi, 1), e0)) = Xor(Fold(Shl(hi, 1)), Fold(e0))
        BY <2>1, FoldIs
    <2>3. Fold(Shl(hi, 1)) = Shl(Fold(hi), 1)
        BY FoldIs
    <2> QED
        BY <1>7, <1>8, <2>2, <2>3 DEF Once
<1>10. Shl(Once(p), 1) = Xor(Shl(lo, 1), Shl(Fold(hi), 1))
    BY <1>2, <1>3, FoldIs, ShlIs DEF Once
<1>11. Xor(e, Fold(e0)) = IF BITS - 1 \in p THEN Modulus ELSE {}
    BY <1>5, <1>6, FoldIs, XorIs DEF Modulus
<1>12. Once(up) = Xor(Xor(Shl(lo, 1), Shl(Fold(hi), 1)), Xor(e, Fold(e0)))
    BY <1>9, XorExchanges
<1> QED
    BY <1>4, <1>10, <1>11, <1>12

\* What is below the top is left as it is.
LEMMA ShortIs ==
    ASSUME NEW p \in SUBSET (0..(BITS - 1))
    PROVE  p \in SUBSET Nat /\ Truncated(p, BITS) = p /\ Shr(p, BITS) = {} /\ Once(p) = p
<1>1. BITS \in Nat \ {0}
    BY FieldNumbers
<1>2. p \in SUBSET Nat /\ \A k \in p : k < BITS
    BY <1>1
<1>3. Truncated(p, BITS) = p
    BY <1>2 DEF Truncated
<1>4. \A k \in Nat : k + BITS \notin p
    BY <1>1, <1>2
<1>5. Shr(p, BITS) = {}
    BY <1>1, <1>2, <1>4, PartsAre
<1> QED
    BY <1>2, <1>3, <1>5, FoldIs, XorIs DEF Once

\* Two rounds leave an element of what is as long as a product of two, and the top bit of it is
\* that of one round.
LEMMA ReducedIn ==
    ASSUME NEW p \in SUBSET (0..(2 * BITS - 2))
    PROVE  /\ Reduced(p) \in Element /\ p \in SUBSET Nat
           /\ BITS - 1 \in Reduced(p) <=> BITS - 1 \in Once(p)
<1>1. BITS \in Nat \ {0} /\ BITS \div 2 \in Nat /\ 2 * (BITS \div 2) = BITS
    BY FieldNumbers
<1>2. p \in SUBSET Nat
    OBVIOUS
<1>3. PICK hi \in SUBSET Nat : hi = Shr(p, BITS) /\ \A k \in Nat : k \in hi <=> k + BITS \in p
    BY <1>1, <1>2, PartsAre
<1>4. hi \in SUBSET (0..(BITS - 2))
    <2> SUFFICES ASSUME NEW k \in hi PROVE k \in 0..(BITS - 2)
        OBVIOUS
    <2>1. k \in Nat /\ k + BITS \in 0..(2 * BITS - 2)
        BY <1>3
    <2> QED
        BY <1>1, <2>1
<1>5. PICK m \in Nat : m = BITS \div 2 /\ 2 * m = BITS
    BY <1>1
<1>6. Fold(hi) \subseteq 0..((BITS - 2) + m)
    <2>1. BITS - 2 \in Int
        BY <1>1
    <2>2. Fold(hi) \subseteq 0..((BITS - 2) + BITS \div 2)
        BY <1>4, <2>1, FoldIn
    <2> QED
        BY <1>5, <2>2
<1>7. PICK q \in SUBSET Nat : q = Once(p)
    BY <1>2, OnceIs
<1>8. q = Xor(Truncated(p, BITS), Fold(hi))
    BY <1>3, <1>7 DEF Once
<1>9. q \subseteq 0..((BITS - 2) + m) \cup 0..(BITS - 1)
    BY <1>1, <1>2, <1>6, <1>8, PartsAre DEF Xor
<1>10. PICK over \in SUBSET Nat : over = Shr(q, BITS) /\ \A k \in Nat : k \in over <=> k + BITS \in q
    BY <1>1, PartsAre
<1>11. over \in SUBSET (0..(m - 2))
    <2> SUFFICES ASSUME NEW k \in over PROVE k \in 0..(m - 2)
        OBVIOUS
    <2>1. k \in Nat /\ (k + BITS \in 0..((BITS - 2) + m) \/ k + BITS \in 0..(BITS - 1))
        BY <1>9, <1>10
    <2> QED
        BY <1>1, <2>1
<1>12. Fold(over) \subseteq 0..((m - 2) + m)
    BY <1>5, <1>11, FoldIn
<1>13. Fold(over) \subseteq 0..(BITS - 2)
    BY <1>5, <1>12
<1>14. Reduced(p) = Xor(Truncated(q, BITS), Fold(over))
    BY <1>7, <1>10 DEF Reduced, Once
<1>15. Truncated(q, BITS) \subseteq 0..(BITS - 1) /\ (BITS - 1 \in Truncated(q, BITS) <=> BITS - 1 \in q)
    <2>1. BITS - 1 \in Nat /\ BITS - 1 < BITS
        BY <1>1
    <2> QED
        BY <1>1, <2>1, PartsAre
<1>16. BITS - 1 \notin Fold(over) /\ Fold(over) \subseteq 0..(BITS - 1)
    BY <1>1, <1>13
<1> QED
    BY <1>2, <1>7, <1>14, <1>15, <1>16 DEF Xor, Element

\* A shift of what is reduced is the multiplication by x.
LEMMA ReducedShifts ==
    ASSUME NEW p \in SUBSET (0..(2 * BITS - 2))
    PROVE  Reduced(Shl(p, 1)) = MulByX(Reduced(p))
<1>1. BITS \in Nat \ {0} /\ p \in SUBSET Nat /\ Once(p) \in SUBSET Nat /\ Modulus \in SUBSET Nat
    BY FieldNumbers, ReducedIn, OnceIs, ModulusGoes
<1>2. PICK r \in SUBSET (0..(BITS - 1)) : r = Reduced(p) /\ r \in SUBSET Nat
    BY ReducedIn, ShortIs DEF Element
<1>3. PICK up \in SUBSET Nat : up = Shl(r, 1) /\ (BITS \in up <=> BITS - 1 \in r)
    BY <1>1, <1>2, ShlIs
<1>4. Once(Once(Shl(p, 1))) = Once(Shl(Once(p), 1))
    <2>1. PICK e \in SUBSET Nat : e = (IF BITS - 1 \in p THEN Modulus ELSE {}) /\ Once(e) = {}
        BY <1>1, ModulusGoes, OnceIs
    <2>2. Once(Shl(p, 1)) = Xor(Shl(Once(p), 1), e)
        BY <1>1, <2>1, OnceShifts
    <2>3. Shl(Once(p), 1) \in SUBSET Nat
        BY <1>1, ShlIs
    <2>4. Once(Xor(Shl(Once(p), 1), e)) = Xor(Once(Shl(Once(p), 1)), Once(e))
        BY <2>3, OnceIs
    <2> QED
        BY <2>1, <2>2, <2>4, XorIs
<1>5. Once(Shl(Once(p), 1)) = Xor(Shl(r, 1), IF BITS - 1 \in Once(p) THEN Modulus ELSE {})
    BY <1>1, <1>2, OnceShifts DEF Reduced
<1>6. BITS - 1 \in Once(p) <=> BITS \in up
    BY <1>2, <1>3, ReducedIn
<1>7. CASE BITS \in up
    <2>1. PICK s : s = Taps \cup {0} /\ s = Fold({0}) /\ BITS \notin s
        BY <1>1, FoldOfOne
    <2>2. Xor(up, Xor({BITS}, s)) = Xor(up \ {BITS}, s)
        BY <1>7, <2>1 DEF Xor
    <2>3. MulByX(r) = Xor(up \ {BITS}, s)
        BY <1>3, <1>7, <2>1 DEF MulByX
    <2>4. Once(Shl(Once(p), 1)) = Xor(up, Xor({BITS}, s))
        BY <1>3, <1>5, <1>6, <1>7, <2>1 DEF Modulus
    <2> QED
        BY <1>2, <1>4, <2>2, <2>3, <2>4 DEF Reduced
<1>8. CASE BITS \notin up
    <2>1. MulByX(r) = up
        BY <1>3, <1>8 DEF MulByX
    <2>2. Once(Shl(Once(p), 1)) = up
        BY <1>3, <1>5, <1>6, <1>8, XorIs
    <2> QED
        BY <1>2, <1>4, <2>1, <2>2 DEF Reduced
<1> QED
    BY <1>7, <1>8

-----------------------------------------------------------------------------
(* The loop of the test: the function its definition names, and what it sums up. *)
ShiftRun(F, a, n) == F[0] = a /\ \A i \in 1..n : F[i] = MulByX(F[i - 1])

\* A factor is multiplied by x once a bit.
LEMMA ShiftLoop ==
    ASSUME NEW a \in SUBSET Nat, NEW b
    PROVE  \E F : /\ ShiftRun(F, a, BITS)
                  /\ mul_bitwise(a, b) = XorOver([i \in b |-> F[i]], BITS)
<1> DEFINE V == SUBSET Nat
           step == [p \in V \X (1..BITS) |-> MulByX(p[1])]
           Eq(F) == F = [i \in 0..BITS |-> IF i = 0 THEN a ELSE MulByX(F[i - 1])]
<1>1. BITS \in Nat /\ \A t \in Taps : t \in Nat
    BY FieldNumbers
<1>2. step \in [V \X (1..BITS) -> V]
    <2> SUFFICES ASSUME NEW v \in V PROVE MulByX(v) \in V
        OBVIOUS
    <2>1. PICK up \in SUBSET Nat : up = Shl(v, 1)
        BY ShlIs
    <2>2. up \ {BITS} \in SUBSET Nat /\ Taps \cup {0} \in SUBSET Nat
        BY <1>1
    <2>3. Xor(up \ {BITS}, Taps \cup {0}) \in SUBSET Nat
        BY <2>2, XorIsWord
    <2> QED
        BY <2>1, <2>3 DEF MulByX
<1>3. \E F : Eq(F)
    <2>1. \A v \in V, m \in 1..BITS : step[<<v, m>>] = MulByX(v)
        OBVIOUS
    <2>2. a \in V
        OBVIOUS
    <2> HIDE DEF step, V
    <2>3. PICK F \in [0..BITS -> V] : Counts(F, BITS, a, step)
        BY <1>1, <1>2, <2>2, CountingLoop
    <2>4. ASSUME NEW i \in 0..BITS PROVE F[i] = IF i = 0 THEN a ELSE MulByX(F[i - 1])
        <3>1. CASE i = 0
            BY <2>3, <3>1 DEF Counts
        <3>2. CASE i # 0
            <4>1. i \in 1..BITS /\ i - 1 \in 0..BITS
                BY <1>1, <3>2
            <4>2. F[i] = step[<<F[i - 1], i>>] /\ F[i - 1] \in V
                BY <2>3, <3>2, <4>1 DEF Counts
            <4> QED
                BY <2>1, <3>2, <4>1, <4>2
        <3> QED
            BY <3>1, <3>2
    <2> QED
        BY <2>3, <2>4
<1> DEFINE F == CHOOSE F : Eq(F)
<1>4. F = [i \in 0..BITS |-> IF i = 0 THEN a ELSE MulByX(F[i - 1])]
    BY <1>3
<1>5. mul_bitwise(a, b) = XorOver([i \in b |-> F[i]], BITS)
    BY Zenon DEF mul_bitwise
<1> HIDE DEF F
<1>6. ShiftRun(F, a, BITS)
    <2> DEFINE body(i) == IF i = 0 THEN a ELSE MulByX(F[i - 1])
    <2>1. F = [i \in 0..BITS |-> body(i)]
        BY <1>4
    <2>2. body(0) = a /\ \A i \in 1..BITS : body(i) = MulByX(F[i - 1])
        OBVIOUS
    <2> HIDE DEF body
    <2> QED
        BY <1>1, <2>1, <2>2 DEF ShiftRun
<1> QED
    BY <1>5, <1>6

\* The test's product is the carry-less one, reduced at the end instead of after every bit.
LEMMA BitwiseIsReduced ==
    ASSUME NEW a \in Element, NEW b
    PROVE  mul_bitwise(a, b) = Reduced(clmul_bitwise(BITS, a, b))
<1>1. BITS \in Nat \ {0} /\ a \in SUBSET (0..(BITS - 1)) /\ a \in SUBSET Nat
    BY FieldNumbers, ShortIs DEF Element
<1>2. PICK F : ShiftRun(F, a, BITS) /\ mul_bitwise(a, b) = XorOver([i \in b |-> F[i]], BITS)
    BY <1>1, ShiftLoop
<1> DEFINE L == {n \in Nat : n <= BITS - 1 => F[n] = Reduced(Shl(a, n))}
<1>3. 0 \in L
    <2>1. Shl(a, 0) = a
        <3>1. \A i \in a : i + 0 = i
            BY <1>1
        <3> QED
            BY <3>1 DEF Shl
    <2>2. Reduced(a) = a
        BY <1>1, ShortIs DEF Reduced
    <2> QED
        BY <1>2, <2>1, <2>2 DEF ShiftRun
<1>4. ASSUME NEW n \in Nat, n \in L PROVE n + 1 \in L
    <2> SUFFICES ASSUME n + 1 <= BITS - 1 PROVE F[n + 1] = Reduced(Shl(a, n + 1))
        OBVIOUS
    <2>1. F[n] = Reduced(Shl(a, n))
        BY <1>1, <1>4
    <2>2. Shl(a, n) \in SUBSET (0..(2 * BITS - 2))
        BY <1>1 DEF Shl
    <2>3. Reduced(Shl(Shl(a, n), 1)) = MulByX(Reduced(Shl(a, n)))
        BY <2>2, ReducedShifts
    <2>4. Shl(Shl(a, n), 1) = Shl(a, n + 1)
        BY <1>1, ShlIs
    <2>5. n + 1 \in 1..BITS /\ (n + 1) - 1 = n
        BY <1>1
    <2>6. F[n + 1] = MulByX(F[n])
        BY <1>2, <2>5 DEF ShiftRun
    <2> QED
        BY <2>1, <2>3, <2>4, <2>6
<1>5. Nat \subseteq L
    <2> HIDE DEF L
    <2> QED
        BY <1>3, <1>4, Induction
<1>6. \A n \in 0..(BITS - 1) : F[n] = Reduced(Shl(a, n))
    BY <1>1, <1>5
<1> DEFINE f == [i \in b |-> F[i]]
           g == [i \in b |-> Shl(a, i)]
           H == [p \in SUBSET Nat |-> Reduced(p)]
<1>7. Additive(H) /\ \A p \in SUBSET Nat : H[p] = Reduced(p)
    BY OnceIs, XorIsWord DEF Additive, Reduced
<1>8. TermsMap(f, g, H, BITS)
    <2>1. ASSUME NEW i \in 0..(BITS - 1) PROVE Term(g, i) \subseteq Nat /\ Term(f, i) = H[Term(g, i)]
        <3>1. Shl(a, i) \in SUBSET Nat /\ {} \in SUBSET Nat /\ F[i] = Reduced(Shl(a, i))
            BY <1>1, <1>6, ShlIs
        <3>2. H[{}] = {} /\ H[Shl(a, i)] = Reduced(Shl(a, i))
            BY <1>7, <3>1 DEF Additive
        <3>3. Term(g, i) = IF i \in b THEN Shl(a, i) ELSE {}
            BY ProductTerms
        <3>4. Term(f, i) = IF i \in b THEN F[i] ELSE {}
            BY DEF Term
        <3> HIDE DEF f, g, H
        <3> QED
            BY <3>1, <3>2, <3>3, <3>4
    <2> QED
        BY <2>1 DEF TermsMap
<1> HIDE DEF f, g, H
<1>9. XorOver(f, BITS) = H[XorOver(g, BITS)]
    BY <1>1, <1>7, <1>8, XorOverMaps
<1>10. XorOver(g, BITS) = clmul_bitwise(BITS, a, b)
    BY DEF clmul_bitwise, g
<1>11. clmul_bitwise(BITS, a, b) \in SUBSET Nat
    BY <1>1, ProductIsWord
<1> QED
    BY <1>2, <1>7, <1>9, <1>10, <1>11 DEF f

\* The shifts down are what a fold has over the top.
LEMMA OverIs ==
    ASSUME NEW hi \in Element
    PROVE  XorOver([t \in Taps |-> Shr(hi, BITS - t)], BITS) = Shr(Fold(hi), BITS)
<1> DEFINE f == [t \in Taps |-> Shr(hi, BITS - t)]
           g == [t \in Taps |-> Shl(hi, t)]
           H == [p \in SUBSET Nat |-> Shr(p, BITS)]
<1>1. BITS \in Nat /\ hi \in SUBSET Nat /\ Shr(hi, BITS) = {}
    BY FieldNumbers, ShortIs DEF Element
<1>2. Additive(H) /\ \A p \in SUBSET Nat : H[p] = Shr(p, BITS)
    BY <1>1, PartsAre, XorIsWord DEF Additive
<1>3. ASSUME NEW t \in Taps
      PROVE  Shl(hi, t) \in SUBSET Nat /\ Shr(Shl(hi, t), BITS) = Shr(hi, BITS - t)
    <2>1. t \in Nat /\ BITS - t \in Nat
        BY FieldNumbers
    <2>2. PICK up \in SUBSET Nat : up = Shl(hi, t) /\ \A k \in Nat : k \in up <=> k - t \in hi
        BY <1>1, <2>1, ShlIs
    <2>3. Shr(up, BITS) \subseteq Nat /\ Shr(hi, BITS - t) \subseteq Nat
        BY <1>1, <2>1, PartsAre
    <2>4. ASSUME NEW k \in Nat PROVE k \in Shr(up, BITS) <=> k \in Shr(hi, BITS - t)
        <3>1. k \in Shr(up, BITS) <=> k + BITS \in up
            BY <1>1, PartsAre
        <3>2. k \in Shr(hi, BITS - t) <=> k + (BITS - t) \in hi
            BY <1>1, <2>1, PartsAre
        <3>3. (k + BITS) - t = k + (BITS - t) /\ k + BITS \in Nat
            BY <1>1, <2>1
        <3> QED
            BY <2>2, <3>1, <3>2, <3>3
    <2> QED
        BY <2>2, <2>3, <2>4
<1>4. TermsMap(f, g, H, BITS)
    <2>1. ASSUME NEW i \in 0..(BITS - 1) PROVE Term(g, i) \subseteq Nat /\ Term(f, i) = H[Term(g, i)]
        <3>1. Term(g, i) = IF i \in Taps THEN Shl(hi, i) ELSE {}
            BY ProductTerms
        <3>2. Term(f, i) = IF i \in Taps THEN Shr(hi, BITS - i) ELSE {}
            BY DEF Term
        <3> HIDE DEF f, g, H
        <3> QED
            BY <1>2, <1>3, <3>1, <3>2 DEF Additive
    <2> QED
        BY <2>1 DEF TermsMap
<1> HIDE DEF f, g, H
<1>5. XorOver(f, BITS) = H[XorOver(g, BITS)]
    BY <1>1, <1>2, <1>4, XorOverMaps
<1>6. PICK q \in SUBSET Nat : q = XorOver(g, BITS) /\ q = clmul_bitwise(BITS, hi, Taps)
    BY <1>1, ProductIsWord DEF g, clmul_bitwise
<1>7. Shr(Xor(hi, q), BITS) = Xor(Shr(hi, BITS), Shr(q, BITS))
    <2>1. \A c \in SUBSET Nat, d \in SUBSET Nat :
             Shr(Xor(c, d), BITS) = Xor(Shr(c, BITS), Shr(d, BITS))
        BY <1>1, PartsAre
    <2> QED
        BY <1>1, <2>1
<1>8. Shr(Fold(hi), BITS) = Shr(q, BITS)
    BY <1>1, <1>6, <1>7, XorIs DEF Fold
<1>9. H[q] = Shr(q, BITS)
    BY <1>2
<1> QED
    BY <1>5, <1>6, <1>8, <1>9 DEF f

\* The reduction of the code, of the low half and the high half of a product.
LEMMA ReduceIs ==
    ASSUME NEW hi \in Element, NEW lo \in Element
    PROVE  reduce(hi, lo) = Reduced(Xor(lo, Shl(hi, BITS)))
<1>1. BITS \in Nat /\ hi \in SUBSET Nat /\ Fold(hi) \in SUBSET Nat
    BY FieldNumbers, FoldIs, ShortIs DEF Element
<1>2. lo \in SUBSET Nat /\ Truncated(lo, BITS) = lo /\ Shr(lo, BITS) = {}
    BY ShortIs DEF Element
<1>3. PICK up \in SUBSET Nat : up = Shl(hi, BITS) /\ \A k \in Nat : k \in up <=> k - BITS \in hi
    BY <1>1, ShlIs
<1>4. Truncated(up, BITS) = {}
    <2>1. \A k \in Nat : ~(k \in Truncated(up, BITS))
        BY <1>1, <1>3, PartsAre
    <2> QED
        BY <1>1, <2>1, PartsAre
<1>5. Shr(up, BITS) = hi
    <2>1. ASSUME NEW k \in Nat PROVE k \in Shr(up, BITS) <=> k \in hi
        <3>1. k \in Shr(up, BITS) <=> k + BITS \in up
            BY <1>1, PartsAre
        <3>2. (k + BITS) - BITS = k /\ k + BITS \in Nat
            BY <1>1
        <3> QED
            BY <1>3, <3>1, <3>2
    <2>2. Shr(up, BITS) \subseteq Nat
        BY <1>1, PartsAre
    <2> QED
        BY <1>1, <2>1, <2>2
<1> DEFINE Parts(c, d) ==
               /\ Truncated(Xor(c, d), BITS) = Xor(Truncated(c, BITS), Truncated(d, BITS))
               /\ Shr(Xor(c, d), BITS) = Xor(Shr(c, BITS), Shr(d, BITS))
<1>a. Parts(lo, up) /\ Parts(lo, Fold(hi))
    <2>1. \A c, d \in SUBSET Nat : Parts(c, d)
        BY <1>1, PartsAre
    <2> HIDE DEF Parts
    <2> QED
        BY <1>1, <1>2, <1>3, <2>1
<1>6. /\ Truncated(Xor(lo, up), BITS) = lo
      /\ Shr(Xor(lo, up), BITS) = hi
    BY <1>2, <1>4, <1>5, <1>a, XorIs
<1>7. PICK q \in SUBSET Nat : q = Once(Xor(lo, up)) /\ q = Xor(lo, Fold(hi))
    BY <1>1, <1>2, <1>6, XorIsWord DEF Once
<1>8. /\ Truncated(q, BITS) = Xor(lo, Truncated(Fold(hi), BITS))
      /\ Shr(q, BITS) = Shr(Fold(hi), BITS)
    BY <1>2, <1>7, <1>a, XorIs
<1>9. PICK over \in SUBSET Nat : over = XorOver([t \in Taps |-> Shr(hi, BITS - t)], BITS)
                                 /\ over = Shr(q, BITS)
    BY <1>1, <1>8, OverIs, PartsAre
<1>10. Reduced(Xor(lo, up)) = Xor(Xor(lo, Truncated(Fold(hi), BITS)), Fold(over))
    BY <1>7, <1>8, <1>9 DEF Reduced, Once
<1>11. \A v : XorOver([t \in Taps |-> Shl(v, t)], BITS) = clmul_bitwise(BITS, v, Taps)
    BY DEF clmul_bitwise
<1>12. reduce(hi, lo) = Xor(Xor(lo, Truncated(Fold(hi), BITS)), Fold(over))
    BY <1>9, <1>11 DEF reduce, Fold
<1> QED
    BY <1>3, <1>10, <1>12

-----------------------------------------------------------------------------
(* The products of the code, out of products of parts. *)

\* Every product of integer products is carry-less.
ClmulHolds ==
    \A w \in 0..WidestWord : \A x, y \in SUBSET (0..(w - 1)) :
        clmul(w, x, y) = clmul_bitwise(w, x, y)

\* Of three products, the middle one has the outer two taken out.
LEMMA KaratsubaTakes ==
    ASSUME NEW lo \in Element, NEW hi \in Element, NEW mid \in Element, NEW p,
           p = [part \in {"lo", "hi", "mid"} |-> IF part = "lo" THEN lo ELSE IF part = "hi" THEN hi ELSE mid]
    PROVE  /\ Karatsuba[p] \in Products
           /\ Karatsuba[p].lo = lo /\ Karatsuba[p].hi = hi
           /\ Karatsuba[p].mid = Xor(Xor(mid, lo), hi)
<1>1. p \in Products
    BY DEF Products
<1>2. p.lo = lo /\ p.hi = hi /\ p.mid = mid
    OBVIOUS
<1>3. Xor(Xor(mid, lo), hi) \in Element
    BY DEF Xor, Element
<1>4. Karatsuba[p] = [p EXCEPT !.mid = Xor(Xor(p.mid, p.lo), p.hi)]
    BY <1>1 DEF Karatsuba
<1>5. PICK m \in Element : m = Xor(Xor(mid, lo), hi)
    BY <1>3
<1>6. Karatsuba[p] = [p EXCEPT !.mid = m]
    BY <1>2, <1>4, <1>5
<1> QED
    BY <1>1, <1>2, <1>5, <1>6 DEF Products

\* The factors by their names.
LEMMA FactorsAre ==
    ASSUME NEW w, NEW a, NEW b, NEW f, f = Factors(w, a, b)
    PROVE  /\ DOMAIN f = {"lo", "hi", "mid"}
           /\ f["lo"] = <<Truncated(a, w), Truncated(b, w)>>
           /\ f["hi"] = <<Shr(a, w), Shr(b, w)>>
           /\ f["mid"] = <<Xor(Truncated(a, w), Shr(a, w)),
                           Xor(Truncated(b, w), Shr(b, w))>>
    BY DEF Factors

\* The halves of a word, and their sum, are half as long.
LEMMA HalvesIn ==
    ASSUME NEW w \in Nat, NEW a \in SUBSET (0..(2 * w - 1))
    PROVE  /\ a \in SUBSET Nat
           /\ Truncated(a, w) \in SUBSET (0..(w - 1)) /\ Shr(a, w) \in SUBSET (0..(w - 1))
           /\ Xor(Truncated(a, w), Shr(a, w)) \in SUBSET (0..(w - 1))
<1>1. a \in SUBSET Nat
    OBVIOUS
<1>2. Truncated(a, w) \in SUBSET (0..(w - 1))
    BY <1>1, PartsAre
<1>3. Shr(a, w) \in SUBSET (0..(w - 1))
    <2> SUFFICES ASSUME NEW k \in Shr(a, w) PROVE k \in 0..(w - 1)
        OBVIOUS
    <2>1. k \in Nat /\ k + w \in 0..(2 * w - 1)
        BY <1>1, PartsAre
    <2> QED
        BY <2>1
<1> QED
    BY <1>1, <1>2, <1>3 DEF Xor

\* A quarter of an element is short enough for the integer products.
LEMMA Clmul64Is ==
    ASSUME ClmulHolds, NEW a \in SUBSET (0..(BITS \div 2 - 1)), NEW b \in SUBSET (0..(BITS \div 2 - 1))
    PROVE  clmul64[<<a, b>>] = clmul_bitwise(BITS \div 2, a, b)
<1>1. PICK w \in Nat : w = BITS \div 4 /\ 4 * w = BITS /\ 2 * w = BITS \div 2 /\ w \in 0..WidestWord /\ w > 0
    BY FieldNumbers, NoidAssumption
<1>2. PICK a0, a1, b0, b1 : /\ a0 = Truncated(a, w) /\ a1 = Shr(a, w)
                            /\ b0 = Truncated(b, w) /\ b1 = Shr(b, w)
    OBVIOUS
<1>3. /\ a \in SUBSET Nat /\ b \in SUBSET Nat
      /\ a0 \in SUBSET (0..(w - 1)) /\ a1 \in SUBSET (0..(w - 1)) /\ Xor(a0, a1) \in SUBSET (0..(w - 1))
      /\ b0 \in SUBSET (0..(w - 1)) /\ b1 \in SUBSET (0..(w - 1)) /\ Xor(b0, b1) \in SUBSET (0..(w - 1))
    BY <1>1, <1>2, HalvesIn
<1>4. ASSUME NEW x \in SUBSET (0..(w - 1)), NEW y \in SUBSET (0..(w - 1))
      PROVE  clmul(w, x, y) \in Element /\ clmul(w, x, y) = clmul_bitwise(w, x, y)
    <2>1. clmul(w, x, y) = clmul_bitwise(w, x, y)
        BY <1>1 DEF ClmulHolds
    <2>2. clmul_bitwise(w, x, y) \subseteq 0..(w + w - 2)
        BY ProductIn
    <2>3. 0..(w + w - 2) \subseteq 0..(BITS - 1)
        BY <1>1
    <2> QED
        BY <2>1, <2>2, <2>3 DEF Element
<1>5. PICK lo \in Element : lo = clmul(w, a0, b0) /\ lo = clmul_bitwise(w, a0, b0)
    BY <1>3, <1>4
<1>6. PICK hi \in Element : hi = clmul(w, a1, b1) /\ hi = clmul_bitwise(w, a1, b1)
    BY <1>3, <1>4
<1>7. PICK mid \in Element : /\ mid = clmul(w, Xor(a0, a1), Xor(b0, b1))
                                  /\ mid = clmul_bitwise(w, Xor(a0, a1), Xor(b0, b1))
    BY <1>3, <1>4
<1>8. PICK f : f = Factors(w, a, b)
    OBVIOUS
<1>9. /\ DOMAIN f = {"lo", "hi", "mid"} /\ f["lo"] = <<a0, b0>> /\ f["hi"] = <<a1, b1>>
      /\ f["mid"] = <<Xor(a0, a1), Xor(b0, b1)>>
    BY <1>2, <1>8, FactorsAre
<1>10. PICK p : p = [part \in DOMAIN f |-> clmul(w, f[part][1], f[part][2])]
    OBVIOUS
<1>11. p = [part \in {"lo", "hi", "mid"} |-> IF part = "lo" THEN lo ELSE IF part = "hi" THEN hi ELSE mid]
    <2> DEFINE product(part) == clmul(w, f[part][1], f[part][2])
               named(part) == IF part = "lo" THEN lo ELSE IF part = "hi" THEN hi ELSE mid
    <2>1. f["lo"][1] = a0 /\ f["lo"][2] = b0 /\ f["hi"][1] = a1 /\ f["hi"][2] = b1
        BY <1>9
    <2>2. f["mid"][1] = Xor(a0, a1) /\ f["mid"][2] = Xor(b0, b1)
        BY <1>9
    <2>7. product("lo") = lo /\ product("hi") = hi /\ product("mid") = mid
        BY <1>5, <1>6, <1>7, <2>1, <2>2
    <2>3. named("lo") = lo /\ named("hi") = hi /\ named("mid") = mid
        OBVIOUS
    <2>4. p = [part \in {"lo", "hi", "mid"} |-> product(part)]
        BY <1>9, <1>10
    <2> HIDE DEF product, named
    <2>5. \A part \in {"lo", "hi", "mid"} : product(part) = named(part)
        BY <2>3, <2>7
    <2>6. p = [part \in {"lo", "hi", "mid"} |-> named(part)]
        BY <2>4, <2>5
    <2> QED
        BY <2>6 DEF named
<1>12. PICK k \in Products : /\ k = Karatsuba[p] /\ k.lo = lo /\ k.hi = hi
                                  /\ k.mid = Xor(Xor(mid, lo), hi)
    <2>1. /\ Karatsuba[p] \in Products /\ Karatsuba[p].lo = lo /\ Karatsuba[p].hi = hi
          /\ Karatsuba[p].mid = Xor(Xor(mid, lo), hi)
        BY <1>11, KaratsubaTakes
    <2> QED
        BY <2>1
<1>13. <<a, b>> \in Element \X Element
    <2>1. 0..(BITS \div 2 - 1) \subseteq 0..(BITS - 1)
        BY <1>1
    <2>2. a \subseteq 0..(BITS - 1) /\ b \subseteq 0..(BITS - 1)
        BY <2>1
    <2> QED
        BY <2>2 DEF Element
<1>14. clmul64[<<a, b>>] = Xor(Xor(k.lo, Shl(k.mid, w)), Shl(k.hi, 2 * w))
    <2> DEFINE Joined == [q \in Products |-> Xor(Xor(q.lo, Shl(q.mid, w)), Shl(q.hi, 2 * w))]
    <2>1. clmul64[<<a, b>>] = Joined[Karatsuba[p]]
        BY <1>1, <1>8, <1>10, <1>13 DEF clmul64
    <2>2. Joined[k] = Xor(Xor(k.lo, Shl(k.mid, w)), Shl(k.hi, 2 * w))
        OBVIOUS
    <2> HIDE DEF Joined
    <2> QED
        BY <1>12, <2>1, <2>2
<1>15. k.mid = Middle(w, a0, a1, b0, b1)
    BY <1>5, <1>6, <1>7, <1>12 DEF Middle
<1>16. clmul_bitwise(2 * w, a, b)
       = Xor(Xor(lo, Shl(Middle(w, a0, a1, b0, b1), w)), Shl(hi, 2 * w))
    BY <1>2, <1>3, <1>5, <1>6, KaratsubaIs
<1> QED
    BY <1>1, <1>12, <1>14, <1>15, <1>16

\* The two halves of what the middle product gives, to the low and the high part of the whole.
LEMMA MiddleSplits ==
    ASSUME NEW w \in Nat, NEW lo \in SUBSET (0..(2 * w - 1)), NEW mid \in SUBSET (0..(2 * w - 1)),
           NEW hi \in SUBSET (0..(2 * w - 1))
    PROVE  /\ Xor(hi, Shr(mid, w)) \in SUBSET (0..(2 * w - 1))
           /\ Xor(lo, Truncated(Shl(mid, w), 2 * w)) \in SUBSET (0..(2 * w - 1))
           /\ Xor(Xor(lo, Truncated(Shl(mid, w), 2 * w)),
                       Shl(Xor(hi, Shr(mid, w)), 2 * w))
              = Xor(Xor(lo, Shl(mid, w)), Shl(hi, 2 * w))
<1>1. 2 * w \in Nat /\ lo \in SUBSET Nat /\ mid \in SUBSET Nat /\ hi \in SUBSET Nat
    OBVIOUS
<1>2. PICK s \in SUBSET Nat : s = Shl(mid, w) /\ \A k \in Nat : k \in s <=> k - w \in mid
    BY <1>1, ShlIs
<1>3. PICK t \in SUBSET (0..(2 * w - 1)) : t = Truncated(s, 2 * w)
    BY <1>1, PartsAre
<1>4. PICK r \in SUBSET (0..(w - 1)) : r = Shr(mid, w) /\ \A k \in Nat : k \in r <=> k + w \in mid
    <2>1. Shr(mid, w) \in SUBSET (0..(w - 1))
        BY HalvesIn
    <2>2. \A k \in Nat : k \in Shr(mid, w) <=> k + w \in mid
        BY <1>1, PartsAre
    <2> QED
        BY <2>1, <2>2
<1>5. Shr(s, 2 * w) = r
    <2>1. Shr(s, 2 * w) \subseteq Nat /\ \A k \in Nat : k \in Shr(s, 2 * w) <=> k + 2 * w \in s
        BY <1>1, PartsAre
    <2>2. \A k \in Nat : k + 2 * w \in Nat /\ (k + 2 * w) - w = k + w
        OBVIOUS
    <2>3. \A k \in Nat : k \in Shr(s, 2 * w) <=> k \in r
        BY <1>2, <1>4, <2>1, <2>2
    <2>4. r \subseteq Nat
        OBVIOUS
    <2>5. PICK u \in SUBSET Nat : u = Shr(s, 2 * w)
        BY <2>1
    <2>6. \A k \in Nat : k \in u <=> k \in r
        BY <2>3, <2>5
    <2>7. u = r
        BY <2>4, <2>6
    <2> QED
        BY <2>5, <2>7
<1>6. s = Xor(t, Shl(r, 2 * w))
    <2>1. s = Xor(Truncated(s, 2 * w), Shl(Shr(s, 2 * w), 2 * w))
        BY <1>1, PartsAre
    <2> QED
        BY <1>3, <1>5, <2>1
<1>7. Xor(hi, r) \in SUBSET (0..(2 * w - 1)) /\ Xor(lo, t) \in SUBSET (0..(2 * w - 1))
    <2>1. 0..(w - 1) \subseteq 0..(2 * w - 1)
        OBVIOUS
    <2>2. r \subseteq 0..(2 * w - 1)
        BY <2>1
    <2> QED
        BY <2>2 DEF Xor
<1>8. Shl(Xor(hi, r), 2 * w) = Xor(Shl(hi, 2 * w), Shl(r, 2 * w))
    <2>1. r \in SUBSET Nat
        OBVIOUS
    <2> QED
        BY <1>1, <2>1, ShlIs
<1>9. \A x, y, z, u : Xor(Xor(x, y), Xor(z, u)) = Xor(Xor(x, Xor(y, u)), z)
    BY DEF Xor
<1>10. Xor(Xor(lo, t), Shl(Xor(hi, r), 2 * w)) = Xor(Xor(lo, s), Shl(hi, 2 * w))
    BY <1>6, <1>8, <1>9
<1> QED
    BY <1>2, <1>3, <1>4, <1>7, <1>10

\* The product of the code is the one bit by bit.
LEMMA MulIs ==
    ASSUME ClmulHolds, NEW a \in Element, NEW b \in Element
    PROVE  mul[<<a, b>>] = mul_bitwise(a, b)
<1>1. PICK w \in Nat : w = BITS \div 2 /\ 2 * w = BITS /\ w > 0
    BY FieldNumbers
<1>2. PICK a0, a1, b0, b1 : /\ a0 = Truncated(a, w) /\ a1 = Shr(a, w)
                            /\ b0 = Truncated(b, w) /\ b1 = Shr(b, w)
    OBVIOUS
<1>3. /\ a \in SUBSET Nat /\ b \in SUBSET Nat
      /\ a0 \in SUBSET (0..(w - 1)) /\ a1 \in SUBSET (0..(w - 1)) /\ Xor(a0, a1) \in SUBSET (0..(w - 1))
      /\ b0 \in SUBSET (0..(w - 1)) /\ b1 \in SUBSET (0..(w - 1)) /\ Xor(b0, b1) \in SUBSET (0..(w - 1))
    <2>1. a \in SUBSET (0..(2 * w - 1)) /\ b \in SUBSET (0..(2 * w - 1))
        BY <1>1 DEF Element
    <2> QED
        BY <1>2, <2>1, HalvesIn
<1>4. ASSUME NEW x \in SUBSET (0..(w - 1)), NEW y \in SUBSET (0..(w - 1))
      PROVE  clmul64[<<x, y>>] \in Element /\ clmul64[<<x, y>>] = clmul_bitwise(w, x, y)
    <2>1. clmul64[<<x, y>>] = clmul_bitwise(w, x, y)
        BY <1>1, Clmul64Is
    <2>2. clmul_bitwise(w, x, y) \subseteq 0..(w + w - 2)
        BY ProductIn
    <2>3. 0..(w + w - 2) \subseteq 0..(BITS - 1)
        BY <1>1
    <2> QED
        BY <2>1, <2>2, <2>3 DEF Element
<1>5. PICK lo \in Element : lo = clmul64[<<a0, b0>>] /\ lo = clmul_bitwise(w, a0, b0)
    BY <1>3, <1>4
<1>6. PICK hi \in Element : hi = clmul64[<<a1, b1>>] /\ hi = clmul_bitwise(w, a1, b1)
    BY <1>3, <1>4
<1>7. PICK mid \in Element : /\ mid = clmul64[<<Xor(a0, a1), Xor(b0, b1)>>]
                                  /\ mid = clmul_bitwise(w, Xor(a0, a1), Xor(b0, b1))
    BY <1>3, <1>4
<1>8. PICK f : f = Factors(w, a, b)
    OBVIOUS
<1>9. /\ DOMAIN f = {"lo", "hi", "mid"} /\ f["lo"] = <<a0, b0>> /\ f["hi"] = <<a1, b1>>
      /\ f["mid"] = <<Xor(a0, a1), Xor(b0, b1)>>
    BY <1>2, <1>8, FactorsAre
<1>10. PICK p : p = [part \in DOMAIN f |-> clmul64[f[part]]]
    OBVIOUS
<1>11. p = [part \in {"lo", "hi", "mid"} |-> IF part = "lo" THEN lo ELSE IF part = "hi" THEN hi ELSE mid]
    <2> DEFINE product(part) == clmul64[f[part]]
               named(part) == IF part = "lo" THEN lo ELSE IF part = "hi" THEN hi ELSE mid
    <2>1. product("lo") = lo /\ product("hi") = hi /\ product("mid") = mid
        BY <1>5, <1>6, <1>7, <1>9
    <2>2. named("lo") = lo /\ named("hi") = hi /\ named("mid") = mid
        OBVIOUS
    <2>3. p = [part \in {"lo", "hi", "mid"} |-> product(part)]
        BY <1>9, <1>10
    <2> HIDE DEF product, named
    <2>4. \A part \in {"lo", "hi", "mid"} : product(part) = named(part)
        BY <2>1, <2>2
    <2>5. p = [part \in {"lo", "hi", "mid"} |-> named(part)]
        BY <2>3, <2>4
    <2> QED
        BY <2>5 DEF named
<1>12. PICK k \in Products : /\ k = Karatsuba[p] /\ k.lo = lo /\ k.hi = hi
                                  /\ k.mid = Xor(Xor(mid, lo), hi)
    <2>1. /\ Karatsuba[p] \in Products /\ Karatsuba[p].lo = lo /\ Karatsuba[p].hi = hi
          /\ Karatsuba[p].mid = Xor(Xor(mid, lo), hi)
        BY <1>11, KaratsubaTakes
    <2> QED
        BY <2>1
<1>13. <<a, b>> \in Element \X Element
    OBVIOUS
<1> DEFINE High(q) == Xor(q.hi, Shr(q.mid, w))
           Low(q)  == Xor(q.lo, Truncated(Shl(q.mid, w), BITS))
<1>14. mul[<<a, b>>] = reduce(High(k), Low(k))
    <2> DEFINE Joined == [q \in Products |-> reduce(High(q), Low(q))]
    <2>1. mul[<<a, b>>] = Joined[Karatsuba[p]]
        BY <1>1, <1>8, <1>10, <1>13 DEF mul
    <2>2. Joined[k] = reduce(High(k), Low(k))
        OBVIOUS
    <2> HIDE DEF Joined
    <2> QED
        BY <1>12, <2>1, <2>2
<1>15. k.mid = Middle(w, a0, a1, b0, b1)
    BY <1>5, <1>6, <1>7, <1>12 DEF Middle
<1>16. PICK m \in Element : m = k.mid
    BY DEF Products
<1>17. clmul_bitwise(BITS, a, b)
       = Xor(Xor(lo, Shl(m, w)), Shl(hi, 2 * w))
    <2>1. clmul_bitwise(2 * w, a, b)
          = Xor(Xor(lo, Shl(Middle(w, a0, a1, b0, b1), w)), Shl(hi, 2 * w))
        BY <1>2, <1>3, <1>5, <1>6, KaratsubaIs
    <2> QED
        BY <1>1, <1>15, <1>16, <2>1
<1>18. /\ Xor(hi, Shr(m, w)) \in Element
       /\ Xor(lo, Truncated(Shl(m, w), 2 * w)) \in Element
       /\ Xor(Xor(lo, Truncated(Shl(m, w), 2 * w)),
                   Shl(Xor(hi, Shr(m, w)), 2 * w))
          = Xor(Xor(lo, Shl(m, w)), Shl(hi, 2 * w))
    <2>1. Element = SUBSET (0..(2 * w - 1))
        BY <1>1 DEF Element
    <2>2. lo \in SUBSET (0..(2 * w - 1)) /\ hi \in SUBSET (0..(2 * w - 1)) /\ m \in SUBSET (0..(2 * w - 1))
        BY <2>1
    <2>3. /\ Xor(hi, Shr(m, w)) \in SUBSET (0..(2 * w - 1))
          /\ Xor(lo, Truncated(Shl(m, w), 2 * w)) \in SUBSET (0..(2 * w - 1))
          /\ Xor(Xor(lo, Truncated(Shl(m, w), 2 * w)),
                      Shl(Xor(hi, Shr(m, w)), 2 * w))
             = Xor(Xor(lo, Shl(m, w)), Shl(hi, 2 * w))
        BY <2>2, MiddleSplits
    <2> QED
        BY <2>1, <2>3
<1>19. High(k) = Xor(hi, Shr(m, w)) /\ Low(k) = Xor(lo, Truncated(Shl(m, w), 2 * w))
    BY <1>1, <1>12, <1>16
<1> HIDE DEF High, Low
<1>20. reduce(High(k), Low(k)) = Reduced(Xor(Low(k), Shl(High(k), BITS)))
    BY <1>18, <1>19, ReduceIs
<1>21. Xor(Low(k), Shl(High(k), BITS)) = clmul_bitwise(BITS, a, b)
    BY <1>1, <1>17, <1>18, <1>19
<1>22. mul_bitwise(a, b) = Reduced(clmul_bitwise(BITS, a, b))
    BY BitwiseIsReduced
<1> QED
    BY <1>14, <1>20, <1>21, <1>22

-----------------------------------------------------------------------------
(* Integer products with holes between the bits. *)

\* Powers of two.
LEMMA TwosAre ==
    /\ Power(2, 0) = 1
    /\ \A n \in Nat : Power(2, n) \in Nat \ {0} /\ Power(2, n + 1) = 2 * Power(2, n)
<1>1. 2 \in Nat \ {0}
    OBVIOUS
<1> QED
    BY <1>1, PowerZero, PowerStep, PowerPositive

\* The power of a sum.
LEMMA TwosAdd ==
    ASSUME NEW m \in Nat, NEW n \in Nat
    PROVE  Power(2, m + n) = Power(2, m) * Power(2, n)
<1> DEFINE L == {k \in Nat : Power(2, m + k) = Power(2, m) * Power(2, k)}
<1>1. 0 \in L
    <2>1. Power(2, m) \in Nat /\ Power(2, 0) = 1 /\ m + 0 = m
        BY TwosAre
    <2> QED
        BY <2>1
<1>2. ASSUME NEW k \in Nat, k \in L PROVE k + 1 \in L
    <2>1. PICK p \in Nat, q \in Nat : p = Power(2, m) /\ q = Power(2, k)
        BY TwosAre
    <2>2. Power(2, m + k) = p * q
        BY <1>2, <2>1
    <2>3. m + (k + 1) = (m + k) + 1 /\ m + k \in Nat
        OBVIOUS
    <2>4. Power(2, m + (k + 1)) = 2 * (p * q) /\ Power(2, k + 1) = 2 * q
        BY <2>1, <2>2, <2>3, TwosAre
    <2>5. 2 * (p * q) = p * (2 * q)
        OBVIOUS
    <2> QED
        BY <2>1, <2>4, <2>5
<1>3. Nat \subseteq L
    <2> HIDE DEF L
    <2> QED
        BY <1>1, <1>2, Induction
<1> QED
    BY <1>3

\* A larger power is a multiple.
LEMMA TwosApart ==
    ASSUME NEW m \in Nat, NEW n \in Nat, m <= n
    PROVE  \E q \in Nat \ {0} : Power(2, n) = Power(2, m) * q
<1>1. PICK k \in Nat : n = m + k
    <2>1. n - m \in Nat /\ n = m + (n - m)
        OBVIOUS
    <2> QED
        BY <2>1
<1> QED
    BY <1>1, TwosAre, TwosAdd

\* What bit i gives to the number of a word.
BitValue(a, i) == IF i \in a THEN Power(2, i) ELSE 0

UnsignedRun(F, a, n) == F[0] = 0 /\ \A i \in 1..n : F[i] = F[i - 1] + BitValue(a, i - 1)

\* The number of a word is gathered bit by bit.
LEMMA UnsignedLoop ==
    ASSUME NEW a, NEW n \in Nat
    PROVE  \E F \in [0..n -> Nat] : UnsignedRun(F, a, n) /\ Unsigned(a, n) = F[n]
<1> DEFINE step == [p \in Nat \X (1..n) |-> p[1] + BitValue(a, p[2] - 1)]
           Eq(F) == F = [i \in 0..n |-> IF i = 0 THEN 0 ELSE F[i - 1] + BitValue(a, i - 1)]
<1>1. step \in [Nat \X (1..n) -> Nat]
    <2> SUFFICES ASSUME NEW v \in Nat, NEW m \in 1..n PROVE v + BitValue(a, m - 1) \in Nat
        OBVIOUS
    <2>1. m - 1 \in Nat /\ Power(2, m - 1) \in Nat
        BY TwosAre
    <2>2. BitValue(a, m - 1) \in Nat
        BY <2>1 DEF BitValue
    <2> QED
        BY <2>2
<1>2. PICK G \in [0..n -> Nat] : Eq(G)
    <2>1. \A v \in Nat, m \in 1..n : step[<<v, m>>] = v + BitValue(a, m - 1)
        OBVIOUS
    <2> HIDE DEF step
    <2>2. PICK F \in [0..n -> Nat] : Counts(F, n, 0, step)
        BY <1>1, CountingLoop
    <2>3. ASSUME NEW i \in 0..n PROVE F[i] = IF i = 0 THEN 0 ELSE F[i - 1] + BitValue(a, i - 1)
        <3>1. CASE i = 0
            BY <2>2, <3>1 DEF Counts
        <3>2. CASE i # 0
            <4>1. i \in 1..n /\ i - 1 \in 0..n
                BY <3>2
            <4>2. F[i] = step[<<F[i - 1], i>>] /\ F[i - 1] \in Nat
                BY <2>2, <3>2, <4>1 DEF Counts
            <4> QED
                BY <2>1, <3>2, <4>1, <4>2
        <3> QED
            BY <3>1, <3>2
    <2> QED
        BY <2>2, <2>3
<1> DEFINE F == CHOOSE F : Eq(F)
<1>4. F = [i \in 0..n |-> IF i = 0 THEN 0 ELSE F[i - 1] + BitValue(a, i - 1)]
    BY <1>2
<1>5. Unsigned(a, n) = F[n]
    BY Zenon DEF Unsigned, BitValue
<1> HIDE DEF F
<1>6. UnsignedRun(F, a, n) /\ UnsignedRun(G, a, n)
    <2> DEFINE body(i) == IF i = 0 THEN 0 ELSE F[i - 1] + BitValue(a, i - 1)
               other(i) == IF i = 0 THEN 0 ELSE G[i - 1] + BitValue(a, i - 1)
    <2>1. F = [i \in 0..n |-> body(i)] /\ G = [i \in 0..n |-> other(i)]
        BY <1>2, <1>4
    <2>2. body(0) = 0 /\ \A i \in 1..n : body(i) = F[i - 1] + BitValue(a, i - 1)
        OBVIOUS
    <2>3. other(0) = 0 /\ \A i \in 1..n : other(i) = G[i - 1] + BitValue(a, i - 1)
        OBVIOUS
    <2> HIDE DEF body, other
    <2> QED
        BY <2>1, <2>2, <2>3 DEF UnsignedRun
<1> DEFINE L == {k \in Nat : k \in 0..n => F[k] = G[k]}
<1>7. 0 \in L
    BY <1>6 DEF UnsignedRun
<1>8. ASSUME NEW k \in Nat, k \in L PROVE k + 1 \in L
    <2> SUFFICES ASSUME k + 1 \in 0..n PROVE F[k + 1] = G[k + 1]
        OBVIOUS
    <2>1. k + 1 \in 1..n /\ (k + 1) - 1 = k /\ F[k] = G[k]
        BY <1>8
    <2> QED
        BY <1>6, <2>1 DEF UnsignedRun
<1>9. Nat \subseteq L
    <2> HIDE DEF L
    <2> QED
        BY <1>7, <1>8, Induction
<1>10. F[n] = G[n]
    BY <1>9
<1> QED
    BY <1>5, <1>6, <1>10

\* One more bit.
LEMMA UnsignedIs ==
    ASSUME NEW a, NEW n \in Nat
    PROVE  /\ Unsigned(a, 0) = 0 /\ Unsigned(a, n) \in Nat
           /\ Unsigned(a, n + 1) = Unsigned(a, n) + BitValue(a, n)
<1>1. PICK F \in [0..n -> Nat] : UnsignedRun(F, a, n) /\ Unsigned(a, n) = F[n]
    BY UnsignedLoop
<1>2. PICK G \in [0..(n + 1) -> Nat] : UnsignedRun(G, a, n + 1) /\ Unsigned(a, n + 1) = G[n + 1]
    <2>1. n + 1 \in Nat
        OBVIOUS
    <2> QED
        BY <2>1, UnsignedLoop
<1> DEFINE L == {k \in Nat : k \in 0..n => F[k] = G[k]}
<1>3. 0 \in L
    BY <1>1, <1>2 DEF UnsignedRun
<1>4. ASSUME NEW k \in Nat, k \in L PROVE k + 1 \in L
    <2> SUFFICES ASSUME k + 1 \in 0..n PROVE F[k + 1] = G[k + 1]
        OBVIOUS
    <2>1. k + 1 \in 1..n /\ k + 1 \in 1..(n + 1) /\ (k + 1) - 1 = k /\ F[k] = G[k]
        BY <1>4
    <2> QED
        BY <1>1, <1>2, <2>1 DEF UnsignedRun
<1>5. Nat \subseteq L
    <2> HIDE DEF L
    <2> QED
        BY <1>3, <1>4, Induction
<1>6. F[n] = G[n] /\ n + 1 \in 1..(n + 1) /\ (n + 1) - 1 = n /\ n \in 0..n
    BY <1>5
<1>7. G[n + 1] = G[n] + BitValue(a, n)
    BY <1>2, <1>6 DEF UnsignedRun
<1>8. Unsigned(a, 0) = 0
    <2>1. PICK H \in [0..0 -> Nat] : UnsignedRun(H, a, 0) /\ Unsigned(a, 0) = H[0]
        BY UnsignedLoop
    <2> QED
        BY <2>1 DEF UnsignedRun
<1> QED
    BY <1>1, <1>2, <1>6, <1>7, <1>8

\* The ones that a class can hold before they reach the next bit of the class.
Room == Power(2, CLASSES) - 1

\* X has, from bit k of its class on, the digit e, and below it r words of the class at the most.
DigitAt(X, k, e, r) ==
    \E low, rest \in Nat :
        /\ X = low + Power(2, k) * (e + (Room + 1) * rest)
        /\ low * Room <= r * (Power(2, k) - 1)

\* The numbers of the classes.
LEMMA ClassNumbers ==
    /\ CLASSES \in Nat \ {0} /\ Room \in Nat \ {0} /\ Room + 1 = Power(2, CLASSES)
    /\ \E h \in Nat : Room + 1 = 2 * h
<1>1. CLASSES \in Nat \ {0} /\ CLASSES - 1 \in Nat /\ CLASSES = (CLASSES - 1) + 1
    BY NoidAssumption
<1>2. PICK h \in Nat \ {0} : h = Power(2, CLASSES - 1)
    BY <1>1, TwosAre
<1>3. Power(2, CLASSES) = 2 * h
    BY <1>1, <1>2, TwosAre
<1> QED
    BY <1>1, <1>3 DEF Room

\* Positions of one class are a whole number of strides apart.
LEMMA ClassesApart ==
    ASSUME NEW m \in Nat, NEW n \in Nat, m % CLASSES = n % CLASSES, m < n
    PROVE  m + CLASSES <= n
<1>1. PICK c \in Nat \ {0} : c = CLASSES
    BY ClassNumbers
<1>2. PICK p \in Nat, q \in Nat, d \in 0..(c - 1) : m = c * p + d /\ n = c * q + d
    <2>1. m = c * (m \div c) + (m % c) /\ m \div c \in Nat /\ m % c \in 0..(c - 1)
        OBVIOUS
    <2>2. n = c * (n \div c) + (n % c) /\ n \div c \in Nat
        OBVIOUS
    <2> QED
        BY <1>1, <2>1, <2>2
<1>3. p < q
    <2> SUFFICES ASSUME q <= p PROVE FALSE
        OBVIOUS
    <2>1. PICK u \in Nat : p = q + u
        <3>1. p - q \in Nat /\ p = q + (p - q)
            OBVIOUS
        <3> QED
            BY <3>1
    <2>2. c * (q + u) = c * q + c * u /\ c * u \in Nat /\ c * q \in Nat
        OBVIOUS
    <2> QED
        BY <1>2, <2>1, <2>2
<1>4. PICK u \in Nat : q = (p + 1) + u
    <2>1. q - (p + 1) \in Nat /\ q = (p + 1) + (q - (p + 1))
        BY <1>3
    <2> QED
        BY <2>1
<1>5. c * ((p + 1) + u) = c * p + c + c * u /\ c * u \in Nat /\ c * p \in Nat
    OBVIOUS
<1> QED
    BY <1>1, <1>2, <1>4, <1>5

\* The class of a sum is that of the sum of the classes.
LEMMA ClassAdds ==
    ASSUME NEW c \in Nat \ {0}, NEW m \in Nat, NEW n \in Nat
    PROVE  ((m % c) + n) % c = (m + n) % c
<1>1. PICK p \in Nat, d \in 0..(c - 1) : m = p * c + d /\ d = m % c
    <2>1. m = c * (m \div c) + (m % c) /\ m \div c \in Nat /\ m % c \in 0..(c - 1)
        OBVIOUS
    <2>2. PICK p \in Nat, d \in 0..(c - 1) : p = m \div c /\ d = m % c /\ m = c * p + d
        BY <2>1
    <2>3. c * p = p * c
        OBVIOUS
    <2> QED
        BY <2>2, <2>3
<1>2. PICK q \in Nat, e \in 0..(c - 1) : d + n = q * c + e
    <2>1. d + n \in Nat
        OBVIOUS
    <2>2. PICK y \in Nat : y = d + n
        BY <2>1
    <2>3. y = c * (y \div c) + (y % c) /\ y \div c \in Nat /\ y % c \in 0..(c - 1)
        OBVIOUS
    <2>4. PICK q \in Nat, e \in 0..(c - 1) : y = c * q + e
        BY <2>3
    <2>5. c * q = q * c
        OBVIOUS
    <2> QED
        BY <2>2, <2>4, <2>5
<1>3. m + n = (p + q) * c + e
    <2>1. (p + q) * c = p * c + q * c /\ p * c \in Nat /\ q * c \in Nat
        OBVIOUS
    <2> QED
        BY <1>1, <1>2, <2>1
<1>4. (q * c + e) % c = e
    BY QuotientIs
<1>5. ((p + q) * c + e) % c = e
    <2>1. p + q \in Nat
        OBVIOUS
    <2> QED
        BY <2>1, QuotientIs
<1> QED
    BY <1>1, <1>2, <1>3, <1>4, <1>5

\* A word with bits of class i only.
OfClass(a, i) == a \in SUBSET Nat /\ \A q \in a : q % CLASSES = i

\* The bits of such a word below n make a number below Power(2, n).
LEMMA WordBelow ==
    ASSUME NEW i, NEW a, OfClass(a, i), NEW n \in Nat, NEW w \in Nat
    PROVE  \A k \in Nat : k >= w + n /\ k % CLASSES = (i + n) % CLASSES
                => (Unsigned(a, w) * Power(2, n)) * Room <= Power(2, k) - 1
<1> DEFINE X(v) == Unsigned(a, v) * Power(2, n)
           L == {v \in Nat : \A k \in Nat : k >= v + n /\ k % CLASSES = (i + n) % CLASSES
                                => X(v) * Room <= Power(2, k) - 1}
<1>0. PICK s \in Nat \ {0} : s = Room
    BY ClassNumbers
<1>1. 0 \in L
    <2>1. PICK t \in Nat : t = Power(2, n)
        BY TwosAre
    <2>2. X(0) * Room = 0
        BY <1>0, <2>1, UnsignedIs
    <2>3. \A k \in Nat : 0 <= Power(2, k) - 1
        BY TwosAre
    <2> QED
        BY <2>2, <2>3
<1>2. ASSUME NEW v \in Nat, v \in L PROVE v + 1 \in L
    <2> SUFFICES ASSUME NEW k \in Nat, k >= (v + 1) + n, k % CLASSES = (i + n) % CLASSES
                 PROVE  X(v + 1) * Room <= Power(2, k) - 1
        OBVIOUS
    <2>1. PICK x \in Nat, t \in Nat : x = Unsigned(a, v) /\ t = Power(2, n)
        BY TwosAre, UnsignedIs
    <2>2. CASE v \notin a
        <3>1. Unsigned(a, v + 1) = x
            BY <2>1, <2>2, UnsignedIs DEF BitValue
        <3>2. X(v + 1) = X(v)
            BY <2>1, <3>1
        <3>3. k >= v + n
            OBVIOUS
        <3>4. X(v) * Room <= Power(2, k) - 1
            BY <1>2, <3>3
        <3> HIDE DEF X
        <3> QED
            BY <3>2, <3>4
    <2>3. CASE v \in a
        <3>1. PICK u \in Nat : u = Power(2, v)
            BY TwosAre
        <3>2. Unsigned(a, v + 1) = x + u
            BY <2>1, <2>3, <3>1, UnsignedIs DEF BitValue
        <3>14. PICK m \in Nat : m = v + n
            OBVIOUS
        <3>3. PICK p \in Nat \ {0} : p = Power(2, m) /\ p = u * t
            <4>1. Power(2, v + n) = Power(2, v) * Power(2, n)
                BY TwosAdd
            <4>2. Power(2, m) \in Nat \ {0}
                BY TwosAre
            <4> QED
                BY <2>1, <3>1, <3>14, <4>1, <4>2
        <3>4. m % CLASSES = k % CLASSES
            <4>1. v % CLASSES = i
                BY <2>3 DEF OfClass
            <4>2. ((v % CLASSES) + n) % CLASSES = (v + n) % CLASSES
                BY ClassNumbers, ClassAdds
            <4> QED
                BY <3>14, <4>1, <4>2
        <3>5. (x * t) * s <= p - 1
            <4>1. m \in Nat /\ m >= v + n /\ m % CLASSES = (i + n) % CLASSES
                BY <3>4, <3>14
            <4>2. X(v) * Room <= Power(2, m) - 1
                BY <1>2, <4>1
            <4> QED
                BY <1>0, <2>1, <3>3, <4>2
        <3>6. PICK o \in Nat : o = m + CLASSES /\ o <= k
            <4>1. m < k /\ CLASSES \in Nat
                BY <3>14, ClassNumbers
            <4>2. m + CLASSES <= k
                BY <3>4, <4>1, ClassesApart
            <4> QED
                BY <4>1, <4>2
        <3>7. Power(2, o) = p * (s + 1)
            <4>1. CLASSES \in Nat /\ Power(2, CLASSES) = s + 1
                BY <1>0, ClassNumbers
            <4>2. Power(2, m + CLASSES) = Power(2, m) * Power(2, CLASSES)
                BY <4>1, TwosAdd
            <4> QED
                BY <3>3, <3>6, <4>1, <4>2
        <3>8. PICK q \in Nat \ {0} : Power(2, k) = (p * (s + 1)) * q
            <4>1. \E q \in Nat \ {0} : Power(2, k) = Power(2, o) * q
                BY <3>6, TwosApart
            <4> QED
                BY <3>7, <4>1
        <3>9. X(v + 1) * Room = (x * t) * s + p * s
            <4>1. X(v + 1) = x * t + p
                BY <2>1, <3>2, <3>3
            <4>2. x * t \in Nat
                OBVIOUS
            <4>3. PICK y \in Nat : y = x * t
                BY <4>2
            <4>4. (y + p) * s = y * s + p * s
                OBVIOUS
            <4> HIDE DEF X
            <4> QED
                BY <1>0, <4>1, <4>3, <4>4
        <3>10. (x * t) * s + p * s <= p * (s + 1) - 1
            <4>1. p * (s + 1) = p * s + p /\ p * s \in Nat /\ (x * t) * s \in Nat
                OBVIOUS
            <4> QED
                BY <3>5, <4>1
        <3>11. p * (s + 1) <= (p * (s + 1)) * q
            <4>1. PICK y \in Nat : y = p * (s + 1)
                OBVIOUS
            <4>2. PICK z \in Nat : q = z + 1
                <5>1. q - 1 \in Nat /\ q = (q - 1) + 1
                    OBVIOUS
                <5> QED
                    BY <5>1
            <4>3. y * (z + 1) = y * z + y /\ y * z \in Nat
                OBVIOUS
            <4> QED
                BY <4>1, <4>2, <4>3
        <3>12. \A g, h, j \in Int : g <= h - 1 /\ h <= j => g <= j - 1
            OBVIOUS
        <3>13. X(v + 1) * Room \in Int /\ p * (s + 1) \in Int /\ (p * (s + 1)) * q \in Int
            <4>1. (x * t) * s + p * s \in Int
                OBVIOUS
            <4> HIDE DEF X
            <4> QED
                BY <3>9, <4>1
        <3> HIDE DEF X
        <3> QED
            BY <3>8, <3>9, <3>10, <3>11, <3>12, <3>13
    <2> QED
        BY <2>2, <2>3
<1>3. Nat \subseteq L
    <2> HIDE DEF L
    <2> QED
        BY <1>1, <1>2, Induction
<1>4. w \in L
    BY <1>3
<1> QED
    BY <1>4

\* Digits add up: no carry gets from one to the next.
LEMMA DigitsAdd ==
    ASSUME NEW x \in Nat, NEW y \in Nat, NEW k \in Nat, NEW e \in Nat, NEW f \in Nat, NEW r \in Nat, NEW q \in Nat,
           DigitAt(x, k, e, r), DigitAt(y, k, f, q)
    PROVE  DigitAt(x + y, k, e + f, r + q)
<1>1. PICK p \in Nat : p + 1 = Power(2, k) /\ p = Power(2, k) - 1
    <2>1. Power(2, k) \in Nat \ {0}
        BY TwosAre
    <2>2. Power(2, k) - 1 \in Nat /\ (Power(2, k) - 1) + 1 = Power(2, k)
        BY <2>1
    <2> QED
        BY <2>2
<1>2. PICK s \in Nat : s = Room
    BY ClassNumbers
<1>3. PICK a \in Nat, g \in Nat : x = a + (p + 1) * (e + (s + 1) * g) /\ a * s <= r * p
    BY <1>1, <1>2 DEF DigitAt
<1>4. PICK b \in Nat, h \in Nat : y = b + (p + 1) * (f + (s + 1) * h) /\ b * s <= q * p
    BY <1>1, <1>2 DEF DigitAt
<1>5. (a + b) * s <= (r + q) * p
    <2>1. (a + b) * s = a * s + b * s /\ (r + q) * p = r * p + q * p
        OBVIOUS
    <2>2. a * s \in Nat /\ b * s \in Nat /\ r * p \in Nat /\ q * p \in Nat
        OBVIOUS
    <2> QED
        BY <1>3, <1>4, <2>1, <2>2
<1>6. x + y = (a + b) + (p + 1) * ((e + f) + (s + 1) * (g + h))
    <2>1. PICK t \in Nat, u \in Nat : t = (s + 1) * g /\ u = (s + 1) * h /\ (s + 1) * (g + h) = t + u
        <3>1. (s + 1) * (g + h) = (s + 1) * g + (s + 1) * h /\ (s + 1) * g \in Nat /\ (s + 1) * h \in Nat
            OBVIOUS
        <3> QED
            BY <3>1
    <2>2. (p + 1) * ((e + f) + (t + u)) = (p + 1) * (e + t) + (p + 1) * (f + u)
        OBVIOUS
    <2>3. (p + 1) * (e + t) \in Nat /\ (p + 1) * (f + u) \in Nat
        OBVIOUS
    <2> QED
        BY <1>3, <1>4, <2>1, <2>2, <2>3
<1>7. a + b \in Nat /\ g + h \in Nat
    OBVIOUS
<1> QED
    BY <1>1, <1>2, <1>5, <1>6, <1>7 DEF DigitAt

\* A number below bit k, one bit at it, and one further up in the class.
LEMMA DigitsAre ==
    ASSUME NEW k \in Nat
    PROVE  /\ \A x \in Nat : x * Room <= Power(2, k) - 1 => DigitAt(x, k, 0, 1)
           /\ DigitAt(0, k, 0, 0) /\ DigitAt(Power(2, k), k, 1, 0)
           /\ \A m \in Nat : k < m /\ k % CLASSES = m % CLASSES => DigitAt(Power(2, m), k, 0, 0)
<1>1. PICK p \in Nat \ {0} : p = Power(2, k)
    BY TwosAre
<1>2. PICK s \in Nat : s = Room
    BY ClassNumbers
<1>3. ASSUME NEW x \in Nat, x * s <= p - 1 PROVE DigitAt(x, k, 0, 1)
    <2>1. x = x + p * (0 + (s + 1) * 0) /\ x * s <= 1 * (p - 1)
        BY <1>3
    <2> QED
        BY <1>1, <1>2, <2>1 DEF DigitAt
<1>4. DigitAt(0, k, 0, 0)
    <2>1. 0 = 0 + p * (0 + (s + 1) * 0) /\ 0 * s <= 0 * (p - 1)
        OBVIOUS
    <2> QED
        BY <1>1, <1>2, <2>1 DEF DigitAt
<1>5. DigitAt(p, k, 1, 0)
    <2>1. p = 0 + p * (1 + (s + 1) * 0) /\ 0 * s <= 0 * (p - 1)
        OBVIOUS
    <2> QED
        BY <1>1, <1>2, <2>1 DEF DigitAt
<1>6. ASSUME NEW m \in Nat, k < m, k % CLASSES = m % CLASSES PROVE DigitAt(Power(2, m), k, 0, 0)
    <2>1. PICK c \in Nat : c = CLASSES /\ Power(2, c) = s + 1
        BY <1>2, ClassNumbers
    <2>2. k + c <= m /\ k + c \in Nat
        <3>1. k + CLASSES <= m
            BY <1>6, ClassesApart
        <3> QED
            BY <2>1, <3>1
    <2>3. Power(2, k + c) = p * (s + 1)
        BY <1>1, <2>1, TwosAdd
    <2>4. PICK q \in Nat \ {0} : Power(2, m) = Power(2, k + c) * q
        BY <2>2, TwosApart
    <2>5. (p * (s + 1)) * q = 0 + p * (0 + (s + 1) * q) /\ 0 * s <= 0 * (p - 1)
        <3>1. PICK t \in Nat : t = s + 1
            OBVIOUS
        <3>2. (p * t) * q = p * (t * q) /\ t * q \in Nat /\ p * (t * q) \in Nat
            OBVIOUS
        <3> QED
            BY <3>1, <3>2
    <2> QED
        BY <1>1, <1>2, <2>3, <2>4, <2>5 DEF DigitAt
<1> QED
    BY <1>1, <1>2, <1>3, <1>4, <1>5, <1>6

\* A word of class i, shifted by n, has its own bits for digits.
LEMMA WordDigits ==
    ASSUME NEW i, NEW a, OfClass(a, i), NEW n \in Nat, NEW w \in Nat
    PROVE  \A k \in Nat : k % CLASSES = (i + n) % CLASSES
                => DigitAt(Unsigned(a, w) * Power(2, n), k, IF k - n \in a /\ k - n < w THEN 1 ELSE 0, 1)
<1> DEFINE X(v) == Unsigned(a, v) * Power(2, n)
           e(k, v) == IF k - n \in a /\ k - n < v THEN 1 ELSE 0
           L == {v \in Nat : \A k \in Nat : k % CLASSES = (i + n) % CLASSES => DigitAt(X(v), k, e(k, v), 1)}
<1>0. \A v \in Nat : X(v) \in Nat
    BY UnsignedIs, TwosAre
<1>1. 0 \in L
    <2> SUFFICES ASSUME NEW k \in Nat PROVE DigitAt(X(0), k, e(k, 0), 1)
        OBVIOUS
    <2>1. X(0) = 0
        <3>1. Unsigned(a, 0) = 0 /\ Power(2, n) \in Nat
            BY UnsignedIs, TwosAre
        <3> QED
            BY <3>1
    <2>2. e(k, 0) = 0
        BY DEF OfClass
    <2>3. 0 * Room <= Power(2, k) - 1
        <3>1. Room \in Nat /\ Power(2, k) \in Nat \ {0}
            BY ClassNumbers, TwosAre
        <3> QED
            BY <3>1
    <2>4. DigitAt(0, k, 0, 1)
        BY <2>3, DigitsAre
    <2> HIDE DEF X, e
    <2> QED
        BY <2>1, <2>2, <2>4
<1>2. ASSUME NEW v \in Nat, v \in L PROVE v + 1 \in L
    <2> SUFFICES ASSUME NEW k \in Nat, k % CLASSES = (i + n) % CLASSES
                 PROVE  DigitAt(X(v + 1), k, e(k, v + 1), 1)
        OBVIOUS
    <2>1. DigitAt(X(v), k, e(k, v), 1)
        BY <1>2
    <2>2. CASE v \notin a
        <3>1. Unsigned(a, v + 1) = Unsigned(a, v)
            BY <2>2, UnsignedIs DEF BitValue
        <3>2. e(k, v + 1) = e(k, v)
            BY <2>2
        <3> QED
            BY <2>1, <3>1, <3>2
    <2>3. CASE v \in a
        <3>1. PICK m \in Nat : m = v + n
            OBVIOUS
        <3>2. X(v + 1) = X(v) + Power(2, m)
            <4>1. PICK x \in Nat, u \in Nat, t \in Nat :
                    x = Unsigned(a, v) /\ u = Power(2, v) /\ t = Power(2, n)
                BY UnsignedIs, TwosAre
            <4>2. Unsigned(a, v + 1) = x + u
                BY <2>3, <4>1, UnsignedIs DEF BitValue
            <4>3. Power(2, v + n) = u * t
                BY <4>1, TwosAdd
            <4>4. (x + u) * t = x * t + u * t
                OBVIOUS
            <4> QED
                BY <3>1, <4>1, <4>2, <4>3, <4>4
        <3>3. m % CLASSES = k % CLASSES
            <4>1. v % CLASSES = i
                BY <2>3 DEF OfClass
            <4>2. ((v % CLASSES) + n) % CLASSES = (v + n) % CLASSES
                BY ClassNumbers, ClassAdds
            <4> QED
                BY <3>1, <4>1, <4>2
        <3>4. Power(2, m) \in Nat /\ X(v) \in Nat
            BY <1>0, TwosAre
        <3>5. CASE k < m
            <4>1. DigitAt(Power(2, m), k, 0, 0)
                BY <3>3, <3>5, DigitsAre
            <4>2. e(k, v + 1) = e(k, v) /\ e(k, v) \in Nat
                BY <3>1, <3>5
            <4> HIDE DEF X, e
            <4>3. DigitAt(X(v) + Power(2, m), k, e(k, v) + 0, 1 + 0)
                BY <2>1, <3>4, <4>1, <4>2, DigitsAdd
            <4> QED
                BY <3>2, <4>2, <4>3
        <3>6. CASE k = m
            <4>1. X(v) * Room <= Power(2, k) - 1
                BY <3>1, <3>6, WordBelow
            <4>2. e(k, v + 1) = 1
                BY <2>3, <3>1, <3>6
            <4> HIDE DEF X, e
            <4>3. DigitAt(X(v), k, 0, 1)
                BY <3>4, <4>1, DigitsAre
            <4>4. DigitAt(Power(2, k), k, 1, 0)
                BY DigitsAre
            <4>5. DigitAt(X(v) + Power(2, k), k, 0 + 1, 1 + 0)
                BY <3>4, <3>6, <4>3, <4>4, DigitsAdd
            <4> QED
                BY <3>2, <3>6, <4>2, <4>5
        <3>7. CASE k > m
            <4>1. X(v + 1) * Room <= Power(2, k) - 1
                <5>1. v + 1 \in Nat /\ k >= (v + 1) + n
                    BY <3>1, <3>7
                <5> QED
                    BY <5>1, WordBelow
            <4>2. e(k, v + 1) = 0
                BY <3>1, <3>7
            <4>3. X(v + 1) \in Nat
                BY <1>0
            <4> HIDE DEF X, e
            <4>4. DigitAt(X(v + 1), k, 0, 1)
                BY <4>1, <4>3, DigitsAre
            <4> QED
                BY <4>2, <4>4
        <3> QED
            BY <3>5, <3>6, <3>7
    <2> QED
        BY <2>2, <2>3
<1>3. Nat \subseteq L
    <2> HIDE DEF L
    <2> QED
        BY <1>1, <1>2, Induction
<1>4. w \in L
    BY <1>3
<1> QED
    BY <1>4

\* One more bit of a factor.
LEMMA ProductStep ==
    ASSUME NEW n \in Nat, NEW x \in SUBSET Nat, NEW y
    PROVE  /\ clmul_bitwise(0, x, y) = {}
           /\ n \notin y => clmul_bitwise(n + 1, x, y) = clmul_bitwise(n, x, y)
           /\ n \in y => \A k \in Nat : k \in clmul_bitwise(n + 1, x, y)
                                        <=> ((k \in clmul_bitwise(n, x, y)) # (k - n \in x))
<1> DEFINE f == [q \in y |-> Shl(x, q)]
<1>1. Term(f, n) = IF n \in y THEN Shl(x, n) ELSE {}
    BY ProductTerms
<1>2. \A m : clmul_bitwise(m, x, y) = XorOver(f, m)
    BY DEF clmul_bitwise
<1> HIDE DEF f
<1>3. /\ clmul_bitwise(n + 1, x, y) = Xor(clmul_bitwise(n, x, y), Term(f, n))
      /\ clmul_bitwise(0, x, y) = {}
    BY <1>2, XorOverStep, XorOverNone
<1>4. \A k \in Nat : k \in Shl(x, n) <=> k - n \in x
    BY ShlIs
<1>5. CASE n \in y
    BY <1>1, <1>3, <1>4, <1>5 DEF Xor
<1>6. CASE n \notin y
    BY <1>1, <1>3, <1>6, XorIs
<1> QED
    BY <1>5, <1>6

\* The digit of X at k, the ones that met there in the first m bits of a factor of class j: odd
\* if word has the bit, and no more than the factor has bits.
Meeting(X, k, word, m, j) ==
    \E d, r \in Nat :
        /\ DigitAt(X, k, d, r) /\ d <= r
        /\ d % 2 = 1 <=> k \in word
        /\ \A s \in Nat : m <= j + CLASSES * s => r <= s

\* The integer product of two words of a class each has for digits how often two of their bits
\* meet, which is odd where the carry-less product has a bit.
LEMMA ProductDigits ==
    ASSUME NEW i \in Nat, NEW a, OfClass(a, i), NEW j \in 0..(CLASSES - 1), NEW b, OfClass(b, j),
           NEW w \in Nat, a \subseteq 0..(w - 1), NEW k \in Nat, k % CLASSES = (i + j) % CLASSES, NEW m \in Nat
    PROVE  Meeting(Unsigned(a, w) * Unsigned(b, m), k, clmul_bitwise(m, a, b), m, j)
<1> DEFINE X(v) == Unsigned(a, w) * Unsigned(b, v)
           Met(v, d, r) == /\ DigitAt(X(v), k, d, r) /\ d <= r
                           /\ d % 2 = 1 <=> k \in clmul_bitwise(v, a, b)
                           /\ \A s \in Nat : v <= j + CLASSES * s => r <= s
           L == {v \in Nat : \E d, r \in Nat : Met(v, d, r)}
<1>0. a \in SUBSET Nat /\ (\A v \in Nat : X(v) \in Nat) /\ CLASSES \in Nat \ {0}
    BY UnsignedIs, ClassNumbers DEF OfClass
<1>1. 0 \in L
    <2>1. X(0) = 0
        <3>1. Unsigned(b, 0) = 0 /\ Unsigned(a, w) \in Nat
            BY UnsignedIs
        <3> QED
            BY <3>1
    <2>2. DigitAt(0, k, 0, 0) /\ clmul_bitwise(0, a, b) = {}
        BY <1>0, DigitsAre, ProductStep
    <2> HIDE DEF X
    <2>3. Met(0, 0, 0)
        BY <2>1, <2>2
    <2> HIDE DEF Met
    <2> QED
        BY <2>3
<1>2. ASSUME NEW v \in Nat, v \in L PROVE v + 1 \in L
    <2>1. PICK d \in Nat, r \in Nat : Met(v, d, r)
        BY <1>2
    <2>2. CASE v \notin b
        <3>1. Unsigned(b, v + 1) = Unsigned(b, v)
            BY <2>2, UnsignedIs DEF BitValue
        <3>2. clmul_bitwise(v + 1, a, b) = clmul_bitwise(v, a, b)
            BY <1>0, <2>2, ProductStep
        <3>3. X(v + 1) = X(v)
            BY <3>1
        <3> HIDE DEF X
        <3>4. \A s \in Nat : v + 1 <= j + CLASSES * s => v <= j + CLASSES * s
            <4> TAKE s \in Nat
            <4>1. PICK t \in Nat : t = CLASSES * s
                BY <1>0
            <4> QED
                BY <4>1
        <3>5. Met(v + 1, d, r)
            BY <2>1, <3>2, <3>3, <3>4
        <3> HIDE DEF Met
        <3> QED
            BY <3>5
    <2>3. CASE v \in b
        <3>1. X(v + 1) = X(v) + Unsigned(a, w) * Power(2, v)
            <4>1. PICK x \in Nat, y \in Nat, t \in Nat :
                    x = Unsigned(a, w) /\ y = Unsigned(b, v) /\ t = Power(2, v)
                BY UnsignedIs, TwosAre
            <4>2. Unsigned(b, v + 1) = y + t
                BY <2>3, <4>1, UnsignedIs DEF BitValue
            <4>3. x * (y + t) = x * y + x * t
                OBVIOUS
            <4> QED
                BY <4>1, <4>2, <4>3
        <3>2. v % CLASSES = j
            BY <2>3 DEF OfClass
        <3>3. k % CLASSES = (i + v) % CLASSES
            <4>1. ((v % CLASSES) + i) % CLASSES = (v + i) % CLASSES
                BY <1>0, ClassAdds
            <4>2. j + i = i + j /\ v + i = i + v
                OBVIOUS
            <4> QED
                BY <3>2, <4>1, <4>2
        <3>4. PICK e \in {0, 1} : /\ DigitAt(Unsigned(a, w) * Power(2, v), k, e, 1)
                                  /\ e = 1 <=> k - v \in a
            <4>1. DigitAt(Unsigned(a, w) * Power(2, v), k, IF k - v \in a /\ k - v < w THEN 1 ELSE 0, 1)
                BY <3>3, WordDigits
            <4>2. k - v \in a => k - v < w
                <5>1. \A q \in 0..(w - 1) : q < w
                    OBVIOUS
                <5> QED
                    BY <5>1
            <4> QED
                BY <4>1, <4>2
        <3>5. DigitAt(X(v + 1), k, d + e, r + 1)
            <4>1. PICK x \in Nat, y \in Nat : x = X(v) /\ y = Unsigned(a, w) * Power(2, v)
                <5>1. Unsigned(a, w) \in Nat /\ Power(2, v) \in Nat
                    BY UnsignedIs, TwosAre
                <5>2. Unsigned(a, w) * Power(2, v) \in Nat
                    BY <5>1
                <5>3. X(v) \in Nat
                    BY <1>0
                <5> HIDE DEF X
                <5> QED
                    BY <5>2, <5>3
            <4>2. DigitAt(x, k, d, r) /\ DigitAt(y, k, e, 1)
                BY <2>1, <3>4, <4>1
            <4>3. DigitAt(x + y, k, d + e, r + 1)
                BY <4>2, DigitsAdd
            <4> HIDE DEF X
            <4> QED
                BY <3>1, <4>1, <4>3
        <3>6. (d + e) % 2 = 1 <=> k \in clmul_bitwise(v + 1, a, b)
            <4>1. k \in clmul_bitwise(v + 1, a, b) <=> ((k \in clmul_bitwise(v, a, b)) # (k - v \in a))
                BY <1>0, <2>3, ProductStep
            <4>2. (d + e) % 2 = 1 <=> ((d % 2 = 1) # (e = 1))
                OBVIOUS
            <4>3. d % 2 = 1 <=> k \in clmul_bitwise(v, a, b)
                BY <2>1
            <4> QED
                BY <3>4, <4>1, <4>2, <4>3
        <3>7. ASSUME NEW s \in Nat, v + 1 <= j + CLASSES * s PROVE r + 1 <= s
            <4>1. PICK c \in Nat \ {0} : c = CLASSES
                BY <1>0
            <4>2. PICK t \in Nat : t = j + c * s
                BY <4>1
            <4>3. t % CLASSES = j
                <5>1. (s * c + j) % c = j
                    BY <4>1, QuotientIs
                <5>2. s * c + j = j + c * s
                    OBVIOUS
                <5> QED
                    BY <4>1, <4>2, <5>1, <5>2
            <4>4. v < t
                BY <3>7, <4>1, <4>2
            <4>5. v + CLASSES <= t
                BY <3>2, <4>3, <4>4, ClassesApart
            <4>6. s # 0
                BY <4>1, <4>2, <4>5
            <4>7. PICK u \in Nat : s = u + 1
                <5>1. s - 1 \in Nat /\ s = (s - 1) + 1
                    BY <4>6
                <5> QED
                    BY <5>1
            <4>8. c * (u + 1) = c * u + c /\ c * u \in Nat
                OBVIOUS
            <4>9. v <= j + c * u
                BY <4>1, <4>2, <4>5, <4>7, <4>8
            <4>10. r <= u
                BY <2>1, <4>1, <4>9
            <4> QED
                BY <4>7, <4>10
        <3>8. d + e <= r + 1 /\ d + e \in Nat /\ r + 1 \in Nat
            BY <2>1
        <3> HIDE DEF X
        <3>9. Met(v + 1, d + e, r + 1)
            BY <3>5, <3>6, <3>7, <3>8
        <3> HIDE DEF Met
        <3> QED
            BY <3>8, <3>9
    <2> QED
        BY <2>2, <2>3
<1>3. Nat \subseteq L
    <2> HIDE DEF L
    <2> QED
        BY <1>1, <1>2, Induction
<1>4. m \in L
    BY <1>3
<1> QED
    BY <1>4 DEF Meeting

\* Where no more meet than a class has room for, the product has the bits of the carry-less one.
LEMMA ProductBits ==
    ASSUME NEW i \in Nat, NEW a, OfClass(a, i), NEW j \in 0..(CLASSES - 1), NEW b, OfClass(b, j),
           NEW w \in 0..WidestWord, a \subseteq 0..(w - 1), NEW k \in Nat, k % CLASSES = (i + j) % CLASSES
    PROVE  k \in BitsOf(Unsigned(a, w) * Unsigned(b, w), 2 * w) <=> k \in clmul_bitwise(w, a, b)
<1> DEFINE X == Unsigned(a, w) * Unsigned(b, w)
<1>1. PICK c \in Nat \ {0}, s \in Nat \ {0}, h \in Nat : c = CLASSES /\ s = Room /\ s + 1 = 2 * h
    BY ClassNumbers
<1>2. w \in Nat /\ w <= c * s
    BY <1>1 DEF WidestWord, Room
<1>3. PICK d \in Nat, r \in Nat :
        /\ DigitAt(X, k, d, r) /\ d <= r
        /\ d % 2 = 1 <=> k \in clmul_bitwise(w, a, b)
        /\ \A u \in Nat : w <= j + CLASSES * u => r <= u
    <2>1. Meeting(X, k, clmul_bitwise(w, a, b), w, j)
        BY <1>2, ProductDigits
    <2> HIDE DEF X
    <2> QED
        BY <2>1 DEF Meeting
<1>4. r <= s
    <2>1. w <= j + c * s
        BY <1>2
    <2> QED
        BY <1>1, <1>3, <2>1
<1>5. PICK p \in Nat : p + 1 = Power(2, k) /\ p = Power(2, k) - 1
    <2>1. Power(2, k) \in Nat \ {0}
        BY TwosAre
    <2>2. Power(2, k) - 1 \in Nat /\ (Power(2, k) - 1) + 1 = Power(2, k)
        BY <2>1
    <2> QED
        BY <2>2
<1>6. PICK low \in Nat, rest \in Nat : X = low + (p + 1) * (d + (s + 1) * rest) /\ low * s <= r * p
    BY <1>1, <1>3, <1>5 DEF DigitAt
<1>7. low <= p
    <2> SUFFICES ASSUME p < low PROVE FALSE
        OBVIOUS
    <2>1. PICK u \in Nat : low = (p + 1) + u
        <3>1. low - (p + 1) \in Nat /\ low = (p + 1) + (low - (p + 1))
            OBVIOUS
        <3> QED
            BY <3>1
    <2>2. ((p + 1) + u) * s = p * s + s + u * s /\ u * s \in Nat /\ p * s \in Nat
        OBVIOUS
    <2>3. r * p <= s * p
        <3>1. PICK t \in Nat : s = r + t
            <4>1. s - r \in Nat /\ s = r + (s - r)
                BY <1>4
            <4> QED
                BY <4>1
        <3>2. (r + t) * p = r * p + t * p /\ t * p \in Nat /\ r * p \in Nat
            OBVIOUS
        <3> QED
            BY <3>1, <3>2
    <2>4. s * p = p * s
        OBVIOUS
    <2> QED
        BY <1>6, <2>1, <2>2, <2>3, <2>4
<1>8. PICK q \in Nat : q = d + (s + 1) * rest
    OBVIOUS
<1>9. X \div Power(2, k) = q
    <2>1. p + 1 \in Nat \ {0} /\ low \in 0..((p + 1) - 1)
        BY <1>7
    <2>2. (q * (p + 1) + low) \div (p + 1) = q
        BY <2>1, QuotientIs
    <2>3. q * (p + 1) + low = low + (p + 1) * q
        OBVIOUS
    <2> HIDE DEF X
    <2> QED
        BY <1>5, <1>6, <1>8, <2>2, <2>3
<1>10. q % 2 = d % 2
    <2>1. (s + 1) * rest = 2 * (h * rest) /\ h * rest \in Nat
        <3>1. (2 * h) * rest = 2 * (h * rest) /\ h * rest \in Nat
            OBVIOUS
        <3> QED
            BY <1>1, <3>1
    <2>2. PICK y \in Nat : y = h * rest
        BY <2>1
    <2>3. (d + 2 * y) % 2 = d % 2
        OBVIOUS
    <2> QED
        BY <1>8, <2>1, <2>2, <2>3
<1>11. k \in BitsOf(X, 2 * w) <=> k \in 0..(2 * w - 1) /\ (X \div Power(2, k)) % 2 = 1
    BY DEF BitsOf
<1>12. k \in clmul_bitwise(w, a, b) => k \in 0..(2 * w - 1)
    <2>1. clmul_bitwise(w, a, b) \subseteq 0..(w + w - 2)
        BY <1>2, ProductIn
    <2>2. 0..(w + w - 2) \subseteq 0..(2 * w - 1)
        BY <1>2
    <2> QED
        BY <2>1, <2>2
<1> HIDE DEF X
<1>13. k \in BitsOf(X, 2 * w) <=> k \in clmul_bitwise(w, a, b)
    BY <1>3, <1>9, <1>10, <1>11, <1>12
<1> QED
    BY <1>13 DEF X

\* Term for term, f and g have the bit k or both have it not.
SameBit(f, g, n, k) == \A i \in 0..(n - 1) : k \in Term(f, i) <=> k \in Term(g, i)

\* A bit of a sum depends on the terms for nothing but that bit.
LEMMA XorOverAt ==
    ASSUME NEW f, NEW g, NEW n \in Nat, NEW k, SameBit(f, g, n, k)
    PROVE  k \in XorOver(f, n) <=> k \in XorOver(g, n)
<1> DEFINE L == {m \in Nat : m <= n => (k \in XorOver(f, m) <=> k \in XorOver(g, m))}
<1>1. 0 \in L
    BY XorOverNone
<1>2. ASSUME NEW m \in Nat, m \in L PROVE m + 1 \in L
    <2> SUFFICES ASSUME m + 1 <= n PROVE k \in XorOver(f, m + 1) <=> k \in XorOver(g, m + 1)
        OBVIOUS
    <2>1. k \in Term(f, m) <=> k \in Term(g, m)
        BY DEF SameBit
    <2>2. k \in XorOver(f, m) <=> k \in XorOver(g, m)
        BY <1>2
    <2>3. /\ XorOver(f, m + 1) = Xor(XorOver(f, m), Term(f, m))
          /\ XorOver(g, m + 1) = Xor(XorOver(g, m), Term(g, m))
        BY XorOverStep
    <2> QED
        BY <2>1, <2>2, <2>3 DEF Xor
<1>3. Nat \subseteq L
    <2> HIDE DEF L
    <2> QED
        BY <1>1, <1>2, Induction
<1> QED
    BY <1>3

\* The classes of a word, each its own, make the word.
LEMMA ClassesIs ==
    ASSUME NEW x \in SUBSET Nat
    PROVE  /\ \A i : OfClass(Class(x, i), i) /\ Class(x, i) \subseteq x
           /\ XorOver([i \in 0..(CLASSES - 1) |-> Class(x, i)], CLASSES) = x
<1> DEFINE f == [i \in 0..(CLASSES - 1) |-> Class(x, i)]
           L == {n \in Nat : n <= CLASSES => XorOver(f, n) = {m \in x : m % CLASSES < n}}
<1>1. PICK c \in Nat \ {0} : c = CLASSES
    BY ClassNumbers
<1>2. \A i : OfClass(Class(x, i), i) /\ Class(x, i) \subseteq x
    BY DEF OfClass, Class
<1>3. \A m \in x : m % c \in 0..(c - 1)
    OBVIOUS
<1>4. 0 \in L
    <2>1. \A m \in x : ~(m % c < 0)
        BY <1>3
    <2>2. {m \in x : m % CLASSES < 0} = {}
        BY <1>1, <2>1
    <2> QED
        BY <2>2, XorOverNone
<1>5. ASSUME NEW n \in Nat, n \in L PROVE n + 1 \in L
    <2> SUFFICES ASSUME n + 1 <= CLASSES PROVE XorOver(f, n + 1) = {m \in x : m % CLASSES < n + 1}
        OBVIOUS
    <2>1. Term(f, n) = Class(x, n)
        <3>1. n \in 0..(CLASSES - 1)
            BY <1>1
        <3> QED
            BY <3>1 DEF Term
    <2>2. XorOver(f, n) = {m \in x : m % CLASSES < n}
        BY <1>1, <1>5
    <2>3. XorOver(f, n + 1) = Xor(XorOver(f, n), Term(f, n))
        BY XorOverStep
    <2>4. \A m \in x : m % CLASSES \in Nat
        BY <1>1, <1>3
    <2>5. \A y \in Nat : y < n + 1 <=> y < n \/ y = n
        OBVIOUS
    <2>6. \A y \in Nat : ~(y < n /\ y = n)
        OBVIOUS
    <2>7. Xor({m \in x : m % CLASSES < n}, {m \in x : m % CLASSES = n}) = {m \in x : m % CLASSES < n + 1}
        BY <2>4, <2>5, <2>6 DEF Xor
    <2>8. Class(x, n) = {m \in x : m % CLASSES = n}
        BY DEF Class
    <2> HIDE DEF f
    <2> QED
        BY <2>1, <2>2, <2>3, <2>7, <2>8
<1>6. Nat \subseteq L
    <2> HIDE DEF L
    <2> QED
        BY <1>4, <1>5, Induction
<1>7. XorOver(f, CLASSES) = {m \in x : m % CLASSES < CLASSES}
    BY <1>1, <1>6
<1>8. {m \in x : m % CLASSES < CLASSES} = x
    <2>1. \A m \in x : m % c < c
        BY <1>3
    <2> QED
        BY <1>1, <2>1
<1> QED
    BY <1>2, <1>7, <1>8

\* The class of the other factor: with class i it makes class c, and nothing else does.
LEMMA OtherClass ==
    ASSUME NEW c \in Nat \ {0}, NEW i \in 0..(c - 1)
    PROVE  /\ \A e \in 0..(c - 1) : /\ (e + c - i) % c \in 0..(c - 1)
                                    /\ (i + ((e + c - i) % c)) % c = e
           /\ \A m, n \in Nat : m % c = i => n % c = (((m + n) % c) + c - i) % c
<1>0. \A m, n \in Nat : ((m % c) + n) % c = (m + n) % c
    BY ClassAdds
<1>1. ASSUME NEW e \in 0..(c - 1)
      PROVE  (e + c - i) % c \in 0..(c - 1) /\ (i + ((e + c - i) % c)) % c = e
    <2>1. PICK q \in Nat : q = e + c - i
        OBVIOUS
    <2>2. q % c \in 0..(c - 1)
        OBVIOUS
    <2>3. ((q % c) + i) % c = (q + i) % c
        <3>1. i \in Nat
            OBVIOUS
        <3> QED
            BY <1>0, <3>1
    <2>4. (1 * c + e) % c = e
        BY QuotientIs
    <2>5. q + i = 1 * c + e /\ (q % c) + i = i + (q % c)
        BY <2>1, <2>2
    <2> QED
        BY <2>1, <2>2, <2>3, <2>4, <2>5
<1>2. ASSUME NEW m \in Nat, NEW n \in Nat, m % c = i
      PROVE  n % c = (((m + n) % c) + c - i) % c
    <2>1. PICK t \in Nat : t = c - i
        OBVIOUS
    <2>2. ((m % c) + n) % c = (m + n) % c
        BY Zenon, <1>0
    <2>3. PICK e \in 0..(c - 1) : e = (i + n) % c /\ e = (m + n) % c
        <3>1. (i + n) % c \in 0..(c - 1)
            <4>1. PICK y \in Nat : y = i + n
                OBVIOUS
            <4>2. y % c \in 0..(c - 1)
                OBVIOUS
            <4> QED
                BY <4>1, <4>2
        <3> QED
            BY <1>2, <2>2, <3>1
    <2>4. (((i + n) % c) + t) % c = ((i + n) + t) % c
        <3>1. i + n \in Nat
            OBVIOUS
        <3> QED
            BY <3>1, ClassAdds
    <2>5. (i + n) + t = c + n
        BY <2>1
    <2>6. ((c % c) + n) % c = (c + n) % c
        BY ClassAdds
    <2>7. c % c = 0
        <3>1. (1 * c + 0) % c = 0
            BY QuotientIs
        <3> QED
            BY <3>1
    <2>8. 0 + n = n /\ e + c - i = e + t
        BY <2>1
    <2> QED
        BY <2>3, <2>4, <2>5, <2>6, <2>7, <2>8
<1> QED
    BY <1>1, <1>2

\* Of the other factor only the bits of one class come to a bit of the product.
LEMMA OtherFactor ==
    ASSUME NEW w \in Nat, NEW a \in SUBSET Nat, NEW y \in SUBSET Nat, NEW k \in Nat, NEW j,
           \A n \in Nat : k - n \in a => n % CLASSES = j
    PROVE  k \in clmul_bitwise(w, a, Class(y, j)) <=> k \in clmul_bitwise(w, a, y)
<1> DEFINE f == [n \in Class(y, j) |-> Shl(a, n)]
           g == [n \in y |-> Shl(a, n)]
<1>1. SameBit(f, g, w, k)
    <2>1. ASSUME NEW n \in 0..(w - 1) PROVE k \in Term(f, n) <=> k \in Term(g, n)
        <3>1. k \in Shl(a, n) <=> k - n \in a
            BY ShlIs
        <3>2. /\ Term(f, n) = IF n \in Class(y, j) THEN Shl(a, n) ELSE {}
              /\ Term(g, n) = IF n \in y THEN Shl(a, n) ELSE {}
            BY ProductTerms
        <3>3. n \in Class(y, j) <=> n \in y /\ n % CLASSES = j
            BY DEF Class
        <3>4. k - n \in a => n % CLASSES = j
            OBVIOUS
        <3> HIDE DEF f, g
        <3> QED
            BY <3>1, <3>2, <3>3, <3>4
    <2> QED
        BY <2>1 DEF SameBit
<1> HIDE DEF f, g
<1>2. k \in XorOver(f, w) <=> k \in XorOver(g, w)
    BY <1>1, XorOverAt
<1> QED
    BY <1>2 DEF clmul_bitwise, f, g

\* The products of the classes of a factor make the product.
LEMMA ClassProducts ==
    ASSUME NEW w \in Nat, NEW x \in SUBSET Nat, NEW y \in SUBSET Nat
    PROVE  XorOver([i \in 0..(CLASSES - 1) |-> clmul_bitwise(w, Class(x, i), y)], CLASSES)
           = clmul_bitwise(w, x, y)
<1> DEFINE f == [i \in 0..(CLASSES - 1) |-> clmul_bitwise(w, Class(x, i), y)]
           g == [i \in 0..(CLASSES - 1) |-> Class(x, i)]
           H == [a \in SUBSET Nat |-> clmul_bitwise(w, a, y)]
<1>1. Additive(H)
    <2>1. clmul_bitwise(w, {}, y) = {}
        <3>1. clmul_bitwise(w, Xor({}, {}), y)
              = Xor(clmul_bitwise(w, {}, y), clmul_bitwise(w, {}, y))
            BY ProductAdds
        <3> QED
            BY <3>1, XorIs
    <2>2. \A a, b \in SUBSET Nat : Xor(a, b) \in SUBSET Nat
        BY XorIsWord
    <2>3. ASSUME NEW a \in SUBSET Nat, NEW b \in SUBSET Nat
          PROVE  clmul_bitwise(w, Xor(a, b), y)
                 = Xor(clmul_bitwise(w, a, y), clmul_bitwise(w, b, y))
        BY ProductAdds
    <2>4. H[{}] = {}
        BY <2>1
    <2>5. \A a, b \in SUBSET Nat : H[Xor(a, b)] = Xor(H[a], H[b])
        BY <2>2, <2>3
    <2> QED
        BY <2>4, <2>5 DEF Additive
<1>2. TermsMap(f, g, H, CLASSES)
    <2>1. ASSUME NEW i \in 0..(CLASSES - 1) PROVE Term(g, i) \subseteq Nat /\ Term(f, i) = H[Term(g, i)]
        <3>1. Class(x, i) \in SUBSET Nat
            BY DEF Class
        <3>2. Term(g, i) = Class(x, i) /\ Term(f, i) = clmul_bitwise(w, Class(x, i), y)
            BY DEF Term
        <3>3. \A a \in SUBSET Nat : H[a] = clmul_bitwise(w, a, y)
            OBVIOUS
        <3> HIDE DEF f, g, H
        <3> QED
            BY <3>1, <3>2, <3>3
    <2> QED
        BY <2>1 DEF TermsMap
<1>3. XorOver(g, CLASSES) = x
    BY ClassesIs
<1>4. H[x] = clmul_bitwise(w, x, y)
    OBVIOUS
<1>5. CLASSES \in Nat
    BY ClassNumbers
<1> HIDE DEF f, g, H
<1>6. XorOver(f, CLASSES) = H[XorOver(g, CLASSES)]
    BY <1>1, <1>2, <1>5, XorOverMaps
<1> QED
    BY <1>3, <1>4, <1>6 DEF f

\* The integer products with holes are carry-less products, of all words that are not too wide.
LEMMA ClmulIs == ClmulHolds
<1> SUFFICES ASSUME NEW w \in 0..WidestWord, NEW x \in SUBSET (0..(w - 1)), NEW y \in SUBSET (0..(w - 1))
             PROVE  clmul(w, x, y) = clmul_bitwise(w, x, y)
    BY DEF ClmulHolds
<1>1. PICK n \in Nat \ {0} : n = CLASSES
    BY ClassNumbers
<1>2. w \in Nat /\ x \in SUBSET Nat /\ y \in SUBSET Nat
    <2>1. WidestWord \in Int
        BY ClassNumbers DEF WidestWord, Room
    <2> QED
        BY <2>1
<1> DEFINE other(c, i) == (c + CLASSES - i) % CLASSES
           product(a, b) == BitsOf(Unsigned(a, w) * Unsigned(b, w), 2 * w)
           f(c) == [i \in 0..(CLASSES - 1) |-> product(Class(x, i), Class(y, other(c, i)))]
           g == [i \in 0..(CLASSES - 1) |-> clmul_bitwise(w, Class(x, i), y)]
           z(c) == XorOver(f(c), CLASSES)
<1>3. clmul(w, x, y) = UNION {Class(z(c), c) : c \in 0..(CLASSES - 1)}
    BY DEF clmul
<1>10. \A i \in 0..(CLASSES - 1) : \A p, q \in Nat :
           p % CLASSES = i => q % CLASSES = (((p + q) % CLASSES) + CLASSES - i) % CLASSES
    BY <1>1, OtherClass
<1>4. ASSUME NEW c \in 0..(CLASSES - 1), NEW k \in Nat, k % CLASSES = c
      PROVE  k \in z(c) <=> k \in clmul_bitwise(w, x, y)
    <2>1. SameBit(f(c), g, CLASSES, k)
        <3>1. ASSUME NEW i \in 0..(CLASSES - 1) PROVE k \in Term(f(c), i) <=> k \in Term(g, i)
            <4>1. PICK j \in 0..(CLASSES - 1) : j = other(c, i) /\ (i + j) % CLASSES = c
                <5>1. other(c, i) \in 0..(CLASSES - 1) /\ (i + other(c, i)) % CLASSES = c
                    BY <1>1, OtherClass
                <5> HIDE DEF other
                <5> QED
                    BY <5>1
            <4>2. PICK a \in SUBSET (0..(w - 1)) : a = Class(x, i) /\ OfClass(a, i)
                BY <1>2, ClassesIs
            <4>3. PICK b \in SUBSET (0..(w - 1)) : b = Class(y, j) /\ OfClass(b, j)
                BY <1>2, ClassesIs
            <4>4. Term(f(c), i) = product(a, b)
                BY <4>1, <4>2, <4>3 DEF Term
            <4>5. Term(g, i) = clmul_bitwise(w, a, y)
                BY <4>2 DEF Term
            <4>6. k \in product(a, b) <=> k \in clmul_bitwise(w, a, b)
                <5>1. i \in Nat /\ k % CLASSES = (i + j) % CLASSES
                    BY <1>4, <4>1
                <5> QED
                    BY <4>2, <4>3, <5>1, ProductBits
            <4>7. k \in clmul_bitwise(w, a, b) <=> k \in clmul_bitwise(w, a, y)
                <5>1. ASSUME NEW m \in Nat, k - m \in a PROVE m % CLASSES = j
                    <6>1. PICK q \in Nat : q = k - m /\ q + m = k
                        BY <5>1
                    <6>2. q % CLASSES = i
                        BY <4>2, <5>1, <6>1 DEF OfClass
                    <6>3. m % CLASSES = (((q + m) % CLASSES) + CLASSES - i) % CLASSES
                        BY <1>10, <6>2
                    <6> QED
                        BY <1>4, <4>1, <6>1, <6>3
                <5>2. a \in SUBSET Nat
                    OBVIOUS
                <5> QED
                    BY <1>2, <4>3, <5>1, <5>2, OtherFactor
            <4> HIDE DEF f, g, product
            <4> QED
                BY <4>4, <4>5, <4>6, <4>7
        <3> HIDE DEF f, g
        <3> QED
            BY <3>1 DEF SameBit
    <2>2. XorOver(g, CLASSES) = clmul_bitwise(w, x, y)
        BY <1>2, ClassProducts
    <2> HIDE DEF f, g
    <2>3. k \in XorOver(f(c), CLASSES) <=> k \in XorOver(g, CLASSES)
        BY <1>1, <2>1, XorOverAt
    <2> QED
        BY <2>2, <2>3
<1>5. \A c \in 0..(CLASSES - 1) : z(c) \subseteq Nat
    <2> TAKE c \in 0..(CLASSES - 1)
    <2>1. TermsIn(f(c), CLASSES, Nat)
        <3>1. \A n1, n2 : BitsOf(n1, n2) \subseteq Nat
            BY DEF BitsOf
        <3>2. ASSUME NEW i \in 0..(CLASSES - 1) PROVE Term(f(c), i) \subseteq Nat
            <4>1. Term(f(c), i) = product(Class(x, i), Class(y, other(c, i)))
                BY DEF Term
            <4>2. product(Class(x, i), Class(y, other(c, i))) \subseteq Nat
                BY <3>1
            <4> HIDE DEF f, product
            <4> QED
                BY <4>1, <4>2
        <3> HIDE DEF f
        <3> QED
            BY <3>2 DEF TermsIn
    <2> HIDE DEF f
    <2> QED
        BY <1>1, <2>1, XorOverIn
<1>6. \A k \in Nat : k % CLASSES \in 0..(CLASSES - 1)
    BY <1>1
<1>7. \A k, c : k \in Class(z(c), c) <=> k \in z(c) /\ k % CLASSES = c
    BY DEF Class
<1>8. clmul_bitwise(w, x, y) \subseteq Nat
    BY <1>2, ProductIsWord
<1> HIDE DEF z
<1>9. \A k : k \in clmul(w, x, y) <=> k \in clmul_bitwise(w, x, y)
    <2> TAKE k
    <2>1. ASSUME k \in clmul(w, x, y) PROVE k \in clmul_bitwise(w, x, y)
        <3>1. PICK c \in 0..(CLASSES - 1) : k \in Class(z(c), c)
            BY <1>3, <2>1
        <3> QED
            BY <1>4, <1>5, <1>7, <3>1
    <2>2. ASSUME k \in clmul_bitwise(w, x, y) PROVE k \in clmul(w, x, y)
        <3>1. k \in Nat /\ k % CLASSES \in 0..(CLASSES - 1)
            BY <1>6, <1>8, <2>2
        <3>2. k \in Class(z(k % CLASSES), k % CLASSES)
            BY <1>4, <1>7, <2>2, <3>1
        <3> QED
            BY <1>3, <3>1, <3>2
    <2> QED
        BY <2>1, <2>2
<1> QED
    BY <1>9
=============================================================================
