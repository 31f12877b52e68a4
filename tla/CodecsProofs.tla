---------------------------- MODULE CodecsProofs ----------------------------
(***************************************************************************)
(* Theorems about Codecs for bytes, lengths and streams of any size: what    *)
(* one side writes the other reads, and the pairs taken from a stream are    *)
(* those its bytes encode.                                                 *)
(*                                                                         *)
(* What is computed digit by digit or pair by pair is a recursive function,  *)
(* about which something is shown by induction.  The induction theorems of   *)
(* the library take operators, so the induction here is over sets: a set of  *)
(* numbers that is not empty has a least one.                              *)
(***************************************************************************)
EXTENDS Codecs, SequenceTheorems, NaturalsInduction, WellFoundedInduction, TLAPS

-----------------------------------------------------------------------------
(* Induction.                                                              *)

\* WFMin, with the order as a set of pairs.
LEMMA LeastBy ==
  ASSUME NEW R, IsWellFoundedOn(R, Nat), \A x, y \in Nat : y < x => <<y, x>> \in R,
         NEW S \in SUBSET Nat, S # {}
  PROVE  \E x \in S : \A y \in S : x <= y
<1>1. PICK x \in S : \A y \in S : <<y, x>> \notin R
  BY WFMin
<1>2. \A y \in S : ~ (y < x)
  BY <1>1
<1> QED BY <1>1, <1>2

\* A set of numbers has a least one.
LEMMA Least ==
  ASSUME NEW S \in SUBSET Nat, S # {}
  PROVE  \E x \in S : \A y \in S : x <= y
<1>1. \A x, y \in Nat : y < x => <<y, x>> \in OpToRel(<, Nat)
  BY Zenon DEF OpToRel
<1> QED BY <1>1, NatLessThanWellFounded, LeastBy, Zenon

\* What holds of 0, and of n + 1 if of n, holds of all.
LEMMA Induction ==
  ASSUME NEW S \in SUBSET Nat, 0 \in S, \A n \in S : n + 1 \in S
  PROVE  S = Nat
<1> SUFFICES ASSUME S # Nat PROVE FALSE
  OBVIOUS
<1>1. PICK x \in Nat \ S : \A y \in Nat \ S : x <= y
  <2>1. Nat \ S \in SUBSET Nat /\ Nat \ S # {}
    OBVIOUS
  <2> QED BY <2>1, Least
<1>2. x # 0 /\ x - 1 \in Nat /\ x - 1 \in S
  BY <1>1
<1> QED BY <1>1, <1>2

\* A function goes on from a first value by steps.
Recursion(V, first, step) ==
  \E f \in [Nat -> V] : f[0] = first /\ \A n \in Nat : f[n + 1] = step[n][f[n]]

\* There is one for every first value and all steps.
LEMMA Iterates ==
  ASSUME NEW V, NEW first \in V, NEW step \in [Nat -> [V -> V]]
  PROVE  Recursion(V, first, step)
<1> DEFINE Upto(n, f) == f[0] = first /\ \A k \in 0..n - 1 : f[k + 1] = step[k][f[k]]
           Some(n) == \E f \in [0..n -> V] : Upto(n, f)
           S == {n \in Nat : Some(n)}
<1>1. S = Nat
  <2>1. 0 \in S
    <3>1. [k \in 0..0 |-> first] \in [0..0 -> V] /\ Upto(0, [k \in 0..0 |-> first])
      OBVIOUS
    <3> QED BY <3>1
  <2>2. ASSUME NEW n \in S PROVE n + 1 \in S
    <3>1. PICK f \in [0..n -> V] : Upto(n, f)
      OBVIOUS
    <3> DEFINE g == [k \in 0..n + 1 |-> IF k = n + 1 THEN step[n][f[n]] ELSE f[k]]
    <3>2. step[n][f[n]] \in V
      OBVIOUS
    <3>3. g \in [0..n + 1 -> V]
      BY <3>2
    <3>4. g[0] = first
      BY <3>1
    <3>5. ASSUME NEW k \in 0..n PROVE g[k + 1] = step[k][g[k]]
      <4>1. CASE k = n
        BY <4>1
      <4>2. CASE k # n
        BY <3>1, <4>2
      <4> QED BY <4>1, <4>2
    <3> HIDE DEF g
    <3>6. n \in Nat /\ n + 1 \in Nat /\ (n + 1) - 1 = n
      OBVIOUS
    <3>7. Upto(n + 1, g)
      BY <3>4, <3>5, <3>6
    <3>8. Some(n + 1)
      BY <3>3, <3>7
    <3> QED BY <3>6, <3>8
  <2> HIDE DEF S
  <2>3. S \in SUBSET Nat
    BY DEF S
  <2> QED BY <2>1, <2>2, <2>3, Induction
<1>2. \A n \in Nat : Some(n)
  BY <1>1
<1>3. ASSUME NEW n \in Nat, NEW m \in Nat, n <= m,
             NEW f \in [0..n -> V], Upto(n, f), NEW g \in [0..m -> V], Upto(m, g)
      PROVE  f[n] = g[n]
  <2> DEFINE E == {k \in Nat : k <= n => f[k] = g[k]}
  <2>1. 0 \in E
    BY <1>3
  <2>2. ASSUME NEW k \in E PROVE k + 1 \in E
    <3>1. CASE k + 1 <= n
      BY <1>3, <3>1
    <3> QED BY <3>1
  <2>3. E = Nat
    <3> HIDE DEF E
    <3>1. E \in SUBSET Nat
      BY DEF E
    <3> QED BY <2>1, <2>2, <3>1, Induction
  <2> QED BY <2>3
<1> DEFINE h == [n \in Nat |-> CHOOSE f \in [0..n -> V] : Upto(n, f)]
           all == [n \in Nat |-> h[n][n]]
<1>4. \A n \in Nat : h[n] \in [0..n -> V] /\ Upto(n, h[n])
  BY <1>2
<1> HIDE DEF h
<1>5. all \in [Nat -> V]
  BY <1>4
<1>6. all[0] = first
  BY <1>4
<1>7. ASSUME NEW n \in Nat PROVE all[n + 1] = step[n][all[n]]
  <2>1. h[n + 1][n + 1] = step[n][h[n + 1][n]]
    <3>1. n + 1 \in Nat /\ n \in 0..(n + 1) - 1
      OBVIOUS
    <3> QED BY <1>4, <3>1
  <2>2. h[n][n] = h[n + 1][n]
    <3>1. n + 1 \in Nat /\ n <= n + 1
      OBVIOUS
    <3> HIDE DEF Upto
    <3> QED BY <1>3, <1>4, <3>1
  <2> QED BY <2>1, <2>2
<1> QED BY <1>5, <1>6, <1>7 DEF Recursion

\* As far as there are steps.
RecursionTo(L, V, first, step) ==
  \E f \in [0..L -> V] : f[0] = first /\ \A i \in 1..L : f[i] = step[i][f[i - 1]]

LEMMA IteratesTo ==
  ASSUME NEW L \in Nat, NEW V, NEW first \in V, NEW step \in [1..L -> [V -> V]]
  PROVE  RecursionTo(L, V, first, step)
<1> DEFINE all == [n \in Nat |-> IF n < L THEN step[n + 1] ELSE [x \in V |-> first]]
<1>1. all \in [Nat -> [V -> V]]
  <2>1. \A n \in Nat : n < L => n + 1 \in 1..L
    OBVIOUS
  <2> QED BY <2>1
<1>2. \A n \in Nat : n < L => all[n] = step[n + 1]
  OBVIOUS
<1> HIDE DEF all
<1>3. PICK f \in [Nat -> V] : f[0] = first /\ \A n \in Nat : f[n + 1] = all[n][f[n]]
  <2>1. Recursion(V, first, all)
    BY <1>1, Iterates
  <2> QED BY <2>1 DEF Recursion
<1>4. ASSUME NEW i \in 1..L PROVE f[i] = step[i][f[i - 1]]
  <2>1. i - 1 \in Nat /\ (i - 1) + 1 = i /\ i - 1 < L
    OBVIOUS
  <2> QED BY <1>2, <1>3, <2>1
<1> DEFINE g == [i \in 0..L |-> f[i]]
<1>5. g \in [0..L -> V] /\ g[0] = first
  <2>1. 0 \in 0..L /\ 0..L \subseteq Nat
    OBVIOUS
  <2> QED BY <1>3, <2>1
<1>6. ASSUME NEW i \in 1..L PROVE g[i] = step[i][g[i - 1]]
  <2>1. i \in 0..L /\ i - 1 \in 0..L
    OBVIOUS
  <2>2. g[i] = f[i] /\ g[i - 1] = f[i - 1]
    BY <2>1
  <2> QED BY <1>4, <2>2
<1> HIDE DEF g
<1> QED BY <1>5, <1>6 DEF RecursionTo

\* What holds first, and of each if of the one before, holds last.
LEMMA InductionTo ==
  ASSUME NEW L \in Nat, NEW S, 0 \in S, \A i \in 1..L : i - 1 \in S => i \in S
  PROVE  \A i \in 0..L : i \in S
<1> DEFINE E == {i \in Nat : i <= L => i \in S}
<1>1. 0 \in E
  OBVIOUS
<1>2. ASSUME NEW n \in E PROVE n + 1 \in E
  <2>1. CASE n + 1 <= L
    <3>1. n + 1 \in 1..L /\ (n + 1) - 1 = n /\ n \in S
      BY <2>1
    <3> QED BY <3>1
  <2> QED BY <2>1
<1>3. E \in SUBSET Nat
  OBVIOUS
<1>4. E = Nat
  <2> HIDE DEF E
  <2> QED BY <1>1, <1>2, <1>3, Induction
<1> QED BY <1>4

-----------------------------------------------------------------------------
(* Numbers.                                                                *)

\* What ByteAssumption comes to.
LEMMA RadixFacts ==
  /\ Radix \in Nat /\ High \in Nat /\ Lead \in Nat /\ Radix = 2 * High /\ Radix >= 4 /\ Lead >= 1
  /\ Types \subseteq Bytes /\ MaxStream \in Nat
BY ByteAssumption DEF Bytes

\* Power is what its definition says: there is such a function.
LEMMA PowerIs == Power = [i \in Nat |-> IF i = 0 THEN 1 ELSE Radix * Power[i - 1]]
<1> DEFINE step == [n \in Nat |-> [x \in Nat |-> Radix * x]]
<1>1. 1 \in Nat /\ step \in [Nat -> [Nat -> Nat]] /\ \A n, x \in Nat : step[n][x] = Radix * x
  BY RadixFacts
<1> HIDE DEF step
<1>2. PICK f \in [Nat -> Nat] : f[0] = 1 /\ \A n \in Nat : f[n + 1] = step[n][f[n]]
  <2>1. Recursion(Nat, 1, step)
    BY <1>1, Iterates
  <2> QED BY <2>1 DEF Recursion
<1>3. \A i \in Nat : f[i] = IF i = 0 THEN 1 ELSE Radix * f[i - 1]
  <2> SUFFICES ASSUME NEW i \in Nat, i # 0 PROVE f[i] = Radix * f[i - 1]
    BY <1>2
  <2>1. i - 1 \in Nat /\ (i - 1) + 1 = i
    OBVIOUS
  <2> QED BY <1>1, <1>2, <2>1
<1>4. f = [i \in Nat |-> IF i = 0 THEN 1 ELSE Radix * f[i - 1]]
  BY <1>3
<1> QED BY <1>4, Zenon DEF Power

\* The weights of the digits.
LEMMA PowerFacts ==
  /\ Power[0] = 1 /\ Power[1] = Radix
  /\ \A n \in Nat : Power[n] \in Nat /\ Power[n] > 0 /\ Power[n + 1] = Radix * Power[n]
<1> DEFINE S == {n \in Nat : Power[n] \in Nat /\ Power[n] > 0}
<1>1. Power[0] = 1 /\ \A n \in Nat : Power[n + 1] = Radix * Power[n]
  <2>1. \A n \in Nat : n + 1 \in Nat /\ n + 1 # 0 /\ (n + 1) - 1 = n
    OBVIOUS
  <2> QED BY PowerIs, <2>1
<1>2. S = Nat
  <2>1. 0 \in S
    BY <1>1
  <2>2. ASSUME NEW n \in S PROVE n + 1 \in S
    <3>1. PICK w \in Nat : w = Power[n] /\ w > 0
      OBVIOUS
    <3>2. Power[n + 1] = Radix * w
      BY <1>1, <3>1
    <3>3. Radix * w \in Nat /\ Radix * w > 0
      BY RadixFacts, <3>1
    <3> QED BY <3>2, <3>3
  <2>3. S \in SUBSET Nat
    OBVIOUS
  <2> HIDE DEF S
  <2> QED BY <2>1, <2>2, <2>3, Induction
<1>3. Power[1] = Radix
  <2>1. Power[0 + 1] = Radix * Power[0]
    BY <1>1
  <2> QED BY <1>1, <2>1, RadixFacts
<1> QED BY <1>1, <1>2, <1>3

\* More digits weigh more.
LEMMA PowerGrows ==
  ASSUME NEW n \in Nat, NEW m \in Nat, n <= m
  PROVE  Power[n] <= Power[m]
<1> DEFINE S == {k \in Nat : Power[n] <= Power[n + k]}
<1>1. 0 \in S
  BY PowerFacts
<1>2. ASSUME NEW k \in S PROVE k + 1 \in S
  <2>1. PICK w \in Nat : w = Power[n + k] /\ Power[n] <= w
    BY PowerFacts
  <2>2. Power[n + k + 1] = Radix * w
    BY <2>1, PowerFacts
  <2>3. Radix * w >= w
    BY RadixFacts
  <2>4. n + (k + 1) = n + k + 1
    OBVIOUS
  <2> QED BY <2>1, <2>2, <2>3, <2>4, PowerFacts, RadixFacts
<1>3. S = Nat
  <2>1. S \in SUBSET Nat
    OBVIOUS
  <2> HIDE DEF S
  <2> QED BY <1>1, <1>2, <2>1, Induction
<1>4. m - n \in Nat /\ n + (m - n) = m
  OBVIOUS
<1>5. m - n \in S
  BY <1>3, <1>4
<1> QED BY <1>4, <1>5

LEMMA Division ==
  ASSUME NEW a \in Int, NEW b \in Nat, b > 0
  PROVE  a \div b \in Int /\ a % b \in 0..b - 1 /\ a = b * (a \div b) + (a % b)
BY SMT

LEMMA Quotient ==
  ASSUME NEW a \in Int, NEW b \in Nat, b > 0, NEW q \in Int, NEW r \in 0..b - 1, a = b * q + r
  PROVE  a \div b = q /\ a % b = r
BY SMT

LEMMA DivideTwice ==
  ASSUME NEW a \in Int, NEW b \in Nat, b > 0, NEW c \in Nat, c > 0
  PROVE  (a \div b) \div c = a \div (b * c)
BY SMT

\* The remainder has one digit more.
LEMMA NextRemainder ==
  ASSUME NEW a \in Int, NEW b \in Nat, b > 0, NEW c \in Nat, c > 0
  PROVE  a % (b * c) = b * ((a \div b) % c) + (a % b)
<1>1. PICK q \in Int, r \in 0..b - 1 : q = a \div b /\ r = a % b /\ a = b * q + r
  BY Division
<1>2. PICK p \in Int, s \in 0..c - 1 : p = q \div c /\ s = q % c /\ q = c * p + s
  BY Division
<1>3. b * s + r \in 0..(b * c) - 1
  <2>1. b * s + r >= 0
    OBVIOUS
  <2>2. b * s <= b * (c - 1)
    OBVIOUS
  <2>3. b * (c - 1) = b * c - b
    OBVIOUS
  <2> QED BY <2>1, <2>2, <2>3
<1>4. a = (b * c) * p + (b * s + r)
  <2>1. b * q = b * (c * p) + b * s
    BY <1>2
  <2> QED BY <1>1, <2>1
<1>5. b * c \in Nat /\ b * c > 0
  OBVIOUS
<1>6. a % (b * c) = b * s + r
  BY <1>3, <1>4, <1>5, Quotient
<1> QED BY <1>1, <1>2, <1>6

-----------------------------------------------------------------------------
(* Digits.                                                                 *)

\* The value after every digit.
Reads(digits, read) ==
  /\ read \in [0..Len(digits) -> Nat] /\ read[0] = 0
  /\ \A i \in 1..Len(digits) : read[i] = Radix * read[i - 1] + digits[i]

Weighs(digits, sum) ==
  /\ sum \in [0..Len(digits) -> Nat] /\ sum[0] = 0
  /\ \A i \in 1..Len(digits) : sum[i] = sum[i - 1] + digits[i] * Power[Len(digits) - i]

\* The same of the functions that run over the bytes.
LEMMA FromDigitsIs ==
  ASSUME NEW digits \in Seq(Nat)
  PROVE  \E read : Reads(digits, read) /\ FromDigits(digits) = read[Len(digits)]
<1> DEFINE L == Len(digits)
           Is(r) == r = [i \in 0..L |-> IF i = 0 THEN 0 ELSE Radix * r[i - 1] + digits[i]]
           step == [i \in 1..L |-> [x \in Nat |-> Radix * x + digits[i]]]
<1>1. L \in Nat /\ \A i \in 1..L : digits[i] \in Nat
  OBVIOUS
<1>2. /\ step \in [1..L -> [Nat -> Nat]]
      /\ \A i \in 1..L, x \in Nat : step[i][x] = Radix * x + digits[i]
  <2> HIDE DEF L
  <2>1. \A i \in 1..L, x \in Nat : Radix * x + digits[i] \in Nat
    BY <1>1, RadixFacts
  <2> QED BY <2>1
<1> HIDE DEF step
<1>3. PICK f \in [0..L -> Nat] : f[0] = 0 /\ \A i \in 1..L : f[i] = step[i][f[i - 1]]
  <2>1. RecursionTo(L, Nat, 0, step)
    BY <1>1, <1>2, IteratesTo
  <2> QED BY <2>1 DEF RecursionTo
<1> HIDE DEF L
<1>4. \A i \in 1..L : i \in 0..L /\ i - 1 \in 0..L /\ i # 0
  BY <1>1
<1>5. \A i \in 1..L : f[i] = Radix * f[i - 1] + digits[i]
  BY <1>2, <1>3, <1>4
<1>6. Is(f)
  <2>1. \A i \in 0..L : i = 0 \/ i \in 1..L
    BY <1>1
  <2> QED BY <1>3, <1>5, <2>1
<1> DEFINE made == CHOOSE r : Is(r)
<1>7. Is(made)
  BY <1>6, Zenon
<1>8. FromDigits(digits) = made[L]
  BY Zenon DEF FromDigits, L
<1> HIDE DEF made
<1>9. made[L] = f[L]
  <2> DEFINE S == {i \in 0..L : made[i] = f[i]}
  <2>1. 0 \in S
    BY <1>1, <1>3, <1>7
  <2>2. ASSUME NEW i \in 1..L, i - 1 \in S PROVE i \in S
    <3>1. made[i] = Radix * made[i - 1] + digits[i]
      BY <1>4, <1>7
    <3> QED BY <1>4, <1>5, <2>2, <3>1
  <2>3. \A i \in 0..L : i \in S
    <3> HIDE DEF S
    <3> QED BY <1>1, <2>1, <2>2, InductionTo
  <2>4. L \in 0..L
    BY <1>1
  <2> QED BY <2>3, <2>4
<1> QED BY <1>3, <1>5, <1>8, <1>9 DEF Reads, L

LEMMA WeighIs ==
  ASSUME NEW digits \in Seq(Nat)
  PROVE  \E sum : Weighs(digits, sum) /\ Weigh(digits) = sum[Len(digits)]
<1> DEFINE L == Len(digits)
           Is(r) == r = [i \in 0..L |-> IF i = 0 THEN 0 ELSE r[i - 1] + digits[i] * Power[L - i]]
           step == [i \in 1..L |-> [x \in Nat |-> x + digits[i] * Power[L - i]]]
<1>1. L \in Nat /\ \A i \in 1..L : digits[i] \in Nat
  OBVIOUS
<1>2. /\ step \in [1..L -> [Nat -> Nat]]
      /\ \A i \in 1..L, x \in Nat : step[i][x] = x + digits[i] * Power[L - i]
  <2> HIDE DEF L
  <2>1. \A i \in 1..L : L - i \in Nat
    BY <1>1
  <2>2. ASSUME NEW i \in 1..L, NEW x \in Nat PROVE x + digits[i] * Power[L - i] \in Nat
    <3>1. PICK d \in Nat, w \in Nat : d = digits[i] /\ w = Power[L - i]
      BY <1>1, <2>1, PowerFacts
    <3>2. x + d * w \in Nat
      OBVIOUS
    <3> QED BY <3>1, <3>2
  <2> QED BY <2>2
<1> HIDE DEF step
<1>3. PICK f \in [0..L -> Nat] : f[0] = 0 /\ \A i \in 1..L : f[i] = step[i][f[i - 1]]
  <2>1. RecursionTo(L, Nat, 0, step)
    BY <1>1, <1>2, IteratesTo
  <2> QED BY <2>1 DEF RecursionTo
<1> HIDE DEF L
<1>4. \A i \in 1..L : i \in 0..L /\ i - 1 \in 0..L /\ i # 0
  BY <1>1
<1>5. \A i \in 1..L : f[i] = f[i - 1] + digits[i] * Power[L - i]
  BY <1>2, <1>3, <1>4
<1>6. Is(f)
  <2>1. \A i \in 0..L : i = 0 \/ i \in 1..L
    BY <1>1
  <2> QED BY <1>3, <1>5, <2>1
<1> DEFINE made == CHOOSE r : Is(r)
<1>7. Is(made)
  BY <1>6, Zenon
<1>8. Weigh(digits) = made[L]
  BY Zenon DEF Weigh, L
<1> HIDE DEF made
<1>9. made[L] = f[L]
  <2> DEFINE S == {i \in 0..L : made[i] = f[i]}
  <2>1. 0 \in S
    BY <1>1, <1>3, <1>7
  <2>2. ASSUME NEW i \in 1..L, i - 1 \in S PROVE i \in S
    <3>1. made[i] = made[i - 1] + digits[i] * Power[L - i]
      BY <1>4, <1>7
    <3> QED BY <1>4, <1>5, <2>2, <3>1
  <2>3. \A i \in 0..L : i \in S
    <3> HIDE DEF S
    <3> QED BY <1>1, <2>1, <2>2, InductionTo
  <2>4. L \in 0..L
    BY <1>1
  <2> QED BY <2>3, <2>4
<1> QED BY <1>3, <1>5, <1>8, <1>9 DEF Weighs, L

\* Both sides make the same of the bytes.
LEMMA SidesAgree ==
  ASSUME NEW digits \in Seq(Nat)
  PROVE  FromDigits(digits) = Weigh(digits)
<1> DEFINE L == Len(digits)
<1>1. PICK read : Reads(digits, read) /\ FromDigits(digits) = read[L]
  BY FromDigitsIs
<1>2. PICK sum : Weighs(digits, sum) /\ Weigh(digits) = sum[L]
  BY WeighIs
<1>3. L \in Nat /\ \A i \in 1..L : digits[i] \in Nat
  OBVIOUS
<1>4. /\ read \in [0..L -> Nat] /\ sum \in [0..L -> Nat] /\ read[0] = 0 /\ sum[0] = 0
      /\ \A i \in 1..L : /\ read[i] = Radix * read[i - 1] + digits[i]
                         /\ sum[i] = sum[i - 1] + digits[i] * Power[L - i]
  BY <1>1, <1>2 DEF Reads, Weighs
<1> HIDE DEF L
<1> DEFINE S == {i \in 0..L : sum[i] = read[i] * Power[L - i]}
<1>5. 0 \in S
  <2>1. PICK w \in Nat : w = Power[L - 0]
    <3>1. L - 0 \in Nat
      BY <1>3
    <3> QED BY <3>1, PowerFacts
  <2>2. 0 * w = 0
    OBVIOUS
  <2> QED BY <1>3, <1>4, <2>1, <2>2
<1>6. ASSUME NEW i \in 1..L, i - 1 \in S PROVE i \in S
  <2>1. i \in 0..L /\ i - 1 \in 0..L /\ L - i \in Nat /\ L - (i - 1) = (L - i) + 1
    BY <1>3
  <2>2. PICK w \in Nat : w = Power[L - i] /\ Power[L - (i - 1)] = Radix * w
    BY <2>1, PowerFacts
  <2>3. PICK a \in Nat, d \in Nat : a = read[i - 1] /\ d = digits[i]
    BY <1>3, <1>4, <2>1
  <2>4. sum[i - 1] = a * (Radix * w)
    BY <1>6, <2>2, <2>3
  <2>5. sum[i] = a * (Radix * w) + d * w /\ read[i] = Radix * a + d
    BY <1>4, <2>2, <2>3, <2>4
  <2>6. a * (Radix * w) + d * w = (Radix * a + d) * w
    BY RadixFacts
  <2> QED BY <2>1, <2>2, <2>5, <2>6
<1>7. \A i \in 0..L : i \in S
  <2> HIDE DEF S
  <2> QED BY <1>3, <1>5, <1>6, InductionTo
<1>8. sum[L] = read[L] * Power[L - L]
  <2>1. L \in 0..L
    BY <1>3
  <2> QED BY <1>7, <2>1
<1>9. PICK a \in Nat : a = read[L]
  <2>1. L \in 0..L
    BY <1>3
  <2> QED BY <1>4, <2>1
<1>10. L - L = 0 /\ a * 1 = a
  BY <1>3
<1>11. sum[L] = read[L]
  BY <1>8, <1>9, <1>10, PowerFacts
<1> QED BY <1>1, <1>2, <1>11

LEMMA BytesAreNumbers ==
  ASSUME NEW s \in Seq(Bytes)
  PROVE  s \in Seq(Nat) /\ \A i \in 1..Len(s) : s[i] \in 0..Radix - 1
BY RadixFacts DEF Bytes

\* A number is below the next one that its first digit could begin.
LEMMA FirstDigitBounds ==
  ASSUME NEW digits \in Seq(Bytes), digits # <<>>
  PROVE  /\ FromDigits(digits) \in Nat
         /\ FromDigits(digits) < (digits[1] + 1) * Power[Len(digits) - 1]
<1> DEFINE L == Len(digits)
<1>1. digits \in Seq(Nat) /\ L \in Nat /\ L >= 1 /\ \A i \in 1..L : digits[i] \in 0..Radix - 1
  BY BytesAreNumbers
<1>2. PICK read : Reads(digits, read) /\ FromDigits(digits) = read[L]
  BY <1>1, FromDigitsIs
<1>3. /\ read \in [0..L -> Nat] /\ read[0] = 0
      /\ \A i \in 1..L : read[i] = Radix * read[i - 1] + digits[i]
  BY <1>2 DEF Reads
<1> HIDE DEF L
<1>4. PICK d \in 0..Radix - 1 : d = digits[1]
  BY <1>1
<1> DEFINE S == {i \in 0..L : i = 0 \/ read[i] < (d + 1) * Power[i - 1]}
<1>5. 0 \in S
  BY <1>1
<1>6. ASSUME NEW i \in 1..L, i - 1 \in S PROVE i \in S
  <2>1. i \in 0..L /\ i - 1 \in 0..L /\ i - 1 \in Nat
    BY <1>1
  <2>2. CASE i = 1
    <3>1. read[i] = Radix * 0 + d
      BY <1>3, <1>4, <2>1, <2>2
    <3>2. Radix * 0 + d < (d + 1) * 1
      BY RadixFacts
    <3>3. Power[i - 1] = 1
      BY <2>2, PowerFacts
    <3> QED BY <2>1, <3>1, <3>2, <3>3
  <2>3. CASE i # 1
    <3>1. i - 2 \in Nat /\ (i - 2) + 1 = i - 1 /\ i - 1 # 0 /\ (i - 1) - 1 = i - 2
      BY <2>1, <2>3
    <3>2. PICK w \in Nat : w = Power[i - 2] /\ Power[i - 1] = Radix * w
      BY <3>1, PowerFacts
    <3>3. PICK a \in Nat, e \in 0..Radix - 1 : a = read[i - 1] /\ e = digits[i]
      BY <1>1, <1>3, <2>1
    <3>4. a < (d + 1) * w
      BY <1>6, <3>1, <3>2, <3>3
    <3>5. read[i] = Radix * a + e
      BY <1>3, <3>3
    <3>6. Radix * a + e < (d + 1) * (Radix * w)
      <4>1. PICK c \in Nat : c = (d + 1) * w
        OBVIOUS
      <4>2. Radix * (a + 1) <= Radix * c
        BY <3>4, <4>1, RadixFacts
      <4>3. Radix * (a + 1) = Radix * a + Radix /\ Radix * c = (d + 1) * (Radix * w)
        BY <4>1, RadixFacts
      <4> QED BY <4>2, <4>3, RadixFacts
    <3> QED BY <2>1, <3>2, <3>5, <3>6
  <2> QED BY <2>2, <2>3
<1>7. \A i \in 0..L : i \in S
  <2> HIDE DEF S
  <2> QED BY <1>1, <1>5, <1>6, InductionTo
<1>8. L \in 0..L /\ L # 0
  BY <1>1
<1>9. read[L] \in Nat /\ read[L] < (d + 1) * Power[L - 1]
  BY <1>3, <1>7, <1>8
<1> QED BY <1>2, <1>4, <1>9 DEF L

-----------------------------------------------------------------------------
(* Numbers as their digits.                                                *)

\* The last n digits of a number, the first of them first.
Places(v, n) == [i \in 1..n |-> Digit(v, n - i)]

\* Digits are bytes, of negative numbers as well.
LEMMA DigitType ==
  ASSUME NEW v \in Int, NEW i \in Nat
  PROVE  Digit(v, i) \in Bytes
<1>1. PICK w \in Nat : w = Power[i] /\ w > 0
  BY PowerFacts
<1>2. v \div w \in Int
  BY <1>1, Division
<1>3. PICK q \in Int : q = v \div w
  BY <1>2
<1>4. q % Radix \in 0..Radix - 1
  BY RadixFacts, Division
<1> QED BY <1>1, <1>3, <1>4 DEF Digit, Bytes

LEMMA PlacesType ==
  ASSUME NEW v \in Int, NEW n \in Nat
  PROVE  /\ Places(v, n) \in Seq(Bytes) /\ Places(v, n) \in [1..n -> Bytes] /\ Len(Places(v, n)) = n
         /\ \A i \in 1..n : Places(v, n)[i] = Digit(v, n - i)
<1>1. \A i \in 1..n : n - i \in Nat
  OBVIOUS
<1>2. \A i \in 1..n : Digit(v, n - i) \in Bytes
  BY <1>1, DigitType
<1> QED BY <1>2 DEF Places

\* The digits are those of the number, or of its remainder if it is too large or negative.
LEMMA PlacesValue ==
  ASSUME NEW v \in Int, NEW n \in Nat
  PROVE  FromDigits(Places(v, n)) = v % Power[n]
<1> DEFINE d == Places(v, n)
<1>1. d \in Seq(Nat) /\ Len(d) = n /\ \A i \in 1..n : d[i] = Digit(v, n - i)
  <2>1. d \in Seq(Bytes) /\ Len(d) = n /\ \A i \in 1..n : d[i] = Digit(v, n - i)
    BY PlacesType
  <2> HIDE DEF d
  <2> QED BY <2>1, BytesAreNumbers
<1> HIDE DEF d
<1>2. PICK read : Reads(d, read) /\ FromDigits(d) = read[n]
  BY <1>1, FromDigitsIs
<1>3. /\ read \in [0..n -> Nat] /\ read[0] = 0
      /\ \A i \in 1..n : read[i] = Radix * read[i - 1] + d[i]
  BY <1>1, <1>2 DEF Reads
<1> DEFINE S == {i \in 0..n : read[i] = (v \div Power[n - i]) % Power[i]}
<1>4. 0 \in S
  <2>1. PICK w \in Nat : w = Power[n - 0] /\ w > 0
    <3>1. n - 0 \in Nat
      OBVIOUS
    <3> QED BY <3>1, PowerFacts
  <2>2. PICK q \in Int : q = v \div w
    BY <2>1, Division
  <2>3. q % 1 = 0
    OBVIOUS
  <2>4. 0 \in 0..n /\ read[0] = q % Power[0]
    BY <1>3, <2>3, PowerFacts
  <2> QED BY <2>1, <2>2, <2>4
<1>5. ASSUME NEW i \in 1..n, i - 1 \in S PROVE i \in S
  <2>1. /\ i \in 0..n /\ i - 1 \in 0..n /\ i - 1 \in Nat /\ (i - 1) + 1 = i
        /\ n - i \in Nat /\ n - (i - 1) = (n - i) + 1
    OBVIOUS
  <2>2. PICK w \in Nat : w = Power[n - i] /\ w > 0 /\ Power[n - (i - 1)] = Radix * w
    BY <2>1, PowerFacts
  <2>3. PICK b \in Nat : b = Power[i - 1] /\ b > 0 /\ Power[i] = Radix * b
    BY <2>1, PowerFacts
  <2>4. PICK q \in Int : q = v \div w
    BY <2>2, Division
  <2>5. v \div Power[n - (i - 1)] = q \div Radix
    <3>1. (v \div w) \div Radix = v \div (w * Radix)
      BY <2>2, RadixFacts, DivideTwice
    <3>2. w * Radix = Radix * w
      BY RadixFacts
    <3> QED BY <2>2, <2>4, <3>1, <3>2
  <2>6. read[i - 1] = (q \div Radix) % b
    BY <1>5, <2>3, <2>5
  <2>7. d[i] = q % Radix
    BY <1>1, <2>2, <2>4 DEF Digit
  <2>8. read[i] = Radix * ((q \div Radix) % b) + (q % Radix)
    BY <1>3, <2>6, <2>7
  <2>9. q % (Radix * b) = Radix * ((q \div Radix) % b) + (q % Radix)
    <3>1. Radix \in Nat /\ Radix > 0
      BY RadixFacts
    <3> QED BY <2>3, <2>4, <3>1, NextRemainder, Zenon
  <2> QED BY <2>1, <2>2, <2>3, <2>4, <2>8, <2>9
<1>6. \A i \in 0..n : i \in S
  <2> HIDE DEF S
  <2> QED BY <1>4, <1>5, InductionTo
<1>7. read[n] = (v \div Power[n - n]) % Power[n]
  <2>1. n \in 0..n
    OBVIOUS
  <2> QED BY <1>6, <2>1
<1>8. v \div Power[n - n] = v
  <2>1. n - n = 0 /\ v \div 1 = v
    OBVIOUS
  <2> QED BY <2>1, PowerFacts
<1> QED BY <1>2, <1>7, <1>8 DEF d

\* A number that its digits have room for comes back.
LEMMA PlacesKeep ==
  ASSUME NEW n \in Nat, NEW v \in 0..Power[n] - 1
  PROVE  v \in Int /\ FromDigits(Places(v, n)) = v /\ Weigh(Places(v, n)) = v
<1>1. PICK w \in Nat : w = Power[n] /\ w > 0
  BY PowerFacts
<1>2. v \in Int /\ v % w = v
  BY <1>1
<1>3. Places(v, n) \in Seq(Nat)
  <2>1. Places(v, n) \in Seq(Bytes)
    BY <1>2, PlacesType
  <2> QED BY <2>1, BytesAreNumbers
<1> QED BY <1>1, <1>2, <1>3, PlacesValue, SidesAgree

\* What the client writes is what the library reads.
LEMMA ClientDigits ==
  ASSUME NEW n \in Nat, NEW v \in 0..Power[n] - 1
  PROVE  /\ Digits(v, n) \in Seq(Bytes) /\ Len(Digits(v, n)) = n
         /\ FromDigits(Digits(v, n)) = v /\ Weigh(Digits(v, n)) = v
<1>1. \E digits \in [1..n -> Bytes] : Weigh(digits) = v
  BY PlacesKeep, PlacesType
<1>2. Digits(v, n) \in [1..n -> Bytes] /\ Weigh(Digits(v, n)) = v
  BY <1>1, Zenon DEF Digits
<1>3. Digits(v, n) \in Seq(Bytes) /\ Len(Digits(v, n)) = n
  BY <1>2
<1>4. Digits(v, n) \in Seq(Nat)
  BY <1>3, BytesAreNumbers
<1> QED BY <1>2, <1>3, <1>4, SidesAgree

-----------------------------------------------------------------------------
(* Records.                                                                *)

LEMMA IdsType == Ids \subseteq Nat /\ \A v \in Ids : v \in 0..Power[2] - 1 /\ v \in Int
<1>1. PICK w \in Nat : w = Power[2]
  BY PowerFacts
<1> QED BY <1>1 DEF Ids

LEMMA IdDigits ==
  ASSUME NEW v \in Ids
  PROVE  \E d : d = Digits(v, 2) /\ d \in Seq(Bytes) /\ Len(d) = 2 /\ FromDigits(d) = v
<1>1. 2 \in Nat /\ v \in 0..Power[2] - 1
  BY IdsType
<1> DEFINE d == Digits(v, 2)
<1>2. d \in Seq(Bytes) /\ Len(d) = 2 /\ FromDigits(d) = v
  BY <1>1, ClientDigits, Zenon
<1> QED BY <1>2, Zenon

\* A request_id or a length is two bytes of a header.
LEMMA TwoOf ==
  ASSUME NEW V, NEW s \in Seq(V), NEW k \in Nat, NEW m \in Nat,
         m = k + 1, 1 <= k, m <= Len(s)
  PROVE  SubSeq(s, k, m) = <<s[k], s[m]>>
<1>1. PICK t : t = SubSeq(s, k, m)
  OBVIOUS
<1>2. /\ k \in 1..Len(s) + 1 /\ m \in 0..Len(s) /\ m - k + 1 = 2
      /\ k + 1 - 1 = k /\ k + 2 - 1 = m /\ k <= m
  OBVIOUS
<1>3. t \in Seq(V) /\ Len(t) = 2 /\ t[1] = s[k] /\ t[2] = s[m]
  BY <1>1, <1>2, SubSeqProperties
<1>4. t = <<t[1], t[2]>>
  BY <1>3
<1> QED BY <1>1, <1>3, <1>4

LEMMA TwosOfEight ==
  ASSUME NEW V, NEW s \in Seq(V), Len(s) = 8
  PROVE  /\ SubSeq(s, 1, 2) = <<s[1], s[2]>> /\ SubSeq(s, 3, 4) = <<s[3], s[4]>>
         /\ SubSeq(s, 5, 6) = <<s[5], s[6]>>
BY TwoOf

\* x is s and two more.
TwoMore(V, n, s, t, x) ==
  /\ x \in Seq(V) /\ Len(x) = n + 2
  /\ \A i \in 1..n : x[i] = s[i]
  /\ x[n + 1] = t[1] /\ x[n + 2] = t[2]

LEMMA TwoBehind ==
  ASSUME NEW V, NEW s \in Seq(V), NEW t \in Seq(V), Len(t) = 2, NEW n \in Nat, n = Len(s)
  PROVE  TwoMore(V, n, s, t, s \o t)
<1>1. PICK x : x = s \o t
  OBVIOUS
<1>2. /\ x \in Seq(V) /\ Len(x) = Len(s) + Len(t)
      /\ \A i \in 1..Len(s) + Len(t) : x[i] = IF i <= Len(s) THEN s[i] ELSE t[i - Len(s)]
  BY <1>1, ConcatProperties, Zenon
<1>3. /\ x \in Seq(V) /\ Len(x) = n + 2
      /\ \A i \in 1..n + 2 : x[i] = IF i <= n THEN s[i] ELSE t[i - n]
  BY <1>2
<1>4. /\ \A i \in 1..n : i \in 1..n + 2 /\ i <= n
      /\ n + 1 \in 1..n + 2 /\ ~(n + 1 <= n) /\ (n + 1) - n = 1
      /\ n + 2 \in 1..n + 2 /\ ~(n + 2 <= n) /\ (n + 2) - n = 2
  OBVIOUS
<1>5. (\A i \in 1..n : x[i] = s[i]) /\ x[n + 1] = t[1] /\ x[n + 2] = t[2]
  BY <1>3, <1>4
<1> QED BY <1>1, <1>3, <1>5 DEF TwoMore

\* A request_id or a length is in two bytes.
LEMMA TwoPlaces ==
  ASSUME NEW v \in Ids
  PROVE  /\ Digit(v, 1) \in Bytes /\ Digit(v, 0) \in Bytes
         /\ Weigh(<<Digit(v, 1), Digit(v, 0)>>) = v
<1>1. v \in Int /\ v \in 0..Power[2] - 1
  BY IdsType
<1>2. Places(v, 2) = <<Digit(v, 1), Digit(v, 0)>>
  <2>1. 2 - 1 = 1 /\ 2 - 2 = 0
    OBVIOUS
  <2> QED BY <2>1 DEF Places
<1>3. Weigh(Places(v, 2)) = v
  BY <1>1, PlacesKeep
<1> QED BY <1>1, <1>2, <1>3, DigitType

\* A header means for the client what the library has written,
LEMMA HeaderWritten ==
  ASSUME NEW h \in Headers, h.version = 1
  PROVE  HeaderBytes(h) \in Seq(Bytes) /\ ClientHeader(HeaderBytes(h)) = h
<1> DEFINE b == HeaderBytes(h)
<1>1. /\ h.type \in Types /\ h.request_id \in Ids /\ h.content_length \in Ids /\ h.padding_length \in Bytes
      /\ h = [kind |-> "header", version |-> 1, type |-> h.type, request_id |-> h.request_id,
              content_length |-> h.content_length, padding_length |-> h.padding_length]
  BY DEF Headers
<1>2. h.type \in Bytes /\ 1 \in Bytes /\ 0 \in Bytes
  BY <1>1, RadixFacts DEF Bytes
<1>3. PICK i1 \in Bytes, i0 \in Bytes :
        /\ i1 = Digit(h.request_id, 1) /\ i0 = Digit(h.request_id, 0)
        /\ Weigh(<<i1, i0>>) = h.request_id
  BY <1>1, TwoPlaces
<1>4. PICK l1 \in Bytes, l0 \in Bytes :
        /\ l1 = Digit(h.content_length, 1) /\ l0 = Digit(h.content_length, 0)
        /\ Weigh(<<l1, l0>>) = h.content_length
  BY <1>1, TwoPlaces
<1>5. b = <<1, h.type, i1, i0, l1, l0, h.padding_length, 0>>
  BY <1>3, <1>4 DEF HeaderBytes
<1> HIDE DEF b
<1>6. /\ b \in Seq(Bytes) /\ Len(b) = 8 /\ b[1] = 1 /\ b[2] = h.type /\ b[7] = h.padding_length
      /\ b[3] = i1 /\ b[4] = i0 /\ b[5] = l1 /\ b[6] = l0
  BY <1>1, <1>2, <1>5
<1>7. SubSeq(b, 3, 4) = <<i1, i0>> /\ SubSeq(b, 5, 6) = <<l1, l0>>
  <2>1. b \in Seq(Bytes) /\ Len(b) = 8
    BY <1>6
  <2>2. SubSeq(b, 3, 4) = <<b[3], b[4]>> /\ SubSeq(b, 5, 6) = <<b[5], b[6]>>
    BY <2>1, TwosOfEight, Zenon
  <2> QED BY <1>6, <2>2
<1>8. ClientHeader(b) = h
  BY <1>1, <1>3, <1>4, <1>6, <1>7 DEF ClientHeader
<1> QED BY <1>6, <1>8 DEF b

\* and for the library what the client has written, whatever is in the reserved byte,
\* unless it is of another version.
LEMMA HeaderRead ==
  ASSUME NEW h \in Headers, NEW spare \in Bytes
  PROVE  /\ ClientBytes(h, spare) \in Seq(Bytes)
         /\ HeaderOf(ClientBytes(h, spare)) = IF h.version = 1 THEN h ELSE Refused
<1> DEFINE b == ClientBytes(h, spare)
<1>1. /\ h.type \in Types /\ h.request_id \in Ids /\ h.content_length \in Ids /\ h.padding_length \in Bytes
      /\ h.version \in {0, 1} /\ h.kind = "header"
      /\ h = [kind |-> "header", version |-> h.version, type |-> h.type, request_id |-> h.request_id,
              content_length |-> h.content_length, padding_length |-> h.padding_length]
  BY DEF Headers
<1>2. h.type \in Bytes /\ h.version \in Bytes
  BY <1>1, RadixFacts DEF Bytes
<1>3. PICK i : /\ i = Digits(h.request_id, 2) /\ i \in Seq(Bytes) /\ Len(i) = 2
               /\ FromDigits(i) = h.request_id
  BY <1>1, IdDigits, Zenon
<1>4. PICK l : /\ l = Digits(h.content_length, 2) /\ l \in Seq(Bytes) /\ Len(l) = 2
               /\ FromDigits(l) = h.content_length
  BY <1>1, IdDigits, Zenon
<1>5. b = <<h.version, h.type>> \o i \o l \o <<h.padding_length, spare>>
  BY <1>1, <1>3, <1>4 DEF ClientBytes
<1> HIDE DEF b
<1>6. i = <<i[1], i[2]>> /\ l = <<l[1], l[2]>>
  BY <1>3, <1>4
<1>7. /\ b \in Seq(Bytes) /\ Len(b) = 8 /\ b[1] = h.version /\ b[2] = h.type
      /\ b[7] = h.padding_length
      /\ b[3] = i[1] /\ b[4] = i[2] /\ b[5] = l[1] /\ b[6] = l[2]
  <2> DEFINE x == <<h.version, h.type>>
             y == <<h.padding_length, spare>>
             xi == x \o i
             xil == xi \o l
  <2>1. x \in Seq(Bytes) /\ Len(x) = 2 /\ x[1] = h.version /\ x[2] = h.type
    BY <1>2
  <2>2. y \in Seq(Bytes) /\ Len(y) = 2 /\ y[1] = h.padding_length
    BY <1>1
  <2>3. b = xil \o y
    BY <1>5
  <2> HIDE DEF x, y
  <2>4. TwoMore(Bytes, 2, x, i, xi)
    BY <1>3, <2>1, TwoBehind
  <2>5. /\ xi \in Seq(Bytes) /\ Len(xi) = 4
        /\ xi[1] = x[1] /\ xi[2] = x[2] /\ xi[3] = i[1] /\ xi[4] = i[2]
    BY <2>4 DEF TwoMore
  <2> HIDE DEF xi
  <2>6. TwoMore(Bytes, 4, xi, l, xil)
    BY <1>4, <2>5, TwoBehind
  <2> HIDE DEF xil
  <2>7. /\ xil \in Seq(Bytes) /\ Len(xil) = 6 /\ xil[1] = xi[1] /\ xil[2] = xi[2]
        /\ xil[3] = xi[3] /\ xil[4] = xi[4] /\ xil[5] = l[1] /\ xil[6] = l[2]
    BY <2>6 DEF TwoMore
  <2>8. TwoMore(Bytes, 6, xil, y, b)
    BY <2>2, <2>3, <2>7, TwoBehind
  <2> QED BY <2>1, <2>2, <2>5, <2>7, <2>8 DEF TwoMore
<1>8. SubSeq(b, 3, 4) = i /\ SubSeq(b, 5, 6) = l
  <2>1. b \in Seq(Bytes) /\ Len(b) = 8
    BY <1>7
  <2>2. SubSeq(b, 3, 4) = <<b[3], b[4]>> /\ SubSeq(b, 5, 6) = <<b[5], b[6]>>
    BY <2>1, TwosOfEight, Zenon
  <2> QED BY <1>6, <1>7, <2>2
<1>9. HeaderOf(b) = IF h.version = 1 THEN h ELSE Refused
  BY <1>1, <1>3, <1>4, <1>7, <1>8 DEF HeaderOf
<1> QED BY <1>7, <1>9 DEF b

\* The reserved bytes and flags change nothing.
LEMMA BeginRead ==
  ASSUME NEW r \in BeginRequests, NEW spare \in Bytes
  PROVE  ClientBytes(r, spare) \in Seq(Bytes) /\ BeginRequestOf(ClientBytes(r, spare)) = r
<1> DEFINE b == ClientBytes(r, spare)
<1>1. /\ r.role \in Ids /\ r.keep_conn \in BOOLEAN /\ r.kind = "begin"
      /\ r = [kind |-> "begin", role |-> r.role, keep_conn |-> r.keep_conn]
  BY DEF BeginRequests
<1>2. PICK i : i = Digits(r.role, 2) /\ i \in Seq(Bytes) /\ Len(i) = 2 /\ FromDigits(i) = r.role
  BY <1>1, IdDigits, Zenon
<1>3. PICK k \in {0, 1} : k = IF r.keep_conn THEN 1 ELSE 0
  OBVIOUS
<1>4. PICK f \in Bytes : f = (2 * spare + k) % Radix /\ f % 2 = k
  <2>1. spare \in Nat /\ 2 * spare + k \in Nat
    BY RadixFacts DEF Bytes
  <2>2. PICK q \in Int, x \in 0..Radix - 1 :
          x = (2 * spare + k) % Radix /\ 2 * spare + k = Radix * q + x
    <3>1. PICK a \in Int : a = 2 * spare + k
      BY <2>1
    <3>2. Radix \in Nat /\ Radix > 0
      BY RadixFacts
    <3>3. a \div Radix \in Int /\ a % Radix \in 0..Radix - 1 /\ a = Radix * (a \div Radix) + (a % Radix)
      BY <3>2, Division
    <3> QED BY <3>1, <3>3
  <2>3. x = 2 * (spare - High * q) + k
    BY <2>1, <2>2, RadixFacts
  <2>4. spare - High * q \in Int
    BY <2>1, <2>2, RadixFacts
  <2>5. x % 2 = k
    BY <2>3, <2>4, Quotient
  <2> QED BY <2>2, <2>5 DEF Bytes
<1>5. b = i \o <<f>> \o [j \in 1..5 |-> spare]
  BY <1>1, <1>2, <1>3, <1>4 DEF ClientBytes
<1> HIDE DEF b
<1>6. b \in Seq(Bytes) /\ Len(b) = 8 /\ b[1] = i[1] /\ b[2] = i[2] /\ b[3] = f
  <2> DEFINE behind == [j \in 1..5 |-> spare]
             front == i \o <<f>>
  <2>1. behind \in Seq(Bytes) /\ Len(behind) = 5
    OBVIOUS
  <2>2. front \in Seq(Bytes) /\ Len(front) = 3 /\ front[1] = i[1] /\ front[2] = i[2] /\ front[3] = f
    BY <1>2
  <2>3. b = front \o behind
    BY <1>5
  <2> HIDE DEF front, behind
  <2>4. /\ b \in Seq(Bytes) /\ Len(b) = Len(front) + Len(behind)
        /\ \A j \in 1..Len(front) + Len(behind) :
             b[j] = IF j <= Len(front) THEN front[j] ELSE behind[j - Len(front)]
    BY <2>1, <2>2, <2>3, ConcatProperties, Zenon
  <2> QED BY <2>1, <2>2, <2>4
<1>7. i = <<i[1], i[2]>> /\ SubSeq(b, 1, 2) = <<b[1], b[2]>>
  <2>1. i = <<i[1], i[2]>>
    BY <1>2
  <2>2. SubSeq(b, 1, 2) = <<b[1], b[2]>>
    <3>1. b \in Seq(Bytes) /\ Len(b) = 8
      BY <1>6
    <3> QED BY <3>1, TwosOfEight, Zenon
  <2> QED BY <2>1, <2>2
<1>8. (b[3] % 2 = 1) = r.keep_conn
  <2>1. b[3] % 2 = k
    BY <1>4, <1>6
  <2> QED BY <1>1, <1>3, <2>1
<1>9. BeginRequestOf(b) = r
  <2>1. BeginRequestOf(b) = [kind |-> "begin", role |-> r.role, keep_conn |-> r.keep_conn]
    BY <1>2, <1>6, <1>7, <1>8, Zenon DEF BeginRequestOf
  <2> QED BY <1>1, <2>1
<1> QED BY <1>6, <1>9 DEF b

\* A status is a two's complement: the client finds the one that the bytes mean.
LEMMA EndWritten ==
  ASSUME NEW e \in EndRequests
  PROVE  EndRequestBytes(e) \in Seq(Bytes) /\ ClientEndRequest(EndRequestBytes(e)) = e
<1> DEFINE b == EndRequestBytes(e)
           status == e.application_status
           d == Places(status, Lead + 1)
<1>1. /\ status \in -IntMax - 1..IntMax /\ e.protocol_status \in 0..3
      /\ e = [kind |-> "end", application_status |-> status, protocol_status |-> e.protocol_status]
  BY DEF EndRequests, ProtocolStatuses
<1>2. PICK w \in Nat : w = Power[Lead] /\ w > 0 /\ Power[Lead + 1] = Radix * w
  BY PowerFacts, RadixFacts
<1>3. PICK half \in Nat : half = High * w /\ half > 0 /\ IntMax = half - 1 /\ Radix * w = 2 * half
  <2>1. High * w \in Nat /\ High * w > 0 /\ Radix * w = 2 * (High * w)
    BY <1>2, RadixFacts
  <2> QED BY <1>2, <2>1 DEF IntMax
<1>4. Power[Lead + 1] = 2 * half /\ status \in -half..half - 1
  BY <1>1, <1>2, <1>3
<1>5. d \in Seq(Bytes) /\ Len(d) = Lead + 1 /\ Weigh(d) = status % (2 * half)
  <2>1. status \in Int /\ Lead + 1 \in Nat
    BY <1>4, RadixFacts
  <2>2. d \in Seq(Bytes) /\ Len(d) = Lead + 1 /\ FromDigits(d) = status % Power[Lead + 1]
    BY <2>1, PlacesType, PlacesValue
  <2> HIDE DEF d
  <2>3. FromDigits(d) = Weigh(d)
    BY <2>2, BytesAreNumbers, SidesAgree
  <2> QED BY <1>4, <2>2, <2>3
<1>6. b = d \o <<e.protocol_status, 0, 0, 0>>
  <2>1. d = [i \in 1..Lead + 1 |-> Digit(status, Lead + 1 - i)]
    <3>1. \A i \in 1..Lead + 1 : Lead + 1 - i = (Lead + 1) - i
      BY RadixFacts
    <3> QED BY <3>1 DEF Places
  <2>2. b = [i \in 1..Lead + 1 |-> Digit(status, Lead + 1 - i)] \o <<e.protocol_status, 0, 0, 0>>
    BY DEF EndRequestBytes
  <2> HIDE DEF b, d
  <2> QED BY <2>1, <2>2
<1> DEFINE last == <<e.protocol_status, 0, 0, 0>>
<1>7. last \in Seq(Bytes) /\ Len(last) = 4 /\ last[1] = e.protocol_status
  BY <1>1, RadixFacts DEF Bytes
<1> HIDE DEF b, d, last
<1>8. b \in Seq(Bytes) /\ SubSeq(b, 1, Lead + 1) = d /\ b[Lead + 2] = e.protocol_status
  <2>1. b = d \o last
    BY <1>6 DEF last
  <2>2. SubSeq(d \o last, 1, Lead + 1) = SubSeq(d, 1, Lead + 1)
    <3>1. 1 \in 1..Len(d) + 1 /\ Lead + 1 \in 1 - 1..Len(d)
      BY <1>5, RadixFacts
    <3> QED BY <1>5, <1>7, <3>1, SubSeqOfConcat1
  <2>3. SubSeq(d, 1, Lead + 1) = d
    BY <1>5, SubSeqFull
  <2>4. (d \o last)[Lead + 2] = last[1]
    <3>1. \A i \in 1..Len(d) + Len(last) :
            (d \o last)[i] = IF i <= Len(d) THEN d[i] ELSE last[i - Len(d)]
      BY <1>5, <1>7, ConcatProperties
    <3>2. /\ Lead + 2 \in 1..Len(d) + Len(last) /\ ~(Lead + 2 <= Len(d))
          /\ (Lead + 2) - Len(d) = 1
      BY <1>5, <1>7, RadixFacts
    <3> QED BY <3>1, <3>2
  <2>5. d \o last \in Seq(Bytes)
    BY <1>5, <1>7
  <2> QED BY <1>7, <2>1, <2>2, <2>3, <2>4, <2>5
<1>9. PICK s \in Int : s = status /\ s \in -half..half - 1
  BY <1>4
<1>10. PICK q \in Int, r \in 0..2 * half - 1 : r = s % (2 * half) /\ s = 2 * half * q + r
  <2>1. 2 * half \in Nat /\ 2 * half > 0
    BY <1>3
  <2> QED BY <2>1, Division
<1> DEFINE Means(x) == (r - x) % Power[Lead + 1] = 0
<1>11. s \in -IntMax - 1..IntMax /\ Means(s)
  <2>1. r - s = (2 * half) * (-q) + 0
    BY <1>10
  <2>2. 2 * half \in Nat /\ 2 * half > 0 /\ 0 \in 0..2 * half - 1 /\ -q \in Int /\ r - s \in Int
    BY <1>3, <1>9, <1>10
  <2>3. (r - s) % (2 * half) = 0
    BY <2>1, <2>2, Quotient
  <2> QED BY <1>1, <1>4, <1>9, <2>3
<1>12. ASSUME NEW x \in -IntMax - 1..IntMax, Means(x)
       PROVE  x = s
  <2>1. x \in Int /\ x \in -half..half - 1
    BY <1>3, <1>12
  <2>2. 2 * half \in Nat /\ 2 * half > 0 /\ r - x \in Int
    BY <1>3, <2>1
  <2>3. PICK k \in Int : r - x = (2 * half) * k
    <3>1. (r - x) % (2 * half) = 0
      BY <1>4, <1>12
    <3>2. (r - x) \div (2 * half) \in Int
          /\ r - x = (2 * half) * ((r - x) \div (2 * half)) + ((r - x) % (2 * half))
      BY <2>2, Division
    <3> QED BY <2>2, <3>1, <3>2
  <2>4. PICK j \in Int : j = q + k
    OBVIOUS
  <2>5. s - x = (2 * half) * j
    <3>1. (2 * half) * j = (2 * half) * q + (2 * half) * k
      BY <2>2, <2>4
    <3>2. s = (2 * half) * q + r
      BY <1>10
    <3>3. PICK a \in Int, c \in Int : a = (2 * half) * q /\ c = (2 * half) * k
      BY <2>2
    <3>4. s = a + r /\ r - x = c
      BY <2>3, <3>2, <3>3
    <3>5. s - x = a + c
      <4>1. r \in Int /\ x \in Int
        BY <2>1
      <4> QED BY <3>4, <4>1
    <3> QED BY <3>1, <3>3, <3>5
  <2>6. s - x < 2 * half /\ s - x > -(2 * half)
    BY <1>9, <2>1
  <2>7. j = 0
    <3>1. j >= 1 => (2 * half) * j >= 2 * half
      BY <2>2
    <3>2. j <= -1 => (2 * half) * j <= -(2 * half)
      BY <2>2
    <3> QED BY <2>5, <2>6, <3>1, <3>2
  <2> QED BY <1>9, <2>1, <2>5, <2>7
<1>13. (CHOOSE x \in -IntMax - 1..IntMax : Means(x)) = s
  <2> HIDE DEF Means
  <2> QED BY <1>11, <1>12
<1>14. Weigh(SubSeq(b, 1, Lead + 1)) = r
  BY <1>5, <1>8, <1>9, <1>10
<1>15. ClientEndRequest(b) = e
  <2>1. ClientEndRequest(b) =
          [kind |-> "end", application_status |-> s, protocol_status |-> b[Lead + 2]]
    BY <1>13, <1>14, Zenon DEF ClientEndRequest
  <2> QED BY <1>1, <1>8, <1>9, <2>1
<1> QED BY <1>8, <1>15 DEF b

LEMMA UnknownWritten ==
  ASSUME NEW u \in UnknownTypes
  PROVE  /\ UnknownTypeBytes(u) \in Seq(Bytes)
         /\ [kind |-> "unknown", type |-> UnknownTypeBytes(u)[1]] = u
<1>1. u.type \in Types /\ u = [kind |-> "unknown", type |-> u.type]
  BY DEF UnknownTypes
<1>2. u.type \in Bytes /\ 0 \in Bytes
  BY <1>1, RadixFacts DEF Bytes
<1>3. UnknownTypeBytes(u) = <<u.type, 0, 0, 0, 0, 0, 0, 0>>
  BY DEF UnknownTypeBytes
<1>4. UnknownTypeBytes(u) \in Seq(Bytes) /\ UnknownTypeBytes(u)[1] = u.type
  BY <1>2, <1>3
<1> QED BY <1>1, <1>4

LEMMA NumberType ==
  ASSUME NEW n \in Fitting
  PROVE  /\ n.size \in 1..2 /\ n.host \in {"big", "little"} /\ n.kind = "number"
         /\ n.value \in 0..Power[n.size] - 1 /\ n.value \in Nat
         /\ \A v : v = n.value => [n EXCEPT !.value = v] = n
<1>1. n \in Numbers /\ n.value < Power[n.size]
  BY DEF Fitting
<1>2. n.size \in 1..2 /\ n.host \in {"big", "little"} /\ n.kind = "number" /\ n.value \in Ids
  BY <1>1 DEF Numbers
<1>3. n.value \in Nat
  BY <1>2, IdsType
<1>4. PICK w \in Nat : w = Power[n.size]
  BY <1>2, PowerFacts
<1>5. n.value \in 0..Power[n.size] - 1
  BY <1>1, <1>3, <1>4
<1>6. \A v : v = n.value => [n EXCEPT !.value = v] = n
  BY <1>1 DEF Numbers
<1> QED BY <1>2, <1>3, <1>5, <1>6

\* What a number has in memory is its digits, the first of them first, or the last.
LEMMA MemoryIs ==
  ASSUME NEW v \in Nat, NEW size \in Nat
  PROVE  /\ Memory(v, size, "big") = Places(v, size)
         /\ Reverse(Memory(v, size, "little")) = Places(v, size)
         /\ Len(Memory(v, size, "big")) = size /\ Len(Memory(v, size, "little")) = size
<1>1. Memory(v, size, "big") = Places(v, size)
  BY DEF Memory, Places
<1>2. PICK m : m = Memory(v, size, "little")
  OBVIOUS
<1>3. m = [i \in 1..size |-> Digit(v, i - 1)]
  BY <1>2 DEF Memory
<1>4. Len(m) = size
  BY <1>3
<1>5. Reverse(m) = [i \in 1..size |-> Digit(v, size - i)]
  <2>1. \A i \in 1..size : size - i + 1 \in 1..size /\ (size - i + 1) - 1 = size - i
    OBVIOUS
  <2>2. \A i \in 1..size : m[(size - i) + 1] = Digit(v, size - i)
    BY <1>3, <2>1
  <2>3. Reverse(m) = [i \in 1..size |-> m[(size - i) + 1]]
    BY <1>4 DEF Reverse
  <2> QED BY <2>2, <2>3
<1>6. Len(Places(v, size)) = size
  BY PlacesType
<1> QED BY <1>1, <1>2, <1>4, <1>5, <1>6 DEF Places

\* A number that n bytes have room for has zeros before.
LEMMA LeadingZeros ==
  ASSUME NEW n \in Nat, NEW v \in 0..Power[n] - 1, NEW m \in Nat, n <= m
  PROVE  [i \in 1..m - n |-> 0] \o Places(v, n) = Places(v, m)
<1> DEFINE zeros == [i \in 1..m - n |-> 0]
<1>1. v \in Int /\ v \in Nat
  <2>1. PICK w \in Nat : w = Power[n]
    BY PowerFacts
  <2> QED BY <2>1
<1>2. ASSUME NEW i \in Nat, n <= i PROVE Digit(v, i) = 0
  <2>1. PICK w \in Nat, x \in Nat : w = Power[i] /\ w > 0 /\ x = Power[n] /\ x <= w
    BY <1>2, PowerFacts, PowerGrows
  <2>2. v < w
    BY <2>1, <1>1
  <2>3. v = w * 0 + v /\ v \in 0..w - 1
    BY <1>1, <2>1, <2>2
  <2>4. v \div w = 0
    BY <2>1, <2>3, Quotient, <1>1
  <2>5. 0 % Radix = 0
    BY RadixFacts
  <2> QED BY <2>1, <2>4, <2>5 DEF Digit
<1>3. m - n \in Nat /\ zeros \in Seq(Nat) /\ Len(zeros) = m - n /\ \A i \in 1..m - n : zeros[i] = 0
  <2>1. m - n \in Nat
    OBVIOUS
  <2>2. PICK k \in Nat : k = m - n
    BY <2>1
  <2>3. [i \in 1..k |-> 0] \in Seq(Nat) /\ Len([i \in 1..k |-> 0]) = k /\ \A i \in 1..k : [j \in 1..k |-> 0][i] = 0
    OBVIOUS
  <2> QED BY <2>2, <2>3
<1>4. PICK a : a = Places(v, n) /\ a \in Seq(Nat) /\ Len(a) = n /\ \A i \in 1..n : a[i] = Digit(v, n - i)
  BY <1>1, PlacesType, BytesAreNumbers
<1>5. PICK b : b = Places(v, m) /\ b \in Seq(Nat) /\ Len(b) = m /\ \A i \in 1..m : b[i] = Digit(v, m - i)
  BY <1>1, PlacesType, BytesAreNumbers
<1> HIDE DEF zeros
<1>6. PICK c : c = zeros \o a
  OBVIOUS
<1>7. /\ c \in Seq(Nat) /\ Len(c) = Len(zeros) + Len(a)
      /\ \A i \in 1..Len(zeros) + Len(a) :
           c[i] = IF i <= Len(zeros) THEN zeros[i] ELSE a[i - Len(zeros)]
  BY <1>3, <1>4, <1>6, ConcatProperties
<1>8. Len(c) = m /\ \A i \in 1..m : c[i] = IF i <= m - n THEN zeros[i] ELSE a[i - (m - n)]
  <2>1. Len(zeros) + Len(a) = m /\ Len(zeros) = m - n
    BY <1>3, <1>4
  <2> QED BY <1>7, <2>1
<1>9. ASSUME NEW i \in 1..m PROVE c[i] = b[i]
  <2>1. CASE i <= m - n
    <3>1. i \in 1..m - n /\ m - i \in Nat /\ n <= m - i
      BY <2>1
    <3>2. c[i] = 0
      BY <1>3, <1>8, <2>1, <3>1
    <3> QED BY <1>2, <1>5, <3>1, <3>2
  <2>2. CASE ~(i <= m - n)
    <3>1. i - (m - n) \in 1..n /\ n - (i - (m - n)) = m - i
      BY <2>2
    <3> QED BY <1>4, <1>5, <1>8, <2>2, <3>1
  <2> QED BY <2>1, <2>2
<1>10. c = b
  BY <1>5, <1>7, <1>8, <1>9, SeqEqual
<1> QED BY <1>4, <1>5, <1>6, <1>10 DEF zeros

\* conv() to a number that may be larger,
LEMMA NumberWritten ==
  ASSUME NEW n \in Fitting, NEW dest_size \in 1..3, n.size <= dest_size
  PROVE  /\ ToNetwork(n, dest_size) \in Seq(Bytes)
         /\ [n EXCEPT !.value = Weigh(ToNetwork(n, dest_size))] = n
<1>1. /\ n.size \in 1..2 /\ n.host \in {"big", "little"} /\ n.value \in Nat
      /\ n.value \in 0..Power[n.size] - 1
  BY NumberType
<1>2. ToNetwork(n, dest_size) = [i \in 1..dest_size - n.size |-> 0] \o Places(n.value, n.size)
  <2>1. Len(Memory(n.value, n.size, n.host)) = n.size
    BY <1>1, MemoryIs
  <2>2. (IF n.host = "big" THEN Memory(n.value, n.size, n.host)
         ELSE Reverse(Memory(n.value, n.size, n.host))) = Places(n.value, n.size)
    BY <1>1, MemoryIs
  <2> QED BY <2>1, <2>2, Zenon DEF ToNetwork, Copy
<1>3. n.size \in Nat /\ dest_size \in Nat
  BY <1>1
<1>4. ToNetwork(n, dest_size) = Places(n.value, dest_size)
  BY <1>1, <1>2, <1>3, LeadingZeros
<1>5. n.value \in 0..Power[dest_size] - 1
  <2>1. PICK w \in Nat, x \in Nat : w = Power[n.size] /\ x = Power[dest_size] /\ w <= x
    BY <1>3, PowerFacts, PowerGrows
  <2> QED BY <1>1, <2>1
<1>6. Weigh(Places(n.value, dest_size)) = n.value
  BY <1>3, <1>5, PlacesKeep
<1>7. Places(n.value, dest_size) \in Seq(Bytes)
  <2>1. n.value \in Int
    BY <1>1
  <2> QED BY <1>3, <2>1, PlacesType
<1> QED BY <1>4, <1>6, <1>7, NumberType

\* and back.
LEMMA NumberRead ==
  ASSUME NEW n \in Fitting, NEW spare
  PROVE  /\ ClientBytes(n, spare) \in Seq(Bytes)
         /\ [n EXCEPT !.value = FromNetwork(ClientBytes(n, spare), n.host)] = n
<1>1. /\ n.size \in 1..2 /\ n.host \in {"big", "little"} /\ n.kind = "number"
      /\ n.value \in 0..Power[n.size] - 1
  BY NumberType
<1>2. PICK d : /\ d = Digits(n.value, n.size) /\ d \in Seq(Bytes) /\ Len(d) = n.size
               /\ FromDigits(d) = n.value
  <2>1. n.size \in Nat
    BY <1>1
  <2> QED BY <1>1, <2>1, ClientDigits
<1>3. ClientBytes(n, spare) = d
  BY <1>1, <1>2 DEF ClientBytes
<1>4. \A s \in Seq(Bytes) : [i \in 1..Len(s) - Len(s) |-> 0] \o s = s
  <2> SUFFICES ASSUME NEW s \in Seq(Bytes) PROVE [i \in 1..Len(s) - Len(s) |-> 0] \o s = s
    OBVIOUS
  <2>1. [i \in 1..Len(s) - Len(s) |-> 0] = <<>>
    OBVIOUS
  <2> QED BY <2>1, ConcatEmptySeq
<1>5. Reverse(d) \in Seq(Bytes) /\ Len(Reverse(d)) = Len(d) /\ Reverse(Reverse(d)) = d
  <2>1. Len(d) \in Nat /\ \A i \in 1..Len(d) : (Len(d) - i) + 1 \in 1..Len(d)
                             /\ (Len(d) - ((Len(d) - i) + 1)) + 1 = i
    BY <1>2
  <2>2. PICK r : r = Reverse(d)
    OBVIOUS
  <2>3. r \in Seq(Bytes) /\ Len(r) = Len(d) /\ \A i \in 1..Len(d) : r[i] = d[(Len(d) - i) + 1]
    <3>1. \A i \in 1..Len(d) : d[(Len(d) - i) + 1] \in Bytes
      BY <1>2, <2>1
    <3>2. r = [i \in 1..Len(d) |-> d[(Len(d) - i) + 1]]
      BY <2>2 DEF Reverse
    <3> QED BY <2>1, <3>1, <3>2
  <2>4. PICK t : t = Reverse(r)
    OBVIOUS
  <2>5. t \in Seq(Bytes) /\ Len(t) = Len(d) /\ \A i \in 1..Len(d) : t[i] = r[(Len(d) - i) + 1]
    <3>1. \A i \in 1..Len(d) : r[(Len(d) - i) + 1] \in Bytes
      BY <2>1, <2>3
    <3>2. t = [i \in 1..Len(d) |-> r[(Len(d) - i) + 1]]
      BY <2>3, <2>4 DEF Reverse
    <3> QED BY <2>1, <3>1, <3>2
  <2>6. \A i \in 1..Len(d) : t[i] = d[i]
    BY <2>1, <2>3, <2>5
  <2>7. t = d
    BY <1>2, <2>5, <2>6, SeqEqual
  <2> QED BY <2>2, <2>3, <2>4, <2>7
<1>6. FromNetwork(d, n.host) = FromDigits(d)
  <2>1. CASE n.host = "big"
    BY <1>2, <1>4, <2>1 DEF FromNetwork, InMemory, Copy
  <2>2. CASE n.host = "little"
    <3>1. Copy(Len(d), d, n.host) = Reverse(d)
      <4>1. [i \in 1..Len(d) - Len(d) |-> 0] \o Reverse(d) = Reverse(d)
        BY <1>4, <1>5
      <4> QED BY <2>2, <4>1 DEF Copy
    <3> QED BY <1>5, <2>2, <3>1 DEF FromNetwork, InMemory
  <2> QED BY <1>1, <2>1, <2>2
<1> QED BY <1>2, <1>3, <1>6, NumberType

-----------------------------------------------------------------------------
(* Types, and what the records carry.                                      *)

Pairs == [name : Seq(Bytes), value : Seq(Bytes)]

\* The bytes behind position, and none are left but in a stream.
StreamTypes ==
  /\ stage \in {"idle", "to client", "to library", "read", "lengths", "complete", "refused"}
  /\ wire \in Seq(Bytes)
  /\ position \in 0..Len(wire)
  /\ lengths \in Seq(0..IntMax) /\ Len(lengths) <= 2
  /\ pairs \in Seq(Pairs)
  /\ stage \in {"idle", "to client", "to library", "read"} => position = 0

LEMMA IntMaxType == IntMax \in Nat /\ IntMax + 1 = High * Power[Lead] /\ High <= IntMax + 1
<1>1. PICK w \in Nat : w = Power[Lead] /\ w > 0
  BY PowerFacts, RadixFacts
<1>2. PICK x \in Nat : x = High * w /\ x >= High /\ x >= 2
  BY <1>1, RadixFacts
<1>3. IntMax = x - 1
  BY <1>1, <1>2 DEF IntMax
<1>4. IntMax \in Nat /\ IntMax + 1 = x /\ High <= IntMax + 1
  BY <1>2, <1>3
<1> QED BY <1>1, <1>2, <1>4

LEMMA LenType ==
  ASSUME NEW V, NEW s \in Seq(V)
  PROVE  Len(s) \in Nat
OBVIOUS

LEMMA ElementType ==
  ASSUME NEW V, NEW s \in Seq(V), NEW i \in 1..Len(s)
  PROVE  s[i] \in V
OBVIOUS

\* t is n elements of s, behind the first m.
Slice(V, s, m, n, t) ==
  t \in Seq(V) /\ Len(t) = n /\ \A i \in 1..n : t[i] = s[m + i]

LEMMA SliceType ==
  ASSUME NEW V, NEW s \in Seq(V), NEW m \in Nat, NEW n \in Nat, m + n <= Len(s)
  PROVE  Slice(V, s, m, n, SubSeq(s, m + 1, m + n))
<1>1. \A i \in m + 1..m + n : s[i] \in V
  OBVIOUS
<1>2. PICK t : t = SubSeq(s, m + 1, m + n)
  OBVIOUS
<1>3. /\ t \in Seq(V) /\ Len(t) = IF m + 1 <= m + n THEN m + n - (m + 1) + 1 ELSE 0
      /\ \A i \in 1..m + n - (m + 1) + 1 : t[i] = s[m + 1 + i - 1]
  BY <1>1, <1>2, SubSeqProperties
<1>4. m + n - (m + 1) + 1 = n /\ \A i \in 1..n : m + 1 + i - 1 = m + i
  OBVIOUS
<1>5. Len(t) = n /\ \A i \in 1..n : t[i] = s[m + i]
  <2>1. Len(t) = n
    BY <1>3, <1>4
  <2>2. ASSUME NEW i \in 1..n PROVE t[i] = s[m + i]
    <3>1. i \in 1..m + n - (m + 1) + 1 /\ m + 1 + i - 1 = m + i
      OBVIOUS
    <3> QED BY <1>3, <3>1
  <2> QED BY <2>1, <2>2
<1> QED BY <1>2, <1>3, <1>5 DEF Slice

\* The bytes of a length, without the bit that tells how many they are.
Cleared(bytes) == [bytes EXCEPT ![1] = bytes[1] % High]

IsCleared(bytes, digits) ==
  /\ digits \in Seq(Bytes) /\ Len(digits) = Len(bytes)
  /\ digits[1] = bytes[1] % High /\ digits[1] \in 0..High - 1
  /\ \A i \in 2..Len(bytes) : digits[i] = bytes[i]

\* The bit that tells how many bytes a length has is not a part of it.
LEMMA ClearedType ==
  ASSUME NEW bytes \in Seq(Bytes), bytes # <<>>
  PROVE  IsCleared(bytes, Cleared(bytes))
<1>1. bytes[1] \in Nat /\ 1 \in 1..Len(bytes)
  BY RadixFacts DEF Bytes
<1>2. bytes[1] % High \in 0..High - 1 /\ High > 0
  BY <1>1, RadixFacts
<1>3. bytes[1] % High \in Bytes
  BY <1>2, RadixFacts DEF Bytes
<1> QED BY <1>1, <1>2, <1>3 DEF Cleared, IsCleared

\* A length fits in an int.
LEMMA ClearedBound ==
  ASSUME NEW bytes \in Seq(Bytes), Len(bytes) \in 1..Lead + 1
  PROVE  FromDigits(Cleared(bytes)) \in 0..IntMax
<1>1. PICK d : d = Cleared(bytes) /\ d \in Seq(Bytes) /\ Len(d) = Len(bytes) /\ d[1] \in 0..High - 1
  BY ClearedType DEF IsCleared
<1>2. FromDigits(d) \in Nat /\ FromDigits(d) < (d[1] + 1) * Power[Len(d) - 1]
  BY <1>1, FirstDigitBounds
<1>3. PICK w \in Nat, x \in Nat : w = Power[Len(d) - 1] /\ x = Power[Lead] /\ w <= x
  <2>1. Len(d) - 1 \in Nat /\ Len(d) - 1 <= Lead
    BY <1>1, RadixFacts
  <2> QED BY <2>1, PowerFacts, PowerGrows, RadixFacts
<1>4. (d[1] + 1) * w <= High * x
  <2>1. PICK a \in Nat : a = d[1] + 1 /\ a <= High
    BY <1>1, RadixFacts
  <2>2. PICK p \in Nat, q \in Nat, t \in Nat : p = a * w /\ q = High * w /\ t = High * x
    BY RadixFacts
  <2>3. p <= q /\ q <= t
    <3>1. \A i, j, k \in Nat : i <= j => i * k <= j * k
      OBVIOUS
    <3>2. \A i, j, k \in Nat : i <= j => k * i <= k * j
      OBVIOUS
    <3> QED BY <1>3, <2>1, <2>2, <3>1, <3>2, RadixFacts
  <2>4. p <= t
    BY <2>3
  <2> QED BY <2>1, <2>2, <2>4
<1>5. PICK y \in Nat : y = IntMax + 1 /\ y = High * x
  BY <1>3, IntMaxType
<1> QED BY <1>1, <1>2, <1>3, <1>4, <1>5, IntMaxType

LEMMA StreamType ==
  ASSUME StreamTypes
  PROVE  /\ wire \in Seq(Bytes) /\ Len(wire) \in Nat /\ position \in 0..Len(wire)
         /\ lengths \in Seq(0..IntMax) /\ Len(lengths) \in 0..2
<1>1. /\ wire \in Seq(Bytes) /\ position \in 0..Len(wire)
      /\ lengths \in Seq(0..IntMax) /\ Len(lengths) <= 2
  BY Zenon DEF StreamTypes
<1>2. Len(wire) \in Nat
  BY <1>1
<1>3. Len(lengths) \in Nat
  BY <1>1, LenType, Zenon
<1>4. Len(lengths) \in 0..2
  <2>1. PICK n \in Nat : n = Len(lengths) /\ n <= 2
    BY <1>1, <1>3, Zenon
  <2>2. n \in 0..2
    BY <2>1
  <2> QED BY <2>1, <2>2, Zenon
<1> QED BY <1>1, <1>2, <1>4, Zenon

\* read_length() takes bytes there are, and a length that int has room for.
LEMMA LengthType ==
  ASSUME StreamTypes, Left > 0, Left >= LengthSize
  PROVE  /\ LengthSize \in 1..Lead + 1 /\ position + LengthSize \in 0..Len(wire)
         /\ Length = FromDigits(Cleared(SubSeq(wire, position + 1, position + LengthSize)))
         /\ Length \in 0..IntMax
<1>1. LengthSize \in 1..Lead + 1 /\ position \in Nat /\ position + LengthSize \in 0..Len(wire)
  <2>1. PICK l \in Nat : l = Len(wire) /\ position \in 0..l
    BY StreamType
  <2>2. LengthSize \in {1, 1 + Lead}
    BY DEF LengthSize
  <2>3. LengthSize <= l - position
    BY <2>1 DEF Left
  <2> QED BY <2>1, <2>2, <2>3, RadixFacts
<1>2. PICK bytes : bytes = SubSeq(wire, position + 1, position + LengthSize)
  OBVIOUS
<1>3. bytes \in Seq(Bytes) /\ Len(bytes) = LengthSize
  <2>1. LengthSize \in Nat /\ wire \in Seq(Bytes) /\ position + LengthSize <= Len(wire)
    <3>1. wire \in Seq(Bytes) /\ Len(wire) \in Nat
      BY StreamType
    <3> QED BY <1>1, <3>1, RadixFacts
  <2> QED BY <1>1, <1>2, <2>1, SliceType DEF Slice
<1>4. Length = FromDigits(Cleared(bytes))
  BY <1>2, Zenon DEF Length, Cleared
<1>5. FromDigits(Cleared(bytes)) \in 0..IntMax
  BY <1>1, <1>3, ClearedBound
<1> QED BY <1>1, <1>2, <1>4, <1>5

\* Where the data of a pair is taken, it is as long as both lengths say.
LEMMA CountType ==
  ASSUME StreamTypes, Len(lengths) = 2, Count \in 0..Left
  PROVE  /\ lengths[1] \in 0..IntMax /\ lengths[2] \in 0..IntMax /\ Count = lengths[1] + lengths[2]
         /\ position + Count \in 0..Len(wire)
<1>1. lengths[1] \in 0..IntMax /\ lengths[2] \in 0..IntMax
  <2>1. lengths \in Seq(0..IntMax) /\ 1 \in 1..Len(lengths) /\ 2 \in 1..Len(lengths)
    BY StreamType
  <2> QED BY <2>1, ElementType
<1>2. PICK a \in 0..IntMax, b \in 0..IntMax : a = lengths[1] /\ b = lengths[2]
  BY <1>1
<1>3. Count = a + b
  BY <1>2, IntMaxType DEF Count
<1>4. position + Count \in 0..Len(wire)
  <2>1. PICK l \in Nat : l = Len(wire) /\ position \in 0..l
    BY StreamType
  <2>2. PICK c \in Nat : c = Count /\ c <= l - position
    BY <2>1 DEF Left
  <2> QED BY <2>1, <2>2
<1> QED BY <1>2, <1>3, <1>4

\* A pair is all of its data.
LEMMA PairType ==
  ASSUME NEW data \in Seq(Bytes), NEW a \in Nat, a = lengths[1], a <= Len(data)
  PROVE  /\ PairOf(data) \in Pairs
         /\ Len(PairOf(data).name) = a /\ Len(PairOf(data).value) = Len(data) - a
         /\ PairOf(data).name \o PairOf(data).value = data
<1>1. PICK n : n = SubSeq(data, 1, a) /\ n \in Seq(Bytes) /\ Len(n) = a
  <2>1. 0 \in Nat /\ 0 + 1 = 1 /\ 0 + a = a
    OBVIOUS
  <2>2. SubSeq(data, 0 + 1, 0 + a) \in Seq(Bytes) /\ Len(SubSeq(data, 0 + 1, 0 + a)) = a
    BY <2>1, SliceType DEF Slice
  <2> QED BY <2>1, <2>2
<1>2. PICK v : v = SubSeq(data, a + 1, Len(data)) /\ v \in Seq(Bytes) /\ Len(v) = Len(data) - a
  <2>1. PICK k \in Nat : k = Len(data) - a /\ a + k = Len(data)
    OBVIOUS
  <2>2. SubSeq(data, a + 1, a + k) \in Seq(Bytes) /\ Len(SubSeq(data, a + 1, a + k)) = k
    <3>1. k \in Nat /\ a \in Nat /\ a + k <= Len(data)
      BY <2>1
    <3>2. Slice(Bytes, data, a, k, SubSeq(data, a + 1, a + k))
      BY <3>1, SliceType
    <3> QED BY <3>2 DEF Slice
  <2> QED BY <2>1, <2>2
<1>3. PICK p : p = PairOf(data) /\ p \in Pairs /\ p.name = n /\ p.value = v
  <2>1. PairOf(data) = [name |-> n, value |-> v]
    BY <1>1, <1>2, Zenon DEF PairOf
  <2>2. [name |-> n, value |-> v] \in Pairs
    BY <1>1, <1>2 DEF Pairs
  <2> QED BY <2>1, <2>2
<1>4. n \o v = data
  <2>1. 1 \in 1..Len(data) + 1 /\ a \in 1 - 1..Len(data) /\ Len(data) \in a..Len(data)
    OBVIOUS
  <2>2. n \o v = SubSeq(data, 1, Len(data))
    BY <1>1, <1>2, <2>1, ConcatAdjacentSubSeq
  <2> QED BY <2>2, SubSeqFull
<1> QED BY <1>1, <1>2, <1>3, <1>4

\* ReadData's piece of the stream, and its pair.
LEMMA DataType ==
  ASSUME StreamTypes, Len(lengths) = 2, Count \in 0..Left
  PROVE  PairOf(SubSeq(wire, position + 1, position + Count)) \in Pairs
<1>1. PICK a \in Nat, b \in Nat : a = lengths[1] /\ b = lengths[2] /\ Count = a + b
  BY CountType, IntMaxType
<1>2. PICK data : /\ data = SubSeq(wire, position + 1, position + Count)
                  /\ data \in Seq(Bytes) /\ Len(data) = a + b
  <2>1. /\ position \in Nat /\ Count \in Nat /\ position + Count <= Len(wire)
        /\ wire \in Seq(Bytes)
    BY <1>1, CountType, StreamType
  <2>2. Slice(Bytes, wire, position, Count, SubSeq(wire, position + 1, position + Count))
    BY <2>1, SliceType
  <2> QED BY <1>1, <2>2 DEF Slice
<1>3. a <= Len(data)
  BY <1>2
<1> QED BY <1>1, <1>2, <1>3, PairType

\* What the other side will make of the bytes is what was meant.
Carried ==
  /\ stage = "to client" =>
       /\ sent.kind \in {"header", "end", "unknown", "number"}
       /\ sent.kind = "header" => sent.version = 1 /\ ClientHeader(wire) = sent
       /\ sent.kind = "end" => ClientEndRequest(wire) = sent
       /\ sent.kind = "unknown" => [kind |-> "unknown", type |-> wire[1]] = sent
       /\ sent.kind = "number" => [sent EXCEPT !.value = Weigh(wire)] = sent
  /\ stage = "to library" =>
       /\ sent.kind \in {"header", "begin", "number"}
       /\ sent.kind = "header" => HeaderOf(wire) = IF sent.version = 1 THEN sent ELSE Refused
       /\ sent.kind = "begin" => BeginRequestOf(wire) = sent
       /\ sent.kind = "number" => [sent EXCEPT !.value = FromNetwork(wire, sent.host)] = sent

\* Which record it is, its kind tells.
LEMMA Kinds ==
  /\ \A h \in Headers : h.kind = "header"
  /\ \A r \in BeginRequests : r.kind = "begin"
  /\ \A e \in EndRequests : e.kind = "end"
  /\ \A u \in UnknownTypes : u.kind = "unknown"
  /\ \A n \in Fitting : n.kind = "number"
<1>1. \A n \in Fitting : n.kind = "number"
  BY NumberType
<1> QED BY <1>1 DEF Headers, BeginRequests, EndRequests, UnknownTypes

\* Both writers write what is meant.
LEMMA LibraryMeans ==
  ASSUME LibraryWrites
  PROVE  wire' \in Seq(Bytes) /\ Carried'
<1>0. stage' = "to client"
  BY DEF LibraryWrites
<1>1. CASE \E h \in Headers : h.version = 1 /\ sent' = h /\ wire' = HeaderBytes(h)
  <2>1. PICK h \in Headers : h.version = 1 /\ sent' = h /\ wire' = HeaderBytes(h)
    BY <1>1
  <2>2. wire' \in Seq(Bytes) /\ ClientHeader(HeaderBytes(h)) = h /\ h.kind = "header"
    BY <2>1, HeaderWritten, Kinds
  <2>3. ClientHeader(wire)' = sent'
    <3>1. ClientHeader(wire)' = ClientHeader(wire')
      BY DEF ClientHeader, Weigh
    <3> QED BY <2>1, <2>2, <3>1
  <2> QED BY <1>0, <2>1, <2>2, <2>3 DEF Carried
<1>2. CASE \E e \in EndRequests : sent' = e /\ wire' = EndRequestBytes(e)
  <2>1. PICK e \in EndRequests : sent' = e /\ wire' = EndRequestBytes(e)
    BY <1>2
  <2>2. wire' \in Seq(Bytes) /\ ClientEndRequest(EndRequestBytes(e)) = e /\ e.kind = "end"
    BY <2>1, EndWritten, Kinds
  <2> QED BY <1>0, <2>1, <2>2 DEF Carried
<1>3. CASE \E u \in UnknownTypes : sent' = u /\ wire' = UnknownTypeBytes(u)
  <2>1. PICK u \in UnknownTypes : sent' = u /\ wire' = UnknownTypeBytes(u)
    BY <1>3
  <2>2. /\ wire' \in Seq(Bytes) /\ u.kind = "unknown"
        /\ [kind |-> "unknown", type |-> UnknownTypeBytes(u)[1]] = u
    BY <2>1, UnknownWritten, Kinds
  <2> QED BY <1>0, <2>1, <2>2 DEF Carried
<1>4. CASE \E n \in Fitting, dest_size \in 1..3 :
             n.size <= dest_size /\ sent' = n /\ wire' = ToNetwork(n, dest_size)
  <2>1. PICK n \in Fitting, dest_size \in 1..3 :
          n.size <= dest_size /\ sent' = n /\ wire' = ToNetwork(n, dest_size)
    BY <1>4
  <2>2. /\ wire' \in Seq(Bytes) /\ n.kind = "number"
        /\ [n EXCEPT !.value = Weigh(ToNetwork(n, dest_size))] = n
    BY <2>1, NumberWritten, Kinds
  <2> QED BY <1>0, <2>1, <2>2 DEF Carried
<1> QED BY <1>1, <1>2, <1>3, <1>4 DEF LibraryWrites

LEMMA ClientMeans ==
  ASSUME ClientWrites
  PROVE  wire' \in Seq(Bytes) /\ Carried'
<1>1. stage' = "to library"
  BY DEF ClientWrites
<1>2. PICK r \in Headers \cup BeginRequests \cup Fitting, spare \in Bytes :
        sent' = r /\ wire' = ClientBytes(r, spare)
  <2>1. 0 \in Bytes /\ Radix - 1 \in Bytes
    BY RadixFacts DEF Bytes
  <2> QED BY <2>1, Zenon DEF ClientWrites
<1>3. CASE r \in Headers
  <2>1. /\ wire' \in Seq(Bytes) /\ r.kind = "header"
        /\ HeaderOf(wire') = IF r.version = 1 THEN r ELSE Refused
    BY <1>2, <1>3, HeaderRead, Kinds
  <2> QED BY <1>1, <1>2, <2>1 DEF Carried
<1>4. CASE r \in BeginRequests
  <2>1. wire' \in Seq(Bytes) /\ r.kind = "begin" /\ BeginRequestOf(wire') = r
    BY <1>2, <1>4, BeginRead, Kinds
  <2> QED BY <1>1, <1>2, <2>1 DEF Carried
<1>5. CASE r \in Fitting
  <2>1. /\ wire' \in Seq(Bytes) /\ r.kind = "number"
        /\ [r EXCEPT !.value = FromNetwork(wire', r.host)] = r
    BY <1>2, <1>5, NumberRead, Kinds
  <2> QED BY <1>1, <1>2, <2>1 DEF Carried
<1> QED BY <1>2, <1>3, <1>4, <1>5

CodecsInv == StreamTypes /\ Carried /\ RecordsCarryValues

LEMMA CodecsInit == Init => CodecsInv
<1> SUFFICES ASSUME Init PROVE CodecsInv
  OBVIOUS
<1>1. wire \in Seq(Bytes) /\ Len(wire) = 0 /\ lengths \in Seq(0..IntMax) /\ Len(lengths) = 0
      /\ pairs \in Seq(Pairs) /\ position = 0 /\ stage = "idle"
  BY DEF Init
<1>2. position \in 0..Len(wire) /\ Len(lengths) <= 2
  BY <1>1
<1>3. StreamTypes
  BY <1>1, <1>2, Zenon DEF StreamTypes
<1> QED BY <1>1, <1>3 DEF CodecsInv, Carried, RecordsCarryValues

LEMMA CodecsNext == CodecsInv /\ [Next]_vars => CodecsInv'
<1> SUFFICES ASSUME CodecsInv, [Next]_vars PROVE CodecsInv'
  OBVIOUS
<1> USE DEF CodecsInv
<1>0. /\ wire \in Seq(Bytes) /\ position \in 0..Len(wire) /\ Len(wire) \in Nat
      /\ lengths \in Seq(0..IntMax) /\ Len(lengths) \in 0..2 /\ Len(lengths) <= 2
      /\ pairs \in Seq(Pairs)
      /\ stage \in {"idle", "to client", "to library", "read"} => position = 0
  BY StreamType, Zenon DEF StreamTypes
<1>1. CASE LibraryWrites
  <2>1. wire' \in Seq(Bytes) /\ Carried'
    BY <1>1, LibraryMeans
  <2>2. stage = "idle" /\ stage' = "to client" /\ UNCHANGED <<position, lengths, pairs>>
    BY <1>1 DEF LibraryWrites, streamVars
  <2>3. position' \in 0..Len(wire')
    <3>1. position' = 0 /\ wire' \in Seq(Bytes)
      BY <1>0, <2>1, <2>2, Zenon
    <3> QED BY <3>1
  <2>4. StreamTypes'
    BY <1>0, <2>1, <2>2, <2>3, Zenon DEF StreamTypes
  <2> QED BY <2>1, <2>2, <2>4 DEF RecordsCarryValues
<1>2. CASE ClientReads
  <2>1. /\ stage = "to client" /\ stage' = "read"
        /\ UNCHANGED <<sent, wire, position, lengths, pairs>>
    BY <1>2 DEF ClientReads, streamVars
  <2>2. got' = IF sent.kind = "header" /\ sent.version # 1 THEN Refused ELSE sent
    <3>1. CASE sent.kind = "header"
      <4>1. got' = ClientHeader(wire)
        BY <1>2, <3>1 DEF ClientReads
      <4> QED BY <2>1, <3>1, <4>1 DEF Carried
    <3>2. CASE sent.kind = "end"
      <4>1. got' = ClientEndRequest(wire)
        BY <1>2, <3>2 DEF ClientReads
      <4> QED BY <2>1, <3>2, <4>1 DEF Carried
    <3>3. CASE sent.kind = "unknown"
      <4>1. got' = [kind |-> "unknown", type |-> wire[1]]
        BY <1>2, <3>3 DEF ClientReads
      <4> QED BY <2>1, <3>3, <4>1 DEF Carried
    <3>4. CASE sent.kind = "number"
      <4>1. got' = [sent EXCEPT !.value = Weigh(wire)]
        BY <1>2, <3>4 DEF ClientReads
      <4> QED BY <2>1, <3>4, <4>1 DEF Carried
    <3> QED BY <2>1, <3>1, <3>2, <3>3, <3>4 DEF Carried
  <2>3. StreamTypes'
    BY <1>0, <2>1, Zenon DEF StreamTypes
  <2> QED BY <2>1, <2>2, <2>3 DEF Carried, RecordsCarryValues
<1>3. CASE ClientWrites
  <2>1. wire' \in Seq(Bytes) /\ Carried'
    BY <1>3, ClientMeans
  <2>2. stage = "idle" /\ stage' = "to library" /\ UNCHANGED <<position, lengths, pairs>>
    BY <1>3 DEF ClientWrites, streamVars
  <2>3. position' \in 0..Len(wire')
    <3>1. position' = 0 /\ wire' \in Seq(Bytes)
      BY <1>0, <2>1, <2>2, Zenon
    <3> QED BY <3>1
  <2>4. StreamTypes'
    BY <1>0, <2>1, <2>2, <2>3, Zenon DEF StreamTypes
  <2> QED BY <2>1, <2>2, <2>4 DEF RecordsCarryValues
<1>4. CASE LibraryReads
  <2>1. /\ stage = "to library" /\ stage' = "read"
        /\ UNCHANGED <<sent, wire, position, lengths, pairs>>
    BY <1>4 DEF LibraryReads, streamVars
  <2>2. got' = IF sent.kind = "header" /\ sent.version # 1 THEN Refused ELSE sent
    <3>1. CASE sent.kind = "header"
      <4>1. got' = HeaderOf(wire)
        BY <1>4, <3>1 DEF LibraryReads
      <4> QED BY <2>1, <3>1, <4>1 DEF Carried
    <3>2. CASE sent.kind = "begin"
      <4>1. got' = BeginRequestOf(wire)
        BY <1>4, <3>2 DEF LibraryReads
      <4> QED BY <2>1, <3>2, <4>1 DEF Carried
    <3>3. CASE sent.kind = "number"
      <4>1. got' = [sent EXCEPT !.value = FromNetwork(wire, sent.host)]
        BY <1>4, <3>3 DEF LibraryReads
      <4> QED BY <2>1, <3>3, <4>1 DEF Carried
    <3> QED BY <2>1, <3>1, <3>2, <3>3 DEF Carried
  <2>3. StreamTypes'
    BY <1>0, <2>1, Zenon DEF StreamTypes
  <2> QED BY <2>1, <2>2, <2>3 DEF Carried, RecordsCarryValues
<1>5. CASE ClientStreams
  <2>1. stage = "idle" /\ stage' = "lengths" /\ UNCHANGED <<position, lengths, pairs>>
    BY <1>5 DEF ClientStreams, streamVars
  <2>2. wire' \in Seq(Bytes)
    BY <1>5 DEF ClientStreams, BoundedSeq, SeqOf
  <2>3. position' \in 0..Len(wire')
    BY <1>0, <2>1, <2>2
  <2>4. StreamTypes'
    BY <1>0, <2>1, <2>2, <2>3, Zenon DEF StreamTypes
  <2> QED BY <2>1, <2>4 DEF Carried, RecordsCarryValues
<1>6. CASE ReadLength
  <2>1. /\ stage = "lengths" /\ Len(lengths) < 2 /\ Left > 0 /\ Left >= LengthSize
        /\ lengths' = Append(lengths, Length) /\ position' = position + LengthSize
        /\ UNCHANGED <<stage, sent, wire, got, pairs>>
    BY <1>6 DEF ReadLength
  <2>2. position + LengthSize \in 0..Len(wire) /\ Length \in 0..IntMax
    BY <2>1, LengthType
  <2>3. lengths' \in Seq(0..IntMax) /\ Len(lengths') = Len(lengths) + 1
    BY <1>0, <2>1, <2>2, AppendProperties, Zenon
  <2>4. Len(lengths') <= 2
    BY <1>0, <2>1, <2>3
  <2>5. StreamTypes'
    BY <1>0, <2>1, <2>2, <2>3, <2>4, Zenon DEF StreamTypes
  <2> QED BY <2>1, <2>5 DEF Carried, RecordsCarryValues
<1>7. CASE StreamEnds \/ LengthMissing \/ DataMissing
  <2>1. /\ stage = "lengths" /\ stage' \in {"complete", "refused"}
        /\ UNCHANGED <<sent, wire, got, position, lengths, pairs>>
    BY <1>7 DEF StreamEnds, LengthMissing, DataMissing, streamVars
  <2>2. StreamTypes'
    BY <1>0, <2>1, Zenon DEF StreamTypes
  <2> QED BY <2>1, <2>2 DEF Carried, RecordsCarryValues
<1>8. CASE ReadData
  <2>1. /\ stage = "lengths" /\ Len(lengths) = 2 /\ Count \in 0..Left
        /\ pairs' = Append(pairs, PairOf(SubSeq(wire, position + 1, position + Count)))
        /\ position' = position + Count /\ lengths' = <<>>
        /\ UNCHANGED <<stage, sent, wire, got>>
    BY <1>8 DEF ReadData
  <2>2. position + Count \in 0..Len(wire)
    BY <2>1, CountType
  <2>3. pairs' \in Seq(Pairs)
    BY <1>0, <2>1, DataType, AppendProperties
  <2>4. lengths' \in Seq(0..IntMax) /\ Len(lengths') = 0
    BY <2>1
  <2>5. Len(lengths') <= 2
    BY <2>4
  <2>6. StreamTypes'
    BY <1>0, <2>1, <2>2, <2>3, <2>4, <2>5, Zenon DEF StreamTypes
  <2> QED BY <2>1, <2>6 DEF Carried, RecordsCarryValues
<1>9. CASE UNCHANGED vars
  BY <1>9 DEF vars, StreamTypes, Carried, RecordsCarryValues
<1> QED BY <1>1, <1>2, <1>3, <1>4, <1>5, <1>6, <1>7, <1>8, <1>9 DEF Next

LEMMA CodecsAlways == Spec => []CodecsInv
BY CodecsInit, CodecsNext, PTL DEF Spec

\* The variables have their types: no byte is read behind the end of a stream, and no
\* length is negative or more than an int has room for (fcgi/basics.cpp, 341-404).
THEOREM TypeCorrect == Spec => []TypeOK
<1>1. CodecsInv => TypeOK
  BY Zenon DEF CodecsInv, StreamTypes, TypeOK, Pairs
<1> QED BY <1>1, CodecsAlways, PTL

\* Every record means for its reader what it means for its writer, for every request_id,
\* length, role and status, and whatever size a byte has; numbers survive conv() on hosts of
\* both orders (fcgi/basics.cpp, 128-174 and 217-308, net/conversions.hpp, 37-95).
THEOREM RecordsAreUnderstood == Spec => []RecordsCarryValues
<1>1. CodecsInv => RecordsCarryValues
  BY DEF CodecsInv
<1> QED BY <1>1, CodecsAlways, PTL

-----------------------------------------------------------------------------
(* Lookup.                                                                 *)

FirstNamed(ps, name, m) ==
  /\ m \in DOMAIN ps /\ ps[m].name = name
  /\ \A j \in DOMAIN ps : ps[j].name = name => m <= j

\* A name that some pair has, some pair has first.
LEMMA SomeFirst ==
  ASSUME NEW ps \in Seq(Pairs), NEW name, NEW i \in DOMAIN ps, ps[i].name = name
  PROVE  \E m : FirstNamed(ps, name, m)
<1> DEFINE S == {j \in DOMAIN ps : ps[j].name = name}
<1>1. S \in SUBSET Nat /\ S # {}
  OBVIOUS
<1>2. PICK m \in S : \A j \in S : m <= j
  <2> HIDE DEF S
  <2> QED BY <1>1, Least
<1> QED BY <1>2 DEF FirstNamed

\* The first pair is still the first with a pair more.
LEMMA FirstStays ==
  ASSUME NEW ps \in Seq(Pairs), NEW name, NEW m, FirstNamed(ps, name, m), NEW p \in Pairs
  PROVE  FirstNamed(Append(ps, p), name, m) /\ Append(ps, p)[m] = ps[m]
BY DEF FirstNamed

\* pair_index(), of any pairs.
IndexIn(ps, name) ==
  LET named == {i \in DOMAIN ps : ps[i].name = name}
  IN IF named = {} THEN 0 ELSE CHOOSE i \in named : \A j \in named : i <= j

\* What pair_index() chooses is the first.
LEMMA FirstFound ==
  ASSUME NEW ps \in Seq(Pairs), NEW name, NEW m, FirstNamed(ps, name, m)
  PROVE  IndexIn(ps, name) = m /\ m # 0
<1> DEFINE named == {i \in DOMAIN ps : ps[i].name = name}
<1>1. named \subseteq Nat /\ m \in named /\ (\A j \in named : m <= j) /\ m # 0
  BY DEF FirstNamed
<1> HIDE DEF named
<1>2. \A i \in named : (\A j \in named : i <= j) => i = m
  BY <1>1
<1>3. (CHOOSE i \in named : \A j \in named : i <= j) = m
  BY <1>1, <1>2
<1>4. IndexIn(ps, name) = IF named = {} THEN 0 ELSE CHOOSE i \in named : \A j \in named : i <= j
  BY DEF IndexIn, named
<1> QED BY <1>1, <1>3, <1>4

LEMMA ParameterIs ==
  ASSUME pairs \in Seq(Pairs), NEW name, NEW m, FirstNamed(pairs, name, m)
  PROVE  parameter(name) = pairs[m].value
<1>1. pair_index(name) = m /\ m # 0
  <2>1. pair_index(name) = IndexIn(pairs, name)
    BY DEF pair_index, IndexIn
  <2> QED BY <2>1, FirstFound
<1> QED BY <1>1, Zenon DEF parameter

\* However many pairs follow, parameter() returns the value of the first of its name
\* (server_connection.cpp, 48-72, fcgi/basics.cpp, 435-444).
THEOREM FirstValuesStand == Spec => FirstValueStands
<1> DEFINE Names == {pairs[i].name : i \in DOMAIN pairs}
           Stand == \A name \in Names : parameter(name)' = parameter(name)
<1>1. CodecsInv /\ CodecsInv' /\ [Next]_vars => [Stand]_vars
  <2> SUFFICES ASSUME CodecsInv, CodecsInv', Next, NEW name \in Names
               PROVE  parameter(name)' = parameter(name)
    OBVIOUS
  <2>1. pairs \in Seq(Pairs) /\ pairs' \in Seq(Pairs)
    BY Zenon DEF CodecsInv, StreamTypes
  <2>2. CASE pairs' = pairs
    BY <2>2 DEF parameter, pair_index
  <2>3. CASE ReadData
    <3>1. pairs' = Append(pairs, PairOf(SubSeq(wire, position + 1, position + Count)))
      BY <2>3 DEF ReadData
    <3>2. PICK p \in Pairs : pairs' = Append(pairs, p)
      <4>1. Len(lengths) = 2 /\ Count \in 0..Left
        BY <2>3 DEF ReadData
      <4> QED BY <3>1, <4>1, DataType DEF CodecsInv
    <3>3. PICK m : FirstNamed(pairs, name, m)
      BY <2>1, SomeFirst
    <3>4. parameter(name) = pairs[m].value
      BY <2>1, <3>3, ParameterIs
    <3>5. FirstNamed(pairs', name, m) /\ pairs'[m] = pairs[m]
      BY <2>1, <3>2, <3>3, FirstStays
    <3>6. pair_index(name)' = m /\ m # 0
      <4>1. pair_index(name)' = IndexIn(pairs', name)
        BY DEF pair_index, IndexIn
      <4> QED BY <2>1, <3>5, <4>1, FirstFound
    <3>7. parameter(name)' = pairs'[m].value
      BY <3>6, Zenon DEF parameter
    <3> QED BY <3>4, <3>5, <3>7
  <2>4. pairs' = pairs \/ ReadData
    BY DEF Next, LibraryWrites, ClientReads, ClientWrites, LibraryReads, ClientStreams,
           ReadLength, StreamEnds, LengthMissing, DataMissing, streamVars
  <2> QED BY <2>2, <2>3, <2>4
<1> QED BY <1>1, CodecsAlways, PTL DEF Spec, FirstValueStands

-----------------------------------------------------------------------------
(* The stream.  A length is written in one way or in two, and what is at a   *)
(* place of the stream is at most one length.                              *)

SizeAt(s, k) == IF s[k + 1] < High THEN 1 ELSE 1 + Lead

LengthAt(s, k) == FromDigits(Cleared(SubSeq(s, k + 1, k + SizeAt(s, k))))

WholeLength(s, k) == k < Len(s) /\ k + SizeAt(s, k) <= Len(s)

LEMMA SizeType ==
  ASSUME NEW s, NEW k
  PROVE  SizeAt(s, k) \in 1..Lead + 1 /\ SizeAt(s, k) \in {1, Lead + 1}
BY RadixFacts DEF SizeAt

\* The bit, and what is left without.
LEMMA BelowHigh ==
  ASSUME NEW x \in 0..High - 1
  PROVE  x % High = x /\ (High + x) % High = x
<1>1. High \in Nat /\ High > 0 /\ x \in Int
  BY RadixFacts
<1>2. x = High * 0 + x /\ High + x = High * 1 + x /\ High + x \in Int
  BY <1>1
<1>3. x % High = x
  BY <1>1, <1>2, Quotient
<1>4. (High + x) % High = x
  BY <1>1, <1>2, Quotient
<1> QED BY <1>3, <1>4

LEMMA OneDigit ==
  ASSUME NEW d \in Seq(Bytes), Len(d) = 1
  PROVE  FromDigits(d) = d[1]
<1>1. d \in Seq(Nat) /\ d[1] \in Nat
  <2>1. d \in Seq(Nat)
    BY BytesAreNumbers
  <2> QED BY <2>1
<1>2. PICK read : Reads(d, read) /\ FromDigits(d) = read[Len(d)]
  BY <1>1, FromDigitsIs
<1>3. read[0] = 0 /\ read[1] = Radix * read[0] + d[1]
  <2>1. 1 \in 1..Len(d) /\ 1 - 1 = 0
    OBVIOUS
  <2> QED BY <1>2, <2>1 DEF Reads
<1> QED BY <1>1, <1>2, <1>3, RadixFacts

\* The bytes of a long length are those of the number, but for the bit.
LEMMA LongForm ==
  ASSUME NEW d \in [1..Lead + 1 -> Bytes], d[1] < High,
         NEW f, f = <<Radix - High + d[1]>> \o Tail(d)
  PROVE  /\ d \in Seq(Bytes) /\ Len(d) = Lead + 1
         /\ f \in Seq(Bytes) /\ Len(f) = Lead + 1 /\ f[1] = High + d[1]
         /\ \A i \in 2..Lead + 1 : f[i] = d[i]
         /\ Cleared(f) = d
<1>1. d \in Seq(Bytes) /\ Len(d) = Lead + 1 /\ d # <<>>
  BY RadixFacts
<1>2. PICK t : /\ t = Tail(d) /\ t \in Seq(Bytes) /\ Len(t) = Lead
               /\ \A i \in 1..Lead : t[i] = d[i + 1]
  <2>1. /\ Tail(d) \in Seq(Bytes) /\ Len(Tail(d)) = Len(d) - 1
        /\ \A i \in 1..Len(Tail(d)) : Tail(d)[i] = d[i + 1]
    BY <1>1, HeadTailProperties
  <2>2. Len(d) - 1 = Lead
    BY <1>1, RadixFacts
  <2> QED BY <2>1, <2>2
<1>3. PICK x \in 0..High - 1 : x = d[1]
  <2>1. d[1] \in Nat
    BY <1>1, RadixFacts DEF Bytes
  <2> QED BY <2>1, RadixFacts
<1>4. PICK h \in Bytes : h = Radix - High + d[1] /\ h = High + x
  BY <1>3, RadixFacts DEF Bytes
<1>5. f = <<h>> \o t
  BY <1>2, <1>4
<1>6. f \in Seq(Bytes) /\ Len(f) = Lead + 1 /\ f[1] = h /\ \A i \in 2..Lead + 1 : f[i] = t[i - 1]
  <2>1. <<h>> \in Seq(Bytes) /\ Len(<<h>>) = 1 /\ <<h>>[1] = h
    OBVIOUS
  <2>2. /\ f \in Seq(Bytes) /\ Len(f) = Len(<<h>>) + Len(t)
        /\ \A i \in 1..Len(<<h>>) + Len(t) :
             f[i] = IF i <= Len(<<h>>) THEN <<h>>[i] ELSE t[i - Len(<<h>>)]
    BY <1>2, <1>5, <2>1, ConcatProperties
  <2>3. /\ Len(f) = Lead + 1
        /\ \A i \in 1..Lead + 1 : f[i] = IF i <= 1 THEN <<h>>[i] ELSE t[i - 1]
    BY <1>2, <2>1, <2>2, RadixFacts
  <2>4. f[1] = h
    BY <2>1, <2>3, RadixFacts
  <2>5. \A i \in 2..Lead + 1 : f[i] = t[i - 1]
    BY <2>3
  <2> QED BY <2>2, <2>3, <2>4, <2>5
<1>7. \A i \in 2..Lead + 1 : f[i] = d[i]
  <2>1. \A i \in 2..Lead + 1 : i - 1 \in 1..Lead /\ (i - 1) + 1 = i
    BY RadixFacts
  <2> QED BY <1>2, <1>6, <2>1
<1>8. h % High = x
  BY <1>3, <1>4, BelowHigh
<1>9. PICK c : /\ c = Cleared(f) /\ c \in Seq(Bytes) /\ Len(c) = Lead + 1 /\ c[1] = x
               /\ \A i \in 2..Lead + 1 : c[i] = f[i]
  <2>1. f # <<>>
    BY <1>6, RadixFacts
  <2>2. IsCleared(f, Cleared(f))
    BY <1>6, <2>1, ClearedType
  <2> QED BY <1>6, <1>8, <2>2 DEF IsCleared
<1>10. c = d
  <2>1. \A i \in 1..Lead + 1 : c[i] = d[i]
    <3>1. \A i \in 1..Lead + 1 : i = 1 \/ i \in 2..Lead + 1
      BY RadixFacts
    <3> QED BY <1>3, <1>7, <1>9, <3>1
  <2> QED BY <1>1, <1>9, <2>1, SeqEqual
<1> QED BY <1>1, <1>3, <1>4, <1>6, <1>7, <1>9, <1>10

\* What read_length() takes is a form of what it returns.
LEMMA FormAt ==
  ASSUME NEW s \in Seq(Bytes), NEW k \in Nat, WholeLength(s, k)
  PROVE  SubSeq(s, k + 1, k + SizeAt(s, k)) \in LengthForms(LengthAt(s, k))
<1>1. PICK z \in 1..Lead + 1 : z = SizeAt(s, k) /\ z = IF s[k + 1] < High THEN 1 ELSE Lead + 1
  BY SizeType, RadixFacts DEF SizeAt
<1>2. PICK f : /\ f = SubSeq(s, k + 1, k + z) /\ f \in Seq(Bytes) /\ Len(f) = z
               /\ \A i \in 1..z : f[i] = s[k + i]
  <2>1. z \in Nat /\ k + z <= Len(s)
    BY <1>1 DEF WholeLength
  <2>2. Slice(Bytes, s, k, z, SubSeq(s, k + 1, k + z))
    BY <2>1, SliceType
  <2> QED BY <2>2 DEF Slice
<1>3. f[1] = s[k + 1] /\ f[1] \in 0..Radix - 1 /\ f # <<>>
  <2>1. 1 \in 1..z
    BY <1>1
  <2>2. 1 \in 1..Len(f)
    BY <1>2, <2>1
  <2>3. f[1] \in Bytes
    BY <1>2, <2>2, ElementType
  <2>4. f # <<>>
    BY <2>2
  <2>5. f[1] = s[k + 1]
    BY <1>2, <2>1
  <2> QED BY <2>3, <2>4, <2>5 DEF Bytes
<1>4. PICK c : /\ c = Cleared(f) /\ c \in Seq(Bytes) /\ Len(c) = z /\ c[1] = f[1] % High
               /\ c[1] \in 0..High - 1 /\ \A i \in 2..z : c[i] = f[i]
  <2>1. IsCleared(f, Cleared(f))
    BY <1>2, <1>3, ClearedType
  <2> QED BY <1>2, <2>1 DEF IsCleared
<1>5. PICK n : n = LengthAt(s, k) /\ n = FromDigits(c)
  BY <1>1, <1>2, <1>4 DEF LengthAt
<1>6. CASE s[k + 1] < High
  <2>1. z = 1
    BY <1>1, <1>6
  <2>2. f[1] \in 0..High - 1
    BY <1>3, <1>6, RadixFacts
  <2>3. c[1] = f[1]
    BY <1>4, <2>2, BelowHigh
  <2>4. n = f[1] /\ n < High
    <3>1. FromDigits(c) = c[1]
      BY <1>4, <2>1, OneDigit
    <3> QED BY <1>3, <1>5, <1>6, <2>3, <3>1
  <2>5. f = <<n>>
    <3>1. f \in Seq(Bytes) /\ Len(f) = 1 /\ f[1] = n
      BY <1>2, <2>1, <2>4
    <3> QED BY <3>1
  <2>6. f \in LengthForms(n)
    BY <2>4, <2>5 DEF LengthForms
  <2> QED BY <1>1, <1>2, <1>5, <2>6
<1>7. CASE ~(s[k + 1] < High)
  <2>1. z = Lead + 1
    BY <1>1, <1>7
  <2>2. c[1] = f[1] - High
    <3>1. PICK x \in Int : x = f[1] - High
      BY <1>3, RadixFacts
    <3>2. f[1] = High + x /\ x \in 0..High - 1
      BY <1>3, <1>7, <3>1, RadixFacts
    <3> QED BY <1>4, <3>1, <3>2, BelowHigh
  <2>3. c \in [1..Lead + 1 -> Bytes] /\ c[1] < High
    BY <1>4, <2>1, RadixFacts
  <2>4. Weigh(c) = n
    BY <1>4, <1>5, BytesAreNumbers, SidesAgree
  <2>5. PICK g : g = <<Radix - High + c[1]>> \o Tail(c)
    OBVIOUS
  <2>6. /\ g \in Seq(Bytes) /\ Len(g) = Lead + 1 /\ g[1] = High + c[1]
        /\ \A i \in 2..Lead + 1 : g[i] = c[i]
    BY <2>3, <2>5, LongForm
  <2>7. g = f
    <3>1. g[1] = f[1]
      BY <1>3, <2>2, <2>6, RadixFacts
    <3>2. \A i \in 1..Lead + 1 : i = 1 \/ i \in 2..Lead + 1
      BY RadixFacts
    <3>3. \A i \in 1..Lead + 1 : g[i] = f[i]
      BY <1>4, <2>1, <2>6, <3>1, <3>2
    <3> QED BY <1>2, <2>1, <2>6, <3>3, SeqEqual
  <2>8. f \in LengthForms(n)
    BY <2>3, <2>4, <2>5, <2>7 DEF LengthForms
  <2> QED BY <1>1, <1>2, <1>5, <2>8
<1> QED BY <1>6, <1>7

\* The elements of f are in s, behind the first k.
Occurs(f, s, k) == k + Len(f) <= Len(s) /\ \A i \in 1..Len(f) : s[k + i] = f[i]

LEMMA SliceOccurs ==
  ASSUME NEW V, NEW s \in Seq(V), NEW f \in Seq(V), NEW k \in Nat, Occurs(f, s, k)
  PROVE  SubSeq(s, k + 1, k + Len(f)) = f
<1>1. PICK z \in Nat : z = Len(f) /\ k + z <= Len(s)
  BY DEF Occurs
<1>2. PICK t : t = SubSeq(s, k + 1, k + z) /\ Slice(V, s, k, z, t)
  BY <1>1, SliceType
<1>3. t \in Seq(V) /\ Len(t) = Len(f) /\ \A i \in 1..Len(f) : t[i] = f[i]
  BY <1>1, <1>2 DEF Slice, Occurs
<1>4. t = f
  BY <1>3, SeqEqual
<1> QED BY <1>1, <1>2, <1>4

\* A form can be told from its first byte.
LEMMA FormType ==
  ASSUME NEW n \in Nat, NEW f \in LengthForms(n)
  PROVE  /\ f \in Seq(Bytes) /\ Len(f) \in {1, Lead + 1} /\ Len(f) \in Nat
         /\ f[1] < High <=> Len(f) = 1
         /\ FromDigits(Cleared(f)) = n
<1>1. CASE n < High /\ f = <<n>>
  <2>1. f \in Seq(Bytes) /\ Len(f) = 1 /\ f # <<>> /\ f[1] = n
    BY <1>1, RadixFacts DEF Bytes
  <2>2. n \in 0..High - 1
    BY <1>1, RadixFacts
  <2>3. n % High = n
    BY <2>2, BelowHigh
  <2>4. Cleared(f) \in Seq(Bytes) /\ Len(Cleared(f)) = 1 /\ Cleared(f)[1] = n
    <3>1. IsCleared(f, Cleared(f))
      BY <2>1, ClearedType
    <3> QED BY <2>1, <2>3, <3>1 DEF IsCleared
  <2>5. FromDigits(Cleared(f)) = n
    BY <2>4, OneDigit
  <2> QED BY <1>1, <2>1, <2>5
<1>2. CASE \E d \in [1..Lead + 1 -> Bytes] :
             d[1] < High /\ Weigh(d) = n /\ f = <<Radix - High + d[1]>> \o Tail(d)
  <2>1. PICK d \in [1..Lead + 1 -> Bytes] :
          d[1] < High /\ Weigh(d) = n /\ f = <<Radix - High + d[1]>> \o Tail(d)
    BY <1>2
  <2>2. /\ d \in Seq(Bytes) /\ Len(d) = Lead + 1 /\ f \in Seq(Bytes) /\ Len(f) = Lead + 1
        /\ f[1] = High + d[1] /\ Cleared(f) = d
    BY <2>1, LongForm
  <2>3. FromDigits(d) = n
    BY <2>1, <2>2, BytesAreNumbers, SidesAgree
  <2>4. d[1] \in Nat
    <3>1. 1 \in 1..Lead + 1
      BY RadixFacts
    <3> QED BY <2>1, <3>1, RadixFacts DEF Bytes
  <2>5. ~(f[1] < High) /\ Lead + 1 # 1
    BY <2>2, <2>4, RadixFacts
  <2> QED BY <2>2, <2>3, <2>5, RadixFacts
<1>3. \/ n < High /\ f = <<n>>
      \/ \E d \in [1..Lead + 1 -> Bytes] :
           d[1] < High /\ Weigh(d) = n /\ f = <<Radix - High + d[1]>> \o Tail(d)
  BY Zenon DEF LengthForms
<1> QED BY <1>1, <1>2, <1>3

\* A form that is there is the one that read_length() reads.
LEMMA FormOnly ==
  ASSUME NEW s \in Seq(Bytes), NEW k \in Nat, NEW n \in Nat, NEW f \in LengthForms(n),
         Occurs(f, s, k)
  PROVE  WholeLength(s, k) /\ Len(f) = SizeAt(s, k) /\ n = LengthAt(s, k)
<1>1. /\ f \in Seq(Bytes) /\ Len(f) \in {1, Lead + 1} /\ Len(f) \in Nat
      /\ f[1] < High <=> Len(f) = 1
      /\ FromDigits(Cleared(f)) = n
  BY FormType
<1>2. s[k + 1] = f[1] /\ k + Len(f) <= Len(s) /\ Len(f) >= 1
  BY <1>1, RadixFacts DEF Occurs
<1>3. Len(f) = SizeAt(s, k)
  BY <1>1, <1>2, RadixFacts DEF SizeAt
<1>4. SubSeq(s, k + 1, k + Len(f)) = f
  BY <1>1, SliceOccurs
<1>5. n = LengthAt(s, k)
  BY <1>1, <1>3, <1>4 DEF LengthAt
<1>6. WholeLength(s, k)
  BY <1>1, <1>2, <1>3 DEF WholeLength
<1> QED BY <1>3, <1>5, <1>6

\* The pair at a place of the stream is whole.
PairAt(s, k) ==
  LET second == k + SizeAt(s, k)
  IN  /\ WholeLength(s, k) /\ WholeLength(s, second)
      /\ second + SizeAt(s, second) + LengthAt(s, k) + LengthAt(s, second) <= Len(s)

LEMMA PrefixOccurs ==
  ASSUME NEW V, NEW f \in Seq(V), NEW s \in Seq(V), IsPrefix(f, s)
  PROVE  Occurs(f, s, 0)
<1>1. PICK z \in Nat : z = Len(f) /\ z <= Len(s)
  BY DEF IsPrefix
<1>2. 0 \in Nat /\ 0 + z <= Len(s) /\ 0 + z <= Len(f) /\ 0 + 1 = 1 /\ 0 + z = z
  BY <1>1
<1>3. Slice(V, s, 0, z, SubSeq(s, 0 + 1, 0 + z)) /\ Slice(V, f, 0, z, SubSeq(f, 0 + 1, 0 + z))
  BY <1>1, <1>2, SliceType
<1>4. SubSeq(f, 1, z) = SubSeq(s, 1, z)
  BY <1>1 DEF IsPrefix
<1>5. \A i \in 1..z : SubSeq(s, 1, z)[i] = s[0 + i] /\ SubSeq(f, 1, z)[i] = f[0 + i]
  BY <1>2, <1>3 DEF Slice
<1>6. \A i \in 1..z : 0 + i = i
  OBVIOUS
<1> QED BY <1>1, <1>2, <1>4, <1>5, <1>6 DEF Occurs

LEMMA OccursBehind ==
  ASSUME NEW V, NEW s \in Seq(V), NEW k \in 0..Len(s), NEW f \in Seq(V),
         Occurs(f, SubSeq(s, k + 1, Len(s)), 0)
  PROVE  Occurs(f, s, k) /\ Len(SubSeq(s, k + 1, Len(s))) = Len(s) - k
<1>1. PICK n \in Nat : n = Len(s) - k /\ k + n = Len(s)
  OBVIOUS
<1>2. PICK t : t = SubSeq(s, k + 1, k + n) /\ Slice(V, s, k, n, t)
  <2>1. k \in Nat /\ k + n <= Len(s)
    BY <1>1
  <2>2. Slice(V, s, k, n, SubSeq(s, k + 1, k + n))
    BY <2>1, SliceType
  <2> QED BY <2>2
<1>3. PICK z \in Nat : z = Len(f) /\ z <= n /\ \A i \in 1..z : t[0 + i] = f[i]
  <2>1. Occurs(f, t, 0)
    BY <1>1, <1>2
  <2>2. Len(t) = n
    BY <1>2 DEF Slice
  <2> QED BY <2>1, <2>2 DEF Occurs
<1>4. \A i \in 1..z : 0 + i = i /\ i \in 1..n
  BY <1>3
<1>5. \A i \in 1..z : s[k + i] = f[i]
  BY <1>2, <1>3, <1>4 DEF Slice
<1> QED BY <1>1, <1>2, <1>3, <1>5 DEF Occurs, Slice

LEMMA OccursParts ==
  ASSUME NEW V, NEW f \in Seq(V), NEW g \in Seq(V), NEW s \in Seq(V), NEW k \in Nat,
         Occurs(f \o g, s, k)
  PROVE  Occurs(f, s, k) /\ Occurs(g, s, k + Len(f))
<1>1. PICK m \in Nat, n \in Nat : m = Len(f) /\ n = Len(g)
  OBVIOUS
<1>2. PICK h : h = f \o g
  OBVIOUS
<1>3. Len(h) = m + n /\ \A i \in 1..m + n : h[i] = IF i <= m THEN f[i] ELSE g[i - m]
  <2>1. /\ Len(h) = Len(f) + Len(g)
        /\ \A i \in 1..Len(f) + Len(g) : h[i] = IF i <= Len(f) THEN f[i] ELSE g[i - Len(f)]
    BY <1>2, ConcatProperties
  <2> QED BY <1>1, <2>1
<1>4. k + (m + n) <= Len(s) /\ \A i \in 1..m + n : s[k + i] = h[i]
  BY <1>2, <1>3 DEF Occurs
<1>5. \A i \in 1..m : i \in 1..m + n /\ i <= m
  OBVIOUS
<1>6. \A i \in 1..n : m + i \in 1..m + n /\ ~(m + i <= m) /\ (m + i) - m = i /\ k + (m + i) = (k + m) + i
  OBVIOUS
<1>7. \A i \in 1..m : s[k + i] = f[i]
  BY <1>3, <1>4, <1>5
<1>8. \A i \in 1..n : s[(k + m) + i] = g[i]
  <2>1. \A i \in 1..n : h[m + i] = g[i]
    BY <1>3, <1>6
  <2>2. \A i \in 1..n : s[k + (m + i)] = h[m + i]
    BY <1>4, <1>6
  <2> QED BY <1>6, <2>1, <2>2
<1>9. k + m <= Len(s) /\ (k + m) + n <= Len(s)
  BY <1>4
<1> QED BY <1>1, <1>7, <1>8, <1>9 DEF Occurs

\* Bytes that begin with a pair have room for what the two lengths say.
LEMMA BeginsAt ==
  ASSUME NEW s \in Seq(Bytes), NEW k \in 0..Len(s), BeginsWithPair(SubSeq(s, k + 1, Len(s)))
  PROVE  PairAt(s, k)
<1> DEFINE rest == SubSeq(s, k + 1, Len(s))
<1>1. PICK n \in 0..Len(rest), v \in 0..Len(rest) :
        \E name \in LengthForms(n), value \in LengthForms(v) :
          IsPrefix(name \o value, rest) /\ Len(name \o value) + n + v <= Len(rest)
  BY Zenon DEF BeginsWithPair
<1>2. n \in Nat /\ v \in Nat /\ k \in Nat
  OBVIOUS
<1>3. PICK name \in LengthForms(n), value \in LengthForms(v) :
        IsPrefix(name \o value, rest) /\ Len(name \o value) + n + v <= Len(rest)
  BY <1>1
<1>4. name \in Seq(Bytes) /\ value \in Seq(Bytes) /\ Len(name) \in Nat /\ Len(value) \in Nat
  BY <1>2, FormType
<1>5. /\ name \o value \in Seq(Bytes) /\ Len(name \o value) = Len(name) + Len(value)
  BY <1>4, ConcatProperties
<1>6. rest \in Seq(Bytes)
  BY <1>2
<1>7. Occurs(name \o value, rest, 0)
  <2> HIDE DEF rest
  <2> QED BY <1>3, <1>5, <1>6, PrefixOccurs
<1>8. Occurs(name \o value, s, k) /\ Len(rest) = Len(s) - k
  BY <1>5, <1>7, OccursBehind
<1>9. Occurs(name, s, k) /\ Occurs(value, s, k + Len(name))
  BY <1>2, <1>4, <1>8, OccursParts
<1> HIDE DEF rest
<1>10. WholeLength(s, k) /\ Len(name) = SizeAt(s, k) /\ n = LengthAt(s, k)
  BY <1>2, <1>9, FormOnly
<1>11. PICK second \in Nat : second = k + Len(name)
  BY <1>2, <1>4
<1>12. WholeLength(s, second) /\ Len(value) = SizeAt(s, second) /\ v = LengthAt(s, second)
  BY <1>2, <1>9, <1>11, FormOnly
<1>13. second + Len(value) + n + v <= Len(s)
  <2>1. PICK l \in Nat : l = Len(s)
    OBVIOUS
  <2>2. Len(name) + Len(value) + n + v <= l - k
    BY <1>3, <1>5, <1>8, <2>1
  <2> QED BY <1>2, <1>4, <1>11, <2>1, <2>2
<1> QED BY <1>10, <1>11, <1>12, <1>13 DEF PairAt

-----------------------------------------------------------------------------
(* Pairs as bytes.                                                         *)

LEMMA FormsType ==
  ASSUME NEW p \in Pairs
  PROVE  Forms(p) \subseteq Seq(Bytes)
<1>1. p.name \in Seq(Bytes) /\ p.value \in Seq(Bytes) /\ Len(p.name) \in Nat /\ Len(p.value) \in Nat
  BY DEF Pairs
<1>2. ASSUME NEW name \in LengthForms(Len(p.name)), NEW value \in LengthForms(Len(p.value))
      PROVE  name \o value \o p.name \o p.value \in Seq(Bytes)
  <2>1. name \in Seq(Bytes) /\ value \in Seq(Bytes)
    BY <1>1, FormType
  <2>2. name \o value \in Seq(Bytes)
    BY <2>1, ConcatProperties
  <2>3. name \o value \o p.name \in Seq(Bytes)
    BY <1>1, <2>2, ConcatProperties
  <2> QED BY <1>1, <2>3, ConcatProperties
<1> DEFINE Form(name, value) == name \o value \o p.name \o p.value
<1>3. Forms(p) = {Form(name, value) :
                    name \in LengthForms(Len(p.name)), value \in LengthForms(Len(p.value))}
  BY DEF Forms
<1>4. \A name \in LengthForms(Len(p.name)), value \in LengthForms(Len(p.value)) :
        Form(name, value) \in Seq(Bytes)
  BY <1>2
<1> HIDE DEF Form
<1> QED BY <1>3, <1>4

LEMMA WithPairType ==
  ASSUME NEW p \in Pairs, NEW written \in SUBSET Seq(Bytes)
  PROVE  WithPair(written, p) \in SUBSET Seq(Bytes)
<1>1. ASSUME NEW bytes \in written, NEW form \in Forms(p) PROVE bytes \o form \in Seq(Bytes)
  <2>1. bytes \in Seq(Bytes) /\ form \in Seq(Bytes)
    BY FormsType
  <2> QED BY <2>1, ConcatProperties
<1> DEFINE Joined(bytes, form) == bytes \o form
<1>2. WithPair(written, p) = {Joined(bytes, form) : bytes \in written, form \in Forms(p)}
  BY DEF WithPair
<1>3. \A bytes \in written, form \in Forms(p) : Joined(bytes, form) \in Seq(Bytes)
  BY <1>1
<1> HIDE DEF Joined
<1> QED BY <1>2, <1>3

\* What the first pairs may be written as, for each number of them.
Written(ps, written) ==
  /\ written[0] = {<<>>}
  /\ \A i \in 1..Len(ps) :
       written[i] = WithPair(written[i - 1], ps[i])

\* Encodings() is the last of the sets that are written pair by pair.
LEMMA EncodingsAre ==
  ASSUME NEW ps \in Seq(Pairs)
  PROVE  \E written : Written(ps, written) /\ Encodings(ps) = written[Len(ps)]
<1> DEFINE L == Len(ps)
           V == SUBSET Seq(Bytes)
           Is(r) == r = [i \in 0..L |-> IF i = 0 THEN {<<>>} ELSE WithPair(r[i - 1], ps[i])]
           step == [i \in 1..L |-> [x \in V |-> WithPair(x, ps[i])]]
<1>1. L \in Nat /\ \A i \in 1..L : ps[i] \in Pairs
  OBVIOUS
<1>2. {<<>>} \in V
  OBVIOUS
<1>3. ASSUME NEW i \in 1..L, NEW x \in V PROVE WithPair(x, ps[i]) \in V
  BY <1>1, WithPairType
<1> HIDE DEF V
<1>4. step \in [1..L -> [V -> V]] /\ \A i \in 1..L, x \in V : step[i][x] = WithPair(x, ps[i])
  BY <1>3
<1> HIDE DEF step
<1>5. PICK f \in [0..L -> V] : f[0] = {<<>>} /\ \A i \in 1..L : f[i] = step[i][f[i - 1]]
  <2>1. RecursionTo(L, V, {<<>>}, step)
    BY <1>1, <1>2, <1>4, IteratesTo
  <2> QED BY <2>1 DEF RecursionTo
<1> HIDE DEF L
<1>6. \A i \in 1..L : i \in 0..L /\ i - 1 \in 0..L /\ i # 0
  BY <1>1
<1>7. \A i \in 1..L : f[i] = WithPair(f[i - 1], ps[i])
  BY <1>4, <1>5, <1>6
<1>8. Is(f)
  <2>1. \A i \in 0..L : i = 0 \/ i \in 1..L
    BY <1>1
  <2> QED BY <1>5, <1>7, <2>1
<1> DEFINE made == CHOOSE r : Is(r)
<1>9. Is(made)
  BY <1>8, Zenon
<1>10. Encodings(ps) = made[L]
  BY Zenon DEF Encodings, L
<1> HIDE DEF made
<1>11. made[0] = {<<>>} /\ \A i \in 1..L : made[i] = WithPair(made[i - 1], ps[i])
  <2>1. 0 \in 0..L
    BY <1>1
  <2> QED BY <1>6, <1>9, <2>1
<1> QED BY <1>10, <1>11 DEF Written, L

LEMMA NoPairs == Encodings(<<>>) = {<<>>}
<1>1. <<>> \in Seq(Pairs) /\ Len(<<>>) = 0
  OBVIOUS
<1>2. PICK written : Written(<<>>, written) /\ Encodings(<<>>) = written[Len(<<>>)]
  BY <1>1, EncodingsAre
<1> QED BY <1>1, <1>2 DEF Written

\* A pair more is written behind.
LEMMA OnePairMore ==
  ASSUME NEW ps \in Seq(Pairs), NEW p \in Pairs, NEW whole \in Encodings(ps), NEW form \in Forms(p)
  PROVE  whole \o form \in Encodings(Append(ps, p))
<1>1. PICK n \in Nat : n = Len(ps)
  OBVIOUS
<1>2. PICK more : /\ more = Append(ps, p) /\ more \in Seq(Pairs) /\ Len(more) = n + 1
                  /\ (\A i \in 1..n : more[i] = ps[i]) /\ more[n + 1] = p
  BY <1>1, AppendProperties
<1>3. PICK a : Written(ps, a) /\ Encodings(ps) = a[n]
  BY <1>1, EncodingsAre
<1>4. PICK b : Written(more, b) /\ Encodings(more) = b[n + 1]
  BY <1>2, EncodingsAre
<1> DEFINE S == {i \in 0..n : a[i] = b[i]}
<1>5. 0 \in S
  <2>1. a[0] = {<<>>}
    BY <1>3 DEF Written
  <2>2. b[0] = {<<>>}
    BY <1>4 DEF Written
  <2>3. 0 \in 0..n
    OBVIOUS
  <2> QED BY <2>1, <2>2, <2>3, Zenon
<1>6. ASSUME NEW i \in 1..n, i - 1 \in S PROVE i \in S
  <2>1. i \in 1..Len(ps) /\ i \in 1..Len(more) /\ i \in 0..n /\ more[i] = ps[i]
    BY <1>1, <1>2
  <2>2. a[i] = WithPair(a[i - 1], ps[i])
    BY <1>3, <2>1 DEF Written
  <2>3. b[i] = WithPair(b[i - 1], more[i])
    BY <1>4, <2>1 DEF Written
  <2> QED BY <1>6, <2>1, <2>2, <2>3
<1>7. n \in S
  <2>1. \A i \in 0..n : i \in S
    <3> HIDE DEF S
    <3> QED BY <1>5, <1>6, InductionTo
  <2>2. n \in 0..n
    OBVIOUS
  <2> QED BY <2>1, <2>2
<1>8. b[n + 1] = WithPair(b[n], p)
  <2>1. n + 1 \in 1..Len(more) /\ (n + 1) - 1 = n
    BY <1>2
  <2>2. b[n + 1] = WithPair(b[(n + 1) - 1], more[n + 1])
    BY <1>4, <2>1 DEF Written
  <2> QED BY <1>2, <2>1, <2>2
<1>9. whole \o form \in WithPair(b[n], p)
  <2>1. whole \in b[n]
    BY <1>3, <1>7
  <2> QED BY <2>1 DEF WithPair
<1> QED BY <1>2, <1>4, <1>8, <1>9

-----------------------------------------------------------------------------
(* What has been taken from the stream.                                    *)

\* The lengths that have been read are those behind start.
Behind(start) ==
  LET second == start + SizeAt(wire, start) IN
  /\ Len(lengths) = 0 => position = start
  /\ Len(lengths) > 0 => WholeLength(wire, start) /\ lengths[1] = LengthAt(wire, start)
  /\ Len(lengths) = 1 => position = second
  /\ Len(lengths) = 2 =>
       /\ WholeLength(wire, second) /\ lengths[2] = LengthAt(wire, second)
       /\ position = second + SizeAt(wire, second)

\* The pairs are what the bytes before start encode, and the stream has ended there, or goes
\* on with no whole pair, if that is what the reader says.
Taken(start) ==
  /\ start \in Nat /\ start <= Len(wire)
  /\ SubSeq(wire, 1, start) \in Encodings(pairs)
  /\ Behind(start)
  /\ stage = "complete" => start = Len(wire)
  /\ stage = "refused" => start < Len(wire) /\ ~PairAt(wire, start)

Streaming ==
  /\ stage \in {"idle", "to client", "to library", "read"} => pairs = <<>> /\ lengths = <<>>
  /\ stage \in {"lengths", "complete", "refused"} =>
       Len(wire) <= MaxStream /\ \E start : Taken(start)

LEMMA JoinTwice ==
  ASSUME NEW r \in Seq(Bytes), NEW p \in Seq(Bytes), NEW q \in Seq(Bytes)
  PROVE  (r \o p) \o q = r \o (p \o q)
BY ConcatAssociative

\* Four pieces of a stream that follow each other, the last of them in two.
FourPieces(s, a, b, c, d, name, value) ==
  SubSeq(s, 1, a) \o (SubSeq(s, a + 1, b) \o SubSeq(s, b + 1, c) \o name \o value)
    = SubSeq(s, 1, d)

LEMMA Pieces ==
  ASSUME NEW s \in Seq(Bytes), NEW a \in Nat, NEW b \in Nat, NEW c \in Nat, NEW d \in Nat,
         a <= b, b <= c, c <= d, d <= Len(s),
         NEW name \in Seq(Bytes), NEW value \in Seq(Bytes), name \o value = SubSeq(s, c + 1, d)
  PROVE  FourPieces(s, a, b, c, d, name, value)
<1>1. PICK l \in Nat : l = Len(s)
  OBVIOUS
<1>2. /\ a + 1 \in 1..l + 1 /\ b \in (a + 1) - 1..l /\ c \in b..l
      /\ c \in (a + 1) - 1..l /\ d \in c..l /\ 1 \in 1..l + 1 /\ a \in 1 - 1..l /\ d \in a..l
  BY <1>1
<1>3. PICK w, x, y, z : /\ w = SubSeq(s, 1, a) /\ x = SubSeq(s, a + 1, b) /\ y = SubSeq(s, b + 1, c)
                        /\ z = SubSeq(s, c + 1, d)
  OBVIOUS
<1>4. x \o y = SubSeq(s, a + 1, c)
  BY <1>1, <1>2, <1>3, ConcatAdjacentSubSeq
<1>5. (x \o y) \o z = SubSeq(s, a + 1, d)
  <2>1. SubSeq(s, a + 1, c) \o SubSeq(s, c + 1, d) = SubSeq(s, a + 1, d)
    BY <1>1, <1>2, ConcatAdjacentSubSeq
  <2> QED BY <1>3, <1>4, <2>1
<1>6. x \in Seq(Bytes) /\ y \in Seq(Bytes)
  <2>1. (\A i \in a + 1..b : s[i] \in Bytes) /\ \A i \in b + 1..c : s[i] \in Bytes
    OBVIOUS
  <2>2. a + 1 \in Int /\ b \in Int /\ b + 1 \in Int /\ c \in Int
    OBVIOUS
  <2> QED BY <1>3, <2>1, <2>2, SubSeqProperties
<1>7. x \o y \in Seq(Bytes)
  BY <1>6, ConcatProperties
<1>8. (x \o y \o name) \o value = (x \o y) \o (name \o value)
  <2>1. PICK xy : xy = x \o y /\ xy \in Seq(Bytes)
    BY <1>7
  <2>2. (xy \o name) \o value = xy \o (name \o value)
    BY <2>1, JoinTwice
  <2> QED BY <2>1, <2>2
<1>9. w \o SubSeq(s, a + 1, d) = SubSeq(s, 1, d)
  BY <1>1, <1>2, <1>3, ConcatAdjacentSubSeq
<1> QED BY <1>3, <1>5, <1>8, <1>9 DEF FourPieces

LEMMA LengthsType ==
  ASSUME StreamTypes
  PROVE  /\ wire \in Seq(Bytes) /\ Len(wire) \in Nat /\ position \in Nat /\ position <= Len(wire)
         /\ Len(lengths) \in {0, 1, 2} /\ (lengths = <<>> <=> Len(lengths) = 0)
<1>1. wire \in Seq(Bytes) /\ Len(wire) \in Nat /\ position \in Nat /\ position <= Len(wire)
  BY StreamType
<1>2. PICK V : lengths \in Seq(V)
  BY Zenon DEF StreamTypes
<1>3. Len(lengths) \in {0, 1, 2}
  BY StreamType
<1>4. lengths = <<>> <=> Len(lengths) = 0
  BY <1>2
<1> QED BY <1>1, <1>3, <1>4

\* read_length() goes on by the length that is there.
LEMMA TakesLength ==
  ASSUME StreamTypes, ReadLength, NEW start, Taken(start)
  PROVE  Taken(start)'
<1>1. /\ stage = "lengths" /\ stage' = "lengths" /\ Left > 0 /\ Left >= LengthSize
      /\ lengths' = Append(lengths, Length) /\ position' = position + LengthSize
      /\ wire' = wire /\ pairs' = pairs /\ Len(lengths) < 2
  BY DEF ReadLength
<1>2. LengthSize = SizeAt(wire, position) /\ Length = LengthAt(wire, position)
  <2>1. LengthSize = SizeAt(wire, position)
    BY DEF LengthSize, SizeAt
  <2> QED BY <1>1, <2>1, LengthType DEF LengthAt
<1>3. WholeLength(wire, position)
  <2>1. PICK l \in Nat, p \in Nat, z \in Nat : l = Len(wire) /\ p = position /\ z = LengthSize
    BY <1>1, LengthsType, LengthType
  <2>2. l - p > 0 /\ l - p >= z
    BY <1>1, <2>1 DEF Left
  <2>3. p < l /\ p + z <= l
    BY <2>1, <2>2
  <2> QED BY <1>2, <2>1, <2>3 DEF WholeLength
<1>4. PICK V : lengths \in Seq(V) /\ Length \in V
  <2>1. lengths \in Seq(0..IntMax)
    BY Zenon DEF StreamTypes
  <2>2. Length \in 0..IntMax
    BY <1>1, LengthType
  <2> QED BY <2>1, <2>2, Zenon
<1>5. /\ Len(lengths') = Len(lengths) + 1 /\ (\A i \in 1..Len(lengths) : lengths'[i] = lengths[i])
      /\ lengths'[Len(lengths) + 1] = Length
  BY <1>1, <1>4, AppendProperties
<1>6. Behind(start)'
  <2>1. CASE Len(lengths) = 0
    <3>1. position = start
      BY <2>1, Zenon DEF Taken, Behind
    <3>2. Len(lengths') = 1 /\ lengths'[1] = Length /\ position' = start + SizeAt(wire, start)
      BY <1>1, <1>2, <1>5, <2>1, <3>1
    <3> QED BY <1>1, <1>2, <1>3, <3>1, <3>2 DEF Behind
  <2>2. CASE Len(lengths) = 1
    <3>1. /\ position = start + SizeAt(wire, start) /\ WholeLength(wire, start)
          /\ lengths[1] = LengthAt(wire, start)
      BY <2>2 DEF Taken, Behind
    <3>2. Len(lengths') = 2 /\ lengths'[1] = lengths[1] /\ lengths'[2] = Length
      BY <1>5, <2>2
    <3>3. position' = position + SizeAt(wire, position) /\ lengths'[2] = LengthAt(wire, position)
      BY <1>1, <1>2, <3>2
    <3> QED BY <1>1, <1>3, <3>1, <3>2, <3>3 DEF Behind
  <2>3. PICK n \in {0, 1, 2} : n = Len(lengths)
    BY LengthsType, Zenon
  <2>4. Len(lengths) < 2
    BY <1>1
  <2> QED BY <2>1, <2>2, <2>3, <2>4
<1> QED BY <1>1, <1>6 DEF Taken

\* What is missing is missing from a pair.
LEMMA MissesLength ==
  ASSUME StreamTypes, LengthMissing, NEW start, Taken(start)
  PROVE  Taken(start)'
<1>1. /\ stage = "lengths" /\ stage' = "refused" /\ UNCHANGED <<wire, position, lengths, pairs>>
      /\ Len(lengths) < 2 /\ IF Left = 0 THEN lengths # <<>> ELSE Left < LengthSize
  BY DEF LengthMissing, streamVars
<1>2. PICK l \in Nat, p \in Nat : l = Len(wire) /\ p = position /\ p <= l
  BY LengthsType
<1>3. Left = l - p /\ LengthSize = SizeAt(wire, p)
  BY <1>2 DEF Left, LengthSize, SizeAt
<1>4. ~WholeLength(wire, p)
  <2>1. PICK z \in Nat : z = SizeAt(wire, p)
    BY SizeType
  <2>2. l - p = 0 \/ l - p < z
    BY <1>1, <1>3, <2>1
  <2>3. ~(p < l /\ p + z <= l)
    BY <2>2
  <2> QED BY <1>2, <2>1, <2>3 DEF WholeLength
<1>5. start < Len(wire) /\ ~PairAt(wire, start)
  <2>1. CASE Len(lengths) = 0
    <3>1. p = start
      BY <1>2, <2>1, Zenon DEF Taken, Behind
    <3>2. lengths = <<>>
      BY <2>1, LengthsType
    <3>3. p < l
      BY <1>1, <1>2, <1>3, <3>2
    <3>4. ~PairAt(wire, start)
      BY <1>4, <3>1, Zenon DEF PairAt
    <3> QED BY <1>2, <3>1, <3>3, <3>4
  <2>2. CASE Len(lengths) = 1
    <3>1. p = start + SizeAt(wire, start) /\ WholeLength(wire, start)
      BY <1>2, <2>2 DEF Taken, Behind
    <3>2. ~PairAt(wire, start)
      BY <1>4, <3>1, Zenon DEF PairAt
    <3> QED BY <3>1, <3>2 DEF WholeLength
  <2>3. PICK n \in {0, 1, 2} : n = Len(lengths)
    BY LengthsType, Zenon
  <2>4. Len(lengths) < 2
    BY <1>1
  <2> QED BY <2>1, <2>2, <2>3, <2>4
<1> QED BY <1>1, <1>5 DEF Taken, Behind

\* Nor is the sum of two lengths taken for a negative one, as long as no stream is longer
\* than an int can say.
LEMMA MissesData ==
  ASSUME StreamTypes, DataMissing, NEW start, Taken(start), Len(wire) <= MaxStream, MaxStream <= IntMax
  PROVE  Taken(start)'
<1>1. /\ stage = "lengths" /\ stage' = "refused" /\ UNCHANGED <<wire, position, lengths, pairs>>
      /\ Len(lengths) = 2 /\ Count \notin 0..Left
  BY DEF DataMissing, streamVars
<1>2. PICK l \in Nat, p \in Nat : l = Len(wire) /\ p = position /\ p <= l
  BY LengthsType
<1>3. PICK second : second = start + SizeAt(wire, start)
  OBVIOUS
<1>4. /\ WholeLength(wire, start) /\ lengths[1] = LengthAt(wire, start)
      /\ WholeLength(wire, second) /\ lengths[2] = LengthAt(wire, second)
      /\ p = second + SizeAt(wire, second)
  BY <1>1, <1>2, <1>3 DEF Taken, Behind
<1>5. ASSUME PairAt(wire, start) PROVE FALSE
  <2>1. second + SizeAt(wire, second) + LengthAt(wire, start) + LengthAt(wire, second) <= Len(wire)
    BY <1>3, <1>5, Zenon DEF PairAt
  <2>2. PICK a \in Nat, b \in Nat : a = lengths[1] /\ b = lengths[2]
    <3>1. lengths \in Seq(0..IntMax)
      BY Zenon DEF StreamTypes
    <3>2. 1 \in 1..Len(lengths) /\ 2 \in 1..Len(lengths)
      BY <1>1
    <3>3. lengths[1] \in 0..IntMax /\ lengths[2] \in 0..IntMax
      BY <3>1, <3>2, ElementType
    <3> QED BY <3>3
  <2>3. p + a + b <= l
    BY <1>2, <1>4, <2>1, <2>2
  <2>4. a + b <= IntMax /\ a + b \in 0..l - p
    <3>1. IntMax \in Nat /\ MaxStream \in Nat
      BY IntMaxType, RadixFacts
    <3> QED BY <1>2, <2>3, <3>1
  <2>5. Count = a + b
    BY <2>2, <2>4, IntMaxType DEF Count
  <2> QED BY <1>1, <1>2, <2>4, <2>5 DEF Left
<1>6. start < Len(wire)
  BY <1>4 DEF WholeLength
<1> QED BY <1>1, <1>5, <1>6 DEF Taken, Behind

\* read_data() takes the bytes of one pair.
LEMMA TakesPair ==
  ASSUME StreamTypes, ReadData, pairs \in Seq(Pairs), NEW start, Taken(start)
  PROVE  \E next : Taken(next)'
<1>1. /\ stage = "lengths" /\ stage' = "lengths" /\ wire' = wire
      /\ Len(lengths) = 2 /\ Count \in 0..Left
      /\ pairs' = Append(pairs, PairOf(SubSeq(wire, position + 1, position + Count)))
      /\ position' = position + Count /\ lengths' = <<>>
  BY DEF ReadData
<1>2. PICK l \in Nat, third \in Nat :
        l = Len(wire) /\ third = position /\ third <= l /\ wire \in Seq(Bytes)
  BY LengthsType
<1>3. PICK a \in Nat, b \in Nat : a = lengths[1] /\ b = lengths[2] /\ Count = a + b
  BY <1>1, CountType, IntMaxType
<1>4. PICK next \in Nat : next = third + (a + b) /\ next <= l /\ position' = next
  <2>1. third + (a + b) <= l
    BY <1>1, <1>2, <1>3, CountType
  <2>2. position' = third + (a + b)
    BY <1>1, <1>2, <1>3
  <2>3. third + (a + b) \in Nat
    BY <1>2, <1>3
  <2> QED BY <2>1, <2>2, <2>3, Zenon
<1>5. PICK data : /\ data = SubSeq(wire, third + 1, next) /\ data \in Seq(Bytes)
                  /\ Len(data) = a + b
  <2>1. a + b \in Nat /\ third + (a + b) <= Len(wire)
    BY <1>2, <1>4
  <2>2. Slice(Bytes, wire, third, a + b, SubSeq(wire, third + 1, third + (a + b)))
    BY <1>2, <2>1, SliceType
  <2> QED BY <1>4, <2>2 DEF Slice
<1>6. PICK p : /\ p = PairOf(data) /\ p \in Pairs /\ Len(p.name) = a /\ Len(p.value) = b
               /\ p.name \o p.value = data /\ pairs' = Append(pairs, p)
  <2>1. a <= Len(data) /\ Len(data) - a = b
    BY <1>5
  <2>2. /\ PairOf(data) \in Pairs /\ Len(PairOf(data).name) = a
        /\ Len(PairOf(data).value) = Len(data) - a
        /\ PairOf(data).name \o PairOf(data).value = data
    BY <1>3, <1>5, <2>1, PairType
  <2>3. SubSeq(wire, position + 1, position + Count) = data
    BY <1>2, <1>3, <1>4, <1>5
  <2> QED BY <1>1, <2>1, <2>2, <2>3
<1>7. start \in Nat /\ start <= l /\ SubSeq(wire, 1, start) \in Encodings(pairs)
  BY <1>2 DEF Taken
<1>8. PICK second \in Nat : second = start + SizeAt(wire, start) /\ start <= second
  BY <1>7, SizeType
<1>9. /\ WholeLength(wire, start) /\ lengths[1] = LengthAt(wire, start)
      /\ WholeLength(wire, second) /\ lengths[2] = LengthAt(wire, second)
      /\ third = second + SizeAt(wire, second)
  BY <1>1, <1>2, <1>8 DEF Taken, Behind
<1>10. second <= third
  <2>1. PICK z \in Nat : z = SizeAt(wire, second)
    BY SizeType
  <2> QED BY <1>9, <2>1
<1> DEFINE name == SubSeq(wire, start + 1, second)
           value == SubSeq(wire, second + 1, third)
           form == name \o value \o p.name \o p.value
<1>11. name \in LengthForms(a) /\ value \in LengthForms(b)
  <2>1. name \in LengthForms(LengthAt(wire, start))
    BY <1>2, <1>7, <1>8, <1>9, FormAt
  <2>2. value \in LengthForms(LengthAt(wire, second))
    BY <1>2, <1>9, FormAt
  <2> QED BY <1>3, <1>9, <2>1, <2>2
<1>12. form \in Forms(p)
  <2> DEFINE Form(n, v) == n \o v \o p.name \o p.value
  <2>1. Forms(p) = {Form(n, v) : n \in LengthForms(Len(p.name)), v \in LengthForms(Len(p.value))}
    BY DEF Forms
  <2>2. form = Form(name, value)
    OBVIOUS
  <2> HIDE DEF name, value, form, Form
  <2> QED BY <1>6, <1>11, <2>1, <2>2
<1>13. SubSeq(wire, 1, start) \o form = SubSeq(wire, 1, next)
  <2>1. p.name \in Seq(Bytes) /\ p.value \in Seq(Bytes)
    BY <1>6 DEF Pairs
  <2>2. third <= next /\ next <= Len(wire)
    BY <1>2, <1>4
  <2>3. p.name \o p.value = SubSeq(wire, third + 1, next)
    BY <1>5, <1>6
  <2>4. start <= second /\ second <= third /\ wire \in Seq(Bytes)
    BY <1>2, <1>8, <1>10
  <2>5. FourPieces(wire, start, second, third, next, p.name, p.value)
    BY <1>7, <2>1, <2>2, <2>3, <2>4, Pieces
  <2> QED BY <2>5, Zenon DEF FourPieces
<1>14. SubSeq(wire, 1, start) \o form \in Encodings(Append(pairs, p))
  <2> HIDE DEF form
  <2> QED BY <1>6, <1>7, <1>12, OnePairMore
<1>15. SubSeq(wire, 1, next)' \in Encodings(pairs)'
  <2> HIDE DEF form
  <2>1. SubSeq(wire, 1, next)' = SubSeq(wire, 1, next)
    BY <1>1
  <2>2. Encodings(pairs)' = Encodings(pairs')
    BY DEF Encodings
  <2> QED BY <1>6, <1>13, <1>14, <2>1, <2>2
<1>16. Behind(next)'
  BY <1>1, <1>4 DEF Behind
<1>17. Taken(next)'
  <2>1. next <= Len(wire')
    BY <1>1, <1>2, <1>4
  <2> QED BY <1>1, <1>4, <1>15, <1>16, <2>1 DEF Taken
<1> QED BY <1>17

LEMMA StreamingInit == Init => Streaming
BY DEF Init, Streaming

LEMMA StreamingNext ==
  ASSUME MaxStream <= IntMax, CodecsInv, Streaming, [Next]_vars
  PROVE  Streaming'
<1>1. StreamTypes /\ pairs \in Seq(Pairs)
  BY Zenon DEF CodecsInv, StreamTypes
<1>2. CASE LibraryWrites \/ ClientWrites \/ ClientReads \/ LibraryReads
  <2>1. /\ stage \in {"idle", "to client", "to library"} /\ pairs' = pairs /\ lengths' = lengths
        /\ stage' \in {"to client", "to library", "read"}
    BY <1>2 DEF LibraryWrites, ClientWrites, ClientReads, LibraryReads, streamVars
  <2> QED BY <2>1 DEF Streaming
<1>3. CASE ClientStreams
  <2>1. /\ stage = "idle" /\ stage' = "lengths"
        /\ position' = position /\ lengths' = lengths /\ pairs' = pairs
    BY <1>3 DEF ClientStreams, streamVars
  <2>2. lengths' = <<>> /\ pairs' = <<>> /\ position' = 0
    BY <1>1, <2>1, Zenon DEF Streaming, StreamTypes
  <2>3. wire' \in Seq(Bytes) /\ Len(wire') <= MaxStream
    <3>1. wire' \in BoundedSeq(Bytes, MaxStream)
      BY <1>3 DEF ClientStreams
    <3>2. PICK n \in 0..MaxStream : wire' \in [1..n -> Bytes]
      BY <3>1 DEF BoundedSeq, SeqOf
    <3> QED BY <3>2, RadixFacts
  <2>4. Taken(0)'
    <3>1. SubSeq(wire', 1, 0) = <<>> /\ 0 <= Len(wire')
      BY <2>3
    <3>2. SubSeq(wire', 1, 0) \in Encodings(pairs')
      BY <2>2, <3>1, NoPairs
    <3>3. (SubSeq(wire, 1, 0) \in Encodings(pairs))'
      BY <3>2 DEF Encodings
    <3>4. Behind(0)'
      BY <2>2 DEF Behind
    <3> QED BY <2>1, <3>1, <3>3, <3>4 DEF Taken
  <2> QED BY <2>1, <2>3, <2>4 DEF Streaming
<1>4. CASE ReadLength \/ LengthMissing \/ DataMissing
  <2>1. /\ stage = "lengths" /\ stage' \in {"lengths", "refused"} /\ wire' = wire
    BY <1>4 DEF ReadLength, LengthMissing, DataMissing, streamVars
  <2>2. PICK start : Taken(start)
    BY <2>1 DEF Streaming
  <2>3. Len(wire) <= MaxStream
    BY <2>1 DEF Streaming
  <2>4. Taken(start)'
    BY <1>1, <1>4, <2>2, <2>3, TakesLength, MissesLength, MissesData
  <2> QED BY <2>1, <2>3, <2>4 DEF Streaming
<1>5. CASE StreamEnds
  <2>1. /\ stage = "lengths" /\ stage' = "complete" /\ lengths = <<>> /\ Left = 0
        /\ UNCHANGED <<wire, position, lengths, pairs>>
    BY <1>5 DEF StreamEnds, streamVars
  <2>2. PICK start : Taken(start)
    BY <2>1 DEF Streaming
  <2>3. start = Len(wire)
    <3>1. position = start
      <4>1. Len(lengths) = 0
        BY <2>1
      <4> QED BY <2>2, <4>1, Zenon DEF Taken, Behind
    <3>2. position = Len(wire)
      BY <1>1, <2>1, LengthsType DEF Left
    <3> QED BY <3>1, <3>2
  <2>4. Taken(start)'
    BY <2>1, <2>2, <2>3 DEF Taken, Behind
  <2> QED BY <2>1, <2>4 DEF Streaming
<1>6. CASE ReadData
  <2>1. stage = "lengths" /\ stage' = "lengths" /\ wire' = wire
    BY <1>6 DEF ReadData
  <2>2. PICK start : Taken(start)
    BY <2>1 DEF Streaming
  <2>3. \E next : Taken(next)'
    BY <1>1, <1>6, <2>2, TakesPair
  <2> QED BY <2>1, <2>3 DEF Streaming
<1>7. CASE UNCHANGED vars
  BY <1>7 DEF vars, Streaming, Taken, Behind
<1> QED BY <1>2, <1>3, <1>4, <1>5, <1>6, <1>7 DEF Next

LEMMA StreamIsPairs ==
  ASSUME CodecsInv, Streaming
  PROVE  PairsAreTheStream
<1> SUFFICES ASSUME stage \in {"lengths", "complete", "refused"}
             PROVE  \E whole \in Encodings(pairs) :
                      /\ IsPrefix(whole, wire)
                      /\ stage = "lengths" /\ lengths = <<>> => Len(whole) = position
                      /\ stage = "complete" => whole = wire
                      /\ stage = "refused" =>
                           /\ whole # wire
                           /\ ~BeginsWithPair(SubSeq(wire, Len(whole) + 1, Len(wire)))
  BY DEF PairsAreTheStream
<1>1. PICK start : Taken(start)
  BY DEF Streaming
<1>2. wire \in Seq(Bytes) /\ start \in 0..Len(wire) /\ start \in Nat
  BY <1>1, LengthsType DEF CodecsInv, Taken
<1>3. PICK whole : whole = SubSeq(wire, 1, start)
  OBVIOUS
<1>4. whole \in Seq(Bytes) /\ Len(whole) = start /\ whole \in Encodings(pairs)
  BY <1>1, <1>2, <1>3 DEF Taken
<1>5. IsPrefix(whole, wire)
  BY <1>2, <1>3, <1>4, SubSeqFull DEF IsPrefix
<1>6. stage = "lengths" /\ lengths = <<>> => Len(whole) = position
  <2>1. lengths = <<>> => Len(lengths) = 0
    OBVIOUS
  <2> QED BY <1>1, <1>4, <2>1, Zenon DEF Taken, Behind
<1>7. stage = "complete" => whole = wire
  BY <1>1, <1>2, <1>3, SubSeqFull DEF Taken
<1>8. ASSUME stage = "refused"
      PROVE  whole # wire /\ ~BeginsWithPair(SubSeq(wire, Len(whole) + 1, Len(wire)))
  <2>1. start < Len(wire) /\ ~PairAt(wire, start)
    BY <1>1, <1>8 DEF Taken
  <2>2. whole # wire
    BY <1>4, <2>1
  <2>3. ~BeginsWithPair(SubSeq(wire, start + 1, Len(wire)))
    BY <1>2, <2>1, BeginsAt
  <2> QED BY <1>4, <2>2, <2>3
<1> QED BY <1>4, <1>5, <1>6, <1>7, <1>8

\* The pairs are those the bytes encode, none is made up or lost, and a stream is refused
\* only for what is no whole pair.  Of a stream longer than INT_MAX this is not so: the two
\* lengths of a pair that is there may have a sum that is no int, and are refused
\* (fcgi/basics.cpp, 385-425).
THEOREM PairsAreTaken ==
  ASSUME MaxStream <= IntMax
  PROVE  Spec => []PairsAreTheStream
<1>1. Init => Streaming
  BY StreamingInit
<1>2. CodecsInv /\ Streaming /\ [Next]_vars => Streaming'
  BY StreamingNext
<1>3. CodecsInv /\ Streaming => PairsAreTheStream
  BY StreamIsPairs
<1> QED BY <1>1, <1>2, <1>3, CodecsAlways, PTL DEF Spec

=============================================================================
