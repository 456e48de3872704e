------------------------------- MODULE Maxima -------------------------------
(***************************************************************************)
(* Max is a CHOOSE: it means something only for a bounded, non-empty set   *)
(* of numbers, which is what the ids in a journal are.  Every counter that *)
(* a process restores from the journal is such a maximum.                  *)
(***************************************************************************)
EXTENDS Naturals, FiniteSetsExt, TLAPS, WellFoundedInduction

\* A bounded, non-empty set of natural numbers contains its Max.
LEMMA MaxInSet ==
    ASSUME NEW S \in SUBSET Nat, S # {},
           NEW b \in Nat, \A x \in S : x <= b
    PROVE  Max(S) \in S /\ \A x \in S : x <= Max(S)
<1> DEFINE Gaps == {b - x : x \in S}
<1>1. Gaps \subseteq Nat /\ Gaps # {}
  <2>1. \A x \in S : b - x \in Nat
    BY SMT
  <2>2. PICK x \in S : TRUE
    OBVIOUS
  <2>3. b - x \in Gaps
    BY <2>2
  <2> QED BY <2>1, <2>3
<1>2. PICK d \in Gaps : \A e \in Gaps : ~(<<e, d>> \in OpToRel(<, Nat))
  <2> HIDE DEF Gaps
  <2> QED BY <1>1, WFMin, NatLessThanWellFounded, Zenon
<1>3. PICK m \in S : d = b - m
  OBVIOUS
<1>4. \A x \in S : m >= x
  <2> SUFFICES ASSUME NEW x \in S PROVE m >= x
    OBVIOUS
  <2>1. ~(<<b - x, d>> \in OpToRel(<, Nat))
    BY <1>2
  <2>2. ~(b - x < d)
    BY <2>1, <1>1, <1>3 DEF OpToRel
  <2> QED BY <2>2, <1>3, SMT
<1>5. \E y \in S : \A x \in S : y >= x
  BY <1>4
<1>6. Max(S) \in S /\ \A x \in S : Max(S) >= x
  BY <1>5 DEF Max
<1> QED BY <1>6, SMT

\* Induction up to a bound, for a set of numbers.
LEMMA UpTo ==
    ASSUME NEW n \in Nat, NEW S, 0 \in S, \A m \in 1..n : m - 1 \in S => m \in S
    PROVE  \A m \in 0..n : m \in S
<1> DEFINE Bad == {m \in 0..n : m \notin S}
<1>1. SUFFICES ASSUME Bad # {} PROVE FALSE
  OBVIOUS
<1>2. Bad \subseteq Nat
  BY SMT
<1>3. PICK m \in Bad : \A k \in Bad : ~(<<k, m>> \in OpToRel(<, Nat))
  <2> HIDE DEF Bad
  <2> QED BY <1>1, <1>2, WFMin, NatLessThanWellFounded, Zenon
<1>4. m \in 0..n /\ m \notin S /\ m # 0
  OBVIOUS
<1>5. m \in 1..n /\ m - 1 \in 0..n
  BY <1>4, SMT
<1>6. m - 1 \in S
  <2>1. <<m - 1, m>> \in OpToRel(<, Nat)
    BY <1>5, SMT DEF OpToRel
  <2> QED BY <2>1, <1>3, <1>5
<1> QED BY <1>4, <1>5, <1>6

\* A finite list of natural numbers has an upper bound.
LEMMA ListBounded ==
    ASSUME NEW n \in Nat, NEW f \in [1..n -> Nat]
    PROVE  \E b \in Nat : \A i \in 1..n : f[i] <= b
<1> DEFINE B(m) == \E b \in Nat : \A i \in 1..m : f[i] <= b
           Bad  == {m \in 0..n : ~B(m)}
<1>1. SUFFICES Bad = {}
  <2>1. n \in 0..n
    BY SMT
  <2>2. Bad = {} => B(n)
    BY <2>1
  <2> QED BY <2>2
<1>2. SUFFICES ASSUME Bad # {} PROVE FALSE
  OBVIOUS
<1>3. Bad \subseteq Nat
  BY SMT
<1>4. PICK m \in Bad : \A k \in Bad : ~(<<k, m>> \in OpToRel(<, Nat))
  <2> HIDE DEF Bad
  <2> QED BY <1>2, <1>3, WFMin, NatLessThanWellFounded, Zenon
<1>5. m \in 0..n /\ ~B(m)
  OBVIOUS
<1>6. m # 0
  <2>1. 1..0 = {}
    BY SMT
  <2>2. B(0)
    BY <2>1
  <2> QED BY <2>2, <1>5
<1>7. m - 1 \in 0..n /\ m \in 1..n
  BY <1>5, <1>6, SMT
<1>8. B(m - 1)
  <2>1. <<m - 1, m>> \in OpToRel(<, Nat)
    BY <1>7, SMT DEF OpToRel
  <2> QED BY <2>1, <1>4, <1>7
<1>9. PICK b \in Nat : \A i \in 1..(m - 1) : f[i] <= b
  BY <1>8
<1>10. PICK c \in Nat : b <= c /\ f[m] <= c
  <2>1. f[m] \in Nat
    BY <1>7
  <2>2. CASE f[m] <= b
    BY <2>1, <2>2, SMT
  <2>3. CASE ~(f[m] <= b)
    BY <2>1, <2>3, SMT
  <2> QED BY <2>2, <2>3
<1>11. \A i \in 1..m : f[i] <= c
  <2> SUFFICES ASSUME NEW i \in 1..m PROVE f[i] <= c
    OBVIOUS
  <2>1. CASE i = m
    BY <2>1, <1>10
  <2>2. CASE i # m
    <3>1. i \in 1..(m - 1) /\ i \in 1..n
      BY <2>2, <1>7, SMT
    <3>2. f[i] <= b /\ f[i] \in Nat
      BY <3>1, <1>9
    <3> QED BY <3>2, <1>10, SMT
  <2> QED BY <2>1, <2>2
<1> QED BY <1>5, <1>11

\* The highest of the ids listed in n lines, or 0 when there is none: a number,
\* and no id is above it.
LEMMA MaxOfListed ==
    ASSUME NEW n \in Nat, NEW f \in [1..n -> Nat], NEW S,
           S \subseteq {f[i] : i \in 1..n}
    PROVE  /\ Max(S \cup {0}) \in Nat
           /\ \A x \in S : x <= Max(S \cup {0})
<1>1. PICK b \in Nat : \A i \in 1..n : f[i] <= b
  BY ListBounded
<1> DEFINE T == S \cup {0}
<1>2. T \in SUBSET Nat /\ T # {} /\ \A x \in T : x <= b
  BY <1>1
<1> HIDE DEF T
<1>3. Max(T) \in T /\ \A x \in T : x <= Max(T)
  BY <1>2, MaxInSet
<1> QED BY <1>2, <1>3 DEF T
=============================================================================
