------------------------------ MODULE SetLemmas ------------------------------
(***************************************************************************)
(* Extrema and prefixes of finite sets of numbers: what the proofs need of *)
(* Max, Min and Cardinality.                                               *)
(***************************************************************************)
EXTENDS FiniteSetsExt, FiniteSetTheorems, TLAPS

\* A finite, non-empty set of integers has a greatest and a least element.  The
\* induction over its subsets is well-founded: a smallest counterexample U loses
\* an element, and what is left has extrema.
LEMMA FiniteExtrema ==
    ASSUME NEW S \in SUBSET Int, IsFiniteSet(S), S # {}
    PROVE  /\ \E x \in S : \A y \in S : x >= y
           /\ \E x \in S : \A y \in S : x <= y
<1> DEFINE Good(U) == /\ \E x \in U : \A y \in U : x >= y
                      /\ \E x \in U : \A y \in U : x <= y
           Bad == {U \in SUBSET S : U # {} /\ ~Good(U)}
<1> SUFFICES ASSUME Bad # {} PROVE FALSE
  OBVIOUS
<1>1. Bad \subseteq FiniteSubsetsOf(S)
  BY FS_Subset DEF FiniteSubsetsOf
<1>2. PICK U \in Bad : \A V \in Bad : <<V, U>> \notin StrictSubsetOrdering(S)
  BY <1>1, FS_StrictSubsetOrderingWellFounded, WFMin
<1>3. PICK u \in U : TRUE
  OBVIOUS
<1> DEFINE V == U \ {u}
<1>4. <<V, U>> \in StrictSubsetOrdering(S)
  BY <1>3 DEF StrictSubsetOrdering
<1>5. V \notin Bad
  BY <1>2, <1>4
<1>6. CASE V = {}
  <2>1. U = {u} /\ u \in Int
    BY <1>3, <1>6
  <2>2. u >= u /\ u <= u
    BY <2>1
  <2>3. QED
    BY <2>1, <2>2
<1>7. CASE V # {}
  <2>1. Good(V)
    BY <1>5, <1>7
  <2>2. PICK m \in V : \A y \in V : m >= y
    BY <2>1
  <2>3. PICK n \in V : \A y \in V : n <= y
    BY <2>1
  <2>4. u \in Int /\ m \in Int /\ n \in Int /\ U \subseteq Int
    BY <1>3
  <2>5. \E x \in U : \A y \in U : x >= y
    <3>1. CASE m >= u
      BY <2>2, <2>4, <3>1
    <3>2. CASE u >= m
      BY <1>3, <2>2, <2>4, <3>2
    <3>3. QED
      BY <2>4, <3>1, <3>2
  <2>6. \E x \in U : \A y \in U : x <= y
    <3>1. CASE n <= u
      BY <2>3, <2>4, <3>1
    <3>2. CASE u <= n
      BY <1>3, <2>3, <2>4, <3>2
    <3>3. QED
      BY <2>4, <3>1, <3>2
  <2>7. QED
    BY <2>5, <2>6
<1>8. QED
  BY <1>6, <1>7

\* Max and Min of such a set are its greatest and its least element.
LEMMA MaxProperty ==
    ASSUME NEW S \in SUBSET Int, IsFiniteSet(S), S # {}
    PROVE  Max(S) \in S /\ \A y \in S : Max(S) >= y
<1>1. \E x \in S : \A y \in S : x >= y
  BY FiniteExtrema
<1>2. QED
  BY <1>1 DEF Max

\* The minimum of a non-empty finite set of integers is its least element.
LEMMA MinProperty ==
    ASSUME NEW S \in SUBSET Int, IsFiniteSet(S), S # {}
    PROVE  Min(S) \in S /\ \A y \in S : Min(S) <= y
<1>1. \E x \in S : \A y \in S : x <= y
  BY FiniteExtrema
<1>2. QED
  BY <1>1 DEF Min

\* An element that is at least as large as all the others is the maximum.
LEMMA MaxIs ==
    ASSUME NEW S \in SUBSET Int, NEW m \in S, \A y \in S : m >= y
    PROVE  Max(S) = m
<1>1. \E x \in S : \A y \in S : x >= y
  OBVIOUS
<1>2. Max(S) \in S /\ \A y \in S : Max(S) >= y
  BY <1>1 DEF Max
<1>3. Max(S) \in Int /\ m \in Int /\ Max(S) >= m /\ m >= Max(S)
  BY <1>2
<1>4. QED
  BY <1>3

\* A set of indices of a sequence has a greatest element.
LEMMA IndexMax ==
    ASSUME NEW n \in Nat, NEW C \in SUBSET (1..n), C # {}
    PROVE  Max(C) \in C /\ \A j \in C : Max(C) >= j
<1>1. IsFiniteSet(1..n)
  BY FS_Interval
<1>2. IsFiniteSet(C)
  BY <1>1, FS_Subset
<1>3. C \in SUBSET Int
  OBVIOUS
<1>4. QED
  BY <1>2, <1>3, MaxProperty

\* A property of 0 that passes from each number to the next holds up to N.
LEMMA UpTo ==
    ASSUME NEW N \in Nat, NEW S, 0 \in S, \A n \in 1..N : n - 1 \in S => n \in S
    PROVE  \A n \in 0..N : n \in S
<1>1. PICK B : B = {n \in 0..N : n \notin S}
  OBVIOUS
<1> SUFFICES ASSUME B # {} PROVE FALSE
  BY <1>1
<1>2. IsFiniteSet(0..N)
  BY FS_Interval
<1>3. IsFiniteSet(B) /\ B \in SUBSET Int
  BY <1>1, <1>2, FS_Subset
<1>4. PICK m \in B : \A n \in B : m <= n
  BY <1>3, MinProperty
<1>5. m \in 0..N /\ m \notin S /\ m # 0
  BY <1>1, <1>4
<1>6. m \in 1..N /\ m - 1 \in 0..N /\ m - 1 \in Int /\ m \in Int
  BY <1>5
<1>7. m - 1 \notin B
  BY <1>4, <1>6
<1>8. QED
  BY <1>1, <1>5, <1>6, <1>7
==============================================================================
