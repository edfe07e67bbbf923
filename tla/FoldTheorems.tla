---------------------------- MODULE FoldTheorems ----------------------------
(***************************************************************************)
(* Induction, for the proofs about loops.  The library states induction    *)
(* for an operator P(_), which is no first-order formula; here it is       *)
(* stated for the set of the numbers that have the property, and for the   *)
(* set of the values that an accumulator may have after k turns.           *)
(***************************************************************************)
EXTENDS Integers, FiniteSets, FiniteSetsExt, FiniteSetTheorems,
        WellFoundedInduction, TLAPS

CONSTANTS
    Step(_, _, _, _),   \* the body: parameter, list, accumulator, index
    Pick(_)             \* which element of a set of indices comes last

\* A fold of the community modules over the indices in D, written out.
Run(p, q, base, D) ==
    (CHOOSE iter : iter = [s \in SUBSET D |->
        IF s = {} THEN base
        ELSE Step(p, q, iter[s \ {Pick(s)}], Pick(s))])[D]

---------------------------------------------------------------------------
(* Numbers.                                                                *)

LEMMA LeastNumber ==
    ASSUME NEW T \in SUBSET Nat, T # {}
    PROVE  \E m \in T : \A n \in T : m <= n
<1> DEFINE R == OpToRel(<, Nat)
<1>1. IsWellFoundedOn(R, Nat)
  BY NatLessThanWellFounded
<1>2. \A x, y \in Nat : <<x, y>> \in R <=> x < y
  BY DEF OpToRel
<1> HIDE DEF R
<1>3. PICK m \in T : \A n \in T : ~ (<<n, m>> \in R)
  BY <1>1, WFMin
<1>4. m \in Nat /\ \A n \in T : n \in Nat /\ ~ (n < m)
  BY <1>2, <1>3
<1> QED
  BY <1>4

LEMMA NatSetInduction ==
    ASSUME NEW S, 0 \in S, \A n \in Nat : n \in S => n + 1 \in S
    PROVE  Nat \subseteq S
<1> SUFFICES ASSUME Nat \ S # {} PROVE FALSE
  OBVIOUS
<1>1. PICK m \in Nat \ S : \A n \in Nat \ S : m <= n
  BY LeastNumber
<1>2. m # 0 /\ m - 1 \in Nat /\ m - 1 \in S
  BY <1>1
<1> QED
  BY <1>1, <1>2

LEMMA MaxOfInterval ==
    ASSUME NEW n \in Nat, n # 0
    PROVE  Max(1..n) = n
BY DEF Max

LEMMA MaxIsGreatest ==
    ASSUME NEW T \in SUBSET Nat, T # {}, NEW n \in Nat, \A k \in T : k <= n
    PROVE  Max(T) \in T /\ \A k \in T : k <= Max(T)
<1> DEFINE U == {n - k : k \in T}
<1>1. \A k \in T : n - k \in Nat
  OBVIOUS
<1>2. PICK m \in U : \A u \in U : m <= u
  <2>1. U \in SUBSET Nat /\ U # {}
    BY <1>1
  <2> HIDE DEF U
  <2> QED
    BY <2>1, LeastNumber
<1>3. PICK k \in T : m = n - k
  OBVIOUS
<1>4. \A j \in T : k >= j
  <2>1. TAKE j \in T
  <2>2. n - k <= n - j
    BY <1>2, <1>3
  <2> QED
    BY <2>2
<1> QED
  BY <1>3, <1>4 DEF Max

---------------------------------------------------------------------------
(* Folds.                                                                  *)

\* What a function has to satisfy to be the fold's.
Folds(g, p, q, base, D) ==
    g = [s \in SUBSET D |->
            IF s = {} THEN base ELSE Step(p, q, g[s \ {Pick(s)}], Pick(s))]

\* Two such functions agree on what both are defined for.
LEMMA FoldsAgree ==
    ASSUME NEW p, NEW q, NEW base, NEW D, IsFiniteSet(D),
           \A s \in SUBSET D : s # {} => Pick(s) \in s,
           NEW E \in SUBSET D, NEW g, NEW h, Folds(g, p, q, base, D), Folds(h, p, q, base, E)
    PROVE  \A s \in SUBSET E : g[s] = h[s]
<1> DEFINE S == {k \in Nat : \A s \in SUBSET E : Cardinality(s) <= k => g[s] = h[s]}
<1>0. \A s \in SUBSET E : IsFiniteSet(s) /\ Cardinality(s) \in Nat /\ s \in SUBSET D
  BY FS_Subset, FS_CardinalityType
<1>1. \A s \in SUBSET E :
         /\ g[s] = IF s = {} THEN base ELSE Step(p, q, g[s \ {Pick(s)}], Pick(s))
         /\ h[s] = IF s = {} THEN base ELSE Step(p, q, h[s \ {Pick(s)}], Pick(s))
  <2>1. TAKE s \in SUBSET E
  <2>2. g[s] = IF s = {} THEN base ELSE Step(p, q, g[s \ {Pick(s)}], Pick(s))
    BY <1>0, Zenon DEF Folds
  <2>3. h[s] = IF s = {} THEN base ELSE Step(p, q, h[s \ {Pick(s)}], Pick(s))
    BY Zenon DEF Folds
  <2> QED
    BY <2>2, <2>3
<1>2. 0 \in S
  <2>1. \A s \in SUBSET E : Cardinality(s) <= 0 => s = {}
    BY <1>0, FS_EmptySet
  <2> QED
    BY <1>1, <2>1
<1>3. ASSUME NEW k \in Nat, k \in S PROVE k + 1 \in S
  <2>1. SUFFICES ASSUME NEW s \in SUBSET E, Cardinality(s) <= k + 1, s # {}
                 PROVE  g[s] = h[s]
    BY <1>1
  <2>2. Pick(s) \in s
    BY <1>0, <2>1
  <2>3. s \ {Pick(s)} \in SUBSET E /\ Cardinality(s \ {Pick(s)}) <= k
    BY <1>0, <2>1, <2>2, FS_RemoveElement
  <2>4. g[s \ {Pick(s)}] = h[s \ {Pick(s)}]
    BY <1>3, <2>3
  <2> QED
    BY <1>1, <2>1, <2>4
<1>4. Nat \subseteq S
  <2> HIDE DEF S
  <2> QED
    BY <1>2, <1>3, NatSetInduction
<1> QED
  BY <1>0, <1>4

LEMMA FoldExists ==
    ASSUME NEW p, NEW q, NEW base, NEW D, IsFiniteSet(D),
           \A s \in SUBSET D : s # {} => Pick(s) \in s
    PROVE  \E g : Folds(g, p, q, base, D)
<1> DEFINE Small(k) == {s \in SUBSET D : Cardinality(s) <= k}
           FoldsTo(g, k) ==
              g = [s \in Small(k) |->
                     IF s = {} THEN base ELSE Step(p, q, g[s \ {Pick(s)}], Pick(s))]
           S == {k \in Nat : \E g : FoldsTo(g, k)}
<1>0. \A s \in SUBSET D : IsFiniteSet(s) /\ Cardinality(s) \in Nat
  BY FS_Subset, FS_CardinalityType
<1>1. 0 \in S
  <2> DEFINE g == [s \in Small(0) |-> base]
  <2>1. \A s \in Small(0) : s = {}
    BY <1>0, FS_EmptySet
  <2>2. FoldsTo(g, 0)
    BY <2>1
  <2> QED
    BY <2>2
<1>2. ASSUME NEW k \in Nat, k \in S PROVE k + 1 \in S
  <2>1. PICK g : FoldsTo(g, k)
    BY <1>2
  <2> DEFINE h == [s \in Small(k + 1) |->
                     IF s = {} THEN base ELSE Step(p, q, g[s \ {Pick(s)}], Pick(s))]
  <2>2. \A s \in Small(k) : s \in Small(k + 1) /\ h[s] = g[s]
    <3>1. TAKE s \in Small(k)
    <3>2. s \in Small(k + 1)
      BY <1>0
    <3>3. g[s] = IF s = {} THEN base ELSE Step(p, q, g[s \ {Pick(s)}], Pick(s))
      BY <2>1, Zenon
    <3> QED
      BY <3>2, <3>3
  <2>3. \A s \in Small(k + 1) : s # {} => s \ {Pick(s)} \in Small(k)
    <3>1. TAKE s \in Small(k + 1)
    <3>2. HAVE s # {}
    <3>3. Pick(s) \in s
      BY <3>2
    <3> QED
      BY <1>0, <3>3, FS_RemoveElement
  <2>4. FoldsTo(h, k + 1)
    <3>1. \A s \in Small(k + 1) :
             (IF s = {} THEN base ELSE Step(p, q, g[s \ {Pick(s)}], Pick(s)))
             = (IF s = {} THEN base ELSE Step(p, q, h[s \ {Pick(s)}], Pick(s)))
      <4> HIDE DEF h, Small
      <4> QED
        BY <2>2, <2>3
    <3> HIDE DEF Small
    <3> QED
      BY <3>1
  <2>5. \E f : FoldsTo(f, k + 1)
    <3> HIDE DEF h, FoldsTo
    <3> QED
      BY <2>4
  <2> HIDE DEF FoldsTo
  <2> QED
    BY <2>5
<1>3. Nat \subseteq S
  <2> HIDE DEF S
  <2> QED
    BY <1>1, <1>2, NatSetInduction
<1>4. Cardinality(D) \in Nat
  BY <1>0
<1>5. PICK g : FoldsTo(g, Cardinality(D))
  BY <1>3, <1>4
<1>6. Small(Cardinality(D)) = SUBSET D
  BY FS_Subset
<1> HIDE DEF Small
<1> QED
  BY <1>5, <1>6 DEF Folds

(* A fold handles the picked index last.                                   *)
LEMMA RunUnfolds ==
    ASSUME NEW p, NEW q, NEW base, NEW D, IsFiniteSet(D),
           \A s \in SUBSET D : s # {} => Pick(s) \in s
    PROVE  Run(p, q, base, D) =
              IF D = {} THEN base
              ELSE Step(p, q, Run(p, q, base, D \ {Pick(D)}), Pick(D))
<1> DEFINE Fold(E) == CHOOSE g : Folds(g, p, q, base, E)
<1>1. ASSUME NEW E \in SUBSET D PROVE Folds(Fold(E), p, q, base, E)
  <2>1. IsFiniteSet(E) /\ \A s \in SUBSET E : s # {} => Pick(s) \in s
    BY FS_Subset
  <2>2. \E g : Folds(g, p, q, base, E)
    BY <2>1, FoldExists
  <2> QED
    BY <2>2
<1>2. \A E : Run(p, q, base, E) = Fold(E)[E]
  BY DEF Run, Folds
<1> DEFINE g == Fold(D)
           E == D \ {Pick(D)}
<1>3. Folds(g, p, q, base, D) /\ Folds(Fold(E), p, q, base, E)
  BY <1>1
<1>4. g[E] = Fold(E)[E]
  <2> HIDE DEF Fold, g
  <2> QED
    BY <1>3, FoldsAgree
<1> HIDE DEF g
<1>5. g[D] = IF D = {} THEN base ELSE Step(p, q, g[D \ {Pick(D)}], Pick(D))
  BY <1>3, Zenon DEF Folds
<1>6. Run(p, q, base, D) = g[D] /\ Run(p, q, base, E) = g[E]
  BY <1>2, <1>4 DEF g
<1> QED
  BY ONLY <1>5, <1>6
---------------------------------------------------------------------------
(* Loops over a list, whose last index is the greatest.                    *)

(* Whatever values the accumulator may have after k turns: if the body keeps *)
(* to them, the loop ends with one that is possible after all turns.         *)
LEMMA LoopInvariant ==
    ASSUME NEW p, NEW q, NEW base, NEW n \in Nat, NEW J,
           \A s \in SUBSET (1..n) : s # {} => Pick(s) = Max(s),
           base \in J[0],
           \A k \in 1..n : \A a \in J[k - 1] : Step(p, q, a, k) \in J[k]
    PROVE  Run(p, q, base, 1..n) \in J[n]
<1> DEFINE S == {k \in Nat : k <= n => Run(p, q, base, 1..k) \in J[k]}
<1>0. \A D : IsFiniteSet(D) /\ (\A s \in SUBSET D : s # {} => Pick(s) \in s) =>
         Run(p, q, base, D) =
            IF D = {} THEN base
            ELSE Step(p, q, Run(p, q, base, D \ {Pick(D)}), Pick(D))
  BY RunUnfolds
<1>1. \A k \in Nat : k <= n =>
         Run(p, q, base, 1..k) =
            IF k = 0 THEN base ELSE Step(p, q, Run(p, q, base, 1..k - 1), k)
  <2>1. TAKE k \in Nat
  <2>2. HAVE k <= n
  <2>3. IsFiniteSet(1..k)
    BY FS_Interval
  <2>4. \A s \in SUBSET (1..k) : s # {} => Pick(s) \in s
    <3>1. TAKE s \in SUBSET (1..k)
    <3>2. HAVE s # {}
    <3>3. Max(s) \in s
      BY <3>2, MaxIsGreatest
    <3> QED
      BY <2>2, <3>2, <3>3
  <2>5. Run(p, q, base, 1..k) =
           IF 1..k = {} THEN base
           ELSE Step(p, q, Run(p, q, base, (1..k) \ {Pick(1..k)}), Pick(1..k))
    BY ONLY <1>0, <2>3, <2>4, Zenon
  <2>6. CASE k = 0
    <3>1. 1..k = {}
      BY <2>6
    <3> QED
      BY <2>5, <2>6, <3>1
  <2>7. CASE k # 0
    <3>1. Max(1..k) = k
      BY <2>7, MaxOfInterval
    <3>2. 1..k # {} /\ (1..k) \ {k} = 1..k - 1
      <4>1. k \in 1..k
        BY <2>7
      <4>2. \A i : i \in (1..k) \ {k} <=> i \in 1..k - 1
        OBVIOUS
      <4> QED
        BY <4>1, <4>2
    <3>3. 1..k \in SUBSET (1..n)
      BY <2>2
    <3>4. Pick(1..k) = k
      BY ONLY <3>1, <3>2, <3>3, \A s \in SUBSET (1..n) : s # {} => Pick(s) = Max(s)
    <3> QED
      BY <2>5, <2>7, <3>2, <3>4
  <2> QED
    BY <2>6, <2>7
<1>2. 0 \in S
  BY <1>1
<1>3. ASSUME NEW k \in Nat, k \in S PROVE k + 1 \in S
  <2>1. SUFFICES ASSUME k + 1 <= n PROVE Run(p, q, base, 1..k + 1) \in J[k + 1]
    OBVIOUS
  <2>2. Run(p, q, base, 1..k) \in J[k]
    BY <1>3, <2>1
  <2>3. k + 1 \in 1..n /\ (k + 1) - 1 = k
    BY <2>1
  <2>4. Step(p, q, Run(p, q, base, 1..k), k + 1) \in J[k + 1]
    BY <2>2, <2>3
  <2>5. Run(p, q, base, 1..k + 1) = Step(p, q, Run(p, q, base, 1..k), k + 1)
    BY <1>1, <2>1, <2>3
  <2> QED
    BY <2>4, <2>5
<1> HIDE DEF S
<1>4. n \in S
  BY <1>2, <1>3, NatSetInduction
<1> QED
  BY <1>4 DEF S
=============================================================================
