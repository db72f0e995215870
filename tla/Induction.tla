------------------------------ MODULE Induction ------------------------------
(* Induction over the naturals by the members of a set, and what it gives   *)
(* about folds over sequences.                                              *)
EXTENDS Integers, SequencesExt, FiniteSetTheorems, SequenceTheorems, TLAPS

(* Among sets that are finite one is smallest. *)
LEMMA FiniteSetMin ==
  ASSUME NEW S, NEW T, \A U \in T : U \subseteq S /\ IsFiniteSet(U), T # {}
  PROVE  \E U \in T : \A V \in T : ~(V \subseteq U /\ V # U)
  <1>1. T \subseteq FiniteSubsetsOf(S)  BY DEF FiniteSubsetsOf
  <1>2. \E x \in T : \A y \in T : <<y, x>> \notin StrictSubsetOrdering(S)
    BY <1>1, WFMin, FS_StrictSubsetOrderingWellFounded, Zenon
  <1>3. PICK x \in T : \A y \in T : <<y, x>> \notin StrictSubsetOrdering(S)  BY <1>2
  <1>4. ASSUME NEW y \in T PROVE ~(y \subseteq x /\ y # x)
    <2>1. <<y, x>> \in (SUBSET S) \X (SUBSET S)  OBVIOUS
    <2>2. y \subseteq x /\ y # x => <<y, x>> \in StrictSubsetOrdering(S)
      BY <2>1 DEF StrictSubsetOrdering
    <2> QED  BY <1>3, <2>2
  <1> QED  BY <1>4

(* A set of naturals has a least member: its intervals 1..n have a smallest one. *)
LEMMA LeastMember ==
  ASSUME NEW T, T \subseteq Nat, T # {}
  PROVE  \E x \in T : \A y \in T : x <= y
  <1> DEFINE TT == {1..n : n \in T}
  <1>1. \A U \in TT : U \subseteq Nat /\ IsFiniteSet(U)
    <2> TAKE U \in TT
    <2>1. PICK n \in T : U = 1..n  OBVIOUS
    <2> QED  BY FS_Interval, <2>1
  <1>2. TT # {}  OBVIOUS
  <1>3. PICK U \in TT : \A V \in TT : ~(V \subseteq U /\ V # U)
    <2> HIDE DEF TT
    <2> QED  BY <1>1, <1>2, FiniteSetMin
  <1>4. PICK x \in T : U = 1..x  OBVIOUS
  <1>5. ASSUME NEW y \in T PROVE x <= y
    <2>1. 1..y \in TT  OBVIOUS
    <2>2. ~(1..y \subseteq 1..x /\ 1..y # 1..x)  BY <1>3, <1>4, <2>1
    <2> QED  BY <2>2
  <1> QED  BY <1>5

(* Induction from 0 up to n, and without a bound. *)
LEMMA UpTo ==
  ASSUME NEW n \in Nat, NEW S, 0 \in S, \A k \in 0..n : k \in S /\ k < n => k + 1 \in S
  PROVE  0..n \subseteq S
  <1> SUFFICES ASSUME ~(0..n \subseteq S) PROVE FALSE  OBVIOUS
  <1> DEFINE T == 0..n \ S
  <1>1. T # {} /\ T \subseteq Nat  OBVIOUS
  <1>2. PICK x \in T : \A y \in T : x <= y
    <2> HIDE DEF T
    <2> QED  BY <1>1, LeastMember
  <1>3. x - 1 \in 0..n /\ x - 1 < n  OBVIOUS
  <1>4. x - 1 \in S  BY <1>2, <1>3
  <1> QED  BY <1>3, <1>4

(* A set that has 0 and is closed under successor has all numbers. *)
LEMMA AllNaturals ==
  ASSUME NEW S, 0 \in S, \A k \in Nat : k \in S => k + 1 \in S
  PROVE  Nat \subseteq S
  <1> SUFFICES ASSUME NEW n \in Nat PROVE n \in S  OBVIOUS
  <1>1. 0..n \subseteq S  BY UpTo
  <1> QED  BY <1>1

-----------------------------------------------------------------------------
(* Folds.  FoldLeft is defined by a function on the sets of indices; what   *)
(* follows takes the operator as a function of its own, step.               *)

(* iter is what FoldLeft's definition asks for, on the sets of 1..n. *)
Folds(iter, n, base, step) ==
  \A s \in SUBSET (1..n) :
    iter[s] = IF s = {} THEN base ELSE step[Max(s)][iter[s \ {Max(s)}]]

(* The greatest index of a set that has the last one. *)
LEMMA MaxInterval == ASSUME NEW k \in Nat, NEW s \in SUBSET (1..(k + 1)), k + 1 \in s PROVE Max(s) = k + 1
  <1>1. k + 1 \in s /\ \A y \in s : k + 1 >= y  OBVIOUS
  <1>2. ASSUME NEW x \in s, \A y \in s : x >= y PROVE x = k + 1
    <2>1. x >= k + 1 /\ x \in 1..(k + 1)  BY <1>2
    <2> QED  BY <2>1
  <1> QED  BY <1>1, <1>2 DEF Max

(* There is such a function. *)
LEMMA FoldExists ==
  ASSUME NEW n \in Nat, NEW X, NEW base \in X, NEW step \in [1..n -> [X -> X]]
  PROVE  \E iter \in [SUBSET (1..n) -> X] : Folds(iter, n, base, step)
  <1> DEFINE S == {k \in 0..n : \E iter \in [SUBSET (1..k) -> X] : Folds(iter, k, base, step)}
  <1>1. 0 \in S
    <2> DEFINE f == [s \in SUBSET (1..0) |-> base]
    <2>1. f \in [SUBSET (1..0) -> X] /\ Folds(f, 0, base, step)  BY DEF Folds
    <2> QED  BY <2>1
  <1>2. ASSUME NEW k \in 0..n, k \in S, k < n PROVE k + 1 \in S
    <2>1. PICK g \in [SUBSET (1..k) -> X] : Folds(g, k, base, step)  BY <1>2
    <2> DEFINE f == [s \in SUBSET (1..(k + 1)) |->
                       IF k + 1 \in s THEN step[k + 1][g[s \ {k + 1}]] ELSE g[s]]
    <2>2. \A s \in SUBSET (1..(k + 1)) : s \ {k + 1} \in SUBSET (1..k)  OBVIOUS
    <2>3. f \in [SUBSET (1..(k + 1)) -> X]
      <3> SUFFICES ASSUME NEW s \in SUBSET (1..(k + 1))
                   PROVE  (IF k + 1 \in s THEN step[k + 1][g[s \ {k + 1}]] ELSE g[s]) \in X
        OBVIOUS
      <3>1. g[s \ {k + 1}] \in X /\ (k + 1 \notin s => s \in SUBSET (1..k))  BY <2>2
      <3>2. step[k + 1] \in [X -> X]  BY <1>2
      <3> QED  BY <3>1, <3>2
    <2>4. ASSUME NEW s \in SUBSET (1..(k + 1))
          PROVE  f[s] = IF s = {} THEN base ELSE step[Max(s)][f[s \ {Max(s)}]]
      <3>1. CASE k + 1 \in s
        <4>1. Max(s) = k + 1  BY <3>1, MaxInterval
        <4>2. f[s \ {k + 1}] = g[s \ {k + 1}]  BY <2>2
        <4> QED  BY <3>1, <4>1, <4>2
      <3>2. CASE k + 1 \notin s
        <4>1. s \in SUBSET (1..k)  BY <2>2, <3>2
        <4>2. g[s] = IF s = {} THEN base ELSE step[Max(s)][g[s \ {Max(s)}]]  BY <2>1, <4>1, Zenon DEF Folds
        <4>3. f[s] = g[s] /\ f[s \ {Max(s)}] = g[s \ {Max(s)}]  BY <3>2, <4>1
        <4> QED  BY <4>2, <4>3
      <3> QED  BY <3>1, <3>2
    <2>5. Folds(f, k + 1, base, step)  BY <2>4, Zenon DEF Folds
    <2>6. k + 1 \in 0..n  BY <1>2
    <2> HIDE DEF f
    <2> QED  BY <2>3, <2>5, <2>6
  <1>3. 0..n \subseteq S
    <2> HIDE DEF S
    <2> QED  BY <1>1, <1>2, UpTo
  <1>4. n \in S
    <2> HIDE DEF S
    <2> QED  BY <1>3
  <1> QED  BY <1>4

(* On the intervals from 1 it goes up one step after another. *)
LEMMA FoldUnfolds ==
  ASSUME NEW n \in Nat, NEW X, NEW base \in X, NEW step \in [1..n -> [X -> X]],
         NEW iter, Folds(iter, n, base, step)
  PROVE  /\ iter[1..0] = base
         /\ \A k \in 1..n : iter[1..k] = step[k][iter[1..(k - 1)]]
         /\ \A k \in 0..n : iter[1..k] \in X
  <1>1. iter[1..0] = base
    <2>1. 1..0 = {} /\ {} \in SUBSET (1..n)  OBVIOUS
    <2>2. iter[{}] = base  BY <2>1, Zenon DEF Folds
    <2> QED  BY <2>1, <2>2
  <1>2. ASSUME NEW k \in 1..n PROVE iter[1..k] = step[k][iter[1..(k - 1)]]
    <2>1. Max(1..k) = k
      <3> DEFINE j == k - 1
      <3>1. j \in Nat /\ j + 1 = k  OBVIOUS
      <3>2. Max(1..(j + 1)) = j + 1
        <4> HIDE DEF j
        <4> QED  BY <3>1, MaxInterval
      <3> QED  BY <3>1, <3>2
    <2>2. 1..k \in SUBSET (1..n) /\ 1..k # {} /\ (1..k) \ {k} = 1..(k - 1)  OBVIOUS
    <2> QED  BY <2>1, <2>2 DEF Folds
  <1> DEFINE S == {k \in 0..n : iter[1..k] \in X}
  <1>3. 0..n \subseteq S
    <2>1. 0 \in S  BY <1>1
    <2>2. ASSUME NEW k \in 0..n, k \in S, k < n PROVE k + 1 \in S
      <3>1. iter[1..(k + 1)] = step[k + 1][iter[1..k]]  BY <1>2, <2>2
      <3>2. step[k + 1] \in [X -> X]  BY <2>2
      <3> QED  BY <2>2, <3>1, <3>2
    <2> HIDE DEF S
    <2> QED  BY <2>1, <2>2, UpTo
  <1> QED  BY <1>1, <1>2, <1>3

(* A function on an interval from 1 is a sequence. *)
LEMMA FunctionIsSeq ==
  ASSUME NEW S, NEW n \in Nat, NEW f \in [1..n -> S]
  PROVE  f \in Seq(S) /\ Len(f) = n
  <1>1. f \in Seq(S)  BY SeqDef
  <1>2. DOMAIN f = 1..n /\ DOMAIN f = 1..Len(f) /\ Len(f) \in Nat  BY <1>1, LenProperties
  <1>3. \A a, b \in Nat : 1..a = 1..b => a = b
    <2> SUFFICES ASSUME NEW a \in Nat, NEW b \in Nat, 1..a = 1..b PROVE a = b  OBVIOUS
    <2>1. \A x \in Int : x >= 1 /\ x <= a <=> x >= 1 /\ x <= b
      <3> SUFFICES ASSUME NEW x \in Int PROVE x \in 1..a <=> x \in 1..b  OBVIOUS
      <3> QED  OBVIOUS
    <2>2. (a >= 1 => a <= b) /\ (b >= 1 => b <= a)  BY <2>1
    <2> QED  BY <2>2
  <1> QED  BY <1>1, <1>2, <1>3

(* The greatest index of a set of indices, and of an interval from 1. *)
LEMMA MaxIndex ==
  ASSUME NEW n \in Nat, NEW s \in SUBSET (1..n), s # {}
  PROVE  Max(s) \in s /\ \A y \in s : Max(s) >= y
  <1> DEFINE T == {n - x : x \in s}
  <1>1. T \subseteq Nat /\ T # {}
    <2>1. \A x \in s : x \in Int /\ x <= n  OBVIOUS
    <2>2. \A x \in s : n - x \in Nat  BY <2>1
    <2>3. PICK x \in s : TRUE  OBVIOUS
    <2>4. n - x \in T  OBVIOUS
    <2> QED  BY <2>2, <2>4
  <1>2. PICK t \in T : \A y \in T : t <= y
    <2> HIDE DEF T
    <2> QED  BY <1>1, LeastMember
  <1>3. PICK x \in s : t = n - x  OBVIOUS
  <1>4. ASSUME NEW y \in s PROVE x >= y
    <2>1. n - y \in T  OBVIOUS
    <2> QED  BY <1>2, <1>3, <2>1
  <1> QED  BY <1>4 DEF Max

(* The greatest index of an interval from 1. *)
LEMMA MaxUpTo ==
  ASSUME NEW k \in Nat \ {0}
  PROVE  Max(1..k) = k /\ (1..k) \ {k} = 1..(k - 1) /\ 1..k # {}
  <1>1. k \in Nat /\ 1..k \in SUBSET (1..k) /\ 1..k # {} /\ k \in 1..k  OBVIOUS
  <1>2. Max(1..k) \in 1..k /\ Max(1..k) >= k  BY <1>1, MaxIndex
  <1> QED  BY <1>1, <1>2

(* f is defined by primitive recursion up to n. *)
Recurs(f, n, base, step) == f[0] = base /\ \A k \in 1..n : f[k] = step[k][f[k - 1]]

(* There is such a function. *)
LEMMA RecursionExists ==
  ASSUME NEW n \in Nat, NEW X, NEW base \in X, NEW step \in [1..n -> [X -> X]]
  PROVE  \E f \in [0..n -> X] : Recurs(f, n, base, step)
  <1>1. PICK iter \in [SUBSET (1..n) -> X] : Folds(iter, n, base, step)  BY FoldExists
  <1> DEFINE f == [k \in 0..n |-> iter[1..k]]
  <1>2. /\ iter[1..0] = base
        /\ \A k \in 1..n : iter[1..k] = step[k][iter[1..(k - 1)]]
        /\ \A k \in 0..n : iter[1..k] \in X
    BY <1>1, FoldUnfolds
  <1>3. f \in [0..n -> X] /\ f[0] = base  BY <1>2
  <1>4. ASSUME NEW k \in 1..n PROVE f[k] = step[k][f[k - 1]]  BY <1>2, <1>4
  <1> QED  BY <1>3, <1>4 DEF Recurs
=============================================================================
