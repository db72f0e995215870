---------------------------- MODULE BindingProofs ----------------------------
(* What TLAPS proves of the decisions a binding request rests on and of      *)
(* RequestBinding, for all values of their constants.                       *)
EXTENDS BindingRules, BindingEngine, RegistryProofs

-----------------------------------------------------------------------------
(* The sort.                                                               *)

\* The pair of places that round k compares.
Row(n, k) == (k - 1) \div n + 1
Col(n, k) == ((k - 1) % n) + 1

(* Each round is about two places, and the rounds go through the rows in order. *)
LEMMA RoundIs ==
  ASSUME NEW n \in Nat, NEW k \in 1..(n * n)
  PROVE  Row(n, k) \in 1..n /\ Col(n, k) \in 1..n /\ k = (Row(n, k) - 1) * n + Col(n, k)
  <1>1. n > 0  OBVIOUS
  <1> DEFINE q == (k - 1) \div n
             m == (k - 1) % n
  <1>2. q \in Int /\ m \in 0..(n - 1) /\ k - 1 = n * q + m  BY <1>1
  <1> HIDE DEF q, m
  <1>3. q >= 0
    <2> SUFFICES ASSUME q <= -1 PROVE FALSE  BY <1>2
    <2>1. n * q <= -n  BY <1>1, <1>2
    <2> QED  BY <1>2, <2>1
  <1>4. q < n
    <2> SUFFICES ASSUME q >= n PROVE FALSE  BY <1>2
    <2>1. n * q >= n * n  BY <1>1, <1>2
    <2> QED  BY <1>2, <2>1
  <1> QED  BY <1>2, <1>3, <1>4 DEF q, m, Row, Col

\* f holds the sequence after each round.
Rounds(score, s, f) ==
  LET n == Len(s)
  IN  /\ f[0] = s
      /\ \A k \in 1..n * n :
           f[k] = IF Row(n, k) < Col(n, k) THEN Exchange(score, f[k - 1], Row(n, k), Col(n, k))
                  ELSE f[k - 1]

(* A round exchanges two elements or none. *)
LEMMA ExchangeType ==
  ASSUME NEW S, NEW score, NEW n \in Nat, NEW s \in [1..n -> S], NEW i \in 1..n, NEW j \in 1..n
  PROVE  Exchange(score, s, i, j) \in [1..n -> S]
  BY DEF Exchange

(* The recursive function that defines SortDescending. *)
LEMMA SortUnfolds ==
  ASSUME NEW S, NEW s \in Seq(S), NEW score
  PROVE  \E f \in [0..Len(s) * Len(s) -> [1..Len(s) -> S]] :
           Rounds(score, s, f) /\ SortDescending(score, s) = f[Len(s) * Len(s)]
  <1> DEFINE n == Len(s)
             N == n * n
             X == [1..n -> S]
             Round(k, t) == IF Row(n, k) < Col(n, k) THEN Exchange(score, t, Row(n, k), Col(n, k))
                            ELSE t
             go == [k \in 1..N |-> [t \in X |-> Round(k, t)]]
             Unfolds(f) == f = [k \in 0..N |-> IF k = 0 THEN s ELSE Round(k, f[k - 1])]
             after == CHOOSE f : Unfolds(f)
  <1>1. n \in Nat /\ N \in Nat /\ s \in X  OBVIOUS
  <1>2. SortDescending(score, s) = after[N]  BY Zenon DEF SortDescending, Row, Col
  <1>3. \A k \in 1..N, t \in X : Round(k, t) \in X
    <2> HIDE DEF n
    <2> QED  BY <1>1, RoundIs, ExchangeType
  <1>r. Rounds(score, s, after) <=> after[0] = s /\ \A k \in 1..N : after[k] = Round(k, after[k - 1])
    <2> HIDE DEF after
    <2> QED  BY Zenon DEF Rounds
  <1> HIDE DEF Round, N
  <1>4. \E f : Unfolds(f)
    <2>1. go \in [1..N -> [X -> X]]
      <3> HIDE DEF X
      <3> QED  BY <1>3
    <2>2. PICK f \in [0..N -> X] : Recurs(f, N, s, go)
      <3> HIDE DEF X, go
      <3> QED  BY <1>1, <2>1, RecursionExists
    <2> HIDE DEF X
    <2>3. ASSUME NEW k \in 1..N PROVE f[k] = Round(k, f[k - 1])
      <3>1. k - 1 \in 0..N  BY <1>1
      <3> QED  BY <2>2, <3>1 DEF Recurs
    <2>4. Unfolds(f)
      <3>1. \A k \in 0..N : f[k] = IF k = 0 THEN s ELSE Round(k, f[k - 1])
        BY <1>1, <2>2, <2>3 DEF Recurs
      <3> QED  BY <2>2, <3>1
    <2> HIDE DEF Unfolds
    <2> QED  BY <2>4
  <1>5. Unfolds(after)
    <2> HIDE DEF Unfolds
    <2> QED  BY <1>4, Zenon
  <1> HIDE DEF after, X
  <1>6. /\ DOMAIN after = 0..N /\ after[0] = s
        /\ \A k \in 1..N : after[k] = Round(k, after[k - 1])
    BY <1>1, <1>5
  <1>7. after \in [0..N -> X]
    <2> DEFINE T == {k \in 0..N : after[k] \in X}
    <2>1. 0 \in T  BY <1>1, <1>6
    <2>2. ASSUME NEW k \in 0..N, k \in T, k < N PROVE k + 1 \in T
      <3>1. k + 1 \in 1..N /\ (k + 1) - 1 = k  BY <1>1, <2>2
      <3> QED  BY <1>3, <1>6, <2>2, <3>1
    <2>3. 0..N \subseteq T
      <3> HIDE DEF T
      <3> QED  BY <1>1, <2>1, <2>2, UpTo
    <2>4. after = [k \in 0..N |-> after[k]]  BY <1>5
    <2> QED  BY <2>3, <2>4
  <1>8. Rounds(score, s, after)  BY <1>6, <1>r
  <1> QED  BY <1>2, <1>7, <1>8 DEF N, X

Places(t) == {t[i] : i \in DOMAIN t}
Distinct(t) == \A i, j \in DOMAIN t : t[i] = t[j] => i = j

(* A round loses and repeats nothing. *)
LEMMA ExchangeKeeps ==
  ASSUME NEW S, NEW score, NEW n \in Nat, NEW t \in [1..n -> S], NEW i \in 1..n, NEW j \in 1..n,
         NEW u, u = Exchange(score, t, i, j)
  PROVE  Places(u) = Places(t) /\ (Distinct(t) => Distinct(u))
  <1>1. CASE u = t  BY <1>1
  <1>2. CASE u = [t EXCEPT ![i] = t[j], ![j] = t[i]]
    <2>1. /\ DOMAIN u = 1..n /\ DOMAIN t = 1..n /\ u[i] = t[j] /\ u[j] = t[i]
          /\ \A k \in 1..n \ {i, j} : u[k] = t[k]
      BY <1>2
    <2>2. Places(u) = Places(t)  BY <2>1 DEF Places
    <2>3. Distinct(t) => Distinct(u)  BY <2>1 DEF Distinct
    <2> QED  BY <2>2, <2>3
  <1> QED  BY <1>1, <1>2 DEF Exchange

\* The pairs that the first k rounds have compared are in order.
Ordered(score, n, t, k) ==
  \A a, b \in 1..n : a < b /\ (a - 1) * n + b <= k => score[t[a]] >= score[t[b]]

(* Rows come one after another. *)
LEMMA RowsFollow ==
  ASSUME NEW n \in Nat, NEW a \in 1..n, NEW i \in 1..n, a < i
  PROVE  (a - 1) * n + n <= (i - 1) * n
  <1> DEFINE d == i - 1 - a
  <1>1. d \in Nat /\ i - 1 = a + d  OBVIOUS
  <1>2. (a + d) * n = a * n + d * n /\ a * n = (a - 1) * n + n  OBVIOUS
  <1>3. d * n >= 0  BY <1>1
  <1> QED  BY <1>1, <1>2, <1>3

(* A round orders the pair it compares and disturbs none that was compared. *)
LEMMA ExchangeOrders ==
  ASSUME NEW S, NEW score \in [S -> Nat], NEW n \in Nat, NEW t \in [1..n -> S], NEW k \in 1..(n * n),
         Ordered(score, n, t, k - 1),
         NEW u, u = IF Row(n, k) < Col(n, k) THEN Exchange(score, t, Row(n, k), Col(n, k)) ELSE t
  PROVE  Ordered(score, n, u, k)
  <1> DEFINE i == Row(n, k)
             j == Col(n, k)
  <1>1. i \in 1..n /\ j \in 1..n /\ k = (i - 1) * n + j  BY RoundIs
  <1>2. \A x \in 1..n : score[t[x]] \in Nat  OBVIOUS
  <1> SUFFICES ASSUME NEW a \in 1..n, NEW b \in 1..n, a < b, (a - 1) * n + b <= k
               PROVE  score[u[a]] >= score[u[b]]
    BY DEF Ordered
  <1> HIDE DEF i, j
  <1>3. a <= i
    <2> SUFFICES ASSUME i < a PROVE FALSE  BY <1>1
    <2>1. (i - 1) * n + n <= (a - 1) * n  BY <1>1, RowsFollow
    <2> DEFINE x == (i - 1) * n
               y == (a - 1) * n
    <2>2. x \in Int /\ y \in Int /\ x + n <= y /\ y + b <= x + j  BY <1>1, <2>1
    <2> HIDE DEF x, y
    <2> QED  BY <1>1, <2>2
  <1>4. \A c \in 1..n : a < i /\ a < c => score[t[a]] >= score[t[c]]
    <2> SUFFICES ASSUME NEW c \in 1..n, a < i, a < c PROVE score[t[a]] >= score[t[c]]  OBVIOUS
    <2>1. (a - 1) * n + n <= (i - 1) * n  BY <1>1, RowsFollow
    <2> DEFINE x == (i - 1) * n
               y == (a - 1) * n
    <2>2. x \in Int /\ y \in Int /\ y + n <= x /\ k = x + j  BY <1>1, <2>1
    <2>3. y + c <= k - 1
      <3> HIDE DEF x, y
      <3> QED  BY <1>1, <2>2
    <2> QED  BY <2>3 DEF Ordered
  <1>5. a = i => b <= j
    <2> DEFINE x == (i - 1) * n
    <2>1. a = i => x \in Int /\ x + b <= x + j  BY <1>1
    <2> HIDE DEF x
    <2> QED  BY <1>1, <2>1
  <1>6. a = i /\ b < j => score[t[a]] >= score[t[b]]
    <2> SUFFICES ASSUME a = i, b < j PROVE score[t[a]] >= score[t[b]]  OBVIOUS
    <2> DEFINE x == (i - 1) * n
    <2>1. x \in Int /\ k = x + j  BY <1>1
    <2>2. x + b <= k - 1
      <3> HIDE DEF x
      <3> QED  BY <1>1, <2>1
    <2> QED  BY <2>2 DEF Ordered
  <1>7. CASE ~(i < j)
    <2>1. u = t  BY <1>7 DEF i, j
    <2> QED  BY <1>1, <1>3, <1>4, <1>5, <1>7, <2>1
  <1>8. CASE i < j /\ score[t[j]] > score[t[i]]
    <2>1. u = [t EXCEPT ![i] = t[j], ![j] = t[i]]  BY <1>8 DEF i, j, Exchange
    <2>2. /\ u[i] = t[j] /\ u[j] = t[i] /\ \A x \in 1..n \ {i, j} : u[x] = t[x]
      BY <1>1, <1>8, <2>1
    <2>3. CASE a < i  BY <1>1, <1>2, <1>4, <1>8, <2>2, <2>3
    <2>4. CASE a = i  BY <1>1, <1>2, <1>5, <1>6, <1>8, <2>2, <2>4
    <2> QED  BY <1>1, <1>3, <2>3, <2>4
  <1>9. CASE i < j /\ ~(score[t[j]] > score[t[i]])
    <2>1. u = t  BY <1>9 DEF i, j, Exchange
    <2>2. score[t[i]] >= score[t[j]]  BY <1>1, <1>2, <1>9
    <2>3. CASE a < i  BY <1>4, <2>1, <2>3
    <2>4. CASE a = i /\ b = j  BY <2>1, <2>2, <2>4
    <2>5. CASE a = i /\ b # j  BY <1>1, <1>5, <1>6, <2>1, <2>5
    <2> QED  BY <1>1, <1>3, <2>3, <2>4, <2>5
  <1> QED  BY <1>7, <1>8, <1>9

(* SortDescending rearranges a sequence in descending order of the scores. *)
LEMMA SortIs ==
  ASSUME NEW S, NEW s \in Seq(S), NEW score \in [S -> Nat],
         NEW t, t = SortDescending(score, s)
  PROVE  /\ t \in Seq(S) /\ Len(t) = Len(s) /\ Places(t) = Places(s) /\ (Distinct(s) => Distinct(t))
         /\ \A a, b \in 1..Len(t) : a < b => score[t[a]] >= score[t[b]]
  <1> DEFINE n == Len(s)
             N == n * n
  <1>0. n \in Nat /\ N \in Nat /\ s \in [1..n -> S]  OBVIOUS
  <1>1. PICK f \in [0..N -> [1..n -> S]] : Rounds(score, s, f) /\ t = f[N]  BY SortUnfolds
  <1> DEFINE P(k) == /\ Places(f[k]) = Places(s) /\ (Distinct(s) => Distinct(f[k]))
                     /\ Ordered(score, n, f[k], k)
             T == {k \in 0..N : P(k)}
  <1>2. 0 \in T
    <2>1. f[0] = s  BY <1>1 DEF Rounds
    <2>2. Ordered(score, n, f[0], 0)
      <3> SUFFICES ASSUME NEW a \in 1..n, NEW b \in 1..n, (a - 1) * n + b <= 0 PROVE FALSE
        BY DEF Ordered
      <3>1. (a - 1) * n >= 0  BY <1>0
      <3> DEFINE x == (a - 1) * n
      <3>2. x \in Int /\ x >= 0 /\ x + b <= 0  BY <1>0, <3>1
      <3> HIDE DEF x
      <3> QED  BY <3>2
    <2> QED  BY <1>0, <2>1, <2>2
  <1>3. ASSUME NEW k \in 0..N, k \in T, k < N PROVE k + 1 \in T
    <2>1. k + 1 \in 1..N /\ (k + 1) - 1 = k /\ k + 1 \in 0..N  BY <1>0, <1>3
    <2>2. f[k + 1] = IF Row(n, k + 1) < Col(n, k + 1)
                     THEN Exchange(score, f[k], Row(n, k + 1), Col(n, k + 1)) ELSE f[k]
      BY <1>1, <2>1 DEF Rounds
    <2>3. f[k] \in [1..n -> S] /\ P(k)  BY <1>3
    <2>4. Row(n, k + 1) \in 1..n /\ Col(n, k + 1) \in 1..n  BY <1>0, <2>1, RoundIs
    <2>5. Places(f[k + 1]) = Places(f[k]) /\ (Distinct(f[k]) => Distinct(f[k + 1]))
      <3>1. CASE f[k + 1] = f[k]  BY <3>1
      <3>2. CASE f[k + 1] = Exchange(score, f[k], Row(n, k + 1), Col(n, k + 1))
        <4> DEFINE v == f[k]
                   w == f[k + 1]
                   i == Row(n, k + 1)
                   j == Col(n, k + 1)
        <4>1. /\ n \in Nat /\ v \in [1..n -> S] /\ i \in 1..n /\ j \in 1..n
              /\ w = Exchange(score, v, i, j)
          BY <1>0, <2>3, <2>4, <3>2
        <4>2. Places(w) = Places(v) /\ (Distinct(v) => Distinct(w))
          <5> HIDE DEF n, v, w, i, j
          <5>1. n \in Nat /\ v \in [1..n -> S] /\ i \in 1..n /\ j \in 1..n  BY <4>1
          <5>2. \A u : u = Exchange(score, v, i, j) => Places(u) = Places(v) /\ (Distinct(v) => Distinct(u))
            BY <5>1, ExchangeKeeps, Zenon
          <5> QED  BY <4>1, <5>2, Zenon
        <4> QED  BY <4>2
      <3> QED  BY <2>2, <3>1, <3>2
    <2>6. Ordered(score, n, f[k + 1], k + 1)
      <3>1. Ordered(score, n, f[k], (k + 1) - 1)  BY <2>1, <2>3
      <3> HIDE DEF n, P
      <3> QED  BY <1>0, <2>1, <2>2, <2>3, <3>1, ExchangeOrders
    <2> QED  BY <2>1, <2>3, <2>5, <2>6
  <1>4. P(N)
    <2>1. 0..N \subseteq T
      <3> HIDE DEF T, N
      <3> QED  BY <1>0, <1>2, <1>3, UpTo
    <2> QED  BY <1>0, <2>1
  <1>5. t \in [1..n -> S]  BY <1>0, <1>1
  <1>6. t \in Seq(S) /\ Len(t) = n
    <2> HIDE DEF n
    <2> QED  BY <1>0, <1>5, FunctionIsSeq
  <1>7. ASSUME NEW a \in 1..n, NEW b \in 1..n, a < b PROVE score[t[a]] >= score[t[b]]
    <2>1. (a - 1) * n + b <= N
      <3>0. n \in 1..n /\ a < n  BY <1>0, <1>7
      <3>1. (a - 1) * n + n <= (n - 1) * n
        <4> HIDE DEF n
        <4> QED  BY <1>0, <3>0, RowsFollow
      <3>2. (n - 1) * n = N - n  BY <1>0
      <3> DEFINE x == (a - 1) * n
      <3>3. x \in Int /\ x + n <= N - n /\ b <= n /\ b \in Int /\ n \in Int /\ N \in Int /\ n >= 0
        BY <1>0, <3>1, <3>2
      <3>4. x + b <= N
        <4> HIDE DEF x, N, n
        <4> QED  BY <3>3
      <3> QED  BY <3>4
    <2> QED  BY <1>1, <1>4, <1>7, <2>1 DEF Ordered
  <1> QED  BY <1>1, <1>4, <1>6, <1>7

\* h holds the eligible ones so far, at every index of the sorted sequence.
RunningEligible(score, t, h) ==
  /\ h[0] = <<>>
  /\ \A k \in 1..Len(t) :
       h[k] = IF score[t[k]] > 0 THEN Append(h[k - 1], t[k]) ELSE h[k - 1]

(* The loop that builds the result takes the eligible from the first on. *)
LEMMA EligibleUnfolds ==
  ASSUME NEW S, NEW s, NEW score, NEW t \in Seq(S), t = SortDescending(score, s)
  PROVE  \E h \in [0..Len(t) -> Seq(S)] :
           RunningEligible(score, t, h) /\ SortByScore(score, s) = h[Len(t)]
  <1> DEFINE n == Len(t)
             X == Seq(S)
             Taken(k, a) == IF score[t[k]] > 0 THEN Append(a, t[k]) ELSE a
             go == [k \in 1..n |-> [a \in X |-> Taken(k, a)]]
             Unfolds(f) == f = [p \in SUBSET DOMAIN t |->
                                 IF p = {} THEN <<>> ELSE Taken(Max(p), f[p \ {Max(p)}])]
             iter == CHOOSE f : Unfolds(f)
  <1>1. \A k \in 1..n, a \in X : Taken(k, a) \in X  OBVIOUS
  <1>2. n \in Nat /\ DOMAIN t = 1..n /\ <<>> \in X  OBVIOUS
  <1>3. SortByScore(score, s) = iter[DOMAIN t]
    BY Zenon DEF SortByScore, FoldLeft, MapThenFoldSet
  <1>r. ASSUME NEW h
        PROVE  RunningEligible(score, t, h) <=> h[0] = <<>> /\ \A k \in 1..n : h[k] = Taken(k, h[k - 1])
    BY Zenon DEF RunningEligible
  <1> HIDE DEF Taken
  <1>4. \E f : Unfolds(f)
    <2>1. go \in [1..n -> [X -> X]]
      <3> HIDE DEF X, n
      <3> QED  BY <1>1
    <2>2. PICK f \in [SUBSET (1..n) -> X] : Folds(f, n, <<>>, go)
      <3> HIDE DEF n, go, X
      <3> QED  BY <1>2, <2>1, FoldExists
    <2>3. ASSUME NEW p \in SUBSET (1..n)
          PROVE  f[p] = IF p = {} THEN <<>> ELSE Taken(Max(p), f[p \ {Max(p)}])
      <3>1. f[p] = IF p = {} THEN <<>> ELSE go[Max(p)][f[p \ {Max(p)}]]
        BY <2>2, Zenon DEF Folds
      <3>2. CASE p # {}
        <4>1. Max(p) \in 1..n  BY <1>2, <3>2, MaxIndex
        <4>2. f[p \ {Max(p)}] \in X  BY <2>2
        <4> HIDE DEF X, n
        <4> QED  BY <3>1, <3>2, <4>1, <4>2
      <3> QED  BY <3>1, <3>2
    <2>4. f = [p \in SUBSET (1..n) |-> IF p = {} THEN <<>> ELSE Taken(Max(p), f[p \ {Max(p)}])]
      BY <2>2, <2>3
    <2> QED  BY <1>2, <2>4, Zenon
  <1>5. Unfolds(iter)
    <2> HIDE DEF Unfolds
    <2> QED  BY <1>4, Zenon
  <1>6. \A p \in SUBSET (1..n) : iter[p] = IF p = {} THEN <<>> ELSE Taken(Max(p), iter[p \ {Max(p)}])
    <2> HIDE DEF iter
    <2> QED  BY <1>2, <1>5
  <1> HIDE DEF iter, Unfolds
  <1>7. iter[1..0] = <<>>
    <2>1. 1..0 = {} /\ {} \in SUBSET (1..n)  OBVIOUS
    <2> QED  BY <1>6, <2>1
  <1>8. ASSUME NEW k \in 1..n PROVE iter[1..k] = Taken(k, iter[1..(k - 1)])
    <2>1. Max(1..k) = k /\ (1..k) \ {k} = 1..(k - 1) /\ 1..k # {}  BY MaxUpTo
    <2>2. 1..k \in SUBSET (1..n)  OBVIOUS
    <2> QED  BY <1>6, <2>1, <2>2
  <1>9. \A k \in 0..n : iter[1..k] \in X
    <2> DEFINE T == {k \in 0..n : iter[1..k] \in X}
    <2>1. 0 \in T
      <3>1. iter[1..0] \in X
        <4> HIDE DEF X
        <4> QED  BY <1>2, <1>7
      <3> QED  BY <1>2, <3>1
    <2>2. ASSUME NEW k \in 0..n, k \in T, k < n PROVE k + 1 \in T
      <3>1. k + 1 \in 1..n /\ (k + 1) - 1 = k  BY <2>2
      <3>2. iter[1..(k + 1)] = Taken(k + 1, iter[1..k])  BY <1>8, <3>1
      <3>3. iter[1..k] \in X  BY <2>2
      <3>4. iter[1..(k + 1)] \in X
        <4> HIDE DEF X, n
        <4> QED  BY <1>1, <3>1, <3>2, <3>3
      <3> QED  BY <3>1, <3>4
    <2>3. 0..n \subseteq T
      <3> HIDE DEF T
      <3> QED  BY <1>2, <2>1, <2>2, UpTo
    <2> QED  BY <2>3
  <1> DEFINE h == [k \in 0..n |-> iter[1..k]]
  <1>10. h \in [0..n -> X] /\ h[0] = <<>> /\ SortByScore(score, s) = h[n]  BY <1>2, <1>3, <1>7, <1>9
  <1>11. \A k \in 1..n : h[k] = Taken(k, h[k - 1])  BY <1>8
  <1>12. RunningEligible(score, t, h)
    <2> HIDE DEF h
    <2> QED  BY <1>10, <1>11, <1>r
  <1> HIDE DEF h
  <1> QED  BY <1>10, <1>12

(* SortByScore returns the eligible, each once if it was given each once, and *)
(* in descending order.                                                       *)
LEMMA SortByScoreIs ==
  ASSUME NEW S, NEW s \in Seq(S), NEW score \in [S -> Nat], NEW r, r = SortByScore(score, s)
  PROVE  /\ r \in Seq(S) /\ Places(r) = {p \in Places(s) : score[p] > 0}
         /\ Distinct(s) => Distinct(r)
         /\ \A a, b \in 1..Len(r) : a < b => score[r[a]] >= score[r[b]]
  <1> DEFINE t == SortDescending(score, s)
             n == Len(t)
             Upto(k) == {t[j] : j \in {i \in 1..k : score[t[i]] > 0}}
  <1>1. /\ t \in Seq(S) /\ Places(t) = Places(s) /\ (Distinct(s) => Distinct(t))
        /\ \A a, b \in 1..n : a < b => score[t[a]] >= score[t[b]]
    BY SortIs
  <1>2. PICK h \in [0..n -> Seq(S)] : RunningEligible(score, t, h) /\ r = h[n]
    BY <1>1, EligibleUnfolds
  <1> HIDE DEF t
  <1>3. n \in Nat /\ DOMAIN t = 1..n /\ \A k \in 1..n : t[k] \in S  BY <1>1
  <1> DEFINE P(k) == /\ Places(h[k]) = Upto(k) /\ (Distinct(t) => Distinct(h[k]))
                     /\ \A a, b \in 1..Len(h[k]) : a < b => score[h[k][a]] >= score[h[k][b]]
             T == {k \in 0..n : P(k)}
  <1>4. 0 \in T
    <2>1. h[0] = <<>>  BY <1>2 DEF RunningEligible
    <2>2. Places(h[0]) = Upto(0)  BY <2>1 DEF Places
    <2>3. Distinct(h[0])  BY <2>1 DEF Distinct
    <2> QED  BY <1>3, <2>1, <2>2, <2>3
  <1>5. ASSUME NEW k \in 0..n, k \in T, k < n PROVE k + 1 \in T
    <2>1. k + 1 \in 1..n /\ (k + 1) - 1 = k /\ k + 1 \in 0..n  BY <1>3, <1>5
    <2> DEFINE v == h[k]
               w == h[k + 1]
               e == t[k + 1]
               m == Len(v)
    <2>2. v \in Seq(S) /\ e \in S /\ w = (IF score[e] > 0 THEN Append(v, e) ELSE v) /\ P(k)
      BY <1>2, <1>3, <1>5, <2>1 DEF RunningEligible
    <2>3. CASE score[e] > 0
      <3>1. /\ m \in Nat /\ DOMAIN v = 1..m /\ DOMAIN w = 1..(m + 1) /\ Len(w) = m + 1
            /\ w[m + 1] = e /\ \A a \in 1..m : w[a] = v[a] /\ v[a] \in S
        BY <2>2, <2>3
      <3>2. Upto(k + 1) = Upto(k) \cup {e}
        <4>1. \A i \in 1..(k + 1) : i \in 1..k \/ i = k + 1  BY <2>1
        <4>2. 1..k \subseteq 1..(k + 1) /\ k + 1 \in 1..(k + 1)  BY <2>1
        <4> QED  BY <2>3, <4>1, <4>2
      <3>3. \A a \in 1..m : \E i \in 1..k : w[a] = t[i]
        <4> SUFFICES ASSUME NEW a \in 1..m PROVE \E i \in 1..k : w[a] = t[i]  OBVIOUS
        <4>1. w[a] \in Places(v)
          <5> HIDE DEF v, w
          <5> QED  BY <3>1 DEF Places
        <4>2. w[a] \in Upto(k)  BY <2>2, <4>1
        <4> QED  BY <4>2
      <3>4. Places(w) = Upto(k + 1)
        <4>1. Places(w) = Places(v) \cup {e}
          <5>1. \A a \in 1..(m + 1) : a \in 1..m \/ a = m + 1  BY <3>1
          <5>2. 1..m \subseteq 1..(m + 1) /\ m + 1 \in 1..(m + 1)  BY <3>1
          <5> HIDE DEF v, w, e, m
          <5> QED  BY <3>1, <5>1, <5>2 DEF Places
        <4> QED  BY <2>2, <3>2, <4>1
      <3>5. Distinct(t) => Distinct(w)
        <4> SUFFICES ASSUME Distinct(t), NEW a \in 1..(m + 1), NEW b \in 1..(m + 1), w[a] = w[b], a < b
                     PROVE  FALSE
          <5> HIDE DEF v, w, m
          <5> QED  BY <3>1 DEF Distinct
        <4>1. a \in 1..m  BY <3>1
        <4>2. CASE b = m + 1
          <5>1. PICK i \in 1..k : w[a] = t[i]  BY <3>3, <4>1
          <5>2. t[i] = t[k + 1] /\ i # k + 1 /\ i \in DOMAIN t /\ k + 1 \in DOMAIN t
            BY <1>3, <2>1, <3>1, <4>2, <5>1
          <5> QED  BY <5>2 DEF Distinct
        <4>3. CASE b # m + 1
          <5>1. b \in 1..m  BY <3>1, <4>3
          <5>2. Distinct(v)  BY <2>2
          <5> HIDE DEF v, w, m
          <5> QED  BY <3>1, <4>1, <5>1, <5>2 DEF Distinct
        <4> QED  BY <4>2, <4>3
      <3>6. ASSUME NEW a \in 1..(m + 1), NEW b \in 1..(m + 1), a < b
            PROVE  score[w[a]] >= score[w[b]]
        <4>1. a \in 1..m  BY <3>1, <3>6
        <4>2. CASE b = m + 1
          <5>1. PICK i \in 1..k : w[a] = t[i]  BY <3>3, <4>1
          <5>2. i \in 1..n /\ i < k + 1  BY <1>3, <2>1
          <5>3. score[t[i]] >= score[t[k + 1]]  BY <1>1, <2>1, <5>2
          <5> QED  BY <3>1, <4>2, <5>1, <5>3
        <4>3. CASE b # m + 1
          <5>1. b \in 1..m  BY <3>1, <4>3
          <5>2. score[v[a]] >= score[v[b]]  BY <2>2, <3>6, <4>1, <5>1
          <5> HIDE DEF v, w, m
          <5> QED  BY <3>1, <4>1, <5>1, <5>2
        <4> QED  BY <4>2, <4>3
      <3> QED  BY <2>1, <3>1, <3>4, <3>5, <3>6
    <2>4. CASE ~(score[e] > 0)
      <3>1. w = v  BY <2>2, <2>4
      <3>2. Upto(k + 1) = Upto(k)
        <4>1. \A i \in 1..(k + 1) : i \in 1..k \/ i = k + 1  BY <2>1
        <4>2. 1..k \subseteq 1..(k + 1)  BY <2>1
        <4> QED  BY <2>4, <4>1, <4>2
      <3> QED  BY <2>1, <2>2, <3>1, <3>2
    <2> QED  BY <2>3, <2>4
  <1>6. P(n)
    <2>1. 0..n \subseteq T
      <3> HIDE DEF T, n
      <3> QED  BY <1>3, <1>4, <1>5, UpTo
    <2> QED  BY <1>3, <2>1
  <1>7. Upto(n) = {p \in Places(s) : score[p] > 0}
    <2>1. Places(s) = {t[j] : j \in 1..n}  BY <1>1, <1>3 DEF Places
    <2> QED  BY <2>1
  <1>8. r \in Seq(S)  BY <1>2, <1>3
  <1> QED  BY <1>1, <1>2, <1>6, <1>7, <1>8

-----------------------------------------------------------------------------
(* The decisions.                                                          *)

(* As many elements as places, if none is repeated. *)
LEMMA DistinctCount ==
  ASSUME NEW S, NEW t \in Seq(S), Distinct(t)
  PROVE  Cardinality(Places(t)) = Len(t)
  <1> DEFINE n == Len(t)
  <1>1. n \in Nat /\ DOMAIN t = 1..n /\ t \in [1..n -> Places(t)]  BY DEF Places
  <1>2. t \in Bijection(1..n, Places(t))
    BY <1>1 DEF Distinct, Places, Bijection, Injection, Surjection, IsInjective
  <1> HIDE DEF n
  <1>3. ExistsBijection(1..n, Places(t))  BY <1>2 DEF ExistsBijection
  <1> QED  BY <1>1, <1>3, FS_CountingElements DEF n

Candidate == [place : Nat, distance : Distances]

\* Each candidate has the place it was listed at.
OrderInv ==
  /\ candidates \in Seq(Candidate) /\ preference \in Preferences
  /\ \A k \in DOMAIN candidates : candidates[k].place = k

(* The candidates of every state are listed one after another. *)
THEOREM OrderIsKept == RulesSpec => []OrderInv
  <1>1. RulesInit => OrderInv  BY DEF RulesInit, OrderInv, Preferences
  <1>2. OrderInv /\ [RulesNext]_rulesVars => OrderInv'
    <2> SUFFICES ASSUME OrderInv, RulesNext \/ UNCHANGED orderVars PROVE OrderInv'
      BY DEF rulesVars, RulesNext, orderVars
    <2>1. CASE UNCHANGED orderVars  BY <2>1 DEF OrderInv, orderVars
    <2>2. ASSUME NEW d \in Distances, AddCandidate(d) PROVE OrderInv'
      <3> DEFINE n == Len(candidates)
                 e == [place |-> n + 1, distance |-> d]
      <3>1. n \in Nat /\ e \in Candidate /\ e.place = n + 1  BY DEF OrderInv, Candidate
      <3>2. candidates' = Append(candidates, e) /\ preference' = preference  BY <2>2 DEF AddCandidate
      <3> HIDE DEF e
      <3> QED  BY <3>1, <3>2 DEF OrderInv
    <2> QED  BY <2>1, <2>2 DEF RulesNext
  <1> QED  BY <1>1, <1>2, PTL DEF RulesSpec

(* A score is a number, and it is the greater the nearer. *)
LEMMA ScoreIs ==
  ASSUME NEW p \in Preferences, NEW d \in Distances
  PROVE  /\ Score(d, p) \in 0..3
         /\ Score(d, p) = 3 <=> d = "same_node"
         /\ p = "node_only" /\ d # "same_node" => Score(d, p) = 0
         /\ p = "lan_only" /\ d = "wan" => Score(d, p) = 0
         /\ p \in {"lan_preferred", "wan_allowed"} => Score(d, p) > 0
         /\ d = "wan" => Score(d, p) <= 1
         /\ d # "wan" => Score(d, p) \in {0, 2, 3}
  BY DEF Score, Preferences, Distances

\* What sorted is of the candidates.
SortedIs ==
  /\ sorted \in Seq(Candidate)
  /\ Places(sorted) = {c \in Places(candidates) : Score(c.distance, preference) > 0}
  /\ Distinct(sorted)
  /\ \A a, b \in DOMAIN sorted :
       a < b => Score(sorted[a].distance, preference) >= Score(sorted[b].distance, preference)

(* The sort of the candidates is one of SortByScore. *)
LEMMA SortOfCandidates ==
  ASSUME OrderInv
  PROVE  SortedIs /\ Distinct(candidates) /\ Places(candidates) \subseteq Candidate
  <1> DEFINE S == Places(candidates)
             score == [c \in S |-> Score(c.distance, preference)]
             r == SortByScore(score, candidates)
  <1>1. candidates \in Seq(S) /\ S \subseteq Candidate  BY DEF OrderInv, Places
  <1>2. Distinct(candidates)  BY DEF OrderInv, Distinct
  <1>3. S = ToSet(candidates)  BY DEF Places, ToSet
  <1>4. sorted = r  BY <1>3, Zenon DEF sorted
  <1>5. \A c \in S : c.distance \in Distances  BY <1>1 DEF Candidate
  <1>6. score \in [S -> Nat]
    <2> HIDE DEF S
    <2> QED  BY <1>5, ScoreIs DEF OrderInv
  <1>7. score \in [S -> Nat] /\ \A c \in S : score[c] = Score(c.distance, preference)  BY <1>6
  <1> HIDE DEF score, S, r
  <1>8. /\ r \in Seq(S) /\ Places(r) = {p \in Places(candidates) : score[p] > 0}
        /\ Distinct(r) /\ \A a, b \in 1..Len(r) : a < b => score[r[a]] >= score[r[b]]
    BY <1>1, <1>2, <1>7, SortByScoreIs DEF r
  <1>9. SortedIs
    <2>1. DOMAIN r = 1..Len(r) /\ \A a \in DOMAIN r : r[a] \in S  BY <1>8
    <2>2. \A a, b \in DOMAIN r :
            a < b => Score(r[a].distance, preference) >= Score(r[b].distance, preference)
      BY <1>7, <1>8, <2>1
    <2>3. Places(r) = {c \in Places(candidates) : Score(c.distance, preference) > 0}
      BY <1>7, <1>8 DEF S
    <2>4. r \in Seq(Candidate)  BY <1>1, <1>8
    <2> QED  BY <1>4, <1>8, <2>2, <2>3, <2>4 DEF SortedIs
  <1> QED  BY <1>1, <1>2, <1>9 DEF S

(* BindingRules: the sorted list names every eligible provider once and no other. *)
THEOREM SortKeepsThem == RulesSpec => []SortKeepsEligible
  <1>1. OrderInv => SortKeepsEligible
    <2> SUFFICES ASSUME OrderInv PROVE SortKeepsEligible  OBVIOUS
    <2>1. SortedIs /\ ToSet(candidates) = Places(candidates) /\ ToSet(sorted) = Places(sorted)
      BY SortOfCandidates DEF Places, ToSet
    <2>2. Len(sorted) = Cardinality(Places(sorted))  BY <2>1, DistinctCount DEF SortedIs
    <2> QED  BY <2>1, <2>2 DEF SortKeepsEligible, SortedIs
  <1> QED  BY <1>1, OrderIsKept, PTL

(* BindingRules: no provider comes after one that is farther away, and what a strict *)
(* preference excludes is not offered.                                              *)
THEOREM NearestIsFirst == RulesSpec => []NearestFirst
  <1>1. OrderInv => NearestFirst
    <2> SUFFICES ASSUME OrderInv PROVE NearestFirst  OBVIOUS
    <2>1. SortedIs /\ ToSet(sorted) = Places(sorted) /\ Distinct(candidates)
          /\ Places(candidates) \subseteq Candidate
      BY SortOfCandidates DEF Places, ToSet
    <2>2. preference \in Preferences /\ candidates \in Seq(Candidate)  BY DEF OrderInv
    <2>3. \A c \in Candidate : c.distance \in Distances  BY DEF Candidate
    <2>4. ASSUME NEW k \in DOMAIN sorted, NEW l \in DOMAIN sorted, k < l
          PROVE  /\ sorted[l].distance = "same_node" => sorted[k].distance = "same_node"
                 /\ sorted[k].distance = "wan" => sorted[l].distance = "wan"
      <3> DEFINE dk == sorted[k].distance
                 dl == sorted[l].distance
      <3>1. sorted[k] \in Places(sorted) /\ sorted[l] \in Places(sorted)  BY DEF Places
      <3>2. /\ dk \in Distances /\ dl \in Distances
            /\ Score(dk, preference) > 0 /\ Score(dl, preference) > 0
            /\ Score(dk, preference) >= Score(dl, preference)
        BY <2>1, <2>3, <2>4, <3>1 DEF SortedIs
      <3> HIDE DEF dk, dl
      <3>3. /\ dl = "same_node" => dk = "same_node"
            /\ dk = "wan" => dl = "wan"
        BY <2>2, <3>2, ScoreIs
      <3> QED  BY <3>3 DEF dk, dl
    <2>5. ASSUME NEW c \in Places(sorted)
          PROVE  /\ preference = "node_only" => c.distance = "same_node"
                 /\ preference = "lan_only"  => c.distance # "wan"
      <3>1. c.distance \in Distances /\ Score(c.distance, preference) > 0
        BY <2>1, <2>3 DEF SortedIs
      <3> QED  BY <2>2, <3>1, ScoreIs
    <2>6. preference \in {"lan_preferred", "wan_allowed"} => Len(sorted) = Len(candidates)
      <3> SUFFICES ASSUME preference \in {"lan_preferred", "wan_allowed"}
                   PROVE  Len(sorted) = Len(candidates)
        OBVIOUS
      <3>1. \A c \in Places(candidates) : Score(c.distance, preference) > 0
        BY <2>1, <2>2, <2>3, ScoreIs
      <3>2. Places(sorted) = Places(candidates)  BY <2>1, <3>1 DEF SortedIs
      <3>3. Len(sorted) = Cardinality(Places(sorted))  BY <2>1, DistinctCount DEF SortedIs
      <3>4. Len(candidates) = Cardinality(Places(candidates))  BY <2>1, <2>2, DistinctCount
      <3> QED  BY <3>2, <3>3, <3>4
    <2> QED  BY <2>1, <2>4, <2>5, <2>6 DEF NearestFirst
  <1> QED  BY <1>1, OrderIsKept, PTL

(* What allows a request, as the checks of EvaluateBinding come one after another. *)
LEMMA AllowedIs ==
  ASSUME NEW s, NEW c, NEW tier, NEW limited
  PROVE  "allow" \in Verdicts(s, c, tier, limited) <=>
           /\ c \in DOMAIN EvalCaps
           /\ TierAtLeast(tier, MinTier)
           /\ EvalCaps[c] = "high" => TierAtLeast(tier, "certified") /\ <<s, c>> \in consents
           /\ IF Deciding # {} THEN \E r \in Deciding : r.decision = "allow"
              ELSE \/ EvalCaps[c] = "low"
                   \/ EvalCaps[c] = "medium" /\ TierAtLeast(tier, "certified")
  <1> DEFINE known == c \in DOMAIN EvalCaps
             enough == TierAtLeast(tier, MinTier)
             certified == TierAtLeast(tier, "certified")
             risk == EvalCaps[c]
             after == AfterRules(s, c, limited)
             verdicts == RuleVerdicts(risk, tier)
             all == UNION {IF v = "allow" THEN after ELSE {v} : v \in verdicts}
  <1>1. "allow" \in after <=> (risk = "high" => <<s, c>> \in consents)
    <2>1. CASE limited  BY <2>1 DEF AfterRules
    <2>2. CASE ~limited  BY <2>2 DEF AfterRules
    <2> QED  BY <2>1, <2>2
  <1>2. "allow" \in verdicts <=> IF Deciding # {} THEN \E r \in Deciding : r.decision = "allow"
                                 ELSE risk = "low" \/ (risk = "medium" /\ certified)
    <2>1. CASE Deciding # {}  BY <2>1 DEF RuleVerdicts, Decided
    <2>2. CASE Deciding = {} /\ certified  BY <2>2 DEF RuleVerdicts
    <2>3. CASE Deciding = {} /\ ~certified  BY <2>3 DEF RuleVerdicts
    <2> QED  BY <2>1, <2>2, <2>3
  <1>3. "allow" \in all <=> "allow" \in after /\ "allow" \in verdicts
    <2> HIDE DEF after, verdicts
    <2> QED  OBVIOUS
  <1>4. Verdicts(s, c, tier, limited) =
          IF ~known THEN {"CAPABILITY_UNKNOWN"}
          ELSE IF ~enough THEN {"TRUST_TIER_INSUFFICIENT"}
          ELSE IF risk = "high" /\ ~certified THEN {"PROVENANCE_MISMATCH"}
          ELSE all
    BY DEF Verdicts
  <1>5. "allow" \in Verdicts(s, c, tier, limited) <=>
          known /\ enough /\ (risk = "high" => certified) /\ "allow" \in all
    <2> HIDE DEF known, enough, certified, all, risk
    <2>1. CASE known /\ enough /\ (risk = "high" => certified)  BY <1>4, <2>1
    <2>2. CASE ~known  BY <1>4, <2>2
    <2>3. CASE known /\ ~enough  BY <1>4, <2>3
    <2>4. CASE known /\ enough /\ ~(risk = "high" => certified)  BY <1>4, <2>4
    <2> QED  BY <2>1, <2>2, <2>3, <2>4
  <1> HIDE DEF after, all, verdicts
  <1> QED  BY <1>1, <1>2, <1>3, <1>5, Zenon

(* The tiers that a certified one is not above. *)
LEMMA TiersOver ==
  ASSUME NEW tier, TierAtLeast(tier, "certified")
  PROVE  tier \in {"certified", "official"}
  BY DEF TierAtLeast, Rank

(* A tier is at least what one is that is not above it. *)
LEMMA TiersAreRanked ==
  ASSUME NEW low \in Tiers, NEW high \in Tiers, NEW min, Rank[low] <= Rank[high], TierAtLeast(low, min)
  PROVE  TierAtLeast(high, min)
  <1>1. low \in DOMAIN Rank /\ high \in DOMAIN Rank /\ min \in DOMAIN Rank
    BY EvaluatorConstantsOK DEF TierAtLeast
  <1>2. \A t \in DOMAIN Rank : Rank[t] \in Int  BY DEF Rank
  <1> QED  BY <1>1, <1>2 DEF TierAtLeast

(* PolicyEvaluator: what is allowed is justified by the policy, the consents and *)
(* the provider's tier, whatever the policy and the consents have become; which of *)
(* two rules that disagree decides is left open.                                   *)
THEOREM AllowingIsJustified == RulesSpec => []AllowIsJustified
  <1>1. AllowIsJustified
    <2> SUFFICES ASSUME NEW s \in Services, NEW c \in Caps, NEW tier \in Tiers,
                        NEW limited \in BOOLEAN, "allow" \in Verdicts(s, c, tier, limited)
                 PROVE  /\ c \in DOMAIN EvalCaps
                        /\ TierAtLeast(tier, MinTier)
                        /\ EvalCaps[c] = "high" =>
                             /\ Deciding # {} /\ <<s, c>> \in consents
                             /\ tier \in {"certified", "official"}
                        /\ Deciding = {} =>
                             \/ EvalCaps[c] = "low"
                             \/ EvalCaps[c] = "medium" /\ tier \in {"certified", "official"}
                        /\ RulesAgree => \A r \in Deciding : r.decision = "allow"
      BY Zenon DEF AllowIsJustified
    <2>1. /\ c \in DOMAIN EvalCaps
          /\ TierAtLeast(tier, MinTier)
          /\ EvalCaps[c] = "high" => TierAtLeast(tier, "certified") /\ <<s, c>> \in consents
          /\ IF Deciding # {} THEN \E r \in Deciding : r.decision = "allow"
             ELSE EvalCaps[c] = "low" \/ (EvalCaps[c] = "medium" /\ TierAtLeast(tier, "certified"))
      BY AllowedIs, Zenon
    <2>2. TierAtLeast(tier, "certified") => tier \in {"certified", "official"}  BY TiersOver, Zenon
    <2>3. EvalCaps[c] = "high" => EvalCaps[c] # "low" /\ EvalCaps[c] # "medium"  OBVIOUS
    <2>4. RulesAgree => \A r \in Deciding : r.decision = "allow"
      <3> SUFFICES ASSUME RulesAgree, NEW r \in Deciding PROVE r.decision = "allow"
        OBVIOUS
      <3>1. PICK q \in Deciding : q.decision = "allow"  BY <2>1
      <3> QED  BY <3>1 DEF RulesAgree
    <2> QED  BY <2>1, <2>2, <2>3, <2>4, Zenon
  <1> QED  BY <1>1, PTL

(* A tier that is let through, and one above it, meet the same verdicts: no check *)
(* of the tier tells them apart.                                                   *)
LEMMA VerdictsAgree ==
  ASSUME NEW s, NEW c, NEW limited, NEW low, NEW high,
         \A min : TierAtLeast(low, min) => TierAtLeast(high, min),
         "allow" \in Verdicts(s, c, low, limited)
  PROVE  Verdicts(s, c, high, limited) = Verdicts(s, c, low, limited)
  <1> DEFINE risk == EvalCaps[c]
             after == AfterRules(s, c, limited)
             all(t) == UNION {IF v = "allow" THEN after ELSE {v} : v \in RuleVerdicts(risk, t)}
  <1>1. /\ c \in DOMAIN EvalCaps
        /\ TierAtLeast(low, MinTier)
        /\ risk = "high" => TierAtLeast(low, "certified")
        /\ Deciding = {} => risk = "low" \/ (risk = "medium" /\ TierAtLeast(low, "certified"))
    BY AllowedIs, Zenon
  <1>2. RuleVerdicts(risk, high) = RuleVerdicts(risk, low)
    <2>1. CASE Deciding # {}  BY <2>1 DEF RuleVerdicts
    <2>2. CASE Deciding = {}
      <3>1. CASE risk = "low"  BY <2>2, <3>1 DEF RuleVerdicts
      <3>2. CASE risk = "medium" /\ TierAtLeast(low, "certified")
        <4>1. TierAtLeast(high, "certified")  BY <3>2
        <4> QED  BY <2>2, <3>2, <4>1 DEF RuleVerdicts
      <3> QED  BY <1>1, <2>2, <3>1, <3>2
    <2> QED  BY <2>1, <2>2
  <1>3. \A t : c \in DOMAIN EvalCaps /\ TierAtLeast(t, MinTier)
                 /\ (risk = "high" => TierAtLeast(t, "certified"))
               => Verdicts(s, c, t, limited) = all(t)
    <2> SUFFICES ASSUME NEW t, c \in DOMAIN EvalCaps, TierAtLeast(t, MinTier),
                        risk = "high" => TierAtLeast(t, "certified")
                 PROVE  Verdicts(s, c, t, limited) = all(t)
      OBVIOUS
    <2>1. Verdicts(s, c, t, limited) =
            IF c \notin DOMAIN EvalCaps THEN {"CAPABILITY_UNKNOWN"}
            ELSE IF ~TierAtLeast(t, MinTier) THEN {"TRUST_TIER_INSUFFICIENT"}
            ELSE IF risk = "high" /\ ~TierAtLeast(t, "certified") THEN {"PROVENANCE_MISMATCH"}
            ELSE all(t)
      BY DEF Verdicts
    <2> HIDE DEF all, risk
    <2> QED  BY <2>1
  <1>4. all(high) = all(low)
    <2> HIDE DEF after, risk
    <2> QED  BY <1>2
  <1> HIDE DEF all, risk
  <1> QED  BY <1>1, <1>3, <1>4

(* PolicyEvaluator: where a provider of one tier may be allowed, a provider of a higher *)
(* tier meets the same verdicts: nothing refuses it for its tier.                       *)
THEOREM HigherIsNoWorse == RulesSpec => []HigherTierNoWorse
  <1>1. HigherTierNoWorse
    <2> SUFFICES ASSUME NEW s \in Services, NEW c \in Caps, NEW limited \in BOOLEAN,
                        NEW low \in Tiers, NEW high \in Tiers, Rank[low] <= Rank[high],
                        "allow" \in Verdicts(s, c, low, limited)
                 PROVE  Verdicts(s, c, high, limited) = Verdicts(s, c, low, limited)
      BY Zenon DEF HigherTierNoWorse
    <2>1. \A min : TierAtLeast(low, min) => TierAtLeast(high, min)  BY TiersAreRanked
    <2> QED  BY <2>1, VerdictsAgree
  <1> QED  BY <1>1, PTL

-----------------------------------------------------------------------------
(* RequestBinding: what its events do to the registry.                     *)

\* Objects are added only, and stay on their nodes.
ObjectsGrow ==
  /\ Len(objects) \in Nat /\ Len(objects') \in Nat /\ Len(objects) <= Len(objects')
  /\ \A o \in 1..Len(objects) : objects'[o].node = objects[o].node

(* No event replaces an object or moves it to another node. *)
LEMMA EventsGrow == ASSUME IInv, Events PROVE ObjectsGrow
  <1>0. objects \in Seq(Provider) /\ Len(objects) \in Nat  BY DEF IInv, TypeOK
  <1>1. CASE EventHandled
    <2>1. UNCHANGED objects
      BY <1>1, Zenon DEF EventHandled, ClusterSnapshot, MemberLeft, MemberJoined, MemberUpdated,
           CacheUpdated, ServiceStopped, IdentityRevoked, IdentityIssued, ServiceStarted
    <2> QED  BY <1>0, <2>1 DEF ObjectsGrow
  <1>2. CASE SnapshotMember
    <2>1. UNCHANGED objects  BY <1>2 DEF SnapshotMember
    <2> QED  BY <1>0, <2>1 DEF ObjectsGrow
  <1>3. CASE StartedProvider
    <2>1. UNCHANGED objects \/ objects' = Append(objects, handler.provider)
      BY <1>3, Zenon DEF StartedProvider
    <2>2. CASE UNCHANGED objects  BY <1>0, <2>2 DEF ObjectsGrow
    <2>3. CASE objects' = Append(objects, handler.provider)  BY <1>0, <2>3 DEF ObjectsGrow
    <2> QED  BY <2>1, <2>2, <2>3
  <1>4. CASE WriteIdentity
    <2>1. CASE handler.left = {}
      <3>1. UNCHANGED objects  BY <1>4, <2>1 DEF WriteIdentity
      <3> QED  BY <1>0, <3>1 DEF ObjectsGrow
    <2>2. CASE handler.left # {}
      <3>1. handler \in [step : {"identity"}, left : SUBSET (1..Len(objects)), id : Ids, revoke : BOOLEAN]
        BY <1>4 DEF WriteIdentity, IInv, TypeOK, Waiting
      <3>2. PICK o \in handler.left : WriteWord(o)  BY <1>4, <2>2, WritesWord
      <3>3. /\ Len(objects') = Len(objects)
            /\ \A q \in 1..Len(objects) : q # o => objects'[q] = objects[q]
            /\ objects'[o].node = objects[o].node
        BY <1>0, <3>1, <3>2, WriteWordIs
      <3> QED  BY <1>0, <3>3 DEF ObjectsGrow
    <2> QED  BY <2>1, <2>2
  <1> QED  BY <1>1, <1>2, <1>3, <1>4 DEF Events, HandlerStep

(* An update of the policy or of a consent leaves the registry alone. *)
LEMMA PolicyEventIs ==
  ASSUME PolicyEvent
  PROVE  /\ handler = Waiting /\ handler' = Waiting /\ events' = events + 1 /\ events < MaxEvents
         /\ UNCHANGED dirVars
         /\ policy' \in Policies \cup {policy} /\ consents' \subseteq consents \cup (Services \X Caps)
  <1> USE DEF Handle
  <1>1. CASE \E p \in Policies : MeshPolicyUpdated(p)
    <2>1. PICK p \in Policies : MeshPolicyUpdated(p)  BY <1>1
    <2> QED  BY <2>1 DEF MeshPolicyUpdated
  <1>2. CASE \E s \in Services, c \in Caps, b \in BOOLEAN : ConsentStateUpdated(s, c, b)
    <2>1. PICK s \in Services, c \in Caps, b \in BOOLEAN : ConsentStateUpdated(s, c, b)  BY <1>2
    <2>2. consents' = consents \cup {<<s, c>>} \/ consents' = consents \ {<<s, c>>}
      BY <2>1 DEF ConsentStateUpdated
    <2> QED  BY <2>1, <2>2 DEF ConsentStateUpdated
  <1> QED  BY <1>1, <1>2, Zenon DEF PolicyEvent

(* Every step keeps what the registry's proofs say of the registry. *)
LEMMA RegistryKept == ASSUME IInv, [BindingNext]_vars PROVE IInv'
  <1>1. CASE Events  BY <1>1, NextIInv DEF Events, Next
  <1>2. CASE PolicyEvent
    <2>1. /\ UNCHANGED <<members, services, objects, providers, cache, handler>>
          /\ events' = events + 1 /\ events < MaxEvents
      BY <1>2, PolicyEventIs DEF dirVars
    <2>2. events' \in 0..MaxEvents  BY <2>1, RegistryConstantsOK DEF IInv, TypeOK
    <2>3. TypeOK'  BY <2>1, <2>2 DEF IInv, TypeOK
    <2>4. Unique'  BY <2>1 DEF IInv, Rest, Unique, EntriesOf
    <2>5. Listed'  BY <2>1 DEF IInv, Rest, Listed, EntriesOf, BeingStarted
    <2>6. Whole' /\ HandlerAgrees'  BY <2>1 DEF IInv, Rest, Whole, HandlerAgrees, BeingWritten
    <2>7. Agreed'
      BY <2>1 DEF IInv, Rest, Agreed, EntriesOf, BeingStarted, BeingWritten, Pending, Agrees
    <2> QED  BY <2>3, <2>4, <2>5, <2>6, <2>7 DEF IInv, Rest
  <1>3. CASE UNCHANGED registryVars  BY <1>3, NextIInv
  <1> QED  BY <1>1, <1>2, <1>3 DEF BindingNext, vars, OutOfEvents

-----------------------------------------------------------------------------
(* RequestBinding: typing.                                                 *)

Steps   == {"idle", "capability", "client", "providers", "sort", "evaluate", "grant", "done"}
Answers == {"", "allow", "CAPABILITY_UNKNOWN", "NO_PROVIDER_AVAILABLE", "POLICY_DENIED", "INTERNAL_ERROR"}
Asks    == [client : Clients, cap : Caps, limited : BOOLEAN, locality : Preferences \cup {""}]

\* Where RequestBinding is and what it answers ...
ResponseTypes == /\ step \in [Requests -> Steps] /\ answer \in [Requests -> Answers]
                 /\ emitted \in [Requests -> Seq({"granted", "denied"})]

\* ... what it works on ...
WorkTypes == /\ ask \in [Requests -> {NoRequest} \cup Asks] /\ node \in [Requests -> Nodes \cup {"none"}]
             /\ list \in [Requests -> Seq(Refs)] /\ rejected \in [Requests -> SUBSET Refs]
             /\ grant \in [Requests -> {NoGrant} \cup [provider : Refs, identity : Ids]]

\* ... and its history.
HistoryTypes == /\ home \in [Requests -> Nodes \cup {"none"}]
                /\ steady \in [Requests -> SUBSET Refs] /\ gone \in [Requests -> SUBSET Refs]

PolicyTypes == policy \in Policies \cup {DefaultPolicy} /\ consents \subseteq Services \X Caps

\* A request that has come in names a client and a capability, and one that is
\* to be granted has the candidate that was allowed.
Prepared ==
  \A r \in Requests : /\ step[r] # "idle" => ask[r] \in Asks
                      /\ step[r] = "grant" => list[r] # <<>>

Types == ResponseTypes /\ WorkTypes /\ HistoryTypes /\ PolicyTypes /\ Prepared

(* These are the parts of BindingTypeOK. *)
LEMMA TypesAre == TypeOK /\ Types => BindingTypeOK
  <1> SUFFICES ASSUME TypeOK, Types PROVE BindingTypeOK  OBVIOUS
  <1>1. \A h \in {rejected, steady, gone} : h \in [Requests -> SUBSET Refs]
    BY DEF Types, WorkTypes, HistoryTypes
  <1>2. ResponseTypes /\ WorkTypes /\ HistoryTypes /\ PolicyTypes  BY DEF Types
  <1> QED
    BY <1>1, <1>2, Zenon DEF BindingTypeOK, ResponseTypes, WorkTypes, HistoryTypes, PolicyTypes, Steps,
                             Answers, Asks

(* The denial and what is recorded of it. *)
LEMMA DenyTypes ==
  ASSUME ResponseTypes, NEW r \in Requests, NEW reason \in Answers, Deny(r, reason)
  PROVE  /\ ResponseTypes' /\ step'[r] = "done" /\ answer'[r] = reason
         /\ emitted'[r] = Append(emitted[r], "denied")
         /\ \A q \in Requests \ {r} :
              step'[q] = step[q] /\ answer'[q] = answer[q] /\ emitted'[q] = emitted[q]
  <1>1. Append(emitted[r], "denied") \in Seq({"granted", "denied"})
    BY AppendProperties DEF ResponseTypes
  <1> DEFINE e == Append(emitted[r], "denied")
  <1>2. /\ emitted' = [emitted EXCEPT ![r] = e] /\ answer' = [answer EXCEPT ![r] = reason]
        /\ step' = [step EXCEPT ![r] = "done"]
    BY DEF Deny, Goto
  <1> HIDE DEF e
  <1>3. emitted' \in [Requests -> Seq({"granted", "denied"})] /\ emitted'[r] = e
        /\ \A q \in Requests \ {r} : emitted'[q] = emitted[q]
    BY <1>1, <1>2 DEF ResponseTypes, e
  <1>4. /\ step' \in [Requests -> Steps] /\ step'[r] = "done"
        /\ answer' \in [Requests -> Answers] /\ answer'[r] = reason
        /\ \A q \in Requests \ {r} : step'[q] = step[q] /\ answer'[q] = answer[q]
    BY <1>2 DEF ResponseTypes, Steps
  <1> QED  BY <1>3, <1>4 DEF ResponseTypes, e

\* The score of the objects as SortProviders sees them.
ScoreOf(r, o) == Score(Distance(members, node[r], objects[o].node), Preference(r))

(* What SortProviders makes of the list. *)
LEMMA SortedList ==
  ASSUME NEW r \in Requests, list[r] \in Seq(Refs), ask[r] \in Asks
  PROVE  LET new == SortByScore([o \in ToSet(list[r]) |-> ScoreOf(r, o)], list[r])
         IN  /\ new \in Seq(Refs) /\ ToSet(new) = {o \in ToSet(list[r]) : ScoreOf(r, o) > 0}
             /\ \A a, b \in DOMAIN new : a < b => ScoreOf(r, new[a]) >= ScoreOf(r, new[b])
  <1> DEFINE s == list[r]
             S == Places(s)
             score == [o \in S |-> ScoreOf(r, o)]
             new == SortByScore([o \in ToSet(s) |-> ScoreOf(r, o)], s)
  <1>1. Preference(r) \in Preferences  BY DEF Preference, Asks, Preferences
  <1>2. \A o : Distance(members, node[r], objects[o].node) \in Distances  BY DEF Distance, Distances
  <1>3. \A o : ScoreOf(r, o) \in Nat
    <2>1. \A p \in Preferences, d \in Distances : Score(d, p) \in 0..3  BY ScoreIs
    <2>2. 0..3 \subseteq Nat  OBVIOUS
    <2> QED  BY <1>1, <1>2, <2>1, <2>2 DEF ScoreOf
  <1>4. ToSet(s) = S /\ s \in Seq(S)  BY DEF ToSet, Places
  <1>5. score \in [S -> Nat]  BY <1>3
  <1>p. \A o \in S : score[o] = ScoreOf(r, o)  OBVIOUS
  <1>6. s \in Seq(S) /\ new = SortByScore(score, s)  BY <1>4, Zenon
  <1> HIDE DEF S, score, new
  <1>7. /\ new \in Seq(S) /\ Places(new) = {p \in S : score[p] > 0}
        /\ \A a, b \in 1..Len(new) : a < b => score[new[a]] >= score[new[b]]
    <2> HIDE DEF s
    <2>1. S = Places(s)  BY DEF S
    <2>2. /\ new \in Seq(S) /\ Places(new) = {p \in Places(s) : score[p] > 0}
          /\ \A a, b \in 1..Len(new) : a < b => score[new[a]] >= score[new[b]]
      BY <1>5, <1>6, SortByScoreIs
    <2> QED  BY <2>1, <2>2
  <1>8. S \subseteq Refs  BY DEF S, Places
  <1>9. DOMAIN new = 1..Len(new) /\ \A a \in DOMAIN new : new[a] \in S  BY <1>7
  <1>10. ToSet(new) = Places(new)  BY DEF ToSet, Places
  <1>11. new \in Seq(Refs)  BY <1>7, <1>8
  <1> QED  BY <1>4, <1>p, <1>7, <1>9, <1>10, <1>11 DEF new

(* RequestBinding keeps the types of what it changes. *)
LEMMA RequestTypes ==
  ASSUME TypeOK, Types, NEW r \in Requests, RequestStep(r),
         UNCHANGED <<registryVars, evaluatorVars, historyVars>>
  PROVE  Types'
  <1>0. UNCHANGED <<objects, members, services, providers, cache, policy, consents, home, steady, gone>>
    BY DEF registryVars, dirVars, evaluatorVars, historyVars
  <1>1. HistoryTypes' /\ PolicyTypes' /\ Refs' = Refs
    BY <1>0 DEF Types, HistoryTypes, PolicyTypes, Refs
  <1>2. ResponseTypes /\ WorkTypes /\ Prepared  BY DEF Types
  <1>a. ASSUME step[r] # "idle", UNCHANGED ask, step'[r] = "grant" => list'[r] # <<>>,
               \A q \in Requests \ {r} : step'[q] = step[q] /\ list'[q] = list[q]
        PROVE  Prepared'
    BY <1>2, <1>a DEF Prepared
  <1>g. ASSUME NEW t \in Steps, Goto(r, t)
        PROVE  /\ step' \in [Requests -> Steps] /\ step'[r] = t
               /\ \A q \in Requests \ {r} : step'[q] = step[q]
    BY <1>2, <1>g DEF Goto, ResponseTypes
  <1>d. ASSUME NEW reason \in Answers, Deny(r, reason)
        PROVE  ResponseTypes' /\ step'[r] = "done" /\ \A q \in Requests \ {r} : step'[q] = step[q]
    BY <1>2, <1>d, DenyTypes
  <1>w. ASSUME UNCHANGED <<ask, node, list, grant, rejected>> PROVE WorkTypes'
    BY <1>1, <1>2, <1>w DEF WorkTypes
  <1>s. Steps = {"idle", "capability", "client", "providers", "sort", "evaluate", "grant", "done"}
    BY DEF Steps
  <1>v. Answers = {"", "allow", "CAPABILITY_UNKNOWN", "NO_PROVIDER_AVAILABLE", "POLICY_DENIED",
                   "INTERNAL_ERROR"}
    BY DEF Answers
  <1>t. ResponseTypes' /\ WorkTypes' /\ Prepared' => Types'  BY <1>1 DEF Types
  <1>3. CASE Cancelled(r)
    <2>1. Goto(r, "done") /\ step[r] # "idle" /\ answer' = [answer EXCEPT ![r] = "INTERNAL_ERROR"]
          /\ UNCHANGED <<ask, node, list, grant, emitted, rejected>>
      BY <1>3 DEF Cancelled
    <2>2. answer' \in [Requests -> Answers]  BY <1>2, <1>v, <2>1 DEF ResponseTypes
    <2>3. ResponseTypes'  BY <1>2, <1>g, <1>s, <2>1, <2>2 DEF ResponseTypes
    <2> QED  BY <1>a, <1>g, <1>s, <1>t, <1>w, <2>1, <2>3
  <1>4. CASE GetCapability(r)
    <2>1. step[r] # "idle" /\ UNCHANGED <<ask, node, list, grant, rejected>>  BY <1>4 DEF GetCapability
    <2>2. \/ Goto(r, "client") /\ UNCHANGED <<answer, emitted>>
          \/ Deny(r, "CAPABILITY_UNKNOWN")
      BY <1>4, Zenon DEF GetCapability
    <2>3. ResponseTypes' /\ step'[r] # "grant" /\ \A q \in Requests \ {r} : step'[q] = step[q]
      BY <1>2, <1>d, <1>g, <1>s, <1>v, <2>2 DEF ResponseTypes
    <2> QED  BY <1>a, <1>t, <1>w, <2>1, <2>3
  <1>5. CASE GetClient(r)
    <2>1. step[r] # "idle" /\ UNCHANGED <<ask, list, grant, rejected>>  BY <1>5 DEF GetClient
    <2>2. \/ /\ Goto(r, "providers") /\ UNCHANGED <<answer, emitted>>
             /\ node' = [node EXCEPT ![r] = services[ask[r].client].node]
             /\ services[ask[r].client] # NoService
          \/ Deny(r, "NO_PROVIDER_AVAILABLE") /\ UNCHANGED node
      BY <1>5, Zenon DEF GetClient
    <2>3. ResponseTypes' /\ step'[r] # "grant" /\ \A q \in Requests \ {r} : step'[q] = step[q]
      BY <1>2, <1>d, <1>g, <1>s, <1>v, <2>2 DEF ResponseTypes
    <2>4. node' \in [Requests -> Nodes \cup {"none"}]
      <3>1. CASE UNCHANGED node  BY <1>2, <3>1 DEF WorkTypes
      <3>2. CASE node' = [node EXCEPT ![r] = services[ask[r].client].node]
                 /\ services[ask[r].client] # NoService
        <4>1. ask[r].client \in Services
          BY <1>2, <2>1, EngineConstantsOK DEF Prepared, Asks, EngineConstantsOK
        <4>2. services[ask[r].client].node \in Nodes  BY <3>2, <4>1 DEF TypeOK, Entry
        <4> QED  BY <1>2, <3>2, <4>2 DEF WorkTypes
      <3> QED  BY <2>2, <3>1, <3>2
    <2>5. WorkTypes'  BY <1>1, <1>2, <2>1, <2>4 DEF WorkTypes
    <2> QED  BY <1>a, <1>t, <2>1, <2>3, <2>5
  <1>6. ASSUME NEW new \in Seq(Refs), list' = [list EXCEPT ![r] = new], NEW t \in Steps \ {"grant"},
               step[r] # "idle", UNCHANGED <<ask, node, grant, rejected>>,
               \/ Goto(r, t) /\ UNCHANGED <<answer, emitted>>
               \/ Deny(r, "NO_PROVIDER_AVAILABLE")
        PROVE  Types'
    <2>1. ResponseTypes' /\ step'[r] # "grant" /\ \A q \in Requests \ {r} : step'[q] = step[q]
      BY <1>2, <1>d, <1>g, <1>v, <1>6 DEF ResponseTypes
    <2>2. list' \in [Requests -> Seq(Refs)] /\ \A q \in Requests \ {r} : list'[q] = list[q]
      BY <1>2, <1>6 DEF WorkTypes
    <2>3. WorkTypes'  BY <1>1, <1>2, <1>6, <2>2 DEF WorkTypes
    <2> QED  BY <1>6, <1>a, <1>t, <2>1, <2>2, <2>3
  <1>7. CASE GetProviders(r)
    <2>1. /\ list' = [list EXCEPT ![r] = providers[ask[r].cap]] /\ step[r] # "idle"
          /\ UNCHANGED <<ask, node, grant, rejected>>
      BY <1>7 DEF GetProviders
    <2>2. \/ Goto(r, "sort") /\ UNCHANGED <<answer, emitted>>
          \/ Deny(r, "NO_PROVIDER_AVAILABLE")
      BY <1>7, Zenon DEF GetProviders
    <2>3. providers[ask[r].cap] \in Seq(Refs)
      <3>1. ask[r].cap \in Caps  BY <1>2, <2>1 DEF Prepared, Asks
      <3> QED  BY <3>1 DEF TypeOK, Refs
    <2>4. "sort" \in Steps \ {"grant"}  BY <1>s
    <2> QED  BY <1>6, <2>1, <2>2, <2>3, <2>4
  <1>8. CASE SortProviders(r)
    <2> DEFINE new == SortByScore([o \in ToSet(list[r]) |-> ScoreOf(r, o)], list[r])
    <2>1. /\ list' = [list EXCEPT ![r] = new] /\ step[r] # "idle"
          /\ UNCHANGED <<ask, node, grant, rejected>>
      BY <1>8, Zenon DEF SortProviders, ScoreOf
    <2>2. \/ Goto(r, "evaluate") /\ UNCHANGED <<answer, emitted>>
          \/ Deny(r, "NO_PROVIDER_AVAILABLE")
      BY <1>8, Zenon DEF SortProviders
    <2>3. new \in Seq(Refs)
      <3>1. list[r] \in Seq(Refs)  BY <1>2 DEF WorkTypes
      <3>2. ask[r] \in Asks  BY <1>2, <2>1 DEF Prepared
      <3> QED  BY <3>1, <3>2, SortedList
    <2>4. "evaluate" \in Steps \ {"grant"}  BY <1>s
    <2> HIDE DEF new
    <2> QED  BY <1>6, <2>1, <2>2, <2>3, <2>4
  <1>9. CASE Evaluate(r)
    <2>1. /\ step[r] = "evaluate" /\ list[r] # <<>> /\ UNCHANGED <<ask, node, grant, answer, emitted>>
          /\ \/ Goto(r, "grant") /\ UNCHANGED <<list, rejected>>
             \/ /\ list' = [list EXCEPT ![r] = Tail(list[r])] /\ UNCHANGED step
                /\ rejected' = [rejected EXCEPT ![r] = rejected[r] \cup {Head(list[r])}]
      BY <1>9 DEF Evaluate
    <2>2. Head(list[r]) \in Refs /\ Tail(list[r]) \in Seq(Refs)
      <3>1. list[r] \in Seq(Refs)  BY <1>2 DEF WorkTypes
      <3> QED  BY <2>1, <3>1, HeadTailProperties
    <2>3. CASE Goto(r, "grant") /\ UNCHANGED <<list, rejected>>
      <3>1. ResponseTypes'  BY <1>2, <1>g, <1>s, <2>1, <2>3 DEF ResponseTypes
      <3> QED  BY <1>a, <1>g, <1>s, <1>t, <1>w, <2>1, <2>3, <3>1
    <2>4. CASE /\ list' = [list EXCEPT ![r] = Tail(list[r])] /\ UNCHANGED step
               /\ rejected' = [rejected EXCEPT ![r] = rejected[r] \cup {Head(list[r])}]
      <3> DEFINE h == Head(list[r])
                 t == Tail(list[r])
      <3> HIDE DEF h, t
      <3>1. /\ h \in Refs /\ t \in Seq(Refs) /\ list' = [list EXCEPT ![r] = t]
            /\ rejected' = [rejected EXCEPT ![r] = rejected[r] \cup {h}]
        BY <2>2, <2>4 DEF h, t
      <3>2. /\ list' \in [Requests -> Seq(Refs)] /\ rejected' \in [Requests -> SUBSET Refs]
            /\ \A q \in Requests \ {r} : list'[q] = list[q]
        BY <1>2, <3>1 DEF WorkTypes
      <3>3. WorkTypes' /\ ResponseTypes'  BY <1>1, <1>2, <2>1, <2>4, <3>2 DEF WorkTypes, ResponseTypes
      <3> QED  BY <1>a, <1>t, <2>1, <2>4, <3>2, <3>3
    <2> QED  BY <2>1, <2>3, <2>4
  <1>10. CASE NoneAccepted(r)
    <2>1. /\ Deny(r, "POLICY_DENIED") /\ step[r] # "idle"
          /\ UNCHANGED <<ask, node, list, grant, rejected>>
      BY <1>10 DEF NoneAccepted
    <2> QED  BY <1>a, <1>d, <1>t, <1>v, <1>w, <2>1
  <1>11. CASE IssueGrant(r)
    <2> DEFINE g == [provider |-> Head(list[r]), identity |-> objects[Head(list[r])].identity]
               e == Append(emitted[r], "granted")
    <2>1. /\ Goto(r, "done") /\ step[r] = "grant" /\ answer' = [answer EXCEPT ![r] = "allow"]
          /\ emitted' = [emitted EXCEPT ![r] = e] /\ grant' = [grant EXCEPT ![r] = g]
          /\ UNCHANGED <<ask, node, list, rejected>>
      BY <1>11 DEF IssueGrant
    <2>2. e \in Seq({"granted", "denied"})  BY <1>2, AppendProperties DEF ResponseTypes
    <2>3. g \in [provider : Refs, identity : Ids]
      <3>1. list[r] \in Seq(Refs) /\ list[r] # <<>>  BY <1>2, <2>1 DEF WorkTypes, Prepared
      <3>2. Head(list[r]) \in Refs  BY <3>1, HeadTailProperties
      <3>3. objects[Head(list[r])] \in Provider
        BY <3>2, ElementOfSeq DEF TypeOK, Refs
      <3> QED  BY <3>2, <3>3 DEF Provider
    <2> HIDE DEF g, e
    <2>4. answer' \in [Requests -> Answers] /\ emitted' \in [Requests -> Seq({"granted", "denied"})]
      BY <1>2, <1>v, <2>1, <2>2 DEF ResponseTypes
    <2>5. ResponseTypes'  BY <1>g, <1>s, <2>1, <2>4 DEF ResponseTypes
    <2>6. grant' \in [Requests -> {NoGrant} \cup [provider : Refs, identity : Ids]]
      BY <1>2, <2>1, <2>3 DEF WorkTypes
    <2>7. WorkTypes'  BY <1>1, <1>2, <2>1, <2>6 DEF WorkTypes
    <2>8. step[r] # "idle"  BY <2>1
    <2> QED  BY <1>a, <1>g, <1>s, <1>t, <2>1, <2>5, <2>7, <2>8
  <1> QED
    BY <1>3, <1>4, <1>5, <1>7, <1>8, <1>9, <1>10, <1>11, Zenon DEF RequestStep

(* What is listed are objects. *)
LEMMA ListedAreObjects ==
  ASSUME TypeOK, NEW c \in Caps
  PROVE  ToSet(providers[c]) \subseteq Refs
  <1>1. providers[c] \in Seq(Refs)  BY DEF TypeOK, Refs
  <1> DEFINE l == providers[c]
  <1> HIDE DEF l
  <1>2. l \in Seq(Refs) => ToSet(l) \subseteq Refs  BY DEF ToSet
  <1> QED  BY <1>1, <1>2 DEF l

(* A request that comes in. *)
LEMMA SubmitTypes ==
  ASSUME TypeOK, Types, NEW r \in Requests, NEW client \in Clients, NEW c \in Caps, NEW con \in Constraints,
         UNCHANGED <<registryVars, evaluatorVars>>, Submit(r, client, c, con), NoteSubmit(r)
  PROVE  Types'
  <1> DEFINE a == [client |-> client, cap |-> c, locality |-> con.locality, limited |-> con.limited]
  <1>1. UNCHANGED <<objects, services, providers, cache, handler, policy, consents>>
    BY DEF registryVars, dirVars, evaluatorVars
  <1>2. /\ step[r] = "idle" /\ Goto(r, "capability") /\ ask' = [ask EXCEPT ![r] = a]
        /\ UNCHANGED <<node, list, grant, answer, emitted, rejected>>
    BY DEF Submit
  <1>3. a \in Asks  BY EngineConstantsOK DEF Asks
  <1>4. client \in Services  BY EngineConstantsOK
  <1> HIDE DEF a
  <1>5. ResponseTypes /\ WorkTypes /\ HistoryTypes /\ PolicyTypes /\ Prepared /\ Refs' = Refs
    BY <1>1 DEF Types, Refs
  <1>6. /\ step' \in [Requests -> Steps] /\ step'[r] = "capability"
        /\ \A q \in Requests \ {r} : step'[q] = step[q]
    BY <1>2, <1>5 DEF Goto, ResponseTypes, Steps
  <1>7. /\ ask' \in [Requests -> {NoRequest} \cup Asks] /\ ask'[r] = a
        /\ \A q \in Requests \ {r} : ask'[q] = ask[q]
    BY <1>2, <1>3, <1>5 DEF WorkTypes
  <1>8. ResponseTypes' /\ WorkTypes' /\ PolicyTypes'
    BY <1>1, <1>2, <1>5, <1>6, <1>7 DEF ResponseTypes, WorkTypes, PolicyTypes
  <1>9. Prepared'  BY <1>2, <1>3, <1>5, <1>6, <1>7 DEF Prepared
  <1>10. a.client = client /\ a.cap = c  BY DEF a
  <1>11. home' \in [Requests -> Nodes \cup {"none"}]
    <2>1. services[client].node \in Nodes \cup {"none"}
      <3>1. services[client] \in Entry \/ services[client] = NoService  BY <1>4 DEF TypeOK
      <3>2. CASE services[client] \in Entry  BY <3>2 DEF Entry
      <3>3. CASE services[client] = NoService
        <4>1. NoService.node = "none"  BY DEF NoService
        <4> QED  BY <3>3, <4>1
      <3> QED  BY <3>1, <3>2, <3>3
    <2>2. home' = [home EXCEPT ![r] = services[client].node]  BY <1>1, <1>7, <1>10 DEF NoteSubmit
    <2> QED  BY <1>5, <2>1, <2>2 DEF HistoryTypes
  <1>12. steady' \in [Requests -> SUBSET Refs]
    <2>1. ToSet(providers[c]) \subseteq Refs  BY ListedAreObjects
    <2>2. ListedFor(r)' = ToSet(providers[c]) \/ ListedFor(r)' = {}  BY <1>1, <1>7, <1>10 DEF ListedFor
    <2>3. steady' = [steady EXCEPT ![r] = ListedFor(r)']  BY DEF NoteSubmit
    <2> QED  BY <1>5, <2>1, <2>2, <2>3 DEF HistoryTypes
  <1>13. gone' \in [Requests -> SUBSET Refs]
    <2> DEFINE lost == {o \in DOMAIN objects : handler = Waiting /\ ~objects[o].available}
    <2>1. gone' = [gone EXCEPT ![r] = lost]  BY DEF NoteSubmit
    <2>2. lost \subseteq Refs  BY DEF TypeOK, Refs
    <2> HIDE DEF lost
    <2> QED  BY <1>5, <2>1, <2>2 DEF HistoryTypes
  <1>14. HistoryTypes'  BY <1>5, <1>11, <1>12, <1>13 DEF HistoryTypes
  <1> QED  BY <1>8, <1>9, <1>14 DEF Types

(* An event: no request moves, and none has more steady providers than before. *)
LEMMA NotedTypes ==
  ASSUME Types, ObjectsGrow, UNCHANGED <<requestVars, home, gone>>, PolicyTypes',
         steady' = [r \in Requests |-> IF Working(r) THEN steady[r] \cap ListedFor(r)' ELSE steady[r]]
  PROVE  Types'
  <1>1. Refs \subseteq Refs' /\ Seq(Refs) \subseteq Seq(Refs')
    <2>1. Refs \subseteq Refs'  BY DEF ObjectsGrow, Refs
    <2> QED  BY <2>1, SeqMonotonic
  <1>2. ResponseTypes /\ WorkTypes /\ HistoryTypes /\ Prepared  BY DEF Types
  <1>3. UNCHANGED <<step, ask, node, list, grant, answer, emitted, rejected, home, gone>>
    BY DEF requestVars
  <1>4. ResponseTypes' /\ Prepared'  BY <1>2, <1>3 DEF ResponseTypes, Prepared
  <1>5. WorkTypes'
    <2>1. list' \in [Requests -> Seq(Refs')] /\ rejected' \in [Requests -> SUBSET Refs']
      BY <1>1, <1>2, <1>3 DEF WorkTypes
    <2>2. grant' \in [Requests -> {NoGrant} \cup [provider : Refs', identity : Ids]]
      BY <1>1, <1>2, <1>3 DEF WorkTypes
    <2> QED  BY <1>2, <1>3, <2>1, <2>2 DEF WorkTypes
  <1>6. HistoryTypes'
    <2>1. \A r \in Requests : steady'[r] \subseteq steady[r]  OBVIOUS
    <2>2. steady' \in [Requests -> SUBSET Refs']  BY <1>1, <1>2, <2>1 DEF HistoryTypes
    <2>3. gone' \in [Requests -> SUBSET Refs']  BY <1>1, <1>2, <1>3 DEF HistoryTypes
    <2> QED  BY <1>2, <1>3, <2>2, <2>3 DEF HistoryTypes
  <1> QED  BY <1>4, <1>5, <1>6 DEF Types

(* At first no request has come in. *)
LEMMA InitTypes == ASSUME BindingInit PROVE IInv /\ Types
  <1>1. IInv  BY InitIInv DEF BindingInit
  <1> USE DEF BindingInit, EngineInit, EvaluatorInit, All
  <1>2. PolicyTypes  BY DEF PolicyTypes
  <1>e. \A S : <<>> \in Seq(S)  BY EmptySeq
  <1>3. ResponseTypes
    <2>1. emitted \in [Requests -> Seq({"granted", "denied"})]  BY <1>e, Zenon
    <2> QED  BY <2>1 DEF ResponseTypes, Steps, Answers
  <1>4. list \in [Requests -> Seq(Refs)]  BY <1>e, Zenon
  <1>5. WorkTypes  BY <1>4 DEF WorkTypes
  <1>6. HistoryTypes  BY DEF HistoryTypes
  <1>7. Prepared  BY DEF Prepared
  <1> QED  BY <1>1, <1>2, <1>3, <1>5, <1>6, <1>7 DEF Types

\* What a step of BindingNext is to the requests.
Noted == /\ ObjectsGrow /\ UNCHANGED <<requestVars, home, gone>> /\ PolicyTypes'
         /\ steady' = [r \in Requests |-> IF Working(r) THEN steady[r] \cap ListedFor(r)' ELSE steady[r]]
Submitted(r) == /\ UNCHANGED <<registryVars, evaluatorVars>> /\ NoteSubmit(r)
                /\ \E client \in Clients, c \in Caps, con \in Constraints : Submit(r, client, c, con)
Worked(r) == RequestStep(r) /\ UNCHANGED <<registryVars, evaluatorVars, historyVars>>
Idled == UNCHANGED <<dirVars, handler, evaluatorVars, requestVars, historyVars>>

(* A step is an event, the arrival of a request, a step of one, or nothing to them. *)
LEMMA StepIs ==
  ASSUME IInv, Types, [BindingNext]_vars
  PROVE  Noted \/ Idled \/ \E r \in Requests : Submitted(r) \/ Worked(r)
  <1>1. CASE Events /\ UNCHANGED <<evaluatorVars, requestVars>> /\ NoteEvent
    <2>1. ObjectsGrow  BY <1>1, EventsGrow
    <2>2. PolicyTypes'  BY <1>1 DEF Types, PolicyTypes, evaluatorVars
    <2>3. Noted
      <3> HIDE DEF ObjectsGrow
      <3> QED  BY <1>1, <2>1, <2>2 DEF Noted, NoteEvent
    <2> QED  BY <2>3
  <1>2. CASE PolicyEvent /\ UNCHANGED requestVars /\ NoteEvent
    <2>1. /\ UNCHANGED dirVars
          /\ policy' \in Policies \cup {policy} /\ consents' \subseteq consents \cup (Services \X Caps)
      BY <1>2, PolicyEventIs
    <2>2. ObjectsGrow  BY <2>1 DEF ObjectsGrow, dirVars, IInv, TypeOK
    <2>3. PolicyTypes'  BY <2>1 DEF Types, PolicyTypes
    <2>4. Noted
      <3> HIDE DEF ObjectsGrow
      <3> QED  BY <1>2, <2>2, <2>3 DEF Noted, NoteEvent
    <2> QED  BY <2>4
  <1>3. CASE (OutOfEvents /\ UNCHANGED <<evaluatorVars, requestVars, historyVars>>) \/ UNCHANGED vars
    <2>1. Idled  BY <1>3 DEF OutOfEvents, vars, registryVars, Idled
    <2> QED  BY <2>1
  <1>4. CASE \E r \in Requests, client \in Clients, c \in Caps, con \in Constraints :
               /\ UNCHANGED <<registryVars, evaluatorVars>>
               /\ Submit(r, client, c, con) /\ NoteSubmit(r)
    <2>1. \E r \in Requests : Submitted(r)  BY <1>4, Zenon DEF Submitted
    <2> QED  BY <2>1
  <1>5. CASE \E r \in Requests : RequestStep(r) /\ UNCHANGED <<registryVars, evaluatorVars, historyVars>>
    <2>1. \E r \in Requests : Worked(r)  BY <1>5, Zenon DEF Worked
    <2> QED  BY <2>1
  <1> QED  BY <1>1, <1>2, <1>3, <1>4, <1>5, Zenon DEF BindingNext

(* Every step keeps the types. *)
LEMMA NextTypes == ASSUME IInv, Types, [BindingNext]_vars PROVE IInv' /\ Types'
  <1>0. TypeOK  BY DEF IInv
  <1>i. IInv'  BY RegistryKept
  <1>1. CASE Noted
    <2>1. /\ ObjectsGrow /\ UNCHANGED <<requestVars, home, gone>> /\ PolicyTypes'
          /\ steady' = [r \in Requests |-> IF Working(r) THEN steady[r] \cap ListedFor(r)' ELSE steady[r]]
      BY <1>1, Zenon DEF Noted
    <2> QED  BY <1>i, <2>1, NotedTypes
  <1>2. CASE Idled
    <2>1. UNCHANGED <<objects, policy, consents, step, ask, node, list, grant, answer, emitted, rejected,
                      home, steady, gone>>
      BY <1>2 DEF Idled, dirVars, evaluatorVars, requestVars, historyVars
    <2>2. ResponseTypes' /\ PolicyTypes' /\ Prepared'
      BY <2>1 DEF Types, ResponseTypes, PolicyTypes, Prepared
    <2>3. WorkTypes' /\ HistoryTypes'  BY <2>1 DEF Types, WorkTypes, HistoryTypes, Refs
    <2> QED  BY <1>i, <2>2, <2>3 DEF Types
  <1>3. ASSUME NEW r \in Requests, Submitted(r) PROVE Types'
    <2>1. PICK client \in Clients, c \in Caps, con \in Constraints : Submit(r, client, c, con)
      BY <1>3 DEF Submitted
    <2>2. UNCHANGED <<registryVars, evaluatorVars>> /\ NoteSubmit(r)  BY <1>3 DEF Submitted
    <2> QED  BY <1>0, <2>1, <2>2, SubmitTypes
  <1>4. ASSUME NEW r \in Requests, Worked(r) PROVE Types'
    BY <1>0, <1>4, RequestTypes DEF Worked
  <1> QED  BY <1>i, <1>1, <1>2, <1>3, <1>4, StepIs

-----------------------------------------------------------------------------
(* RequestBinding: what becomes of the providers that stay listed.         *)

\* While a request is worked on, its steady providers are listed for it.
Listing(r) == Working(r) => steady[r] \subseteq ListedFor(r)

\* It looks for them from where its client was when it came in.
AtHome(r) == step[r] \in {"providers", "sort", "evaluate", "grant"} /\ steady[r] # {} => node[r] = home[r]

\* GetProviders returned them, ...
Fetched(r) == step[r] = "sort" => steady[r] \subseteq ToSet(list[r])

\* ... those that can be used are left in the sorted list or have been refused, ...
Kept(r) == step[r] \in {"evaluate", "grant"} =>
             \A o \in steady[r] : UsableAnywhere(r, o) => o \in rejected[r] \cup ToSet(list[r])

\* ... and the list has the client's own node first.
OwnFirst(r) == step[r] \in {"evaluate", "grant"} =>
                 \A i, j \in DOMAIN list[r] :
                   i < j /\ objects[list[r][j]].node = node[r] => objects[list[r][i]].node = node[r]

\* What is left of this once the request is answered.
Answered(r) ==
  /\ answer[r] \in {"NO_PROVIDER_AVAILABLE", "POLICY_DENIED"} =>
       \A o \in steady[r] : UsableAnywhere(r, o) => o \in rejected[r]
  /\ grant[r] # NoGrant /\ objects[grant[r].provider].node # home[r] =>
       \A o \in steady[r] : objects[o].node = home[r] => o \in rejected[r]

\* Nothing is answered, granted or recorded before the end.
Recorded(r) ==
  IF step[r] = "done"
  THEN /\ answer[r] = "allow" <=> grant[r] # NoGrant
       /\ emitted[r] = IF answer[r] = "allow" THEN <<"granted">>
                       ELSE IF answer[r] = "INTERNAL_ERROR" THEN <<>> ELSE <<"denied">>
  ELSE answer[r] = "" /\ grant[r] = NoGrant /\ emitted[r] = <<>>

Searching(r)  == Listing(r) /\ AtHome(r) /\ Fetched(r) /\ Kept(r) /\ OwnFirst(r)
RequestInv(r) == Searching(r) /\ Answered(r) /\ Recorded(r)

\* A step leaves the request as it is; its steady providers may become fewer.
Same(r) == /\ step'[r] = step[r] /\ ask'[r] = ask[r] /\ node'[r] = node[r] /\ list'[r] = list[r]
           /\ grant'[r] = grant[r] /\ answer'[r] = answer[r] /\ emitted'[r] = emitted[r]
           /\ rejected'[r] = rejected[r] /\ home'[r] = home[r] /\ steady'[r] \subseteq steady[r]

(* Such a step keeps what is said of the request. *)
LEMMA Undisturbed ==
  ASSUME Types, ObjectsGrow, NEW r \in Requests, RequestInv(r), Same(r),
         Working(r) => steady'[r] \subseteq ListedFor(r)'
  PROVE  RequestInv(r)'
  <1>1. /\ list[r] \in Seq(Refs) /\ steady[r] \subseteq Refs
        /\ grant[r] \in {NoGrant} \cup [provider : Refs, identity : Ids]
    BY DEF Types, WorkTypes, HistoryTypes
  <1>2. \A o \in Refs : objects'[o].node = objects[o].node  BY DEF ObjectsGrow, Refs
  <1>3. Preference(r)' = Preference(r) /\ Working(r)' = Working(r)  BY DEF Same, Preference, Working
  <1>4. \A o \in steady[r] : objects'[o].node = objects[o].node  BY <1>1, <1>2
  <1>5. \A o \in steady[r] : UsableAnywhere(r, o)' = UsableAnywhere(r, o)
    BY <1>3, <1>4 DEF UsableAnywhere, Same
  <1>6. Listing(r)'  BY <1>3 DEF Listing
  <1>7. AtHome(r)' /\ Fetched(r)'  BY DEF RequestInv, Searching, AtHome, Fetched, Same
  <1>8. Kept(r)'  BY <1>5 DEF RequestInv, Searching, Kept, Same
  <1>9. OwnFirst(r)'
    <2>1. \A i \in DOMAIN list[r] : list[r][i] \in Refs
      <3> DEFINE l == list[r]
      <3>1. l \in Seq(Refs)  BY <1>1
      <3> HIDE DEF l
      <3>2. \A i \in DOMAIN l : l[i] \in Refs  BY <3>1
      <3> QED  BY <3>2 DEF l
    <2>2. \A i \in DOMAIN list[r] : objects'[list[r][i]].node = objects[list[r][i]].node  BY <1>2, <2>1
    <2> QED  BY <2>2 DEF RequestInv, Searching, OwnFirst, Same
  <1>10. Answered(r)'
    <2>1. grant[r] # NoGrant => objects'[grant[r].provider].node = objects[grant[r].provider].node
      BY <1>1, <1>2
    <2>2. /\ answer'[r] \in {"NO_PROVIDER_AVAILABLE", "POLICY_DENIED"} =>
               \A o \in steady'[r] : UsableAnywhere(r, o)' => o \in rejected'[r]
      BY <1>5 DEF RequestInv, Answered, Same
    <2>3. grant'[r] # NoGrant /\ objects'[grant'[r].provider].node # home'[r] =>
               \A o \in steady'[r] : objects'[o].node = home'[r] => o \in rejected'[r]
      BY <1>4, <2>1 DEF RequestInv, Answered, Same
    <2> QED  BY <2>2, <2>3 DEF Answered
  <1>11. Recorded(r)'  BY DEF RequestInv, Recorded, Same
  <1> QED  BY <1>6, <1>7, <1>8, <1>9, <1>10, <1>11 DEF RequestInv, Searching

(* A request that has just come in has looked at nothing. *)
LEMMA SubmittedInv ==
  ASSUME Types, NEW r \in Requests, RequestInv(r), Submitted(r)
  PROVE  /\ RequestInv(r)'
         /\ \A q \in Requests \ {r} : Same(q) /\ ListedFor(q)' = ListedFor(q) /\ steady'[q] = steady[q]
  <1>1. PICK a : /\ step[r] = "idle" /\ Goto(r, "capability") /\ ask' = [ask EXCEPT ![r] = a]
                 /\ UNCHANGED <<node, list, grant, answer, emitted, rejected>>
    BY DEF Submitted, Submit
  <1>2. UNCHANGED <<objects, services, providers, cache>>
    BY DEF Submitted, registryVars, dirVars
  <1>3. \E h : home' = [home EXCEPT ![r] = h]  BY DEF Submitted, NoteSubmit
  <1>4. steady' = [steady EXCEPT ![r] = ListedFor(r)']  BY DEF Submitted, NoteSubmit
  <1>5. step'[r] = "capability" /\ steady'[r] = ListedFor(r)'
    BY <1>1, <1>4 DEF Goto, Types, ResponseTypes, HistoryTypes
  <1>6. answer'[r] = "" /\ grant'[r] = NoGrant /\ emitted'[r] = <<>>
    BY <1>1 DEF RequestInv, Recorded
  <1>7. Searching(r)'  BY <1>5 DEF Searching, Listing, AtHome, Fetched, Kept, OwnFirst
  <1>8. Answered(r)' /\ Recorded(r)'  BY <1>5, <1>6 DEF Answered, Recorded
  <1>9. ASSUME NEW q \in Requests \ {r}
        PROVE  Same(q) /\ ListedFor(q)' = ListedFor(q) /\ steady'[q] = steady[q]
    <2>1. /\ step'[q] = step[q] /\ ask'[q] = ask[q] /\ home'[q] = home[q] /\ steady'[q] = steady[q]
      BY <1>1, <1>3, <1>4 DEF Goto, Types, ResponseTypes, WorkTypes, HistoryTypes
    <2>2. Same(q)  BY <1>1, <2>1 DEF Same
    <2> QED  BY <1>2, <2>1, <2>2 DEF ListedFor
  <1> QED  BY <1>7, <1>8, <1>9 DEF RequestInv

(* A step of RequestBinding moves one request. *)
LEMMA WorkedOn ==
  ASSUME Types, NEW r \in Requests, Worked(r)
  PROVE  /\ UNCHANGED <<objects, members, services, providers, cache, ask, home, steady>>
         /\ \A q \in Requests \ {r} : Same(q) /\ ListedFor(q)' = ListedFor(q)
         /\ ListedFor(r)' = ListedFor(r) /\ step[r] \notin {"idle", "done"}
  <1>1. UNCHANGED <<objects, members, services, providers, cache, home, steady>>
    BY DEF Worked, registryVars, dirVars, historyVars
  <1>2. ResponseTypes /\ WorkTypes  BY DEF Types
  <1> DEFINE Others(f) == \A q \in Requests \ {r} : f'[q] = f[q]
  <1>d. ASSUME NEW reason \in Answers, Deny(r, reason)
        PROVE  \A q \in Requests \ {r} :
                 step'[q] = step[q] /\ answer'[q] = answer[q] /\ emitted'[q] = emitted[q]
    BY <1>2, <1>d, DenyTypes
  <1>g. ASSUME NEW t, Goto(r, t) PROVE \A q \in Requests \ {r} : step'[q] = step[q]
    BY <1>2, <1>g DEF Goto, ResponseTypes
  <1>v. {"CAPABILITY_UNKNOWN", "NO_PROVIDER_AVAILABLE", "POLICY_DENIED"} \subseteq Answers  BY DEF Answers
  <1> DEFINE Kin(q) == /\ step'[q] = step[q] /\ node'[q] = node[q] /\ list'[q] = list[q]
                       /\ grant'[q] = grant[q] /\ answer'[q] = answer[q] /\ emitted'[q] = emitted[q]
                       /\ rejected'[q] = rejected[q]
             Moved == /\ UNCHANGED ask /\ step[r] \notin {"idle", "done"}
                      /\ \A q \in Requests \ {r} : Kin(q)
  <1>3. CASE Cancelled(r)
    <2>1. Moved  BY <1>2, <1>3, <1>g DEF Cancelled, ResponseTypes
    <2> QED  BY <1>1, <2>1 DEF Same, ListedFor
  <1>4. CASE GetCapability(r)
    <2>1. Moved  BY <1>2, <1>4, <1>d, <1>g, <1>v DEF GetCapability
    <2> QED  BY <1>1, <2>1 DEF Same, ListedFor
  <1>5. CASE GetClient(r)
    <2>1. Moved  BY <1>2, <1>5, <1>d, <1>g, <1>v DEF GetClient, WorkTypes
    <2> QED  BY <1>1, <2>1 DEF Same, ListedFor
  <1>6. CASE GetProviders(r)
    <2>1. Moved  BY <1>2, <1>6, <1>d, <1>g, <1>v DEF GetProviders, WorkTypes
    <2> QED  BY <1>1, <2>1 DEF Same, ListedFor
  <1>7. CASE SortProviders(r)
    <2>1. PICK new : list' = [list EXCEPT ![r] = new]  BY <1>7, Zenon DEF SortProviders
    <2>2. /\ step[r] = "sort" /\ UNCHANGED <<ask, node, grant, rejected>>
          /\ \/ Goto(r, "evaluate") /\ UNCHANGED <<answer, emitted>>
             \/ Deny(r, "NO_PROVIDER_AVAILABLE")
      BY <1>7, Zenon DEF SortProviders
    <2>3. Moved  BY <1>2, <1>d, <1>g, <1>v, <2>1, <2>2 DEF WorkTypes
    <2> QED  BY <1>1, <2>3 DEF Same, ListedFor
  <1>8. CASE Evaluate(r)
    <2>1. /\ step[r] = "evaluate" /\ UNCHANGED <<ask, node, grant, answer, emitted>>
          /\ \/ Goto(r, "grant") /\ UNCHANGED <<list, rejected>>
             \/ /\ list' = [list EXCEPT ![r] = Tail(list[r])] /\ UNCHANGED step
                /\ rejected' = [rejected EXCEPT ![r] = rejected[r] \cup {Head(list[r])}]
      BY <1>8 DEF Evaluate
    <2>2. Moved  BY <1>2, <1>g, <2>1 DEF WorkTypes
    <2> QED  BY <1>1, <2>2 DEF Same, ListedFor
  <1>9. CASE NoneAccepted(r)
    <2>1. Moved  BY <1>2, <1>9, <1>d, <1>v DEF NoneAccepted
    <2> QED  BY <1>1, <2>1 DEF Same, ListedFor
  <1>10. CASE IssueGrant(r)
    <2>1. PICK g, e : grant' = [grant EXCEPT ![r] = g] /\ emitted' = [emitted EXCEPT ![r] = e]
      BY <1>10 DEF IssueGrant
    <2>2. Moved  BY <1>2, <1>10, <1>g, <2>1 DEF IssueGrant, WorkTypes, ResponseTypes
    <2> QED  BY <1>1, <2>2 DEF Same, ListedFor
  <1> QED
    BY <1>3, <1>4, <1>5, <1>6, <1>7, <1>8, <1>9, <1>10, Zenon DEF RequestStep, Worked

(* One event recorded. *)
LEMMA AppendToNothing == ASSUME NEW e PROVE Append(<<>>, e) = <<e>>
  <1> DEFINE a == Append(<<>>, e)
             b == <<e>>
  <1>1. <<>> \in Seq({e}) /\ e \in {e} /\ Len(<<>>) = 0  BY EmptySeq
  <1>2. a \in Seq({e}) /\ Len(a) = 1 /\ a[1] = e  BY <1>1, AppendProperties
  <1>3. b \in Seq({e}) /\ Len(b) = 1 /\ b[1] = e  OBVIOUS
  <1> HIDE DEF a, b
  <1>4. \A i \in 1..Len(a) : a[i] = b[i]  BY <1>2, <1>3
  <1>5. a = b  BY <1>2, <1>3, <1>4, SeqEqual
  <1> QED  BY <1>5 DEF a, b

(* A denial ends the request, whose steady providers have been refused by then. *)
LEMMA DeniedInv ==
  ASSUME Types, NEW r \in Requests, RequestInv(r), step[r] # "done",
         NEW reason \in Answers \ {"", "allow", "INTERNAL_ERROR"}, Deny(r, reason), UNCHANGED grant,
         reason \in {"NO_PROVIDER_AVAILABLE", "POLICY_DENIED"} =>
           \A o \in steady'[r] : UsableAnywhere(r, o)' => o \in rejected'[r]
  PROVE  RequestInv(r)'
  <1>1. /\ step'[r] = "done" /\ answer'[r] = reason /\ emitted'[r] = Append(emitted[r], "denied")
    BY DenyTypes DEF Types
  <1>2. grant'[r] = NoGrant /\ emitted[r] = <<>>  BY DEF RequestInv, Recorded
  <1>3. Append(<<>>, "denied") = <<"denied">>  BY AppendToNothing
  <1>4. Recorded(r)'  BY <1>1, <1>2, <1>3 DEF Recorded
  <1>5. Answered(r)'  BY <1>1, <1>2 DEF Answered
  <1>6. Searching(r)'  BY <1>1 DEF Searching, Listing, Working, AtHome, Fetched, Kept, OwnFirst
  <1> QED  BY <1>4, <1>5, <1>6 DEF RequestInv

(* The steps of RequestBinding, one after another. *)
LEMMA WorkedInv ==
  ASSUME TypeOK, Types, NEW r \in Requests, RequestInv(r), Worked(r)
  PROVE  RequestInv(r)'
  <1>1. /\ UNCHANGED <<objects, members, services, providers, cache, ask, home, steady>>
        /\ ListedFor(r)' = ListedFor(r) /\ step[r] \notin {"idle", "done"}
    BY WorkedOn
  <1>2. ResponseTypes /\ WorkTypes /\ HistoryTypes  BY DEF Types
  <1>3. /\ Listing(r) /\ AtHome(r) /\ Fetched(r) /\ Kept(r) /\ OwnFirst(r)
        /\ steady[r] \subseteq ListedFor(r)
        /\ answer[r] = "" /\ grant[r] = NoGrant /\ emitted[r] = <<>>
    BY <1>1 DEF RequestInv, Searching, Recorded, Listing, Working
  <1>4. Preference(r)' = Preference(r) /\ \A o : UsableAnywhere(r, o)' = UsableAnywhere(r, o)
    BY <1>1 DEF Preference, UsableAnywhere
  <1>a. ask[r] \in Asks  BY <1>1 DEF Types, Prepared
  <1>g. ASSUME NEW t, Goto(r, t) PROVE step'[r] = t  BY <1>2, <1>g DEF Goto, ResponseTypes
  <1>n. ASSUME NEW t \in {"client", "providers", "sort", "evaluate", "grant"}, step'[r] = t,
               UNCHANGED <<answer, grant, emitted>>
        PROVE  Listing(r)' /\ Answered(r)' /\ Recorded(r)'
    BY <1>1, <1>3, <1>n DEF Listing, Answered, Recorded
  <1>d. ASSUME NEW reason \in {"CAPABILITY_UNKNOWN", "NO_PROVIDER_AVAILABLE", "POLICY_DENIED"},
               Deny(r, reason), UNCHANGED grant,
               reason # "CAPABILITY_UNKNOWN" =>
                 \A o \in steady[r] : UsableAnywhere(r, o) => o \in rejected'[r]
        PROVE  RequestInv(r)'
    <2>1. reason \in Answers \ {"", "allow", "INTERNAL_ERROR"}  BY DEF Answers
    <2>2. \A o \in steady'[r] : UsableAnywhere(r, o)' <=> UsableAnywhere(r, o)  BY <1>4
    <2> QED  BY <1>1, <1>d, <2>1, <2>2, DeniedInv
  <1>5. CASE Cancelled(r)
    <2>1. step'[r] = "done" /\ answer'[r] = "INTERNAL_ERROR" /\ UNCHANGED <<grant, emitted>>
      BY <1>2, <1>5, <1>g DEF Cancelled, ResponseTypes
    <2>2. Searching(r)'  BY <2>1 DEF Searching, Listing, Working, AtHome, Fetched, Kept, OwnFirst
    <2>3. Answered(r)' /\ Recorded(r)'  BY <1>3, <2>1 DEF Answered, Recorded
    <2> QED  BY <2>2, <2>3 DEF RequestInv
  <1>6. CASE GetCapability(r)
    <2>1. UNCHANGED <<grant, rejected>>  BY <1>6 DEF GetCapability
    <2>2. CASE Deny(r, "CAPABILITY_UNKNOWN")  BY <1>d, <2>1, <2>2
    <2>3. CASE Goto(r, "client") /\ UNCHANGED <<answer, emitted>>
      <3>1. step'[r] = "client"  BY <1>g, <2>3
      <3>2. AtHome(r)' /\ Fetched(r)' /\ Kept(r)' /\ OwnFirst(r)'
        BY <3>1 DEF AtHome, Fetched, Kept, OwnFirst
      <3> QED  BY <1>n, <2>1, <2>3, <3>1, <3>2 DEF RequestInv, Searching
    <2> QED  BY <1>6, <2>2, <2>3, Zenon DEF GetCapability
  <1>7. CASE GetClient(r)
    <2>1. UNCHANGED <<grant, rejected>>  BY <1>7 DEF GetClient
    <2>2. CASE services[ask[r].client] # NoService
      <3>1. /\ Goto(r, "providers") /\ UNCHANGED <<answer, emitted>>
            /\ node' = [node EXCEPT ![r] = services[ask[r].client].node]
        BY <1>7, <2>2 DEF GetClient
      <3>2. step'[r] = "providers" /\ node'[r] = services[ask[r].client].node
        BY <1>2, <1>g, <3>1 DEF WorkTypes
      <3>3. steady[r] # {} => services[ask[r].client].node = home[r]  BY <1>3 DEF ListedFor
      <3>4. AtHome(r)' /\ Fetched(r)' /\ Kept(r)' /\ OwnFirst(r)'
        BY <1>1, <3>2, <3>3 DEF AtHome, Fetched, Kept, OwnFirst
      <3> QED  BY <1>n, <2>1, <3>1, <3>2, <3>4 DEF RequestInv, Searching
    <2>3. CASE services[ask[r].client] = NoService
      <3>1. Deny(r, "NO_PROVIDER_AVAILABLE")  BY <1>7, <2>3 DEF GetClient
      <3>2. steady[r] = {}  BY <1>3, <2>3 DEF ListedFor
      <3> QED  BY <1>d, <2>1, <3>1, <3>2
    <2> QED  BY <2>2, <2>3
  <1>8. CASE GetProviders(r)
    <2> DEFINE new == providers[ask[r].cap]
    <2>1. /\ step[r] = "providers" /\ UNCHANGED <<grant, rejected, node>>
          /\ list' = [list EXCEPT ![r] = new]
      BY <1>8 DEF GetProviders
    <2>2. steady[r] \subseteq ToSet(new)  BY <1>3 DEF ListedFor
    <2>3. list'[r] = new  BY <1>2, <2>1 DEF WorkTypes
    <2> HIDE DEF new
    <2>4. CASE list'[r] # <<>>
      <3>1. Goto(r, "sort") /\ UNCHANGED <<answer, emitted>>  BY <1>8, <2>4 DEF GetProviders
      <3>2. step'[r] = "sort"  BY <1>g, <3>1
      <3>3. AtHome(r)' /\ Fetched(r)' /\ Kept(r)' /\ OwnFirst(r)'
        BY <1>1, <1>3, <2>1, <2>2, <2>3, <3>2 DEF AtHome, Fetched, Kept, OwnFirst
      <3> QED  BY <1>n, <2>1, <3>1, <3>2, <3>3 DEF RequestInv, Searching
    <2>5. CASE list'[r] = <<>>
      <3>1. Deny(r, "NO_PROVIDER_AVAILABLE")  BY <1>8, <2>5 DEF GetProviders
      <3>2. ToSet(<<>>) = {}  BY DEF ToSet
      <3>3. steady[r] = {}  BY <2>2, <2>3, <2>5, <3>2
      <3> QED  BY <1>d, <2>1, <3>1, <3>3
    <2> QED  BY <2>4, <2>5
  <1>9. CASE SortProviders(r)
    <2> DEFINE new == SortByScore([o \in ToSet(list[r]) |-> ScoreOf(r, o)], list[r])
    <2>1. /\ step[r] = "sort" /\ UNCHANGED <<grant, rejected, node>>
          /\ list' = [list EXCEPT ![r] = new]
      BY <1>9, Zenon DEF SortProviders, ScoreOf
    <2>2. list[r] \in Seq(Refs)  BY <1>2 DEF WorkTypes
    <2>3. /\ ToSet(new) = {o \in ToSet(list[r]) : ScoreOf(r, o) > 0} /\ new \in Seq(Refs)
          /\ \A a, b \in DOMAIN new : a < b => ScoreOf(r, new[a]) >= ScoreOf(r, new[b])
      BY <1>a, <2>2, SortedList
    <2> HIDE DEF new
    <2>4. list'[r] = new  BY <1>2, <2>1 DEF WorkTypes
    <2>5. \A o : /\ ScoreOf(r, o) \in 0..3
                 /\ ScoreOf(r, o) = 3 <=> objects[o].node = node[r]
                 /\ Preference(r) \in {"lan_preferred", "wan_allowed"} => ScoreOf(r, o) > 0
      <3> TAKE o
      <3> DEFINE d == Distance(members, node[r], objects[o].node)
      <3>1. d \in Distances /\ (d = "same_node" <=> objects[o].node = node[r])
        BY DEF Distance, Distances
      <3>2. Preference(r) \in Preferences  BY <1>a DEF Preference, Asks, Preferences
      <3> HIDE DEF d
      <3>3. /\ Score(d, Preference(r)) \in 0..3
            /\ Score(d, Preference(r)) = 3 <=> d = "same_node"
            /\ Preference(r) \in {"lan_preferred", "wan_allowed"} => Score(d, Preference(r)) > 0
        BY <3>1, <3>2, ScoreIs
      <3> QED  BY <3>1, <3>3 DEF ScoreOf, d
    <2>6. ASSUME NEW o \in steady[r], UsableAnywhere(r, o) PROVE o \in ToSet(new)
      <3>1. o \in ToSet(list[r]) /\ node[r] = home[r]  BY <1>3, <2>1 DEF AtHome, Fetched
      <3>2. ScoreOf(r, o) > 0  BY <2>5, <2>6, <3>1 DEF UsableAnywhere
      <3> QED  BY <2>3, <3>1, <3>2
    <2>7. CASE list'[r] # <<>>
      <3>1. Goto(r, "evaluate") /\ UNCHANGED <<answer, emitted>>
        BY <1>9, <2>7, Zenon DEF SortProviders
      <3>2. step'[r] = "evaluate"  BY <1>g, <3>1
      <3>3. AtHome(r)' /\ Fetched(r)'  BY <1>1, <1>3, <2>1, <3>2 DEF AtHome, Fetched
      <3>4. Kept(r)'  BY <1>1, <1>4, <2>4, <2>6 DEF Kept
      <3>5. ASSUME NEW i \in DOMAIN new, NEW j \in DOMAIN new, i < j, objects[new[j]].node = node[r]
            PROVE  objects[new[i]].node = node[r]
        <4>1. ScoreOf(r, new[j]) = 3 /\ ScoreOf(r, new[i]) >= ScoreOf(r, new[j])  BY <2>3, <2>5, <3>5
        <4>2. ScoreOf(r, new[i]) = 3  BY <2>5, <4>1
        <4> QED  BY <2>5, <4>2
      <3>6. OwnFirst(r)'  BY <1>1, <2>1, <2>4, <3>5 DEF OwnFirst
      <3> QED  BY <1>n, <2>1, <3>1, <3>2, <3>3, <3>4, <3>6 DEF RequestInv, Searching
    <2>8. CASE list'[r] = <<>>
      <3>1. Deny(r, "NO_PROVIDER_AVAILABLE")  BY <1>9, <2>8, Zenon DEF SortProviders
      <3>2. ToSet(<<>>) = {}  BY DEF ToSet
      <3>3. \A o \in steady[r] : ~UsableAnywhere(r, o)  BY <2>4, <2>6, <2>8, <3>2
      <3> QED  BY <1>d, <2>1, <3>1, <3>3
    <2> QED  BY <2>7, <2>8
  <1>10. CASE Evaluate(r)
    <2> DEFINE l == list[r]
    <2>1. /\ step[r] = "evaluate" /\ l # <<>> /\ UNCHANGED <<node, grant, answer, emitted>>
          /\ \/ Goto(r, "grant") /\ UNCHANGED <<list, rejected>>
             \/ /\ list' = [list EXCEPT ![r] = Tail(l)] /\ UNCHANGED step
                /\ rejected' = [rejected EXCEPT ![r] = rejected[r] \cup {Head(l)}]
      BY <1>10 DEF Evaluate
    <2>2. CASE Goto(r, "grant") /\ UNCHANGED <<list, rejected>>
      <3>1. step'[r] = "grant"  BY <1>g, <2>2
      <3>2. AtHome(r)' /\ Fetched(r)'  BY <1>1, <1>3, <2>1, <3>1 DEF AtHome, Fetched
      <3>3. Kept(r)'  BY <1>1, <1>3, <1>4, <2>1, <2>2 DEF Kept
      <3>4. OwnFirst(r)'  BY <1>1, <1>3, <2>1, <2>2 DEF OwnFirst
      <3> QED  BY <1>n, <2>1, <3>1, <3>2, <3>3, <3>4 DEF RequestInv, Searching
    <2>3. CASE /\ list' = [list EXCEPT ![r] = Tail(l)] /\ UNCHANGED step
               /\ rejected' = [rejected EXCEPT ![r] = rejected[r] \cup {Head(l)}]
      <3>1. list'[r] = Tail(l) /\ rejected'[r] = rejected[r] \cup {Head(l)} /\ step'[r] = "evaluate"
        BY <1>2, <2>1, <2>3 DEF WorkTypes
      <3>2. l \in Seq(Refs)  BY <1>2 DEF WorkTypes
      <3> DEFINE h == Head(l)
                 t == Tail(l)
      <3>3. /\ DOMAIN t = 1..(Len(l) - 1) /\ DOMAIN l = 1..Len(l) /\ Len(l) \in Nat \ {0}
            /\ h = l[1] /\ \A i \in DOMAIN t : t[i] = l[i + 1]
        <4> HIDE DEF l
        <4> QED  BY <2>1, <3>2
      <3> HIDE DEF l, h, t
      <3>4. ToSet(l) \subseteq ToSet(t) \cup {h}
        <4> SUFFICES ASSUME NEW i \in 1..Len(l), i # 1 PROVE l[i] \in ToSet(t)  BY <3>3 DEF ToSet
        <4>1. i - 1 \in DOMAIN t /\ t[i - 1] = l[i]  BY <3>3
        <4> QED  BY <4>1 DEF ToSet
      <3>5. AtHome(r)' /\ Fetched(r)'  BY <1>1, <1>3, <2>1, <3>1 DEF AtHome, Fetched
      <3>6. Kept(r)'
        <4> SUFFICES ASSUME NEW o \in steady[r], UsableAnywhere(r, o)
                     PROVE  o \in rejected'[r] \cup ToSet(list'[r])
          BY <1>1, <1>4 DEF Kept
        <4>1. o \in rejected[r] \cup ToSet(l)  BY <1>3, <2>1 DEF Kept, l
        <4> QED  BY <3>1, <3>4, <4>1 DEF h, t
      <3>7. OwnFirst(r)'
        <4>1. \A i, j \in DOMAIN l : i < j /\ objects[l[j]].node = node[r] => objects[l[i]].node = node[r]
          BY <1>3, <2>1 DEF OwnFirst, l
        <4>2. ASSUME NEW i \in DOMAIN t, NEW j \in DOMAIN t, i < j, objects[t[j]].node = node[r]
              PROVE  objects[t[i]].node = node[r]
          <5>1. i + 1 \in DOMAIN l /\ j + 1 \in DOMAIN l /\ i + 1 < j + 1  BY <3>3, <4>2
          <5> QED  BY <3>3, <4>1, <4>2, <5>1
        <4>3. list'[r] = t  BY <3>1 DEF t
        <4> QED  BY <1>1, <2>1, <4>2, <4>3 DEF OwnFirst
      <3> QED  BY <1>n, <2>1, <3>1, <3>5, <3>6, <3>7 DEF RequestInv, Searching
    <2> QED  BY <2>1, <2>2, <2>3
  <1>11. CASE NoneAccepted(r)
    <2>1. /\ step[r] = "evaluate" /\ list[r] = <<>> /\ Deny(r, "POLICY_DENIED")
          /\ UNCHANGED <<grant, rejected>>
      BY <1>11 DEF NoneAccepted
    <2>2. ToSet(<<>>) = {}  BY DEF ToSet
    <2>3. \A o \in steady[r] : UsableAnywhere(r, o) => o \in rejected'[r]
      BY <1>3, <2>1, <2>2 DEF Kept
    <2> QED  BY <1>d, <2>1, <2>3
  <1>12. CASE IssueGrant(r)
    <2> DEFINE l == list[r]
               p == Head(l)
               g == [provider |-> p, identity |-> objects[p].identity]
    <2>1. /\ step[r] = "grant" /\ UNCHANGED <<node, list, rejected>> /\ Goto(r, "done")
          /\ grant' = [grant EXCEPT ![r] = g] /\ answer' = [answer EXCEPT ![r] = "allow"]
          /\ emitted' = [emitted EXCEPT ![r] = Append(emitted[r], "granted")]
      BY <1>12 DEF IssueGrant
    <2>2. l \in Seq(Refs) /\ l # <<>>  BY <1>2, <2>1 DEF WorkTypes, Types, Prepared
    <2>3. p = l[1] /\ p \in Refs /\ DOMAIN l = 1..Len(l)
      <3> HIDE DEF l
      <3> QED  BY <2>2
    <2>4. g.provider = p  OBVIOUS
    <2> HIDE DEF g
    <2>5. /\ grant'[r] = g /\ answer'[r] = "allow" /\ step'[r] = "done"
          /\ emitted'[r] = Append(emitted[r], "granted")
      BY <1>2, <1>g, <2>1 DEF WorkTypes, ResponseTypes
    <2>6. g # NoGrant
      <3>1. p # 0  BY <2>3 DEF Refs
      <3>2. NoGrant.provider = 0  BY DEF NoGrant
      <3> QED  BY <2>4, <3>1, <3>2
    <2>7. Recorded(r)'
      <3>1. emitted'[r] = <<"granted">>  BY <1>3, <2>5, AppendToNothing
      <3> QED  BY <2>5, <2>6, <3>1 DEF Recorded
    <2>8. ASSUME objects[p].node # home[r], NEW o \in steady[r], objects[o].node = home[r]
          PROVE  o \in rejected[r]
      <3> SUFFICES ASSUME o \notin rejected[r] PROVE FALSE  OBVIOUS
      <3>1. node[r] = home[r]  BY <1>3, <2>1 DEF AtHome
      <3>2. o \in ToSet(l)  BY <1>3, <2>1, <2>8 DEF Kept, UsableAnywhere
      <3>3. PICK j \in DOMAIN l : l[j] = o  BY <3>2 DEF ToSet
      <3>4. j # 1  BY <2>3, <2>8, <3>3
      <3>5. 1 \in DOMAIN l /\ 1 < j  BY <2>2, <2>3, <3>3, <3>4
      <3>6. objects[l[1]].node = node[r]  BY <1>3, <2>1, <2>8, <3>1, <3>3, <3>5 DEF OwnFirst
      <3> QED  BY <2>3, <2>8, <3>1, <3>6
    <2>9. Answered(r)'  BY <1>1, <2>1, <2>4, <2>5, <2>8 DEF Answered
    <2>10. Searching(r)'  BY <2>5 DEF Searching, Listing, Working, AtHome, Fetched, Kept, OwnFirst
    <2> QED  BY <2>7, <2>9, <2>10 DEF RequestInv
  <1> QED
    BY <1>5, <1>6, <1>7, <1>8, <1>9, <1>10, <1>11, <1>12, Zenon DEF RequestStep, Worked

\* What is said of the registry, of the types and of every request.
BindingInv == IInv /\ Types /\ \A r \in Requests : RequestInv(r)

(* Before the first request there is nothing to be said of one. *)
LEMMA InitBindingInv == ASSUME BindingInit PROVE BindingInv
  <1>1. IInv /\ Types  BY InitTypes
  <1>2. ASSUME NEW r \in Requests PROVE RequestInv(r)
    BY DEF BindingInit, EngineInit, All, RequestInv, Searching, Listing, Working, AtHome, Fetched, Kept,
           OwnFirst, Answered, Recorded
  <1> QED  BY <1>1, <1>2 DEF BindingInv

(* Whatever a step does, it does to one request or to what is steady. *)
LEMMA NextBindingInv == ASSUME BindingInv, [BindingNext]_vars PROVE BindingInv'
  <1>0. IInv /\ Types /\ TypeOK /\ IInv' /\ Types'  BY NextTypes DEF BindingInv, IInv
  <1>1. objects \in Seq(Provider)  BY <1>0 DEF TypeOK
  <1>2. ASSUME UNCHANGED objects PROVE ObjectsGrow  BY <1>1, <1>2 DEF ObjectsGrow
  <1>3. ASSUME NEW r \in Requests PROVE RequestInv(r) /\ (Working(r) => steady[r] \subseteq ListedFor(r))
    BY DEF BindingInv, RequestInv, Searching, Listing
  <1>4. ASSUME Noted, NEW r \in Requests PROVE RequestInv(r)'
    <2>1. /\ ObjectsGrow /\ UNCHANGED <<requestVars, home>>
          /\ steady' = [q \in Requests |-> IF Working(q) THEN steady[q] \cap ListedFor(q)' ELSE steady[q]]
      BY <1>4, Zenon DEF Noted
    <2>2. steady'[r] \subseteq steady[r] /\ (Working(r) => steady'[r] \subseteq ListedFor(r)')  BY <2>1
    <2>3. Same(r)  BY <2>1, <2>2 DEF Same, requestVars
    <2> QED  BY <1>0, <1>3, <2>1, <2>2, <2>3, Undisturbed
  <1>5. ASSUME Idled, NEW r \in Requests PROVE RequestInv(r)'
    <2>1. /\ UNCHANGED <<objects, services, providers, cache, home, steady>>
          /\ UNCHANGED <<step, ask, node, list, grant, answer, emitted, rejected>>
      BY <1>5 DEF Idled, dirVars, requestVars, historyVars
    <2>2. Same(r) /\ ListedFor(r)' = ListedFor(r) /\ steady'[r] = steady[r]  BY <2>1 DEF Same, ListedFor
    <2> QED  BY <1>0, <1>2, <1>3, <2>1, <2>2, Undisturbed
  <1>6. ASSUME NEW r \in Requests, Submitted(r), NEW q \in Requests PROVE RequestInv(q)'
    <2>1. CASE q = r  BY <1>0, <1>3, <1>6, <2>1, SubmittedInv
    <2>2. CASE q # r
      <3>1. Same(q) /\ ListedFor(q)' = ListedFor(q) /\ steady'[q] = steady[q]
        BY <1>0, <1>3, <1>6, <2>2, SubmittedInv
      <3>2. UNCHANGED objects  BY <1>6 DEF Submitted, registryVars, dirVars
      <3> QED  BY <1>0, <1>2, <1>3, <3>1, <3>2, Undisturbed
    <2> QED  BY <2>1, <2>2
  <1>7. ASSUME NEW r \in Requests, Worked(r), NEW q \in Requests PROVE RequestInv(q)'
    <2>1. CASE q = r  BY <1>0, <1>3, <1>7, <2>1, WorkedInv
    <2>2. CASE q # r
      <3>1. Same(q) /\ ListedFor(q)' = ListedFor(q) /\ steady' = steady /\ UNCHANGED objects
        BY <1>0, <1>7, <2>2, WorkedOn
      <3> QED  BY <1>0, <1>2, <1>3, <3>1, Undisturbed
    <2> QED  BY <2>1, <2>2
  <1>8. Noted \/ Idled \/ \E r \in Requests : Submitted(r) \/ Worked(r)  BY <1>0, StepIs
  <1>9. \A q \in Requests : RequestInv(q)'  BY <1>4, <1>5, <1>6, <1>7, <1>8
  <1> QED  BY <1>0, <1>9 DEF BindingInv

(* BindingEngine: what is said of the registry and of every request always holds. *)
THEOREM BindingInvariance == BindingSpec => []BindingInv
  <1>1. BindingInit => BindingInv  BY InitBindingInv
  <1>2. BindingInv /\ [BindingNext]_vars => BindingInv'  BY NextBindingInv
  <1> QED  BY <1>1, <1>2, PTL DEF BindingSpec

(* BindingEngine: every variable keeps its type; a list names objects that exist. *)
THEOREM BindingTyping == BindingSpec => []BindingTypeOK
  <1>1. BindingInv => BindingTypeOK  BY TypesAre DEF BindingInv, IInv
  <1> QED  BY <1>1, BindingInvariance, PTL

(* BindingEngine: a provider that was listed all along, and that the preference never  *)
(* excludes, has been put to the evaluator before the request is refused for want of   *)
(* one.                                                                               *)
THEOREM NobodyOverlooked == BindingSpec => []NoProviderOverlooked
  <1>1. BindingInv => NoProviderOverlooked
    BY DEF BindingInv, RequestInv, Answered, NoProviderOverlooked
  <1> QED  BY <1>1, BindingInvariance, PTL

(* BindingEngine: a provider elsewhere is granted only if every one that was on the *)
(* client's own node all along has been refused.                                   *)
THEOREM OwnNodeIsFirst == BindingSpec => []OwnNodeFirst
  <1>1. BindingInv => OwnNodeFirst
    BY DEF BindingInv, RequestInv, Answered, OwnNodeFirst
  <1> QED  BY <1>1, BindingInvariance, PTL

(* BindingEngine: a request is recorded once, and as it was answered. *)
THEOREM RecordsAreAnswers == BindingSpec => []RecordedAsAnswered
  <1>1. BindingInv => RecordedAsAnswered
    BY DEF BindingInv, RequestInv, Recorded, RecordedAsAnswered
  <1> QED  BY <1>1, BindingInvariance, PTL

-----------------------------------------------------------------------------
(* The rate limit: the requests let through, and their arithmetic.         *)

\* The requests of a key among those from i to j, and how many they are.
PassedIn(k, i, j) == {m \in i..j : passed[m].key = k}
Count(k, i, j)    == Cardinality(PassedIn(k, i, j))

\* Those of a key among all.
Mine(k) == {i \in DOMAIN passed : passed[i].key = k}

Passings == [key : Keys, at : Nat]

(* A request that is let through counts for its key, and changes no earlier count. *)
LEMMA PassedGrows ==
  ASSUME passed \in Seq(Passings), NEW e \in Passings, passed' = Append(passed, e), NEW k
  PROVE  /\ passed' \in Seq(Passings) /\ Len(passed') = Len(passed) + 1
         /\ passed'[Len(passed) + 1] = e /\ \A i \in 1..Len(passed) : passed'[i] = passed[i]
         /\ Mine(k)' = IF e.key = k THEN Mine(k) \cup {Len(passed) + 1} ELSE Mine(k)
         /\ \A i \in 1..Len(passed), j \in 0..Len(passed) : Count(k, i, j)' = Count(k, i, j)
         /\ \A i \in 1..Len(passed) + 1 :
              Count(k, i, Len(passed))' =
                IF e.key = k THEN Count(k, i, Len(passed)) + 1 ELSE Count(k, i, Len(passed))
  <1>0. PICK n \in Nat : n = Len(passed)  OBVIOUS
  <1>1. /\ n \in Nat /\ passed' \in Seq(Passings) /\ Len(passed') = n + 1 /\ passed'[n + 1] = e
        /\ \A i \in 1..n : passed'[i] = passed[i]
        /\ DOMAIN passed = 1..n /\ DOMAIN passed' = 1..(n + 1)
    BY <1>0
  <1>2. Mine(k)' = IF e.key = k THEN Mine(k) \cup {n + 1} ELSE Mine(k)
    <2>1. \A i \in 1..(n + 1) : i \in 1..n \/ i = n + 1  BY <1>1
    <2>2. 1..n \subseteq 1..(n + 1) /\ n + 1 \in 1..(n + 1)  BY <1>1
    <2>3. CASE e.key = k  BY <1>1, <2>1, <2>2, <2>3 DEF Mine
    <2>4. CASE e.key # k  BY <1>1, <2>1, <2>2, <2>4 DEF Mine
    <2> QED  BY <2>3, <2>4
  <1>3. ASSUME NEW i \in 1..(n + 1), NEW j \in 0..n PROVE PassedIn(k, i, j)' = PassedIn(k, i, j)
    <2>1. \A m \in i..j : m \in 1..n  BY <1>1
    <2> QED  BY <1>1, <2>1 DEF PassedIn
  <1>4. \A i \in 1..n, j \in 0..n : Count(k, i, j)' = Count(k, i, j)
    <2>1. 1..n \subseteq 1..(n + 1)  BY <1>1
    <2> QED  BY <1>3, <2>1 DEF Count
  <1>5. ASSUME NEW i \in 1..(n + 1)
        PROVE  Count(k, i, n + 1)' = IF e.key = k THEN Count(k, i, n) + 1 ELSE Count(k, i, n)
    <2> DEFINE P == PassedIn(k, i, n)
               Q == PassedIn(k, i, n + 1)'
    <2>1. IsFiniteSet(P)
      <3>1. IsFiniteSet(i..n)  BY <1>1, FS_Interval
      <3> QED  BY <3>1, FS_Subset DEF PassedIn
    <2>2. \A m \in i..(n + 1) : m \in i..n \/ m = n + 1  BY <1>1
    <2>3. /\ \A m \in i..n : m \in i..(n + 1) /\ m \in 1..n
          /\ n + 1 \in i..(n + 1) /\ n + 1 \notin i..n
      BY <1>1
    <2>4. CASE e.key = k
      <3>1. Q = P \cup {n + 1} /\ n + 1 \notin P  BY <1>1, <2>2, <2>3, <2>4 DEF PassedIn
      <3> HIDE DEF P, Q
      <3>2. Cardinality(Q) = Cardinality(P) + 1  BY <2>1, <3>1, FS_AddElement
      <3> QED  BY <2>4, <3>2 DEF P, Q, Count
    <2>5. CASE e.key # k
      <3>1. Q = P  BY <1>1, <2>2, <2>3, <2>5 DEF PassedIn
      <3> QED  BY <2>5, <3>1 DEF Count
    <2> QED  BY <2>4, <2>5
  <1>6. \A i : Count(k, i, Len(passed))' = Count(k, i, n + 1)'  BY <1>1 DEF Count, PassedIn
  <1> QED  BY <1>0, <1>1, <1>2, <1>4, <1>5, <1>6

(* A count is a number, and a request counts as one. *)
LEMMA CountIs ==
  ASSUME NEW k, NEW i \in Int, NEW j \in Int
  PROVE  Count(k, i, j) \in Nat /\ (j < i => Count(k, i, j) = 0)
  <1>1. IsFiniteSet(i..j) /\ PassedIn(k, i, j) \in SUBSET (i..j)  BY FS_Interval DEF PassedIn
  <1>2. IsFiniteSet(PassedIn(k, i, j))  BY <1>1, FS_Subset
  <1>3. Count(k, i, j) \in Nat  BY <1>2, FS_CardinalityType DEF Count
  <1>4. j < i => PassedIn(k, i, j) = {}  BY DEF PassedIn
  <1> QED  BY <1>3, <1>4, FS_EmptySet DEF Count

\* What a full bucket of a rate holds.
Room(r) == Burst(r) * One

(* It is at least a token. *)
LEMMA RoomIs ==
  ASSUME NEW r \in Rates, 0 < r
  PROVE  Burst(r) \in Nat \ {0} /\ One \in Nat \ {0} /\ Room(r) \in Nat /\ Room(r) >= One
         /\ (Burst(r) - 1) * One = Room(r) - One
  <1>1. r \in Int /\ RateUnit \in Nat \ {0} /\ TickRate \in Nat \ {0}  BY RateConstantsOK
  <1>2. One \in Nat \ {0}
    <2> DEFINE u == RateUnit
               t == TickRate
    <2>1. u \in Nat /\ t \in Nat /\ u >= 1 /\ t >= 1  BY <1>1
    <2> HIDE DEF u, t
    <2>2. u * t \in Nat /\ u * t >= 1  BY <2>1
    <2>3. One = u * t  BY DEF One, u, t
    <2> QED  BY <2>2, <2>3
  <1>3. Burst(r) \in Nat \ {0}
    <2>1. CASE r < RateUnit  BY <2>1 DEF Burst
    <2>2. CASE ~(r < RateUnit)
      <3> DEFINE u == RateUnit
                 d == r \div u
                 m == r % u
      <3>1. d \in Int /\ m \in 0..(u - 1) /\ r = u * d + m /\ u \in Nat \ {0} /\ r >= u
        BY <1>1, <2>2
      <3>2. Burst(r) = d  BY <2>2 DEF Burst
      <3> HIDE DEF u, d, m
      <3>3. d >= 1
        <4> SUFFICES ASSUME d <= 0 PROVE FALSE  BY <3>1
        <4>1. u * d <= 0  BY <3>1
        <4> QED  BY <3>1, <4>1
      <3> QED  BY <3>1, <3>2, <3>3
    <2> QED  BY <2>1, <2>2
  <1> DEFINE b == Burst(r)
             o == One
  <1>4. b \in Nat \ {0} /\ o \in Nat \ {0}  BY <1>2, <1>3
  <1> HIDE DEF b, o
  <1>5. b * o \in Nat /\ b * o = (b - 1) * o + o /\ (b - 1) * o >= 0  BY <1>4
  <1> QED  BY <1>4, <1>5 DEF Room, b, o

-----------------------------------------------------------------------------
(* The rate limit: the bucket of a key whose client keeps to one rate.     *)

Bucket(k) == limiters[current[k]]

\* From any of its requests on, what has been let through and what is left in the
\* bucket are no more than the burst and what the rate has brought.
Bounded(k, r) ==
  \A i \in Mine(k) :
    /\ Count(k, i, Len(passed)) * One + Bucket(k).tokens <= Room(r) + (Bucket(k).last - passed[i].at) * r
    /\ \A j \in Mine(k) :
         i <= j => Count(k, i, j) * One <= Room(r) + (passed[j].at - passed[i].at) * r

\* The bucket is full, or from one of the requests on they are no less.
Spent(k, r) ==
  \/ Bucket(k).tokens = Room(r)
  \/ \E i \in Mine(k) :
       Count(k, i, Len(passed)) * One + Bucket(k).tokens >= Room(r) + (Bucket(k).last - passed[i].at) * r

\* At the last refusal less than a token was left of them.
RefusedSpent(k, r) ==
  refused.key = k =>
    \E i \in Mine(k) :
      /\ i <= refused.after
      /\ Count(k, i, refused.after) * One > Room(r) - One + (refused.at - passed[i].at) * r

KeyInv(k, r) == Bounded(k, r) /\ Spent(k, r) /\ RefusedSpent(k, r)

(* What others do leaves the bucket, and what is said of it, alone. *)
LEMMA QuietKey ==
  ASSUME passed \in Seq(Passings), NEW k \in Keys, NEW r, KeyInv(k, r), Bucket(k)' = Bucket(k),
         passed' = passed \/ \E e \in Passings : e.key # k /\ passed' = Append(passed, e),
         refused' = refused \/ refused'.key # k,
         refused.key = k => refused.after \in 0..Len(passed)
  PROVE  KeyInv(k, r)'
  <1>0. PICK n \in Nat : n = Len(passed)  OBVIOUS
  <1>1. /\ Mine(k)' = Mine(k) /\ Mine(k) \subseteq 1..n
        /\ \A i \in 1..n : passed'[i] = passed[i] /\ Count(k, i, Len(passed))' = Count(k, i, n)
        /\ \A i \in 1..n, j \in 0..n : Count(k, i, j)' = Count(k, i, j)
    <2>0. Mine(k) \subseteq 1..n  BY <1>0 DEF Mine
    <2>1. CASE passed' = passed  BY <1>0, <2>0, <2>1 DEF Mine, Count, PassedIn
    <2>2. CASE \E e \in Passings : e.key # k /\ passed' = Append(passed, e)
      <3>1. PICK e \in Passings : e.key # k /\ passed' = Append(passed, e)  BY <2>2
      <3>2. \A i \in 1..n : i \in 1..(n + 1)  OBVIOUS
      <3> QED  BY <1>0, <2>0, <3>1, <3>2, PassedGrows
    <2> QED  BY <2>1, <2>2
  <1>2. \A j \in Mine(k) : j \in 0..n  BY <1>1
  <1>3. Bounded(k, r)'
    <2> SUFFICES ASSUME NEW i \in Mine(k)
                 PROVE  /\ Count(k, i, n) * One + Bucket(k).tokens
                             <= Room(r) + (Bucket(k).last - passed[i].at) * r
                        /\ \A j \in Mine(k) :
                             i <= j => Count(k, i, j) * One <= Room(r) + (passed[j].at - passed[i].at) * r
      BY <1>1, <1>2 DEF Bounded, Room, Burst, One
    <2> QED  BY <1>0 DEF KeyInv, Bounded
  <1>4. Spent(k, r)'
    <2>1. CASE Bucket(k).tokens = Room(r)  BY <2>1 DEF Spent, Room, Burst, One
    <2>2. CASE \E i \in Mine(k) : Count(k, i, Len(passed)) * One + Bucket(k).tokens
                                    >= Room(r) + (Bucket(k).last - passed[i].at) * r
      <3>1. PICK i \in Mine(k) : Count(k, i, n) * One + Bucket(k).tokens
                                   >= Room(r) + (Bucket(k).last - passed[i].at) * r
        BY <1>0, <2>2
      <3>2. i \in Mine(k)' /\ passed'[i] = passed[i] /\ Count(k, i, Len(passed))' = Count(k, i, n)
        BY <1>1
      <3> QED  BY <3>1, <3>2 DEF Spent, Room, Burst, One
    <2> QED  BY <2>1, <2>2 DEF KeyInv, Spent
  <1>5. RefusedSpent(k, r)'
    <2> SUFFICES ASSUME refused'.key = k
                 PROVE  \E i \in Mine(k)' :
                          /\ i <= refused'.after
                          /\ Count(k, i, refused.after)' * One
                               > Room(r) - One + (refused'.at - passed'[i].at) * r
      BY DEF RefusedSpent, Room, Burst, One
    <2>1. refused' = refused  OBVIOUS
    <2>2. PICK a \in 0..n : a = refused.after  BY <1>0, <2>1
    <2>3. PICK i \in Mine(k) :
            i <= a /\ Count(k, i, a) * One > Room(r) - One + (refused.at - passed[i].at) * r
      BY <2>1, <2>2 DEF KeyInv, RefusedSpent
    <2>4. i \in Mine(k)' /\ passed'[i] = passed[i] /\ Count(k, i, a)' = Count(k, i, a)  BY <1>1
    <2>5. Count(k, i, refused.after)' = Count(k, i, a)'  BY <2>1, <2>2 DEF Count, PassedIn
    <2> QED  BY <2>1, <2>2, <2>3, <2>4, <2>5
  <1> QED  BY <1>3, <1>4, <1>5 DEF KeyInv

(* A request takes a token out of the bucket and is let through. *)
LEMMA PassKey ==
  ASSUME passed \in Seq(Passings), NEW k \in Keys, NEW r \in Rates, r > 0, KeyInv(k, r),
         NEW c \in Nat, NEW t \in Nat, NEW b \in Nat, NEW f \in Int, b <= c,
         \A i \in Mine(k) : passed[i].at \in Nat,
         Bucket(k).tokens = t, Bucket(k).last = b, f = Least(t + (c - b) * r, Room(r)), f >= One,
         Bucket(k)'.tokens = f - One, Bucket(k)'.last = c,
         passed' = Append(passed, [key |-> k, at |-> c]), UNCHANGED refused,
         refused.key = k => refused.after \in 0..Len(passed)
  PROVE  KeyInv(k, r)'
  <1>0. PICK n \in Nat : n = Len(passed)  OBVIOUS
  <1> DEFINE e == [key |-> k, at |-> c]
  <1>e. e \in Passings /\ e.key = k /\ e.at = c  BY DEF Passings
  <1> HIDE DEF e
  <1>1. /\ Mine(k)' = Mine(k) \cup {n + 1} /\ Mine(k) \subseteq 1..n
        /\ passed'[n + 1] = e /\ passed'[n + 1].at = c
        /\ \A i \in 1..n : passed'[i] = passed[i]
        /\ \A i \in 1..n, j \in 0..n : Count(k, i, j)' = Count(k, i, j)
        /\ \A i \in 1..n + 1 : Count(k, i, Len(passed))' = Count(k, i, n) + 1
    <2>0. Mine(k) \subseteq 1..n  BY <1>0 DEF Mine
    <2>1. passed' = Append(passed, e)  BY DEF e
    <2> QED  BY <1>0, <1>e, <2>0, <2>1, PassedGrows
  <1>2. PICK one \in Nat \ {0}, room \in Nat : one = One /\ room = Room(r) /\ room >= one  BY RoomIs
  <1>3. one' = One' /\ room' = Room(r)'  BY <1>2 DEF Room, Burst, One
  <1>r. r \in Int  BY RateConstantsOK
  <1>p. PICK p \in Int : p = (c - b) * r /\ p >= 0
    <2> DEFINE d == c - b
    <2>1. d \in Nat  OBVIOUS
    <2> HIDE DEF d
    <2>2. d * r \in Int /\ d * r >= 0  BY <1>r, <2>1
    <2> QED  BY <2>2 DEF d
  <1>f. f <= t + p /\ f <= room /\ (f = room \/ (f = t + p /\ f < room))
    BY <1>2, <1>p DEF Least
  <1>4. \A i \in Mine(k) : i \in 1..n /\ i \in 1..(n + 1) /\ Count(k, i, n) \in Nat /\ passed[i].at \in Int
    BY <1>1, CountIs
  <1>5. Count(k, n + 1, n) = 0  BY CountIs
  <1>s. n + 1 \in 1..n + 1 /\ 0 + 1 = 1 /\ {c, r, t, b, f, one, room} \subseteq Int  BY <1>2, <1>r
  <1>t. Count(k, n + 1, Len(passed))' = 0 + 1  BY <1>1, <1>5, <1>s, Zenon
  <1>u. \A i \in Mine(k) : Count(k, i, Len(passed))' = Count(k, i, n) + 1 /\ passed'[i] = passed[i]
    BY <1>1, <1>4, Zenon
  <1>v. \A i \in Mine(k)' : passed'[i].at \in Int /\ (i \in Mine(k) \/ i = n + 1)
    <2>1. \A i \in Mine(k)' : i \in Mine(k) \/ i = n + 1  BY <1>1, Zenon
    <2>2. \A i \in Mine(k) : passed'[i].at \in Int  BY <1>4, <1>u, Zenon
    <2>3. passed'[n + 1].at \in Int  BY <1>1, <1>s, Zenon
    <2> QED  BY <2>1, <2>2, <2>3, Zenon
  <1>6. ASSUME NEW i \in Mine(k)
        PROVE  (Count(k, i, n) + 1) * one + (f - one) <= room + (c - passed[i].at) * r
    <2>1. Count(k, i, n) * one + t <= room + (b - passed[i].at) * r  BY <1>0, <1>2 DEF KeyInv, Bounded
    <2> DEFINE m == Count(k, i, n)
               a == passed[i].at
    <2>2. m \in Int /\ a \in Int  BY <1>4
    <2> HIDE DEF m, a
    <2>3. m * one + t <= room + (b - a) * r  BY <2>1 DEF m, a
    <2>4. f <= t + (c - b) * r  BY <1>f, <1>p
    <2>5. (m + 1) * one + (f - one) <= room + (c - a) * r
      <3>1. (m + 1) * one = m * one + one /\ m * one \in Int  BY <1>s, <2>2
      <3>2. (c - a) * r = (b - a) * r + (c - b) * r /\ (b - a) * r \in Int /\ (c - b) * r \in Int
        BY <1>s, <2>2
      <3> DEFINE x == m * one
                 y == (b - a) * r
                 z == (c - b) * r
      <3> HIDE DEF x, y, z
      <3>3. x + t <= room + y /\ f <= t + z /\ x \in Int /\ y \in Int /\ z \in Int
        BY <2>3, <2>4, <3>1, <3>2 DEF x, y, z
      <3>4. (x + one) + (f - one) <= room + (y + z)  BY <1>s, <3>3
      <3> QED  BY <3>1, <3>2, <3>4 DEF x, y, z
    <2> QED  BY <2>5 DEF m, a
  <1>7. (0 + 1) * one + (f - one) <= room + (c - c) * r
    <2>1. (c - c) * r = 0 /\ (0 + 1) * one = one  BY <1>2, <1>r
    <2> QED  BY <1>2, <1>f, <2>1
  <1>8. ASSUME NEW i \in Mine(k)'
        PROVE  /\ Count(k, i, Len(passed))' * one + (f - one) <= room + (c - passed'[i].at) * r
               /\ Count(k, i, Len(passed))' \in Nat
    <2>1. CASE i \in Mine(k)
      <3>1. Count(k, i, n) + 1 \in Nat  BY <1>4, <2>1
      <3> QED  BY <1>u, <1>6, <2>1, <3>1, Zenon
    <2>2. CASE i = n + 1
      <3>1. Count(k, i, Len(passed))' = 0 + 1 /\ passed'[i].at = c  BY <1>1, <1>t, <2>2, Zenon
      <3>2. 0 + 1 \in Nat  OBVIOUS
      <3> QED  BY <1>7, <3>1, <3>2, Zenon
    <2> QED  BY <1>v, <2>1, <2>2
  <1>9. ASSUME NEW i \in Mine(k)', NEW j \in Mine(k)', i <= j
        PROVE  Count(k, i, j)' * one <= room + (passed'[j].at - passed'[i].at) * r
    <2>1. CASE j \in Mine(k)
      <3>1. i \in Mine(k) /\ j \in 0..n /\ i \in 1..n /\ j \in 1..n  BY <1>1, <1>9, <2>1
      <3>2. Count(k, i, j) * one <= room + (passed[j].at - passed[i].at) * r
        BY <1>2, <1>9, <2>1, <3>1 DEF KeyInv, Bounded
      <3> QED  BY <1>1, <3>1, <3>2
    <2>2. CASE j = n + 1
      <3>1. Len(passed') = n + 1
        <4>1. passed' = Append(passed, e)  BY DEF e
        <4> QED  BY <1>0, <1>e, <4>1
      <3>2. Count(k, i, j)' = Count(k, i, Len(passed))'  BY <2>2, <3>1 DEF Count, PassedIn
      <3> DEFINE m == Count(k, i, Len(passed))'
                 q == (c - passed'[i].at) * r
      <3>3. m \in Nat /\ m * one + (f - one) <= room + q  BY <1>8
      <3>4. q \in Int
        <4> DEFINE a == passed'[i].at
        <4>1. a \in Int  BY <1>v
        <4> HIDE DEF a
        <4>2. (c - a) * r \in Int  BY <1>s, <4>1
        <4> QED  BY <4>2 DEF a
      <3> HIDE DEF m, q
      <3>5. m * one \in Int /\ f - one >= 0  BY <1>2, <3>3
      <3>6. m * one <= room + q  BY <1>2, <3>3, <3>4, <3>5
      <3> QED  BY <1>1, <2>2, <3>2, <3>6 DEF m, q
    <2> QED  BY <1>1, <2>1, <2>2
  <1>10. Bounded(k, r)'
    <2> SUFFICES ASSUME NEW i \in Mine(k)'
                 PROVE  /\ Count(k, i, Len(passed))' * one + (f - one) <= room + (c - passed'[i].at) * r
                        /\ \A j \in Mine(k)' : i <= j =>
                             Count(k, i, j)' * one <= room + (passed'[j].at - passed'[i].at) * r
      BY <1>2 DEF Bounded, Room, Burst, One
    <2> QED  BY <1>8, <1>9
  <1>11. \E i \in Mine(k)' : Count(k, i, Len(passed))' * one + (f - one) >= room + (c - passed'[i].at) * r
    <2>1. CASE f = room
      <3>1. n + 1 \in Mine(k)' /\ Count(k, n + 1, Len(passed))' = 0 + 1 /\ passed'[n + 1].at = c
        BY <1>1, <1>t, Zenon
      <3>2. (0 + 1) * one + (f - one) >= room + (c - c) * r
        <4>1. (c - c) * r = 0 /\ (0 + 1) * one = one  BY <1>2, <1>r
        <4> QED  BY <1>2, <2>1, <4>1
      <3> QED  BY <3>1, <3>2
    <2>2. CASE f = t + p /\ f < room
      <3>1. t # room  BY <1>2, <1>p, <2>2
      <3>2. PICK i \in Mine(k) : Count(k, i, n) * one + t >= room + (b - passed[i].at) * r
        BY <1>0, <1>2, <3>1 DEF KeyInv, Spent
      <3> DEFINE m == Count(k, i, n)
                 a == passed[i].at
      <3>3. m \in Int /\ a \in Int  BY <1>4
      <3> HIDE DEF m, a
      <3>4. m * one + t >= room + (b - a) * r  BY <3>2 DEF m, a
      <3>5. f >= t + (c - b) * r  BY <1>p, <2>2
      <3>6. (m + 1) * one + (f - one) >= room + (c - a) * r
        <4>1. (m + 1) * one = m * one + one /\ m * one \in Int  BY <1>s, <3>3
        <4>2. (c - a) * r = (b - a) * r + (c - b) * r /\ (b - a) * r \in Int /\ (c - b) * r \in Int
          BY <1>s, <3>3
        <4> DEFINE x == m * one
                   y == (b - a) * r
                   z == (c - b) * r
        <4> HIDE DEF x, y, z
        <4>3. x + t >= room + y /\ f >= t + z /\ x \in Int /\ y \in Int /\ z \in Int
          BY <3>4, <3>5, <4>1, <4>2 DEF x, y, z
        <4>4. (x + one) + (f - one) >= room + (y + z)  BY <1>s, <4>3
        <4> QED  BY <4>1, <4>2, <4>4 DEF x, y, z
      <3>7. i \in Mine(k)' /\ Count(k, i, Len(passed))' = m + 1 /\ passed'[i].at = a
        BY <1>1, <1>4 DEF m, a
      <3> QED  BY <3>6, <3>7
    <2> QED  BY <1>f, <2>1, <2>2
  <1>12. Spent(k, r)'  BY <1>2, <1>11 DEF Spent, Room, Burst, One
  <1>13. RefusedSpent(k, r)'
    <2> SUFFICES ASSUME refused'.key = k
                 PROVE  \E i \in Mine(k)' :
                          /\ i <= refused'.after
                          /\ Count(k, i, refused.after)' * one
                               > room - one + (refused'.at - passed'[i].at) * r
      BY <1>2 DEF RefusedSpent, Room, Burst, One
    <2>1. PICK a \in 0..n : a = refused.after  BY <1>0
    <2>2. PICK i \in Mine(k) : i <= a /\ Count(k, i, a) * one > room - one + (refused.at - passed[i].at) * r
      BY <1>2, <2>1 DEF KeyInv, RefusedSpent
    <2>3. i \in Mine(k)' /\ passed'[i] = passed[i] /\ Count(k, i, a)' = Count(k, i, a)  BY <1>1, <1>4
    <2>4. Count(k, i, refused.after)' = Count(k, i, a)'  BY <2>1 DEF Count, PassedIn
    <2> QED  BY <2>1, <2>2, <2>3, <2>4
  <1> QED  BY <1>10, <1>12, <1>13 DEF KeyInv

(* A request finds less than a token in the bucket and is refused. *)
LEMMA RefuseKey ==
  ASSUME passed \in Seq(Passings), NEW k \in Keys, NEW r \in Rates, r > 0, KeyInv(k, r),
         NEW c \in Nat, NEW t \in Nat, NEW b \in Nat, NEW f \in Int, b <= c,
         \A i \in Mine(k) : passed[i].at \in Nat,
         Bucket(k).tokens = t, Bucket(k).last = b, f = Least(t + (c - b) * r, Room(r)), f < One,
         Bucket(k)'.tokens = f, Bucket(k)'.last = c, UNCHANGED passed,
         refused' = [key |-> k, at |-> c, after |-> Len(passed)]
  PROVE  KeyInv(k, r)'
  <1>0. PICK n \in Nat : n = Len(passed)  OBVIOUS
  <1>1. /\ Mine(k)' = Mine(k) /\ Mine(k) \subseteq 1..n
        /\ \A i, j : Count(k, i, j)' = Count(k, i, j)
        /\ \A i : Count(k, i, Len(passed))' = Count(k, i, n)
    BY <1>0 DEF Mine, Count, PassedIn
  <1>2. PICK one \in Nat \ {0}, room \in Nat : one = One /\ room = Room(r) /\ room >= one  BY RoomIs
  <1>r. r \in Int  BY RateConstantsOK
  <1>p. PICK p \in Int : p = (c - b) * r /\ p >= 0
    <2> DEFINE d == c - b
    <2>1. d \in Nat  OBVIOUS
    <2> HIDE DEF d
    <2>2. d * r \in Int /\ d * r >= 0  BY <1>r, <2>1
    <2> QED  BY <2>2 DEF d
  <1>f. f = t + p /\ f < room /\ f < one /\ t # room  BY <1>2, <1>p DEF Least
  <1>4. \A i \in Mine(k) : i \in 1..n /\ Count(k, i, n) \in Nat /\ passed[i].at \in Int
    BY <1>1, CountIs
  <1>i. c \in Int /\ b \in Int /\ t \in Int /\ f \in Int /\ one \in Int /\ room \in Int  BY <1>2
  <1>5. ASSUME NEW i \in Mine(k)
        PROVE  Count(k, i, n) * one + f <= room + (c - passed[i].at) * r
    <2> DEFINE m == Count(k, i, n)
               a == passed[i].at
    <2>1. Count(k, i, n) * one + t <= room + (b - passed[i].at) * r  BY <1>0, <1>2 DEF KeyInv, Bounded
    <2>2. m \in Int /\ a \in Int  BY <1>4
    <2> HIDE DEF m, a
    <2>i. m * one + t <= room + (b - a) * r  BY <2>1 DEF m, a
    <2>3. f <= t + (c - b) * r  BY <1>f, <1>p
    <2>4. m * one + f <= room + (c - a) * r
      <3>1. m * one \in Int  BY <1>i, <2>2
      <3>2. (c - a) * r = (b - a) * r + (c - b) * r /\ (b - a) * r \in Int /\ (c - b) * r \in Int
        BY <1>i, <1>r, <2>2
      <3> DEFINE x == m * one
                 y == (b - a) * r
                 z == (c - b) * r
      <3> HIDE DEF x, y, z
      <3>3. x + t <= room + y /\ f <= t + z /\ x \in Int /\ y \in Int /\ z \in Int
        BY <2>i, <2>3, <3>1, <3>2 DEF x, y, z
      <3>4. x + f <= room + (y + z)  BY <1>i, <3>3
      <3> QED  BY <3>2, <3>4 DEF x, y, z
    <2> QED  BY <2>4 DEF m, a
  <1>6. PICK i \in Mine(k) : Count(k, i, n) * one + f >= room + (c - passed[i].at) * r
    <2>1. PICK i \in Mine(k) : Count(k, i, n) * one + t >= room + (b - passed[i].at) * r
      BY <1>0, <1>2, <1>f DEF KeyInv, Spent
    <2> DEFINE m == Count(k, i, n)
               a == passed[i].at
    <2>2. m \in Int /\ a \in Int  BY <1>4
    <2> HIDE DEF m, a
    <2>3. f >= t + (c - b) * r  BY <1>f, <1>p
    <2>4. m * one + t >= room + (b - a) * r  BY <2>1 DEF m, a
    <2>5. m * one + f >= room + (c - a) * r
      <3>1. m * one \in Int  BY <1>i, <2>2
      <3>2. (c - a) * r = (b - a) * r + (c - b) * r /\ (b - a) * r \in Int /\ (c - b) * r \in Int
        BY <1>i, <1>r, <2>2
      <3> DEFINE x == m * one
                 y == (b - a) * r
                 z == (c - b) * r
      <3> HIDE DEF x, y, z
      <3>3. x + t >= room + y /\ f >= t + z /\ x \in Int /\ y \in Int /\ z \in Int
        BY <2>3, <2>4, <3>1, <3>2 DEF x, y, z
      <3>4. x + f >= room + (y + z)  BY <1>i, <3>3
      <3> QED  BY <3>2, <3>4 DEF x, y, z
    <2> QED  BY <2>5 DEF m, a
  <1>7. Bounded(k, r)'
    <2> SUFFICES ASSUME NEW l \in Mine(k)
                 PROVE  /\ Count(k, l, n) * one + f <= room + (c - passed[l].at) * r
                        /\ \A j \in Mine(k) : l <= j =>
                             Count(k, l, j) * one <= room + (passed[j].at - passed[l].at) * r
      BY <1>1, <1>2 DEF Bounded, Room, Burst, One
    <2> QED  BY <1>2, <1>5 DEF KeyInv, Bounded
  <1>8. Spent(k, r)'  BY <1>1, <1>2, <1>6 DEF Spent, Room, Burst, One
  <1>9. RefusedSpent(k, r)'
    <2>1. refused'.at = c /\ refused'.after = n  BY <1>0
    <2> DEFINE m == Count(k, i, n)
               q == (c - passed[i].at) * r
    <2>2. m * one + f >= room + q /\ m \in Nat  BY <1>4, <1>6
    <2>3. q \in Int
      <3> DEFINE a == passed[i].at
      <3>1. a \in Int  BY <1>4
      <3> HIDE DEF a
      <3>2. (c - a) * r \in Int  BY <1>i, <1>r, <3>1
      <3> QED  BY <3>2 DEF a
    <2>4. m * one > room - one + q
      <3> HIDE DEF m, q
      <3>1. m * one \in Int  BY <1>2, <2>2
      <3> QED  BY <1>2, <1>f, <2>2, <2>3, <3>1
    <2>5. Count(k, i, refused.after)' = m  BY <1>1, <2>1 DEF Count, PassedIn
    <2>6. i \in Mine(k)' /\ i <= refused'.after /\ passed'[i] = passed[i]  BY <1>1, <1>4, <2>1
    <2> SUFFICES \E l \in Mine(k)' :
                   /\ l <= refused'.after
                   /\ Count(k, l, refused.after)' * one > room - one + (refused'.at - passed'[l].at) * r
      BY <1>2 DEF RefusedSpent, Room, Burst, One
    <2> QED  BY <2>1, <2>4, <2>5, <2>6
  <1> QED  BY <1>7, <1>8, <1>9 DEF KeyInv

-----------------------------------------------------------------------------
(* The rate limit: every bucket, every key and every schedule.             *)

Buckets == [rps : Rates, burst : Nat, tokens : Nat, last : Nat]

\* No bucket overflows or is ahead of the clock, and the requests let through are
\* in the order of time.
RateTypes ==
  /\ clock \in Nat
  /\ limiters \in Seq(Buckets)
  /\ \A n \in 1..Len(limiters) :
       /\ 0 < limiters[n].rps /\ limiters[n].burst = Burst(limiters[n].rps)
       /\ limiters[n].tokens <= Room(limiters[n].rps) /\ limiters[n].last <= clock
  /\ current \in [Keys -> 0..Len(limiters)]
  /\ caller \in [Callers -> {NotCalling} \cup [key : Keys, limiter : 1..Len(limiters)]]
  /\ asked \in [Keys -> SUBSET Rates]
  /\ passed \in Seq(Passings)
  /\ \A i, j \in 1..Len(passed) : i <= j => passed[i].at <= passed[j].at
  /\ \A i \in 1..Len(passed) : passed[i].at <= clock
  /\ refused = NoRefusal \/ refused \in [key : Keys, at : Nat, after : 0..Len(passed)]

\* No two keys share a bucket, and nobody holds the bucket of another key.
OwnBuckets ==
  /\ \A k, l \in Keys : current[k] = current[l] /\ current[k] # 0 => k = l
  /\ \A c \in Callers, k \in Keys :
       caller[c].limiter # 0 /\ caller[c].limiter = current[k] => caller[c].key = k

\* What has not been asked for has no bucket and no history.
Unasked(k) ==
  asked[k] = {} => /\ current[k] = 0 /\ Mine(k) = {} /\ refused.key # k
                   /\ \A c \in Callers : caller[c].key # k

\* All evaluations of a steady client hold the bucket that is in the table.
Held(k, r) == /\ current[k] # 0 /\ Bucket(k).rps = r
              /\ \A c \in Callers : caller[c].key = k => caller[c].limiter = current[k]

RateInv == /\ RateTypes /\ OwnBuckets /\ \A k \in Keys : Unasked(k)
           /\ \A k \in Keys, r \in Rates : Steady(k, r) => Held(k, r) /\ KeyInv(k, r)

(* What Allow finds in a bucket: no more than it holds, and what time has brought. *)
LEMMA RefilledIs ==
  ASSUME RateTypes, NEW n \in 1..Len(limiters)
  PROVE  /\ limiters[n] \in Buckets /\ limiters[n].last <= clock
         /\ Refilled(limiters[n]) \in Nat /\ Refilled(limiters[n]) <= Room(limiters[n].rps)
         /\ Refilled(limiters[n]) =
              Least(limiters[n].tokens + (clock - limiters[n].last) * limiters[n].rps, Room(limiters[n].rps))
  <1> DEFINE l == limiters[n]
  <1>1. /\ l \in Buckets /\ 0 < l.rps /\ l.burst = Burst(l.rps) /\ l.last <= clock /\ clock \in Nat
    BY DEF RateTypes
  <1>2. l.rps \in Rates /\ l.tokens \in Nat /\ l.last \in Nat  BY <1>1 DEF Buckets
  <1> HIDE DEF l
  <1>3. l.rps \in Int /\ Room(l.rps) \in Nat  BY <1>1, <1>2, RateConstantsOK, RoomIs
  <1>4. (clock - l.last) * l.rps \in Nat
    <2> DEFINE d == clock - l.last
               r == l.rps
    <2>1. d \in Nat /\ r \in Nat  BY <1>1, <1>2, <1>3
    <2> HIDE DEF d, r
    <2>2. d * r \in Nat  BY <2>1
    <2> QED  BY <2>2 DEF d, r
  <1>5. Refilled(l) = Least(l.tokens + (clock - l.last) * l.rps, Room(l.rps))
    BY <1>1 DEF Refilled, Room
  <1> DEFINE p == (clock - l.last) * l.rps
             m == Room(l.rps)
  <1>6. Refilled(l) = Least(l.tokens + p, m) /\ p \in Nat /\ m \in Nat  BY <1>3, <1>4, <1>5
  <1> HIDE DEF p, m
  <1>7. Refilled(l) \in Nat /\ Refilled(l) <= m  BY <1>2, <1>6 DEF Least
  <1> QED  BY <1>1, <1>5, <1>7 DEF l, m

(* At the start there are no buckets and no history. *)
LEMMA InitRateInv == ASSUME RateInit PROVE RateInv
  <1>1. passed = <<>> /\ limiters = <<>> /\ Len(passed) = 0 /\ Len(limiters) = 0  BY DEF RateInit
  <1>2. passed \in Seq(Passings) /\ limiters \in Seq(Buckets)  BY <1>1, EmptySeq
  <1>3. RateTypes
    <2>1. caller \in [Callers -> {NotCalling} \cup [key : Keys, limiter : 1..Len(limiters)]]
      BY DEF RateInit
    <2>2. asked \in [Keys -> SUBSET Rates]  BY DEF RateInit
    <2> QED  BY <1>1, <1>2, <2>1, <2>2 DEF RateInit, RateTypes
  <1>4. OwnBuckets  BY DEF RateInit, OwnBuckets, NotCalling
  <1>5. ASSUME NEW k \in Keys PROVE Unasked(k)
    BY <1>1, RateConstantsOK DEF Unasked, RateInit, NotCalling, NoRefusal, Mine
  <1>6. \A k \in Keys, r \in Rates : ~Steady(k, r)  BY DEF RateInit, Steady
  <1> QED  BY <1>3, <1>4, <1>5, <1>6 DEF RateInv

(* Time passes. *)
LEMMA TickRateInv == ASSUME RateInv, Tick PROVE RateInv'
  <1>1. /\ clock \in Nat /\ clock' = clock + 1 /\ limiters' = limiters /\ current' = current
        /\ caller' = caller /\ asked' = asked /\ passed' = passed /\ refused' = refused
    BY DEF Tick, RateInv, RateTypes
  <1>2. RateTypes'
    <2>1. \A n \in 1..Len(limiters) : limiters[n].last \in Nat
      <3>1. \A n \in 1..Len(limiters) : limiters[n] \in Buckets  BY DEF RateInv, RateTypes
      <3> QED  BY <3>1 DEF Buckets
    <2>2. \A i \in 1..Len(passed) : passed[i].at \in Nat
      <3>1. \A i \in 1..Len(passed) : passed[i] \in Passings  BY DEF RateInv, RateTypes
      <3> QED  BY <3>1 DEF Passings
    <2>3. \A n \in 1..Len(limiters) : limiters[n].last <= clock'  BY <1>1, <2>1 DEF RateInv, RateTypes
    <2>4. \A i \in 1..Len(passed) : passed[i].at <= clock'  BY <1>1, <2>2 DEF RateInv, RateTypes
    <2> QED  BY <1>1, <2>3, <2>4 DEF RateInv, RateTypes, Room, Burst, One
  <1>3. OwnBuckets'  BY <1>1 DEF RateInv, OwnBuckets
  <1>4. ASSUME NEW k \in Keys PROVE Unasked(k)'  BY <1>1 DEF RateInv, Unasked, Mine
  <1>5. ASSUME NEW k \in Keys, NEW r \in Rates, Steady(k, r)' PROVE Held(k, r)' /\ KeyInv(k, r)'
    <2>1. Steady(k, r)  BY <1>1, <1>5 DEF Steady
    <2>2. Held(k, r)'  BY <1>1, <2>1 DEF RateInv, Held, Bucket
    <2>3. Bucket(k)' = Bucket(k)  BY <1>1 DEF Bucket
    <2>4. KeyInv(k, r) /\ passed \in Seq(Passings)  BY <2>1 DEF RateInv, RateTypes
    <2>5. refused.key = k => refused.after \in 0..Len(passed)
      BY RateConstantsOK DEF RateInv, RateTypes, NoRefusal
    <2>6. KeyInv(k, r)'  BY <1>1, <2>3, <2>4, <2>5, QuietKey
    <2> QED  BY <2>2, <2>6
  <1> QED  BY <1>2, <1>3, <1>4, <1>5 DEF RateInv

(* Every limiter made is a bucket, and every request let through a passing. *)
LEMMA RecordsAre ==
  ASSUME RateTypes
  PROVE  /\ \A n \in 1..Len(limiters) : limiters[n] \in Buckets
         /\ \A i \in 1..Len(passed) : passed[i] \in Passings /\ passed[i].at \in Nat
         /\ \A k : Mine(k) \subseteq 1..Len(passed)
         /\ \A k \in Keys : refused.key = k => refused.after \in 0..Len(passed)
  <1>1. \A n \in 1..Len(limiters) : limiters[n] \in Buckets  BY DEF RateTypes
  <1>2. \A i \in 1..Len(passed) : passed[i] \in Passings  BY DEF RateTypes
  <1>3. \A i \in 1..Len(passed) : passed[i].at \in Nat  BY <1>2 DEF Passings
  <1>4. \A k : Mine(k) \subseteq 1..Len(passed)
    <2>1. DOMAIN passed = 1..Len(passed)  BY DEF RateTypes
    <2> QED  BY <2>1 DEF Mine
  <1>5. \A k \in Keys : refused.key = k => refused.after \in 0..Len(passed)
    BY RateConstantsOK DEF RateTypes, NoRefusal
  <1> QED  BY <1>1, <1>2, <1>3, <1>4, <1>5

(* A request let through at this time keeps the history in the order of time. *)
LEMMA PassesInOrder ==
  ASSUME RateTypes, NEW k \in Keys, Passes(k)
  PROVE  /\ passed' \in Seq(Passings) /\ Len(passed') = Len(passed) + 1
         /\ \A i, j \in 1..Len(passed') : i <= j => passed'[i].at <= passed'[j].at
         /\ \A i \in 1..Len(passed') : passed'[i].at <= clock
         /\ \A l \in Keys : l # k => \E e \in Passings : e.key # l /\ passed' = Append(passed, e)
  <1>0. PICK n \in Nat : n = Len(passed)  BY DEF RateTypes
  <1> DEFINE e == [key |-> k, at |-> clock]
  <1>1. e \in Passings /\ e.key = k /\ e.at = clock /\ clock \in Nat  BY DEF Passings, RateTypes
  <1>2. passed' = Append(passed, e) /\ passed \in Seq(Passings)  BY DEF Passes, RateTypes
  <1> HIDE DEF e
  <1>3. /\ passed' \in Seq(Passings) /\ Len(passed') = n + 1 /\ passed'[n + 1] = e
        /\ \A i \in 1..n : passed'[i] = passed[i]
    BY <1>0, <1>1, <1>2
  <1>4. /\ \A i \in 1..n : passed[i].at \in Nat /\ passed[i].at <= clock
        /\ \A i, j \in 1..n : i <= j => passed[i].at <= passed[j].at
    BY <1>0, RecordsAre DEF RateTypes
  <1>5. \A i \in 1..(n + 1) : i \in 1..n \/ i = n + 1  BY <1>0
  <1>6. \A i \in 1..(n + 1) : passed'[i].at <= clock  BY <1>1, <1>3, <1>4, <1>5
  <1>7. ASSUME NEW i \in 1..(n + 1), NEW j \in 1..(n + 1), i <= j PROVE passed'[i].at <= passed'[j].at
    <2>1. CASE j = n + 1  BY <1>1, <1>3, <1>6, <2>1
    <2>2. CASE j \in 1..n
      <3>1. i \in 1..n  BY <1>7, <2>2
      <3> QED  BY <1>3, <1>4, <1>7, <2>2, <3>1
    <2> QED  BY <1>5, <2>1, <2>2
  <1>8. \A l \in Keys : l # k => e.key # l  BY <1>1
  <1> QED  BY <1>0, <1>1, <1>2, <1>3, <1>6, <1>7, <1>8

(* A call that is not limited, or refused for its rate alone, or that finds its  *)
(* bucket or puts a new one in the table.                                        *)
LEMMA CheckTypes ==
  ASSUME RateInv, NEW c \in Callers, NEW k \in Keys, NEW r \in Rates, CheckRateLimit(c, k, r)
  PROVE  RateTypes'
  <1>0. RateTypes /\ clock' = clock /\ clock \in Nat  BY DEF RateInv, RateTypes, CheckRateLimit
  <1>1. asked' \in [Keys -> SUBSET Rates]
    <2>1. asked' = [asked EXCEPT ![k] = @ \cup {r}] /\ asked \in [Keys -> SUBSET Rates]
      BY <1>0 DEF CheckRateLimit, RateTypes
    <2> QED  BY <2>1
  <1>2. CASE r <= 0
    <2>1. Passes(k) /\ UNCHANGED <<limiters, current, caller, refused>>  BY <1>2 DEF CheckRateLimit
    <2>2. refused' = NoRefusal \/ refused' \in [key : Keys, at : Nat, after : 0..Len(passed')]
      <3>1. Len(passed') = Len(passed) + 1 /\ Len(passed) \in Nat  BY <1>0, <2>1, PassesInOrder DEF RateTypes
      <3>2. 0..Len(passed) \subseteq 0..Len(passed')  BY <3>1
      <3> QED  BY <1>0, <2>1, <3>2 DEF RateTypes
    <2>3. /\ passed' \in Seq(Passings)
          /\ \A i, j \in 1..Len(passed') : i <= j => passed'[i].at <= passed'[j].at
          /\ \A i \in 1..Len(passed') : passed'[i].at <= clock
      BY <1>0, <2>1, PassesInOrder
    <2> QED  BY <1>0, <1>1, <2>1, <2>2, <2>3 DEF RateTypes, Room, Burst, One
  <1>3. CASE r > 0 /\ UNCHANGED <<limiters, current, caller, passed, refused>>
    BY <1>0, <1>1, <1>3 DEF RateTypes, Room, Burst, One
  <1>4. CASE r > 0 /\ Lookup(c, k, r)
    <2>0. /\ passed' = passed /\ refused' = refused
          /\ caller' = [caller EXCEPT ![c] = [key |-> k, limiter |-> current'[k]]]
      BY <1>4 DEF Lookup
    <2>1. CASE current[k] # 0 /\ UNCHANGED <<limiters, current>>
      <3>1. current[k] \in 1..Len(limiters)  BY <1>0, <2>1 DEF RateTypes
      <3>2. caller' \in [Callers -> {NotCalling} \cup [key : Keys, limiter : 1..Len(limiters')]]
        BY <1>0, <2>0, <2>1, <3>1 DEF RateTypes
      <3> QED  BY <1>0, <1>1, <2>0, <2>1, <3>2 DEF RateTypes, Room, Burst, One
    <2>2. CASE /\ limiters' = Append(limiters, newRateLimiter(r))
               /\ current' = [current EXCEPT ![k] = Len(limiters) + 1]
      <3>0. PICK n \in Nat : n = Len(limiters)  BY <1>0 DEF RateTypes
      <3> DEFINE b == newRateLimiter(r)
      <3>1. Room(r) \in Nat /\ Burst(r) \in Nat  BY <1>4, RoomIs
      <3>2. /\ b \in Buckets /\ b.rps = r /\ b.burst = Burst(r) /\ b.tokens = Room(r) /\ b.last = clock
        BY <1>0, <3>1 DEF newRateLimiter, Buckets, Room
      <3> HIDE DEF b
      <3>3. /\ limiters' \in Seq(Buckets) /\ Len(limiters') = n + 1 /\ limiters'[n + 1] = b
            /\ \A i \in 1..n : limiters'[i] = limiters[i]
        <4>1. limiters' = Append(limiters, b)  BY <2>2 DEF b
        <4> QED  BY <1>0, <3>0, <3>2, <4>1 DEF RateTypes
      <3>4. ASSUME NEW i \in 1..(n + 1)
            PROVE  /\ 0 < limiters'[i].rps /\ limiters'[i].burst = Burst(limiters'[i].rps)
                   /\ limiters'[i].tokens <= Room(limiters'[i].rps) /\ limiters'[i].last <= clock
        <4>1. CASE i = n + 1
          <5>1. Room(r) <= Room(r) /\ clock <= clock  BY <1>0, <3>1
          <5> QED  BY <1>4, <3>2, <3>3, <4>1, <5>1
        <4>2. CASE i \in 1..n  BY <1>0, <3>0, <3>3, <4>2 DEF RateTypes
        <4> QED  BY <4>1, <4>2
      <3>5. current' \in [Keys -> 0..(n + 1)]
        <4>1. current \in [Keys -> 0..n] /\ current' = [current EXCEPT ![k] = n + 1]
          BY <1>0, <2>2, <3>0 DEF RateTypes
        <4>2. 0..n \subseteq 0..(n + 1) /\ n + 1 \in 0..(n + 1)  OBVIOUS
        <4> QED  BY <4>1, <4>2
      <3>6. caller' \in [Callers -> {NotCalling} \cup [key : Keys, limiter : 1..(n + 1)]]
        <4>1. caller \in [Callers -> {NotCalling} \cup [key : Keys, limiter : 1..n]]
          BY <1>0, <3>0 DEF RateTypes
        <4>2. 1..n \subseteq 1..(n + 1) /\ n + 1 \in 1..(n + 1)  OBVIOUS
        <4>3. current'[k] = n + 1  BY <1>0, <2>2, <3>0 DEF RateTypes
        <4> QED  BY <2>0, <4>1, <4>2, <4>3
      <3> QED  BY <1>0, <1>1, <2>0, <3>3, <3>4, <3>5, <3>6 DEF RateTypes, Room, Burst, One
    <2> QED  BY <1>4, <2>1, <2>2 DEF Lookup
  <1> QED
    <2>1. r \in Int  BY RateConstantsOK
    <2> QED  BY <1>2, <1>3, <1>4, <2>1 DEF CheckRateLimit

(* What a call to checkRateLimit leaves of the other keys, and what it makes of its own. *)
LEMMA CheckEffect ==
  ASSUME RateInv, NEW c \in Callers, NEW k \in Keys, NEW r \in Rates, CheckRateLimit(c, k, r)
  PROVE  /\ asked' = [asked EXCEPT ![k] = @ \cup {r}] /\ caller[c] = NotCalling
         /\ \A l \in Keys : l # k => current'[l] = current[l] /\ (current[l] # 0 => Bucket(l)' = Bucket(l))
         /\ passed' = passed \/ (r <= 0 /\ Passes(k))
         /\ refused' = refused
         /\ \/ caller' = caller
            \/ /\ r > 0
               /\ caller' = [caller EXCEPT ![c] = [key |-> k, limiter |-> current'[k]]]
         /\ \/ limiters' = limiters /\ current' = current
            \/ /\ r > 0 /\ ~(current[k] # 0 /\ Bucket(k).rps = r)
               /\ limiters' = Append(limiters, newRateLimiter(r))
               /\ current' = [current EXCEPT ![k] = Len(limiters) + 1]
         /\ Steady(k, r) \/ (asked[k] = {} /\ 0 < r /\ r <= MaxRPSPerClient * RateUnit) => Lookup(c, k, r)
  <1>0. r \in Int /\ MaxRPSPerClient * RateUnit \in Int /\ RateTypes
    <2>1. MaxRPSPerClient \in Nat /\ RateUnit \in Nat /\ r \in Int  BY RateConstantsOK
    <2> DEFINE x == MaxRPSPerClient
               y == RateUnit
    <2>2. x \in Nat /\ y \in Nat  BY <2>1
    <2> HIDE DEF x, y
    <2>3. x * y \in Int  BY <2>2
    <2> QED  BY <2>1, <2>3 DEF x, y, RateInv
  <1>1. \/ limiters' = limiters /\ current' = current
        \/ /\ r > 0 /\ ~(current[k] # 0 /\ Bucket(k).rps = r)
           /\ limiters' = Append(limiters, newRateLimiter(r))
           /\ current' = [current EXCEPT ![k] = Len(limiters) + 1]
    BY <1>0 DEF CheckRateLimit, Lookup, Bucket
  <1>2. ASSUME NEW l \in Keys, l # k
        PROVE  current'[l] = current[l] /\ (current[l] # 0 => Bucket(l)' = Bucket(l))
    <2>1. CASE limiters' = limiters /\ current' = current  BY <2>1 DEF Bucket
    <2>2. CASE /\ limiters' = Append(limiters, newRateLimiter(r))
               /\ current' = [current EXCEPT ![k] = Len(limiters) + 1]
      <3>1. current'[l] = current[l] /\ current[l] \in 0..Len(limiters)  BY <1>0, <1>2, <2>2 DEF RateTypes
      <3>2. current[l] # 0 => limiters'[current[l]] = limiters[current[l]]
        <4> SUFFICES ASSUME current[l] # 0 PROVE limiters'[current[l]] = limiters[current[l]]  OBVIOUS
        <4>1. PICK n \in Nat : n = Len(limiters)  BY <1>0 DEF RateTypes
        <4>2. limiters \in Seq(Buckets) /\ current[l] \in 1..n  BY <1>0, <3>1, <4>1 DEF RateTypes
        <4> QED  BY <2>2, <4>1, <4>2
      <3> QED  BY <3>1, <3>2 DEF Bucket
    <2> QED  BY <1>1, <2>1, <2>2
  <1>3. passed' = passed \/ (r <= 0 /\ Passes(k))  BY <1>0 DEF CheckRateLimit, Lookup
  <1>4. \/ caller' = caller
        \/ /\ r > 0
           /\ caller' = [caller EXCEPT ![c] = [key |-> k, limiter |-> current'[k]]]
    BY <1>0 DEF CheckRateLimit, Lookup
  <1>5. refused' = refused  BY DEF CheckRateLimit, Lookup
  <1>6. Steady(k, r) \/ (asked[k] = {} /\ 0 < r /\ r <= MaxRPSPerClient * RateUnit) => Lookup(c, k, r)
    BY <1>0 DEF CheckRateLimit, Steady
  <1> QED  BY <1>1, <1>2, <1>3, <1>4, <1>5, <1>6 DEF CheckRateLimit

(* The call keeps every bucket to its own key. *)
LEMMA CheckOwnBuckets ==
  ASSUME RateInv, NEW c \in Callers, NEW k \in Keys, NEW r \in Rates, CheckRateLimit(c, k, r)
  PROVE  OwnBuckets'
  <1>0. /\ RateTypes /\ OwnBuckets
        /\ current \in [Keys -> 0..Len(limiters)] /\ Len(limiters) \in Nat
        /\ caller \in [Callers -> {NotCalling} \cup [key : Keys, limiter : 1..Len(limiters)]]
        /\ NotCalling.limiter = 0
    BY DEF RateInv, RateTypes, NotCalling
  <1>1. current' \in [Keys -> Nat] /\ \A l \in Keys : l # k => current'[l] = current[l]
    <2>1. current' \in [Keys -> 0..Len(limiters')] /\ Len(limiters') \in Nat  BY CheckTypes DEF RateTypes
    <2> QED  BY <2>1, CheckEffect
  <1>2. current'[k] = current[k] \/ current'[k] = Len(limiters) + 1  BY <1>0, CheckEffect
  <1>3. \A l \in Keys : current[l] <= Len(limiters) /\ current[l] # Len(limiters) + 1  BY <1>0
  <1>4. \A d \in Callers : caller[d].limiter # Len(limiters) + 1  BY <1>0
  <1>5. ASSUME NEW i \in Keys, NEW j \in Keys, current'[i] = current'[j], current'[i] # 0 PROVE i = j
    BY <1>0, <1>1, <1>2, <1>3, <1>5 DEF OwnBuckets
  <1>6. ASSUME NEW d \in Callers, NEW l \in Keys, caller'[d].limiter # 0, caller'[d].limiter = current'[l]
        PROVE  caller'[d].key = l
    <2>1. CASE caller'[d] = caller[d]  BY <1>0, <1>1, <1>2, <1>4, <1>6, <2>1 DEF OwnBuckets
    <2>2. CASE caller'[d] = [key |-> k, limiter |-> current'[k]]  BY <1>5, <1>6, <2>2
    <2> QED  BY <1>0, <2>1, <2>2, CheckEffect
  <1> QED  BY <1>5, <1>6 DEF OwnBuckets

(* What has not been asked for by then has no bucket and no history. *)
LEMMA CheckUnasked ==
  ASSUME RateInv, NEW c \in Callers, NEW k \in Keys, NEW r \in Rates, CheckRateLimit(c, k, r), NEW l \in Keys
  PROVE  Unasked(l)'
  <1>0. RateTypes /\ Unasked(l) /\ asked \in [Keys -> SUBSET Rates]  BY DEF RateInv, RateTypes
  <1> SUFFICES ASSUME asked'[l] = {}
               PROVE  /\ current'[l] = 0 /\ Mine(l)' = {} /\ refused'.key # l
                      /\ \A d \in Callers : caller'[d].key # l
    BY DEF Unasked
  <1>1. l # k /\ asked[l] = {}  BY <1>0, CheckEffect
  <1>2. current'[l] = 0 /\ refused'.key # l  BY <1>0, <1>1, CheckEffect DEF Unasked
  <1>3. Mine(l)' = {}
    <2>1. CASE passed' = passed  BY <1>0, <1>1, <2>1 DEF Unasked, Mine
    <2>2. CASE Passes(k)
      <3>1. PICK e \in Passings : e.key # l /\ passed' = Append(passed, e)
        BY <1>0, <1>1, <2>2, PassesInOrder
      <3>2. Mine(l)' = Mine(l)  BY <1>0, <3>1, PassedGrows DEF RateTypes
      <3> QED  BY <1>0, <1>1, <3>2 DEF Unasked
    <2> QED  BY <2>1, <2>2, CheckEffect
  <1>4. ASSUME NEW d \in Callers PROVE caller'[d].key # l
    <2>1. caller \in [Callers -> {NotCalling} \cup [key : Keys, limiter : 1..Len(limiters)]]
      BY <1>0 DEF RateTypes
    <2>2. caller'[d] = caller[d] \/ caller'[d].key = k  BY <2>1, CheckEffect
    <2> QED  BY <1>0, <1>1, <2>2 DEF Unasked
  <1> QED  BY <1>2, <1>3, <1>4

(* A steady client finds its bucket, or its first call makes a full one. *)
LEMMA CheckSteady ==
  ASSUME RateInv, NEW c \in Callers, NEW k \in Keys, NEW q \in Rates, CheckRateLimit(c, k, q),
         NEW l \in Keys, NEW r \in Rates, Steady(l, r)'
  PROVE  Held(l, r)' /\ KeyInv(l, r)'
  <1>0. /\ RateTypes /\ Unasked(l) /\ asked \in [Keys -> SUBSET Rates] /\ passed \in Seq(Passings)
        /\ caller \in [Callers -> {NotCalling} \cup [key : Keys, limiter : 1..Len(limiters)]]
        /\ NotCalling.key \notin Keys
        /\ refused.key = l => refused.after \in 0..Len(passed)
    BY RecordsAre, RateConstantsOK DEF RateInv, RateTypes, NotCalling
  <1>s. 0 < r /\ r <= MaxRPSPerClient * RateUnit /\ asked'[l] = {r} /\ r \in Int
    BY RateConstantsOK DEF Steady
  <1>a. asked' = [asked EXCEPT ![k] = @ \cup {q}]  BY CheckEffect
  <1>b. asked'[k] = asked[k] \cup {q}  BY <1>0, <1>a
  <1>1. CASE l # k
    <2>1. Steady(l, r)  BY <1>0, <1>1, <1>s, <1>a DEF Steady
    <2>2. Held(l, r) /\ KeyInv(l, r)  BY <2>1 DEF RateInv
    <2>3. current'[l] = current[l] /\ Bucket(l)' = Bucket(l) /\ refused' = refused
      BY <1>1, <2>2, CheckEffect DEF Held
    <2>4. \A d \in Callers : caller'[d] = caller[d] \/ caller'[d].key = k  BY <1>0, CheckEffect
    <2>5. Held(l, r)'  BY <1>1, <2>2, <2>3, <2>4 DEF Held
    <2>6. passed' = passed \/ \E e \in Passings : e.key # l /\ passed' = Append(passed, e)
      BY <1>0, <1>1, CheckEffect, PassesInOrder
    <2>7. KeyInv(l, r)'  BY <1>0, <2>2, <2>3, <2>6, QuietKey
    <2> QED  BY <2>5, <2>7
  <1>2. CASE l = k /\ asked[k] # {}
    <2>1. q = r /\ asked[k] = {r}  BY <1>2, <1>s, <1>b
    <2>2. Steady(k, r)  BY <1>s, <2>1 DEF Steady
    <2>3. Held(k, r) /\ KeyInv(k, r) /\ Lookup(c, k, r)  BY <2>1, <2>2, CheckEffect DEF RateInv
    <2>4. /\ limiters' = limiters /\ current' = current /\ passed' = passed /\ refused' = refused
          /\ caller' = [caller EXCEPT ![c] = [key |-> k, limiter |-> current[k]]]
      BY <2>3 DEF Held, Lookup, Bucket
    <2>5. Bucket(k)' = Bucket(k)  BY <2>4 DEF Bucket
    <2>6. Held(k, r)'  BY <1>0, <2>3, <2>4, <2>5 DEF Held
    <2>7. KeyInv(k, r)'  BY <1>0, <1>2, <2>3, <2>4, <2>5, QuietKey
    <2> QED  BY <1>2, <2>6, <2>7
  <1>3. CASE l = k /\ asked[k] = {}
    <2>1. q = r  BY <1>3, <1>s, <1>b
    <2>2. Lookup(c, k, r)  BY <1>3, <1>s, <2>1, CheckEffect
    <2>3. /\ current[k] = 0 /\ Mine(k) = {} /\ refused.key # k /\ \A d \in Callers : caller[d].key # k
      BY <1>0, <1>3 DEF Unasked
    <2>4. /\ limiters' = Append(limiters, newRateLimiter(r)) /\ passed' = passed /\ refused' = refused
          /\ current' = [current EXCEPT ![k] = Len(limiters) + 1]
          /\ caller' = [caller EXCEPT ![c] = [key |-> k, limiter |-> current'[k]]]
      BY <2>2, <2>3 DEF Lookup
    <2>5. PICK n \in Nat : n = Len(limiters) /\ current'[k] = n + 1  BY <1>0, <2>4 DEF RateTypes
    <2>6. limiters'[n + 1] = newRateLimiter(r)  BY <1>0, <2>4, <2>5 DEF RateTypes
    <2>7. Bucket(k)'.rps = r /\ Bucket(k)'.tokens = Room(r)'
      BY <2>5, <2>6 DEF Bucket, newRateLimiter, Room, Burst, One
    <2>8. Held(k, r)'  BY <1>0, <2>3, <2>4, <2>5, <2>7 DEF Held
    <2>9. Mine(k)' = {}  BY <2>3, <2>4 DEF Mine
    <2>10. KeyInv(k, r)'  BY <2>3, <2>4, <2>7, <2>9 DEF KeyInv, Bounded, Spent, RefusedSpent
    <2> QED  BY <1>3, <2>8, <2>10
  <1> QED  BY <1>1, <1>2, <1>3

(* What Allow does to the bucket it holds. *)
LEMMA AllowEffect ==
  ASSUME RateInv, NEW c \in Callers, Allow(c)
  PROVE  LET n == caller[c].limiter
             k == caller[c].key
             f == Refilled(limiters[n])
         IN  /\ n \in 1..Len(limiters) /\ k \in Keys
             /\ limiters[n] \in Buckets /\ limiters[n].last <= clock
             /\ f \in Nat /\ f <= Room(limiters[n].rps)
             /\ f = Least(limiters[n].tokens + (clock - limiters[n].last) * limiters[n].rps,
                          Room(limiters[n].rps))
             /\ \E t \in Nat :
                  /\ t <= f
                  /\ limiters' = [limiters EXCEPT ![n] = [limiters[n] EXCEPT !.tokens = t, !.last = clock]]
                  /\ \/ f >= One /\ t = f - One /\ Passes(k) /\ UNCHANGED refused
                     \/ /\ f < One /\ t = f /\ UNCHANGED passed
                        /\ refused' = [key |-> k, at |-> clock, after |-> Len(passed)]
             /\ caller' = [caller EXCEPT ![c] = NotCalling]
             /\ UNCHANGED <<clock, current, asked>>
  <1> DEFINE n == caller[c].limiter
             k == caller[c].key
             f == Refilled(limiters[n])
             Takes(t) ==
               /\ limiters' = [limiters EXCEPT ![n].tokens = t, ![n].last = clock]
               /\ \/ f >= One /\ t = f - One /\ Passes(k) /\ UNCHANGED refused
                  \/ /\ f < One /\ t = f /\ UNCHANGED passed
                     /\ refused' = [key |-> k, at |-> clock, after |-> Len(passed)]
  <1>0. RateTypes /\ limiters \in Seq(Buckets)  BY DEF RateInv, RateTypes
  <1>1. n \in 1..Len(limiters) /\ k \in Keys
    <2>1. caller[c] \in {NotCalling} \cup [key : Keys, limiter : 1..Len(limiters)] /\ caller[c].limiter # 0
      BY <1>0 DEF RateTypes, Allow
    <2> QED  BY <2>1 DEF NotCalling
  <1>2. /\ limiters[n] \in Buckets /\ limiters[n].last <= clock /\ f \in Nat /\ f <= Room(limiters[n].rps)
        /\ f = Least(limiters[n].tokens + (clock - limiters[n].last) * limiters[n].rps, Room(limiters[n].rps))
    BY <1>0, <1>1, RefilledIs
  <1>3. One \in Nat
    <2>1. limiters[n].rps \in Rates /\ 0 < limiters[n].rps  BY <1>0, <1>1, <1>2 DEF RateTypes, Buckets
    <2> QED  BY <2>1, RoomIs
  <1>4. (f >= One /\ Takes(f - One)) \/ (f < One /\ Takes(f))
    <2>1. f \in Int /\ One \in Int  BY <1>2, <1>3
    <2> QED  BY <2>1 DEF Allow
  <1>5. caller' = [caller EXCEPT ![c] = NotCalling] /\ UNCHANGED <<clock, current, asked>>  BY DEF Allow
  <1> HIDE DEF f
  <1>6. PICK t \in Nat : t <= f /\ Takes(t)
    <2>1. f >= One => f - One \in Nat /\ f - One <= f  BY <1>2, <1>3
    <2>2. f <= f  BY <1>2
    <2> QED  BY <1>2, <1>4, <2>1, <2>2
  <1>7. limiters' = [limiters EXCEPT ![n] = [limiters[n] EXCEPT !.tokens = t, !.last = clock]]
    BY <1>0, <1>1, <1>6
  <1> QED  BY <1>1, <1>2, <1>5, <1>6, <1>7 DEF f

(* Allow keeps the bucket within its room. *)
LEMMA AllowTypes == ASSUME RateInv, NEW c \in Callers, Allow(c) PROVE RateTypes'
  <1> DEFINE n == caller[c].limiter
             k == caller[c].key
             f == Refilled(limiters[n])
  <1>0. RateTypes /\ limiters \in Seq(Buckets) /\ clock \in Nat  BY DEF RateInv, RateTypes
  <1>1. /\ n \in 1..Len(limiters) /\ k \in Keys /\ limiters[n] \in Buckets
        /\ f \in Nat /\ f <= Room(limiters[n].rps)
        /\ caller' = [caller EXCEPT ![c] = NotCalling] /\ clock' = clock /\ current' = current
        /\ asked' = asked
    BY AllowEffect
  <1>2. PICK t \in Nat :
          /\ t <= f
          /\ limiters' = [limiters EXCEPT ![n] = [limiters[n] EXCEPT !.tokens = t, !.last = clock]]
          /\ \/ Passes(k) /\ UNCHANGED refused
             \/ /\ UNCHANGED passed
                /\ refused' = [key |-> k, at |-> clock, after |-> Len(passed)]
    BY AllowEffect
  <1> HIDE DEF n, k, f
  <1> DEFINE l == [limiters[n] EXCEPT !.tokens = t, !.last = clock]
             o == limiters[n]
  <1>3. /\ l \in Buckets /\ l.rps = o.rps /\ l.burst = o.burst /\ l.tokens = t /\ l.last = clock
    BY <1>0, <1>1, <1>2 DEF Buckets
  <1>4. t <= Room(o.rps)
    <2>1. o.rps \in Rates /\ 0 < o.rps  BY <1>0, <1>1 DEF Buckets, RateTypes
    <2>2. Room(o.rps) \in Nat  BY <2>1, RoomIs
    <2> HIDE DEF o
    <2>3. f <= Room(o.rps)  BY <1>1 DEF o
    <2> QED  BY <1>1, <1>2, <2>2, <2>3
  <1> HIDE DEF l, o
  <1>5. /\ limiters' \in Seq(Buckets) /\ Len(limiters') = Len(limiters) /\ limiters'[n] = l
        /\ \A i \in 1..Len(limiters) : i # n => limiters'[i] = limiters[i]
    <2>1. limiters' = [limiters EXCEPT ![n] = l]  BY <1>2 DEF l
    <2> QED  BY <1>0, <1>1, <1>3, <2>1
  <1>6. ASSUME NEW i \in 1..Len(limiters)
        PROVE  /\ 0 < limiters'[i].rps /\ limiters'[i].burst = Burst(limiters'[i].rps)
               /\ limiters'[i].tokens <= Room(limiters'[i].rps) /\ limiters'[i].last <= clock
    <2>1. CASE i = n
      <3>1. 0 < o.rps /\ o.burst = Burst(o.rps) /\ clock <= clock  BY <1>0, <1>1 DEF RateTypes, o
      <3> QED  BY <1>3, <1>4, <1>5, <2>1, <3>1
    <2>2. CASE i # n  BY <1>0, <1>5, <2>2 DEF RateTypes
    <2> QED  BY <2>1, <2>2
  <1>7. /\ passed' \in Seq(Passings)
        /\ \A i, j \in 1..Len(passed') : i <= j => passed'[i].at <= passed'[j].at
        /\ \A i \in 1..Len(passed') : passed'[i].at <= clock
        /\ refused' = NoRefusal \/ refused' \in [key : Keys, at : Nat, after : 0..Len(passed')]
    <2>1. CASE Passes(k) /\ UNCHANGED refused
      <3>1. Len(passed') = Len(passed) + 1 /\ Len(passed) \in Nat
        BY <1>0, <1>1, <2>1, PassesInOrder DEF RateTypes
      <3>2. 0..Len(passed) \subseteq 0..Len(passed')  BY <3>1
      <3>3. refused' = NoRefusal \/ refused' \in [key : Keys, at : Nat, after : 0..Len(passed')]
        BY <1>0, <2>1, <3>2 DEF RateTypes
      <3> QED  BY <1>0, <1>1, <2>1, <3>3, PassesInOrder
    <2>2. CASE UNCHANGED passed /\ refused' = [key |-> k, at |-> clock, after |-> Len(passed)]
      <3>1. Len(passed) \in 0..Len(passed)  BY <1>0 DEF RateTypes
      <3> QED  BY <1>0, <1>1, <2>2, <3>1 DEF RateTypes
    <2> QED  BY <1>2, <2>1, <2>2
  <1>8. caller' \in [Callers -> {NotCalling} \cup [key : Keys, limiter : 1..Len(limiters')]]
    BY <1>0, <1>1, <1>5 DEF RateTypes
  <1>9. current' \in [Keys -> 0..Len(limiters')] /\ asked' \in [Keys -> SUBSET Rates]
    BY <1>0, <1>1, <1>5 DEF RateTypes
  <1> QED  BY <1>0, <1>1, <1>5, <1>6, <1>7, <1>8, <1>9 DEF RateTypes, Room, Burst, One

(* Allow moves nobody to another bucket and gives nothing to who has not asked. *)
LEMMA AllowOwnBuckets ==
  ASSUME RateInv, NEW c \in Callers, Allow(c)
  PROVE  OwnBuckets' /\ \A l \in Keys : Unasked(l)'
  <1>0. RateTypes /\ OwnBuckets /\ NotCalling.limiter = 0 /\ NotCalling.key \notin Keys
    BY RateConstantsOK DEF RateInv, NotCalling
  <1>1. /\ caller[c].key \in Keys /\ current' = current /\ asked' = asked
        /\ caller' = [caller EXCEPT ![c] = NotCalling]
    BY AllowEffect
  <1>2. \A d \in Callers : caller'[d] = caller[d] \/ caller'[d] = NotCalling
    BY <1>0, <1>1 DEF RateTypes
  <1>3. OwnBuckets'  BY <1>0, <1>1, <1>2 DEF OwnBuckets
  <1>4. ASSUME NEW l \in Keys PROVE Unasked(l)'
    <2> SUFFICES ASSUME asked[l] = {}
                 PROVE  /\ current[l] = 0 /\ Mine(l)' = {} /\ refused'.key # l
                        /\ \A d \in Callers : caller'[d].key # l
      BY <1>1 DEF Unasked
    <2>1. /\ current[l] = 0 /\ Mine(l) = {} /\ refused.key # l
          /\ \A d \in Callers : caller[d].key # l
      BY DEF RateInv, Unasked
    <2>2. l # caller[c].key  BY <2>1
    <2>3. CASE Passes(caller[c].key) /\ UNCHANGED refused
      <3>1. PICK e \in Passings : e.key # l /\ passed' = Append(passed, e)
        BY <1>0, <1>1, <2>2, <2>3, PassesInOrder
      <3>2. Mine(l)' = Mine(l)  BY <1>0, <3>1, PassedGrows DEF RateTypes
      <3> QED  BY <1>0, <1>2, <2>1, <2>3, <3>2
    <2>4. CASE /\ UNCHANGED passed
               /\ refused' = [key |-> caller[c].key, at |-> clock, after |-> Len(passed)]
      BY <1>0, <1>2, <2>1, <2>2, <2>4 DEF Mine
    <2> QED  BY <2>3, <2>4, AllowEffect
  <1> QED  BY <1>3, <1>4

(* The bucket of a steady client answers for it, and those of the others are left. *)
LEMMA AllowSteady ==
  ASSUME RateInv, NEW c \in Callers, Allow(c), NEW l \in Keys, NEW r \in Rates, Steady(l, r)'
  PROVE  Held(l, r)' /\ KeyInv(l, r)'
  <1> DEFINE n == caller[c].limiter
             k == caller[c].key
             f == Refilled(limiters[n])
  <1>0. /\ RateTypes /\ OwnBuckets /\ limiters \in Seq(Buckets) /\ passed \in Seq(Passings) /\ clock \in Nat
        /\ NotCalling.key \notin Keys
        /\ refused.key = l => refused.after \in 0..Len(passed)
        /\ \A i \in Mine(l) : passed[i].at \in Nat
    BY RecordsAre, RateConstantsOK DEF RateInv, RateTypes, NotCalling
  <1>1. /\ n \in 1..Len(limiters) /\ k \in Keys /\ limiters[n] \in Buckets /\ limiters[n].last <= clock
        /\ f \in Nat
        /\ f = Least(limiters[n].tokens + (clock - limiters[n].last) * limiters[n].rps, Room(limiters[n].rps))
        /\ caller' = [caller EXCEPT ![c] = NotCalling] /\ clock' = clock /\ current' = current
        /\ asked' = asked
    BY AllowEffect
  <1>2. PICK t \in Nat :
          /\ limiters' = [limiters EXCEPT ![n] = [limiters[n] EXCEPT !.tokens = t, !.last = clock]]
          /\ \/ f >= One /\ t = f - One /\ Passes(k) /\ UNCHANGED refused
             \/ /\ f < One /\ t = f /\ UNCHANGED passed
                /\ refused' = [key |-> k, at |-> clock, after |-> Len(passed)]
    BY AllowEffect
  <1>3. Steady(l, r) /\ 0 < r  BY <1>1 DEF Steady
  <1>4. Held(l, r) /\ KeyInv(l, r) /\ current[l] \in 1..Len(limiters)
    <2>1. Held(l, r) /\ KeyInv(l, r)  BY <1>3 DEF RateInv
    <2>2. current[l] \in 0..Len(limiters) /\ current[l] # 0  BY <1>0, <2>1 DEF RateTypes, Held
    <2> QED  BY <2>1, <2>2
  <1> HIDE DEF f
  <1>5. \A d \in Callers : caller'[d] = caller[d] \/ caller'[d].key \notin Keys
    BY <1>0, <1>1 DEF RateTypes
  <1>6. Bucket(l)'.rps = Bucket(l).rps
    <2>1. limiters'[current[l]].rps = limiters[current[l]].rps
      BY <1>0, <1>1, <1>2, <1>4 DEF Buckets
    <2> QED  BY <1>1, <2>1 DEF Bucket
  <1>7. Held(l, r)'  BY <1>1, <1>4, <1>5, <1>6 DEF Held
  <1>8. CASE l # k
    <2>1. current[l] # n  BY <1>0, <1>1, <1>4, <1>8 DEF OwnBuckets, Held
    <2>2. limiters'[current[l]] = limiters[current[l]]  BY <1>0, <1>1, <1>2, <1>4, <2>1
    <2>3. Bucket(l)' = Bucket(l)  BY <1>1, <2>2 DEF Bucket
    <2>4. passed' = passed \/ \E e \in Passings : e.key # l /\ passed' = Append(passed, e)
      BY <1>0, <1>1, <1>2, <1>8, PassesInOrder
    <2>5. refused' = refused \/ refused'.key # l  BY <1>2, <1>8
    <2>6. KeyInv(l, r)'  BY <1>0, <1>4, <2>3, <2>4, <2>5, QuietKey
    <2> QED  BY <1>7, <2>6
  <1>9. CASE l = k
    <2>1. current[l] = n /\ Bucket(l) = limiters[n] /\ limiters[n].rps = r
      BY <1>4, <1>9 DEF Held, Bucket
    <2>2. Bucket(l)' = limiters'[n]  BY <1>1, <2>1 DEF Bucket
    <2>3. Bucket(l)'.tokens = t /\ Bucket(l)'.last = clock
      <3>1. limiters'[n] = [limiters[n] EXCEPT !.tokens = t, !.last = clock]
        <4> DEFINE o == [limiters[n] EXCEPT !.tokens = t, !.last = clock]
        <4>1. limiters' = [limiters EXCEPT ![n] = o]  BY <1>2
        <4> HIDE DEF o
        <4>2. limiters'[n] = o  BY <1>0, <1>1, <4>1
        <4> QED  BY <4>2 DEF o
      <3>2. limiters'[n].tokens = t /\ limiters'[n].last = clock  BY <1>1, <3>1 DEF Buckets
      <3> QED  BY <2>2, <3>2
    <2>4. Bucket(l).tokens \in Nat /\ Bucket(l).last \in Nat /\ Bucket(l).last <= clock
      BY <1>1, <2>1 DEF Buckets
    <2>5. f = Least(Bucket(l).tokens + (clock - Bucket(l).last) * r, Room(r)) /\ f \in Int
      BY <1>1, <2>1
    <2>6. CASE f >= One /\ t = f - One /\ Passes(k) /\ UNCHANGED refused
      <3>1. passed' = Append(passed, [key |-> l, at |-> clock])  BY <1>9, <2>6 DEF Passes
      <3>2. KeyInv(l, r)'
        BY <1>0, <1>3, <1>4, <2>3, <2>4, <2>5, <2>6, <3>1, PassKey
      <3> QED  BY <1>7, <3>2
    <2>7. CASE /\ f < One /\ t = f /\ UNCHANGED passed
               /\ refused' = [key |-> k, at |-> clock, after |-> Len(passed)]
      <3>1. KeyInv(l, r)'
        BY <1>0, <1>3, <1>4, <1>9, <2>3, <2>4, <2>5, <2>7, RefuseKey
      <3> QED  BY <1>7, <3>1
    <2> QED  BY <1>2, <2>6, <2>7
  <1> QED  BY <1>8, <1>9

(* Every step of the rate limit preserves the invariant. *)
LEMMA NextRateInv == ASSUME RateInv, [RateNext]_rateVars PROVE RateInv'
  <1>1. CASE Tick  BY <1>1, TickRateInv
  <1>2. ASSUME NEW c \in Callers, Allow(c) PROVE RateInv'
    <2>1. RateTypes'  BY <1>2, AllowTypes
    <2>2. OwnBuckets' /\ \A k \in Keys : Unasked(k)'  BY <1>2, AllowOwnBuckets
    <2>3. ASSUME NEW k \in Keys, NEW r \in Rates, Steady(k, r)' PROVE Held(k, r)' /\ KeyInv(k, r)'
      BY <1>2, <2>3, AllowSteady
    <2> QED  BY <2>1, <2>2, <2>3 DEF RateInv
  <1>3. ASSUME NEW c \in Callers, NEW l \in Keys, NEW q \in Rates, CheckRateLimit(c, l, q) PROVE RateInv'
    <2>1. RateTypes' /\ OwnBuckets'  BY <1>3, CheckTypes, CheckOwnBuckets
    <2>2. \A k \in Keys : Unasked(k)'  BY <1>3, CheckUnasked
    <2>3. ASSUME NEW k \in Keys, NEW r \in Rates, Steady(k, r)' PROVE Held(k, r)' /\ KeyInv(k, r)'
      BY <1>3, <2>3, CheckSteady
    <2> QED  BY <2>1, <2>2, <2>3 DEF RateInv
  <1>4. CASE UNCHANGED rateVars
    <2>1. RateTypes'  BY <1>4 DEF rateVars, RateInv, RateTypes, Room, Burst, One
    <2>2. OwnBuckets'  BY <1>4 DEF rateVars, RateInv, OwnBuckets
    <2>3. \A k \in Keys : Unasked(k)'  BY <1>4 DEF rateVars, RateInv, Unasked, Mine
    <2>4. ASSUME NEW k \in Keys, NEW r \in Rates, Steady(k, r)' PROVE Held(k, r)' /\ KeyInv(k, r)'
      <3>1. Steady(k, r)  BY <1>4, <2>4 DEF rateVars, Steady
      <3>2. Held(k, r)'  BY <1>4, <3>1 DEF rateVars, RateInv, Held, Bucket
      <3>3. Bucket(k)' = Bucket(k) /\ passed' = passed /\ refused' = refused  BY <1>4 DEF rateVars, Bucket
      <3>4. KeyInv(k, r) /\ passed \in Seq(Passings) /\ (refused.key = k => refused.after \in 0..Len(passed))
        BY <3>1, RecordsAre DEF RateInv, RateTypes
      <3> QED  BY <3>2, <3>3, <3>4, QuietKey
    <2> QED  BY <2>1, <2>2, <2>3, <2>4 DEF RateInv
  <1> QED  BY <1>1, <1>2, <1>3, <1>4 DEF RateNext

(* RateInv: in every state of the rate limit, the invariant above. *)
THEOREM RateInvariance == RulesSpec => []RateInv
  <1>1. RulesInit => RateInv  BY InitRateInv DEF RulesInit
  <1>2. RateInv /\ [RulesNext]_rulesVars => RateInv'
    <2> SUFFICES ASSUME RateInv, [RulesNext]_rulesVars PROVE RateInv'  OBVIOUS
    <2>1. [RateNext]_rateVars  BY DEF RulesNext, rulesVars
    <2> QED  BY <2>1, NextRateInv
  <1> QED  BY <1>1, <1>2, PTL DEF RulesSpec

(* RateIsBounded: a client that keeps to one rate gets, in any stretch of time,  *)
(* no more than the burst and what the rate allows, however its evaluations      *)
(* interleave (checkRateLimit).  A stretch that begins with a request of another *)
(* key is no longer than the one that begins with the client's own first in it.  *)
THEOREM RateIsKept == RulesSpec => []RateIsBounded
  <1>1. RateInv => RateIsBounded
    <2> SUFFICES ASSUME RateInv, NEW k \in Keys, NEW r \in Rates, Steady(k, r),
                        NEW i \in DOMAIN passed, NEW j \in PassedFrom(k, i)
                 PROVE  Cardinality({m \in PassedFrom(k, i) : m <= j}) * One
                          <= Burst(r) * One + (passed[j].at - passed[i].at) * r
      BY DEF RateIsBounded
    <2>0. PICK n \in Nat : n = Len(passed)  BY DEF RateInv, RateTypes
    <2>1. /\ passed \in Seq(Passings) /\ DOMAIN passed = 1..n /\ i \in 1..n
          /\ \A m \in 1..n : passed[m].at \in Nat
          /\ \A l, m \in 1..n : l <= m => passed[l].at <= passed[m].at
      BY <2>0, RecordsAre DEF RateInv, RateTypes
    <2>2. j \in i..n /\ j \in Mine(k)  BY <2>0, <2>1 DEF PassedFrom, Mine
    <2> DEFINE T == {m \in i..n : passed[m].key = k}
    <2>3. T \subseteq Nat /\ j \in T  BY <2>1, <2>2 DEF Mine
    <2>4. PICK f \in T : \A m \in T : f <= m
      <3> HIDE DEF T
      <3> QED  BY <2>3, LeastMember
    <2>5. f \in Mine(k) /\ f \in i..n /\ f \in 1..n /\ f <= j  BY <2>1, <2>3, <2>4 DEF Mine
    <2>6. {m \in PassedFrom(k, i) : m <= j} = PassedIn(k, f, j)
      <3>1. \A m : m \in PassedFrom(k, i) <=> m \in T  BY <2>0 DEF PassedFrom
      <3>2. ASSUME NEW m \in T, m <= j PROVE m \in PassedIn(k, f, j)
        <4>1. m \in Nat /\ f <= m /\ passed[m].key = k  BY <2>3, <2>4
        <4> QED  BY <2>2, <2>5, <3>2, <4>1 DEF PassedIn
      <3>3. ASSUME NEW m \in PassedIn(k, f, j) PROVE m \in T /\ m <= j
        <4>1. m \in f..j /\ passed[m].key = k  BY DEF PassedIn
        <4>2. m \in i..n /\ m <= j  BY <2>1, <2>2, <2>5, <4>1
        <4> QED  BY <4>1, <4>2
      <3> QED  BY <3>1, <3>2, <3>3
    <2>7. Count(k, f, j) * One <= Room(r) + (passed[j].at - passed[f].at) * r
      BY <2>2, <2>5 DEF RateInv, KeyInv, Bounded
    <2>8. passed[i].at <= passed[f].at  BY <2>1, <2>5
    <2> DEFINE a == passed[i].at
               b == passed[f].at
               c == passed[j].at
               x == Count(k, f, j) * One
               room == Room(r)
    <2>9. /\ a \in Nat /\ b \in Nat /\ c \in Nat /\ a <= b /\ r \in Nat
          /\ x <= room + (c - b) * r /\ x \in Int /\ room \in Int
      <3>1. r \in Nat /\ r > 0  BY RateConstantsOK DEF Steady
      <3>2. One \in Int /\ Room(r) \in Int /\ Count(k, f, j) \in Int  BY <2>2, <2>5, <3>1, RoomIs, CountIs
      <3> QED  BY <2>1, <2>2, <2>5, <2>7, <2>8, <3>1, <3>2
    <2> HIDE DEF a, b, c, x, room
    <2>10. x <= room + (c - a) * r
      <3>1. (c - a) * r = (c - b) * r + (b - a) * r  BY <2>9
      <3> DEFINE d == b - a
      <3>2. d \in Nat  BY <2>9
      <3> HIDE DEF d
      <3>3. d * r >= 0 /\ d * r \in Int  BY <2>9, <3>2
      <3>4. (b - a) * r >= 0 /\ (b - a) * r \in Int  BY <3>3 DEF d
      <3> DEFINE y == (c - b) * r
                 z == (b - a) * r
      <3>5. y \in Int  BY <2>9
      <3> HIDE DEF y, z
      <3>6. x <= room + y /\ z >= 0 /\ z \in Int  BY <2>9, <3>4 DEF y, z
      <3>7. x <= room + (y + z)  BY <2>9, <3>5, <3>6
      <3> QED  BY <3>1, <3>7 DEF y, z
    <2> QED  BY <2>6, <2>10 DEF a, c, x, room, Room, Count
  <1> QED  BY <1>1, RateInvariance, PTL

(* RefusedOnlyWhenSpent: when a steady client is refused, it has had all but     *)
(* less than one of the requests that burst and rate allow in some stretch of    *)
(* time up to then (rateLimiter.Allow).                                          *)
THEOREM RefusalsAreSpent == RulesSpec => []RefusedOnlyWhenSpent
  <1>1. RateInv => RefusedOnlyWhenSpent
    <2> SUFFICES ASSUME RateInv, NEW k \in Keys, NEW r \in Rates, Steady(k, r), refused.key = k
                 PROVE  \E i \in 1..refused.after :
                          /\ passed[i].key = k
                          /\ Cardinality({m \in PassedFrom(k, i) : m <= refused.after}) * One
                               > (Burst(r) - 1) * One + (refused.at - passed[i].at) * r
      BY DEF RefusedOnlyWhenSpent
    <2>0. PICK n \in Nat : n = Len(passed)  BY DEF RateInv, RateTypes
    <2>1. PICK i \in Mine(k) :
            /\ i <= refused.after
            /\ Count(k, i, refused.after) * One > Room(r) - One + (refused.at - passed[i].at) * r
      BY DEF RateInv, KeyInv, RefusedSpent
    <2>2. PICK a \in 0..n : a = refused.after  BY <2>0, RecordsAre DEF RateInv
    <2>3. i \in 1..n /\ passed[i].key = k  BY <2>0, RecordsAre DEF RateInv, Mine
    <2>4. {m \in PassedFrom(k, i) : m <= a} = PassedIn(k, i, a)
      BY <2>0, <2>2, <2>3 DEF PassedFrom, PassedIn
    <2>5. (Burst(r) - 1) * One = Room(r) - One  BY RoomIs DEF Steady
    <2>6. i \in 1..a  BY <2>1, <2>2, <2>3
    <2>7. Cardinality({m \in PassedFrom(k, i) : m <= a}) * One
            > (Burst(r) - 1) * One + (refused.at - passed[i].at) * r
      <3>1. Count(k, i, a) * One > Room(r) - One + (refused.at - passed[i].at) * r  BY <2>1, <2>2
      <3>2. Count(k, i, a) = Cardinality({m \in PassedFrom(k, i) : m <= a})  BY <2>4 DEF Count
      <3> QED  BY <2>5, <3>1, <3>2
    <2> QED  BY <2>2, <2>3, <2>6, <2>7
  <1> QED  BY <1>1, RateInvariance, PTL

=============================================================================
