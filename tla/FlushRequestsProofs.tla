------------------------- MODULE FlushRequestsProofs -------------------------
(* What TLAPS proves of FlushRequests, for all values of its constants: of  *)
(* the metrics (Collector) and of the audit buffer (Telemetry).             *)
EXTENDS FlushRequests, Induction

-----------------------------------------------------------------------------
(* The metrics: the inductive invariant.                                   *)

MetricsTypeOK ==
  /\ \A f \in {counters, top, counted, mapped, reported, reportedTop, during, duringTop} :
       f \in [Kinds -> Int]
  /\ recorder \in [Recorders -> Kinds \cup {"none"}]
  /\ flusher \in [Flushers -> {"idle", "generate", "resetCounters", "resetMaps"}]
  /\ overlapped \in BOOLEAN

\* Until a second summary is made, one flush is between its summary and its resets.
OneInside ==
  ~overlapped => \A f, g \in Flushers :
    {flusher[f], flusher[g]} \subseteq {"resetCounters", "resetMaps"} => f = g

\* What is counted and in no summary is in the counters, or came in during a flush;
\* but counters that are yet to be reset have been reported.
Unreset == FlushAt({"resetCounters"})
Inside  == FlushAt({"resetCounters", "resetMaps"})

CountedAddsUp(k) ==
  counted[k] - reported[k] - (IF Unreset THEN 0 ELSE counters[k]) \in 0..during[k]
MappedAddsUp(k) ==
  mapped[k] - reportedTop[k] - (IF Inside THEN 0 ELSE top[k]) \in 0..duringTop[k]

AddsUp == ~overlapped => \A k \in Kinds : CountedAddsUp(k) /\ MappedAddsUp(k)

MetricsIInv == MetricsTypeOK /\ OneInside /\ AddsUp

(* Sums of functions and the unit of a kind, at each kind. *)
LEMMA PlusAt ==
  ASSUME NEW f \in [Kinds -> Int], NEW g \in [Kinds -> Int]
  PROVE  Plus(f, g) \in [Kinds -> Int] /\ \A k \in Kinds : Plus(f, g)[k] = f[k] + g[k]
  BY DEF Plus

(* Counting one more of a kind adds one at that kind, and nothing elsewhere. *)
LEMMA PlusOneAt ==
  ASSUME NEW f \in [Kinds -> Int], NEW k \in Kinds
  PROVE  /\ Plus(f, One(k, TRUE)) \in [Kinds -> Int] /\ Plus(f, One(k, FALSE)) = f
         /\ \A i \in Kinds : Plus(f, One(k, TRUE))[i] = IF i = k THEN f[i] + 1 ELSE f[i]
  <1> DEFINE u == One(k, TRUE)
             z == One(k, FALSE)
  <1>1. u \in [Kinds -> Int] /\ z \in [Kinds -> Int]  BY DEF One, Zero
  <1>2. \A i \in Kinds : z[i] = 0 /\ u[i] = IF i = k THEN 1 ELSE 0  BY DEF One, Zero
  <1> HIDE DEF u, z
  <1>3. Plus(f, z) = f  BY <1>1, <1>2 DEF Plus
  <1>4. Plus(f, u) \in [Kinds -> Int] /\ \A i \in Kinds : Plus(f, u)[i] = IF i = k THEN f[i] + 1 ELSE f[i]
    BY <1>1, <1>2, PlusAt
  <1> QED  BY <1>3, <1>4 DEF u, z

(* Before anything is counted the metrics add up. *)
LEMMA MetricsInit == ASSUME CollectorInit PROVE MetricsIInv
  <1> USE DEF CollectorInit, Zero
  <1>1. MetricsTypeOK
    <2>1. Zero \in [Kinds -> Int]  BY DEF Zero
    <2> QED  BY <2>1, Zenon DEF MetricsTypeOK
  <1>2. OneInside  BY DEF OneInside
  <1>3. AddsUp  BY DEF AddsUp, CountedAddsUp, MappedAddsUp, Unreset, Inside, FlushAt
  <1> QED  BY <1>1, <1>2, <1>3 DEF MetricsIInv

(* The collector's steps keep its types. *)
LEMMA MetricsTypeOKNext == ASSUME MetricsIInv, CollectorNext PROVE MetricsTypeOK'
  <1> USE DEF MetricsIInv, MetricsTypeOK, To
  <1>z. Zero \in [Kinds -> Int]  BY DEF Zero
  <1>1. ASSUME NEW r \in Recorders, NEW k \in Kinds, AddCounter(r, k) PROVE MetricsTypeOK'
    <2>1. /\ counters' \in [Kinds -> Int] /\ counted' \in [Kinds -> Int]
          /\ during' \in [Kinds -> Int]
      BY <1>1, PlusOneAt, Zenon DEF AddCounter, FlushAt
    <2>2. /\ UNCHANGED <<top, flusher, mapped, reported, reportedTop, duringTop, overlapped>>
          /\ recorder' = [recorder EXCEPT ![r] = IF k \in HasMap THEN k ELSE "none"]
      BY <1>1, Zenon DEF AddCounter
    <2> QED  BY <2>1, <2>2
  <1>2. ASSUME NEW r \in Recorders, AddToMap(r) PROVE MetricsTypeOK'
    <2>1. recorder[r] \in Kinds  BY <1>2 DEF AddToMap
    <2>2. /\ top' \in [Kinds -> Int] /\ mapped' \in [Kinds -> Int]
          /\ duringTop' \in [Kinds -> Int]
      BY <1>2, <2>1, PlusOneAt, Zenon DEF AddToMap, FlushAt
    <2>3. /\ UNCHANGED <<counters, flusher, counted, reported, reportedTop, during, overlapped>>
          /\ recorder' = [recorder EXCEPT ![r] = "none"]
      BY <1>2, Zenon DEF AddToMap
    <2> QED  BY <2>2, <2>3
  <1>3. CASE IntervalPasses  BY <1>3 DEF IntervalPasses
  <1>4. ASSUME NEW f \in Flushers, ShouldGenerateSummary(f) PROVE MetricsTypeOK'
    BY <1>4 DEF ShouldGenerateSummary
  <1>5. ASSUME NEW f \in Flushers, GenerateSummary(f) PROVE MetricsTypeOK'
    <2>1. overlapped' \in BOOLEAN  BY <1>5, Zenon DEF GenerateSummary, FlushAt
    <2>2. /\ reported' = Plus(reported, counters) /\ reportedTop' = Plus(reportedTop, top)
          /\ UNCHANGED <<counters, top, recorder, counted, mapped, during, duringTop>>
          /\ flusher' = [flusher EXCEPT ![f] = "resetCounters"]
      BY <1>5, Zenon DEF GenerateSummary
    <2> QED  BY <2>1, <2>2, PlusAt
  <1>6. ASSUME NEW f \in Flushers, ResetCounters(f) PROVE MetricsTypeOK'
    BY <1>z, <1>6 DEF ResetCounters
  <1>7. ASSUME NEW f \in Flushers, ResetMaps(f) PROVE MetricsTypeOK'
    BY <1>z, <1>7 DEF ResetMaps
  <1> QED  BY <1>1, <1>2, <1>3, <1>4, <1>5, <1>6, <1>7, Zenon DEF CollectorNext

(* A second flush past its summary sets overlapped. *)
LEMMA OneInsideNext == ASSUME MetricsIInv, CollectorNext PROVE OneInside'
  <1> USE DEF MetricsIInv, MetricsTypeOK, OneInside, To
  <1>1. CASE UNCHANGED <<flusher, overlapped>>  BY <1>1
  <1>2. ASSUME NEW f \in Flushers, ShouldGenerateSummary(f) PROVE OneInside'
    BY <1>2 DEF ShouldGenerateSummary
  <1>3. ASSUME NEW f \in Flushers, GenerateSummary(f) PROVE OneInside'
    <2>1. flusher' = [flusher EXCEPT ![f] = "resetCounters"]
      BY <1>3, Zenon DEF GenerateSummary
    <2>2. ~overlapped' => \A g \in Flushers : flusher[g] \notin {"resetCounters", "resetMaps"}
      BY <1>3, Zenon DEF GenerateSummary, FlushAt
    <2> QED  BY <2>1, <2>2
  <1>4. ASSUME NEW f \in Flushers, ResetCounters(f) PROVE OneInside'
    BY <1>4 DEF ResetCounters, At
  <1>5. ASSUME NEW f \in Flushers, ResetMaps(f) PROVE OneInside'
    BY <1>5 DEF ResetMaps, At
  <1> QED
    BY <1>1, <1>2, <1>3, <1>4, <1>5, Zenon DEF CollectorNext, AddCounter, AddToMap, IntervalPasses

(* What was counted stays reported, in the counters, or counted during a flush. *)
LEMMA AddsUpNext == ASSUME MetricsIInv, CollectorNext PROVE AddsUp'
  <1> USE DEF MetricsIInv
  <1>t. /\ counters \in [Kinds -> Int] /\ counted \in [Kinds -> Int] /\ during \in [Kinds -> Int]
        /\ top \in [Kinds -> Int] /\ mapped \in [Kinds -> Int] /\ duringTop \in [Kinds -> Int]
        /\ reported \in [Kinds -> Int] /\ reportedTop \in [Kinds -> Int]
        /\ flusher \in [Flushers -> {"idle", "generate", "resetCounters", "resetMaps"}]
    BY DEF MetricsTypeOK
  <1>1. ASSUME NEW r \in Recorders, NEW k \in Kinds, AddCounter(r, k) PROVE AddsUp'
    <2>1. /\ counters' = Plus(counters, One(k, TRUE)) /\ counted' = Plus(counted, One(k, TRUE))
          /\ during' = Plus(during, One(k, Unreset))
          /\ UNCHANGED <<top, flusher, mapped, reported, reportedTop, duringTop, overlapped>>
      BY <1>1, Zenon DEF AddCounter, Unreset
    <2>2. Unreset' = Unreset /\ Inside' = Inside  BY <2>1 DEF Unreset, Inside, FlushAt
    <2>3. \A i \in Kinds : /\ counters'[i] = IF i = k THEN counters[i] + 1 ELSE counters[i]
                           /\ counted'[i] = IF i = k THEN counted[i] + 1 ELSE counted[i]
      BY <1>t, <2>1, PlusOneAt, ZenonT(30)
    <2>4. \A i \in Kinds : during'[i] = IF i = k /\ Unreset THEN during[i] + 1 ELSE during[i]
      <3>1. CASE Unreset
        <4>1. One(k, Unreset) = One(k, TRUE)  BY <3>1, Zenon DEF One
        <4>2. during' = Plus(during, One(k, TRUE))  BY <2>1, <4>1
        <4> QED  BY <1>t, <3>1, <4>2, PlusOneAt, ZenonT(30)
      <3>2. CASE ~Unreset
        <4>1. One(k, Unreset) = One(k, FALSE)  BY <3>2, Zenon DEF One
        <4>2. during' = Plus(during, One(k, FALSE))  BY <2>1, <4>1
        <4> QED  BY <1>t, <3>2, <4>2, PlusOneAt, ZenonT(30)
      <3> QED  BY <3>1, <3>2
    <2>5. ASSUME NEW i \in Kinds, ~overlapped PROVE CountedAddsUp(i)'
      <3>1. CountedAddsUp(i)  BY <2>5 DEF AddsUp
      <3>2. CASE i = k
        <4>1. counters'[i] = counters[i] + 1 /\ counted'[i] = counted[i] + 1 /\ reported'[i] = reported[i]
          BY <2>1, <2>3, <3>2
        <4>2. \A v \in {counters[i], counted[i], reported[i], during[i]} : v \in Int  BY <1>t
        <4>3. during'[i] = IF Unreset THEN during[i] + 1 ELSE during[i]  BY <2>4, <3>2
        <4> QED  BY <2>2, <3>1, <4>1, <4>2, <4>3 DEF CountedAddsUp
      <3>3. CASE i # k  BY <1>t, <2>1, <2>2, <2>3, <2>4, <3>1, <3>3 DEF CountedAddsUp
      <3> QED  BY <3>2, <3>3
    <2>6. ASSUME NEW i \in Kinds, ~overlapped PROVE MappedAddsUp(i)'
      <3>1. MappedAddsUp(i)  BY <2>6 DEF AddsUp
      <3> QED  BY <2>1, <2>2, <3>1 DEF MappedAddsUp
    <2> QED  BY <2>1, <2>5, <2>6 DEF AddsUp
  <1>2. ASSUME NEW r \in Recorders, AddToMap(r) PROVE AddsUp'
    <2> DEFINE k == recorder[r]
    <2>0. k \in Kinds  BY <1>2 DEF AddToMap, MetricsTypeOK
    <2>1. /\ top' = Plus(top, One(k, TRUE)) /\ mapped' = Plus(mapped, One(k, TRUE))
          /\ duringTop' = Plus(duringTop, One(k, Inside))
          /\ UNCHANGED <<counters, flusher, counted, reported, reportedTop, during, overlapped>>
      BY <1>2, Zenon DEF AddToMap, Inside
    <2>2. Unreset' = Unreset /\ Inside' = Inside  BY <2>1 DEF Unreset, Inside, FlushAt
    <2> HIDE DEF k
    <2>3. \A i \in Kinds : /\ top'[i] = IF i = k THEN top[i] + 1 ELSE top[i]
                           /\ mapped'[i] = IF i = k THEN mapped[i] + 1 ELSE mapped[i]
      BY <1>t, <2>0, <2>1, PlusOneAt, ZenonT(30)
    <2>4. \A i \in Kinds : duringTop'[i] = IF i = k /\ Inside THEN duringTop[i] + 1 ELSE duringTop[i]
      <3>1. CASE Inside
        <4>1. One(k, Inside) = One(k, TRUE)  BY <3>1, Zenon DEF One
        <4>2. duringTop' = Plus(duringTop, One(k, TRUE))  BY <2>1, <4>1
        <4> QED  BY <1>t, <2>0, <3>1, <4>2, PlusOneAt, ZenonT(30)
      <3>2. CASE ~Inside
        <4>1. One(k, Inside) = One(k, FALSE)  BY <3>2, Zenon DEF One
        <4>2. duringTop' = Plus(duringTop, One(k, FALSE))  BY <2>1, <4>1
        <4> QED  BY <1>t, <2>0, <3>2, <4>2, PlusOneAt, ZenonT(30)
      <3> QED  BY <3>1, <3>2
    <2>5. ASSUME NEW i \in Kinds, ~overlapped PROVE MappedAddsUp(i)'
      <3>1. MappedAddsUp(i)  BY <2>5 DEF AddsUp
      <3>2. CASE i = k
        <4>1. top'[i] = top[i] + 1 /\ mapped'[i] = mapped[i] + 1 /\ reportedTop'[i] = reportedTop[i]
          BY <2>1, <2>3, <3>2
        <4>2. \A v \in {top[i], mapped[i], reportedTop[i], duringTop[i]} : v \in Int  BY <1>t
        <4>3. duringTop'[i] = IF Inside THEN duringTop[i] + 1 ELSE duringTop[i]  BY <2>4, <3>2
        <4> QED  BY <2>2, <3>1, <4>1, <4>2, <4>3 DEF MappedAddsUp
      <3>3. CASE i # k  BY <1>t, <2>1, <2>2, <2>3, <2>4, <3>1, <3>3 DEF MappedAddsUp
      <3> QED  BY <3>2, <3>3
    <2>6. ASSUME NEW i \in Kinds, ~overlapped PROVE CountedAddsUp(i)'
      <3>1. CountedAddsUp(i)  BY <2>6 DEF AddsUp
      <3> QED  BY <2>1, <2>2, <3>1 DEF CountedAddsUp
    <2> QED  BY <2>1, <2>5, <2>6 DEF AddsUp
  <1>3. CASE IntervalPasses
    BY <1>3 DEF IntervalPasses, AddsUp, CountedAddsUp, MappedAddsUp, Unreset, Inside, FlushAt
  <1>4. ASSUME NEW f \in Flushers, ShouldGenerateSummary(f) PROVE AddsUp'
    <2>1. Unreset' = Unreset /\ Inside' = Inside
      BY <1>t, <1>4 DEF ShouldGenerateSummary, At, To, Unreset, Inside, FlushAt
    <2> QED  BY <1>4, <2>1 DEF ShouldGenerateSummary, AddsUp, CountedAddsUp, MappedAddsUp
  <1>5. ASSUME NEW f \in Flushers, GenerateSummary(f) PROVE AddsUp'
    <2>1. /\ reported' = Plus(reported, counters) /\ reportedTop' = Plus(reportedTop, top)
          /\ UNCHANGED <<counters, top, counted, mapped, during, duringTop>>
          /\ flusher' = [flusher EXCEPT ![f] = "resetCounters"]
      BY <1>5, Zenon DEF GenerateSummary, To
    <2>2. ~overlapped' => ~overlapped /\ ~Inside  BY <1>5, Zenon DEF GenerateSummary, Inside
    <2>3. ~Inside => ~Unreset  BY DEF Inside, Unreset, FlushAt
    <2>4. Unreset' /\ Inside'  BY <1>t, <2>1 DEF Inside, Unreset, FlushAt
    <2>5. \A k \in Kinds : /\ reported'[k] = reported[k] + counters[k]
                           /\ reportedTop'[k] = reportedTop[k] + top[k]
      BY <1>t, <2>1, PlusAt
    <2> QED  BY <1>t, <2>1, <2>2, <2>3, <2>4, <2>5 DEF AddsUp, CountedAddsUp, MappedAddsUp
  <1>6. ASSUME NEW f \in Flushers, ResetCounters(f) PROVE AddsUp'
    <2>1. /\ flusher[f] = "resetCounters" /\ flusher' = [flusher EXCEPT ![f] = "resetMaps"]
          /\ counters' = Zero
          /\ UNCHANGED <<top, counted, mapped, reported, reportedTop, during, duringTop, overlapped>>
      BY <1>6, Zenon DEF ResetCounters, At, To
    <2>2. Unreset /\ Inside /\ Inside'  BY <1>t, <2>1 DEF Inside, Unreset, FlushAt
    <2>3. \A k \in Kinds : counters'[k] = 0  BY <2>1 DEF Zero
    <2> QED  BY <1>t, <2>1, <2>2, <2>3 DEF AddsUp, CountedAddsUp, MappedAddsUp
  <1>7. ASSUME NEW f \in Flushers, ResetMaps(f) PROVE AddsUp'
    <2>1. /\ flusher[f] = "resetMaps" /\ flusher' = [flusher EXCEPT ![f] = "idle"]
          /\ top' = Zero
          /\ UNCHANGED <<counters, counted, mapped, reported, reportedTop, during, duringTop, overlapped>>
      BY <1>7, Zenon DEF ResetMaps, At, To
    <2>2. Inside /\ Unreset' = Unreset  BY <1>t, <2>1 DEF Inside, Unreset, FlushAt
    <2>3. \A k \in Kinds : top'[k] = 0  BY <2>1 DEF Zero
    <2> QED  BY <1>t, <2>1, <2>2, <2>3 DEF AddsUp, CountedAddsUp, MappedAddsUp
  <1> QED  BY <1>1, <1>2, <1>3, <1>4, <1>5, <1>6, <1>7, Zenon DEF CollectorNext

(* What is counted is reported once, or came in during a flush. *)
THEOREM SummariesAddUp == FlushSpec => []MetricsAddUp
  <1>1. FlushInit => MetricsIInv  BY MetricsInit DEF FlushInit
  <1>2. MetricsIInv /\ [FlushNext]_<<vars, collectorVars, followed>> => MetricsIInv'
    <2> SUFFICES ASSUME MetricsIInv, [FlushNext]_<<vars, collectorVars, followed>> PROVE MetricsIInv'
      OBVIOUS
    <2>1. CASE CollectorNext  BY <2>1, MetricsTypeOKNext, OneInsideNext, AddsUpNext DEF MetricsIInv
    <2>2. CASE UNCHANGED collectorVars
      BY <2>2 DEF collectorVars, MetricsIInv, MetricsTypeOK, OneInside, AddsUp, CountedAddsUp,
                  MappedAddsUp, Unreset, Inside, FlushAt
    <2> QED  BY <2>1, <2>2, Zenon DEF FlushNext
  <1>3. MetricsIInv => MetricsAddUp
    <2>1. ~Inside => ~Unreset  BY DEF Inside, Unreset, FlushAt
    <2> QED  BY <2>1 DEF MetricsIInv, AddsUp, CountedAddsUp, MappedAddsUp, MetricsAddUp, Inside
  <1> QED  BY <1>1, <1>2, <1>3, PTL DEF FlushSpec

-----------------------------------------------------------------------------
(* The audit buffer: what the folds over events come to.                   *)

(* The size of an event is positive. *)
LEMMA SizesAreNat ==
  ASSUME NEW es \in Seq(BufferedEvent), NEW k \in 1..Len(es)
  PROVE  es[k].size \in Nat \ {0}
  <1>1. es[k] \in BufferedEvent  OBVIOUS
  <1> QED  BY <1>1, TelemetryConstantsOK DEF BufferedEvent, TelemetryConstantsOK

(* The size of a sequence of events is summed up from the first on. *)
LEMMA SizeUnfolds ==
  ASSUME NEW es \in Seq(BufferedEvent)
  PROVE  \E h \in [0..Len(es) -> Nat] :
           /\ h[0] = 0 /\ \A k \in 1..Len(es) : h[k] = h[k - 1] + es[k].size
           /\ SizeOf(es) = h[Len(es)]
  <1> DEFINE n == Len(es)
             step == [k \in 1..n |-> [a \in Nat |-> a + es[k].size]]
             Unfolds(f) == f = [s \in SUBSET DOMAIN es |->
                                 IF s = {} THEN 0 ELSE f[s \ {Max(s)}] + es[Max(s)].size]
             iter == CHOOSE f : Unfolds(f)
  <1>1. \A k \in 1..n : es[k].size \in Nat  BY SizesAreNat
  <1>2. n \in Nat /\ DOMAIN es = 1..n  OBVIOUS
  <1>3. \E f : Unfolds(f)
    <2>1. step \in [1..n -> [Nat -> Nat]]  BY <1>1
    <2>2. PICK f \in [SUBSET (1..n) -> Nat] : Folds(f, n, 0, step)
      <3> HIDE DEF n, step
      <3> QED  BY <1>2, <2>1, FoldExists, 0 \in Nat
    <2>3. ASSUME NEW s \in SUBSET (1..n)
          PROVE  f[s] = IF s = {} THEN 0 ELSE f[s \ {Max(s)}] + es[Max(s)].size
      <3>1. f[s] = IF s = {} THEN 0 ELSE step[Max(s)][f[s \ {Max(s)}]]
        BY <2>2, Zenon DEF Folds
      <3>2. CASE s # {}
        <4>1. Max(s) \in 1..n  BY <1>2, <3>2, MaxIndex
        <4>2. f[s \ {Max(s)}] \in Nat  BY <2>2
        <4> QED  BY <3>1, <3>2, <4>1, <4>2
      <3> QED  BY <3>1, <3>2
    <2>4. f = [s \in SUBSET (1..n) |-> IF s = {} THEN 0 ELSE f[s \ {Max(s)}] + es[Max(s)].size]
      BY <2>2, <2>3
    <2> QED  BY <1>2, <2>4, Zenon
  <1>4. Unfolds(iter)
    <2> HIDE DEF Unfolds
    <2> QED  BY <1>3, Zenon
  <1>5. SizeOf(es) = iter[1..n]
    <2>1. SizeOf(es) = iter[DOMAIN es]  BY Zenon DEF SizeOf, FoldLeft, MapThenFoldSet
    <2> QED  BY <1>2, <2>1
  <1>6. \A s \in SUBSET (1..n) : iter[s] = IF s = {} THEN 0 ELSE iter[s \ {Max(s)}] + es[Max(s)].size
    <2> HIDE DEF iter
    <2> QED  BY <1>2, <1>4
  <1> HIDE DEF iter, Unfolds
  <1>7. iter[1..0] = 0
    <2>1. 1..0 = {} /\ {} \in SUBSET (1..n)  OBVIOUS
    <2> QED  BY <1>6, <2>1
  <1>8. ASSUME NEW k \in 1..n PROVE iter[1..k] = iter[1..(k - 1)] + es[k].size
    <2>1. Max(1..k) = k /\ (1..k) \ {k} = 1..(k - 1) /\ 1..k # {}  BY MaxUpTo, SMTT(30)
    <2>2. 1..k \in SUBSET (1..n)  OBVIOUS
    <2> QED  BY <1>6, <2>1, <2>2
  <1>9. \A k \in 0..n : iter[1..k] \in Nat
    <2> DEFINE S == {k \in 0..n : iter[1..k] \in Nat}
    <2>1. 0 \in S  BY <1>7
    <2>2. ASSUME NEW k \in 0..n, k \in S, k < n PROVE k + 1 \in S
      <3>1. iter[1..(k + 1)] = iter[1..k] + es[k + 1].size  BY <1>8, <2>2
      <3> QED  BY <1>1, <2>2, <3>1
    <2>3. 0..n \subseteq S
      <3> HIDE DEF S
      <3> QED  BY <1>2, <2>1, <2>2, UpTo
    <2> QED  BY <2>3
  <1> DEFINE h == [k \in 0..n |-> iter[1..k]]
  <1>10. h \in [0..n -> Nat] /\ h[0] = 0 /\ SizeOf(es) = h[n]  BY <1>2, <1>5, <1>7, <1>9
  <1>11. \A k \in 1..n : h[k] = h[k - 1] + es[k].size  BY <1>8
  <1> HIDE DEF h
  <1> QED  BY <1>10, <1>11

\* h is the sum so far at every index of es.
RunningSize(es, h) == h[0] = 0 /\ \A k \in 1..Len(es) : h[k] = h[k - 1] + es[k].size

(* There is one such function, and one size. *)
LEMMA SizeIs ==
  ASSUME NEW es \in Seq(BufferedEvent), NEW h, RunningSize(es, h)
  PROVE  SizeOf(es) = h[Len(es)]
  <1>1. PICK g \in [0..Len(es) -> Nat] : RunningSize(es, g) /\ SizeOf(es) = g[Len(es)]
    BY SizeUnfolds DEF RunningSize
  <1> DEFINE S == {k \in 0..Len(es) : h[k] = g[k]}
  <1>2. 0 \in S  BY <1>1 DEF RunningSize
  <1>3. ASSUME NEW k \in 0..Len(es), k \in S, k < Len(es) PROVE k + 1 \in S
    <2>1. k + 1 \in 1..Len(es) /\ (k + 1) - 1 = k  BY <1>3
    <2>2. h[k + 1] = h[k] + es[k + 1].size /\ g[k + 1] = g[k] + es[k + 1].size
      BY <1>1, <2>1 DEF RunningSize
    <2> QED  BY <1>3, <2>1, <2>2
  <1>4. 0..Len(es) \subseteq S
    <2>1. Len(es) \in Nat  OBVIOUS
    <2> HIDE DEF S
    <2> QED  BY <1>2, <1>3, <2>1, UpTo
  <1>5. Len(es) \in S  BY <1>4
  <1> QED  BY <1>1, <1>5

(* The sizes of a prefix and of the rest, from the running sum. *)
LEMMA SizeOfPart ==
  ASSUME NEW es \in Seq(BufferedEvent), NEW h \in [0..Len(es) -> Nat], RunningSize(es, h),
         NEW d \in 0..Len(es)
  PROVE  /\ SizeOf(SubSeq(es, 1, d)) = h[d]
         /\ SizeOf(SubSeq(es, d + 1, Len(es))) = h[Len(es)] - h[d]
  <1> DEFINE p == SubSeq(es, 1, d)
             q == SubSeq(es, d + 1, Len(es))
             g == [k \in 0..(Len(es) - d) |-> h[d + k] - h[d]]
  <1>1. p \in Seq(BufferedEvent) /\ Len(p) = d /\ \A k \in 1..d : p[k] = es[k]  OBVIOUS
  <1>2. /\ q \in Seq(BufferedEvent) /\ Len(q) = Len(es) - d
        /\ \A k \in 1..(Len(es) - d) : q[k] = es[d + k]
    OBVIOUS
  <1>3. RunningSize(p, h)  BY <1>1 DEF RunningSize
  <1>4. RunningSize(q, g)
    <2>1. g[0] = 0  BY h[d] \in Nat
    <2>2. ASSUME NEW k \in 1..(Len(es) - d) PROVE g[k] = g[k - 1] + q[k].size
      <3>1. d + k \in 1..Len(es) /\ (d + k) - 1 = d + (k - 1) /\ k - 1 \in 0..(Len(es) - d)  OBVIOUS
      <3>2. h[d + k] = h[d + (k - 1)] + es[d + k].size  BY <3>1 DEF RunningSize
      <3>3. es[d + k].size \in Nat  BY <3>1, SizesAreNat
      <3>4. h[d + (k - 1)] \in Nat /\ h[d] \in Nat  BY <3>1
      <3>5. g[k] = h[d + k] - h[d] /\ g[k - 1] = h[d + (k - 1)] - h[d]  BY <3>1
      <3>6. q[k].size = es[d + k].size  BY <1>2
      <3> HIDE DEF g, q
      <3> QED  BY <3>2, <3>3, <3>4, <3>5, <3>6
    <2> QED  BY <1>2, <2>1, <2>2 DEF RunningSize
  <1>5. SizeOf(p) = h[d]
    <2> HIDE DEF p
    <2> QED  BY <1>1, <1>3, SizeIs
  <1>6. SizeOf(q) = g[Len(es) - d]
    <2> HIDE DEF q, g
    <2> QED  BY <1>2, <1>4, SizeIs
  <1> QED  BY <1>5, <1>6

(* The size with an event more, and the sizes of what comes before a place and
   after it.                                                                *)
LEMMA SizeOfMore ==
  ASSUME NEW es \in Seq(BufferedEvent), NEW e \in BufferedEvent
  PROVE  SizeOf(Append(es, e)) = SizeOf(es) + e.size
  <1> DEFINE more == Append(es, e)
  <1>1. more \in Seq(BufferedEvent) /\ Len(more) = Len(es) + 1 /\ more[Len(es) + 1] = e
        /\ SubSeq(more, 1, Len(es)) = es /\ Len(es) \in Nat
    OBVIOUS
  <1> HIDE DEF more
  <1>2. PICK h \in [0..Len(more) -> Nat] : RunningSize(more, h) /\ SizeOf(more) = h[Len(more)]
    BY <1>1, SizeUnfolds DEF RunningSize
  <1>3. SizeOf(es) = h[Len(es)]
    <2>1. Len(es) \in 0..Len(more)  BY <1>1
    <2> QED  BY <1>1, <1>2, <2>1, SizeOfPart
  <1>4. h[Len(es) + 1] = h[Len(es)] + e.size
    <2>1. Len(es) + 1 \in 1..Len(more) /\ (Len(es) + 1) - 1 = Len(es)  BY <1>1
    <2> QED  BY <1>1, <1>2, <2>1 DEF RunningSize
  <1> QED  BY <1>1, <1>2, <1>3, <1>4 DEF more

(* Nothing has no size. *)
LEMMA SizeOfNone == SizeOf(<<>>) = 0
  <1>1. <<>> \in Seq(BufferedEvent) /\ Len(<<>>) = 0  OBVIOUS
  <1>2. RunningSize(<<>>, [k \in {0} |-> 0])  BY DEF RunningSize
  <1> QED  BY <1>1, <1>2, SizeIs

(* A sequence has the size of a prefix and of the rest. *)
LEMMA SizeSplits ==
  ASSUME NEW es \in Seq(BufferedEvent), NEW d \in 0..Len(es)
  PROVE  /\ SizeOf(es) \in Nat /\ SizeOf(SubSeq(es, 1, d)) \in Nat
         /\ SizeOf(SubSeq(es, d + 1, Len(es))) = SizeOf(es) - SizeOf(SubSeq(es, 1, d))
         /\ SizeOf(SubSeq(es, 1, d)) <= SizeOf(es)
         /\ d > 0 => SizeOf(SubSeq(es, 1, d)) = SizeOf(SubSeq(es, 1, d - 1)) + es[d].size
  <1>1. PICK h \in [0..Len(es) -> Nat] : RunningSize(es, h) /\ SizeOf(es) = h[Len(es)]
    BY SizeUnfolds DEF RunningSize
  <1>2. /\ SizeOf(SubSeq(es, 1, d)) = h[d]
        /\ SizeOf(SubSeq(es, d + 1, Len(es))) = h[Len(es)] - h[d]
    BY <1>1, SizeOfPart
  <1>3. SizeOf(SubSeq(es, d + 1, Len(es))) \in Nat
    <2>1. SubSeq(es, d + 1, Len(es)) \in Seq(BufferedEvent)  OBVIOUS
    <2>2. \A q \in Seq(BufferedEvent) : SizeOf(q) \in Nat
      <3> TAKE q \in Seq(BufferedEvent)
      <3>1. PICK g \in [0..Len(q) -> Nat] : SizeOf(q) = g[Len(q)]  BY SizeUnfolds
      <3> QED  BY <3>1
    <2> QED  BY <2>1, <2>2
  <1>4. ASSUME d > 0 PROVE SizeOf(SubSeq(es, 1, d)) = SizeOf(SubSeq(es, 1, d - 1)) + es[d].size
    <2>1. d - 1 \in 0..Len(es)  BY <1>4
    <2>2. SizeOf(SubSeq(es, 1, d - 1)) = h[d - 1]  BY <1>1, <2>1, SizeOfPart
    <2>3. h[d] = h[d - 1] + es[d].size  BY <1>1, <1>4 DEF RunningSize
    <2> QED  BY <1>2, <2>2, <2>3
  <1>5. h[d] \in Nat /\ h[Len(es)] \in Nat  OBVIOUS
  <1> QED  BY <1>1, <1>2, <1>3, <1>4, <1>5

\* h holds the events selected so far, at every index of es.
RunningStamped(es, times, h) ==
  /\ h[0] = <<>>
  /\ \A k \in 1..Len(es) :
       h[k] = IF es[k].timestamp \in times THEN Append(h[k - 1], es[k]) ELSE h[k - 1]

(* Stamped selects from the first event on. *)
LEMMA StampedUnfolds ==
  ASSUME NEW es \in Seq(BufferedEvent), NEW times
  PROVE  \E h \in [0..Len(es) -> Seq(BufferedEvent)] :
           RunningStamped(es, times, h) /\ Stamped(es, times) = h[Len(es)]
  <1> DEFINE n == Len(es)
             X == Seq(BufferedEvent)
             Taken(k, a) == IF es[k].timestamp \in times THEN Append(a, es[k]) ELSE a
             step == [k \in 1..n |-> [a \in X |-> Taken(k, a)]]
             Unfolds(f) == f = [s \in SUBSET DOMAIN es |->
                                 IF s = {} THEN <<>> ELSE Taken(Max(s), f[s \ {Max(s)}])]
             iter == CHOOSE f : Unfolds(f)
  <1>1. \A k \in 1..n, a \in X : Taken(k, a) \in X  OBVIOUS
  <1>2. n \in Nat /\ DOMAIN es = 1..n /\ <<>> \in X  OBVIOUS
  <1>3. Stamped(es, times) = iter[DOMAIN es]  BY Zenon DEF Stamped, FoldLeft, MapThenFoldSet
  <1> HIDE DEF Taken
  <1>4. \E f : Unfolds(f)
    <2>1. step \in [1..n -> [X -> X]]
      <3> HIDE DEF X, n
      <3> QED  BY <1>1
    <2>2. PICK f \in [SUBSET (1..n) -> X] : Folds(f, n, <<>>, step)
      <3> HIDE DEF n, step, X
      <3> QED  BY <1>2, <2>1, FoldExists
    <2>3. ASSUME NEW s \in SUBSET (1..n)
          PROVE  f[s] = IF s = {} THEN <<>> ELSE Taken(Max(s), f[s \ {Max(s)}])
      <3>1. f[s] = IF s = {} THEN <<>> ELSE step[Max(s)][f[s \ {Max(s)}]]
        BY <2>2, Zenon DEF Folds
      <3>2. CASE s # {}
        <4>1. Max(s) \in 1..n  BY <1>2, <3>2, MaxIndex
        <4>2. f[s \ {Max(s)}] \in X  BY <2>2
        <4> HIDE DEF X, n
        <4> QED  BY <3>1, <3>2, <4>1, <4>2
      <3> QED  BY <3>1, <3>2
    <2>4. f = [s \in SUBSET (1..n) |-> IF s = {} THEN <<>> ELSE Taken(Max(s), f[s \ {Max(s)}])]
      BY <2>2, <2>3
    <2> QED  BY <1>2, <2>4, Zenon
  <1>5. Unfolds(iter)
    <2> HIDE DEF Unfolds
    <2> QED  BY <1>4, Zenon
  <1>6. \A s \in SUBSET (1..n) : iter[s] = IF s = {} THEN <<>> ELSE Taken(Max(s), iter[s \ {Max(s)}])
    <2> HIDE DEF iter
    <2> QED  BY <1>2, <1>5
  <1> HIDE DEF iter, Unfolds
  <1>7. iter[1..0] = <<>>
    <2>1. 1..0 = {} /\ {} \in SUBSET (1..n)  OBVIOUS
    <2> QED  BY <1>6, <2>1
  <1>8. ASSUME NEW k \in 1..n PROVE iter[1..k] = Taken(k, iter[1..(k - 1)])
    <2>1. Max(1..k) = k /\ (1..k) \ {k} = 1..(k - 1) /\ 1..k # {}  BY MaxUpTo
    <2>2. 1..k \in SUBSET (1..n)  OBVIOUS
    <2> QED  BY <1>6, <2>1, <2>2
  <1>9. \A k \in 0..n : iter[1..k] \in X
    <2> DEFINE S == {k \in 0..n : iter[1..k] \in X}
    <2>1. 0 \in S
      <3>1. iter[1..0] \in X
        <4> HIDE DEF X
        <4> QED  BY <1>2, <1>7
      <3> QED  BY <1>2, <3>1
    <2>2. ASSUME NEW k \in 0..n, k \in S, k < n PROVE k + 1 \in S
      <3>1. k + 1 \in 1..n /\ (k + 1) - 1 = k  BY <2>2
      <3>2. iter[1..(k + 1)] = Taken(k + 1, iter[1..k])  BY <1>8, <3>1
      <3>3. iter[1..k] \in X  BY <2>2
      <3>4. iter[1..(k + 1)] \in X
        <4> HIDE DEF X, n
        <4> QED  BY <1>1, <3>1, <3>2, <3>3
      <3> QED  BY <3>1, <3>4
    <2>3. 0..n \subseteq S
      <3> HIDE DEF S
      <3> QED  BY <1>2, <2>1, <2>2, UpTo
    <2> QED  BY <2>3
  <1> DEFINE h == [k \in 0..n |-> iter[1..k]]
  <1>10. h \in [0..n -> X] /\ h[0] = <<>> /\ Stamped(es, times) = h[n]  BY <1>2, <1>3, <1>7, <1>9
  <1>11. \A k \in 1..n : h[k] = Taken(k, h[k - 1])  BY <1>8
  <1>12. RunningStamped(es, times, h)
    <2> HIDE DEF h
    <2> QED  BY <1>10, <1>11 DEF RunningStamped, Taken
  <1> HIDE DEF h
  <1> QED  BY <1>10, <1>12

IdsIncrease(es) == \A i, j \in DOMAIN es : i < j => es[i].id < es[j].id

Elements(es) == {es[i] : i \in DOMAIN es}

(* What Stamped selects: the events with such a stamp and no other, in their
   order, and no more in number or in size.                                 *)
LEMMA StampedIs ==
  ASSUME NEW es \in Seq(BufferedEvent), IdsIncrease(es), NEW times
  PROVE  /\ Stamped(es, times) \in Seq(BufferedEvent)
         /\ Len(Stamped(es, times)) <= Len(es) /\ SizeOf(Stamped(es, times)) <= SizeOf(es)
         /\ IdsIncrease(Stamped(es, times))
         /\ Elements(Stamped(es, times)) = {e \in Elements(es) : e.timestamp \in times}
  <1> DEFINE n == Len(es)
             Upto(k) == {es[j] : j \in {i \in 1..k : es[i].timestamp \in times}}
  <1>1. PICK h \in [0..n -> Seq(BufferedEvent)] :
          RunningStamped(es, times, h) /\ Stamped(es, times) = h[n]
    BY StampedUnfolds
  <1> DEFINE P(k) == /\ Len(h[k]) <= k /\ SizeOf(h[k]) <= SizeOf(SubSeq(es, 1, k))
                     /\ IdsIncrease(h[k]) /\ Elements(h[k]) = Upto(k)
             S == {k \in 0..n : P(k)}
  <1>2. 0 \in S
    <2>1. h[0] = <<>> /\ SubSeq(es, 1, 0) = <<>>  BY <1>1 DEF RunningStamped
    <2>2. Elements(h[0]) = Upto(0)  BY <2>1 DEF Elements
    <2>3. IdsIncrease(h[0])  BY <2>1 DEF IdsIncrease
    <2>4. SizeOf(h[0]) <= SizeOf(SubSeq(es, 1, 0))  BY <2>1, SizeOfNone
    <2> QED  BY <2>1, <2>2, <2>3, <2>4
  <1>3. ASSUME NEW k \in 0..n, k \in S, k < n PROVE k + 1 \in S
    <2>1. k + 1 \in 1..n /\ (k + 1) - 1 = k  BY <1>3
    <2>2. P(k)  BY <1>3
    <2>3. SizeOf(SubSeq(es, 1, k + 1)) = SizeOf(SubSeq(es, 1, k)) + es[k + 1].size
      <3>1. k + 1 \in 0..Len(es) /\ k + 1 > 0  BY <2>1
      <3> QED  BY <2>1, <3>1, SizeSplits
    <2>4. /\ es[k + 1] \in BufferedEvent /\ es[k + 1].size \in Nat /\ h[k] \in Seq(BufferedEvent)
          /\ SizeOf(SubSeq(es, 1, k)) \in Nat
      <3>1. es[k + 1] \in BufferedEvent /\ h[k] \in Seq(BufferedEvent)  BY <2>1
      <3>2. es[k + 1].size \in Nat  BY <2>1, SizesAreNat
      <3>3. SizeOf(SubSeq(es, 1, k)) \in Nat  BY SizeSplits
      <3> QED  BY <3>1, <3>2, <3>3
    <2>5. SizeOf(h[k]) \in Nat
      <3>1. 0 \in 0..Len(h[k])  BY <2>4
      <3> QED  BY <2>4, <3>1, SizeSplits
    <2>6. CASE es[k + 1].timestamp \in times
      <3> DEFINE e == es[k + 1]
      <3>1. h[k + 1] = Append(h[k], e)  BY <1>1, <2>1, <2>6 DEF RunningStamped
      <3>2. Len(h[k + 1]) <= k + 1  BY <2>2, <2>4, <3>1
      <3>3. SizeOf(h[k + 1]) = SizeOf(h[k]) + e.size  BY <2>4, <3>1, SizeOfMore
      <3>4. SizeOf(h[k + 1]) <= SizeOf(SubSeq(es, 1, k + 1))  BY <2>2, <2>3, <2>4, <2>5, <3>3
      <3>5. \A i \in DOMAIN h[k] : h[k][i].id < e.id
        <4> SUFFICES ASSUME NEW i \in DOMAIN h[k] PROVE h[k][i].id < e.id  OBVIOUS
        <4>1. h[k][i] \in Upto(k)  BY <2>2 DEF Elements
        <4>2. PICK j \in 1..k : h[k][i] = es[j]  BY <4>1
        <4> QED  BY <2>1, <4>2 DEF IdsIncrease
      <3>6. IdsIncrease(h[k + 1])
        <4> SUFFICES ASSUME NEW i \in DOMAIN h[k + 1], NEW j \in DOMAIN h[k + 1], i < j
                     PROVE  h[k + 1][i].id < h[k + 1][j].id
          BY DEF IdsIncrease
        <4>1. i \in DOMAIN h[k] /\ h[k + 1][i] = h[k][i]  BY <2>4, <3>1
        <4>2. \/ j \in DOMAIN h[k] /\ h[k + 1][j] = h[k][j]
              \/ h[k + 1][j] = e
          BY <2>4, <3>1
        <4> QED  BY <2>2, <3>5, <4>1, <4>2 DEF IdsIncrease
      <3>7. Elements(h[k + 1]) = Elements(h[k]) \cup {e}
        <4>1. DOMAIN h[k + 1] = 1..(Len(h[k]) + 1) /\ DOMAIN h[k] = 1..Len(h[k])
              /\ h[k + 1][Len(h[k]) + 1] = e /\ \A i \in 1..Len(h[k]) : h[k + 1][i] = h[k][i]
          BY <2>4, <3>1
        <4>2. Len(h[k]) \in Nat  BY <2>4
        <4> QED  BY <4>1, <4>2, SMTT(20) DEF Elements
      <3>8. Upto(k + 1) = Upto(k) \cup {e}  BY <2>1, <2>6
      <3> HIDE DEF Upto, e
      <3>9. P(k + 1)  BY <2>2, <3>2, <3>4, <3>6, <3>7, <3>8
      <3> QED  BY <2>1, <3>9
    <2>7. CASE es[k + 1].timestamp \notin times
      <3>1. h[k + 1] = h[k]  BY <1>1, <2>1, <2>7 DEF RunningStamped
      <3>2. Upto(k + 1) = Upto(k)  BY <2>1, <2>7
      <3>3. SizeOf(h[k + 1]) <= SizeOf(SubSeq(es, 1, k + 1))  BY <2>2, <2>3, <2>4, <2>5, <3>1
      <3>4. Len(h[k + 1]) <= k + 1  BY <2>2, <2>4, <3>1
      <3> HIDE DEF Upto
      <3>5. P(k + 1)  BY <2>2, <3>1, <3>2, <3>3, <3>4
      <3> QED  BY <2>1, <3>5
    <2> QED  BY <2>6, <2>7
  <1>4. n \in S
    <2>1. n \in Nat  OBVIOUS
    <2> HIDE DEF S, n
    <2>2. 0..n \subseteq S  BY <1>2, <1>3, <2>1, UpTo
    <2> QED  BY <2>1, <2>2
  <1>5. SubSeq(es, 1, n) = es  OBVIOUS
  <1>6. Upto(n) = {e \in Elements(es) : e.timestamp \in times}  BY DEF Elements
  <1> HIDE DEF Upto
  <1> QED  BY <1>1, <1>4, <1>5, <1>6

(* What recordEvent keeps: the events after some place, and an event more would
   not fit.                                                                 *)
LEMMA KeptIs ==
  ASSUME events \in Seq(BufferedEvent), currentSize = SizeOf(events), NEW size \in Nat
  PROVE  \E d \in 0..Len(events) :
           /\ Kept(size) = SubSeq(events, d + 1, Len(events))
           /\ d = Len(events) \/ SizeOf(Kept(size)) + size <= MaxSizeBytes
           /\ d > 0 => SizeOf(Kept(size)) + events[d].size + size > MaxSizeBytes
  <1> DEFINE n == Len(events)
             without(d) == currentSize - SizeOf(SubSeq(events, 1, d))
             enough == {d \in 0..n : d = n \/ without(d) + size <= MaxSizeBytes}
             m == Min(enough)
  <1>1. m \in enough /\ \A d \in enough : m <= d
    <2>1. n \in Nat /\ enough \subseteq Nat /\ n \in enough  OBVIOUS
    <2> HIDE DEF enough, n
    <2>2. \E x \in enough : \A y \in enough : x <= y  BY <2>1, LeastMember
    <2> QED  BY <2>2, Zenon DEF Min
  <1>2. Kept(size) = SubSeq(events, m + 1, n)  BY Zenon DEF Kept
  <1> HIDE DEF m
  <1>3. m \in 0..n  BY <1>1
  <1>4. SizeOf(Kept(size)) = without(m)  BY <1>2, <1>3, SizeSplits
  <1>5. m = n \/ SizeOf(Kept(size)) + size <= MaxSizeBytes  BY <1>1, <1>4
  <1>6. ASSUME m > 0 PROVE SizeOf(Kept(size)) + events[m].size + size > MaxSizeBytes
    <2>1. m - 1 \in 0..n /\ m - 1 # n  BY <1>3, <1>6
    <2>2. m - 1 \notin enough
      <3> HIDE DEF enough
      <3> QED  BY <1>1, <1>3
    <2>3. ~(without(m - 1) + size <= MaxSizeBytes)  BY <2>1, <2>2
    <2>4. SizeOf(SubSeq(events, 1, m)) = SizeOf(SubSeq(events, 1, m - 1)) + events[m].size
      BY <1>3, <1>6, SizeSplits
    <2>5. events[m].size \in Nat  BY <1>3, <1>6, SizesAreNat
    <2>6. /\ currentSize \in Nat /\ SizeOf(SubSeq(events, 1, m)) \in Nat
          /\ SizeOf(SubSeq(events, 1, m - 1)) \in Nat
      BY <1>3, <2>1, SizeSplits
    <2>7. without(m - 1) + size > MaxSizeBytes
      BY <2>3, <2>6, TelemetryConstantsOK DEF TelemetryConstantsOK
    <2>8. without(m) + events[m].size = without(m - 1)  BY <2>4, <2>5, <2>6, SMTT(30)
    <2> HIDE DEF without
    <2> QED  BY <1>4, <2>7, <2>8
  <1> QED  BY <1>2, <1>3, <1>5, <1>6

-----------------------------------------------------------------------------
(* The audit buffer: the inductive invariant.                              *)

\* The ids of the events that are buffered go up to the number of the last one
\* recorded, and no later one has been handed out.
IdsAreOld ==
  /\ IdsIncrease(events)
  /\ \A i \in DOMAIN events : events[i].id <= recorded
  /\ ToSet(delivered) \subseteq 1..recorded

AuditIInv == TypeOK /\ SizeIsAccounted /\ IdsAreOld /\ DeliveredOnce /\ OldestDropped

(* Handing out events that were not handed out before. *)
LEMMA HandOut ==
  ASSUME NEW ids \in Seq(1..MaxEvents), IsInjective(ids),
         NEW es \in Seq(BufferedEvent), IdsIncrease(es), ToSet(ids) \cap Ids(es) = {}
  PROVE  LET new == ids \o [i \in DOMAIN es |-> es[i].id]
         IN  /\ new \in Seq(1..MaxEvents) /\ IsInjective(new)
             /\ ToSet(new) = ToSet(ids) \cup Ids(es)
  <1> DEFINE more == [i \in DOMAIN es |-> es[i].id]
             new == ids \o more
  <1>1. more \in Seq(1..MaxEvents) /\ Len(more) = Len(es) /\ DOMAIN more = 1..Len(es)
        /\ Len(es) \in Nat /\ Len(ids) \in Nat
    <2>1. \A i \in DOMAIN es : es[i] \in BufferedEvent  OBVIOUS
    <2>2. \A i \in DOMAIN es : es[i].id \in 1..MaxEvents  BY <2>1 DEF BufferedEvent
    <2>3. DOMAIN es = 1..Len(es) /\ Len(es) \in Nat /\ Len(ids) \in Nat  OBVIOUS
    <2>4. more \in [1..Len(es) -> 1..MaxEvents]  BY <2>2, <2>3
    <2> HIDE DEF more
    <2>5. more \in Seq(1..MaxEvents) /\ Len(more) = Len(es) /\ DOMAIN more = 1..Len(es)
      BY <2>3, <2>4, FunctionIsSeq
    <2> QED  BY <2>3, <2>5
  <1>2. \A i \in 1..Len(es) : more[i] = es[i].id  OBVIOUS
  <1>3. Ids(es) = {more[i] : i \in 1..Len(es)}
    <2>1. DOMAIN es = 1..Len(es)  OBVIOUS
    <2> HIDE DEF more
    <2> QED  BY <1>2, <2>1 DEF Ids
  <1> HIDE DEF more
  <1>4. /\ new \in Seq(1..MaxEvents) /\ Len(new) = Len(ids) + Len(es)
        /\ DOMAIN ids = 1..Len(ids) /\ DOMAIN new = 1..(Len(ids) + Len(es))
        /\ \A i \in 1..Len(ids) : new[i] = ids[i]
        /\ \A i \in 1..Len(es) : new[Len(ids) + i] = more[i]
    BY <1>1
  <1> HIDE DEF new
  <1>5. ToSet(new) = ToSet(ids) \cup Ids(es)
    <2>1. ASSUME NEW k \in DOMAIN new PROVE new[k] \in ToSet(ids) \cup Ids(es)
      <3>1. CASE k <= Len(ids)  BY <1>1, <1>4, <3>1 DEF ToSet
      <3>2. CASE k > Len(ids)
        <4>1. k - Len(ids) \in 1..Len(es) /\ k = Len(ids) + (k - Len(ids))  BY <1>1, <1>4, <3>2
        <4>2. new[k] = more[k - Len(ids)]  BY <1>4, <4>1
        <4> QED  BY <1>3, <4>1, <4>2
      <3> QED  BY <1>1, <1>4, <3>1, <3>2
    <2>2. ToSet(ids) \subseteq ToSet(new)  BY <1>1, <1>4 DEF ToSet
    <2>3. ASSUME NEW i \in 1..Len(es) PROVE more[i] \in ToSet(new)
      <3>1. Len(ids) + i \in DOMAIN new  BY <1>1, <1>4
      <3> QED  BY <1>4, <3>1 DEF ToSet
    <2>4. ToSet(new) \subseteq ToSet(ids) \cup Ids(es)  BY <2>1 DEF ToSet
    <2> QED  BY <1>3, <2>2, <2>3, <2>4
  <1>6. ASSUME NEW a \in DOMAIN new, NEW b \in DOMAIN new, new[a] = new[b] PROVE a = b
    <2>1. ASSUME NEW k \in DOMAIN new, k > Len(ids)
          PROVE  k - Len(ids) \in 1..Len(es) /\ new[k] = es[k - Len(ids)].id /\ new[k] \in Ids(es)
      <3>1. k - Len(ids) \in 1..Len(es) /\ k = Len(ids) + (k - Len(ids))  BY <1>1, <1>4, <2>1
      <3>2. new[k] = more[k - Len(ids)]  BY <1>4, <3>1
      <3> QED  BY <1>2, <1>3, <3>1, <3>2
    <2>2. ASSUME NEW k \in DOMAIN new, k <= Len(ids)
          PROVE  k \in DOMAIN ids /\ new[k] = ids[k] /\ new[k] \in ToSet(ids)
      BY <1>1, <1>4, <2>2 DEF ToSet
    <2>3. CASE a <= Len(ids) /\ b <= Len(ids)  BY <1>6, <2>2, <2>3 DEF IsInjective
    <2>4. CASE a > Len(ids) /\ b > Len(ids)
      <3>1. es[a - Len(ids)].id = es[b - Len(ids)].id  BY <1>6, <2>1, <2>4
      <3>2. \A i \in 1..Len(es) : es[i].id \in Int
        <4>1. \A i \in 1..Len(es) : es[i] \in BufferedEvent  OBVIOUS
        <4> QED  BY <4>1 DEF BufferedEvent
      <3>3. a - Len(ids) = b - Len(ids)
        <4>1. a - Len(ids) \in 1..Len(es) /\ b - Len(ids) \in 1..Len(es)  BY <2>1, <2>4
        <4>2. ~(a - Len(ids) < b - Len(ids)) /\ ~(b - Len(ids) < a - Len(ids))
          BY <3>1, <3>2, <4>1 DEF IdsIncrease
        <4> QED  BY <1>1, <4>1, <4>2
      <3> QED  BY <1>1, <1>4, <3>3
    <2>5. ~(a <= Len(ids) /\ b > Len(ids)) /\ ~(b <= Len(ids) /\ a > Len(ids))
      BY <1>6, <2>1, <2>2
    <2> QED  BY <1>1, <1>4, <2>3, <2>4, <2>5
  <1> QED  BY <1>4, <1>5, <1>6 DEF IsInjective, more, new

(* The empty buffer satisfies the invariant. *)
LEMMA AuditInit == ASSUME Init PROVE AuditIInv
  <1> USE DEF Init
  <1>1. TypeOK  BY TelemetryConstantsOK DEF TelemetryConstantsOK, TypeOK
  <1>2. SizeIsAccounted  BY SizeOfNone, TelemetryConstantsOK DEF SizeIsAccounted, TelemetryConstantsOK
  <1>3. IdsAreOld  BY DEF IdsAreOld, IdsIncrease, ToSet
  <1>4. DeliveredOnce  BY DEF DeliveredOnce, IsInjective, ToSet
  <1>5. OldestDropped  BY DEF OldestDropped
  <1> QED  BY <1>1, <1>2, <1>3, <1>4, <1>5 DEF AuditIInv

(* recordEvent: what becomes of the buffer. *)
LEMMA RecordSteps ==
  ASSUME AuditIInv, NEW size \in Sizes, RecordEvent(size)
  PROVE  \/ events # <<>> /\ events' = <<>> /\ currentSize' = 0
         \/ \E d \in 0..Len(events) :
              /\ events' = Append(SubSeq(events, d + 1, Len(events)),
                                  [id |-> recorded + 1, size |-> size, timestamp |-> now])
              /\ currentSize' = SizeOf(SubSeq(events, d + 1, Len(events))) + size
              /\ d = Len(events) \/ currentSize' <= MaxSizeBytes
              /\ d > 0 => currentSize' + events[d].size > MaxSizeBytes
  <1>1. /\ events \in Seq(BufferedEvent) /\ currentSize = SizeOf(events) /\ size \in Nat
        /\ currentSize \in Nat
    BY TelemetryConstantsOK DEF TelemetryConstantsOK, AuditIInv, TypeOK, SizeIsAccounted
  <1>2. CASE size > MaxSizeBytes /\ events # <<>>
    <2>1. events' = <<>> /\ currentSize' = currentSize - SizeOf(events)
      BY <1>2, Zenon DEF RecordEvent
    <2> QED  BY <1>1, <1>2, <2>1
  <1>3. CASE ~(size > MaxSizeBytes /\ events # <<>>)
    <2>1. /\ events' = Append(Kept(size), [id |-> recorded + 1, size |-> size, timestamp |-> now])
          /\ currentSize' = currentSize - (SizeOf(events) - SizeOf(Kept(size))) + size
      BY <1>3, Zenon DEF RecordEvent
    <2>2. PICK d \in 0..Len(events) :
            /\ Kept(size) = SubSeq(events, d + 1, Len(events))
            /\ d = Len(events) \/ SizeOf(Kept(size)) + size <= MaxSizeBytes
            /\ d > 0 => SizeOf(Kept(size)) + events[d].size + size > MaxSizeBytes
      BY <1>1, KeptIs
    <2>3. SizeOf(Kept(size)) \in Nat  BY <1>1, <2>2, SizeSplits
    <2>4. currentSize' = SizeOf(Kept(size)) + size  BY <1>1, <2>1, <2>3
    <2>5. d > 0 => currentSize' + events[d].size > MaxSizeBytes
      <3> SUFFICES ASSUME d > 0 PROVE currentSize' + events[d].size > MaxSizeBytes  OBVIOUS
      <3>1. events[d].size \in Nat  BY <1>1, SizesAreNat
      <3> QED  BY <1>1, <2>2, <2>3, <2>4, <3>1, SMTT(30)
    <2>6. d = Len(events) \/ currentSize' <= MaxSizeBytes  BY <2>2, <2>4
    <2>7. currentSize' = SizeOf(SubSeq(events, d + 1, Len(events))) + size  BY <2>2, <2>4
    <2> QED  BY <2>1, <2>2, <2>5, <2>6, <2>7
  <1> QED  BY <1>2, <1>3

(* recordEvent appends the new event to what it keeps of the old ones. *)
LEMMA RecordedIs ==
  ASSUME NEW es \in Seq(BufferedEvent), NEW d \in 0..Len(es), NEW e \in BufferedEvent
  PROVE  LET new == Append(SubSeq(es, d + 1, Len(es)), e)
         IN
         /\ new \in Seq(BufferedEvent) /\ DOMAIN new = 1..(Len(es) - d + 1)
         /\ new[Len(es) - d + 1] = e
         /\ \A i \in 1..(Len(es) - d) : d + i \in 1..Len(es) /\ new[i] = es[d + i]
         /\ Ids(new) = {es[i].id : i \in (d + 1)..Len(es)} \cup {e.id}
  <1> DEFINE n == Len(es)
             q == SubSeq(es, d + 1, n)
             new == Append(SubSeq(es, d + 1, Len(es)), e)
  <1>1. n \in Nat /\ d \in Int  OBVIOUS
  <1>2. /\ q \in Seq(BufferedEvent) /\ Len(q) = n - d
        /\ \A i \in 1..(n - d) : d + i \in 1..n /\ q[i] = es[d + i]
    OBVIOUS
  <1>3. new = Append(q, e)  OBVIOUS
  <1> HIDE DEF q, new
  <1>4. /\ new \in Seq(BufferedEvent) /\ DOMAIN new = 1..(n - d + 1)
        /\ new[n - d + 1] = e
        /\ \A i \in 1..(n - d) : d + i \in 1..n /\ new[i] = es[d + i]
    <2>1. n - d \in Nat  BY <1>1
    <2>2. /\ new \in Seq(BufferedEvent) /\ Len(new) = Len(q) + 1 /\ DOMAIN new = 1..(Len(q) + 1)
          /\ new[Len(q) + 1] = e
          /\ \A i \in 1..Len(q) : new[i] = q[i]
      <3>1. Len(q) \in Nat /\ DOMAIN q = 1..Len(q)  BY <1>2
      <3>2. new \in Seq(BufferedEvent) /\ Len(new) = Len(q) + 1  BY <1>2, <1>3
      <3>3. new[Len(q) + 1] = e /\ \A i \in 1..Len(q) : new[i] = q[i]  BY <1>2, <1>3
      <3> QED  BY <3>1, <3>2, <3>3
    <2> HIDE DEF n
    <2> QED  BY <1>2, <2>1, <2>2
  <1>5. \A i \in DOMAIN new : new[i].id \in {es[j].id : j \in (d + 1)..n} \cup {e.id}
    <2> SUFFICES ASSUME NEW i \in DOMAIN new
                 PROVE  new[i].id \in {es[j].id : j \in (d + 1)..n} \cup {e.id}
      OBVIOUS
    <2>1. CASE i = n - d + 1  BY <1>4, <2>1
    <2>2. CASE i # n - d + 1
      <3>1. i \in 1..(n - d + 1)  BY <1>4
      <3>2. i \in 1..(n - d) /\ d + i \in (d + 1)..n
        <4> HIDE DEF n
        <4> QED  BY <1>1, <2>2, <3>1
      <3> QED  BY <1>4, <3>2
    <2> QED  BY <2>1, <2>2
  <1>6. \A j \in (d + 1)..n : es[j].id \in Ids(new)
    <2> SUFFICES ASSUME NEW j \in (d + 1)..n PROVE es[j].id \in Ids(new)  OBVIOUS
    <2>1. j - d \in 1..(n - d) /\ d + (j - d) = j /\ j - d \in DOMAIN new  BY <1>1, <1>4
    <2>2. new[j - d] = es[j]  BY <1>4, <2>1
    <2> QED  BY <2>1, <2>2 DEF Ids
  <1>7. e.id \in Ids(new)
    <2>1. n - d + 1 \in DOMAIN new  BY <1>1, <1>4
    <2> QED  BY <1>4, <2>1 DEF Ids
  <1> QED  BY <1>4, <1>5, <1>6, <1>7, ZenonT(40) DEF Ids, new

(* An event is recorded: it is the newest, and older ones make room for it. *)
LEMMA RecordAuditIInv ==
  ASSUME AuditIInv, recorded < MaxEvents, UNCHANGED <<now, flushes>>, NEW size \in Sizes, RecordEvent(size)
  PROVE  AuditIInv'
  <1> DEFINE n == Len(events)
             e == [id |-> recorded + 1, size |-> size, timestamp |-> now]
  <1>1. recorded' = recorded + 1 /\ UNCHANGED delivered  BY DEF RecordEvent
  <1>2. /\ events \in Seq(BufferedEvent) /\ recorded \in Nat /\ n \in Nat
        /\ recorded + 1 \in 1..MaxEvents /\ e \in BufferedEvent /\ size \in Nat
    BY TelemetryConstantsOK DEF TelemetryConstantsOK, AuditIInv, TypeOK, BufferedEvent
  <1>3. ToSet(delivered') \subseteq 1..recorded'
    BY <1>1, <1>2 DEF AuditIInv, IdsAreOld
  <1>4. CASE events # <<>> /\ events' = <<>> /\ currentSize' = 0
    <2>1. Ids(events') = {}  BY <1>4 DEF Ids
    <2>2. TypeOK'  BY <1>1, <1>2, <1>4 DEF AuditIInv, TypeOK
    <2>3. SizeIsAccounted'
      BY <1>4, SizeOfNone, TelemetryConstantsOK DEF SizeIsAccounted, TelemetryConstantsOK
    <2>4. IdsAreOld'  BY <1>3, <1>4 DEF IdsAreOld, IdsIncrease
    <2>5. DeliveredOnce'  BY <1>1, <2>1 DEF AuditIInv, DeliveredOnce
    <2>6. OldestDropped'  BY <2>1 DEF OldestDropped
    <2> QED  BY <2>2, <2>3, <2>4, <2>5, <2>6 DEF AuditIInv
  <1>5. ASSUME NEW d \in 0..n,
               events' = Append(SubSeq(events, d + 1, n), e),
               currentSize' = SizeOf(SubSeq(events, d + 1, n)) + size,
               d = n \/ currentSize' <= MaxSizeBytes
        PROVE  AuditIInv'
    <2> DEFINE q == SubSeq(events, d + 1, n)
    <2>1. q \in Seq(BufferedEvent)  BY <1>2
    <2>2. /\ events' \in Seq(BufferedEvent) /\ DOMAIN events' = 1..(n - d + 1)
          /\ events'[n - d + 1] = e
          /\ \A i \in 1..(n - d) : d + i \in 1..n /\ events'[i] = events[d + i]
          /\ Ids(events') = {events[i].id : i \in (d + 1)..n} \cup {e.id}
      <3>1. events \in Seq(BufferedEvent) /\ e \in BufferedEvent  BY <1>2
      <3>2. d \in 0..Len(events) /\ events' = Append(SubSeq(events, d + 1, Len(events)), e)  BY <1>5
      <3> HIDE DEF e
      <3> DEFINE new == Append(SubSeq(events, d + 1, Len(events)), e)
      <3>3. /\ new \in Seq(BufferedEvent) /\ DOMAIN new = 1..(Len(events) - d + 1)
            /\ new[Len(events) - d + 1] = e
            /\ \A i \in 1..(Len(events) - d) : d + i \in 1..Len(events) /\ new[i] = events[d + i]
            /\ Ids(new) = {events[i].id : i \in (d + 1)..Len(events)} \cup {e.id}
        BY <3>1, <3>2, RecordedIs
      <3>4. events' = new  BY <3>2
      <3> HIDE DEF new
      <3> QED  BY <3>3, <3>4
    <2> HIDE DEF q
    <2>3. \A i \in 1..n : events[i].id \in 1..MaxEvents /\ events[i].id <= recorded
      <3>1. \A i \in 1..n : events[i] \in BufferedEvent  BY <1>2
      <3> QED  BY <1>2, <3>1, SMTT(30) DEF BufferedEvent, AuditIInv, IdsAreOld
    <2>4. Ids(events') = {events[i].id : i \in (d + 1)..n} \cup {recorded + 1}  BY <2>2
    <2>5. TypeOK'
      <3>1. currentSize' \in Nat
        <4>1. SizeOf(SubSeq(events, d + 1, n)) \in Nat
          <5>1. 0 \in 0..Len(q)  BY <1>2, <2>1
          <5> QED  BY <2>1, <5>1, SizeSplits DEF q
        <4> QED  BY <1>2, <1>5, <4>1
      <3> QED  BY <1>1, <1>2, <2>2, <3>1 DEF AuditIInv, TypeOK
    <2>6. SizeIsAccounted'
      <3>1. SizeOf(events') = SizeOf(q) + size  BY <1>2, <1>5, <2>1, SizeOfMore DEF q
      <3>2. currentSize' = SizeOf(events')  BY <1>5, <3>1 DEF q
      <3>3. d = n => Len(events') = 1  BY <1>2, <2>2
      <3>4. currentSize' \in Nat /\ MaxSizeBytes \in Nat
        BY <2>5, TelemetryConstantsOK DEF TypeOK, TelemetryConstantsOK
      <3> QED  BY <1>5, <3>2, <3>3, <3>4 DEF SizeIsAccounted
    <2>7. IdsAreOld'
      <3>1. IdsIncrease(events')
        <4> SUFFICES ASSUME NEW i \in DOMAIN events', NEW j \in DOMAIN events', i < j
                     PROVE  events'[i].id < events'[j].id
          BY DEF IdsIncrease
        <4>1. i \in 1..(n - d) /\ events'[i] = events[d + i] /\ d + i \in 1..n  BY <1>2, <2>2
        <4>2. CASE j = n - d + 1  BY <1>2, <2>2, <2>3, <4>1, <4>2
        <4>3. CASE j # n - d + 1
          <5>0. j \in 1..(n - d) /\ d + i < d + j
            <6>1. j \in 1..(n - d + 1) /\ n - d \in Int /\ i \in Int /\ d \in Int  BY <1>2, <2>2, <4>1
            <6>2. i < j /\ j # n - d + 1  BY <4>3
            <6> HIDE DEF n
            <6> QED  BY <6>1, <6>2
          <5>1. events'[j] = events[d + j] /\ d + j \in 1..n  BY <2>2, <5>0
          <5>2. \A a, b \in 1..n : a < b => events[a].id < events[b].id
            BY <1>2 DEF AuditIInv, IdsAreOld, IdsIncrease
          <5> QED  BY <4>1, <5>0, <5>1, <5>2
        <4> QED  BY <4>2, <4>3
      <3>2. \A i \in DOMAIN events' : events'[i].id <= recorded'
        <4> SUFFICES ASSUME NEW i \in DOMAIN events' PROVE events'[i].id <= recorded'  OBVIOUS
        <4>1. events'[i].id \in {events[j].id : j \in (d + 1)..n} \cup {recorded + 1}
          BY <2>4 DEF Ids
        <4> QED  BY <1>1, <1>2, <2>3, <4>1
      <3> QED  BY <1>3, <3>1, <3>2 DEF IdsAreOld
    <2>8. Ids(events') \subseteq Ids(events) \cup {recorded + 1}
      <3>1. (d + 1)..n \subseteq DOMAIN events  BY <1>2
      <3> QED  BY <2>4, <3>1 DEF Ids
    <2>9. DeliveredOnce'
      <3>1. recorded + 1 \notin ToSet(delivered)  BY <1>2 DEF AuditIInv, IdsAreOld
      <3> QED  BY <1>1, <2>8, <3>1 DEF AuditIInv, DeliveredOnce
    <2>10. OldestDropped'
      <3> SUFFICES ASSUME NEW lost \in 1..recorded', lost \notin Ids(events') \cup ToSet(delivered'),
                          NEW kept \in Ids(events')
                   PROVE  lost < kept
        BY DEF OldestDropped
      <3>1. lost \in 1..recorded  BY <1>1, <1>2, <2>4
      <3>2. CASE kept = recorded + 1  BY <1>2, <3>1, <3>2
      <3>3. CASE kept # recorded + 1
        <4>1. PICK j \in (d + 1)..n : kept = events[j].id  BY <2>4, <3>3
        <4>2. CASE lost \in Ids(events)
          <5>1. PICK i \in 1..n : lost = events[i].id  BY <1>2, <4>2 DEF Ids
          <5>2. i <= d  BY <1>2, <2>4, <5>1
          <5>3. i < j /\ j \in 1..n  BY <1>2, <5>2
          <5> QED  BY <1>2, <4>1, <5>1, <5>3 DEF AuditIInv, IdsAreOld, IdsIncrease
        <4>3. CASE lost \notin Ids(events)
          <5>1. kept \in Ids(events)  BY <1>2, <4>1 DEF Ids
          <5> QED  BY <1>1, <3>1, <4>3, <5>1 DEF AuditIInv, OldestDropped
        <4> QED  BY <4>2, <4>3
      <3> QED  BY <3>2, <3>3
    <2> QED  BY <2>5, <2>6, <2>7, <2>9, <2>10 DEF AuditIInv
  <1> QED
    <2> HIDE DEF n, e
    <2> QED  BY <1>4, <1>5, RecordSteps DEF n, e

(* A flush with a time or without hands out what it takes out of the buffer and
   keeps the rest; the two are told apart by their stamps.                  *)
LEMMA FlushAuditIInv ==
  ASSUME AuditIInv, NEW w \in Seq(BufferedEvent), IdsIncrease(w),
         delivered' = delivered \o [i \in DOMAIN w |-> w[i].id],
         events' \in Seq(BufferedEvent), IdsIncrease(events'), currentSize' = SizeOf(events'),
         SizeOf(events') <= SizeOf(events), Len(events') <= Len(events),
         Elements(w) \cap Elements(events') = {}, Elements(w) \cup Elements(events') = Elements(events),
         UNCHANGED <<now, recorded>>, flushes' \in 0..MaxFlushes
  PROVE  AuditIInv'
  <1> USE DEF AuditIInv
  <1>1. events \in Seq(BufferedEvent) /\ delivered \in Seq(1..MaxEvents) /\ recorded \in 0..MaxEvents
    BY DEF TypeOK
  <1>2. /\ Ids(w) = {e.id : e \in Elements(w)} /\ Ids(events) = {e.id : e \in Elements(events)}
        /\ Ids(events') = {e.id : e \in Elements(events')}
    BY DEF Ids, Elements
  <1>3. Ids(w) \cup Ids(events') = Ids(events)  BY <1>2
  <1>4. Ids(w) \cap Ids(events') = {}
    <2> SUFFICES ASSUME NEW a \in Elements(w), NEW b \in Elements(events'), a.id = b.id PROVE FALSE
      BY <1>2
    <2>0. a \in Elements(events) /\ b \in Elements(events) /\ a # b  OBVIOUS
    <2>1. PICK i \in DOMAIN events, j \in DOMAIN events : a = events[i] /\ b = events[j]
      BY <2>0 DEF Elements
    <2>2. i # j  BY <2>0, <2>1
    <2>3. i \in Int /\ j \in Int /\ events[i].id \in Int /\ events[j].id \in Int
      <3>1. events[i] \in BufferedEvent /\ events[j] \in BufferedEvent  BY <1>1
      <3>2. i \in Int /\ j \in Int  BY <1>1
      <3> QED  BY <3>1, <3>2 DEF BufferedEvent
    <2>4. i < j \/ j < i  BY <2>2, <2>3
    <2> QED  BY <2>1, <2>3, <2>4 DEF IdsAreOld, IdsIncrease
  <1>5. /\ delivered' \in Seq(1..MaxEvents) /\ IsInjective(delivered')
        /\ ToSet(delivered') = ToSet(delivered) \cup Ids(w)
    <2>1. IsInjective(delivered) /\ ToSet(delivered) \cap Ids(w) = {}  BY <1>3 DEF DeliveredOnce
    <2> QED  BY <1>1, <2>1, HandOut
  <1>6. \A id \in Ids(events) : id \in 1..recorded
    <2>1. \A i \in DOMAIN events : events[i] \in BufferedEvent  BY <1>1
    <2>2. \A i \in DOMAIN events : events[i].id \in 1..MaxEvents  BY <2>1 DEF BufferedEvent
    <2> QED  BY <1>1, <2>2 DEF Ids, IdsAreOld
  <1>7. SizeOf(events) \in Nat /\ SizeOf(events') \in Nat /\ Len(events) \in Nat /\ Len(events') \in Nat
    <2>1. \A es \in Seq(BufferedEvent) : SizeOf(es) \in Nat
      <3> SUFFICES ASSUME NEW es \in Seq(BufferedEvent) PROVE SizeOf(es) \in Nat  OBVIOUS
      <3>1. 0 \in 0..Len(es)  OBVIOUS
      <3> QED  BY <3>1, SizeSplits
    <2> QED  BY <1>1, <2>1
  <1>8. TypeOK'  BY <1>1, <1>5, <1>7 DEF TypeOK
  <1>9. SizeIsAccounted'
    <2> SUFFICES ASSUME currentSize' > MaxSizeBytes PROVE Len(events') = 1  BY DEF SizeIsAccounted
    <2>1. MaxSizeBytes \in Nat  BY TelemetryConstantsOK DEF TelemetryConstantsOK
    <2>2. Len(events) = 1  BY <1>7, <2>1 DEF SizeIsAccounted
    <2>3. Len(events') # 0
      <3> SUFFICES ASSUME Len(events') = 0 PROVE FALSE  OBVIOUS
      <3>1. events' = <<>>  OBVIOUS
      <3>2. SizeOf(events') = 0  BY <3>1, SizeOfNone
      <3> QED  BY <2>1, <3>2
    <2>4. Len(events') <= Len(events)  OBVIOUS
    <2>5. \A k \in Nat : k <= 1 /\ k # 0 => k = 1  OBVIOUS
    <2> QED  BY <1>7, <2>2, <2>3, <2>4, <2>5, Zenon
  <1>10. IdsAreOld'
    <2>1. \A i \in DOMAIN events' : events'[i].id \in Ids(events')  BY DEF Ids
    <2>2. \A i \in DOMAIN events' : events'[i].id <= recorded  BY <1>1, <1>3, <1>6, <2>1
    <2> QED  BY <1>3, <1>5, <1>6, <2>2 DEF IdsAreOld
  <1>11. DeliveredOnce'  BY <1>3, <1>4, <1>5 DEF DeliveredOnce
  <1>12. OldestDropped'
    <2> SUFFICES ASSUME NEW lost \in 1..recorded, lost \notin Ids(events') \cup ToSet(delivered'),
                        NEW kept \in Ids(events')
                 PROVE  lost < kept
      BY DEF OldestDropped
    <2>1. lost \notin Ids(events) \cup ToSet(delivered) /\ kept \in Ids(events)  BY <1>3, <1>5
    <2> QED  BY <2>1 DEF OldestDropped
  <1> QED  BY <1>8, <1>9, <1>10, <1>11, <1>12

(* Every step of the buffer keeps the invariant. *)
LEMMA AuditNext == ASSUME AuditIInv, [Next]_vars PROVE AuditIInv'
  <1>1. CASE Tick
    <2>1. now' \in 0..MaxTime
      BY <1>1, TelemetryConstantsOK DEF Tick, AuditIInv, TypeOK, TelemetryConstantsOK
    <2>2. UNCHANGED <<recorded, events, currentSize, flushes, delivered>>  BY <1>1 DEF Tick
    <2> QED
      BY <2>1, <2>2 DEF AuditIInv, TypeOK, SizeIsAccounted, IdsAreOld, DeliveredOnce, OldestDropped
  <1>2. CASE Record
    <2>1. PICK size \in Sizes : RecordEvent(size)  BY <1>2 DEF Record
    <2> QED  BY <1>2, <2>1, RecordAuditIInv DEF Record
  <1>3. CASE Flush
    <2>1. flushes' \in 0..MaxFlushes /\ UNCHANGED now
      BY <1>3, TelemetryConstantsOK DEF Flush, AuditIInv, TypeOK, TelemetryConstantsOK
    <2>2. events \in Seq(BufferedEvent) /\ IdsIncrease(events)  BY DEF AuditIInv, TypeOK, IdsAreOld
    <2>3. SizeOf(events) \in Nat /\ Len(events) \in Nat
      <3>1. 0 \in 0..Len(events)  BY <2>2
      <3> QED  BY <2>2, <3>1, SizeSplits
    <2>4. CASE GetEvents
      <3>1. /\ delivered' = delivered \o [i \in DOMAIN events |-> events[i].id]
            /\ events' = <<>> /\ currentSize' = 0 /\ UNCHANGED recorded
        BY <2>4 DEF GetEvents
      <3>2. events' \in Seq(BufferedEvent) /\ IdsIncrease(events') /\ Len(events') = 0 /\ SizeOf(events') = 0
        BY <3>1, SizeOfNone DEF IdsIncrease
      <3>3. Elements(events') = {}  BY <3>1 DEF Elements
      <3>4. SizeOf(events') <= SizeOf(events) /\ Len(events') <= Len(events)  BY <2>3, <3>2
      <3>5. Elements(events) \cap Elements(events') = {}
            /\ Elements(events) \cup Elements(events') = Elements(events)
        BY <3>3
      <3>6. currentSize' = SizeOf(events')  BY <3>1, <3>2
      <3>7. UNCHANGED <<now, recorded>>  BY <2>1, <3>1
      <3> QED  BY <2>1, <2>2, <3>1, <3>2, <3>4, <3>5, <3>6, <3>7, FlushAuditIInv
    <2>5. ASSUME NEW since \in 0..MaxTime, GetEventsSince(since) PROVE AuditIInv'
      <3> DEFINE w == Stamped(events, since..MaxTime)
                 kept == Stamped(events, 0..(since - 1))
      <3>1. /\ delivered' = delivered \o [i \in DOMAIN w |-> w[i].id]
            /\ events' = kept /\ currentSize' = SizeOf(events') /\ UNCHANGED recorded
        BY <2>5, Zenon DEF GetEventsSince
      <3>2. /\ w \in Seq(BufferedEvent) /\ IdsIncrease(w)
            /\ Elements(w) = {e \in Elements(events) : e.timestamp \in since..MaxTime}
        BY <2>2, StampedIs, Zenon
      <3>3. /\ kept \in Seq(BufferedEvent) /\ IdsIncrease(kept)
            /\ Len(kept) <= Len(events) /\ SizeOf(kept) <= SizeOf(events)
            /\ Elements(kept) = {e \in Elements(events) : e.timestamp \in 0..(since - 1)}
        BY <2>2, StampedIs, Zenon
      <3> HIDE DEF w, kept
      <3>4. \A e \in Elements(events) : e.timestamp \in 0..MaxTime
        <4>1. \A e \in Elements(events) : e \in BufferedEvent  BY <2>2 DEF Elements
        <4> QED  BY <4>1 DEF BufferedEvent
      <3>5. \A t \in 0..MaxTime : t \in since..MaxTime <=> t \notin 0..(since - 1)
        BY TelemetryConstantsOK DEF TelemetryConstantsOK
      <3>6. Elements(w) \cap Elements(kept) = {} /\ Elements(w) \cup Elements(kept) = Elements(events)
        BY <3>2, <3>3, <3>4, <3>5
      <3> QED  BY <2>1, <3>1, <3>2, <3>3, <3>6, FlushAuditIInv
    <2> QED  BY <1>3, <2>4, <2>5 DEF Flush
  <1>4. CASE UNCHANGED vars
    BY <1>4 DEF vars, AuditIInv, TypeOK, SizeIsAccounted, IdsAreOld, DeliveredOnce, OldestDropped
  <1> QED  BY <1>1, <1>2, <1>3, <1>4 DEF Next

(* What a step drops: only recordEvent drops anything, and then the oldest. *)
LEMMA NextDrops ==
  ASSUME AuditIInv, [Next]_vars
  PROVE  Dropped # {} =>
           /\ recorded' = recorded + 1
           /\ recorded' \in Ids(events') => SizeOf(events') + events[Max(Dropped)].size > MaxSizeBytes
  <1> DEFINE n == Len(events)
  <1>1. events \in Seq(BufferedEvent) /\ IdsIncrease(events) /\ DOMAIN events = 1..n /\ n \in Nat
        /\ recorded \in Nat /\ delivered \in Seq(1..MaxEvents)
    BY DEF AuditIInv, TypeOK, IdsAreOld
  <1>0. Dropped = {i \in DOMAIN events : /\ events[i].id \notin Ids(events')
                                        /\ events[i].id \notin ToSet(delivered')}
    BY Zenon DEF Dropped
  <1>2. ASSUME NEW w \in Seq(BufferedEvent), delivered' = delivered \o [i \in DOMAIN w |-> w[i].id],
               IdsIncrease(w), Ids(w) \cup Ids(events') = Ids(events)
        PROVE  Dropped = {}
    <2>1. ToSet(delivered') = ToSet(delivered) \cup Ids(w)
      <3>1. IsInjective(delivered) /\ ToSet(delivered) \cap Ids(w) = {}
        BY <1>2 DEF AuditIInv, DeliveredOnce
      <3> QED  BY <1>1, <1>2, <3>1, HandOut
    <2>2. \A i \in DOMAIN events : events[i].id \in Ids(events)  BY DEF Ids
    <2> QED  BY <1>0, <1>2, <2>1, <2>2
  <1>3. CASE UNCHANGED <<events, delivered>>
    BY <1>0, <1>3 DEF Ids
  <1>4. CASE GetEvents
    <2>1. delivered' = delivered \o [i \in DOMAIN events |-> events[i].id] /\ events' = <<>>
      BY <1>4 DEF GetEvents
    <2>2. Ids(events') = {}  BY <2>1 DEF Ids
    <2> QED  BY <1>1, <1>2, <2>1, <2>2
  <1>5. ASSUME NEW since \in 0..MaxTime, GetEventsSince(since) PROVE Dropped = {}
    <2> DEFINE w == Stamped(events, since..MaxTime)
               kept == Stamped(events, 0..(since - 1))
    <2>1. /\ delivered' = delivered \o [i \in DOMAIN w |-> w[i].id] /\ events' = kept
      BY <1>5, Zenon DEF GetEventsSince
    <2>2. /\ w \in Seq(BufferedEvent) /\ IdsIncrease(w)
          /\ Elements(w) = {e \in Elements(events) : e.timestamp \in since..MaxTime}
      BY <1>1, StampedIs, Zenon
    <2>3. Elements(kept) = {e \in Elements(events) : e.timestamp \in 0..(since - 1)}
      BY <1>1, StampedIs, Zenon
    <2> HIDE DEF w, kept
    <2>4. \A e \in Elements(events) : e.timestamp \in since..MaxTime \/ e.timestamp \in 0..(since - 1)
      <3>1. \A e \in Elements(events) : e \in BufferedEvent  BY <1>1 DEF Elements
      <3>2. \A e \in Elements(events) : e.timestamp \in 0..MaxTime  BY <3>1 DEF BufferedEvent
      <3>3. \A t \in 0..MaxTime : t \in since..MaxTime \/ t \in 0..(since - 1)
        BY TelemetryConstantsOK DEF TelemetryConstantsOK
      <3> QED  BY <3>2, <3>3
    <2>5. Elements(w) \cup Elements(kept) = Elements(events)  BY <2>2, <2>3, <2>4
    <2>6. Ids(w) \cup Ids(kept) = Ids(events)
      <3>1. /\ Ids(w) = {e.id : e \in Elements(w)} /\ Ids(kept) = {e.id : e \in Elements(kept)}
            /\ Ids(events) = {e.id : e \in Elements(events)}
        BY DEF Ids, Elements
      <3> QED  BY <2>5, <3>1
    <2>7. Ids(events') = Ids(kept)  BY <2>1
    <2> QED  BY <1>2, <2>1, <2>2, <2>6, <2>7
  <1>6. ASSUME recorded < MaxEvents, UNCHANGED <<now, flushes>>, NEW size \in Sizes, RecordEvent(size),
               Dropped # {}
        PROVE  /\ recorded' = recorded + 1
               /\ recorded' \in Ids(events') => SizeOf(events') + events[Max(Dropped)].size > MaxSizeBytes
    <2> DEFINE e == [id |-> recorded + 1, size |-> size, timestamp |-> now]
    <2>1. recorded' = recorded + 1  BY <1>6, Zenon DEF RecordEvent
    <2>2. AuditIInv'  BY <1>6, RecordAuditIInv
    <2>3. ASSUME NEW d \in 0..n, events' = Append(SubSeq(events, d + 1, n), e),
                 d > 0 => currentSize' + events[d].size > MaxSizeBytes
          PROVE  SizeOf(events') + events[Max(Dropped)].size > MaxSizeBytes
      <3> DEFINE new == Append(SubSeq(events, d + 1, Len(events)), e)
      <3>1. e \in BufferedEvent
        BY <1>1, <1>6, TelemetryConstantsOK
           DEF AuditIInv, TypeOK, BufferedEvent, TelemetryConstantsOK
      <3>2. d \in 0..Len(events)  OBVIOUS
      <3> HIDE DEF e
      <3>3. Ids(new) = {events[i].id : i \in (d + 1)..Len(events)} \cup {e.id}
        <4>1. events \in Seq(BufferedEvent)  BY <1>1
        <4> QED  BY <3>1, <3>2, <4>1, RecordedIs
      <3>4. events' = new  BY <2>3
      <3> HIDE DEF new
      <3>5. Ids(events') = {events[i].id : i \in (d + 1)..n} \cup {recorded + 1}
        BY <3>3, <3>4 DEF e
      <3>6. \A i \in 1..n : events[i].id \in Nat /\ events[i].id <= recorded
        <4>1. \A i \in 1..n : events[i] \in BufferedEvent  BY <1>1
        <4> QED  BY <1>1, <4>1, SMTT(20) DEF BufferedEvent, AuditIInv, IdsAreOld
      <3>7. Dropped \subseteq 1..d
        <4> SUFFICES ASSUME NEW i \in Dropped PROVE i \in 1..d  OBVIOUS
        <4>1. i \in 1..n /\ events[i].id \notin Ids(events')  BY <1>0, <1>1
        <4>2. i \notin (d + 1)..n  BY <3>5, <4>1
        <4> HIDE DEF n
        <4> QED  BY <1>1, <4>1, <4>2
      <3>8. ASSUME d > 0 PROVE d \in Dropped
        <4>1. d \in 1..n  BY <3>8
        <4>2. \A i \in (d + 1)..n : i \in 1..n /\ d < i  BY <4>1
        <4>3. \A i \in (d + 1)..n : events[d].id < events[i].id
          BY <1>1, <4>1, <4>2 DEF IdsIncrease
        <4>4. events[d].id \notin Ids(events')
          BY <1>1, <3>5, <3>6, <4>1, <4>2, <4>3
        <4>5. events[d].id \notin ToSet(delivered')
          <5>1. events[d].id \in Ids(events)  BY <1>1, <4>1 DEF Ids
          <5>2. UNCHANGED delivered  BY <1>6 DEF RecordEvent
          <5> QED  BY <5>1, <5>2 DEF AuditIInv, DeliveredOnce
        <4> QED  BY <1>0, <1>1, <4>1, <4>4, <4>5
      <3>0. Dropped # {}  BY <1>6
      <3>9. d > 0
        <4> HIDE DEF n
        <4>1. d \in Nat  BY <1>1
        <4>2. \E i \in 1..d : TRUE  BY <3>0, <3>7
        <4> QED  BY <4>1, <4>2
      <3>10. Max(Dropped) = d
        <4> HIDE DEF n
        <4>0. d \in Nat  BY <1>1
        <4>1. Max(Dropped) \in Dropped /\ Max(Dropped) >= d  BY <3>0, <3>7, <3>8, <3>9, <4>0, MaxIndex
        <4>2. Max(Dropped) \in 1..d  BY <3>7, <4>1
        <4> QED  BY <4>0, <4>1, <4>2
      <3>11. currentSize' = SizeOf(events')  BY <2>2 DEF AuditIInv, SizeIsAccounted
      <3> QED  BY <2>3, <3>9, <3>10, <3>11
    <2>4. events' # <<>> =>
            \E d \in 0..n : /\ events' = Append(SubSeq(events, d + 1, n), e)
                            /\ d > 0 => currentSize' + events[d].size > MaxSizeBytes
      BY <1>6, RecordSteps
    <2>5. recorded' \in Ids(events') => events' # <<>>  BY DEF Ids
    <2> QED  BY <2>1, <2>3, <2>4, <2>5
  <1>7. CASE Tick  BY <1>3, <1>7 DEF Tick
  <1>8. CASE Record  BY <1>6, <1>8 DEF Record
  <1>9. CASE Flush  BY <1>4, <1>5, <1>9 DEF Flush
  <1>10. CASE UNCHANGED vars  BY <1>3, <1>10 DEF vars
  <1> QED  BY <1>7, <1>8, <1>9, <1>10 DEF Next

-----------------------------------------------------------------------------
(* The theorems about the audit buffer.                                    *)

(* The buffer's size, its ids, what was delivered and what was dropped agree in every
   reachable state. *)
THEOREM AuditInvariance == FlushSpec => []AuditIInv
  <1>1. FlushInit => AuditIInv  BY AuditInit DEF FlushInit
  <1>2. AuditIInv /\ [FlushNext]_<<vars, collectorVars, followed>> => AuditIInv'
    <2>1. [FlushNext]_<<vars, collectorVars, followed>> => [Next]_vars  BY Zenon DEF FlushNext
    <2> QED  BY <2>1, AuditNext
  <1> QED  BY <1>1, <1>2, PTL DEF FlushSpec

(* currentSize is the size of what is buffered, whatever was dropped, handed out
   and retained; only a single event is ever larger than the buffer.        *)
THEOREM SizeAccounting == FlushSpec => []SizeIsAccounted
  <1>1. AuditIInv => SizeIsAccounted  BY DEF AuditIInv
  <1> QED  BY <1>1, AuditInvariance, PTL

(* No event is handed out twice, nor handed out and kept. *)
THEOREM HandedOutOnce == FlushSpec => []DeliveredOnce
  <1>1. AuditIInv => DeliveredOnce  BY DEF AuditIInv
  <1> QED  BY <1>1, AuditInvariance, PTL

(* What is lost is older than all that is kept. *)
THEOREM OldestGoFirst == FlushSpec => []OldestDropped
  <1>1. AuditIInv => OldestDropped  BY DEF AuditIInv
  <1> QED  BY <1>1, AuditInvariance, PTL

(* Events are dropped only as another is recorded, and one that is taken in makes no
   more room than it takes; one that is rejected may have cost them all.     *)
THEOREM RoomIsNeeded == FlushSpec => MakesNeededRoom
  <1> DEFINE Spares ==
               Dropped # {} =>
                 /\ recorded' = recorded + 1
                 /\ recorded' \in Ids(events') => SizeOf(events') + events[Max(Dropped)].size > MaxSizeBytes
  <1>1. ASSUME AuditIInv, [FlushNext]_<<vars, collectorVars, followed>> PROVE [Spares]_vars
    <2>1. [Next]_vars  BY <1>1, Zenon DEF FlushNext
    <2> QED  BY <1>1, <2>1, NextDrops
  <1> QED  BY <1>1, AuditInvariance, PTL DEF FlushSpec, MakesNeededRoom
=============================================================================
