------------------------------ MODULE Collector ------------------------------
(***************************************************************************)
(* The metrics (internal/telemetry/collector.go) and the flush requests    *)
(* that report them (flusher.go).  What happens to a binding is counted in *)
(* an atomic counter and then, unless it is a revocation, under the lock   *)
(* in a map of capabilities or reasons.  A flush checks, reads and resets  *)
(* in separate regions of the lock, so bindings are counted and other      *)
(* flushes run between them.                                               *)
(*                                                                         *)
(* Left out: expiries, connections and bytes, which nothing in the program *)
(* records.  The counters are reset one after another; no property relates *)
(* two kinds, so one step does.                                            *)
(***************************************************************************)
EXTENDS Integers, Functions

CONSTANTS Kinds,       \* what is counted: "granted", "denied", "revoked"
          Recorders,   \* goroutines that answer binding requests and revocations
          Flushers,    \* goroutines that answer flush requests
          MaxCounted,  \* bound: bindings counted
          MaxMetricsFlushes  \* bound: flush requests

ASSUME CollectorConstantsOK == {MaxCounted, MaxMetricsFlushes} \subseteq Nat

VARIABLES
  counters,  \* bindingsGranted, bindingsDenied and bindingsRevoked
  top,       \* the sum over topCapabilities, or denialReasons
  due,       \* time.Since(lastSummary) >= summaryInterval
  recorder,  \* per recorder: the kind it has yet to add to the map, or "none"
  flusher,   \* where each FlushRequest stands
  asked,     \* flush requests for metrics so far
  counted,   \* history: per kind, bindings counted, also in the map
  mapped,
  reported,  \* history: per kind, the sum over the summaries' counts and maps
  reportedTop,
  during,    \* history: per kind, what was counted, or added, in the middle of a flush
  duringTop,
  overlapped \* history: whether a summary was made in the middle of another flush

collectorVars == <<counters, top, due, recorder, flusher, asked, counted, mapped,
                   reported, reportedTop, during, duringTop, overlapped>>

Zero == [k \in Kinds |-> 0]
Plus(f, g) == [k \in Kinds |-> f[k] + g[k]]

CollectorInit ==
  /\ counters = Zero /\ top = Zero /\ due = FALSE
  /\ recorder = [r \in Recorders |-> "none"] /\ flusher = [f \in Flushers |-> "idle"] /\ asked = 0
  /\ counted = Zero /\ mapped = Zero /\ reported = Zero /\ reportedTop = Zero
  /\ during = Zero /\ duringTop = Zero /\ overlapped = FALSE

-----------------------------------------------------------------------------
FlushAt(steps) == \E f \in Flushers : flusher[f] \in steps
One(k, b) == [Zero EXCEPT ![k] = IF b THEN 1 ELSE 0]  \* 1 for k, if b

HasMap == Kinds \ {"revoked"}

\* RecordBindingGranted, RecordBindingDenied and RecordBindingRevoked: the counter ...
AddCounter(r, k) ==
  /\ recorder[r] = "none" /\ FoldFunction(+, 0, counted) < MaxCounted
  /\ counters' = Plus(counters, One(k, TRUE)) /\ counted' = Plus(counted, One(k, TRUE))
  /\ during' = Plus(during, One(k, FlushAt({"resetCounters"})))
  /\ recorder' = [recorder EXCEPT ![r] = IF k \in HasMap THEN k ELSE "none"]
  /\ UNCHANGED <<top, due, flusher, asked, mapped, reported, reportedTop, duringTop, overlapped>>

\* ... and the map.
AddToMap(r) ==
  /\ recorder[r] # "none"
  /\ LET k == recorder[r]
     IN  /\ top' = Plus(top, One(k, TRUE)) /\ mapped' = Plus(mapped, One(k, TRUE))
         /\ duringTop' = Plus(duringTop, One(k, FlushAt({"resetCounters", "resetMaps"})))
  /\ recorder' = [recorder EXCEPT ![r] = "none"]
  /\ UNCHANGED <<counters, due, flusher, asked, counted, reported, reportedTop, during, overlapped>>

IntervalPasses ==
  /\ ~due /\ due' = TRUE
  /\ UNCHANGED <<counters, top, recorder, flusher, asked, counted, mapped, reported, reportedTop,
                 during, duringTop, overlapped>>

-----------------------------------------------------------------------------
At(f, s)   == flusher[f] = s
To(f, s)   == flusher' = [flusher EXCEPT ![f] = s]

ShouldGenerateSummary(f) ==
  /\ At(f, "idle") /\ asked < MaxMetricsFlushes /\ asked' = asked + 1
  /\ To(f, IF due THEN "generate" ELSE "idle")
  /\ UNCHANGED <<counters, top, due, recorder, counted, mapped, reported, reportedTop,
                 during, duringTop, overlapped>>

GenerateSummary(f) ==
  /\ At(f, "generate") /\ To(f, "resetCounters")
  /\ reported' = Plus(reported, counters) /\ reportedTop' = Plus(reportedTop, top)
  /\ due' = FALSE
  /\ overlapped' = (overlapped \/ FlushAt({"resetCounters", "resetMaps"}))
  /\ UNCHANGED <<counters, top, recorder, asked, counted, mapped, during, duringTop>>

\* Mutant of ResetCounters: one of the counters is forgotten.
ResetSomeCounters(f) ==
  /\ At(f, "resetCounters") /\ To(f, "resetMaps")
  /\ \E k \in Kinds : counters' = [counters EXCEPT ![k] = 0]
  /\ UNCHANGED <<top, due, recorder, asked, counted, mapped, reported, reportedTop,
                 during, duringTop, overlapped>>

\* ResetCounters: the counters ...
ResetCounters(f) ==
  /\ At(f, "resetCounters") /\ To(f, "resetMaps")
  /\ counters' = Zero
  /\ UNCHANGED <<top, due, recorder, asked, counted, mapped, reported, reportedTop,
                 during, duringTop, overlapped>>

\* ... and the maps.
ResetMaps(f) ==
  /\ At(f, "resetMaps") /\ To(f, "idle")
  /\ top' = Zero
  /\ UNCHANGED <<counters, due, recorder, asked, counted, mapped, reported, reportedTop,
                 during, duringTop, overlapped>>

CollectorNext ==
  \/ \E r \in Recorders : AddToMap(r) \/ \E k \in Kinds : AddCounter(r, k)
  \/ IntervalPasses
  \/ \E f \in Flushers : \/ ShouldGenerateSummary(f) \/ GenerateSummary(f)
                         \/ ResetCounters(f) \/ ResetMaps(f)

-----------------------------------------------------------------------------
\* When no flush is between its summary and its resets, and no two ever were, the
\* summaries and what is still counted add up: nothing is reported twice, and
\* what is in no summary was counted while a flush was there.
MetricsAddUp ==
  ~overlapped /\ ~FlushAt({"resetCounters", "resetMaps"}) =>
    \A k \in Kinds :
      /\ counted[k] - reported[k] - counters[k] \in 0..during[k]
      /\ mapped[k] - reportedTop[k] - top[k] \in 0..duringTop[k]
=============================================================================
