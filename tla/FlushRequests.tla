---------------------------- MODULE FlushRequests ----------------------------
(***************************************************************************)
(* FlushRequest (internal/telemetry/flusher.go) asked for "audit" empties  *)
(* the buffer of module Telemetry, and asked for "metrics" reports and     *)
(* resets the counters of module Collector.  The two share no state, so a  *)
(* behaviour follows one of them and leaves the other as it began.         *)
(***************************************************************************)
EXTENDS Telemetry, Collector

VARIABLE followed  \* the part a behaviour follows

FlushInit == Init /\ CollectorInit /\ followed \in {"audit", "metrics"}

FlushNext ==
  /\ UNCHANGED followed
  /\ \/ followed = "audit" /\ Next /\ UNCHANGED collectorVars
     \/ followed = "metrics" /\ CollectorNext /\ UNCHANGED vars

FlushSpec == FlushInit /\ [][FlushNext]_<<vars, collectorVars, followed>>
=============================================================================
