---------------------------- MODULE RegistryLock ----------------------------
(***************************************************************************)
(* Registry.mu while bindings are sorted: SortProvidersByLocality holds    *)
(* the read lock and calls CalculateProviderDistance for every candidate,  *)
(* which takes the read lock again (internal/discovery/registry.go), while *)
(* the event loop's handlers take it to write.  Evaluator.mu is in the     *)
(* same position: EvaluateBinding holds it to read and hasConsent reads it *)
(* again, while UpdatePolicy and UpdateConsent write.                      *)
(*                                                                         *)
(* Go's sync.RWMutex lets no new reader in once a writer waits.            *)
(***************************************************************************)
EXTENDS Naturals

CONSTANTS Requests,    \* binding requests
          Candidates   \* how many candidates a request has, at least 1

VARIABLES held,    \* read locks a request holds: 0, 1, or 2 when nested
          left,    \* candidates whose distance is still to be calculated
          done,    \* the requests whose sort has returned
          writer   \* the handler: "idle", "waits" in Lock(), or "holds" the lock

vars == <<held, left, done, writer>>

Init == /\ held = [r \in Requests |-> 0] /\ left = [r \in Requests |-> Candidates]
        /\ done = {} /\ writer = "idle"

-----------------------------------------------------------------------------
(* The read-write mutex (external).                                        *)

RLock(r)   == writer = "idle" /\ held' = [held EXCEPT ![r] = @ + 1]
RUnlock(r) == held' = [held EXCEPT ![r] = @ - 1]
LockFree   == \A r \in Requests : held[r] = 0

-----------------------------------------------------------------------------
BeginSort(r) ==
  /\ held[r] = 0 /\ r \notin done
  /\ RLock(r)
  /\ UNCHANGED <<left, done, writer>>

BeginDistance(r) ==
  /\ held[r] = 1 /\ left[r] > 0
  /\ RLock(r)
  /\ left' = [left EXCEPT ![r] = @ - 1]
  /\ UNCHANGED <<done, writer>>

EndDistance(r) ==
  /\ held[r] = 2
  /\ RUnlock(r)
  /\ UNCHANGED <<left, done, writer>>

EndSort(r) ==
  /\ held[r] = 1 /\ left[r] = 0
  /\ RUnlock(r)
  /\ done' = done \cup {r}
  /\ UNCHANGED <<left, writer>>

Sort(r) == BeginSort(r) \/ BeginDistance(r) \/ EndDistance(r) \/ EndSort(r)

\* AddOrUpdateMember, AddOrUpdateProvider, Clear and the other writers.
BeginUpdate == writer = "idle" /\ writer' = "waits" /\ UNCHANGED <<held, left, done>>
Update      == writer = "waits" /\ LockFree /\ writer' = "holds" /\ UNCHANGED <<held, left, done>>
EndUpdate   == writer = "holds" /\ writer' = "idle" /\ UNCHANGED <<held, left, done>>

Next == (\E r \in Requests : Sort(r)) \/ BeginUpdate \/ Update \/ EndUpdate
Spec == Init /\ [][Next]_vars

\* The mutex wakes whoever can have it, and whoever has it goes on; nobody has
\* to handle an event.  A reader is not starved by writers (SF): RWMutex lets
\* the readers that waited for a writer in before the next writer.
FairSpec == /\ Spec /\ WF_vars(Update) /\ WF_vars(EndUpdate)
            /\ \A r \in Requests : SF_vars(Sort(r))

-----------------------------------------------------------------------------
\* Binding resolution ends with "Return allow/deny decision"
\* (agent_docs/MYCELLIUM_MESH_AGENT_RFC.md:154): the sort that a request has
\* begun returns.
SortReturns == \A r \in Requests : held[r] > 0 ~> r \in done
=============================================================================
