---------------------------- MODULE GrantManager ----------------------------
(***************************************************************************)
(* The life of binding grants: GrantManager (binding_engine/grants.go) and *)
(* the Engine's methods over it (binding_engine/engine.go).  Every method  *)
(* of GrantManager is one region of its own lock and one step here.  The   *)
(* Engine's lock is modelled apart: RevokeBinding holds it to write,       *)
(* GetBinding to read, and GetBinding reads the grant's fields one by one  *)
(* after the manager's lock is released; the monitor goroutine, IssueGrant *)
(* and ListActiveGrants run meanwhile.                                     *)
(*                                                                         *)
(* Time is counted in units of which the ticker's interval, the default    *)
(* TTL and the retention of expired grants are multiples.                  *)
(***************************************************************************)
EXTENDS Integers, FiniteSets

CONSTANTS GrantIds,    \* binding IDs generateID may draw, each at most once
          Readers,     \* callers of GetBinding
          TTLs,        \* bound: the values of BindingConstraints.TTLMs
          DefaultTTL,  \* DefaultGrantTTL, used for a TTL of 0
          Interval,    \* ExpirationCheckInterval
          Retention,   \* 24 hours, after which an expired grant is deleted
          MaxTime      \* bound on the clock

ASSUME GrantConstantsOK ==
  /\ TTLs \subseteq Int /\ DefaultTTL \in Nat /\ Interval \in Nat \ {0}
  /\ Retention \in Nat /\ MaxTime \in Nat

VARIABLES
  now,        \* the clock
  stored,     \* the keys of GrantManager.grants
  grant,      \* the BindingGrant objects; one may outlive its map entry
  monitorUp,  \* monitorGrantExpiration runs
  nextTick,   \* when the expiration ticker fires next
  reading,    \* GetBinding in progress: Engine.mu is read-locked by these callers
  status      \* what GetBinding has copied, and returned if the caller is not reading

vars == <<now, stored, grant, monitorUp, nextTick, reading, status>>

States == {"none", "active", "expired", "revoked"}
\* A lastError is reduced to whether there is one.
Grant  == [state : States, createdAt : Int, expiresAt : Int, lastError : BOOLEAN]
NoGrant == [state |-> "none", createdAt |-> 0, expiresAt |-> 0, lastError |-> FALSE]
\* The steps of GetBinding: look the grant up, copy State, copy LastError.
Idle == [step |-> "idle", id |-> "none"]
Status == [state : States, lastError : BOOLEAN]
NoStatus == [state |-> "none", lastError |-> FALSE]

Init ==
  /\ now = 0 /\ stored = {} /\ grant = [g \in GrantIds |-> NoGrant]
  /\ monitorUp = TRUE /\ nextTick = Interval
  /\ reading = [r \in Readers |-> Idle] /\ status = [r \in Readers |-> NoStatus]

-----------------------------------------------------------------------------
\* The clock does not pass a tick the running monitor has not served.
Tick ==
  /\ now < MaxTime
  /\ monitorUp => now < nextTick
  /\ now' = now + 1
  /\ UNCHANGED <<stored, grant, monitorUp, nextTick, reading, status>>

\* Mutant of Expired: a grant is taken to run out when its retention ends.
ExpiredLate(g) == now > grant[g].expiresAt + Retention

Expired(g) == now > grant[g].expiresAt

IssueGrant(g, ttl) ==
  /\ grant[g] = NoGrant
  /\ grant' = [grant EXCEPT ![g] =
       [state |-> "active", createdAt |-> now, lastError |-> FALSE,
        expiresAt |-> now + (IF ttl = 0 THEN DefaultTTL ELSE ttl)]]
  /\ stored' = stored \cup {g}
  /\ UNCHANGED <<now, monitorUp, nextTick, reading, status>>

\* Mutant of RevokeBinding: Engine.mu is not taken.
RevokeUnlocked(g, hasReason) ==
  /\ g \in stored
  /\ grant' = [grant EXCEPT ![g].state = "revoked", ![g].lastError = hasReason]
  /\ UNCHANGED <<now, stored, monitorUp, nextTick, reading, status>>

\* Under Engine.mu, so no GetBinding is in progress.  Any state is revoked, also
\* "revoked", and the reason is stored as it is given, also an empty one.
RevokeBinding(g, hasReason) ==
  /\ \A r \in Readers : reading[r] = Idle
  /\ g \in stored
  /\ grant' = [grant EXCEPT ![g].state = "revoked", ![g].lastError = hasReason]
  /\ UNCHANGED <<now, stored, monitorUp, nextTick, reading, status>>

\* Mutant of Lapse: any state lapses.
LapseAny == [g \in GrantIds |-> IF g \in stored /\ Expired(g)
                                THEN [grant[g] EXCEPT !.state = "expired"] ELSE grant[g]]

\* What ListActiveGrants and ExpireGrants do to the states they find.
Lapse == [g \in GrantIds |-> IF g \in stored /\ grant[g].state = "active" /\ Expired(g)
                             THEN [grant[g] EXCEPT !.state = "expired"] ELSE grant[g]]

ListActiveBindings ==
  /\ grant' = Lapse
  /\ UNCHANGED <<now, stored, monitorUp, nextTick, reading, status>>

\* The result of ListActiveBindings in the current state.
Listed == {g \in stored : grant[g].state = "active" /\ ~Expired(g)}

\* Mutants of ExpireGrants: what is forgotten does not depend on the state; the
\* ticker skips a tick.
ExpireGrantsAnyState ==
  /\ monitorUp /\ now = nextTick
  /\ grant' = Lapse
  /\ stored' = {g \in stored : grant[g].expiresAt >= now - Retention}
  /\ nextTick' = now + Interval
  /\ UNCHANGED <<now, monitorUp, reading, status>>

ExpireGrantsSkipping ==
  /\ monitorUp /\ now = nextTick
  /\ grant' = Lapse /\ UNCHANGED stored
  /\ nextTick' = now + 2 * Interval
  /\ UNCHANGED <<now, monitorUp, reading, status>>

\* The ticker's case of monitorGrantExpiration: ExpireGrants.
ExpireGrants ==
  /\ monitorUp /\ now = nextTick
  /\ grant' = Lapse
  /\ stored' = {g \in stored : ~(Lapse[g].state = "expired" /\ grant[g].expiresAt < now - Retention)}
  /\ nextTick' = now + Interval
  /\ UNCHANGED <<now, monitorUp, reading, status>>

\* Stop, or the end of the context Start was given.
StopMonitor ==
  /\ monitorUp
  /\ monitorUp' = FALSE
  /\ UNCHANGED <<now, stored, grant, nextTick, reading, status>>

-----------------------------------------------------------------------------
(* GetBinding.                                                             *)

GetGrant(r, g) ==
  /\ reading[r] = Idle /\ g \in stored
  /\ reading' = [reading EXCEPT ![r] = [step |-> "state", id |-> g]]
  /\ status' = [status EXCEPT ![r] = NoStatus]
  /\ UNCHANGED <<now, stored, grant, monitorUp, nextTick>>

CopyState(r) ==
  /\ reading[r].step = "state"
  /\ status' = [status EXCEPT ![r].state = grant[reading[r].id].state]
  /\ reading' = [reading EXCEPT ![r].step = "error"]
  /\ UNCHANGED <<now, stored, grant, monitorUp, nextTick>>

CopyLastError(r) ==
  /\ reading[r].step = "error"
  /\ status' = [status EXCEPT ![r].lastError = grant[reading[r].id].lastError]
  /\ reading' = [reading EXCEPT ![r] = Idle]
  /\ UNCHANGED <<now, stored, grant, monitorUp, nextTick>>

-----------------------------------------------------------------------------
Next == \/ Tick \/ ListActiveBindings \/ ExpireGrants \/ StopMonitor
        \/ \E g \in GrantIds : \/ \E hasReason \in BOOLEAN : RevokeBinding(g, hasReason)
                             \/ \E ttl \in TTLs : IssueGrant(g, ttl)
        \/ \E r \in Readers : CopyState(r) \/ CopyLastError(r) \/ \E g \in GrantIds : GetGrant(r, g)

Spec == Init /\ [][Next]_vars

-----------------------------------------------------------------------------
(* Properties.                                                             *)

TypeOK ==
  /\ now \in 0..MaxTime /\ stored \subseteq GrantIds /\ grant \in [GrantIds -> Grant]
  /\ monitorUp \in BOOLEAN /\ nextTick \in Nat /\ (monitorUp => nextTick \in now..(now + Interval))
  /\ reading \in [Readers -> {Idle} \cup [step : {"state", "error"}, id : GrantIds]]
  /\ status \in [Readers -> Status]

\* A grant's state only moves on: an expired or revoked grant never becomes
\* active again, and a revocation is never overwritten, not by the monitor nor
\* by a listing that finds the revoked grant past its expiry.
StatesMoveOn ==
  [][\A g \in GrantIds :
       /\ grant[g].state = "revoked" => grant'[g].state = "revoked"
       /\ grant[g].state = "expired" => grant'[g].state \in {"expired", "revoked"}
       /\ grant[g].state # "none" => grant'[g].expiresAt = grant[g].expiresAt]_vars

\* While the monitor runs, no grant in the map still counts as active for
\* longer than one interval after it ran out, although GetBinding does not
\* look at the clock.  (A negative TTL makes a grant that has run out as it
\* is issued.)
ExpiryIsTimely ==
  monitorUp => \A g \in stored :
    grant[g].state = "active" =>
      \/ now <= grant[g].expiresAt + Interval
      \/ now <= grant[g].createdAt + Interval

\* GetBinding copies the fields one by one without the manager's lock; what it
\* returns is the grant as it is at that moment all the same, state and error
\* of one revocation, as Engine.mu keeps revocations out.  But the grant may
\* just have expired.
StatusIsCurrent ==
  [][\A r \in Readers : reading[r] # Idle /\ reading'[r] = Idle =>
       LET g == grant[reading[r].id] IN
         /\ status'[r].lastError = g.lastError
         /\ \/ status'[r].state = g.state
            \/ status'[r].state = "active" /\ g.state = "expired"]_vars

\* The map forgets a grant only when it ran out more than Retention ago and was
\* not revoked: the record of a revocation is kept.
ForgetsOnlyOldExpired ==
  [][\A g \in stored \ stored' : grant'[g].state = "expired" /\ now > grant[g].expiresAt + Retention]_vars

-----------------------------------------------------------------------------
(* The inductive invariant behind the safety properties.                   *)

\* A running monitor's next tick comes within an interval of the moment an
\* active grant in the map runs out, or has been issued.
TickIsNear ==
  monitorUp => \A g \in stored :
    grant[g].state = "active" =>
      nextTick <= grant[g].expiresAt + Interval \/ nextTick <= grant[g].createdAt + Interval

\* What the map holds and what a caller has looked up has been issued.
KnownIsIssued ==
  /\ \A g \in stored : grant[g].state # "none"
  /\ \A r \in Readers : reading[r] # Idle => grant[reading[r].id].state # "none"

\* Between GetBinding's two reads the grant is not revoked; it may expire.
CopyIsCurrent ==
  \A r \in Readers : reading[r].step = "error" =>
    \/ status[r].state = grant[reading[r].id].state
    \/ status[r].state = "active" /\ grant[reading[r].id].state = "expired"

IInv == TypeOK /\ TickIsNear /\ KnownIsIssued /\ CopyIsCurrent
=============================================================================
