------------------------- MODULE GrantManagerProofs -------------------------
(* What TLAPS proves of GrantManager, for all values of its constants. *)
EXTENDS GrantManager, TLAPS

-----------------------------------------------------------------------------
(* Typing.                                                                 *)

(* Every variable starts within its type. *)
LEMMA InitTypeOK == ASSUME Init PROVE TypeOK
  BY GrantConstantsOK DEF Init, TypeOK, GrantConstantsOK, Grant, NoGrant, States, Idle, Status, NoStatus

(* A listing or a tick leaves every grant a grant, and changes its state only. *)
LEMMA LapseTyping ==
  ASSUME TypeOK
  PROVE  /\ Lapse \in [GrantIds -> Grant]
         /\ \A g \in GrantIds :
              /\ Lapse[g].createdAt = grant[g].createdAt /\ Lapse[g].expiresAt = grant[g].expiresAt
              /\ Lapse[g].lastError = grant[g].lastError
              /\ Lapse[g].state # grant[g].state =>
                   grant[g].state = "active" /\ Lapse[g].state = "expired"
              /\ g \in stored /\ Lapse[g].state = "active" => ~Expired(g)
  <1> SUFFICES ASSUME NEW g \in GrantIds
               PROVE  /\ Lapse[g] \in Grant
                      /\ Lapse[g].createdAt = grant[g].createdAt /\ Lapse[g].expiresAt = grant[g].expiresAt
                      /\ Lapse[g].lastError = grant[g].lastError
                      /\ Lapse[g].state # grant[g].state =>
                           grant[g].state = "active" /\ Lapse[g].state = "expired"
                      /\ g \in stored /\ Lapse[g].state = "active" => ~Expired(g)
    BY DEF Lapse
  <1>1. grant[g] \in Grant  BY DEF TypeOK
  <1>2. CASE g \in stored /\ grant[g].state = "active" /\ Expired(g)
    <2>1. Lapse[g] = [grant[g] EXCEPT !.state = "expired"]  BY <1>2 DEF Lapse
    <2> QED  BY <1>1, <1>2, <2>1 DEF Grant, States
  <1>3. CASE ~(g \in stored /\ grant[g].state = "active" /\ Expired(g))
    <2>1. Lapse[g] = grant[g]  BY <1>3 DEF Lapse
    <2> QED  BY <1>1, <1>3, <2>1
  <1> QED  BY <1>2, <1>3

(* No step takes a variable out of its type. *)
LEMMA NextTypeOK == ASSUME TypeOK, [Next]_vars PROVE TypeOK'
  <1> USE GrantConstantsOK DEF GrantConstantsOK
  <1>1. CASE Tick  BY <1>1 DEF TypeOK, Tick
  <1>2. CASE ListActiveBindings  BY <1>2, LapseTyping DEF TypeOK, ListActiveBindings
  <1>3. CASE ExpireGrants  BY <1>3, LapseTyping DEF TypeOK, ExpireGrants
  <1>4. CASE StopMonitor  BY <1>4 DEF TypeOK, StopMonitor
  <1>5. ASSUME NEW g \in GrantIds, NEW why \in BOOLEAN, RevokeBinding(g, why) PROVE TypeOK'
    <2>1. grant' \in [GrantIds -> Grant]  BY <1>5, ZenonT(40) DEF TypeOK, RevokeBinding, Grant, States
    <2> QED  BY <1>5, <2>1 DEF TypeOK, RevokeBinding
  <1>6. ASSUME NEW g \in GrantIds, NEW ttl \in TTLs, IssueGrant(g, ttl) PROVE TypeOK'
    <2> DEFINE lasts == IF ttl = 0 THEN DefaultTTL ELSE ttl
               new   == [state |-> "active", createdAt |-> now, lastError |-> FALSE,
                         expiresAt |-> now + lasts]
    <2>1. grant' \in [GrantIds -> Grant]
      <3>1. lasts \in Int  OBVIOUS
      <3>2. now + lasts \in Int /\ now \in Int  BY <3>1 DEF TypeOK
      <3>3. new \in Grant  BY <3>2 DEF Grant, States
      <3>4. grant' = [grant EXCEPT ![g] = new]  BY <1>6 DEF IssueGrant
      <3> QED  BY <3>3, <3>4 DEF TypeOK
    <2> QED  BY <1>6, <2>1 DEF TypeOK, IssueGrant
  <1>7. ASSUME NEW r \in Readers, NEW g \in GrantIds, GetGrant(r, g) PROVE TypeOK'
    BY <1>7 DEF TypeOK, GetGrant, Idle, Status, NoStatus, States
  <1>8. ASSUME NEW r \in Readers, CopyState(r) PROVE TypeOK'
    BY <1>8 DEF TypeOK, CopyState, Idle, Status, Grant
  <1>9. ASSUME NEW r \in Readers, CopyLastError(r) PROVE TypeOK'
    BY <1>9 DEF TypeOK, CopyLastError, Idle, Status, Grant
  <1>10. CASE UNCHANGED vars  BY <1>10 DEF TypeOK, vars, Expired
  <1> QED  BY <1>1, <1>2, <1>3, <1>4, <1>5, <1>6, <1>7, <1>8, <1>9, <1>10 DEF Next

(* In every state every variable has its type (the grants, the clock, the   *)
(* ticker and the callers of GetBinding).                                   *)
THEOREM Typing == Spec => []TypeOK
  <1>1. Init => TypeOK  BY InitTypeOK
  <1>2. TypeOK /\ [Next]_vars => TypeOK'  BY NextTypeOK
  <1> QED  BY <1>1, <1>2, PTL DEF Spec

-----------------------------------------------------------------------------
(* Action properties.                                                      *)

(* A revoked grant stays revoked and an expired one never comes back,       *)
(* whatever IssueGrant, RevokeBinding, listings and the monitor do.         *)
THEOREM StatesOnlyMoveOn == Spec => StatesMoveOn
  <1> DEFINE Moves == \A g \in GrantIds :
               /\ grant[g].state = "revoked" => grant'[g].state = "revoked"
               /\ grant[g].state = "expired" => grant'[g].state \in {"expired", "revoked"}
               /\ grant[g].state # "none" => grant'[g].expiresAt = grant[g].expiresAt
  <1>1. ASSUME TypeOK, [Next]_vars PROVE [Moves]_vars
    <2>1. CASE ListActiveBindings \/ ExpireGrants
      BY <1>1, <2>1, LapseTyping DEF ListActiveBindings, ExpireGrants
    <2>2. ASSUME NEW g \in GrantIds, NEW why \in BOOLEAN, RevokeBinding(g, why) PROVE Moves
      BY <1>1, <2>2 DEF TypeOK, RevokeBinding, Grant
    <2>3. ASSUME NEW g \in GrantIds, NEW ttl \in TTLs, IssueGrant(g, ttl) PROVE Moves
      <3>1. grant[g].state = "none"  BY <2>3 DEF IssueGrant, NoGrant
      <3>2. \A h \in GrantIds : h # g => grant'[h] = grant[h]
        BY <1>1, <2>3 DEF TypeOK, IssueGrant
      <3> QED  BY <3>1, <3>2
    <2>4. CASE UNCHANGED grant  BY <2>4
    <2> QED
      BY <1>1, <2>1, <2>2, <2>3, <2>4
      DEF Next, Tick, StopMonitor, GetGrant, CopyState, CopyLastError, vars
  <1> QED  BY <1>1, Typing, PTL DEF Spec, StatesMoveOn

-----------------------------------------------------------------------------
(* The inductive invariant.                                                *)

(* Initially there is no grant and no caller. *)
LEMMA InitIInv == ASSUME Init PROVE IInv
  <1>1. TypeOK  BY InitTypeOK
  <1> QED
    BY <1>1 DEF Init, IInv, TickIsNear, KnownIsIssued, CopyIsCurrent, Idle

(* The next tick stays within an interval of the end of every active grant. *)
LEMMA NextTickIsNear == ASSUME TypeOK, TickIsNear, [Next]_vars PROVE TickIsNear'
  <1> USE GrantConstantsOK DEF GrantConstantsOK
  <1>1. CASE Tick  BY <1>1 DEF TickIsNear, Tick
  <1>2. CASE ListActiveBindings
    <2>1. \A g \in stored : g \in GrantIds  BY DEF TypeOK
    <2> QED  BY <1>2, <2>1, LapseTyping DEF TickIsNear, ListActiveBindings
  <1>3. CASE ExpireGrants
    <2> SUFFICES ASSUME NEW g \in stored', grant'[g].state = "active"
                 PROVE  nextTick' <= grant'[g].expiresAt + Interval
      BY DEF TickIsNear
    <2>1. g \in stored /\ g \in GrantIds  BY <1>3 DEF ExpireGrants, TypeOK
    <2>2. grant'[g].expiresAt = grant[g].expiresAt /\ ~Expired(g)
      BY <1>3, <2>1, LapseTyping DEF ExpireGrants
    <2>3. grant[g].expiresAt \in Int /\ now \in Int  BY <2>1 DEF TypeOK, Grant
    <2>4. now <= grant[g].expiresAt  BY <2>2, <2>3 DEF Expired
    <2> QED  BY <1>3, <2>2, <2>3, <2>4 DEF ExpireGrants
  <1>4. CASE StopMonitor  BY <1>4 DEF TickIsNear, StopMonitor
  <1>5. ASSUME NEW g \in GrantIds, NEW why \in BOOLEAN, RevokeBinding(g, why) PROVE TickIsNear'
    BY <1>5 DEF TypeOK, TickIsNear, RevokeBinding, Grant
  <1>6. ASSUME NEW g \in GrantIds, NEW ttl \in TTLs, IssueGrant(g, ttl) PROVE TickIsNear'
    <2>1. grant'[g].createdAt = now  BY <1>6 DEF TypeOK, IssueGrant
    <2>2. \A h \in GrantIds : h # g => grant'[h] = grant[h]  BY <1>6 DEF TypeOK, IssueGrant
    <2>3. monitorUp => nextTick <= now + Interval  BY DEF TypeOK
    <2> QED  BY <1>6, <2>1, <2>2, <2>3 DEF TypeOK, TickIsNear, IssueGrant
  <1>7. CASE UNCHANGED <<stored, grant, monitorUp, nextTick>>  BY <1>7 DEF TickIsNear
  <1> QED
    BY <1>1, <1>2, <1>3, <1>4, <1>5, <1>6, <1>7
    DEF Next, GetGrant, CopyState, CopyLastError, vars

(* A grant that has been issued stays issued, and only such are looked up. *)
LEMMA NextKnown == ASSUME TypeOK, KnownIsIssued, [Next]_vars PROVE KnownIsIssued'
  <1> DEFINE Issued(g) == grant[g].state # "none"
  <1>1. \A r \in Readers : reading[r] # Idle => reading[r].id \in GrantIds  BY DEF TypeOK
  <1>2. stored \subseteq GrantIds  BY DEF TypeOK
  <1>3. CASE /\ \A g \in GrantIds : Issued(g) => grant'[g].state # "none"
             /\ \A g \in stored' \ stored : g \in GrantIds /\ grant'[g].state # "none"
             /\ UNCHANGED reading
    BY <1>1, <1>2, <1>3 DEF KnownIsIssued
  <1>4. CASE ListActiveBindings \/ ExpireGrants
    <2>1. \A g \in GrantIds : Issued(g) => grant'[g].state # "none"
      BY <1>4, LapseTyping DEF ListActiveBindings, ExpireGrants
    <2> QED  BY <1>3, <1>4, <2>1 DEF ListActiveBindings, ExpireGrants
  <1>5. ASSUME NEW g \in GrantIds, NEW why \in BOOLEAN, RevokeBinding(g, why) PROVE KnownIsIssued'
    <2>1. \A h \in GrantIds : Issued(h) => grant'[h].state # "none"
      BY <1>5 DEF TypeOK, RevokeBinding, Grant
    <2> QED  BY <1>3, <1>5, <2>1 DEF RevokeBinding
  <1>6. ASSUME NEW g \in GrantIds, NEW ttl \in TTLs, IssueGrant(g, ttl) PROVE KnownIsIssued'
    <2>1. grant'[g].state = "active" /\ \A h \in GrantIds : h # g => grant'[h] = grant[h]
      BY <1>6 DEF TypeOK, IssueGrant
    <2> QED  BY <1>3, <1>6, <2>1 DEF IssueGrant
  <1>7. ASSUME NEW r \in Readers, NEW g \in GrantIds, GetGrant(r, g) PROVE KnownIsIssued'
    <2>1. /\ reading'[r].id = g /\ \A q \in Readers : q # r => reading'[q] = reading[q]
      BY <1>7 DEF TypeOK, GetGrant
    <2> QED  BY <1>7, <2>1 DEF GetGrant, KnownIsIssued
  <1>8. ASSUME NEW r \in Readers, CopyState(r) PROVE KnownIsIssued'
    <2>1. /\ reading[r] # Idle /\ reading'[r].id = reading[r].id
          /\ \A q \in Readers : q # r => reading'[q] = reading[q]
      BY <1>8 DEF TypeOK, CopyState, Idle
    <2> QED  BY <1>8, <2>1 DEF CopyState, KnownIsIssued
  <1>9. ASSUME NEW r \in Readers, CopyLastError(r) PROVE KnownIsIssued'
    <2>1. reading'[r] = Idle /\ \A q \in Readers : q # r => reading'[q] = reading[q]
      BY <1>9 DEF TypeOK, CopyLastError
    <2> QED  BY <1>9, <2>1 DEF CopyLastError, KnownIsIssued
  <1>10. CASE UNCHANGED <<stored, grant, reading>>  BY <1>10 DEF KnownIsIssued
  <1> QED
    BY <1>4, <1>5, <1>6, <1>7, <1>8, <1>9, <1>10 DEF Next, Tick, StopMonitor, vars

(* What a caller of GetBinding has copied agrees with the grant while it    *)
(* holds Engine.mu.                                                         *)
LEMMA NextCopies == ASSUME TypeOK, KnownIsIssued, CopyIsCurrent, [Next]_vars PROVE CopyIsCurrent'
  <1> DEFINE Id(r) == reading[r].id
             Same(g) == grant'[g].state = grant[g].state
             Ages(g) == Same(g) \/ (grant[g].state = "active" /\ grant'[g].state = "expired")
  <1>1. \A r \in Readers : reading[r].step = "error" => Id(r) \in GrantIds
    BY DEF TypeOK, Idle
  <1>2. CASE UNCHANGED <<reading, status>> /\ \A r \in Readers : reading[r].step = "error" => Ages(Id(r))
    BY <1>2 DEF CopyIsCurrent
  <1>3. CASE ListActiveBindings \/ ExpireGrants
    <2>1. \A g \in GrantIds : Ages(g)  BY <1>3, LapseTyping DEF ListActiveBindings, ExpireGrants
    <2> QED  BY <1>1, <1>2, <1>3, <2>1 DEF ListActiveBindings, ExpireGrants
  <1>4. ASSUME NEW g \in GrantIds, NEW why \in BOOLEAN, RevokeBinding(g, why) PROVE CopyIsCurrent'
    <2>1. \A r \in Readers : reading[r].step # "error"  BY <1>4 DEF RevokeBinding, Idle
    <2> QED  BY <1>2, <1>4, <2>1 DEF RevokeBinding
  <1>5. ASSUME NEW g \in GrantIds, NEW ttl \in TTLs, IssueGrant(g, ttl) PROVE CopyIsCurrent'
    <2>1. grant[g].state = "none"  BY <1>5 DEF IssueGrant, NoGrant
    <2>2. \A h \in GrantIds : h # g => grant'[h] = grant[h]  BY <1>5 DEF TypeOK, IssueGrant
    <2>3. \A r \in Readers : reading[r].step = "error" => Id(r) # g
      BY <2>1 DEF KnownIsIssued, Idle
    <2> QED  BY <1>1, <1>2, <1>5, <2>2, <2>3 DEF IssueGrant
  <1>6. ASSUME NEW r \in Readers, NEW g \in GrantIds, GetGrant(r, g) PROVE CopyIsCurrent'
    <2>1. /\ reading'[r].step = "state" /\ UNCHANGED grant
          /\ \A q \in Readers : q # r => reading'[q] = reading[q] /\ status'[q] = status[q]
      BY <1>6 DEF TypeOK, GetGrant
    <2> QED  BY <2>1 DEF CopyIsCurrent
  <1>7. ASSUME NEW r \in Readers, CopyState(r) PROVE CopyIsCurrent'
    <2>1. /\ reading'[r].id = Id(r) /\ UNCHANGED grant
          /\ status'[r].state = grant[Id(r)].state
          /\ \A q \in Readers : q # r => reading'[q] = reading[q] /\ status'[q] = status[q]
      BY <1>7 DEF TypeOK, CopyState, Idle, Status
    <2> QED  BY <2>1 DEF CopyIsCurrent
  <1>8. ASSUME NEW r \in Readers, CopyLastError(r) PROVE CopyIsCurrent'
    <2>1. /\ reading'[r].step = "idle" /\ UNCHANGED grant
          /\ \A q \in Readers : q # r => reading'[q] = reading[q] /\ status'[q] = status[q]
      BY <1>8 DEF TypeOK, CopyLastError, Idle, Status
    <2> QED  BY <2>1 DEF CopyIsCurrent
  <1>9. CASE UNCHANGED <<grant, reading, status>>  BY <1>2, <1>9
  <1> QED
    BY <1>3, <1>4, <1>5, <1>6, <1>7, <1>8, <1>9 DEF Next, Tick, StopMonitor, vars

(* IInv holds in every state. *)
THEOREM Invariance == Spec => []IInv
  <1>1. Init => IInv  BY InitIInv
  <1>2. IInv /\ [Next]_vars => IInv'
    BY NextTypeOK, NextTickIsNear, NextKnown, NextCopies DEF IInv
  <1> QED  BY <1>1, <1>2, PTL DEF Spec

-----------------------------------------------------------------------------
(* What follows.                                                           *)

(* No active grant in the map outlives its expiry, or its issue if it was   *)
(* issued expired, by more than the monitor's interval while that runs: the *)
(* monitor's next tick is near and the clock has not passed it.             *)
THEOREM TimelyExpiry == Spec => []ExpiryIsTimely
  <1>1. ASSUME IInv PROVE ExpiryIsTimely
    <2> SUFFICES ASSUME monitorUp, NEW g \in stored, grant[g].state = "active"
                 PROVE  \/ now <= grant[g].expiresAt + Interval
                        \/ now <= grant[g].createdAt + Interval
      BY DEF ExpiryIsTimely
    <2>1. now <= nextTick /\ now \in Int /\ nextTick \in Int  BY <1>1 DEF IInv, TypeOK
    <2>2. grant[g].expiresAt + Interval \in Int /\ grant[g].createdAt + Interval \in Int
      BY <1>1, GrantConstantsOK DEF IInv, TypeOK, Grant, GrantConstantsOK
    <2>3. \/ nextTick <= grant[g].expiresAt + Interval
          \/ nextTick <= grant[g].createdAt + Interval
      BY <1>1 DEF IInv, TickIsNear
    <2> QED  BY <2>1, <2>2, <2>3
  <1> QED  BY <1>1, Invariance, PTL

(* When GetBinding returns, state and error are the grant's as they are at  *)
(* that moment, or it has just expired: no revocation comes in between.     *)
THEOREM CurrentStatus == Spec => StatusIsCurrent
  <1> DEFINE Current == \A r \in Readers : reading[r] # Idle /\ reading'[r] = Idle =>
               LET g == grant[reading[r].id] IN
                 /\ status'[r].lastError = g.lastError
                 /\ \/ status'[r].state = g.state
                    \/ status'[r].state = "active" /\ g.state = "expired"
  <1>1. ASSUME IInv, [Next]_vars PROVE [Current]_vars
    <2>1. ASSUME NEW r \in Readers, CopyLastError(r) PROVE Current
      <3>1. /\ status'[r].state = status[r].state
            /\ status'[r].lastError = grant[reading[r].id].lastError
            /\ \A q \in Readers : q # r => reading'[q] = reading[q]
        BY <1>1, <2>1 DEF IInv, TypeOK, CopyLastError, Status
      <3> QED  BY <1>1, <2>1, <3>1 DEF IInv, CopyIsCurrent, CopyLastError
    <2>2. ASSUME NEW r \in Readers, CopyState(r) PROVE Current
      <3>1. reading'[r].step = "error" /\ \A q \in Readers : q # r => reading'[q] = reading[q]
        BY <1>1, <2>2 DEF IInv, TypeOK, CopyState, Idle
      <3> QED  BY <3>1 DEF Idle
    <2>3. ASSUME NEW r \in Readers, NEW g \in GrantIds, GetGrant(r, g) PROVE Current
      <3>1. reading'[r].step = "state" /\ \A q \in Readers : q # r => reading'[q] = reading[q]
        BY <1>1, <2>3 DEF IInv, TypeOK, GetGrant
      <3> QED  BY <3>1 DEF Idle
    <2>4. CASE UNCHANGED reading  BY <2>4
    <2> QED
      BY <1>1, <2>1, <2>2, <2>3, <2>4
      DEF Next, Tick, ListActiveBindings, ExpireGrants, StopMonitor, RevokeBinding, IssueGrant, vars
  <1> QED  BY <1>1, Invariance, PTL DEF Spec, StatusIsCurrent

(* The monitor deletes only grants that are expired, and have been for      *)
(* Retention; nothing else deletes one.                                     *)
THEOREM ForgettingIsSafe == Spec => ForgetsOnlyOldExpired
  <1> DEFINE Forgets == \A g \in stored \ stored' :
                 grant'[g].state = "expired" /\ now > grant[g].expiresAt + Retention
  <1>1. ASSUME TypeOK, [Next]_vars PROVE [Forgets]_vars
    <2>1. CASE ExpireGrants
      <3> SUFFICES ASSUME NEW g \in stored \ stored'
                   PROVE  grant'[g].state = "expired" /\ now > grant[g].expiresAt + Retention
        OBVIOUS
      <3>1. grant'[g].state = "expired" /\ grant[g].expiresAt < now - Retention
        BY <2>1 DEF ExpireGrants
      <3>2. grant[g].expiresAt \in Int /\ now \in Int /\ Retention \in Int
        BY <1>1, GrantConstantsOK DEF TypeOK, Grant, GrantConstantsOK
      <3> QED  BY <3>1, <3>2
    <2>2. CASE stored \subseteq stored'  BY <2>2
    <2> QED
      BY <1>1, <2>1, <2>2
      DEF Next, Tick, ListActiveBindings, StopMonitor, RevokeBinding, IssueGrant, GetGrant,
          CopyState, CopyLastError, vars
  <1> QED  BY <1>1, Typing, PTL DEF Spec, ForgetsOnlyOldExpired
=============================================================================
