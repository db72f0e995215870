--------------------------- MODULE RegistryProofs ---------------------------
(* What TLAPS proves of Registry, for all values of its constants. *)
EXTENDS Registry, Induction

-----------------------------------------------------------------------------
(* The inductive invariant.                                                *)

\* The loop is yet to make the provider of service s under capability c, or to
\* write the identity of object o.
BeingStarted(s, c) == /\ handler.step = "providers" /\ handler.provider.service = s
                      /\ \E e \in Endpoints : <<c, e>> \in handler.left
BeingWritten(o)    == handler.step = "identity" /\ o \in handler.left

\* A capability has one entry of a service at most ...
Unique == \A c \in Caps, s \in Services : \A i, j \in EntriesOf(s, c) : i = j

\* ... and one of every service that has started with it and an endpoint, or is about to.
Listed == \A s \in Services : \A c \in services[s].listed :
            BeingStarted(s, c) \/ EntriesOf(s, c) # {}

\* No identity is half written but the one that the loop is writing.
Whole == \A o \in DOMAIN objects : objects[o].identity = "torn" => BeingWritten(o)

\* What the loop is about to write is what the entry of the service says.
HandlerAgrees ==
  /\ handler.step = "providers" =>
       LET p == handler.provider
           e == services[p.service]
       IN  p.available /\ p.identity # "torn" /\ e.identity = p.identity /\ ~e.revoked
  /\ handler.step = "identity" => handler.id # "torn"

\* An object whose identity the loop has still to write ...
Pending(e, o) ==
  /\ e.identity = handler.id
  /\ handler.revoke => e.revoked /\ (objects[o].identity = "torn" => ~objects[o].available)
  /\ ~handler.revoke => (e.revoked <=> ~objects[o].available)

\* ... and one that agrees with the entry of its service.
Agrees(e, o) ==
  /\ objects[o].identity = e.identity
  /\ e.revoked <=> ~objects[o].available

Agreed ==
  \A s \in Services : \A c \in services[s].listed : \A i \in EntriesOf(s, c) :
    \/ BeingStarted(s, c)
    \/ BeingWritten(providers[c][i]) /\ Pending(services[s], providers[c][i])
    \/ ~BeingWritten(providers[c][i]) /\ Agrees(services[s], providers[c][i])

Rest == Unique /\ Listed /\ Whole /\ HandlerAgrees /\ Agreed
IInv == TypeOK /\ Rest

-----------------------------------------------------------------------------
(* Typing.                                                                 *)

MemberTags == Tags(Sites) \cup {"absent"}

\* One place of the new list holds o, and the others the objects of the other services.
ReplacesEntry(list, new, s, o) ==
  /\ \E k \in DOMAIN new :
       /\ new[k] = o
       /\ \A i \in DOMAIN new \ {k} : /\ i \in DOMAIN list /\ new[i] = list[i]
                                      /\ objects[list[i]].service # s
  /\ \A i \in DOMAIN list : objects[list[i]].service # s => i \in DOMAIN new /\ new[i] = list[i]

(* Where a service's new object goes: it takes the place of the old one, or  *)
(* the place after the last.                                                *)
LEMMA WithProviderIs ==
  ASSUME NEW n \in Nat, NEW list \in Seq(1..n), NEW s, NEW o \in Nat,
         \A i, j \in DOMAIN list :
           objects[list[i]].service = s /\ objects[list[j]].service = s => i = j
  PROVE  LET new == WithProvider(list, s, o)
         IN  /\ new \in Seq((1..n) \cup {o})
             /\ ReplacesEntry(list, new, s, o)
  <1> DEFINE new == WithProvider(list, s, o)
  <1>1. list \in Seq((1..n) \cup {o})  BY SeqMonotonic
  <1>2. DOMAIN list = 1..Len(list) /\ Len(list) \in Nat  OBVIOUS
  <1>3. CASE \E k \in DOMAIN list : objects[list[k]].service = s
    <2>1. PICK k \in DOMAIN list : objects[list[k]].service = s  BY <1>3
    <2>2. new = [i \in DOMAIN list |-> IF objects[list[i]].service = s THEN o ELSE list[i]]
      BY <1>3, Zenon DEF WithProvider
    <2> HIDE DEF new
    <2>3. /\ DOMAIN new = 1..Len(list) /\ new[k] = o
          /\ \A i \in DOMAIN list : i # k => new[i] = list[i] /\ objects[list[i]].service # s
      BY <1>2, <2>1, <2>2
    <2>4. \A i \in DOMAIN list : list[i] \in 1..n  BY <1>2
    <2>5. new \in [1..Len(list) -> (1..n) \cup {o}]  BY <1>2, <2>2, <2>4
    <2>6. new \in Seq((1..n) \cup {o})  BY <1>2, <2>5, FunctionIsSeq
    <2> QED  BY <1>2, <2>1, <2>3, <2>6 DEF new, ReplacesEntry
  <1>4. CASE ~\E k \in DOMAIN list : objects[list[k]].service = s
    <2>1. new = Append(list, o)  BY <1>4, Zenon DEF WithProvider
    <2> HIDE DEF new
    <2>2. /\ new \in Seq((1..n) \cup {o}) /\ DOMAIN new = 1..(Len(list) + 1)
          /\ new[Len(list) + 1] = o /\ \A i \in 1..Len(list) : new[i] = list[i]
      BY <1>1, <1>2, <2>1
    <2>3. Len(list) + 1 \in DOMAIN new /\ \A i \in DOMAIN new \ {Len(list) + 1} : i \in 1..Len(list)
      BY <1>2, <2>2
    <2>4. \A i \in DOMAIN list : i \in DOMAIN new  BY <1>2, <2>2
    <2> QED  BY <1>2, <1>4, <2>2, <2>3, <2>4 DEF new, ReplacesEntry
  <1> QED  BY <1>3, <1>4

(* The registry is empty at first. *)
LEMMA InitTypeOK == ASSUME Init PROVE TypeOK
  <1> USE DEF Init
  <1>1. members \in [Nodes -> MemberTags]  BY DEF MemberTags
  <1>2. providers \in [Caps -> Seq(1..Len(objects))]  OBVIOUS
  <1>3. services \in [Services -> Entry \cup {NoService}] /\ objects \in Seq(Provider) /\ handler = Waiting
    OBVIOUS
  <1>4. cache \subseteq Caps /\ events \in 0..MaxEvents
    BY RegistryConstantsOK DEF RegistryConstantsOK
  <1> QED  BY <1>1, <1>2, <1>3, <1>4 DEF TypeOK, MemberTags

(* The lists of providers list objects, so a service's providers are objects. *)
LEMMA OnlyObjects ==
  ASSUME providers \in [Caps -> Seq(1..Len(objects))], NEW s \in Services
  PROVE  ProvidersOf(s) \subseteq 1..Len(objects)
  <1>1. ASSUME NEW c \in Caps, NEW i \in DOMAIN providers[c] PROVE providers[c][i] \in 1..Len(objects)
    <2> DEFINE list == providers[c]
    <2>1. list \in Seq(1..Len(objects)) /\ i \in DOMAIN list
      <3>1. providers[c] \in Seq(1..Len(objects)) /\ i \in DOMAIN providers[c]  BY <1>1
      <3> QED  BY <3>1
    <2> HIDE DEF list
    <2>2. i \in 1..Len(list)  BY <2>1, LenProperties
    <2>3. list[i] \in 1..Len(objects)  BY <2>1, <2>2, ElementOfSeq
    <2> QED  BY <2>3 DEF list
  <1>2. \A c \in Caps : ToSet(providers[c]) \subseteq 1..Len(objects)  BY <1>1 DEF ToSet
  <1> QED  BY <1>2 DEF ProvidersOf

(* An event that is handled in one step, or whose handler begins. *)
LEMMA EventTypeOK == ASSUME TypeOK, EventHandled PROVE TypeOK'
  <1> USE DEF TypeOK
  <1> DEFINE Event == handler = Waiting /\ events' \in 0..MaxEvents
  <1>0. ASSUME NEW next, Handle(next) PROVE Event /\ handler' = next
    BY <1>0, RegistryConstantsOK DEF Handle, RegistryConstantsOK
  <1>1. ASSUME NEW snapshot \in [Nodes -> MemberTags], ClusterSnapshot(snapshot) PROVE TypeOK'
    <2>1. /\ handler' \in [step : {"members"}, left : SUBSET Nodes, tags : [Nodes -> MemberTags]]
          /\ Event
      BY <1>0, <1>1 DEF ClusterSnapshot
    <2>2. providers' \in [Caps -> Seq(1..Len(objects))]  BY <1>1 DEF ClusterSnapshot
    <2>3. members' \in [Nodes -> MemberTags] /\ services' \in [Services -> Entry \cup {NoService}]
      BY <1>1 DEF ClusterSnapshot, MemberTags
    <2>4. UNCHANGED <<objects, cache>>  BY <1>1 DEF ClusterSnapshot
    <2> QED  BY <2>1, <2>2, <2>3, <2>4 DEF MemberTags
  <1>2. ASSUME NEW n \in Nodes, MemberLeft(n) PROVE TypeOK'
    BY <1>0, <1>2 DEF MemberLeft
  <1>3. ASSUME NEW n \in Nodes, NEW tags \in Tags(Sites), MemberJoined(n, tags) \/ MemberUpdated(n, tags)
        PROVE  TypeOK'
    <2>1. Event /\ handler' = Waiting  BY <1>0, <1>3 DEF MemberJoined, MemberUpdated
    <2> QED  BY <1>3, <2>1 DEF MemberJoined, MemberUpdated
  <1>4. ASSUME NEW loaded \in SUBSET Caps, CacheUpdated(loaded) PROVE TypeOK'
    <2>1. Event /\ handler' = Waiting  BY <1>0, <1>4 DEF CacheUpdated
    <2> QED  BY <1>4, <2>1 DEF CacheUpdated
  <1>5. ASSUME NEW s \in Services, ServiceStopped(s) PROVE TypeOK'
    <2>1. Event /\ handler' = Waiting  BY <1>0, <1>5 DEF ServiceStopped
    <2> QED  BY <1>5, <2>1 DEF ServiceStopped
  <1>6. ASSUME NEW s \in Services, NEW id \in Identities \cup {""}, NEW revoke \in BOOLEAN,
               Handle([step |-> "identity", left |-> ProvidersOf(s), id |-> id, revoke |-> revoke]),
               services' \in [Services -> Entry \cup {NoService}],
               UNCHANGED <<members, objects, providers, cache>>
        PROVE  TypeOK'
    <2>1. Event /\ handler' = [step |-> "identity", left |-> ProvidersOf(s), id |-> id, revoke |-> revoke]
      BY <1>0, <1>6
    <2>2. ProvidersOf(s) \subseteq 1..Len(objects)
      <3>1. providers \in [Caps -> Seq(1..Len(objects))]  OBVIOUS
      <3> HIDE DEF TypeOK
      <3> QED  BY <3>1, OnlyObjects
    <2>3. id \in Ids  BY DEF Ids
    <2>4. handler' \in [step : {"identity"}, left : SUBSET (1..Len(objects)), id : Ids, revoke : BOOLEAN]
      BY <2>1, <2>2, <2>3
    <2> QED  BY <1>6, <2>1, <2>4
  <1>7. ASSUME NEW s \in Services, NEW id \in Identities, IdentityIssued(s, id) PROVE TypeOK'
    <2>1. services' \in [Services -> Entry \cup {NoService}]
      <3>1. CASE services[s] = NoService  BY <1>7, <3>1 DEF IdentityIssued
      <3>2. CASE services[s] # NoService
        <4>1. services[s] \in Entry /\ id \in Ids  BY <3>2 DEF Ids
        <4>2. [services[s] EXCEPT !.identity = id] \in Entry  BY <4>1 DEF Entry
        <4>3. services' = [services EXCEPT ![s] = [services[s] EXCEPT !.identity = id]]
          BY <1>7, <3>2 DEF IdentityIssued
        <4> QED  BY <4>2, <4>3
      <3> QED  BY <3>1, <3>2
    <2>2. Handle([step |-> "identity", left |-> ProvidersOf(s), id |-> id, revoke |-> FALSE])
          /\ UNCHANGED <<members, objects, providers, cache>>
      BY <1>7 DEF IdentityIssued
    <2> QED  BY <1>6, <2>1, <2>2
  <1>8. ASSUME NEW s \in Services, IdentityRevoked(s) PROVE TypeOK'
    <2>1. services' \in [Services -> Entry \cup {NoService}]
      <3>1. CASE services[s] = NoService  BY <1>8, <3>1 DEF IdentityRevoked
      <3>2. CASE services[s] # NoService
        <4>1. services[s] \in Entry /\ "" \in Ids  BY <3>2 DEF Ids
        <4>2. [services[s] EXCEPT !.identity = "", !.revoked = TRUE] \in Entry  BY <4>1 DEF Entry
        <4>3. services' = [services EXCEPT ![s] = [services[s] EXCEPT !.identity = "", !.revoked = TRUE]]
          BY <1>8, <3>2 DEF IdentityRevoked
        <4> QED  BY <4>2, <4>3
      <3> QED  BY <3>1, <3>2
    <2>2. Handle([step |-> "identity", left |-> ProvidersOf(s), id |-> "", revoke |-> TRUE])
          /\ UNCHANGED <<members, objects, providers, cache>>
      BY <1>8 DEF IdentityRevoked
    <2> QED  BY <1>6, <2>1, <2>2
  <1>9. ASSUME NEW s \in Services, NEW n \in Nodes, NEW offers \in SUBSET Caps, NEW tier \in Tiers,
               NEW endpoints \in SUBSET Endpoints, NEW id \in Identities \cup {""},
               ServiceStarted(s, n, offers, endpoints, tier, id)
        PROVE  TypeOK'
    <2> DEFINE p == [service |-> s, node |-> n, tier |-> tier, identity |-> id, available |-> TRUE]
               e == [node |-> n, offers |-> offers, listed |-> {c \in offers : endpoints # {}},
                     identity |-> id, revoked |-> FALSE]
               rounds == offers \X endpoints
    <2>1. p \in Provider /\ e \in Entry /\ rounds \subseteq Caps \X Endpoints
      BY DEF Provider, Entry, Ids
    <2>2. /\ Handle([step |-> "providers", left |-> rounds, provider |-> p])
          /\ services' = [services EXCEPT ![s] = e] /\ UNCHANGED <<members, objects, providers, cache>>
      BY <1>9 DEF ServiceStarted
    <2> HIDE DEF p, e, rounds
    <2>3. handler' \in [step : {"providers"}, left : SUBSET (Caps \X Endpoints), provider : Provider] /\ Event
      <3>1. handler' = [step |-> "providers", left |-> rounds, provider |-> p] /\ Event
        BY <1>0, <2>2
      <3> QED  BY <2>1, <3>1
    <2>4. services' \in [Services -> Entry \cup {NoService}]  BY <2>1, <2>2
    <2> QED  BY <2>2, <2>3, <2>4
  <1> QED
    BY <1>1, <1>2, <1>3, <1>4, <1>5, <1>7, <1>8, <1>9 DEF EventHandled, MemberTags

(* What the loop does to an object as it writes an identity: a word of it.  *)
WriteWord(o) ==
  IF objects[o].identity # "torn"
  THEN /\ objects' = [objects EXCEPT ![o].identity = "torn", ![o].available = @ /\ ~handler.revoke]
       /\ UNCHANGED handler
  ELSE /\ objects' = [objects EXCEPT ![o].identity = handler.id]
       /\ handler' = [handler EXCEPT !.left = @ \ {o}]

(* A step of the identity's loop writes one word of one object, and no other object
   is half written. *)
LEMMA WritesWord ==
  ASSUME WriteIdentity, handler.left # {}
  PROVE  \E o \in handler.left : /\ WriteWord(o)
                                 /\ \A q \in handler.left \ {o} : objects[q].identity # "torn"
  BY Zenon DEF WriteIdentity, WriteWord

(* It changes that object, and its identity and availability only. *)
LEMMA WriteWordIs ==
  ASSUME objects \in Seq(Provider), handler.id \in Ids, handler.revoke \in BOOLEAN,
         NEW o \in 1..Len(objects), WriteWord(o)
  PROVE  /\ objects' \in Seq(Provider) /\ Len(objects') = Len(objects)
         /\ \A q \in 1..Len(objects) : q # o => objects'[q] = objects[q]
         /\ objects'[o].service = objects[o].service /\ objects'[o].node = objects[o].node
         /\ objects[o].identity # "torn" =>
              /\ objects'[o].identity = "torn"
              /\ handler.revoke => ~objects'[o].available
              /\ ~handler.revoke => (objects'[o].available <=> objects[o].available)
              /\ UNCHANGED handler
         /\ objects[o].identity = "torn" =>
              /\ objects'[o].identity = handler.id
              /\ objects'[o].available <=> objects[o].available
              /\ handler' = [handler EXCEPT !.left = handler.left \ {o}]
  <1> DEFINE p == objects[o]
             torn(b) == [p EXCEPT !.identity = "torn", !.available = b]
             whole == [p EXCEPT !.identity = handler.id]
  <1>1. p \in Provider  OBVIOUS
  <1>2. CASE p.identity # "torn"
    <2>0. UNCHANGED handler  BY <1>2, Zenon DEF WriteWord
    <2>1. PICK b \in BOOLEAN : /\ objects' = [objects EXCEPT ![o] = torn(b)]
                               /\ b = (p.available /\ ~handler.revoke)
      <3>1. objects' = [objects EXCEPT ![o].identity = "torn",
                                       ![o].available = p.available /\ ~handler.revoke]
        BY <1>2, Zenon DEF WriteWord
      <3>2. objects' = [objects EXCEPT ![o] = torn(p.available /\ ~handler.revoke)]  BY <3>1
      <3> QED  BY <3>2
    <2>2. torn(b) \in Provider /\ torn(b).service = p.service /\ torn(b).identity = "torn"
          /\ torn(b).available = b /\ torn(b).node = p.node
      BY <1>1 DEF Provider, Ids
    <2> HIDE DEF torn
    <2>3. /\ objects' \in Seq(Provider) /\ Len(objects') = Len(objects)
          /\ \A q \in 1..Len(objects) : objects'[q] = IF q = o THEN torn(b) ELSE objects[q]
      BY <2>1, <2>2, ExceptSeq
    <2>4. /\ handler.revoke => ~objects'[o].available
          /\ ~handler.revoke => (objects'[o].available <=> objects[o].available)
      BY <2>1, <2>2, <2>3
    <2> QED  BY <1>2, <2>0, <2>2, <2>3, <2>4
  <1>3. CASE p.identity = "torn"
    <2>1. objects' = [objects EXCEPT ![o] = whole]  BY <1>3, Zenon DEF WriteWord
    <2>2. handler' = [handler EXCEPT !.left = handler.left \ {o}]  BY <1>3, Zenon DEF WriteWord
    <2>3. whole \in Provider /\ whole.service = p.service /\ whole.identity = handler.id
          /\ whole.available = p.available /\ whole.node = p.node
      BY <1>1 DEF Provider
    <2> HIDE DEF whole
    <2>4. /\ objects' \in Seq(Provider) /\ Len(objects') = Len(objects)
          /\ \A q \in 1..Len(objects) : objects'[q] = IF q = o THEN whole ELSE objects[q]
      BY <2>1, <2>3, ExceptSeq
    <2> QED  BY <1>3, <2>2, <2>3, <2>4
  <1> QED  BY <1>2, <1>3

(* A round of a started service's loops is for a capability and an endpoint. *)
LEMMA StartsRound ==
  ASSUME TypeOK, StartedProvider, handler.left # {}
  PROVE  \E c \in Caps, e \in Endpoints :
           /\ <<c, e>> \in handler.left
           /\ objects' = Append(objects, handler.provider)
           /\ providers' = [providers EXCEPT
                ![c] = WithProvider(providers[c], handler.provider.service, Len(objects) + 1)]
           /\ handler' = [handler EXCEPT !.left = handler.left \ {<<c, e>>}]
  <1>1. handler.left \subseteq Caps \X Endpoints  BY DEF TypeOK, StartedProvider, Waiting
  <1>2. PICK round \in handler.left :
          /\ objects' = Append(objects, handler.provider)
          /\ providers' = [providers EXCEPT
               ![round[1]] = WithProvider(providers[round[1]], handler.provider.service, Len(objects) + 1)]
          /\ handler' = [handler EXCEPT !.left = handler.left \ {round}]
    BY DEF StartedProvider
  <1>3. PICK c \in Caps, e \in Endpoints : round = <<c, e>>  BY <1>1
  <1> QED  BY <1>2, <1>3

(* A later step of a handler. *)
LEMMA StepTypeOK == ASSUME TypeOK, Unique, HandlerStep PROVE TypeOK'
  <1> USE DEF TypeOK
  <1>1. CASE SnapshotMember
    <2>1. handler \in [step : {"members"}, left : SUBSET Nodes, tags : [Nodes -> MemberTags]]
      BY <1>1 DEF SnapshotMember, Waiting, MemberTags
    <2>2. UNCHANGED <<services, objects, providers, cache, events>>  BY <1>1 DEF SnapshotMember
    <2>3. CASE handler.left = {}  BY <1>1, <2>2, <2>3 DEF SnapshotMember
    <2>4. CASE handler.left # {}
      <3>1. PICK n \in handler.left : /\ members' = [members EXCEPT ![n] = handler.tags[n]]
                                      /\ handler' = [handler EXCEPT !.left = handler.left \ {n}]
        BY <1>1, <2>4 DEF SnapshotMember
      <3>2. handler' \in [step : {"members"}, left : SUBSET Nodes, tags : [Nodes -> MemberTags]]
        BY <2>1, <3>1
      <3>3. members' \in [Nodes -> MemberTags]
        <4>1. handler.tags \in [Nodes -> MemberTags] /\ n \in Nodes  BY <2>1, <3>1
        <4> QED  BY <3>1, <4>1 DEF MemberTags
      <3> QED  BY <2>2, <3>2, <3>3 DEF MemberTags
    <2> QED  BY <2>3, <2>4
  <1>2. CASE StartedProvider
    <2>1. handler \in [step : {"providers"}, left : SUBSET (Caps \X Endpoints), provider : Provider]
      BY <1>2 DEF StartedProvider, Waiting
    <2>2. UNCHANGED <<members, services, cache, events>>  BY <1>2 DEF StartedProvider
    <2>3. CASE handler.left = {}  BY <1>2, <2>2, <2>3 DEF StartedProvider
    <2>4. CASE handler.left # {}
      <3> DEFINE n == Len(objects)
                 s == handler.provider.service
                 new(c) == WithProvider(providers[c], s, n + 1)
      <3>1. PICK c \in Caps, e \in Endpoints :
              /\ objects' = Append(objects, handler.provider)
              /\ providers' = [providers EXCEPT ![c] = new(c)]
              /\ handler' = [handler EXCEPT !.left = handler.left \ {<<c, e>>}]
        BY <1>2, <2>4, StartsRound
      <3>2. handler.provider \in Provider /\ s \in Services /\ c \in Caps
        BY <2>1, <3>1 DEF Provider
      <3>3. handler' \in [step : {"providers"}, left : SUBSET (Caps \X Endpoints), provider : Provider]
        BY <2>1, <3>1
      <3>4. objects' \in Seq(Provider) /\ Len(objects') = n + 1 /\ n \in Nat
        BY <3>1, <3>2, AppendProperties
      <3>5. new(c) \in Seq((1..n) \cup {n + 1})
        <4>1. \A i, j \in DOMAIN providers[c] :
                objects[providers[c][i]].service = s /\ objects[providers[c][j]].service = s => i = j
          BY <3>2 DEF Unique, EntriesOf
        <4>2. providers[c] \in Seq(1..n)  BY <3>2
        <4>3. n \in Nat /\ n + 1 \in Nat  BY <3>4
        <4> HIDE DEF n, s
        <4> QED  BY <4>1, <4>2, <4>3, WithProviderIs, Zenon
      <3> HIDE DEF new
      <3>6. (1..n) \cup {n + 1} = 1..(n + 1)  BY <3>4
      <3>7. \A d \in Caps : providers[d] \in Seq(1..(n + 1))
        <4> SUFFICES ASSUME NEW d \in Caps PROVE providers[d] \in Seq(1..(n + 1))  OBVIOUS
        <4>1. providers[d] \in Seq(1..n)  OBVIOUS
        <4>2. 1..n \subseteq 1..(n + 1)  BY <3>4
        <4> HIDE DEF n, TypeOK
        <4> QED  BY <4>1, <4>2, SeqMonotonic, Zenon
      <3>8. providers' \in [Caps -> Seq(1..Len(objects'))]
        BY <3>1, <3>4, <3>5, <3>6, <3>7
      <3> QED  BY <2>2, <3>3, <3>4, <3>8
    <2> QED  BY <2>3, <2>4
  <1>3. CASE WriteIdentity
    <2>1. handler \in [step : {"identity"}, left : SUBSET (1..Len(objects)), id : Ids, revoke : BOOLEAN]
      BY <1>3 DEF WriteIdentity, Waiting
    <2>2. UNCHANGED <<members, services, providers, cache, events>>  BY <1>3 DEF WriteIdentity
    <2>3. CASE handler.left = {}  BY <1>3, <2>2, <2>3 DEF WriteIdentity
    <2>4. CASE handler.left # {}
      <3>1. PICK o \in handler.left : WriteWord(o)  BY <1>3, <2>4, WritesWord, ZenonT(40)
      <3>2. /\ objects' \in Seq(Provider) /\ Len(objects') = Len(objects)
        BY <2>1, <3>1, WriteWordIs
      <3>3. handler' \in [step : {"identity"}, left : SUBSET (1..Len(objects)), id : Ids, revoke : BOOLEAN]
        BY <2>1, <3>1, ZenonT(40) DEF WriteWord
      <3> QED  BY <2>2, <3>2, <3>3
    <2> QED  BY <2>3, <2>4
  <1> QED  BY <1>1, <1>2, <1>3 DEF HandlerStep

-----------------------------------------------------------------------------
(* The entries, their identities and the handler.                          *)

(* Nothing is listed at first. *)
LEMMA InitRest == ASSUME Init PROVE Rest
  <1>1. \A s \in Services : services[s].listed = {}  BY DEF Init, NoService
  <1>2. \A s \in Services, c \in Caps : EntriesOf(s, c) = {}  BY DEF Init, EntriesOf
  <1>3. objects = <<>> /\ handler.step = "waiting"  BY DEF Init, Waiting
  <1> QED  BY <1>1, <1>2, <1>3 DEF Rest, Unique, Listed, Whole, HandlerAgrees, Agreed

(* What a service is listed for are capabilities, and its entries point at objects. *)
LEMMA ListedAreCaps ==
  ASSUME TypeOK, NEW s \in Services, NEW c \in services[s].listed
  PROVE  c \in Caps
  <1>1. services[s] # NoService
    <2>1. NoService.listed = {}  BY DEF NoService
    <2> QED  BY <2>1
  <1>2. services[s] \in Entry  BY <1>1 DEF TypeOK
  <1> QED  BY <1>2 DEF Entry

(* Where the entries of a service point. *)
LEMMA EntryIs ==
  ASSUME TypeOK, NEW s \in Services, NEW c \in Caps, NEW i \in EntriesOf(s, c)
  PROVE  /\ providers[c][i] \in 1..Len(objects) /\ objects[providers[c][i]].service = s
         /\ i \in DOMAIN providers[c] /\ DOMAIN objects = 1..Len(objects) /\ Len(objects) \in Nat
  <1> DEFINE list == providers[c]
  <1>1. providers[c] \in Seq(1..Len(objects)) /\ objects \in Seq(Provider)  BY DEF TypeOK
  <1>2. i \in DOMAIN list /\ objects[list[i]].service = s  BY DEF EntriesOf
  <1>3. list \in Seq(1..Len(objects))  BY <1>1
  <1> HIDE DEF list
  <1>4. i \in 1..Len(list)  BY <1>2, <1>3, LenProperties
  <1>5. list[i] \in 1..Len(objects)  BY <1>3, <1>4, ElementOfSeq
  <1>6. DOMAIN objects = 1..Len(objects) /\ Len(objects) \in Nat  BY <1>1, LenProperties
  <1> QED  BY <1>2, <1>5, <1>6 DEF list

(* While objects and lists stay, so do the entries. *)
LEMMA SameEntries ==
  ASSUME UNCHANGED <<objects, providers>>, NEW s, NEW c
  PROVE  EntriesOf(s, c)' = EntriesOf(s, c)
  BY DEF EntriesOf

\* The loop has nothing left to write.
NothingLeft == handler.step \notin {"providers", "identity"} \/ handler.left = {}

(* Events and steps that make no provider and write no identity. *)
LEMMA QuietRest ==
  ASSUME Rest, UNCHANGED <<objects, providers>>, NothingLeft,
         handler'.step \notin {"providers", "identity"},
         \A s \in Services : services'[s] = services[s] \/ services'[s].listed = {}
  PROVE  Rest'
  <1> USE DEF Rest
  <1>1. /\ \A s, c : ~BeingStarted(s, c) /\ ~BeingStarted(s, c)'
        /\ \A o : ~BeingWritten(o) /\ ~BeingWritten(o)'
    BY DEF NothingLeft, BeingStarted, BeingWritten
  <1>2. Unique'  BY SameEntries DEF Unique
  <1>3. Listed'  BY <1>1, SameEntries DEF Listed
  <1>4. Whole'  BY <1>1 DEF Whole
  <1>5. HandlerAgrees'  BY DEF HandlerAgrees
  <1>6. Agreed'
    <2> SUFFICES ASSUME NEW s \in Services, NEW c \in services'[s].listed, NEW i \in EntriesOf(s, c)'
                 PROVE  Agrees(services[s], providers[c][i])'
      BY <1>1 DEF Agreed
    <2>1. services'[s] = services[s] /\ c \in services[s].listed /\ i \in EntriesOf(s, c)
      BY SameEntries
    <2>2. Agrees(services[s], providers[c][i])  BY <1>1, <2>1 DEF Agreed
    <2> QED  BY <2>1, <2>2 DEF Agrees
  <1> QED  BY <1>2, <1>3, <1>4, <1>5, <1>6

(* A snapshot clears services and providers alike. *)
LEMMA SnapshotRest ==
  ASSUME TypeOK, Rest, NEW snapshot, ClusterSnapshot(snapshot)
  PROVE  Rest'
  <1>1. /\ handler.step = "waiting" /\ handler'.step = "members"
        /\ \A s \in Services : services'[s].listed = {}
        /\ \A c \in Caps : providers'[c] = <<>>
        /\ UNCHANGED objects
    BY DEF ClusterSnapshot, Handle, Waiting, NoService
  <1>2. \A s \in Services, c \in Caps : EntriesOf(s, c)' = {}  BY <1>1 DEF EntriesOf
  <1>3. Whole'  BY <1>1 DEF Rest, Whole, BeingWritten
  <1> QED  BY <1>1, <1>2, <1>3 DEF Rest, Unique, Listed, HandlerAgrees, Agreed

(* A service is started: its entry is there, its providers are to come. *)
LEMMA StartedRest ==
  ASSUME TypeOK, Rest, NEW s \in Services, NEW n, NEW offers \in SUBSET Caps,
         NEW endpoints \in SUBSET Endpoints, NEW tier,
         NEW id \in Identities \cup {""}, ServiceStarted(s, n, offers, endpoints, tier, id)
  PROVE  Rest'
  <1> USE DEF Rest
  <1> DEFINE listed == {c \in offers : endpoints # {}}
  <1>0. UNCHANGED <<objects, providers>>  BY DEF ServiceStarted
  <1>e. \A t, c : EntriesOf(t, c)' = EntriesOf(t, c)  BY <1>0, SameEntries
  <1>1. /\ handler.step = "waiting"
        /\ handler'.step = "providers" /\ handler'.left = offers \X endpoints
        /\ handler'.provider.service = s /\ handler'.provider.identity = id
        /\ handler'.provider.available = TRUE
    BY DEF ServiceStarted, Handle, Waiting
  <1>2. /\ services'[s].listed = listed /\ services'[s].identity = id /\ services'[s].revoked = FALSE
        /\ \A t \in Services \ {s} : services'[t] = services[t]
    BY DEF ServiceStarted, TypeOK
  <1>3. /\ \A t, c : ~BeingStarted(t, c) /\ (BeingStarted(t, c)' <=> t = s /\ c \in listed)
        /\ \A o : ~BeingWritten(o) /\ ~BeingWritten(o)'
    BY <1>1 DEF BeingStarted, BeingWritten
  <1> HIDE DEF listed
  <1>4. Unique'  BY <1>e DEF Unique
  <1>5. Listed'  BY <1>2, <1>3, <1>e DEF Listed
  <1>6. Whole'  BY <1>0, <1>3 DEF Whole
  <1>7. HandlerAgrees'
    <2>1. id # "torn"  BY RegistryConstantsOK DEF RegistryConstantsOK
    <2> QED  BY <1>1, <1>2, <2>1 DEF HandlerAgrees
  <1>8. Agreed'
    <2> SUFFICES ASSUME NEW t \in Services, NEW c \in services'[t].listed, NEW i \in EntriesOf(t, c)',
                        ~BeingStarted(t, c)'
                 PROVE  Agrees(services[t], providers[c][i])'
      BY <1>3 DEF Agreed
    <2>1. services'[t] = services[t] /\ i \in EntriesOf(t, c)
      BY <1>2, <1>3, <1>e
    <2>2. Agrees(services[t], providers[c][i])  BY <1>3, <2>1 DEF Agreed
    <2> QED  BY <1>0, <2>1, <2>2 DEF Agrees
  <1> QED  BY <1>4, <1>5, <1>6, <1>7, <1>8

(* A service's identity is issued or revoked: its objects are to be written. *)
LEMMA IdentityRest ==
  ASSUME TypeOK, Rest, handler = Waiting, UNCHANGED <<objects, providers>>,
         NEW s \in Services, NEW id \in Identities \cup {""}, NEW revoke \in BOOLEAN,
         handler' = [step |-> "identity", left |-> ProvidersOf(s), id |-> id, revoke |-> revoke],
         \A t \in Services \ {s} : services'[t] = services[t],
         services'[s].listed = services[s].listed,
         services[s].listed # {} =>
           /\ services'[s].identity = id
           /\ revoke => services'[s].revoked
           /\ ~revoke => (services'[s].revoked <=> services[s].revoked)
  PROVE  Rest'
  <1> USE DEF Rest
  <1>1. handler.step = "waiting" /\ handler'.step = "identity" /\ handler'.left = ProvidersOf(s)
        /\ handler'.id = id /\ handler'.revoke = revoke
    BY DEF Waiting
  <1>2. /\ \A t, c : ~BeingStarted(t, c) /\ ~BeingStarted(t, c)'
        /\ \A o : ~BeingWritten(o) /\ (BeingWritten(o)' <=> o \in ProvidersOf(s))
    BY <1>1 DEF BeingStarted, BeingWritten
  <1>3. Unique'  BY SameEntries DEF Unique
  <1>4. Listed'
    <2>1. \A t \in Services : services'[t].listed = services[t].listed  OBVIOUS
    <2>2. \A t, c : EntriesOf(t, c)' = EntriesOf(t, c)  BY SameEntries
    <2> QED  BY <1>2, <2>1, <2>2 DEF Listed
  <1>5. \A o \in DOMAIN objects : objects[o].identity # "torn"  BY <1>2 DEF Whole
  <1>6. Whole'  BY <1>5 DEF Whole
  <1>7. HandlerAgrees'  BY <1>1, RegistryConstantsOK DEF HandlerAgrees, RegistryConstantsOK
  <1>8. Agreed'
    <2> SUFFICES ASSUME NEW t \in Services, NEW c \in services'[t].listed, NEW i \in EntriesOf(t, c)'
                 PROVE  LET o == providers[c][i]
                        IN  \/ BeingWritten(o)' /\ Pending(services[t], o)'
                            \/ ~BeingWritten(o)' /\ Agrees(services[t], o)'
      BY DEF Agreed
    <2> DEFINE o == providers[c][i]
    <2>0. o' = o  OBVIOUS
    <2>1. c \in services[t].listed /\ i \in EntriesOf(t, c)  BY SameEntries
    <2>2. Agrees(services[t], o)  BY <1>2, <2>1 DEF Agreed
    <2>3. c \in Caps  BY <2>1, ListedAreCaps
    <2>4. o \in ToSet(providers[c]) /\ objects[o].service = t  BY <2>1 DEF EntriesOf, ToSet
    <2>5. o \in DOMAIN objects
      <3>1. providers[c][i] \in 1..Len(objects) /\ DOMAIN objects = 1..Len(objects)
        BY <2>1, <2>3, EntryIs, ZenonT(40)
      <3> QED  BY <3>1
    <2> HIDE DEF o
    <2>6. CASE t = s
      <3>1. o \in ProvidersOf(s)  BY <2>3, <2>4, <2>6 DEF ProvidersOf
      <3>2. services[s].listed # {}  BY <2>1, <2>6
      <3>3. /\ services'[t].identity = handler'.id
            /\ handler'.revoke => services'[t].revoked
            /\ ~handler'.revoke => (services'[t].revoked <=> services[t].revoked)
        BY <1>1, <2>6, <3>2
      <3>4. objects'[o].identity # "torn" /\ objects'[o] = objects[o]  BY <1>5, <2>5
      <3>5. services[t].revoked <=> ~objects[o].available  BY <2>2 DEF Agrees
      <3>6. Pending(services[t], o)'  BY <2>0, <3>3, <3>4, <3>5, Zenon DEF Pending
      <3> QED  BY <1>2, <2>0, <3>1, <3>6 DEF o
    <2>7. CASE t # s
      <3>1. o \notin ProvidersOf(s)  BY <2>4, <2>7 DEF ProvidersOf
      <3>2. Agrees(services[t], o)'  BY <2>0, <2>2, <2>7 DEF Agrees
      <3> QED  BY <1>2, <2>0, <3>1, <3>2 DEF o
    <2> QED  BY <2>6, <2>7
  <1> QED  BY <1>3, <1>4, <1>6, <1>7, <1>8

(* A provider is made: it is the only one of its service under its capability,
   and the other entries stay.                                              *)
LEMMA ProviderRest ==
  ASSUME TypeOK, Rest, StartedProvider, handler.left # {}
  PROVE  Rest'
  <1> USE DEF Rest
  <1>0. PICK n \in Nat, p \in Provider, s \in Services :
          n = Len(objects) /\ p = handler.provider /\ s = handler.provider.service
    <2>1. handler \in [step : {"providers"}, left : SUBSET (Caps \X Endpoints), provider : Provider]
      BY DEF StartedProvider, TypeOK, Waiting
    <2>2. handler.provider \in Provider /\ handler.provider.service \in Services
      BY <2>1 DEF Provider
    <2>3. Len(objects) \in Nat  BY DEF TypeOK
    <2> QED  BY <2>2, <2>3
  <1> DEFINE new(c) == WithProvider(providers[c], s, n + 1)
  <1>1. handler.step = "providers" /\ handler.left \subseteq Caps \X Endpoints
        /\ handler \in [step : {"providers"}, left : SUBSET (Caps \X Endpoints), provider : Provider]
    BY DEF StartedProvider, TypeOK, Waiting
  <1>2. PICK c \in Caps, e \in Endpoints : /\ <<c, e>> \in handler.left
                                           /\ objects' = Append(objects, p)
                                           /\ providers' = [providers EXCEPT ![c] = new(c)]
                                           /\ handler' = [handler EXCEPT !.left = handler.left \ {<<c, e>>}]
    BY <1>0, StartsRound
  <1>3. UNCHANGED services  BY DEF StartedProvider
  <1>4. n \in Nat /\ DOMAIN objects = 1..n /\ DOMAIN objects' = 1..(n + 1) /\ objects'[n + 1] = p
        /\ \A o \in 1..n : objects'[o] = objects[o]
    BY <1>0, <1>1, <1>2, AppendProperties DEF TypeOK
  <1>5. /\ \A i, j \in DOMAIN providers[c] :
             objects[providers[c][i]].service = s /\ objects[providers[c][j]].service = s => i = j
        /\ providers \in [Caps -> Seq(1..n)] /\ c \in Caps
    BY <1>0, <1>1 DEF Unique, EntriesOf, TypeOK
  <1>6. \A d \in Caps : \A i \in DOMAIN providers[d] : providers[d][i] \in 1..n
    <2> SUFFICES ASSUME NEW d \in Caps, NEW i \in DOMAIN providers[d] PROVE providers[d][i] \in 1..n
      OBVIOUS
    <2> DEFINE list == providers[d]
    <2>1. list \in Seq(1..n) /\ i \in DOMAIN list  BY <1>5
    <2> HIDE DEF list
    <2>2. i \in 1..Len(list)  BY <2>1, LenProperties
    <2>3. list[i] \in 1..n  BY <2>1, <2>2, ElementOfSeq
    <2> QED  BY <2>3 DEF list
  <1>r. ReplacesEntry(providers[c], new(c), s, n + 1)
    <2>1. n + 1 \in Nat /\ providers[c] \in Seq(1..n)  BY <1>4, <1>5
    <2> QED  BY <1>5, <2>1, WithProviderIs, Zenon
  <1>7. PICK k \in DOMAIN new(c) :
          /\ new(c)[k] = n + 1
          /\ \A i \in DOMAIN new(c) \ {k} : /\ i \in DOMAIN providers[c] /\ new(c)[i] = providers[c][i]
                                            /\ objects[providers[c][i]].service # s
    BY <1>r DEF ReplacesEntry
  <1>8. \A i \in DOMAIN providers[c] : objects[providers[c][i]].service # s =>
          i \in DOMAIN new(c) /\ new(c)[i] = providers[c][i]
    BY <1>r DEF ReplacesEntry
  <1> HIDE DEF new
  <1>9. providers'[c] = new(c) /\ \A d \in Caps : d # c => providers'[d] = providers[d]
    BY <1>2, <1>5
  <1>10. EntriesOf(s, c)' = {k} /\ providers'[c][k] = n + 1
    <2>1. k \in EntriesOf(s, c)'  BY <1>0, <1>4, <1>7, <1>9 DEF EntriesOf
    <2>2. ASSUME NEW i \in EntriesOf(s, c)', i # k PROVE FALSE
      <3>1. i \in DOMAIN providers[c] /\ providers'[c][i] = providers[c][i]
            /\ objects[providers[c][i]].service # s
        BY <1>7, <1>9, <2>2 DEF EntriesOf
      <3>2. objects'[providers[c][i]] = objects[providers[c][i]]  BY <1>4, <1>5, <1>6, <3>1
      <3> QED  BY <2>2, <3>1, <3>2 DEF EntriesOf
    <2> QED  BY <1>7, <1>9, <2>1, <2>2
  <1>11. ASSUME NEW t \in Services, NEW d \in Caps, t # s \/ d # c
         PROVE  /\ EntriesOf(t, d)' = EntriesOf(t, d)
                /\ \A i \in EntriesOf(t, d) : /\ providers'[d][i] = providers[d][i]
                                              /\ objects'[providers[d][i]] = objects[providers[d][i]]
    <2>1. CASE d # c
      <3>1. providers'[d] = providers[d]  BY <1>9, <2>1
      <3>2. \A i \in DOMAIN providers[d] : objects'[providers[d][i]] = objects[providers[d][i]]
        BY <1>4, <1>6
      <3> QED  BY <3>1, <3>2 DEF EntriesOf
    <2>2. CASE d = c
      <3>0. t # s  BY <1>11, <2>2
      <3>1. ASSUME NEW i \in EntriesOf(t, c)
            PROVE  /\ i \in EntriesOf(t, c)' /\ providers'[c][i] = providers[c][i]
                   /\ objects'[providers[c][i]] = objects[providers[c][i]]
        <4>1. i \in DOMAIN providers[c] /\ objects[providers[c][i]].service = t  BY <3>1 DEF EntriesOf
        <4>2. i \in DOMAIN new(c) /\ new(c)[i] = providers[c][i]  BY <1>8, <3>0, <4>1
        <4>3. objects'[providers[c][i]] = objects[providers[c][i]]  BY <1>4, <1>5, <1>6, <4>1
        <4> QED  BY <1>9, <4>1, <4>2, <4>3 DEF EntriesOf
      <3>2. ASSUME NEW i \in EntriesOf(t, c)' PROVE i \in EntriesOf(t, c)
        <4>1. i \in DOMAIN new(c) /\ objects'[new(c)[i]].service = t  BY <1>9, <3>2 DEF EntriesOf
        <4>2. i # k  BY <1>0, <1>4, <1>7, <3>0, <4>1
        <4>3. i \in DOMAIN providers[c] /\ new(c)[i] = providers[c][i]  BY <1>7, <4>1, <4>2
        <4>4. objects'[providers[c][i]] = objects[providers[c][i]]  BY <1>4, <1>5, <1>6, <4>3
        <4> QED  BY <4>1, <4>3, <4>4 DEF EntriesOf
      <3> QED  BY <2>2, <3>1, <3>2
    <2> QED  BY <2>1, <2>2
  <1>12. /\ handler'.step = "providers" /\ handler'.provider = p /\ handler'.left = handler.left \ {<<c, e>>}
    BY <1>0, <1>1, <1>2
  <1>13. /\ \A t, d : t # s \/ d # c => (BeingStarted(t, d)' <=> BeingStarted(t, d))
         /\ \A o : ~BeingWritten(o) /\ ~BeingWritten(o)'
    BY <1>0, <1>1, <1>12 DEF BeingStarted, BeingWritten
  <1>14. Unique'
    <2> SUFFICES ASSUME NEW d \in Caps, NEW t \in Services, NEW i \in EntriesOf(t, d)',
                        NEW j \in EntriesOf(t, d)'
                 PROVE  i = j
      BY DEF Unique
    <2>1. CASE t = s /\ d = c  BY <1>10, <2>1
    <2>2. CASE t # s \/ d # c  BY <1>11, <2>2 DEF Unique
    <2> QED  BY <2>1, <2>2
  <1>15. Listed'
    <2> SUFFICES ASSUME NEW t \in Services, NEW d \in services'[t].listed, ~BeingStarted(t, d)'
                 PROVE  EntriesOf(t, d)' # {}
      BY DEF Listed
    <2>0. d \in services[t].listed /\ d \in Caps  BY <1>3, ListedAreCaps
    <2>1. CASE t = s /\ d = c  BY <1>10, <2>1
    <2>2. CASE t # s \/ d # c
      <3>1. ~BeingStarted(t, d)  BY <1>13, <2>2
      <3> QED  BY <1>11, <2>0, <2>2, <3>1 DEF Listed
    <2> QED  BY <2>1, <2>2
  <1>16. p.available /\ p.identity # "torn" /\ services[s].identity = p.identity
         /\ ~services[s].revoked
    BY <1>0, <1>1 DEF HandlerAgrees
  <1>17. Whole'
    <2> SUFFICES ASSUME NEW o \in 1..(n + 1) PROVE objects'[o].identity # "torn"  BY <1>4 DEF Whole
    <2>1. CASE o = n + 1  BY <1>4, <1>16, <2>1
    <2>2. CASE o # n + 1
      <3>1. o \in 1..n  BY <1>4, <2>2
      <3> QED  BY <1>4, <1>13, <3>1 DEF Whole
    <2> QED  BY <2>1, <2>2
  <1>18. HandlerAgrees'  BY <1>0, <1>3, <1>12, <1>16 DEF HandlerAgrees
  <1>19. Agreed'
    <2> SUFFICES ASSUME NEW t \in Services, NEW d \in services'[t].listed, NEW i \in EntriesOf(t, d)',
                        ~BeingStarted(t, d)'
                 PROVE  Agrees(services[t], providers[d][i])'
      BY <1>13 DEF Agreed
    <2>0. d \in services[t].listed /\ d \in Caps  BY <1>3, ListedAreCaps
    <2>1. CASE t = s /\ d = c
      <3>1. providers'[d][i] = n + 1  BY <1>10, <2>1
      <3>2. objects'[n + 1] = p  BY <1>4
      <3> QED  BY <1>3, <1>16, <2>1, <3>1, <3>2 DEF Agrees
    <2>2. CASE t # s \/ d # c
      <3>1. ~BeingStarted(t, d)  BY <1>13, <2>2
      <3>2. i \in EntriesOf(t, d) /\ providers'[d][i] = providers[d][i]
            /\ objects'[providers[d][i]] = objects[providers[d][i]]
        BY <1>11, <2>0, <2>2
      <3>3. Agrees(services[t], providers[d][i])  BY <1>13, <2>0, <3>1, <3>2 DEF Agreed
      <3> QED  BY <1>3, <3>2, <3>3 DEF Agrees
    <2> QED  BY <2>1, <2>2
  <1> QED  BY <1>14, <1>15, <1>17, <1>18, <1>19

(* While the lists stay and an object's identity is written, so do the entries. *)
LEMMA WrittenEntries ==
  ASSUME TypeOK, UNCHANGED providers, NEW o \in 1..Len(objects),
         \A q \in 1..Len(objects) : q # o => objects'[q] = objects[q],
         objects'[o].service = objects[o].service,
         NEW s \in Services, NEW c \in Caps
  PROVE  EntriesOf(s, c)' = EntriesOf(s, c)
  <1>1. \A i \in DOMAIN providers[c] : providers[c][i] \in 1..Len(objects)
    <2> SUFFICES ASSUME NEW i \in DOMAIN providers[c] PROVE providers[c][i] \in 1..Len(objects)
      OBVIOUS
    <2> DEFINE list == providers[c]
    <2>1. list \in Seq(1..Len(objects)) /\ i \in DOMAIN list  BY DEF TypeOK
    <2> HIDE DEF list
    <2>2. i \in 1..Len(list)  BY <2>1, LenProperties
    <2>3. list[i] \in 1..Len(objects)  BY <2>1, <2>2, ElementOfSeq
    <2> QED  BY <2>3 DEF list
  <1>2. \A q \in 1..Len(objects) : objects'[q].service = objects[q].service  OBVIOUS
  <1> QED  BY <1>1, <1>2 DEF EntriesOf

(* The first word: the identity is torn, and the object unavailable if it is revoked. *)
LEMMA TornRest ==
  ASSUME TypeOK, Rest, UNCHANGED <<services, providers>>, UNCHANGED handler,
         handler.step = "identity", NEW o \in handler.left, o \in 1..Len(objects),
         objects' \in Seq(Provider), Len(objects') = Len(objects),
         \A q \in 1..Len(objects) : q # o => objects'[q] = objects[q],
         objects'[o].service = objects[o].service,
         objects'[o].identity = "torn",
         handler.revoke => ~objects'[o].available,
         ~handler.revoke => (objects'[o].available <=> objects[o].available)
  PROVE  Rest'
  <1> USE DEF Rest
  <1>e. \A s \in Services, c \in Caps : EntriesOf(s, c)' = EntriesOf(s, c)
    BY WrittenEntries
  <1>1. /\ \A s, c : ~BeingStarted(s, c) /\ ~BeingStarted(s, c)'
        /\ \A q : (BeingWritten(q)' <=> BeingWritten(q)) /\ (BeingWritten(q) <=> q \in handler.left)
    BY DEF BeingStarted, BeingWritten
  <1>2. Unique'  BY <1>e DEF Unique
  <1>3. Listed'  BY <1>1, <1>e, ListedAreCaps DEF Listed
  <1>4. DOMAIN objects = 1..Len(objects) /\ DOMAIN objects' = 1..Len(objects)
    BY LenProperties DEF TypeOK
  <1>5. Whole'  BY <1>1, <1>4 DEF Whole
  <1>6. HandlerAgrees'  BY DEF HandlerAgrees
  <1>7. Agreed'
    <2> SUFFICES ASSUME NEW s \in Services, NEW c \in services'[s].listed, NEW i \in EntriesOf(s, c)'
                 PROVE  LET q == providers[c][i]
                        IN  \/ BeingWritten(q)' /\ Pending(services[s], q)'
                            \/ ~BeingWritten(q)' /\ Agrees(services[s], q)'
      BY DEF Agreed
    <2> DEFINE q == providers[c][i]
    <2>0. q' = q /\ services'[s] = services[s] /\ c \in services[s].listed /\ c \in Caps
      BY ListedAreCaps
    <2>1. i \in EntriesOf(s, c)  BY <1>e, <2>0
    <2>2. q \in 1..Len(objects)  BY <2>0, <2>1, EntryIs
    <2>3. \/ BeingWritten(q) /\ Pending(services[s], q)
          \/ ~BeingWritten(q) /\ Agrees(services[s], q)
      BY <1>1, <2>0, <2>1 DEF Agreed
    <2> HIDE DEF q
    <2>4. CASE q = o
      <3>1. BeingWritten(q) /\ Pending(services[s], q)  BY <1>1, <2>3, <2>4
      <3>2. Pending(services[s], q)'  BY <2>0, <2>4, <3>1, Zenon DEF Pending
      <3> QED  BY <1>1, <2>0, <3>1, <3>2 DEF q
    <2>5. CASE q # o
      <3>1. objects'[q] = objects[q]  BY <2>2, <2>5
      <3>2. /\ Pending(services[s], q) => Pending(services[s], q)'
            /\ Agrees(services[s], q) => Agrees(services[s], q)'
        BY <2>0, <3>1, Zenon DEF Pending, Agrees
      <3>3. BeingWritten(q)' <=> BeingWritten(q)  BY <1>1, <2>0
      <3> QED  BY <2>0, <2>3, <3>2, <3>3 DEF q
    <2> QED  BY <2>4, <2>5
  <1> QED  BY <1>2, <1>3, <1>5, <1>6, <1>7

(* The second word: the identity is whole, and the object agrees with the entry. *)
LEMMA WrittenRest ==
  ASSUME TypeOK, Rest, UNCHANGED <<services, providers>>,
         handler.step = "identity", NEW o \in handler.left, o \in 1..Len(objects),
         handler'.step = "identity", handler'.left = handler.left \ {o},
         handler'.id = handler.id, handler'.revoke = handler.revoke,
         objects' \in Seq(Provider), Len(objects') = Len(objects),
         \A q \in 1..Len(objects) : q # o => objects'[q] = objects[q],
         objects'[o].service = objects[o].service,
         objects[o].identity = "torn",
         objects'[o].identity = handler.id,
         objects'[o].available <=> objects[o].available
  PROVE  Rest'
  <1> USE DEF Rest
  <1>e. \A s \in Services, c \in Caps : EntriesOf(s, c)' = EntriesOf(s, c)
    BY WrittenEntries
  <1>1. /\ \A s, c : ~BeingStarted(s, c) /\ ~BeingStarted(s, c)'
        /\ \A q : (BeingWritten(q)' <=> q \in handler.left \ {o}) /\ (BeingWritten(q) <=> q \in handler.left)
    BY DEF BeingStarted, BeingWritten
  <1>2. Unique'  BY <1>e DEF Unique
  <1>3. Listed'  BY <1>1, <1>e, ListedAreCaps DEF Listed
  <1>4. DOMAIN objects = 1..Len(objects) /\ DOMAIN objects' = 1..Len(objects)
    BY LenProperties DEF TypeOK
  <1>5. handler.id # "torn"  BY DEF HandlerAgrees
  <1>6. Whole'
    <2> SUFFICES ASSUME NEW q \in 1..Len(objects), objects'[q].identity = "torn"
                 PROVE  q \in handler.left \ {o}
      BY <1>1, <1>4 DEF Whole
    <2>1. q # o  BY <1>5
    <2> QED  BY <1>1, <1>4, <2>1 DEF Whole
  <1>7. HandlerAgrees'  BY <1>5 DEF HandlerAgrees
  <1>8. Agreed'
    <2> SUFFICES ASSUME NEW s \in Services, NEW c \in services'[s].listed, NEW i \in EntriesOf(s, c)'
                 PROVE  LET q == providers[c][i]
                        IN  \/ BeingWritten(q)' /\ Pending(services[s], q)'
                            \/ ~BeingWritten(q)' /\ Agrees(services[s], q)'
      BY DEF Agreed
    <2> DEFINE q == providers[c][i]
    <2>0. q' = q /\ services'[s] = services[s] /\ c \in services[s].listed /\ c \in Caps
      BY ListedAreCaps
    <2>1. i \in EntriesOf(s, c)  BY <1>e, <2>0
    <2>2. q \in 1..Len(objects)  BY <2>0, <2>1, EntryIs
    <2>3. \/ BeingWritten(q) /\ Pending(services[s], q)
          \/ ~BeingWritten(q) /\ Agrees(services[s], q)
      BY <1>1, <2>0, <2>1 DEF Agreed
    <2>t. services[s].revoked \in BOOLEAN /\ objects[o].available \in BOOLEAN /\ handler.revoke \in BOOLEAN
      <3>1. objects[o] \in Provider  BY DEF TypeOK
      <3>2. services[s] \in Entry \/ services[s] = NoService  BY DEF TypeOK
      <3>3. services[s].revoked \in BOOLEAN
        <4>1. NoService.revoked \in BOOLEAN  BY DEF NoService
        <4>2. services[s] \in Entry => services[s].revoked \in BOOLEAN  BY DEF Entry
        <4> QED  BY <3>2, <4>1, <4>2
      <3>4. handler.revoke \in BOOLEAN  BY DEF TypeOK, Waiting
      <3> QED  BY <3>1, <3>3, <3>4 DEF Provider
    <2> HIDE DEF q
    <2>4. CASE q = o
      <3>1. Pending(services[s], o)  BY <1>1, <2>3, <2>4
      <3>2. services[s].identity = handler.id  BY <3>1 DEF Pending
      <3>3. services[s].revoked <=> ~objects[o].available
        <4>1. CASE handler.revoke  BY <3>1, <4>1 DEF Pending
        <4>2. CASE ~handler.revoke  BY <3>1, <4>2 DEF Pending
        <4> QED  BY <4>1, <4>2
      <3>4. Agrees(services[s], q)'  BY <2>0, <2>4, <3>2, <3>3, Zenon DEF Agrees
      <3>5. ~BeingWritten(q)'  BY <1>1, <2>0, <2>4
      <3> QED  BY <2>0, <3>4, <3>5 DEF q
    <2>5. CASE q # o
      <3>1. objects'[q] = objects[q]  BY <2>2, <2>5
      <3>2. /\ Pending(services[s], q) => Pending(services[s], q)'
            /\ Agrees(services[s], q) => Agrees(services[s], q)'
        BY <2>0, <3>1, Zenon DEF Pending, Agrees
      <3>3. BeingWritten(q)' <=> BeingWritten(q)  BY <1>1, <2>0, <2>5
      <3> QED  BY <2>0, <2>3, <3>2, <3>3 DEF q
    <2> QED  BY <2>4, <2>5
  <1> QED  BY <1>2, <1>3, <1>6, <1>7, <1>8

(* A word of an identity is written. *)
LEMMA WriteRest ==
  ASSUME TypeOK, Rest, WriteIdentity, handler.left # {}
  PROVE  Rest'
  <1> USE DEF Rest
  <1>1. handler \in [step : {"identity"}, left : SUBSET (1..Len(objects)), id : Ids, revoke : BOOLEAN]
        /\ objects \in Seq(Provider)
    BY DEF WriteIdentity, TypeOK, Waiting
  <1>2. UNCHANGED <<services, providers>>  BY DEF WriteIdentity
  <1>3. PICK o \in handler.left : WriteWord(o)  BY WritesWord
  <1>4. /\ objects' \in Seq(Provider) /\ Len(objects') = Len(objects)
        /\ \A q \in 1..Len(objects) : q # o => objects'[q] = objects[q]
        /\ objects'[o].service = objects[o].service
    BY <1>1, <1>3, WriteWordIs
  <1>5. CASE objects[o].identity # "torn"
    <2>1. /\ objects'[o].identity = "torn"
          /\ handler.revoke => ~objects'[o].available
          /\ ~handler.revoke => (objects'[o].available <=> objects[o].available)
          /\ handler' = handler
      BY <1>1, <1>3, <1>5, WriteWordIs
    <2> QED  BY <1>1, <1>2, <1>3, <1>4, <2>1, TornRest
  <1>6. CASE objects[o].identity = "torn"
    <2>1. /\ objects'[o].identity = handler.id
          /\ objects'[o].available <=> objects[o].available
          /\ handler' = [handler EXCEPT !.left = handler.left \ {o}]
      BY <1>1, <1>3, <1>6, WriteWordIs
    <2> QED  BY <1>1, <1>2, <1>3, <1>4, <1>6, <2>1, WrittenRest
  <1> QED  BY <1>5, <1>6

(* Every event and every step keeps the invariant. *)
LEMMA InitIInv == ASSUME Init PROVE IInv
  BY InitTypeOK, InitRest DEF IInv

(* An event that is handled, or whose handler begins, keeps the invariant. *)
LEMMA EventRest == ASSUME TypeOK, Rest, EventHandled PROVE Rest'
  <1>0. handler = Waiting /\ handler.step = "waiting"
    <2>1. handler = Waiting
      BY Zenon DEF EventHandled, ClusterSnapshot, MemberLeft, MemberJoined, MemberUpdated, CacheUpdated,
                   ServiceStopped, IdentityRevoked, IdentityIssued, ServiceStarted, Handle
    <2> QED  BY <2>1 DEF Waiting
  <1>1. ASSUME UNCHANGED <<objects, providers>>, handler' = Waiting,
               \A s \in Services : services'[s] = services[s] \/ services'[s].listed = {}
        PROVE  Rest'
    BY <1>0, <1>1, QuietRest DEF NothingLeft, Waiting
  <1>2. ASSUME NEW n \in Nodes, NEW tags \in Tags(Sites),
               MemberLeft(n) \/ MemberJoined(n, tags) \/ MemberUpdated(n, tags)
        PROVE  Rest'
    BY <1>1, <1>2 DEF MemberLeft, MemberJoined, MemberUpdated, Handle
  <1>3. ASSUME NEW n \in Nodes, MemberLeft(n) PROVE Rest'
    BY <1>1, <1>3 DEF MemberLeft, Handle
  <1>4. ASSUME NEW loaded \in SUBSET Caps, CacheUpdated(loaded) PROVE Rest'
    BY <1>1, <1>4 DEF CacheUpdated, Handle
  <1>5. ASSUME NEW s \in Services, ServiceStopped(s) PROVE Rest'
    <2>1. \A t \in Services : services'[t] = services[t] \/ services'[t] = NoService
      BY <1>5 DEF ServiceStopped, TypeOK
    <2>2. \A t \in Services : services'[t] = services[t] \/ services'[t].listed = {}
      <3>1. NoService.listed = {}  BY DEF NoService
      <3> QED  BY <2>1, <3>1
    <2> QED  BY <1>1, <1>5, <2>2 DEF ServiceStopped, Handle
  <1>6. ASSUME NEW s \in Services, NEW id \in Identities, IdentityIssued(s, id) PROVE Rest'
    <2>1. /\ handler' = [step |-> "identity", left |-> ProvidersOf(s), id |-> id, revoke |-> FALSE]
          /\ UNCHANGED <<objects, providers>>
          /\ services' = IF services[s] = NoService THEN services
                         ELSE [services EXCEPT ![s].identity = id]
      BY <1>6 DEF IdentityIssued, Handle
    <2>2. services[s] \in Entry \/ services[s] = NoService  BY DEF TypeOK
    <2>3. /\ \A t \in Services \ {s} : services'[t] = services[t]
          /\ services'[s].listed = services[s].listed
          /\ services'[s].revoked = services[s].revoked
          /\ services[s].listed # {} => services'[s].identity = id
      <3>1. CASE services[s] = NoService
        <4>1. NoService.listed = {}  BY DEF NoService
        <4> QED  BY <2>1, <3>1, <4>1
      <3>2. CASE services[s] # NoService  BY <2>1, <2>2, <3>2 DEF Entry, TypeOK
      <3> QED  BY <3>1, <3>2
    <2> QED  BY <1>0, <2>1, <2>3, IdentityRest
  <1>7. ASSUME NEW s \in Services, IdentityRevoked(s) PROVE Rest'
    <2>1. /\ handler' = [step |-> "identity", left |-> ProvidersOf(s), id |-> "", revoke |-> TRUE]
          /\ UNCHANGED <<objects, providers>>
          /\ services' = IF services[s] = NoService THEN services
                         ELSE [services EXCEPT ![s].identity = "", ![s].revoked = TRUE]
      BY <1>7 DEF IdentityRevoked, Handle
    <2>2. services[s] \in Entry \/ services[s] = NoService  BY DEF TypeOK
    <2>3. /\ \A t \in Services \ {s} : services'[t] = services[t]
          /\ services'[s].listed = services[s].listed
          /\ services[s].listed # {} => services'[s].identity = "" /\ services'[s].revoked
      <3>1. CASE services[s] = NoService
        <4>1. NoService.listed = {}  BY DEF NoService
        <4> QED  BY <2>1, <3>1, <4>1
      <3>2. CASE services[s] # NoService  BY <2>1, <2>2, <3>2 DEF Entry, TypeOK
      <3> QED  BY <3>1, <3>2
    <2> QED  BY <1>0, <2>1, <2>3, IdentityRest
  <1> QED
    BY <1>2, <1>3, <1>4, <1>5, <1>6, <1>7, SnapshotRest, StartedRest DEF EventHandled

(* A step of the handler that has begun keeps it. *)
LEMMA StepRest == ASSUME TypeOK, Rest, HandlerStep PROVE Rest'
  <1>1. CASE SnapshotMember
    <2>1. handler.step = "members" /\ handler'.step \notin {"providers", "identity"}
          /\ UNCHANGED <<services, objects, providers>>
      <3>1. handler \in [step : {"members"}, left : SUBSET Nodes, tags : [Nodes -> MemberTags]]
        BY <1>1 DEF SnapshotMember, Waiting, MemberTags, TypeOK
      <3> QED  BY <1>1, <3>1 DEF SnapshotMember, Waiting
    <2> QED  BY <2>1, QuietRest DEF NothingLeft
  <1>2. CASE (StartedProvider \/ WriteIdentity) /\ handler.left = {}
    <2>1. handler' = Waiting /\ UNCHANGED <<services, objects, providers>>
      BY <1>2 DEF StartedProvider, WriteIdentity
    <2> QED  BY <1>2, <2>1, QuietRest DEF NothingLeft, Waiting
  <1> QED  BY <1>1, <1>2, ProviderRest, WriteRest DEF HandlerStep

(* Every step does. *)
LEMMA NextIInv == ASSUME IInv, [Next]_registryVars PROVE IInv'
  <1>1. CASE EventHandled  BY <1>1, EventTypeOK, EventRest DEF IInv
  <1>2. CASE HandlerStep  BY <1>2, StepTypeOK, StepRest DEF IInv, Rest
  <1>3. CASE OutOfEvents \/ UNCHANGED registryVars
    <2>1. UNCHANGED <<members, services, objects, providers, cache, handler, events>>
      BY <1>3 DEF OutOfEvents, registryVars, dirVars
    <2>2. TypeOK'  BY <2>1 DEF IInv, TypeOK
    <2>3. Unique' /\ Listed' /\ Whole' /\ HandlerAgrees'
      BY <2>1 DEF IInv, Rest, Unique, Listed, Whole, HandlerAgrees, EntriesOf, BeingStarted, BeingWritten
    <2>4. Agreed'
      BY <2>1 DEF IInv, Rest, Agreed, EntriesOf, BeingStarted, BeingWritten, Pending, Agrees
    <2> QED  BY <2>2, <2>3, <2>4 DEF IInv, Rest
  <1> QED  BY <1>1, <1>2, <1>3 DEF Next

-----------------------------------------------------------------------------
(* The theorems.                                                           *)

(* The lists, the objects, the entries and what the handler still has to do agree in
   every reachable state. *)
THEOREM Invariance == Spec => []IInv
  <1>1. Init => IInv  BY InitIInv
  <1>2. IInv /\ [Next]_registryVars => IInv'  BY NextIInv
  <1> QED  BY <1>1, <1>2, PTL DEF Spec

(* In every state every variable has its type: a list points at objects that exist. *)
THEOREM Typing == Spec => []TypeOK
  <1>1. IInv => TypeOK  BY DEF IInv
  <1> QED  BY <1>1, Invariance, PTL

(* A capability lists each service at most once. *)
THEOREM NoDuplicates == Spec => []ListedOnce
  <1>1. ASSUME IInv PROVE ListedOnce
    <2> SUFFICES ASSUME NEW c \in Caps, NEW s \in Services PROVE Cardinality(EntriesOf(s, c)) <= 1
      BY DEF ListedOnce
    <2>1. CASE EntriesOf(s, c) = {}
      <3>1. Cardinality({}) = 0  BY FS_EmptySet
      <3> QED  BY <2>1, <3>1
    <2>2. CASE EntriesOf(s, c) # {}
      <3>1. PICK i : i \in EntriesOf(s, c)  BY <2>2
      <3>2. EntriesOf(s, c) = {i}  BY <1>1, <3>1 DEF IInv, Rest, Unique
      <3>3. Cardinality({i}) = 1  BY FS_Singleton
      <3> QED  BY <3>2, <3>3
    <2> QED  BY <2>1, <2>2
  <1> QED  BY <1>1, Invariance, PTL

(* Between two events a running service that has started with an endpoint is listed
   under all that it started with.                                          *)
THEOREM NoServiceMissing == Spec => []ServicesAreListed
  <1>1. ASSUME IInv PROVE ServicesAreListed
    <2>1. handler = Waiting => \A s, c : ~BeingStarted(s, c)  BY DEF BeingStarted, Waiting
    <2> QED  BY <1>1, <2>1 DEF IInv, Rest, Listed, ServicesAreListed
  <1> QED  BY <1>1, Invariance, PTL

(* Between two events a service's entry and the objects of its last start agree on
   identity and revocation.                                                 *)
THEOREM IdentitiesStayTogether == Spec => []IdentitiesAgree
  <1>1. ASSUME IInv PROVE IdentitiesAgree
    <2>1. handler = Waiting => /\ \A s, c : ~BeingStarted(s, c)
                               /\ \A o : ~BeingWritten(o)
      BY DEF BeingStarted, BeingWritten, Waiting
    <2> QED  BY <1>1, <2>1 DEF IInv, Rest, Agreed, Agrees, IdentitiesAgree
  <1> QED  BY <1>1, Invariance, PTL

=============================================================================
