--------------------------- MODULE LinkServiceProofs ---------------------------
(* What TLAPS proves of LinkService, for all values of its constants.      *)
EXTENDS LinkService, SequenceTheorems, TLAPS

-----------------------------------------------------------------------------
(* The links: the inductive invariant.                                     *)

LinkTypeOK ==
  /\ call \in Call /\ call.made <= Len(tunnels) + Len(binds) /\ call.attempt <= MaxAttempts
  /\ reports \in [Links -> Report] /\ requests \in 0..MaxRequests /\ ctxDone \in BOOLEAN
  /\ tunnels \in Seq(Tunnel) /\ activeTunnels \in [Links -> 0..Len(tunnels)] /\ closed \in BOOLEAN
  /\ binds \in Seq(Bind) /\ active \in [Links -> 0..Len(binds)]

\* A call is for a link, has made nothing at first and at last, and another
\* attempt is left while the initiator waits.
CallStands ==
  /\ call.op # "none" => call.link \in Links
  /\ call.step \in {"start", "report"} => call.made = 0
  /\ call.step = "backoff" => call.attempt < MaxAttempts

\* Tunnels and binds are made for links of their provider's kinds, and the tables
\* have each link's own.
TablesMatch ==
  /\ \A t \in DOMAIN tunnels : Kind[tunnels[t].link] \in Exposed
  /\ \A l \in Links : activeTunnels[l] # 0 => tunnels[activeTunnels[l]].link = l
  /\ \A b \in DOMAIN binds : Kind[binds[b].link] \in Channels
  /\ \A l \in Links : active[l] # 0 => binds[active[l]].link = l

Busy(op, steps, kinds) == call.op = op /\ call.step \in steps /\ Kind[call.link] \in kinds

\* While a tunnel is made its exposure is not in the table, and nothing is
\* forwarded: a failure then has no more than the client to close.
TunnelIsNew ==
  /\ Busy("bind", {"proxy", "connect", "dial", "forward"}, Exposed) =>
       /\ call.made \in DOMAIN tunnels /\ tunnels[call.made].link = call.link
       /\ activeTunnels[call.link] = 0 /\ tunnels[call.made].forward = "none"
       /\ call.step \in {"proxy", "connect"} => tunnels[call.made].client = "none"
  /\ Busy("unbind", {"wait"}, Exposed) => activeTunnels[call.link] = 0

\* The same of a channel: no relay runs before it is in the table, and every
\* attempt begins without a connection.
BindIsNew ==
  /\ Busy("bind", {"dial", "backoff", "establish"}, Channels) =>
       /\ call.made \in DOMAIN binds /\ binds[call.made].link = call.link
       /\ active[call.link] = 0 /\ binds[call.made].relay = "none"
       /\ call.step \in {"dial", "backoff"} => binds[call.made].remote # "open"
  /\ Busy("bind", {"ready"}, Channels) => active[call.link] = call.made /\ call.made # 0

Bound(l) == activeTunnels[l] # 0 \/ active[l] # 0

\* What is about to be reported is what the tables say.
OutcomeIsTrue ==
  call.op # "none" /\ call.step = "report" =>
    /\ call.op = "bind" /\ call.ok => Bound(call.link)
    /\ call.op = "bind" /\ ~call.ok /\ Kind[call.link] \in Exposed => ~Bound(call.link)
    /\ call.op = "unbind" => ~Bound(call.link)

\* ReportedAsIs of one link: no link is excepted but the one a call is for.
ReportIsTrue(l) ==
  /\ reports[l].status = "bound" => Bound(l)
  /\ reports[l].status \in {"unbound", "unbindFailed"} => ~Bound(l)
  /\ reports[l].status = "bindFailed" /\ Kind[l] \in Exposed => ~Bound(l)
  /\ reports[l].addr # 0 => reports[l].addr = active[l]

ReportsAreTrue == \A l \in Links : call.op = "none" \/ call.link # l => ReportIsTrue(l)

LinkIInv ==
  /\ LinkTypeOK /\ CallStands /\ TablesMatch /\ TunnelIsNew /\ BindIsNew
  /\ OutcomeIsTrue /\ ReportsAreTrue /\ TunnelsAreOwned /\ ChannelsAreOwned

-----------------------------------------------------------------------------
(* The routes: the inductive invariant.                                    *)

Answers == Addrs \cup {Static[p] : p \in DOMAIN Static} \cup {"itself", "none"}

RoutesTypeOK ==
  /\ dynamicRoutes \in [RoutePrefixes -> Addrs \cup {"none"}]
  /\ registered \in Seq([prefix : RoutePrefixes, addr : Addrs])
  /\ streams \in [Streams ->
       [at : {"none"}] \cup [at : {"started"}, purpose : Purposes, since : 0..Len(registered)]
       \cup [at : {"waiting", "dialled", "closed"}, purpose : Purposes, since : 0..Len(registered),
             addr : Answers]]

\* A route is the newest event's of its prefix; there is none before the first.
RoutesAreNewest ==
  \A p \in RoutePrefixes :
    \/ dynamicRoutes[p] = "none" /\ \A i \in DOMAIN registered : registered[i].prefix # p
    \/ \E i \in DOMAIN registered :
         /\ registered[i] = [prefix |-> p, addr |-> dynamicRoutes[p]]
         /\ \A j \in i + 1..Len(registered) : registered[j].prefix # p

RoutesIInv == RoutesTypeOK /\ RoutesAreNewest /\ StreamsFollowRoutes

IInv == LinkIInv /\ RoutesIInv /\ followed \in {"links", "routes"}

-----------------------------------------------------------------------------
(* The routes: the proof.                                                  *)

(* There is no route before the first event. *)
LEMMA RoutesHold == ASSUME RoutesInit PROVE RoutesIInv
  <1> USE DEF RoutesInit
  <1>1. registered = <<>> /\ registered \in Seq([prefix : RoutePrefixes, addr : Addrs]) /\ Len(registered) = 0
        /\ DOMAIN registered = {}
    OBVIOUS
  <1>2. RoutesTypeOK  BY <1>1 DEF RoutesTypeOK
  <1>3. RoutesAreNewest  BY <1>1 DEF RoutesAreNewest
  <1>4. StreamsFollowRoutes  BY DEF StreamsFollowRoutes
  <1> QED  BY <1>2, <1>3, <1>4 DEF RoutesIInv

(* An event is appended to those so far. *)
LEMMA EventAppended ==
  ASSUME RoutesTypeOK, NEW prefix \in RoutePrefixes, NEW addr \in Addrs, RouteRegistered(prefix, addr)
  PROVE  /\ registered' \in Seq([prefix : RoutePrefixes, addr : Addrs])
         /\ Len(registered) \in Nat /\ Len(registered') = Len(registered) + 1
         /\ DOMAIN registered = 1..Len(registered) /\ DOMAIN registered' = 1..Len(registered')
         /\ \A i \in DOMAIN registered : i \in DOMAIN registered' /\ registered'[i] = registered[i]
         /\ registered'[Len(registered')] = [prefix |-> prefix, addr |-> addr]
  <1> DEFINE S == [prefix : RoutePrefixes, addr : Addrs]
             e == [prefix |-> prefix, addr |-> addr]
  <1>1. registered \in Seq(S) /\ e \in S /\ registered' = Append(registered, e)
    BY DEF RoutesTypeOK, RouteRegistered
  <1> HIDE DEF S, e
  <1>2. /\ registered' \in Seq(S) /\ Len(registered') = Len(registered) + 1
        /\ registered'[Len(registered) + 1] = e
        /\ \A i \in 1..Len(registered) : registered'[i] = registered[i]
    BY <1>1, AppendProperties
  <1>3. /\ Len(registered) \in Nat
        /\ DOMAIN registered = 1..Len(registered) /\ DOMAIN registered' = 1..Len(registered')
    BY <1>1, <1>2, LenProperties
  <1> QED  BY <1>2, <1>3 DEF S, e

(* What events had routed a purpose to is not changed by those that follow. *)
LEMMA RoutedStays ==
  ASSUME RoutesTypeOK, NEW prefix \in RoutePrefixes, NEW addr \in Addrs, RouteRegistered(prefix, addr),
         NEW purpose, NEW n \in 0..Len(registered)
  PROVE  RoutedBy(purpose, n)' = RoutedBy(purpose, n)
  <1>0. /\ Len(registered) \in Nat /\ DOMAIN registered = 1..Len(registered)
        /\ \A i \in DOMAIN registered : registered'[i] = registered[i]
    BY EventAppended
  <1>1. \A i \in 1..n : registered'[i] = registered[i]  BY <1>0
  <1>2. \A i \in 1..n : \A j \in i + 1..n : registered'[j] = registered[j]  BY <1>1
  <1> QED  BY <1>1, <1>2, ZenonT(40) DEF RoutedBy

(* An event's route is the newest of its prefix. *)
LEMMA EventKeepsRoutes ==
  ASSUME RoutesIInv, NEW prefix \in RoutePrefixes, NEW addr \in Addrs, RouteRegistered(prefix, addr)
  PROVE  RoutesIInv'
  <1> USE DEF RoutesIInv
  <1> DEFINE n == Len(registered)
  <1>1. /\ registered' \in Seq([prefix : RoutePrefixes, addr : Addrs])
        /\ n \in Nat /\ Len(registered') = n + 1
        /\ DOMAIN registered = 1..n /\ DOMAIN registered' = 1..(n + 1)
        /\ \A i \in 1..n : registered'[i] = registered[i]
        /\ registered'[n + 1] = [prefix |-> prefix, addr |-> addr]
    BY EventAppended
  <1>2. /\ dynamicRoutes' = [dynamicRoutes EXCEPT ![prefix] = addr] /\ streams' = streams
        /\ dynamicRoutes \in [RoutePrefixes -> Addrs \cup {"none"}]
    BY DEF RouteRegistered, RegisterRoute, RoutesTypeOK
  <1>3. 0..n \subseteq 0..(n + 1)  BY <1>1
  <1> HIDE DEF n
  <1>4. RoutesTypeOK'
    <2>1. dynamicRoutes' \in [RoutePrefixes -> Addrs \cup {"none"}]  BY <1>2
    <2>2. ASSUME NEW s \in Streams
          PROVE  streams[s] \in [at : {"none"}]
                   \cup [at : {"started"}, purpose : Purposes, since : 0..(n + 1)]
                   \cup [at : {"waiting", "dialled", "closed"}, purpose : Purposes, since : 0..(n + 1),
                         addr : Answers]
      BY <1>3 DEF RoutesTypeOK, n
    <2>3. streams = [s \in Streams |-> streams[s]]  BY DEF RoutesTypeOK
    <2> QED  BY <1>1, <1>2, <2>1, <2>2, <2>3 DEF RoutesTypeOK, Answers
  <1>5. RoutesAreNewest'
    <2> SUFFICES ASSUME NEW p \in RoutePrefixes
                 PROVE  \/ dynamicRoutes'[p] = "none" /\ \A i \in 1..(n + 1) : registered'[i].prefix # p
                        \/ \E i \in 1..(n + 1) :
                             /\ registered'[i] = [prefix |-> p, addr |-> dynamicRoutes'[p]]
                             /\ \A j \in i + 1..(n + 1) : registered'[j].prefix # p
      BY <1>1 DEF RoutesAreNewest
    <2>1. CASE p = prefix
      <3>1. registered'[n + 1] = [prefix |-> p, addr |-> dynamicRoutes'[p]]  BY <1>1, <1>2, <2>1
      <3>2. n + 1 \in 1..(n + 1) /\ \A j \in n + 1 + 1..(n + 1) : registered'[j].prefix # p  BY <1>1
      <3> QED  BY <3>1, <3>2
    <2>2. CASE p # prefix
      <3>1. dynamicRoutes'[p] = dynamicRoutes[p]  BY <1>2, <2>2
      <3>2. registered'[n + 1].prefix # p  BY <1>1, <2>2
      <3>3. \A i \in 1..(n + 1) : i \in 1..n \/ i = n + 1  BY <1>1
      <3>4. \A i \in 1..n : i \in 1..(n + 1)  BY <1>1
      <3>5. CASE dynamicRoutes[p] = "none" /\ \A i \in 1..n : registered[i].prefix # p
        BY <1>1, <3>1, <3>2, <3>3, <3>5
      <3>6. CASE \E i \in 1..n : /\ registered[i] = [prefix |-> p, addr |-> dynamicRoutes[p]]
                                 /\ \A j \in i + 1..n : registered[j].prefix # p
        <4>1. PICK i \in 1..n : /\ registered[i] = [prefix |-> p, addr |-> dynamicRoutes[p]]
                                /\ \A j \in i + 1..n : registered[j].prefix # p
          BY <3>6
        <4>2. registered'[i] = [prefix |-> p, addr |-> dynamicRoutes'[p]]  BY <1>1, <3>1, <4>1
        <4>3. ASSUME NEW j \in i + 1..(n + 1) PROVE registered'[j].prefix # p
          <5>1. CASE j = n + 1  BY <3>2, <5>1
          <5>2. CASE j # n + 1
            <6>1. j \in i + 1..n /\ j \in 1..n  BY <1>1, <5>2
            <6> QED  BY <1>1, <4>1, <6>1
          <5> QED  BY <5>1, <5>2
        <4> QED  BY <3>4, <4>2, <4>3
      <3> QED  BY <1>1, <3>5, <3>6 DEF RoutesAreNewest, n
    <2> QED  BY <2>1, <2>2
  <1>6. StreamsFollowRoutes'
    <2> SUFFICES ASSUME NEW s \in Streams, streams[s].at \in {"waiting", "dialled", "closed"}
                 PROVE  \E m \in streams[s].since..(n + 1) :
                          streams[s].addr \in IF RoutedBy(streams[s].purpose, m)' # {}
                                              THEN RoutedBy(streams[s].purpose, m)'
                                              ELSE {Fallback(streams[s].purpose)}
      BY <1>1, <1>2, Zenon DEF StreamsFollowRoutes, Fallback
    <2>1. PICK m \in streams[s].since..n :
            streams[s].addr \in IF RoutedBy(streams[s].purpose, m) # {} THEN RoutedBy(streams[s].purpose, m)
                                ELSE {Fallback(streams[s].purpose)}
      BY DEF StreamsFollowRoutes, n
    <2>2. streams[s].since \in 0..n  BY DEF RoutesTypeOK, n
    <2>3. m \in 0..n /\ m \in streams[s].since..(n + 1)  BY <1>1, <2>2
    <2>4. RoutedBy(streams[s].purpose, m)' = RoutedBy(streams[s].purpose, m)
      BY <1>2, <2>3, RoutedStays DEF n
    <2> QED  BY <2>1, <2>3, <2>4
  <1> QED  BY <1>4, <1>5, <1>6

(* What a purpose resolves to is what the newest events route it to, or the *)
(* fallback if no event routes it.                                          *)
LEMMA ResolvesToNewest ==
  ASSUME RoutesTypeOK, RoutesAreNewest, NEW purpose, NEW addr \in resolveLocalAddr(purpose)
  PROVE  /\ addr \in IF RoutedBy(purpose, Len(registered)) # {} THEN RoutedBy(purpose, Len(registered))
                     ELSE {Fallback(purpose)}
         /\ addr \in Answers
  <1> DEFINE n == Len(registered)
             matching == {p \in RoutePrefixes : dynamicRoutes[p] # "none" /\ IsPrefix(p, purpose)}
             routed == RoutedBy(purpose, n)
  <1>1. /\ n \in Nat /\ DOMAIN registered = 1..n
        /\ \A i \in 1..n : registered[i].prefix \in RoutePrefixes /\ registered[i].addr \in Addrs
    <2>1. registered \in Seq([prefix : RoutePrefixes, addr : Addrs])  BY DEF RoutesTypeOK
    <2>2. n \in Nat /\ DOMAIN registered = 1..n  BY <2>1, LenProperties
    <2>3. \A i \in 1..n : registered[i] \in [prefix : RoutePrefixes, addr : Addrs]
      BY <2>1, <2>2, ElementOfSeq
    <2> QED  BY <2>2, <2>3
  <1> DEFINE Newest(i) == /\ IsPrefix(registered[i].prefix, purpose)
                          /\ \A j \in i + 1..n : registered[j].prefix # registered[i].prefix
  <1> HIDE DEF n
  <1>2. \A a : a \in routed <=> \E i \in 1..n : Newest(i) /\ a = registered[i].addr
    <2>1. routed = {registered[i].addr : i \in {k \in 1..n : Newest(k)}}  BY DEF RoutedBy
    <2> HIDE DEF routed, Newest
    <2> QED  BY <2>1
  <1> HIDE DEF routed
  <1>3. CASE matching # {}
    <2>1. PICK p \in matching : addr = dynamicRoutes[p]  BY <1>3 DEF resolveLocalAddr
    <2>2. p \in RoutePrefixes /\ dynamicRoutes[p] # "none" /\ IsPrefix(p, purpose)  BY <2>1
    <2>3. PICK i \in 1..n : /\ registered[i] = [prefix |-> p, addr |-> dynamicRoutes[p]]
                            /\ \A j \in i + 1..n : registered[j].prefix # p
      BY <1>1, <2>2 DEF RoutesAreNewest, n
    <2>4. registered[i].prefix = p /\ registered[i].addr = addr  BY <2>1, <2>3
    <2>5. addr \in routed  BY <1>2, <2>2, <2>3, <2>4
    <2>6. addr \in Answers  BY <1>1, <2>4 DEF Answers
    <2> QED  BY <2>5, <2>6 DEF routed, n
  <1>4. CASE matching = {}
    <2>1. addr = Fallback(purpose)  BY <1>4 DEF resolveLocalAddr
    <2>2. addr \in Answers  BY <2>1 DEF Fallback, Answers
    <2>3. \A i \in 1..n : ~IsPrefix(registered[i].prefix, purpose)
      <3> SUFFICES ASSUME NEW i \in 1..n, IsPrefix(registered[i].prefix, purpose) PROVE FALSE
        OBVIOUS
      <3>1. PICK p \in RoutePrefixes : p = registered[i].prefix  BY <1>1
      <3>2. PICK k \in 1..n : registered[k] = [prefix |-> p, addr |-> dynamicRoutes[p]]
        BY <1>1, <3>1 DEF RoutesAreNewest, n
      <3>3. dynamicRoutes[p] \in Addrs  BY <1>1, <3>2
      <3>4. dynamicRoutes[p] # "none"  BY <3>3, RoutesConstantsOK DEF RoutesConstantsOK
      <3> QED  BY <1>4, <3>1, <3>4
    <2>4. routed = {}  BY <1>2, <2>3
    <2> QED  BY <2>1, <2>2, <2>4 DEF routed, n
  <1> QED  BY <1>3, <1>4

(* RoutesIInv of the streams, one by one, while no event comes. *)
StreamType(s) ==
  streams[s] \in
    [at : {"none"}] \cup [at : {"started"}, purpose : Purposes, since : 0..Len(registered)]
    \cup [at : {"waiting", "dialled", "closed"}, purpose : Purposes, since : 0..Len(registered),
          addr : Answers]

StreamFollows(s) ==
  streams[s].at \in {"waiting", "dialled", "closed"} =>
    \E n \in streams[s].since..Len(registered) :
      streams[s].addr \in IF RoutedBy(streams[s].purpose, n) # {} THEN RoutedBy(streams[s].purpose, n)
                          ELSE {Fallback(streams[s].purpose)}

(* A stream's step is judged by that stream alone. *)
LEMMA StreamKeepsRoutes ==
  ASSUME RoutesIInv, NEW s \in Streams, NEW stream, streams' = [streams EXCEPT ![s] = stream],
         UNCHANGED <<dynamicRoutes, registered>>, StreamType(s)', StreamFollows(s)'
  PROVE  RoutesIInv'
  <1> USE DEF RoutesIInv
  <1>0. DOMAIN streams = Streams /\ streams' = [t \in Streams |-> streams'[t]]
        /\ \A t \in Streams \ {s} : streams'[t] = streams[t]
    BY DEF RoutesTypeOK
  <1>1. \A t \in Streams : StreamType(t)'
    <2>1. \A t \in Streams \ {s} : StreamType(t)'  BY <1>0 DEF RoutesTypeOK, StreamType, Answers
    <2> QED  BY <2>1
  <1>2. RoutesTypeOK'
    <2> DEFINE T == [at : {"none"}] \cup [at : {"started"}, purpose : Purposes, since : 0..Len(registered)]
                    \cup [at : {"waiting", "dialled", "closed"}, purpose : Purposes,
                          since : 0..Len(registered), addr : Answers]
    <2>1. \A t \in Streams : streams'[t] \in T  BY <1>1 DEF StreamType, Answers
    <2>2. T' = T  BY DEF Answers
    <2> HIDE DEF T
    <2>3. streams' \in [Streams -> T']  BY <1>0, <2>1, <2>2
    <2> QED  BY <2>3 DEF RoutesTypeOK, T
  <1>3. RoutesAreNewest'  BY DEF RoutesAreNewest
  <1>4. \A t \in Streams \ {s} : StreamFollows(t)'
    <2> SUFFICES ASSUME NEW t \in Streams \ {s} PROVE StreamFollows(t)'  OBVIOUS
    <2>1. streams'[t] = streams[t]  BY <1>0
    <2>2. \A p, n : RoutedBy(p, n)' = RoutedBy(p, n)  BY DEF RoutedBy
    <2>3. StreamFollows(t)  BY DEF StreamsFollowRoutes, StreamFollows
    <2> QED  BY <2>1, <2>2, <2>3 DEF StreamFollows, Fallback
  <1>5. StreamsFollowRoutes'
    <2>1. \A t \in Streams : StreamFollows(t)'  BY <1>4
    <2> QED  BY <2>1, Zenon DEF StreamsFollowRoutes, StreamFollows, Fallback
  <1> QED  BY <1>2, <1>3, <1>5

(* Every step of the routes keeps their invariant. *)
LEMMA RoutesStep == ASSUME RoutesIInv, RoutesNext PROVE RoutesIInv'
  <1> USE DEF RoutesIInv
  <1>0. /\ Len(registered) \in Nat /\ DOMAIN streams = Streams
        /\ \A s \in Streams : StreamType(s) /\ StreamFollows(s)
    <2>1. registered \in Seq([prefix : RoutePrefixes, addr : Addrs]) /\ DOMAIN streams = Streams
      BY DEF RoutesTypeOK
    <2>2. \A s \in Streams : StreamType(s)  BY DEF RoutesTypeOK, StreamType
    <2>3. \A s \in Streams : StreamFollows(s)  BY Zenon DEF StreamsFollowRoutes, StreamFollows
    <2> QED  BY <2>1, <2>2, <2>3, LenProperties
  <1>1. ASSUME NEW p \in RoutePrefixes, NEW a \in Addrs, RouteRegistered(p, a) PROVE RoutesIInv'
    BY <1>1, EventKeepsRoutes
  <1>2. ASSUME NEW s \in Streams, NEW purpose \in Purposes, Accepted(s, purpose) PROVE RoutesIInv'
    <2> DEFINE stream == [at |-> "started", purpose |-> purpose, since |-> Len(registered)]
    <2>1. streams' = [streams EXCEPT ![s] = stream] /\ UNCHANGED <<dynamicRoutes, registered>>
      BY <1>2 DEF Accepted
    <2>2. streams'[s] = stream  BY <1>0, <2>1
    <2>3. StreamType(s)'  BY <1>0, <2>1, <2>2 DEF StreamType
    <2>4. StreamFollows(s)'  BY <2>2 DEF StreamFollows
    <2> QED  BY <2>1, <2>3, <2>4, StreamKeepsRoutes
  <1>3. ASSUME NEW s \in Streams, Resolve(s) PROVE RoutesIInv'
    <2>1. PICK addr \in resolveLocalAddr(streams[s].purpose) :
            streams' = [streams EXCEPT ![s] = [at |-> IF addr = "none" THEN "closed" ELSE "waiting",
                                               purpose |-> @.purpose, since |-> @.since, addr |-> addr]]
      BY <1>3 DEF Resolve
    <2> DEFINE purpose == streams[s].purpose
               since == streams[s].since
               stream == [at |-> IF addr = "none" THEN "closed" ELSE "waiting",
                          purpose |-> purpose, since |-> since, addr |-> addr]
    <2>2. streams' = [streams EXCEPT ![s] = stream] /\ UNCHANGED <<dynamicRoutes, registered>>
      BY <1>0, <1>3, <2>1 DEF Resolve
    <2>3. streams'[s] = stream  BY <1>0, <2>2
    <2>4. streams[s].at = "started"  BY <1>3 DEF Resolve
    <2>5. purpose \in Purposes /\ since \in 0..Len(registered)  BY <1>0, <2>4 DEF StreamType
    <2>6. /\ addr \in IF RoutedBy(purpose, Len(registered)) # {} THEN RoutedBy(purpose, Len(registered))
                      ELSE {Fallback(purpose)}
          /\ addr \in Answers
      BY <2>1, ResolvesToNewest
    <2>7. \A p, n : RoutedBy(p, n)' = RoutedBy(p, n)  BY <2>2 DEF RoutedBy
    <2>8. Len(registered) \in since..Len(registered)  BY <1>0, <2>5
    <2>9. /\ streams'[s].purpose = purpose /\ streams'[s].since = since /\ streams'[s].addr = addr
          /\ streams'[s].at \in {"waiting", "closed"}
      BY <2>3
    <2>10. StreamType(s)'
      <3>1. stream \in [at : {"waiting", "dialled", "closed"}, purpose : Purposes,
                        since : 0..Len(registered), addr : Answers]
        BY <2>5, <2>6
      <3> QED  BY <2>2, <2>3, <3>1 DEF StreamType, Answers
    <2> HIDE DEF purpose, since, stream
    <2>11. StreamFollows(s)'
      <3>1. registered' = registered  BY <2>2
      <3> QED  BY <2>6, <2>7, <2>8, <2>9, <3>1 DEF StreamFollows, Fallback
    <2> QED  BY <2>2, <2>10, <2>11, StreamKeepsRoutes
  <1>4. ASSUME NEW s \in Streams, FirstByteDials(s) PROVE RoutesIInv'
    <2>1. streams[s] \in [at : {"waiting", "dialled", "closed"}, purpose : Purposes,
                          since : 0..Len(registered), addr : Answers]
      BY <1>0, <1>4 DEF FirstByteDials, StreamType
    <2> DEFINE stream == [streams[s] EXCEPT !.at = "dialled"]
    <2>2. streams' = [streams EXCEPT ![s] = stream] /\ UNCHANGED <<dynamicRoutes, registered>>
      BY <1>0, <1>4 DEF FirstByteDials
    <2>3. /\ stream.purpose = streams[s].purpose /\ stream.since = streams[s].since
          /\ stream.addr = streams[s].addr /\ stream.at = "dialled"
          /\ stream \in [at : {"waiting", "dialled", "closed"}, purpose : Purposes,
                         since : 0..Len(registered), addr : Answers]
      BY <2>1
    <2>4. streams'[s] = stream  BY <1>0, <2>2
    <2> HIDE DEF stream
    <2>5. StreamType(s)'  BY <2>2, <2>3, <2>4 DEF StreamType, Answers
    <2>6. StreamFollows(s)'
      <3>1. \A p, n : RoutedBy(p, n)' = RoutedBy(p, n)  BY <2>2 DEF RoutedBy
      <3>2. streams[s].at = "waiting" /\ StreamFollows(s)  BY <1>0, <1>4 DEF FirstByteDials
      <3> QED  BY <2>2, <2>3, <2>4, <3>1, <3>2 DEF StreamFollows, Fallback
    <2> QED  BY <2>2, <2>5, <2>6, StreamKeepsRoutes
  <1> QED  BY <1>1, <1>2, <1>3, <1>4 DEF RoutesNext

-----------------------------------------------------------------------------
(* The links: what steps of a kind leave as it is.                         *)

(* A sequence that is updated pointwise. *)
LEMMA UpdatedSeq ==
  ASSUME NEW S, NEW s \in Seq(S), NEW u, u = [i \in DOMAIN s |-> u[i]], \A i \in DOMAIN s : u[i] \in S
  PROVE  /\ u \in Seq(S) /\ Len(u) = Len(s) /\ Len(s) \in Nat
         /\ DOMAIN s = 1..Len(s) /\ DOMAIN u = 1..Len(s)
  <1>1. Len(s) \in Nat /\ DOMAIN s = 1..Len(s)  BY LenProperties
  <1>2. u \in [1..Len(s) -> S]  BY <1>1
  <1>3. u \in Seq(S)  BY <1>1, <1>2, SeqDef
  <1>4. Len(u) \in Nat /\ DOMAIN u = 1..Len(u)  BY <1>3, LenProperties
  <1>5. DOMAIN u = 1..Len(s)  BY <1>2
  <1>6. Len(u) = Len(s)
    <2> DEFINE m == Len(u)
               n == Len(s)
    <2>1. m \in Nat /\ n \in Nat /\ 1..m = 1..n  BY <1>1, <1>4, <1>5
    <2> HIDE DEF m, n
    <2>2. m = n
      <3>1. m > n => m \in 1..m /\ m \notin 1..n  BY <2>1
      <3>2. n > m => n \in 1..n /\ n \notin 1..m  BY <2>1
      <3> QED  BY <2>1, <3>1, <3>2
    <2> QED  BY <2>2 DEF m, n
  <1> QED  BY <1>1, <1>3, <1>5, <1>6

(* The handler goes on, or returns. *)
LEMMA ContinueIs ==
  ASSUME call \in Call, NEW s \in Steps, Continue(s)
  PROVE  /\ call' \in Call /\ call'.step = s /\ call'.op = call.op /\ call'.link = call.link
         /\ call'.made = call.made /\ call'.attempt = call.attempt
  BY DEF Continue, Call

(* The provider returns to the handler. *)
LEMMA ReturnIs ==
  ASSUME call \in Call, Return(TRUE) \/ Return(FALSE)
  PROVE  /\ call' \in Call /\ call'.step = "report" /\ call'.op = call.op /\ call'.link = call.link
         /\ call'.made = 0 /\ call'.attempt = call.attempt
         /\ Return(TRUE) => call'.ok
         /\ Return(FALSE) => ~call'.ok
  <1>1. PICK b \in BOOLEAN : call' = [call EXCEPT !.step = "report", !.ok = b, !.made = 0]
    BY Zenon DEF Return
  <1>2. /\ call'.step = "report" /\ call'.op = call.op /\ call'.link = call.link
        /\ call'.made = 0 /\ call'.attempt = call.attempt
    BY <1>1 DEF Call
  <1>3. call' \in Call  BY <1>1 DEF Call, Steps
  <1>4. Return(TRUE) => call'.ok = TRUE  BY DEF Return, Call
  <1>5. Return(FALSE) => call'.ok = FALSE  BY DEF Return, Call
  <1> QED  BY <1>2, <1>3, <1>4, <1>5, Zenon

\* The conjuncts of LinkIInv that are about one provider.
TunnelTable == /\ \A t \in DOMAIN tunnels : Kind[tunnels[t].link] \in Exposed
               /\ \A l \in Links : activeTunnels[l] # 0 => tunnels[activeTunnels[l]].link = l
BindTable   == /\ \A b \in DOMAIN binds : Kind[binds[b].link] \in Channels
               /\ \A l \in Links : active[l] # 0 => binds[active[l]].link = l
TunnelSide == TunnelTable /\ TunnelIsNew /\ TunnelsAreOwned
BindSide   == BindTable /\ BindIsNew /\ ChannelsAreOwned

(* The invariant is what it says of the call and of each provider ... *)
LEMMA Sides == LinkIInv <=> /\ LinkTypeOK /\ CallStands /\ TunnelSide /\ BindSide
                            /\ OutcomeIsTrue /\ ReportsAreTrue
  BY Zenon DEF LinkIInv, TablesMatch, TunnelSide, BindSide, TunnelTable, BindTable

(* ... and so after a step. *)
LEMMA SidesNext ==
  ASSUME LinkTypeOK', CallStands', TunnelSide', BindSide', OutcomeIsTrue', ReportsAreTrue'
  PROVE  LinkIInv'
  BY Zenon DEF LinkIInv, TablesMatch, TunnelSide, BindSide, TunnelTable, BindTable

(* The tables are within the sequences, and a link is in its provider's only. *)
LEMMA InRange ==
  ASSUME LinkTypeOK
  PROVE  /\ Len(tunnels) \in Nat /\ DOMAIN tunnels = 1..Len(tunnels)
         /\ Len(binds) \in Nat /\ DOMAIN binds = 1..Len(binds)
         /\ \A t \in DOMAIN tunnels : tunnels[t] \in Tunnel
         /\ \A b \in DOMAIN binds : binds[b] \in Bind
         /\ \A l \in Links : activeTunnels[l] # 0 => activeTunnels[l] \in DOMAIN tunnels
         /\ \A l \in Links : active[l] # 0 => active[l] \in DOMAIN binds
  <1>1. /\ tunnels \in Seq(Tunnel) /\ binds \in Seq(Bind) /\ activeTunnels \in [Links -> 0..Len(tunnels)]
        /\ active \in [Links -> 0..Len(binds)]
    BY DEF LinkTypeOK
  <1>2. /\ Len(tunnels) \in Nat /\ DOMAIN tunnels = 1..Len(tunnels)
        /\ \A t \in DOMAIN tunnels : tunnels[t] \in Tunnel
    BY <1>1, LenProperties, ElementOfSeq
  <1>3. /\ Len(binds) \in Nat /\ DOMAIN binds = 1..Len(binds)
        /\ \A b \in DOMAIN binds : binds[b] \in Bind
    BY <1>1, LenProperties, ElementOfSeq
  <1> QED  BY <1>1, <1>2, <1>3

(* A tunnel is updated. *)
LEMMA TunnelSet ==
  ASSUME LinkTypeOK, NEW i \in DOMAIN tunnels, NEW t \in Tunnel, tunnels' = [tunnels EXCEPT ![i] = t]
  PROVE  /\ tunnels' \in Seq(Tunnel) /\ Len(tunnels') = Len(tunnels) /\ Len(tunnels) \in Nat
         /\ DOMAIN tunnels' = DOMAIN tunnels
         /\ tunnels'[i] = t /\ \A j \in DOMAIN tunnels : j # i => tunnels'[j] = tunnels[j]
  <1>1. tunnels \in Seq(Tunnel)  BY DEF LinkTypeOK
  <1>2. \A j \in DOMAIN tunnels : tunnels[j] \in Tunnel  BY InRange
  <1>3. tunnels' = [j \in DOMAIN tunnels |-> tunnels'[j]] /\ \A j \in DOMAIN tunnels : tunnels'[j] \in Tunnel
    BY <1>2
  <1>4. tunnels' \in Seq(Tunnel) /\ Len(tunnels') = Len(tunnels) /\ Len(tunnels) \in Nat
    BY <1>1, <1>3, UpdatedSeq
  <1> QED  BY <1>4

(* A bind is updated. *)
LEMMA BindSet ==
  ASSUME LinkTypeOK, NEW i \in DOMAIN binds, NEW b \in Bind, binds' = [binds EXCEPT ![i] = b]
  PROVE  /\ binds' \in Seq(Bind) /\ Len(binds') = Len(binds) /\ Len(binds) \in Nat
         /\ DOMAIN binds' = DOMAIN binds
         /\ binds'[i] = b /\ \A j \in DOMAIN binds : j # i => binds'[j] = binds[j]
  <1>1. binds \in Seq(Bind)  BY DEF LinkTypeOK
  <1>2. \A j \in DOMAIN binds : binds[j] \in Bind  BY InRange
  <1>3. binds' = [j \in DOMAIN binds |-> binds'[j]] /\ \A j \in DOMAIN binds : binds'[j] \in Bind
    BY <1>2
  <1>4. binds' \in Seq(Bind) /\ Len(binds') = Len(binds) /\ Len(binds) \in Nat
    BY <1>1, <1>3, UpdatedSeq
  <1> QED  BY <1>4

(* A link is in the table of its own provider only. *)
LEMMA OneTable ==
  ASSUME LinkTypeOK, TunnelTable, BindTable, NEW l \in Links
  PROVE  /\ Kind[l] \in Exposed => active[l] = 0
         /\ Kind[l] \in Channels => activeTunnels[l] = 0
  BY InRange DEF TunnelTable, BindTable, Exposed, Channels

(* A call into one provider, or a step of its goroutines, does not touch what *)
(* is said of the other.                                                      *)
LEMMA BindSideKept ==
  ASSUME BindSide, UNCHANGED channelVars,
         call' = call \/ (call'.op = call.op /\ call'.link = call.link /\ Kind[call.link] \in Exposed)
  PROVE  BindSide'
  <1> USE DEF BindSide, channelVars
  <1>1. BindTable'  BY DEF BindTable
  <1>2. CASE call' = call
    <2>1. BindIsNew'  BY <1>2 DEF BindIsNew, Busy
    <2>2. ChannelsAreOwned'  BY <1>2 DEF ChannelsAreOwned, Owned
    <2> QED  BY <1>1, <2>1, <2>2
  <1>3. CASE call'.op = call.op /\ call'.link = call.link /\ Kind[call.link] \in Exposed
    <2>1. Kind[call'.link] \notin Channels  BY <1>3 DEF Exposed, Channels
    <2>2. BindIsNew'  BY <2>1 DEF BindIsNew, Busy
    <2>3. ChannelsAreOwned'  BY <1>3 DEF ChannelsAreOwned, Owned, BindTable, Exposed, Channels
    <2> QED  BY <1>1, <2>2, <2>3
  <1> QED  BY <1>2, <1>3

(* The same of the channel provider and its goroutines. *)
LEMMA TunnelSideKept ==
  ASSUME TunnelSide, UNCHANGED exposureVars,
         call' = call \/ (call'.op = call.op /\ call'.link = call.link /\ Kind[call.link] \in Channels)
  PROVE  TunnelSide'
  <1> USE DEF TunnelSide, exposureVars
  <1>1. TunnelTable'  BY DEF TunnelTable
  <1>2. CASE call' = call
    <2>1. TunnelIsNew'  BY <1>2 DEF TunnelIsNew, Busy
    <2>2. TunnelsAreOwned'  BY <1>2 DEF TunnelsAreOwned
    <2> QED  BY <1>1, <2>1, <2>2
  <1>3. CASE call'.op = call.op /\ call'.link = call.link /\ Kind[call.link] \in Channels
    <2>1. Kind[call'.link] \notin Exposed  BY <1>3 DEF Exposed, Channels
    <2>2. TunnelIsNew'  BY <2>1 DEF TunnelIsNew, Busy
    <2>3. TunnelsAreOwned'  BY <1>3 DEF TunnelsAreOwned, TunnelTable, Exposed, Channels
    <2> QED  BY <1>1, <2>2, <2>3
  <1> QED  BY <1>2, <1>3

(* What was reported stays true while the tables change for the call's link only. *)
LEMMA ReportsKept ==
  ASSUME ReportsAreTrue, reports' = reports, call'.op = call.op, call'.link = call.link,
         \A l \in Links : call.op = "none" \/ call.link # l =>
           active'[l] = active[l] /\ activeTunnels'[l] = activeTunnels[l]
  PROVE  ReportsAreTrue'
  <1> SUFFICES ASSUME NEW l \in Links, call.op = "none" \/ call.link # l PROVE ReportIsTrue(l)'
    BY DEF ReportsAreTrue
  <1>1. ReportIsTrue(l) /\ active'[l] = active[l] /\ activeTunnels'[l] = activeTunnels[l]
    BY DEF ReportsAreTrue
  <1> QED  BY <1>1 DEF ReportIsTrue, Bound

-----------------------------------------------------------------------------
(* The links: the steps of the exposure provider.                          *)

MakingSteps == {"proxy", "connect", "dial", "forward"}

(* Bind has changed the tunnel it is making, and goes on or fails. *)
LEMMA MakingKeeps ==
  ASSUME LinkIInv, Busy("bind", MakingSteps, Exposed),
         NEW t \in Tunnel, t.link = call.link, t.forward = "none", Making(t), UNCHANGED channelVars,
         \/ \E s \in {"connect", "dial", "forward"} : Continue(s) /\ (s = "connect" => t.client = "none")
         \/ Return(FALSE) /\ t.client # "open"
  PROVE  LinkIInv'
  <1> USE DEF channelVars
  <1>0. LinkTypeOK /\ CallStands /\ TunnelSide /\ BindSide /\ OutcomeIsTrue /\ ReportsAreTrue
    BY Sides
  <1>1. /\ call.op = "bind" /\ call.step \in MakingSteps /\ Kind[call.link] \in Exposed
        /\ call.link \in Links /\ call.made \in DOMAIN tunnels /\ tunnels[call.made].link = call.link
        /\ activeTunnels[call.link] = 0
    BY <1>0 DEF Busy, TunnelSide, TunnelIsNew, MakingSteps, CallStands
  <1>2. /\ tunnels' = [tunnels EXCEPT ![call.made] = t]
        /\ UNCHANGED <<reports, requests, ctxDone, activeTunnels, closed, binds, active>>
    BY DEF Making
  <1>3. /\ tunnels' \in Seq(Tunnel) /\ Len(tunnels') = Len(tunnels) /\ Len(tunnels) \in Nat
        /\ DOMAIN tunnels' = DOMAIN tunnels
        /\ tunnels'[call.made] = t /\ \A i \in DOMAIN tunnels : i # call.made => tunnels'[i] = tunnels[i]
    BY <1>0, <1>1, <1>2, TunnelSet
  <1>4. /\ call' \in Call /\ call'.op = "bind" /\ call'.link = call.link /\ call'.attempt = call.attempt
        /\ \/ call'.step \in {"connect", "dial", "forward"} /\ call'.made = call.made
              /\ (call'.step = "connect" => t.client = "none")
           \/ call'.step = "report" /\ call'.made = 0 /\ ~call'.ok /\ t.client # "open"
    <2>1. call \in Call  BY <1>0 DEF LinkTypeOK
    <2>3. CASE \E s \in {"connect", "dial", "forward"} : Continue(s) /\ (s = "connect" => t.client = "none")
      <3>1. PICK s \in {"connect", "dial", "forward"} : Continue(s) /\ (s = "connect" => t.client = "none")
        BY <2>3
      <3>2. s \in Steps  BY DEF Steps
      <3> QED  BY <1>1, <2>1, <3>1, <3>2, ContinueIs
    <2>4. CASE Return(FALSE) /\ t.client # "open"
      BY <1>1, <2>1, <2>4, ReturnIs
    <2> QED  BY <2>3, <2>4
  <1>5. LinkTypeOK'
    <2>1. call'.made <= Len(tunnels') + Len(binds')  BY <1>0, <1>2, <1>3, <1>4, InRange DEF LinkTypeOK
    <2> QED  BY <1>0, <1>2, <1>3, <1>4, <2>1 DEF LinkTypeOK
  <1>6. CallStands'  BY <1>1, <1>4 DEF CallStands
  <1>7. TunnelSide'
    <2>1. TunnelTable'
      <3>1. \A i \in DOMAIN tunnels : tunnels'[i].link = tunnels[i].link  BY <1>1, <1>3
      <3>2. \A l \in Links : activeTunnels[l] # 0 => activeTunnels[l] \in DOMAIN tunnels
        BY <1>0, InRange
      <3> QED  BY <1>0, <1>2, <1>3, <3>1, <3>2 DEF TunnelSide, TunnelTable
    <2>2. TunnelIsNew'  BY <1>1, <1>2, <1>3, <1>4 DEF TunnelIsNew, Busy
    <2>3. TunnelsAreOwned'
      <3> SUFFICES ASSUME NEW i \in DOMAIN tunnels,
                          \/ tunnels'[i].client = "open"
                          \/ tunnels'[i].forward = "running" /\ ~tunnels'[i].cancelled
                   PROVE  \/ activeTunnels[tunnels'[i].link] = i
                          \/ call'.op = "bind" /\ call'.link = tunnels'[i].link /\ call'.made = i
        BY <1>2, <1>3 DEF TunnelsAreOwned
      <3>1. CASE i = call.made  BY <1>1, <1>3, <1>4, <3>1
      <3>2. CASE i # call.made
        BY <1>0, <1>3, <3>2 DEF TunnelSide, TunnelsAreOwned
      <3> QED  BY <3>1, <3>2
    <2> QED  BY <2>1, <2>2, <2>3 DEF TunnelSide
  <1>8. BindSide'  BY <1>0, <1>1, <1>2, <1>4, BindSideKept
  <1>9. OutcomeIsTrue'
    <2>1. ~Bound(call.link)
      BY <1>0, <1>1, OneTable DEF Bound, TunnelSide, BindSide
    <2> QED  BY <1>2, <1>4, <2>1 DEF OutcomeIsTrue, Bound
  <1>10. ReportsAreTrue'  BY <1>0, <1>1, <1>2, <1>4, ReportsKept
  <1> QED  BY <1>5, <1>6, <1>7, <1>8, <1>9, <1>10, SidesNext

(* Start of the proxy, connection and health check: a failure closes the client. *)
LEMMA MakingStep ==
  ASSUME LinkIInv, StartProxy \/ Connect \/ HealthCheck, UNCHANGED channelVars
  PROVE  LinkIInv'
  <1> USE DEF Busy, MakingSteps
  <1>1. /\ call.op = "bind" /\ call.step \in {"proxy", "connect", "dial"} /\ Kind[call.link] \in Exposed
        /\ StartProxy => call.step = "proxy"
        /\ Connect => call.step = "connect"
        /\ HealthCheck => call.step = "dial"
    BY DEF StartProxy, Connect, HealthCheck, At
  <1>2. LinkTypeOK /\ TunnelIsNew  BY DEF LinkIInv
  <1>3. /\ made \in Tunnel /\ made.link = call.link /\ made.forward = "none"
        /\ call.step \in {"proxy", "connect"} => made.client = "none"
    BY <1>1, <1>2, InRange DEF TunnelIsNew, made
  <1> DEFINE Opened  == [made EXCEPT !.proxy = "open"]
             Up      == [made EXCEPT !.client = "open"]
             Down    == [made EXCEPT !.client = "closed"]
  <1>4. /\ \A t \in {Opened, Up, Down} : t \in Tunnel /\ t.link = call.link /\ t.forward = "none"
        /\ Opened.client = made.client /\ Down.client # "open"
    BY <1>3 DEF Tunnel
  <1>5. ASSUME NEW t \in {made, Opened, Up, Down}, Making(t),
               \/ \E s \in {"connect", "dial", "forward"} :
                    Continue(s) /\ (s = "connect" => t.client = "none")
               \/ Return(FALSE) /\ t.client # "open"
        PROVE  LinkIInv'
    <2>1. t \in Tunnel /\ t.link = call.link /\ t.forward = "none"  BY <1>3, <1>4
    <2> HIDE DEF Opened, Up, Down
    <2> QED  BY <1>1, <1>5, <2>1, MakingKeeps
  <1> HIDE DEF Opened, Up, Down
  <1>6. CASE StartProxy
    <2>1. made.client = "none" /\ Opened.client = "none"  BY <1>1, <1>3, <1>4, <1>6
    <2>2. \/ Making(Opened) /\ Continue("connect")
          \/ Making(made) /\ Return(FALSE)
          \/ Making(made) /\ Continue("connect")
      BY <1>6, Zenon DEF StartProxy, Opened
    <2> QED  BY <1>5, <2>1, <2>2
  <1>7. CASE Connect
    <2>1. (Making(Up) /\ Continue("dial")) \/ (Making(Down) /\ Return(FALSE))
      BY <1>7, Zenon DEF Connect, Up, Down
    <2> QED  BY <1>4, <1>5, <2>1
  <1>8. CASE HealthCheck
    <2>1. (Making(made) /\ Continue("forward")) \/ (Making(Down) /\ Return(FALSE))
      BY <1>8, Zenon DEF HealthCheck, Down
    <2> QED  BY <1>4, <1>5, <2>1
  <1> QED  BY <1>6, <1>7, <1>8

(* A bind tears the link's old tunnel down before it makes a new one. *)
LEMMA TearDownKeeps == ASSUME LinkIInv, TearDown, UNCHANGED channelVars PROVE LinkIInv'
  <1> USE DEF channelVars
  <1>0. LinkTypeOK /\ CallStands /\ TunnelSide /\ BindSide /\ OutcomeIsTrue /\ ReportsAreTrue
    BY Sides
  <1> DEFINE old == activeTunnels[call.link]
             n == Len(tunnels)
             kept == [t \in DOMAIN tunnels |-> IF t = old THEN TornDown(tunnels[t]) ELSE tunnels[t]]
  <1>1. /\ call.op = "bind" /\ call.step = "start" /\ Kind[call.link] \in Exposed
        /\ tunnels' = Append(kept, NewTunnel(call.link))
        /\ activeTunnels' = [activeTunnels EXCEPT ![call.link] = 0]
        /\ call' = [call EXCEPT !.step = "proxy", !.made = n + 1]
        /\ UNCHANGED <<reports, requests, ctxDone, closed, binds, active>>
    BY DEF TearDown, BeginBind, At
  <1>2. call.link \in Links  BY <1>0, <1>1 DEF CallStands
  <1>3. /\ n \in Nat /\ DOMAIN tunnels = 1..n /\ \A t \in 1..n : tunnels[t] \in Tunnel  BY <1>0, InRange
  <1>4. /\ kept \in Seq(Tunnel) /\ Len(kept) = n /\ NewTunnel(call.link) \in Tunnel
        /\ \A t \in 1..n : kept[t] = IF t = old THEN TornDown(tunnels[t]) ELSE tunnels[t]
    <2>1. \A t \in 1..n : kept[t] \in Tunnel  BY <1>3 DEF TornDown, Tunnel
    <2>2. kept = [t \in DOMAIN tunnels |-> kept[t]]  OBVIOUS
    <2>3. tunnels \in Seq(Tunnel)  BY <1>0 DEF LinkTypeOK
    <2> HIDE DEF kept
    <2>4. kept \in Seq(Tunnel) /\ Len(kept) = n  BY <1>3, <2>1, <2>2, <2>3, UpdatedSeq
    <2> QED  BY <1>2, <1>3, <2>4 DEF kept, NewTunnel, Tunnel
  <1> HIDE DEF kept
  <1>5. /\ tunnels' \in Seq(Tunnel) /\ Len(tunnels') = n + 1 /\ DOMAIN tunnels' = 1..(n + 1)
        /\ tunnels'[n + 1] = NewTunnel(call.link)
        /\ \A t \in 1..n : tunnels'[t] = IF t = old THEN TornDown(tunnels[t]) ELSE tunnels[t]
    <2>1. /\ tunnels' \in Seq(Tunnel) /\ Len(tunnels') = n + 1 /\ tunnels'[n + 1] = NewTunnel(call.link)
          /\ \A t \in 1..n : tunnels'[t] = kept[t]
      BY <1>1, <1>4, AppendProperties
    <2> QED  BY <1>4, <2>1, LenProperties
  <1>6. /\ call' \in Call /\ call'.op = "bind" /\ call'.link = call.link /\ call'.step = "proxy"
        /\ call'.made = n + 1 /\ call'.attempt = call.attempt
    <2>1. call \in Call /\ n + 1 \in Nat  BY <1>0, <1>3 DEF LinkTypeOK
    <2> QED  BY <1>1, <2>1 DEF Call, Steps
  <1>7. /\ activeTunnels' \in [Links -> 0..(n + 1)] /\ activeTunnels'[call.link] = 0
        /\ \A l \in Links \ {call.link} : activeTunnels'[l] = activeTunnels[l]
    <2>1. activeTunnels \in [Links -> 0..n] /\ 0..n \subseteq 0..(n + 1) /\ 0 \in 0..(n + 1)
      BY <1>0, <1>3 DEF LinkTypeOK
    <2> QED  BY <1>1, <1>2, <2>1
  <1>8. \A t \in 1..n : tunnels'[t].link = tunnels[t].link /\ tunnels'[t] \in Tunnel
    <2> SUFFICES ASSUME NEW t \in 1..n PROVE tunnels'[t].link = tunnels[t].link /\ tunnels'[t] \in Tunnel
      OBVIOUS
    <2>1. tunnels[t] \in Tunnel /\ (tunnels'[t] = tunnels[t] \/ tunnels'[t] = TornDown(tunnels[t]))
      BY <1>3, <1>5
    <2>2. TornDown(tunnels[t]) \in Tunnel /\ TornDown(tunnels[t]).link = tunnels[t].link
      BY <2>1 DEF TornDown, Tunnel
    <2> QED  BY <2>1, <2>2
  <1>9. /\ tunnels'[n + 1].link = call.link
        /\ tunnels'[n + 1].forward = "none" /\ tunnels'[n + 1].client = "none"
    BY <1>5 DEF NewTunnel
  <1>10. \A t \in 1..(n + 1) : t \in 1..n \/ t = n + 1  BY <1>3
  <1>11. \A l \in Links : activeTunnels[l] # 0 => activeTunnels[l] \in 1..n  BY <1>0, <1>3, InRange
  <1>12. LinkTypeOK'
    <2>1. Len(binds) \in Nat  BY <1>0, InRange
    <2> QED  BY <1>0, <1>1, <1>3, <1>5, <1>6, <1>7, <2>1 DEF LinkTypeOK
  <1>13. CallStands'  BY <1>2, <1>6 DEF CallStands
  <1>14. TunnelSide'
    <2>1. TunnelTable'
      <3>1. \A t \in 1..(n + 1) : Kind[tunnels'[t].link] \in Exposed
        BY <1>0, <1>1, <1>3, <1>8, <1>9, <1>10 DEF TunnelSide, TunnelTable
      <3>2. \A l \in Links : activeTunnels'[l] # 0 => tunnels'[activeTunnels'[l]].link = l
        BY <1>0, <1>7, <1>8, <1>11 DEF TunnelSide, TunnelTable
      <3> QED  BY <1>5, <3>1, <3>2 DEF TunnelTable
    <2>2. TunnelIsNew'
      <3>1. n + 1 \in 1..(n + 1)  BY <1>3
      <3> QED  BY <1>5, <1>6, <1>7, <1>9, <3>1 DEF TunnelIsNew, Busy
    <2>3. TunnelsAreOwned'
      <3> SUFFICES ASSUME NEW t \in 1..(n + 1),
                          \/ tunnels'[t].client = "open"
                          \/ tunnels'[t].forward = "running" /\ ~tunnels'[t].cancelled
                   PROVE  activeTunnels'[tunnels'[t].link] = t
        BY <1>5 DEF TunnelsAreOwned
      <3>1. t \in 1..n  BY <1>9, <1>10
      <3>2. t # old  BY <1>3, <1>5, <3>1 DEF TornDown, Tunnel
      <3>3. tunnels'[t] = tunnels[t]  BY <1>5, <3>1, <3>2
      <3>4. activeTunnels[tunnels[t].link] = t
        <4>1. call.made # t \/ call.link # tunnels[t].link \/ activeTunnels[tunnels[t].link] = t
          BY <1>0, <1>1, <1>3, <3>1 DEF CallStands
        <4> QED  BY <1>0, <1>1, <1>3, <3>1, <3>3, <4>1 DEF TunnelSide, TunnelsAreOwned
      <3>5. tunnels[t].link \in Links /\ tunnels[t].link # call.link  BY <1>3, <3>1, <3>2, <3>4 DEF Tunnel
      <3> QED  BY <1>7, <3>3, <3>4, <3>5
    <2> QED  BY <2>1, <2>2, <2>3 DEF TunnelSide
  <1>15. BindSide'  BY <1>0, <1>1, <1>6, BindSideKept
  <1>16. OutcomeIsTrue'  BY <1>6 DEF OutcomeIsTrue
  <1>17. ReportsAreTrue'
    <2>1. \A l \in Links : call.op = "none" \/ call.link # l =>
            active'[l] = active[l] /\ activeTunnels'[l] = activeTunnels[l]
      BY <1>1, <1>7
    <2> QED  BY <1>0, <1>1, <1>6, <2>1, ReportsKept
  <1> QED  BY <1>12, <1>13, <1>14, <1>15, <1>16, <1>17, SidesNext

(* The tunnel that is forwarded enters the table. *)
LEMMA ForwardKeeps == ASSUME LinkIInv, Forward, UNCHANGED channelVars PROVE LinkIInv'
  <1> USE DEF channelVars
  <1>0. LinkTypeOK /\ CallStands /\ TunnelSide /\ BindSide /\ OutcomeIsTrue /\ ReportsAreTrue
    BY Sides
  <1> DEFINE m == call.made
             t == [tunnels[m] EXCEPT !.forward = "running"]
  <1>1. /\ call.op = "bind" /\ call.step = "forward" /\ Kind[call.link] \in Exposed
        /\ Return(TRUE)
        /\ UNCHANGED <<reports, requests, ctxDone, closed, binds, active>>
    BY DEF Forward, At
  <1>2. /\ call.link \in Links /\ m \in DOMAIN tunnels /\ tunnels[m].link = call.link
        /\ activeTunnels[call.link] = 0
    BY <1>0, <1>1 DEF CallStands, TunnelSide, TunnelIsNew, Busy
  <1>3. t \in Tunnel /\ t.link = call.link
    <2>1. tunnels[m] \in Tunnel  BY <1>0, <1>2, InRange
    <2> QED  BY <1>2, <2>1 DEF Tunnel
  <1>4. tunnels' = [tunnels EXCEPT ![m] = t] /\ activeTunnels' = [activeTunnels EXCEPT ![call.link] = m]
    BY DEF Forward
  <1> HIDE DEF m, t
  <1>5. /\ tunnels' \in Seq(Tunnel) /\ Len(tunnels') = Len(tunnels) /\ Len(tunnels) \in Nat
        /\ DOMAIN tunnels' = DOMAIN tunnels
        /\ tunnels'[m] = t /\ \A j \in DOMAIN tunnels : j # m => tunnels'[j] = tunnels[j]
    BY <1>0, <1>2, <1>3, <1>4, TunnelSet
  <1>6. /\ call' \in Call /\ call'.op = "bind" /\ call'.link = call.link /\ call'.step = "report"
        /\ call'.made = 0 /\ call'.attempt = call.attempt /\ call'.ok
    <2>1. call \in Call  BY <1>0 DEF LinkTypeOK
    <2> QED  BY <1>1, <2>1, ReturnIs
  <1>7. DOMAIN tunnels = 1..Len(tunnels) /\ Len(binds) \in Nat  BY <1>0, InRange
  <1>8. /\ activeTunnels' \in [Links -> 0..Len(tunnels)] /\ activeTunnels'[call.link] = m /\ m # 0
        /\ \A l \in Links \ {call.link} : activeTunnels'[l] = activeTunnels[l]
    <2>1. activeTunnels \in [Links -> 0..Len(tunnels)]  BY <1>0 DEF LinkTypeOK
    <2>2. m \in 0..Len(tunnels) /\ m # 0  BY <1>2, <1>5, <1>7
    <2> QED  BY <1>2, <1>4, <2>1, <2>2
  <1>9. LinkTypeOK'  BY <1>0, <1>1, <1>5, <1>6, <1>7, <1>8 DEF LinkTypeOK
  <1>10. CallStands'  BY <1>2, <1>6 DEF CallStands
  <1>11. \A i \in DOMAIN tunnels : tunnels'[i].link = tunnels[i].link  BY <1>2, <1>3, <1>5
  <1>12. TunnelSide'
    <2>1. TunnelTable'
      <3>1. \A l \in Links : activeTunnels[l] # 0 => activeTunnels[l] \in DOMAIN tunnels  BY <1>0, InRange
      <3>2. TunnelTable  BY <1>0 DEF TunnelSide
      <3> QED  BY <1>2, <1>5, <1>8, <1>11, <3>1, <3>2 DEF TunnelTable
    <2>2. TunnelIsNew'  BY <1>6 DEF TunnelIsNew, Busy
    <2>3. TunnelsAreOwned'
      <3> SUFFICES ASSUME NEW i \in DOMAIN tunnels,
                          \/ tunnels'[i].client = "open"
                          \/ tunnels'[i].forward = "running" /\ ~tunnels'[i].cancelled
                   PROVE  activeTunnels'[tunnels'[i].link] = i
        BY <1>5 DEF TunnelsAreOwned
      <3>1. CASE i = m  BY <1>2, <1>8, <1>11, <3>1
      <3>2. CASE i # m
        <4>1. tunnels'[i] = tunnels[i] /\ tunnels[i] \in Tunnel  BY <1>0, <1>5, <3>2, InRange
        <4>2. activeTunnels[tunnels[i].link] = i
          BY <1>0, <3>2, <4>1 DEF TunnelSide, TunnelsAreOwned, m
        <4>3. i # 0 /\ tunnels[i].link \in Links  BY <1>5, <1>7, <4>1 DEF Tunnel
        <4> QED  BY <1>2, <1>8, <4>1, <4>2, <4>3
      <3> QED  BY <3>1, <3>2
    <2> QED  BY <2>1, <2>2, <2>3 DEF TunnelSide
  <1>13. BindSide'  BY <1>0, <1>1, <1>6, BindSideKept
  <1>14. OutcomeIsTrue'  BY <1>6, <1>8 DEF OutcomeIsTrue, Bound
  <1>15. ReportsAreTrue'
    <2>1. \A l \in Links : call.op = "none" \/ call.link # l =>
            active'[l] = active[l] /\ activeTunnels'[l] = activeTunnels[l]
      BY <1>1, <1>8
    <2> QED  BY <1>0, <1>1, <1>6, <2>1, ReportsKept
  <1> QED  BY <1>9, <1>10, <1>12, <1>13, <1>14, <1>15, SidesNext

(* Unbind takes the tunnel out of the table and tears it down. *)
LEMMA UnbindKeeps ==
  ASSUME LinkIInv, Unbind, activeTunnels[call.link] # 0, UNCHANGED channelVars
  PROVE  LinkIInv'
  <1> USE DEF channelVars
  <1>0. LinkTypeOK /\ CallStands /\ TunnelSide /\ BindSide /\ OutcomeIsTrue /\ ReportsAreTrue
    BY Sides
  <1> DEFINE old == activeTunnels[call.link]
             p == IF TornDown(tunnels[old]).proxy = "open" THEN "stopped" ELSE TornDown(tunnels[old]).proxy
             t == [TornDown(tunnels[old]) EXCEPT !.proxy = p]
  <1>1. /\ call.op = "unbind" /\ call.step = "start" /\ Kind[call.link] \in Exposed
        /\ UNCHANGED <<reports, requests, ctxDone, closed, binds, active>>
        /\ activeTunnels' = [activeTunnels EXCEPT ![call.link] = 0]
        /\ call' = [call EXCEPT !.step = "wait", !.made = old]
    BY DEF Unbind, At
  <1>2. call.link \in Links /\ old \in DOMAIN tunnels /\ tunnels[old].link = call.link
    BY <1>0, <1>1, InRange DEF CallStands, TunnelSide, TunnelTable
  <1>3. t \in Tunnel /\ t.link = call.link /\ t.client = "closed" /\ t.cancelled = TRUE
    <2>1. tunnels[old] \in Tunnel  BY <1>0, <1>2, InRange
    <2>2. TornDown(tunnels[old]) \in Tunnel /\ TornDown(tunnels[old]).link = call.link
          /\ TornDown(tunnels[old]).client = "closed" /\ TornDown(tunnels[old]).cancelled = TRUE
      BY <1>2, <2>1 DEF TornDown, Tunnel
    <2>3. p \in {"none", "open", "stopped"}  BY <2>2 DEF Tunnel
    <2> HIDE DEF p
    <2> QED  BY <2>2, <2>3 DEF Tunnel
  <1>4. tunnels' = [tunnels EXCEPT ![old] = t]  BY <1>2, Zenon DEF Unbind
  <1> HIDE DEF t, p
  <1>5. /\ tunnels' \in Seq(Tunnel) /\ Len(tunnels') = Len(tunnels) /\ Len(tunnels) \in Nat
        /\ DOMAIN tunnels' = DOMAIN tunnels
        /\ tunnels'[old] = t /\ \A j \in DOMAIN tunnels : j # old => tunnels'[j] = tunnels[j]
    <2> HIDE DEF old
    <2> QED  BY <1>0, <1>2, <1>3, <1>4, TunnelSet
  <1>6. DOMAIN tunnels = 1..Len(tunnels) /\ Len(binds) \in Nat  BY <1>0, InRange
  <1>7. /\ call' \in Call /\ call'.op = "unbind" /\ call'.link = call.link /\ call'.step = "wait"
        /\ call'.made = old /\ call'.attempt = call.attempt
    <2>1. call \in Call /\ old \in Nat  BY <1>0, <1>2, <1>5, <1>6 DEF LinkTypeOK
    <2> HIDE DEF old
    <2> QED  BY <1>1, <2>1 DEF Call, Steps
  <1>8. /\ activeTunnels' \in [Links -> 0..Len(tunnels)] /\ activeTunnels'[call.link] = 0
        /\ \A l \in Links \ {call.link} : activeTunnels'[l] = activeTunnels[l]
    <2>1. activeTunnels \in [Links -> 0..Len(tunnels)] /\ 0 \in 0..Len(tunnels)
      BY <1>0, <1>5 DEF LinkTypeOK
    <2> QED  BY <1>1, <1>2, <2>1
  <1>9. LinkTypeOK'
    <2>1. old <= Len(tunnels) + Len(binds)  BY <1>2, <1>5, <1>6
    <2> QED  BY <1>0, <1>1, <1>5, <1>6, <1>7, <1>8, <2>1 DEF LinkTypeOK
  <1>10. CallStands'  BY <1>2, <1>7 DEF CallStands
  <1>11. \A i \in DOMAIN tunnels : tunnels'[i].link = tunnels[i].link  BY <1>2, <1>3, <1>5
  <1>12. TunnelSide'
    <2>1. TunnelTable'
      <3>1. \A l \in Links : activeTunnels[l] # 0 => activeTunnels[l] \in DOMAIN tunnels  BY <1>0, InRange
      <3>2. TunnelTable  BY <1>0 DEF TunnelSide
      <3> QED  BY <1>2, <1>5, <1>8, <1>11, <3>1, <3>2 DEF TunnelTable
    <2>2. TunnelIsNew'  BY <1>7, <1>8 DEF TunnelIsNew, Busy
    <2>3. TunnelsAreOwned'
      <3> SUFFICES ASSUME NEW i \in DOMAIN tunnels,
                          \/ tunnels'[i].client = "open"
                          \/ tunnels'[i].forward = "running" /\ ~tunnels'[i].cancelled
                   PROVE  activeTunnels'[tunnels'[i].link] = i
        BY <1>5 DEF TunnelsAreOwned
      <3>1. i # old  BY <1>3, <1>5
      <3>2. tunnels'[i] = tunnels[i] /\ tunnels[i] \in Tunnel  BY <1>0, <1>5, <3>1, InRange
      <3>3. activeTunnels[tunnels[i].link] = i
        BY <1>0, <1>1, <3>1, <3>2 DEF TunnelSide, TunnelsAreOwned
      <3>4. tunnels[i].link \in Links /\ tunnels[i].link # call.link  BY <3>1, <3>2, <3>3 DEF Tunnel
      <3> QED  BY <1>8, <3>2, <3>3, <3>4
    <2> QED  BY <2>1, <2>2, <2>3 DEF TunnelSide
  <1>13. BindSide'  BY <1>0, <1>1, <1>7, BindSideKept
  <1>14. OutcomeIsTrue'  BY <1>7 DEF OutcomeIsTrue
  <1>15. ReportsAreTrue'
    <2>1. \A l \in Links : call.op = "none" \/ call.link # l =>
            active'[l] = active[l] /\ activeTunnels'[l] = activeTunnels[l]
      BY <1>1, <1>8
    <2> QED  BY <1>0, <1>1, <1>7, <2>1, ReportsKept
  <1> QED  BY <1>9, <1>10, <1>12, <1>13, <1>14, <1>15, SidesNext

TunnelLives(t) ==
  tunnels[t].client = "open" \/ (tunnels[t].forward = "running" /\ ~tunnels[t].cancelled)

BindLives(b) ==
  \/ binds[b].remote = "open"
  \/ binds[b].relay \in {"started", "accepting", "splicing", "stalled"} /\ ~binds[b].cancelled

(* A call returns that has changed nothing: what it was making is in the table or *)
(* holds nothing.                                                                 *)
LEMMA ReturnKeeps ==
  ASSUME LinkIInv, UNCHANGED <<reports, requests, ctxDone, exposureVars, channelVars>>, call.op # "none",
         \A t \in DOMAIN tunnels : TunnelLives(t) => activeTunnels[tunnels[t].link] = t,
         \A b \in DOMAIN binds : BindLives(b) => active[binds[b].link] = b,
         \/ Return(TRUE) /\ (IF call.op = "bind" THEN Bound(call.link) ELSE ~Bound(call.link))
         \/ Return(FALSE) /\ (~Bound(call.link) \/ (call.op = "bind" /\ Kind[call.link] \in Channels))
  PROVE  LinkIInv'
  <1> USE DEF exposureVars, channelVars
  <1>0. LinkTypeOK /\ CallStands /\ TunnelSide /\ BindSide /\ OutcomeIsTrue /\ ReportsAreTrue
    BY Sides
  <1>1. /\ call' \in Call /\ call'.step = "report" /\ call'.op = call.op /\ call'.link = call.link
        /\ call'.made = 0 /\ call'.attempt = call.attempt
        /\ Return(TRUE) => call'.ok
        /\ Return(FALSE) => ~call'.ok
    <2>1. call \in Call  BY <1>0 DEF LinkTypeOK
    <2>2. Return(TRUE) \/ Return(FALSE)  OBVIOUS
    <2> QED  BY <2>1, <2>2, ReturnIs
  <1>2. LinkTypeOK'
    <2>1. Len(tunnels) \in Nat /\ Len(binds) \in Nat  BY <1>0, InRange
    <2> QED  BY <1>0, <1>1, <2>1 DEF LinkTypeOK
  <1>3. CallStands'  BY <1>0, <1>1 DEF CallStands
  <1>4. TunnelSide'
    <2>1. TunnelTable'  BY <1>0 DEF TunnelSide, TunnelTable
    <2>2. TunnelIsNew'  BY <1>1 DEF TunnelIsNew, Busy
    <2>3. TunnelsAreOwned'  BY DEF TunnelsAreOwned, TunnelLives
    <2> QED  BY <2>1, <2>2, <2>3 DEF TunnelSide
  <1>5. BindSide'
    <2>1. BindTable'  BY <1>0 DEF BindSide, BindTable
    <2>2. BindIsNew'  BY <1>1 DEF BindIsNew, Busy
    <2>3. ChannelsAreOwned'  BY DEF ChannelsAreOwned, BindLives, Owned
    <2> QED  BY <2>1, <2>2, <2>3 DEF BindSide
  <1>6. OutcomeIsTrue'  BY <1>1 DEF OutcomeIsTrue, Bound, Exposed, Channels
  <1>7. ReportsAreTrue'  BY <1>0, <1>1, ReportsKept
  <1> QED  BY <1>2, <1>3, <1>4, <1>5, <1>6, <1>7, SidesNext

(* Tunnels end, on their own or by Close; none is made and the table stays. *)
LEMMA TunnelsFade ==
  ASSUME LinkIInv, UNCHANGED <<call, reports, requests, activeTunnels, channelVars>>,
         ctxDone' \in BOOLEAN, closed' \in BOOLEAN,
         tunnels' = [t \in DOMAIN tunnels |-> tunnels'[t]],
         \A t \in DOMAIN tunnels :
           /\ tunnels'[t] \in Tunnel /\ tunnels'[t].link = tunnels[t].link
           /\ TunnelLives(t)' => TunnelLives(t)
           /\ tunnels[t].forward = "none" => tunnels'[t].forward = "none"
           /\ tunnels[t].client = "none" /\ activeTunnels[tunnels[t].link] # t => tunnels'[t].client = "none"
  PROVE  LinkIInv'
  <1> USE DEF channelVars
  <1>0. LinkTypeOK /\ CallStands /\ TunnelSide /\ BindSide /\ OutcomeIsTrue /\ ReportsAreTrue
    BY Sides
  <1>1. /\ tunnels' \in Seq(Tunnel) /\ Len(tunnels') = Len(tunnels) /\ DOMAIN tunnels' = DOMAIN tunnels
        /\ DOMAIN tunnels = 1..Len(tunnels)
    <2>1. tunnels \in Seq(Tunnel)  BY <1>0 DEF LinkTypeOK
    <2> QED  BY <2>1, UpdatedSeq
  <1>2. LinkTypeOK'  BY <1>0, <1>1 DEF LinkTypeOK
  <1>3. CallStands'  BY <1>0 DEF CallStands
  <1>4. TunnelSide'
    <2>1. TunnelTable'
      <3>1. \A l \in Links : activeTunnels[l] # 0 => activeTunnels[l] \in DOMAIN tunnels  BY <1>0, InRange
      <3> QED  BY <1>0, <1>1, <3>1 DEF TunnelSide, TunnelTable
    <2>2. TunnelIsNew'
      <3>1. 0 \notin DOMAIN tunnels  BY <1>1
      <3> QED  BY <1>0, <1>1, <3>1 DEF TunnelSide, TunnelIsNew, Busy
    <2>3. TunnelsAreOwned'
      <3>1. \A t \in DOMAIN tunnels : TunnelLives(t) =>
              \/ activeTunnels[tunnels[t].link] = t
              \/ call.op = "bind" /\ call.link = tunnels[t].link /\ call.made = t
        BY <1>0 DEF TunnelSide, TunnelsAreOwned, TunnelLives
      <3>2. \A t \in DOMAIN tunnels' : TunnelLives(t)' =>
              \/ activeTunnels'[tunnels'[t].link] = t
              \/ call'.op = "bind" /\ call'.link = tunnels'[t].link /\ call'.made = t
        BY <1>1, <3>1
      <3> QED  BY <3>2 DEF TunnelsAreOwned, TunnelLives
    <2> QED  BY <2>1, <2>2, <2>3 DEF TunnelSide
  <1>5. BindSide'  BY <1>0, BindSideKept
  <1>6. OutcomeIsTrue'  BY <1>0 DEF OutcomeIsTrue, Bound
  <1>7. ReportsAreTrue'  BY <1>0, ReportsKept
  <1> QED  BY <1>2, <1>3, <1>4, <1>5, <1>6, <1>7, SidesNext

(* Every step in the exposure provider keeps the invariant. *)
LEMMA ExposureKeeps == ASSUME LinkIInv, ExposureStep, UNCHANGED channelVars PROVE LinkIInv'
  <1>0. LinkTypeOK /\ CallStands /\ TunnelSide /\ BindSide /\ OutcomeIsTrue /\ ReportsAreTrue
    BY Sides
  <1>r. /\ DOMAIN tunnels = 1..Len(tunnels) /\ \A t \in DOMAIN tunnels : tunnels[t] \in Tunnel
        /\ ctxDone \in BOOLEAN /\ closed \in BOOLEAN
    BY <1>0, InRange DEF LinkTypeOK
  <1>1. CASE TearDown  BY <1>1, TearDownKeeps
  <1>2. CASE StartProxy \/ Connect \/ HealthCheck  BY <1>2, MakingStep
  <1>3. CASE Forward  BY <1>3, ForwardKeeps
  <1>4. ASSUME call.op = "unbind", Kind[call.link] \in Exposed, activeTunnels[call.link] = 0,
               Return(TRUE) \/ Return(FALSE), UNCHANGED <<reports, requests, ctxDone, exposureVars>>
        PROVE  LinkIInv'
    <2>1. ~Bound(call.link)
      <3>1. call.link \in Links  BY <1>0, <1>4 DEF CallStands
      <3> QED  BY <1>0, <1>4, <3>1, OneTable DEF Bound, TunnelSide, BindSide
    <2>2. /\ \A t \in DOMAIN tunnels : TunnelLives(t) => activeTunnels[tunnels[t].link] = t
          /\ \A b \in DOMAIN binds : BindLives(b) => active[binds[b].link] = b
      BY <1>0, <1>4 DEF TunnelSide, BindSide, TunnelsAreOwned, ChannelsAreOwned, Owned, TunnelLives, BindLives
    <2> QED  BY <1>4, <2>1, <2>2, ReturnKeeps
  <1>5. CASE Unbind
    <2>1. CASE activeTunnels[call.link] = 0
      BY <1>4, <1>5, <2>1 DEF Unbind, At, exposureVars
    <2>2. CASE activeTunnels[call.link] # 0
      BY <1>5, <2>2, UnbindKeeps
    <2> QED  BY <2>1, <2>2
  <1>6. CASE WaitForForward
    <2>1. call.op = "unbind" /\ Kind[call.link] \in Exposed /\ activeTunnels[call.link] = 0
      BY <1>0, <1>6 DEF WaitForForward, At, TunnelSide, TunnelIsNew, Busy
    <2> QED  BY <1>4, <1>6, <2>1 DEF WaitForForward
  <1>7. ASSUME NEW i \in DOMAIN tunnels, ForwardEnds(i) PROVE LinkIInv'
    <2> DEFINE u == [tunnels[i] EXCEPT !.forward = "done"]
    <2>1. u \in Tunnel /\ u.link = tunnels[i].link /\ u.client = tunnels[i].client /\ u.forward = "done"
          /\ tunnels[i].forward = "running"
      BY <1>7, <1>r DEF Tunnel, ForwardEnds
    <2>2. /\ tunnels' = [tunnels EXCEPT ![i] = u] /\ UNCHANGED <<call, reports, requests, ctxDone>>
          /\ UNCHANGED <<activeTunnels, closed>>
      BY <1>7 DEF ForwardEnds, handlerVars
    <2> HIDE DEF u
    <2>3. /\ tunnels' = [t \in DOMAIN tunnels |-> tunnels'[t]]
          /\ tunnels'[i] = u /\ \A t \in DOMAIN tunnels : t # i => tunnels'[t] = tunnels[t]
      BY <2>2
    <2>4. \A t \in DOMAIN tunnels :
            /\ tunnels'[t] \in Tunnel /\ tunnels'[t].link = tunnels[t].link
            /\ TunnelLives(t)' => TunnelLives(t)
            /\ tunnels[t].forward = "none" => tunnels'[t].forward = "none"
            /\ tunnels[t].client = "none" /\ activeTunnels[tunnels[t].link] # t => tunnels'[t].client = "none"
      BY <1>r, <2>1, <2>3 DEF TunnelLives
    <2> QED  BY <1>r, <2>2, <2>3, <2>4, TunnelsFade
  <1>8. ASSUME NEW i \in DOMAIN tunnels, ProxyStops(i) PROVE LinkIInv'
    <2> DEFINE u == [tunnels[i] EXCEPT !.proxy = "stopped"]
    <2>1. u \in Tunnel /\ u.link = tunnels[i].link /\ u.client = tunnels[i].client
          /\ u.forward = tunnels[i].forward /\ u.cancelled = tunnels[i].cancelled
      BY <1>8, <1>r DEF Tunnel
    <2>2. /\ tunnels' = [tunnels EXCEPT ![i] = u] /\ UNCHANGED <<call, reports, requests, ctxDone>>
          /\ UNCHANGED <<activeTunnels, closed>>
      BY <1>8 DEF ProxyStops, handlerVars
    <2> HIDE DEF u
    <2>3. /\ tunnels' = [t \in DOMAIN tunnels |-> tunnels'[t]]
          /\ tunnels'[i] = u /\ \A t \in DOMAIN tunnels : t # i => tunnels'[t] = tunnels[t]
      BY <2>2
    <2>4. \A t \in DOMAIN tunnels :
            /\ tunnels'[t] \in Tunnel /\ tunnels'[t].link = tunnels[t].link
            /\ TunnelLives(t)' => TunnelLives(t)
            /\ tunnels[t].forward = "none" => tunnels'[t].forward = "none"
            /\ tunnels[t].client = "none" /\ activeTunnels[tunnels[t].link] # t => tunnels'[t].client = "none"
      BY <1>r, <2>1, <2>3 DEF TunnelLives
    <2> QED  BY <1>r, <2>2, <2>3, <2>4, TunnelsFade
  <1>9. CASE CloseTunnels
    <2>1. /\ UNCHANGED <<call, reports, requests, ctxDone, activeTunnels>> /\ closed' \in BOOLEAN
          /\ tunnels' = [t \in DOMAIN tunnels |->
               IF activeTunnels[tunnels[t].link] = t THEN TornDown(tunnels[t]) ELSE tunnels[t]]
      BY <1>9 DEF CloseTunnels, handlerVars
    <2>2. tunnels' = [t \in DOMAIN tunnels |-> tunnels'[t]]  BY <2>1
    <2>3. ASSUME NEW t \in DOMAIN tunnels
          PROVE  /\ tunnels'[t] \in Tunnel /\ tunnels'[t].link = tunnels[t].link
                 /\ TunnelLives(t)' => TunnelLives(t)
                 /\ tunnels[t].forward = "none" => tunnels'[t].forward = "none"
                 /\ tunnels[t].client = "none" /\ activeTunnels[tunnels[t].link] # t =>
                      tunnels'[t].client = "none"
      <3>1. CASE activeTunnels[tunnels[t].link] = t
        <4>1. tunnels'[t] = TornDown(tunnels[t]) /\ tunnels[t] \in Tunnel  BY <1>r, <2>1, <3>1
        <4>2. /\ tunnels'[t] \in Tunnel /\ tunnels'[t].link = tunnels[t].link
              /\ tunnels'[t].client = "closed" /\ tunnels'[t].forward = tunnels[t].forward
              /\ tunnels'[t].cancelled = TRUE
          BY <4>1 DEF TornDown, Tunnel
        <4> QED  BY <3>1, <4>2 DEF TunnelLives
      <3>2. CASE activeTunnels[tunnels[t].link] # t
        <4>1. tunnels'[t] = tunnels[t]  BY <2>1, <3>2
        <4> QED  BY <1>r, <4>1 DEF TunnelLives
      <3> QED  BY <3>1, <3>2
    <2> QED  BY <1>r, <2>1, <2>2, <2>3, TunnelsFade
  <1> QED  BY <1>1, <1>2, <1>3, <1>5, <1>6, <1>7, <1>8, <1>9 DEF ExposureStep

-----------------------------------------------------------------------------
(* The links: the steps of the channel provider.                           *)

(* A bind that is not in the table yet has changed, and goes on or fails. *)
LEMMA BindKeeps ==
  ASSUME LinkIInv, Busy("bind", {"dial", "establish"}, Channels), UNCHANGED exposureVars,
         NEW r \in Bind, r.link = call.link, r.relay = "none", binds' = [binds EXCEPT ![call.made] = r],
         UNCHANGED <<reports, requests, ctxDone, active>>,
         \/ Continue("backoff") /\ r.remote # "open" /\ call.attempt < MaxAttempts
         \/ Continue("establish")
         \/ Return(FALSE) /\ r.remote # "open"
  PROVE  LinkIInv'
  <1> USE DEF exposureVars
  <1>0. LinkTypeOK /\ CallStands /\ TunnelSide /\ BindSide /\ OutcomeIsTrue /\ ReportsAreTrue
    BY Sides
  <1>1. /\ call.op = "bind" /\ call.step \in {"dial", "establish"} /\ Kind[call.link] \in Channels
        /\ call.link \in Links /\ call.made \in DOMAIN binds /\ binds[call.made].link = call.link
        /\ active[call.link] = 0
    BY <1>0 DEF Busy, BindSide, BindIsNew, CallStands
  <1>3. /\ binds' \in Seq(Bind) /\ Len(binds') = Len(binds) /\ Len(binds) \in Nat
        /\ DOMAIN binds' = DOMAIN binds
        /\ binds'[call.made] = r /\ \A i \in DOMAIN binds : i # call.made => binds'[i] = binds[i]
    BY <1>0, <1>1, BindSet
  <1>4. /\ call' \in Call /\ call'.op = "bind" /\ call'.link = call.link /\ call'.attempt = call.attempt
        /\ \/ /\ call'.step \in {"backoff", "establish"} /\ call'.made = call.made
              /\ call'.step = "backoff" => r.remote # "open" /\ call.attempt < MaxAttempts
           \/ call'.step = "report" /\ call'.made = 0 /\ ~call'.ok /\ r.remote # "open"
    <2>1. call \in Call  BY <1>0 DEF LinkTypeOK
    <2>2. "backoff" \in Steps /\ "establish" \in Steps  BY DEF Steps
    <2>3. CASE Continue("backoff") /\ r.remote # "open" /\ call.attempt < MaxAttempts
      BY <1>1, <2>1, <2>2, <2>3, ContinueIs
    <2>4. CASE Continue("establish")
      BY <1>1, <2>1, <2>2, <2>4, ContinueIs
    <2>5. CASE Return(FALSE) /\ r.remote # "open"
      BY <1>1, <2>1, <2>5, ReturnIs
    <2> QED  BY <2>3, <2>4, <2>5
  <1>5. LinkTypeOK'
    <2>1. call'.made <= Len(tunnels') + Len(binds')  BY <1>0, <1>3, <1>4, InRange DEF LinkTypeOK
    <2> QED  BY <1>0, <1>3, <1>4, <2>1 DEF LinkTypeOK
  <1>6. CallStands'  BY <1>1, <1>4 DEF CallStands
  <1>7. BindSide'
    <2>1. BindTable'
      <3>1. \A i \in DOMAIN binds : binds'[i].link = binds[i].link  BY <1>1, <1>3
      <3>2. \A l \in Links : active[l] # 0 => active[l] \in DOMAIN binds  BY <1>0, InRange
      <3>3. BindTable  BY <1>0 DEF BindSide
      <3> QED  BY <1>3, <3>1, <3>2, <3>3 DEF BindTable
    <2>2. BindIsNew'  BY <1>1, <1>3, <1>4 DEF BindIsNew, Busy
    <2>3. ChannelsAreOwned'
      <3> SUFFICES ASSUME NEW i \in DOMAIN binds, BindLives(i)'
                   PROVE  \/ active[binds'[i].link] = i
                          \/ call'.op = "bind" /\ call'.link = binds'[i].link /\ call'.made = i
        BY <1>3 DEF ChannelsAreOwned, Owned, BindLives
      <3>1. CASE i = call.made  BY <1>1, <1>3, <1>4, <3>1 DEF BindLives
      <3>2. CASE i # call.made
        BY <1>0, <1>3, <3>2 DEF BindSide, ChannelsAreOwned, Owned, BindLives
      <3> QED  BY <3>1, <3>2
    <2> QED  BY <2>1, <2>2, <2>3 DEF BindSide
  <1>8. TunnelSide'  BY <1>0, <1>1, <1>4, TunnelSideKept
  <1>9. OutcomeIsTrue'  BY <1>1, <1>4 DEF OutcomeIsTrue, Exposed, Channels
  <1>10. ReportsAreTrue'  BY <1>0, <1>1, <1>4, ReportsKept
  <1> QED  BY <1>5, <1>6, <1>7, <1>8, <1>9, <1>10, SidesNext

(* The dials of a bind, and the port that is not there. *)
LEMMA DialStep ==
  ASSUME LinkIInv, DialFails \/ NotReady \/ Upgraded \/ NoLocalPort, UNCHANGED exposureVars
  PROVE  LinkIInv'
  <1> DEFINE b == binds[call.made]
             Open   == [b EXCEPT !.remote = "open"]
             Closed == [b EXCEPT !.remote = "closed"]
             Gone   == [b EXCEPT !.remote = "closed", !.cancelled = TRUE]
  <1>1. /\ call.op = "bind" /\ Kind[call.link] \in Channels
        /\ call.step \in {"dial", "establish"}
    BY DEF DialFails, NotReady, Upgraded, NoLocalPort, At, Channels
  <1>2. LinkTypeOK /\ BindIsNew  BY DEF LinkIInv
  <1>3. call.made \in DOMAIN binds /\ b \in Bind /\ b.link = call.link /\ b.relay = "none"
    BY <1>1, <1>2, InRange DEF BindIsNew, Busy
  <1>4. /\ \A r \in {Open, Closed, Gone} : r \in Bind /\ r.link = call.link /\ r.relay = "none"
        /\ Closed.remote # "open" /\ Gone.remote # "open"
    BY <1>3 DEF Bind
  <1>5. Busy("bind", {"dial", "establish"}, Channels)  BY <1>1 DEF Busy
  <1>6. UNCHANGED <<reports, requests, ctxDone, active>>
    BY DEF DialFails, NotReady, Upgraded, NoLocalPort
  <1>7. ASSUME NEW r \in {Open, Closed, Gone}, binds' = [binds EXCEPT ![call.made] = r],
               \/ Continue("backoff") /\ r.remote # "open" /\ call.attempt < MaxAttempts
               \/ Continue("establish")
               \/ Return(FALSE) /\ r.remote # "open"
        PROVE  LinkIInv'
    <2>1. r \in Bind /\ r.link = call.link /\ r.relay = "none"  BY <1>4
    <2> HIDE DEF Open, Closed, Gone
    <2> QED  BY <1>5, <1>6, <1>7, <2>1, BindKeeps
  <1>8. CASE DialFails
    <2>1. binds' = [binds EXCEPT ![call.made] = Closed] /\ Return(FALSE)
      BY <1>8, Zenon DEF DialFails, SetRemote
    <2> HIDE DEF Open, Closed, Gone
    <2> QED  BY <1>4, <1>7, <2>1
  <1>9. CASE NotReady
    <2>1. /\ binds' = [binds EXCEPT ![call.made] = Closed]
          /\ (call.attempt < MaxAttempts /\ Continue("backoff")) \/ Return(FALSE)
      BY <1>9, Zenon DEF NotReady, SetRemote
    <2> HIDE DEF Open, Closed, Gone
    <2> QED  BY <1>4, <1>7, <2>1
  <1>10. CASE Upgraded
    <2>1. binds' = [binds EXCEPT ![call.made] = Open] /\ Continue("establish")
      BY <1>10, Zenon DEF Upgraded, SetRemote
    <2> HIDE DEF Open, Closed, Gone
    <2> QED  BY <1>4, <1>7, <2>1
  <1>11. CASE NoLocalPort
    <2>1. binds' = [binds EXCEPT ![call.made] = Gone] /\ Return(FALSE)
      <3>1. Return(FALSE)  BY <1>11 DEF NoLocalPort
      <3>2. binds' = [binds EXCEPT ![call.made].remote = "closed", ![call.made].cancelled = TRUE]
        BY <1>11 DEF NoLocalPort
      <3> QED  BY <1>3, <3>1, <3>2
    <2> HIDE DEF Open, Closed, Gone
    <2> QED  BY <1>4, <1>7, <2>1
  <1> QED  BY <1>8, <1>9, <1>10, <1>11

(* The initiator waits and dials again. *)
LEMMA DialAgain ==
  ASSUME LinkIInv, Busy("bind", {"backoff"}, Channels), UNCHANGED exposureVars,
         call' = [call EXCEPT !.step = "dial", !.attempt = @ + 1],
         UNCHANGED <<reports, requests, ctxDone, channelVars>>
  PROVE  LinkIInv'
  <1> USE DEF exposureVars, channelVars
  <1>0. LinkTypeOK /\ CallStands /\ TunnelSide /\ BindSide /\ OutcomeIsTrue /\ ReportsAreTrue
    BY Sides
  <1>1. call.op = "bind" /\ call.step = "backoff" /\ Kind[call.link] \in Channels /\ call.link \in Links
    BY <1>0 DEF Busy, CallStands
  <1>2. /\ call' \in Call /\ call'.op = "bind" /\ call'.link = call.link /\ call'.made = call.made
        /\ call'.step = "dial" /\ call'.attempt <= MaxAttempts
    <2>1. call \in Call /\ call.attempt < MaxAttempts /\ MaxAttempts \in Nat
      BY <1>0, <1>1, MaxAttemptsOK DEF LinkTypeOK, CallStands, MaxAttemptsOK
    <2>2. call.attempt \in Nat /\ call.attempt + 1 \in Nat /\ call.attempt + 1 <= MaxAttempts
      BY <2>1 DEF Call
    <2> QED  BY <1>1, <2>1, <2>2 DEF Call, Steps
  <1>3. LinkTypeOK'  BY <1>0, <1>2 DEF LinkTypeOK
  <1>4. CallStands'  BY <1>1, <1>2 DEF CallStands
  <1>5. BindSide'
    <2>1. BindTable'  BY <1>0 DEF BindSide, BindTable
    <2>2. BindIsNew'  BY <1>0, <1>1, <1>2 DEF BindSide, BindIsNew, Busy
    <2>3. ChannelsAreOwned'  BY <1>0, <1>1, <1>2 DEF BindSide, ChannelsAreOwned, Owned
    <2> QED  BY <2>1, <2>2, <2>3 DEF BindSide
  <1>6. TunnelSide'  BY <1>0, <1>1, <1>2, TunnelSideKept
  <1>7. OutcomeIsTrue'  BY <1>2 DEF OutcomeIsTrue
  <1>8. ReportsAreTrue'  BY <1>0, <1>1, <1>2, ReportsKept
  <1> QED  BY <1>3, <1>4, <1>5, <1>6, <1>7, <1>8, SidesNext

(* A bind that is not in the table begins. *)
LEMMA BindBegins ==
  ASSUME LinkIInv, CheckActive, active[call.link] = 0, UNCHANGED exposureVars
  PROVE  LinkIInv'
  <1> USE DEF exposureVars
  <1>0. LinkTypeOK /\ CallStands /\ TunnelSide /\ BindSide /\ OutcomeIsTrue /\ ReportsAreTrue
    BY Sides
  <1> DEFINE n == Len(binds)
  <1>1. /\ call.op = "bind" /\ call.step = "start" /\ Kind[call.link] \in Channels
        /\ binds' = Append(binds, NewBind(call.link))
        /\ call' = [call EXCEPT !.step = "dial", !.made = n + 1, !.attempt = 1]
        /\ UNCHANGED <<reports, requests, ctxDone, active>>
    BY DEF CheckActive, At
  <1>2. call.link \in Links /\ call.made = 0  BY <1>0, <1>1 DEF CallStands
  <1>3. n \in Nat /\ DOMAIN binds = 1..n /\ Len(tunnels) \in Nat  BY <1>0, InRange
  <1>4. NewBind(call.link) \in Bind  BY <1>2 DEF NewBind, Bind
  <1>5. /\ binds' \in Seq(Bind) /\ Len(binds') = n + 1 /\ DOMAIN binds' = 1..(n + 1)
        /\ binds'[n + 1] = NewBind(call.link)
        /\ \A b \in 1..n : binds'[b] = binds[b]
    <2>1. binds \in Seq(Bind)  BY <1>0 DEF LinkTypeOK
    <2>2. /\ binds' \in Seq(Bind) /\ Len(binds') = n + 1 /\ binds'[n + 1] = NewBind(call.link)
          /\ \A b \in 1..n : binds'[b] = binds[b]
      BY <1>1, <1>4, <2>1, AppendProperties
    <2> QED  BY <2>2, LenProperties
  <1>6. /\ call' \in Call /\ call'.op = "bind" /\ call'.link = call.link /\ call'.step = "dial"
        /\ call'.made = n + 1 /\ call'.attempt = 1
    <2>1. call \in Call /\ n + 1 \in Nat /\ 1 \in Nat  BY <1>0, <1>3 DEF LinkTypeOK
    <2> HIDE DEF n
    <2> QED  BY <1>1, <2>1 DEF Call, Steps
  <1>7. /\ binds'[n + 1].link = call.link /\ binds'[n + 1].relay = "none" /\ binds'[n + 1].remote = "none"
    BY <1>5 DEF NewBind
  <1>8. \A b \in 1..(n + 1) : b \in 1..n \/ b = n + 1  BY <1>3
  <1>9. \A l \in Links : active[l] # 0 => active[l] \in 1..n  BY <1>0, <1>3, InRange
  <1>10. LinkTypeOK'
    <2>1. active \in [Links -> 0..(n + 1)]
      <3>1. active \in [Links -> 0..n] /\ 0..n \subseteq 0..(n + 1)  BY <1>0, <1>3 DEF LinkTypeOK
      <3> QED  BY <3>1
    <2>2. n + 1 <= Len(tunnels) + (n + 1)  BY <1>3
    <2>3. 1 <= MaxAttempts  BY MaxAttemptsOK DEF MaxAttemptsOK
    <2> QED  BY <1>0, <1>1, <1>5, <1>6, <2>1, <2>2, <2>3 DEF LinkTypeOK
  <1>11. CallStands'  BY <1>2, <1>6 DEF CallStands
  <1>12. BindSide'
    <2>1. BindTable'
      <3>1. BindTable  BY <1>0 DEF BindSide
      <3> QED  BY <1>1, <1>3, <1>5, <1>7, <1>8, <1>9, <3>1 DEF BindTable
    <2>2. BindIsNew'
      <3>1. n + 1 \in 1..(n + 1)  BY <1>3
      <3> QED  BY <1>1, <1>5, <1>6, <1>7, <3>1 DEF BindIsNew, Busy
    <2>3. ChannelsAreOwned'
      <3> SUFFICES ASSUME NEW b \in 1..(n + 1), BindLives(b)' PROVE active[binds'[b].link] = b
        BY <1>1, <1>5 DEF ChannelsAreOwned, Owned, BindLives
      <3>1. b \in 1..n  BY <1>7, <1>8 DEF BindLives
      <3>2. binds'[b] = binds[b] /\ call.made # b  BY <1>2, <1>3, <1>5, <3>1
      <3> QED  BY <1>0, <1>3, <3>1, <3>2 DEF BindSide, ChannelsAreOwned, Owned, BindLives
    <2> QED  BY <2>1, <2>2, <2>3 DEF BindSide
  <1>13. TunnelSide'  BY <1>0, <1>1, <1>6, TunnelSideKept
  <1>14. OutcomeIsTrue'  BY <1>6 DEF OutcomeIsTrue
  <1>15. ReportsAreTrue'  BY <1>0, <1>1, <1>6, ReportsKept
  <1> QED  BY <1>10, <1>11, <1>12, <1>13, <1>14, <1>15, SidesNext

(* The session or the port is there: the channel goes into the table. *)
LEMMA EstablishKeeps ==
  ASSUME LinkIInv, EstablishListener \/ EstablishInitiator, UNCHANGED exposureVars
  PROVE  LinkIInv'
  <1> USE DEF exposureVars
  <1>0. LinkTypeOK /\ CallStands /\ TunnelSide /\ BindSide /\ OutcomeIsTrue /\ ReportsAreTrue
    BY Sides
  <1> DEFINE m == call.made
  <1>1. /\ call.op = "bind" /\ call.step = "establish" /\ Kind[call.link] \in Channels
        /\ active' = [active EXCEPT ![call.link] = m]
        /\ Return(TRUE) \/ Continue("ready")
        /\ UNCHANGED <<reports, requests, ctxDone>>
    BY DEF EstablishListener, EstablishInitiator, At, Channels
  <1>2. /\ call.link \in Links /\ m \in DOMAIN binds /\ binds[m].link = call.link
        /\ active[call.link] = 0
    BY <1>0, <1>1 DEF CallStands, BindSide, BindIsNew, Busy
  <1>3. PICK r \in Bind : r.link = call.link /\ binds' = [binds EXCEPT ![m] = r]
    <2> DEFINE u == [binds[m] EXCEPT !.relay = "accepting"]
               v == [binds[m] EXCEPT !.ln = "open", !.relay = "started"]
    <2>1. binds[m] \in Bind  BY <1>0, <1>2, InRange
    <2>2. u \in Bind /\ u.link = call.link /\ v \in Bind /\ v.link = call.link  BY <1>2, <2>1 DEF Bind
    <2>3. EstablishListener => binds' = [binds EXCEPT ![m] = u]  BY Zenon DEF EstablishListener
    <2>4. EstablishInitiator => binds' = [binds EXCEPT ![m] = v]
      <3>1. EstablishInitiator => binds' = [binds EXCEPT ![m].ln = "open", ![m].relay = "started"]
        BY DEF EstablishInitiator
      <3> QED  BY <1>2, <3>1
    <2> HIDE DEF u, v
    <2> QED  BY <2>2, <2>3, <2>4
  <1> HIDE DEF m
  <1>4. /\ binds' \in Seq(Bind) /\ Len(binds') = Len(binds) /\ Len(binds) \in Nat
        /\ DOMAIN binds' = DOMAIN binds
        /\ binds'[m] = r /\ \A i \in DOMAIN binds : i # m => binds'[i] = binds[i]
    BY <1>0, <1>2, <1>3, BindSet
  <1>5. DOMAIN binds = 1..Len(binds) /\ Len(tunnels) \in Nat  BY <1>0, InRange
  <1>6. m # 0 /\ m \in 0..Len(binds)  BY <1>2, <1>4, <1>5
  <1>7. /\ call' \in Call /\ call'.op = "bind" /\ call'.link = call.link /\ call'.attempt = call.attempt
        /\ \/ call'.step = "report" /\ call'.made = 0 /\ call'.ok
           \/ call'.step = "ready" /\ call'.made = m
    <2>1. call \in Call /\ "ready" \in Steps  BY <1>0 DEF LinkTypeOK, Steps
    <2>2. CASE Return(TRUE)  BY <1>1, <2>1, <2>2, ReturnIs
    <2>3. CASE Continue("ready")  BY <1>1, <2>1, <2>3, ContinueIs DEF m
    <2> QED  BY <1>1, <2>2, <2>3
  <1>8. /\ active' \in [Links -> 0..Len(binds)] /\ active'[call.link] = m
        /\ \A l \in Links \ {call.link} : active'[l] = active[l]
    <2>1. active \in [Links -> 0..Len(binds)]  BY <1>0 DEF LinkTypeOK
    <2> QED  BY <1>1, <1>2, <1>6, <2>1
  <1>9. LinkTypeOK'
    <2>1. call'.made <= Len(tunnels) + Len(binds)  BY <1>4, <1>5, <1>6, <1>7
    <2> QED  BY <1>0, <1>1, <1>4, <1>7, <1>8, <2>1 DEF LinkTypeOK
  <1>10. CallStands'  BY <1>2, <1>7 DEF CallStands
  <1>11. \A i \in DOMAIN binds : binds'[i].link = binds[i].link  BY <1>2, <1>3, <1>4
  <1>12. BindSide'
    <2>1. BindTable'
      <3>1. \A l \in Links : active[l] # 0 => active[l] \in DOMAIN binds  BY <1>0, InRange
      <3>2. BindTable  BY <1>0 DEF BindSide
      <3> QED  BY <1>2, <1>4, <1>8, <1>11, <3>1, <3>2, ZenonT(40) DEF BindTable
    <2>2. BindIsNew'  BY <1>6, <1>7, <1>8 DEF BindIsNew, Busy
    <2>3. ChannelsAreOwned'
      <3> SUFFICES ASSUME NEW i \in DOMAIN binds, BindLives(i)' PROVE active'[binds'[i].link] = i
        BY <1>4 DEF ChannelsAreOwned, Owned, BindLives
      <3>1. CASE i = m  BY <1>2, <1>8, <1>11, <3>1
      <3>2. CASE i # m
        <4>1. binds'[i] = binds[i] /\ binds[i] \in Bind  BY <1>0, <1>4, <3>2, InRange
        <4>2. active[binds[i].link] = i
          BY <1>0, <3>2, <4>1 DEF BindSide, ChannelsAreOwned, Owned, BindLives, m
        <4>3. i # 0 /\ binds[i].link \in Links  BY <1>4, <1>5, <4>1 DEF Bind
        <4> QED  BY <1>2, <1>8, <4>1, <4>2, <4>3
      <3> QED  BY <3>1, <3>2
    <2> QED  BY <2>1, <2>2, <2>3 DEF BindSide
  <1>13. TunnelSide'  BY <1>0, <1>1, <1>7, TunnelSideKept
  <1>14. OutcomeIsTrue'  BY <1>6, <1>7, <1>8 DEF OutcomeIsTrue, Bound
  <1>15. ReportsAreTrue'
    <2>1. \A l \in Links : call.op = "none" \/ call.link # l =>
            active'[l] = active[l] /\ activeTunnels'[l] = activeTunnels[l]
      BY <1>1, <1>8
    <2> QED  BY <1>0, <1>1, <1>7, <2>1, ReportsKept
  <1> QED  BY <1>9, <1>10, <1>12, <1>13, <1>14, <1>15, SidesNext

(* UnbindChannel takes the channel out of the table and cancels its relay. *)
LEMMA UnbindChannelKeeps == ASSUME LinkIInv, UnbindChannel, UNCHANGED exposureVars PROVE LinkIInv'
  <1> USE DEF exposureVars
  <1>0. LinkTypeOK /\ CallStands /\ TunnelSide /\ BindSide /\ OutcomeIsTrue /\ ReportsAreTrue
    BY Sides
  <1> DEFINE old == active[call.link]
             Ended(b) == [binds[b] EXCEPT !.remote = "closed", !.cancelled = TRUE]
  <1>1. /\ call.op = "unbind" /\ call.step = "start" /\ Kind[call.link] \in Channels
        /\ active' = [active EXCEPT ![call.link] = 0]
        /\ binds' = [b \in DOMAIN binds |-> IF b = old THEN Ended(b) ELSE binds[b]]
        /\ Return(TRUE)
        /\ UNCHANGED <<reports, requests, ctxDone>>
    BY DEF UnbindChannel, EndBind, At
  <1>2. call.link \in Links /\ call.made = 0  BY <1>0, <1>1 DEF CallStands
  <1>3. ASSUME NEW b \in DOMAIN binds
        PROVE  /\ binds'[b] \in Bind /\ binds'[b].link = binds[b].link
               /\ b = old => ~BindLives(b)'
               /\ b # old => binds'[b] = binds[b]
    <2>1. binds[b] \in Bind  BY <1>0, InRange
    <2>2. /\ Ended(b) \in Bind /\ Ended(b).link = binds[b].link /\ Ended(b).remote = "closed"
          /\ Ended(b).cancelled = TRUE
      BY <2>1 DEF Bind
    <2> HIDE DEF Ended
    <2>3. binds'[b] = IF b = old THEN Ended(b) ELSE binds[b]  BY <1>1
    <2> QED  BY <2>1, <2>2, <2>3 DEF BindLives
  <1>4. /\ binds' \in Seq(Bind) /\ Len(binds') = Len(binds) /\ Len(binds) \in Nat
        /\ DOMAIN binds' = DOMAIN binds /\ DOMAIN binds = 1..Len(binds)
    <2>1. binds \in Seq(Bind) /\ binds' = [b \in DOMAIN binds |-> binds'[b]]  BY <1>0, <1>1 DEF LinkTypeOK
    <2> QED  BY <1>3, <2>1, UpdatedSeq
  <1> HIDE DEF Ended
  <1>5. /\ call' \in Call /\ call'.op = "unbind" /\ call'.link = call.link /\ call'.step = "report"
        /\ call'.made = 0 /\ call'.attempt = call.attempt
    <2>1. call \in Call  BY <1>0 DEF LinkTypeOK
    <2> QED  BY <1>1, <2>1, ReturnIs
  <1>6. /\ active' \in [Links -> 0..Len(binds)] /\ active'[call.link] = 0
        /\ \A l \in Links \ {call.link} : active'[l] = active[l]
    <2>1. active \in [Links -> 0..Len(binds)] /\ 0 \in 0..Len(binds)  BY <1>0, <1>4 DEF LinkTypeOK
    <2> QED  BY <1>1, <1>2, <2>1
  <1>7. LinkTypeOK'
    <2>1. Len(tunnels) \in Nat  BY <1>0, InRange
    <2>2. 0 <= Len(tunnels) + Len(binds)  BY <1>4, <2>1
    <2> QED  BY <1>0, <1>1, <1>4, <1>5, <1>6, <2>2 DEF LinkTypeOK
  <1>8. CallStands'  BY <1>2, <1>5 DEF CallStands
  <1>9. BindSide'
    <2>1. BindTable'
      <3>1. \A l \in Links : active[l] # 0 => active[l] \in DOMAIN binds  BY <1>0, InRange
      <3>2. BindTable  BY <1>0 DEF BindSide
      <3>3. \A b \in DOMAIN binds : binds'[b].link = binds[b].link  BY <1>3
      <3> QED  BY <1>4, <1>6, <3>1, <3>2, <3>3, ZenonT(40) DEF BindTable
    <2>2. BindIsNew'  BY <1>5 DEF BindIsNew, Busy
    <2>3. ChannelsAreOwned'
      <3> SUFFICES ASSUME NEW b \in DOMAIN binds, BindLives(b)' PROVE active'[binds'[b].link] = b
        BY <1>4 DEF ChannelsAreOwned, Owned, BindLives
      <3>1. b # old /\ binds'[b] = binds[b] /\ binds[b] \in Bind  BY <1>0, <1>3, InRange
      <3>2. active[binds[b].link] = b
        BY <1>0, <1>1, <3>1 DEF BindSide, ChannelsAreOwned, Owned, BindLives
      <3>3. binds[b].link \in Links /\ binds[b].link # call.link  BY <3>1, <3>2 DEF Bind
      <3> QED  BY <1>6, <3>1, <3>2, <3>3
    <2> QED  BY <2>1, <2>2, <2>3 DEF BindSide
  <1>10. TunnelSide'  BY <1>0, <1>1, <1>5, TunnelSideKept
  <1>11. OutcomeIsTrue'
    <2>1. activeTunnels[call.link] = 0  BY <1>0, <1>1, <1>2, OneTable DEF TunnelSide, BindSide
    <2> QED  BY <1>5, <1>6, <2>1 DEF OutcomeIsTrue, Bound
  <1>12. ReportsAreTrue'
    <2>1. \A l \in Links : call.op = "none" \/ call.link # l =>
            active'[l] = active[l] /\ activeTunnels'[l] = activeTunnels[l]
      BY <1>1, <1>6
    <2> QED  BY <1>0, <1>1, <1>5, <2>1, ReportsKept
  <1> QED  BY <1>7, <1>8, <1>9, <1>10, <1>11, <1>12, SidesNext

(* A goroutine of a bind, or Hyphae, takes a step: nothing comes to life that *)
(* did not live, and no relay starts.                                         *)
LEMMA UpdateKeeps ==
  ASSUME LinkIInv, UNCHANGED exposureVars, NEW i \in DOMAIN binds, NEW r \in Bind, Update(i, r),
         r.link = binds[i].link, r.remote = "open" => binds[i].remote = "open",
         r.cancelled = binds[i].cancelled, binds[i].relay = "none" => r.relay = "none",
         r.relay \in {"started", "accepting", "splicing", "stalled"} =>
           binds[i].relay \in {"started", "accepting", "splicing", "stalled"}
  PROVE  LinkIInv'
  <1> USE DEF exposureVars
  <1>0. LinkTypeOK /\ CallStands /\ TunnelSide /\ BindSide /\ OutcomeIsTrue /\ ReportsAreTrue
    BY Sides
  <1>1. /\ binds' = [binds EXCEPT ![i] = r]
        /\ UNCHANGED <<call, reports, requests, ctxDone, active>>
    BY DEF Update, handlerVars
  <1>2. /\ binds' \in Seq(Bind) /\ Len(binds') = Len(binds) /\ DOMAIN binds' = DOMAIN binds
        /\ binds'[i] = r /\ \A j \in DOMAIN binds : j # i => binds'[j] = binds[j]
    BY <1>0, <1>1, BindSet
  <1>3. LinkTypeOK'  BY <1>0, <1>1, <1>2 DEF LinkTypeOK
  <1>4. CallStands'  BY <1>0, <1>1 DEF CallStands
  <1>5. ASSUME NEW j \in DOMAIN binds
        PROVE  /\ binds'[j].link = binds[j].link
               /\ BindLives(j)' => BindLives(j)
               /\ binds[j].relay = "none" => binds'[j].relay = "none"
               /\ binds'[j].remote = "open" => binds[j].remote = "open"
    <2>1. CASE j = i  BY <1>2, <2>1 DEF BindLives
    <2>2. CASE j # i  BY <1>2, <2>2 DEF BindLives
    <2> QED  BY <2>1, <2>2
  <1>6. BindSide'
    <2>1. BindTable'
      <3>1. \A l \in Links : active[l] # 0 => active[l] \in DOMAIN binds  BY <1>0, InRange
      <3>2. BindTable  BY <1>0 DEF BindSide
      <3> QED  BY <1>1, <1>2, <1>5, <3>1, <3>2 DEF BindTable
    <2>2. BindIsNew'  BY <1>0, <1>1, <1>2, <1>5 DEF BindSide, BindIsNew, Busy
    <2>3. ChannelsAreOwned'
      <3>1. \A j \in DOMAIN binds : BindLives(j) =>
              active[binds[j].link] = j \/ (call.op = "bind" /\ call.link = binds[j].link /\ call.made = j)
        BY <1>0 DEF BindSide, ChannelsAreOwned, Owned, BindLives
      <3>2. \A j \in DOMAIN binds' : BindLives(j)' =>
              \/ active'[binds'[j].link] = j
              \/ call'.op = "bind" /\ call'.link = binds'[j].link /\ call'.made = j
        BY <1>1, <1>2, <1>5, <3>1
      <3> QED  BY <3>2 DEF ChannelsAreOwned, Owned, BindLives
    <2> QED  BY <2>1, <2>2, <2>3 DEF BindSide
  <1>7. TunnelSide'  BY <1>0, <1>1, TunnelSideKept
  <1>8. OutcomeIsTrue'  BY <1>0, <1>1 DEF OutcomeIsTrue, Bound
  <1>9. ReportsAreTrue'  BY <1>0, <1>1, ReportsKept
  <1> QED  BY <1>3, <1>4, <1>6, <1>7, <1>8, <1>9, SidesNext

(* A goroutine of a bind changes that bind only, and reopens nothing. *)
LEMMA GoroutineKeeps ==
  ASSUME LinkIInv, UNCHANGED exposureVars, NEW i \in DOMAIN binds,
         \/ RemoteEnds(i) \/ RelayReady(i) \/ CloseListener(i) \/ AcceptLocal(i) \/ AcceptFails(i)
         \/ SpliceEnds(i) \/ AcceptStream(i) \/ AcceptLoopEnds(i) \/ FirstByte(i) \/ DialLocal(i)
         \/ StreamEnds(i) \/ LocalStalls(i) \/ LocalReads(i)
  PROVE  LinkIInv'
  <1>1. binds[i] \in Bind  BY InRange DEF LinkIInv
  <1> DEFINE Keeps(r) ==
        /\ r \in Bind /\ r.link = binds[i].link /\ (r.remote = "open" => binds[i].remote = "open")
        /\ r.cancelled = binds[i].cancelled /\ (binds[i].relay = "none" => r.relay = "none")
        /\ r.relay \in {"started", "accepting", "splicing", "stalled"} =>
             binds[i].relay \in {"started", "accepting", "splicing", "stalled"}
  <1>2. ASSUME NEW r, Update(i, r), Keeps(r) PROVE LinkIInv'
    BY <1>2, UpdateKeeps
  <1>3. CASE RemoteEnds(i)
    <2>1. Keeps([binds[i] EXCEPT !.remote = "closed"])  BY <1>1 DEF Bind
    <2> HIDE DEF Keeps
    <2> QED  BY <1>2, <1>3, <2>1 DEF RemoteEnds
  <1>4. CASE RelayReady(i)
    <2>1. binds[i].relay = "started"  BY <1>4 DEF RelayReady
    <2>2. Keeps([binds[i] EXCEPT !.relay = "accepting"])  BY <1>1, <2>1 DEF Bind
    <2> HIDE DEF Keeps
    <2> QED  BY <1>2, <1>4, <2>2 DEF RelayReady
  <1>5. CASE CloseListener(i)
    <2>1. Keeps([binds[i] EXCEPT !.ln = "closed"])  BY <1>1 DEF Bind
    <2> HIDE DEF Keeps
    <2> QED  BY <1>2, <1>5, <2>1 DEF CloseListener
  <1>6. CASE AcceptLocal(i)
    <2>1. binds[i].relay = "accepting"  BY <1>6 DEF AcceptLocal
    <2>2. \A at \in {"splicing", "stalled"} : Keeps([binds[i] EXCEPT !.relay = at])
      BY <1>1, <2>1 DEF Bind
    <2> HIDE DEF Keeps
    <2> QED  BY <1>2, <1>6, <2>2 DEF AcceptLocal
  <1>7. CASE AcceptFails(i) \/ SpliceEnds(i)
    <2>1. binds[i].relay # "none"  BY <1>7 DEF AcceptFails, SpliceEnds
    <2>2. Keeps([binds[i] EXCEPT !.relay = "done", !.ln = "closed", !.remote = "closed"])
      BY <1>1, <2>1 DEF Bind
    <2> HIDE DEF Keeps
    <2> QED  BY <1>2, <1>7, <2>2 DEF AcceptFails, SpliceEnds, RelayDone
  <1>8. CASE AcceptLoopEnds(i)
    <2>1. binds[i].relay # "none"  BY <1>8 DEF AcceptLoopEnds
    <2>2. Keeps([binds[i] EXCEPT !.relay = "done"])  BY <1>1, <2>1 DEF Bind
    <2> HIDE DEF Keeps
    <2> QED  BY <1>2, <1>8, <2>2 DEF AcceptLoopEnds
  <1>9. ASSUME NEW at \in {"none", "waiting", "dialing", "splicing", "stalled"},
               Update(i, [binds[i] EXCEPT !.stream = at])
        PROVE  LinkIInv'
    <2>1. Keeps([binds[i] EXCEPT !.stream = at])  BY <1>1 DEF Bind
    <2> HIDE DEF Keeps
    <2> QED  BY <1>2, <1>9, <2>1
  <1>10. CASE AcceptStream(i) \/ FirstByte(i) \/ DialLocal(i) \/ StreamEnds(i)
    BY <1>9, <1>10 DEF AcceptStream, FirstByte, DialLocal, StreamEnds
  <1>11. CASE LocalStalls(i) \/ LocalReads(i)
    <2>1. ASSUME NEW at \in {"splicing", "stalled"}, binds[i].relay \in {"splicing", "stalled"},
                 Update(i, [binds[i] EXCEPT !.relay = at])
          PROVE  LinkIInv'
      <3>1. Keeps([binds[i] EXCEPT !.relay = at])  BY <1>1, <2>1 DEF Bind
      <3> HIDE DEF Keeps
      <3> QED  BY <1>2, <2>1, <3>1
    <2> QED  BY <1>9, <1>11, <2>1 DEF LocalStalls, LocalReads
  <1> QED  BY <1>3, <1>4, <1>5, <1>6, <1>7, <1>8, <1>10, <1>11

(* Every step in the channel provider keeps the invariant. *)
LEMMA ChannelKeeps == ASSUME LinkIInv, ChannelStep, UNCHANGED exposureVars PROVE LinkIInv'
  <1>0. LinkTypeOK /\ CallStands /\ TunnelSide /\ BindSide /\ OutcomeIsTrue /\ ReportsAreTrue
    BY Sides
  <1>1. CASE DialFails \/ NotReady \/ Upgraded \/ NoLocalPort  BY <1>1, DialStep
  <1>2. CASE EstablishListener \/ EstablishInitiator  BY <1>2, EstablishKeeps
  <1>3. CASE UnbindChannel  BY <1>3, UnbindChannelKeeps
  <1>4. CASE \E b \in DOMAIN binds :
               \/ RemoteEnds(b) \/ RelayReady(b) \/ CloseListener(b) \/ AcceptLocal(b) \/ AcceptFails(b)
               \/ SpliceEnds(b) \/ AcceptStream(b) \/ AcceptLoopEnds(b) \/ FirstByte(b) \/ DialLocal(b)
               \/ StreamEnds(b) \/ LocalStalls(b) \/ LocalReads(b)
    BY <1>4, GoroutineKeeps
  <1>5. ASSUME call.op = "bind", Kind[call.link] \in Channels, call.step \in {"start", "backoff", "ready"},
               UNCHANGED <<reports, requests, ctxDone, channelVars>>,
               Return(FALSE) \/ (Return(TRUE) /\ active[call.link] # 0)
        PROVE  LinkIInv'
    <2>1. call.link \in Links /\ (call.step = "start" => call.made = 0)  BY <1>0, <1>5 DEF CallStands
    <2>2. \A t \in DOMAIN tunnels : TunnelLives(t) => activeTunnels[tunnels[t].link] = t
      BY <1>0, <1>5, <2>1, InRange
         DEF TunnelSide, TunnelsAreOwned, TunnelLives, TunnelTable, Exposed, Channels
    <2>3. ASSUME NEW b \in DOMAIN binds, BindLives(b) PROVE active[binds[b].link] = b
      <3> SUFFICES ASSUME call.made = b, call.link = binds[b].link PROVE active[binds[b].link] = b
        BY <1>0, <2>3 DEF BindSide, ChannelsAreOwned, Owned, BindLives
      <3>1. 0 \notin DOMAIN binds  BY <1>0, InRange
      <3>2. call.step # "start"  BY <2>1, <3>1
      <3>3. call.step # "backoff"
        BY <1>0, <1>5, <2>3 DEF BindSide, BindIsNew, Busy, BindLives
      <3> QED  BY <1>0, <1>5, <3>2, <3>3 DEF BindSide, BindIsNew, Busy
    <2> QED  BY <1>5, <2>2, <2>3, ReturnKeeps DEF Bound
  <1>6. CASE NoGrant
    BY <1>5, <1>6 DEF NoGrant, At, Channels
  <1>7. CASE CheckActive
    <2>1. CASE active[call.link] = 0  BY <1>7, <2>1, BindBegins
    <2>2. CASE active[call.link] # 0  BY <1>5, <1>7, <2>2 DEF CheckActive, At, channelVars
    <2> QED  BY <2>1, <2>2
  <1>8. CASE BackOff
    <2>1. /\ call.op = "bind" /\ call.step = "backoff" /\ Kind[call.link] \in Channels
          /\ UNCHANGED <<reports, requests, ctxDone, channelVars>>
          /\ Return(FALSE) \/ call' = [call EXCEPT !.step = "dial", !.attempt = @ + 1]
      BY <1>8 DEF BackOff, At, Channels
    <2>2. CASE Return(FALSE)  BY <1>5, <2>1, <2>2
    <2>3. CASE call' = [call EXCEPT !.step = "dial", !.attempt = @ + 1]  BY <2>1, <2>3, DialAgain DEF Busy
    <2> QED  BY <2>1, <2>2, <2>3
  <1>9. CASE Ready
    <2>1. /\ call.op = "bind" /\ call.step = "ready" /\ Kind[call.link] \in Channels
          /\ UNCHANGED <<reports, requests, ctxDone, channelVars>> /\ Return(TRUE)
      BY <1>9 DEF Ready, At, Channels
    <2>2. active[call.link] # 0  BY <1>0, <2>1 DEF BindSide, BindIsNew, Busy
    <2> QED  BY <1>5, <2>1, <2>2
  <1> QED  BY <1>1, <1>2, <1>3, <1>4, <1>6, <1>7, <1>8, <1>9 DEF ChannelStep

-----------------------------------------------------------------------------
(* The links: the handlers.                                                *)

(* Between two calls: one begins, or one ends that makes nothing any more. *)
LEMMA BetweenCalls ==
  ASSUME LinkIInv, UNCHANGED <<exposureVars, channelVars>>, call.op = "none" \/ call.step = "report",
         call'.op = "none" \/ call'.step = "start"
  PROVE  TunnelSide' /\ BindSide' /\ OutcomeIsTrue'
  <1> USE DEF exposureVars, channelVars
  <1>0. LinkTypeOK /\ CallStands /\ TunnelSide /\ BindSide  BY Sides
  <1>1. 0 \notin DOMAIN tunnels /\ 0 \notin DOMAIN binds  BY <1>0, InRange
  <1>2. call.op = "bind" => call.made = 0  BY <1>0 DEF CallStands
  <1>3. TunnelSide'
    <2>1. TunnelTable'  BY <1>0 DEF TunnelSide, TunnelTable
    <2>2. TunnelIsNew'  BY DEF TunnelIsNew, Busy
    <2>3. TunnelsAreOwned'  BY <1>0, <1>1, <1>2 DEF TunnelSide, TunnelsAreOwned
    <2> QED  BY <2>1, <2>2, <2>3 DEF TunnelSide
  <1>4. BindSide'
    <2>1. BindTable'  BY <1>0 DEF BindSide, BindTable
    <2>2. BindIsNew'  BY DEF BindIsNew, Busy
    <2>3. ChannelsAreOwned'  BY <1>0, <1>1, <1>2 DEF BindSide, ChannelsAreOwned, Owned
    <2> QED  BY <2>1, <2>2, <2>3 DEF BindSide
  <1>5. OutcomeIsTrue'  BY DEF OutcomeIsTrue
  <1> QED  BY <1>3, <1>4, <1>5

(* A request for a link begins. *)
LEMMA ReceiveKeeps ==
  ASSUME LinkIInv, NEW op \in {"bind", "unbind"}, NEW l \in Links, Receive(op, l),
         UNCHANGED <<exposureVars, channelVars>>
  PROVE  LinkIInv'
  <1>0. LinkTypeOK /\ CallStands /\ ReportsAreTrue  BY Sides
  <1>1. /\ call.op = "none" /\ requests < MaxRequests /\ requests' = requests + 1
        /\ UNCHANGED <<reports, ctxDone>>
        /\ call'.op = op /\ call'.link = l /\ call'.step = "start" /\ call'.made = 0 /\ call'.attempt = 0
        /\ call' \in Call
    BY DEF Receive, NoCall, Call, Steps
  <1>2. LinkTypeOK'
    <2>1. requests' \in 0..MaxRequests
      BY <1>0, <1>1, LinkConstantsOK DEF LinkTypeOK, LinkConstantsOK
    <2>2. Len(tunnels) \in Nat /\ Len(binds) \in Nat /\ MaxAttempts \in Nat
      BY <1>0, InRange, MaxAttemptsOK DEF MaxAttemptsOK
    <2>3. 0 <= Len(tunnels) + Len(binds) /\ 0 <= MaxAttempts  BY <2>2
    <2> QED  BY <1>0, <1>1, <2>1, <2>3 DEF LinkTypeOK, exposureVars, channelVars
  <1>3. CallStands'  BY <1>1 DEF CallStands
  <1>4. ReportsAreTrue'  BY <1>0, <1>1 DEF ReportsAreTrue, ReportIsTrue, Bound, exposureVars, channelVars
  <1>5. TunnelSide' /\ BindSide' /\ OutcomeIsTrue'  BY <1>1, BetweenCalls
  <1> QED  BY <1>2, <1>3, <1>4, <1>5, SidesNext

(* The handler reports the outcome, or the report is lost. *)
LEMMA CompleteKeeps ==
  ASSUME LinkIInv, Complete, UNCHANGED <<exposureVars, channelVars>>
  PROVE  LinkIInv'
  <1> USE DEF exposureVars, channelVars
  <1>0. LinkTypeOK /\ CallStands /\ OutcomeIsTrue /\ ReportsAreTrue  BY Sides
  <1> DEFINE addr == IF call.op = "bind" THEN LocalAddr(call.link) ELSE 0
             Sent == [status |-> Status, addr |-> addr]
             Lost == [status |-> "lost", addr |-> 0]
  <1>1. /\ call.op # "none" /\ call.step = "report" /\ call' = NoCall
        /\ UNCHANGED <<requests, ctxDone>>
        /\ \/ reports' = [reports EXCEPT ![call.link] = Sent]
           \/ reports' = [reports EXCEPT ![call.link] = Lost]
    BY DEF Complete, Emit
  <1>2. /\ call'.op = "none" /\ call'.made = 0 /\ call'.step = "" /\ call'.attempt = 0 /\ call' \in Call
    BY <1>1 DEF NoCall, Call, Steps
  <1>3. call.link \in Links /\ reports \in [Links -> Report]  BY <1>0, <1>1 DEF CallStands, LinkTypeOK
  <1>4. addr \in Nat /\ (addr # 0 => call.op = "bind" /\ addr = active[call.link])
    <2>1. active[call.link] \in Nat  BY <1>0, <1>3, InRange DEF LinkTypeOK
    <2> QED  BY <2>1 DEF LocalAddr
  <1> HIDE DEF addr
  <1>5. call.op \in {"bind", "unbind"}  BY <1>0, <1>1 DEF LinkTypeOK, Call
  <1>6. /\ Status \in {"bound", "bindFailed", "unbound", "unbindFailed"}
        /\ Status = "bound" => Bound(call.link)
        /\ Status \in {"unbound", "unbindFailed"} => ~Bound(call.link)
        /\ Status = "bindFailed" /\ Kind[call.link] \in Exposed => ~Bound(call.link)
    BY <1>0, <1>1, <1>5 DEF Status, OutcomeIsTrue
  <1>7. Sent \in Report /\ Lost \in Report  BY <1>4, <1>6 DEF Report
  <1>8. LinkTypeOK'
    <2>1. reports' \in [Links -> Report]  BY <1>1, <1>3, <1>7
    <2>2. Len(tunnels) \in Nat /\ Len(binds) \in Nat /\ MaxAttempts \in Nat
      BY <1>0, InRange, MaxAttemptsOK DEF MaxAttemptsOK
    <2>3. 0 <= Len(tunnels) + Len(binds) /\ 0 <= MaxAttempts  BY <2>2
    <2> QED  BY <1>0, <1>1, <1>2, <2>1, <2>3 DEF LinkTypeOK
  <1>9. CallStands'  BY <1>2 DEF CallStands
  <1>10. ReportsAreTrue'
    <2> SUFFICES ASSUME NEW l \in Links PROVE ReportIsTrue(l)'  BY DEF ReportsAreTrue
    <2>1. Bound(l)' <=> Bound(l)  BY DEF Bound
    <2>2. CASE l # call.link
      <3>1. reports'[l] = reports[l] /\ ReportIsTrue(l)  BY <1>0, <1>1, <1>3, <2>2 DEF ReportsAreTrue
      <3> QED  BY <2>1, <3>1 DEF ReportIsTrue
    <2>3. CASE l = call.link
      <3>1. reports'[l] = Sent \/ reports'[l] = Lost  BY <1>1, <1>3, <2>3
      <3>2. CASE reports'[l] = Sent
        <4>1. reports'[l].status = Status /\ reports'[l].addr = addr  BY <3>2
        <4> QED  BY <1>4, <1>6, <2>1, <2>3, <4>1 DEF ReportIsTrue
      <3>3. CASE reports'[l] = Lost
        <4>1. reports'[l].status = "lost" /\ reports'[l].addr = 0  BY <3>3
        <4> QED  BY <4>1 DEF ReportIsTrue
      <3> QED  BY <3>1, <3>2, <3>3
    <2> QED  BY <2>2, <2>3
  <1>11. TunnelSide' /\ BindSide' /\ OutcomeIsTrue'  BY <1>1, <1>2, BetweenCalls
  <1> QED  BY <1>8, <1>9, <1>10, <1>11, SidesNext

(* The runtime's context ends. *)
LEMMA CancelKeeps ==
  ASSUME LinkIInv, CancelContext, UNCHANGED <<exposureVars, channelVars>>
  PROVE  LinkIInv'
  <1> USE DEF exposureVars, channelVars
  <1>0. LinkTypeOK /\ CallStands /\ TunnelSide /\ BindSide /\ OutcomeIsTrue /\ ReportsAreTrue
    BY Sides
  <1>1. UNCHANGED <<call, reports, requests>> /\ ctxDone' = TRUE  BY DEF CancelContext
  <1>2. LinkTypeOK'  BY <1>0, <1>1 DEF LinkTypeOK
  <1>3. CallStands'  BY <1>0, <1>1 DEF CallStands
  <1>4. TunnelSide' /\ BindSide'  BY <1>0, <1>1, TunnelSideKept, BindSideKept
  <1>5. OutcomeIsTrue'  BY <1>0, <1>1 DEF OutcomeIsTrue, Bound
  <1>6. ReportsAreTrue'  BY <1>0, <1>1, ReportsKept
  <1> QED  BY <1>2, <1>3, <1>4, <1>5, <1>6, SidesNext

-----------------------------------------------------------------------------
(* The inductive invariant of the whole.                                   *)

(* Nothing is bound at first. *)
LEMMA InitIInv == ASSUME Init PROVE IInv
  <1>1. RoutesIInv /\ followed \in {"links", "routes"}  BY RoutesHold DEF Init
  <1> USE DEF Init, HandlerInit, ExposureInit, ChannelInit
  <1>2. /\ tunnels = <<>> /\ binds = <<>> /\ Len(tunnels) = 0 /\ Len(binds) = 0
        /\ tunnels \in Seq(Tunnel) /\ binds \in Seq(Bind) /\ DOMAIN tunnels = {} /\ DOMAIN binds = {}
    OBVIOUS
  <1>3. call \in Call /\ call.op = "none" /\ call.step = "" /\ call.made = 0 /\ call.attempt = 0
    BY DEF NoCall, Call, Steps
  <1>4. LinkTypeOK
    <2>1. reports \in [Links -> Report]  BY DEF Report
    <2>2. requests \in 0..MaxRequests
      <3>1. requests = 0 /\ MaxRequests \in Nat  BY LinkConstantsOK DEF LinkConstantsOK
      <3> QED  BY <3>1
    <2>3. ctxDone \in BOOLEAN /\ closed \in BOOLEAN  OBVIOUS
    <2>4. call.made <= Len(tunnels) + Len(binds) /\ call.attempt <= MaxAttempts
      <3>1. 0 <= 0 + 0 /\ 0 <= MaxAttempts  BY MaxAttemptsOK DEF MaxAttemptsOK
      <3> QED  BY <1>2, <1>3, <3>1
    <2>5. activeTunnels \in [Links -> 0..Len(tunnels)] /\ active \in [Links -> 0..Len(binds)]
      <3>1. 0 \in 0..Len(tunnels) /\ 0 \in 0..Len(binds)  BY <1>2
      <3> QED  BY <3>1
    <2> QED  BY <1>2, <1>3, <2>1, <2>2, <2>3, <2>4, <2>5, Zenon DEF LinkTypeOK
  <1>5. CallStands  BY <1>3 DEF CallStands
  <1>6. TunnelSide  BY <1>2, <1>3 DEF TunnelSide, TunnelTable, TunnelIsNew, Busy, TunnelsAreOwned
  <1>7. BindSide  BY <1>2, <1>3 DEF BindSide, BindTable, BindIsNew, Busy, ChannelsAreOwned
  <1>8. OutcomeIsTrue  BY <1>3 DEF OutcomeIsTrue
  <1>9. ReportsAreTrue  BY DEF ReportsAreTrue, ReportIsTrue
  <1>10. LinkIInv  BY <1>4, <1>5, <1>6, <1>7, <1>8, <1>9, Sides
  <1> QED  BY <1>1, <1>10 DEF IInv

(* Every step of the links keeps their half. *)
LEMMA LinksStep == ASSUME LinkIInv, LinkNext PROVE LinkIInv'
  <1>1. CASE HandlerNext /\ UNCHANGED <<exposureVars, channelVars>>
    BY <1>1, ReceiveKeeps, CompleteKeeps, CancelKeeps DEF HandlerNext
  <1>2. CASE ExposureStep /\ UNCHANGED channelVars  BY <1>2, ExposureKeeps
  <1>3. CASE ChannelStep /\ UNCHANGED exposureVars  BY <1>3, ChannelKeeps
  <1> QED  BY <1>1, <1>2, <1>3 DEF LinkNext

(* Each half of the invariant is about the variables of its half. *)
LEMMA LinksUnchanged == ASSUME LinkIInv, UNCHANGED linkVars PROVE LinkIInv'
  <1> USE DEF linkVars, handlerVars, exposureVars, channelVars
  <1>0. LinkTypeOK /\ CallStands /\ TunnelSide /\ BindSide /\ OutcomeIsTrue /\ ReportsAreTrue
    BY Sides
  <1>1. LinkTypeOK' /\ CallStands'  BY <1>0 DEF LinkTypeOK, CallStands
  <1>2. TunnelSide' /\ BindSide'  BY <1>0, TunnelSideKept, BindSideKept
  <1>3. OutcomeIsTrue'  BY <1>0 DEF OutcomeIsTrue, Bound
  <1>4. ReportsAreTrue'  BY <1>0, ReportsKept
  <1> QED  BY <1>1, <1>2, <1>3, <1>4, SidesNext

(* The same of the other half. *)
LEMMA RoutesUnchanged == ASSUME RoutesIInv, UNCHANGED routesVars PROVE RoutesIInv'
  <1>0. UNCHANGED <<dynamicRoutes, streams, registered>>  BY DEF routesVars
  <1>1. RoutesTypeOK'  BY <1>0 DEF RoutesIInv, RoutesTypeOK, Answers
  <1>2. RoutesAreNewest'  BY <1>0 DEF RoutesIInv, RoutesAreNewest
  <1>3. StreamsFollowRoutes'
    <2>1. \A p, n : RoutedBy(p, n)' = RoutedBy(p, n)  BY <1>0 DEF RoutedBy
    <2>2. \A s \in Streams : StreamFollows(s)
      BY Zenon DEF RoutesIInv, StreamsFollowRoutes, StreamFollows
    <2>3. \A s \in Streams : StreamFollows(s)'  BY <1>0, <2>1, <2>2 DEF StreamFollows, Fallback
    <2> QED  BY <2>3, Zenon DEF StreamsFollowRoutes, StreamFollows, Fallback
  <1> QED  BY <1>1, <1>2, <1>3 DEF RoutesIInv

(* Every step keeps both. *)
LEMMA NextIInv == ASSUME IInv, [Next]_vars PROVE IInv'
  <1> USE DEF IInv
  <1>1. CASE Next
    <2>1. followed' = followed  BY <1>1 DEF Next
    <2>2. CASE LinkNext /\ UNCHANGED routesVars  BY <2>1, <2>2, LinksStep, RoutesUnchanged
    <2>3. CASE RoutesNext /\ UNCHANGED linkVars  BY <2>1, <2>3, RoutesStep, LinksUnchanged
    <2> QED  BY <1>1, <2>2, <2>3 DEF Next
  <1>2. CASE UNCHANGED vars
    <2>1. UNCHANGED <<linkVars, routesVars, followed>>  BY <1>2 DEF vars
    <2> QED  BY <2>1, LinksUnchanged, RoutesUnchanged
  <1> QED  BY <1>1, <1>2

(* The inductive invariant holds in every behaviour. *)
THEOREM Invariance == Spec => []IInv
  <1> QED  BY InitIInv, NextIInv, PTL DEF Spec

(* The type invariant of the link service. *)
THEOREM Typing == Spec => []TypeOK
  <1>1. IInv => TypeOK  BY DEF IInv, LinkIInv, LinkTypeOK, RoutesIInv, RoutesTypeOK, TypeOK
  <1> QED  BY <1>1, Invariance, PTL

(* No sequence of binds, rebinds, failures, unbinds and Close leaves a tunnel open *)
(* that its exposure's entry does not name and Bind is not making.                 *)
THEOREM NoTunnelIsLost == Spec => []TunnelsAreOwned
  <1>1. IInv => TunnelsAreOwned  BY DEF IInv, LinkIInv
  <1> QED  BY <1>1, Invariance, PTL

(* The same of a channel's connection and relay. *)
THEOREM NoChannelIsLost == Spec => []ChannelsAreOwned
  <1>1. IInv => ChannelsAreOwned  BY DEF IInv, LinkIInv
  <1> QED  BY <1>1, Invariance, PTL

(* What the kernel was last told of a link is what the provider's table says. *)
THEOREM ReportsHold == Spec => []ReportedAsIs
  <1>1. IInv => ReportedAsIs  BY DEF IInv, LinkIInv, ReportsAreTrue, ReportIsTrue, Bound, ReportedAsIs
  <1> QED  BY <1>1, Invariance, PTL

(* A stream goes where the newest event of a matching prefix said, at some time *)
(* since it was accepted.                                                       *)
THEOREM NoStaleRoute == Spec => []StreamsFollowRoutes
  <1>1. IInv => StreamsFollowRoutes  BY DEF IInv, RoutesIInv
  <1> QED  BY <1>1, Invariance, PTL

=============================================================================
