------------------------------ MODULE Telemetry ------------------------------
(***************************************************************************)
(* The audit buffer (internal/telemetry/buffer.go) and the flush requests  *)
(* that empty it (flusher.go).  Goroutines that answer bindings record     *)
(* events; others answer POST /v1/telemetry/flush.  A method of Buffer is  *)
(* one region of its lock, so they interleave between methods; the time a  *)
(* request names may lie anywhere, also after some of the events.          *)
(***************************************************************************)
EXTENDS Integers, SequencesExt

CONSTANTS MaxSizeBytes,  \* Buffer.maxSizeBytes
          Sizes,         \* the sizes of events, as JSON
          MaxEvents,     \* bound: events recorded
          MaxFlushes,    \* bound: flush requests
          MaxTime        \* bound on the clock

ASSUME TelemetryConstantsOK ==
  /\ MaxSizeBytes \in Nat \ {0} /\ Sizes \subseteq Nat \ {0}
  /\ MaxEvents \in Nat /\ MaxFlushes \in Nat /\ MaxTime \in Nat

VARIABLES
  now,          \* the clock
  recorded,     \* events passed to recordEvent so far; an event's id is its number
  events,       \* Buffer.events, oldest first
  currentSize,  \* Buffer.currentSize
  flushes,      \* flush requests so far
  delivered     \* history: the ids of events in responses, in the order handed out

vars == <<now, recorded, events, currentSize, flushes, delivered>>

BufferedEvent == [id : 1..MaxEvents, size : Sizes, timestamp : 0..MaxTime]

Init ==
  /\ now = 0 /\ recorded = 0 /\ events = <<>> /\ currentSize = 0
  /\ flushes = 0 /\ delivered = <<>>

-----------------------------------------------------------------------------
(* The buffer.                                                             *)

SizeOf(es) == FoldLeft(LAMBDA n, e : n + e.size, 0, es)
Ids(es)    == {es[i].id : i \in DOMAIN es}

\* Mutants of Kept: an event that fits exactly makes room too, or the newest
\* events are dropped.
KeptWithSlack(size) ==
  LET sizeWithout(d) == currentSize - SizeOf(SubSeq(events, 1, d))
      enough == {d \in 0..Len(events) : d = Len(events) \/ sizeWithout(d) + size < MaxSizeBytes}
  IN  SubSeq(events, Min(enough) + 1, Len(events))
KeptOldest(size) ==
  LET first(k) == SubSeq(events, 1, k)
  IN  first(Max({k \in 0..Len(events) : k = 0 \/ SizeOf(first(k)) + size <= MaxSizeBytes}))

\* What recordEvent keeps as an event of the given size comes in: the oldest
\* are dropped until it fits or none is left.
Kept(size) ==
  LET sizeWithout(d) == currentSize - SizeOf(SubSeq(events, 1, d))
      enough == {d \in 0..Len(events) : d = Len(events) \/ sizeWithout(d) + size <= MaxSizeBytes}
  IN  SubSeq(events, Min(enough) + 1, Len(events))

\* recordEvent.  An event too large for the buffer is rejected, but only if
\* the buffer was not empty; the older events are gone by then.
RecordEvent(size) ==
  /\ recorded' = recorded + 1
  /\ IF size > MaxSizeBytes /\ events # <<>>
     THEN events' = <<>> /\ currentSize' = currentSize - SizeOf(events)
     ELSE /\ events' = Append(Kept(size), [id |-> recorded + 1, size |-> size, timestamp |-> now])
          /\ currentSize' = currentSize - (SizeOf(events) - SizeOf(Kept(size))) + size
  /\ UNCHANGED delivered

\* Mutant of GetEvents: the size is not reset.
GetEventsKeepsSize ==
  /\ delivered' = delivered \o [i \in DOMAIN events |-> events[i].id]
  /\ events' = <<>>
  /\ UNCHANGED <<recorded, currentSize>>

GetEvents ==
  /\ delivered' = delivered \o [i \in DOMAIN events |-> events[i].id]
  /\ events' = <<>> /\ currentSize' = 0
  /\ UNCHANGED recorded

\* The events stamped with one of the times, in their order.
Stamped(es, times) ==
  FoldLeft(LAMBDA some, e : IF e.timestamp \in times THEN Append(some, e) ELSE some, <<>>, es)

\* Mutant of GetEventsSince: the events of the very instant stay buffered too.
GetEventsSinceTwice(since) ==
  LET wanted == Stamped(events, since..MaxTime)
  IN  /\ delivered' = delivered \o [i \in DOMAIN wanted |-> wanted[i].id]
      /\ events' = Stamped(events, 0..since)
      /\ currentSize' = SizeOf(events')
      /\ UNCHANGED recorded

\* The events from the given time on are handed out and the older ones retained.
GetEventsSince(since) ==
  LET wanted == Stamped(events, since..MaxTime)
  IN  /\ delivered' = delivered \o [i \in DOMAIN wanted |-> wanted[i].id]
      /\ events' = Stamped(events, 0..(since - 1))
      /\ currentSize' = SizeOf(events')
      /\ UNCHANGED recorded

-----------------------------------------------------------------------------
Tick == now < MaxTime /\ now' = now + 1 /\ UNCHANGED <<recorded, events, currentSize, flushes, delivered>>

\* emitBindingGranted, emitBindingDenied, and RevokeBinding.
Record == /\ recorded < MaxEvents
          /\ \E size \in Sizes : RecordEvent(size)
          /\ UNCHANGED <<now, flushes>>

\* FlushRequest for "audit", without a time or with one.
Flush == /\ flushes < MaxFlushes /\ flushes' = flushes + 1
         /\ GetEvents \/ \E since \in 0..MaxTime : GetEventsSince(since)
         /\ UNCHANGED now

Next == Tick \/ Record \/ Flush
Spec == Init /\ [][Next]_vars

-----------------------------------------------------------------------------
(* Properties.                                                             *)

TypeOK ==
  /\ now \in 0..MaxTime /\ recorded \in 0..MaxEvents /\ flushes \in 0..MaxFlushes
  /\ events \in Seq(BufferedEvent) /\ currentSize \in Nat
  /\ delivered \in Seq(1..MaxEvents)

\* recordEvent keeps currentSize by subtracting what it drops, GetEventsSince by
\* adding up what it retains: it stays the size of what is buffered, and that
\* is over the limit only if a single event is too large for the buffer.
SizeIsAccounted ==
  /\ currentSize = SizeOf(events)
  /\ currentSize > MaxSizeBytes => Len(events) = 1

\* No event is handed out twice, nor handed out and kept, however many requests
\* flush at once and whatever times they name.
DeliveredOnce ==
  /\ IsInjective(delivered)
  /\ ToSet(delivered) \cap Ids(events) = {}

\* An event that has been neither handed out nor kept is older than every event
\* kept: the buffer drops the oldest, and a flush drops none.
OldestDropped ==
  \A lost \in 1..recorded :
    lost \notin Ids(events) \cup ToSet(delivered) =>
      \A kept \in Ids(events) : lost < kept

\* The places of the events a step takes out of the buffer and hands to no one.
Dropped == {i \in DOMAIN events : /\ events[i].id \notin Ids(events')
                                 /\ events[i].id \notin ToSet(delivered')}

\* Events are dropped only as another is recorded, and an event that is taken in
\* makes no more room than it takes: the newest one dropped would not have
\* fitted with those that are kept.  One too large to be taken in has cost all the
\* others by the time that recordEvent rejects it.
MakesNeededRoom ==
  [][Dropped # {} =>
       /\ recorded' = recorded + 1
       /\ recorded' \in Ids(events') => SizeOf(events') + events[Max(Dropped)].size > MaxSizeBytes]_vars
=============================================================================
