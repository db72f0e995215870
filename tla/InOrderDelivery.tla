-------------------------- MODULE InOrderDelivery --------------------------
(***************************************************************************)
(* What the event consumer promises to the registry: of the events the UA  *)
(* has emitted for a node, each is applied once, in the order of its       *)
(* sequence number and with none left out.  applied[n] counts how many     *)
(* events of node n were handed to a handler; streams, queues, retries and *)
(* goroutines do not appear at this level.                                 *)
(***************************************************************************)
EXTENDS Naturals

CONSTANTS Nodes,    \* the origin nodes (UAEvent.NodeID)
          MaxSeq    \* bound on the number of events a node emits

VARIABLES emitted,  \* [Nodes -> 0..MaxSeq]: the UA's log of node n is 1..emitted[n]
          applied   \* [Nodes -> Nat]: the log of node n is applied up to here

Init == /\ emitted = [n \in Nodes |-> 0]
        /\ applied = [n \in Nodes |-> 0]

Emit(n) == /\ emitted[n] < MaxSeq
           /\ emitted' = [emitted EXCEPT ![n] = @ + 1]
           /\ UNCHANGED applied

Apply(n) == /\ applied[n] < emitted[n]
            /\ applied' = [applied EXCEPT ![n] = @ + 1]
            /\ UNCHANGED emitted

Next == \E n \in Nodes : Emit(n) \/ Apply(n)

Spec == Init /\ [][Next]_<<emitted, applied>>
=============================================================================
