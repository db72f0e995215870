---------------------------- MODULE LinkHandler ----------------------------
(***************************************************************************)
(* What every request to bind or unbind a link has in common               *)
(* (internal/link/handlers.go): the event loop calls one handler at a      *)
(* time, the handler calls the provider of the link's kind and reports the *)
(* outcome through the kernel, which may fail and is then only logged.     *)
(*                                                                         *)
(* The providers extend this module and make the calls; see LinkService.   *)
(***************************************************************************)
EXTENDS Integers, Sequences

CONSTANTS Links,       \* link ids
          Kind,        \* what each link is
          MaxRequests  \* bound: bind and unbind requests

\* "port" is an exposure, or a tunnel to a local port; "url" a tunnel to a URL;
\* the others are the two ends of a channel.
Exposed  == {"port", "url"}
Channels == {"listener", "initiator"}

ASSUME LinkConstantsOK == Kind \in [Links -> Exposed \cup Channels] /\ MaxRequests \in Nat

VARIABLES
  call,      \* the handler's call into a provider
  reports,   \* the last link.bind.completed or link.unbind.completed of each link
  requests,  \* requests handled so far
  ctxDone    \* whether the runtime's context is cancelled

handlerVars == <<call, reports, requests, ctxDone>>

\* Where a call stands: its request, the object it is making and, for the
\* initiator of a channel, how often it has dialled.
Steps == {"", "start", "proxy", "connect", "dial", "forward", "wait", "backoff", "establish",
          "ready", "report"}
Call == [op : {"none", "bind", "unbind"}, link : Links \cup {"none"}, step : Steps,
         made : Nat, attempt : Nat, ok : BOOLEAN]
NoCall == [op |-> "none", link |-> "none", step |-> "", made |-> 0, attempt |-> 0, ok |-> FALSE]

\* A completion as the kernel got it; "lost" if it did not.  addr stands for the
\* relay address of a channel, named by the bind that opened it.
Report == [status : {"none", "bound", "bindFailed", "unbound", "unbindFailed", "lost"}, addr : Nat]

HandlerInit ==
  /\ call = NoCall /\ requests = 0 /\ ctxDone = FALSE
  /\ reports = [l \in Links |-> [status |-> "none", addr |-> 0]]

CancelContext == ~ctxDone /\ ctxDone' = TRUE /\ UNCHANGED <<call, reports, requests>>

Receive(op, l) ==
  /\ call = NoCall /\ requests < MaxRequests
  /\ call' = [NoCall EXCEPT !.op = op, !.link = l, !.step = "start"]
  /\ requests' = requests + 1
  /\ UNCHANGED <<reports, ctxDone>>

\* The handler is at step s of an operation on a link of one of the kinds.
At(op, s, kinds) == call.op = op /\ call.step = s /\ Kind[call.link] \in kinds

Continue(s) == call' = [call EXCEPT !.step = s]
Return(ok)  == call' = [call EXCEPT !.step = "report", !.ok = ok, !.made = 0]

Status == IF call.op = "bind" THEN (IF call.ok THEN "bound" ELSE "bindFailed")
                              ELSE (IF call.ok THEN "unbound" ELSE "unbindFailed")

\* EmitEvent fails on a cancelled context, and may fail at any time.
Emit(addr) ==
  /\ call.op # "none" /\ call.step = "report"
  /\ \/ ~ctxDone /\ reports' = [reports EXCEPT ![call.link] = [status |-> Status, addr |-> addr]]
     \/ reports' = [reports EXCEPT ![call.link] = [status |-> "lost", addr |-> 0]]
  /\ call' = NoCall
  /\ UNCHANGED <<requests, ctxDone>>
=============================================================================
