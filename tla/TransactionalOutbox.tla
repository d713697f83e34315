-------------------------- MODULE TransactionalOutbox --------------------------
(***************************************************************************)
(* What order-core-service promises, without transactions, handlers,       *)
(* relays or queues: an order and the events it causes come into being     *)
(* together, an event is emitted only once it exists, it is settled only   *)
(* after it was emitted, and an order is decided only after its assessment *)
(* was asked for.                                                          *)
(***************************************************************************)
CONSTANT Orders

VARIABLES
    stage,     \* where an order is in its life
    event,     \* whether an event does not exist, is due, or is settled
    emitted    \* events that left the service at least once

vars == <<stage, event, emitted>>

Events == {"assess", "notify"} \X Orders

Init ==
    /\ stage = [o \in Orders |-> "unknown"]
    /\ event = [e \in Events |-> "none"]
    /\ emitted = {}

\* New orders are stored together with the requests for their assessment.
Register(S) ==
    /\ \A o \in S : stage[o] = "unknown"
    /\ stage' = [o \in Orders |-> IF o \in S THEN "assessing" ELSE stage[o]]
    /\ event' = [e \in Events |-> IF e[1] = "assess" /\ e[2] \in S THEN "due" ELSE event[e]]
    /\ UNCHANGED emitted

\* A verdict arrives for an order whose assessment was requested; it may make
\* the notification due, unless there is one already.
Decide(o) ==
    /\ stage[o] # "unknown"
    /\ <<"assess", o>> \in emitted
    /\ stage' = [stage EXCEPT ![o] = "decided"]
    /\ \/ UNCHANGED event
       \/ /\ event[<<"notify", o>>] = "none"
          /\ event' = [event EXCEPT ![<<"notify", o>>] = "due"]
    /\ UNCHANGED emitted

\* An event leaves the service, perhaps not for the first time.
Emit(e) ==
    /\ event[e] = "due"
    /\ emitted' = emitted \cup {e}
    /\ UNCHANGED <<stage, event>>

\* Emitted events are settled and never emitted again.
Settle(E) ==
    /\ \A e \in E : event[e] = "due" /\ e \in emitted
    /\ event' = [e \in Events |-> IF e \in E THEN "settled" ELSE event[e]]
    /\ UNCHANGED <<stage, emitted>>

Next ==
    \/ \E S \in SUBSET Orders : Register(S)
    \/ \E o \in Orders : Decide(o)
    \/ \E e \in Events : Emit(e)
    \/ \E E \in SUBSET Events : Settle(E)

Spec == Init /\ [][Next]_vars
================================================================================
