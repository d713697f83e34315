---------------------------------- MODULE Llm ----------------------------------
(***************************************************************************)
(* llm: the consumer of assess.requests, which has every order of an       *)
(* envelope assessed by the language model, publishes a verdict for the    *)
(* suitable ones to assess.results, and sends the orders that failed for a *)
(* passing reason through the retry queue (TTL, then back).                *)
(*                                                                         *)
(* An envelope is the set of its orders; order-core puts one order in      *)
(* each, the format allows many.  With prefetch 1 a handler is a replica   *)
(* of the service, so that the crash of a process is the crash of one      *)
(* handler.  The durable queues are those of a service that has been       *)
(* started before.                                                         *)
(***************************************************************************)
EXTENDS Integers, FiniteSets

CONSTANTS
    Orders,      \* order ids
    Envelopes,   \* the sets of orders that order-core may ask for at once
    Malformed,   \* an envelope that does not parse
    Scores,      \* suitability scores the model may give
    Threshold,   \* ASSESSMENT__SUITABILITY_THRESHOLD
    Handlers,    \* replicas, one message each
    MaxInputs,   \* bound: messages published to assess.requests
    MaxFaults    \* bound: crashes, lost connections, failed publications

ASSUME LlmAssumption ==
    /\ Envelopes \subseteq SUBSET Orders
    /\ \A m \in SUBSET Orders : m # Malformed
    /\ Scores \subseteq 0 .. 100
    /\ Threshold \in 0 .. 100
    /\ MaxInputs \in Nat
    /\ MaxFaults \in Nat

VARIABLES
    \* RabbitMQ
    queue,       \* ready messages of assess.requests
    retry,       \* messages of assess.requests.retry
    dlq,         \* assess.requests.dlq
    verdicts,    \* verdicts on assess.results, by order
    \* the handlers
    pc,          \* where handler h is
    msg,         \* the message it works on
    todo,        \* its orders not yet dealt with
    current,     \* the order it is about to publish a verdict for
    retryable,   \* its orders that failed for a passing reason
    held,        \* handlers whose message the broker counts as unacked
    \* history and budgets
    requests,    \* how often an order has been requested
    skipped,     \* orders found unsuitable
    failed,      \* orders given up with a log entry
    unpublished, \* orders given up because their verdict could not be published
    inputs,
    faults

broker  == <<queue, retry, dlq, verdicts>>
work    == <<pc, msg, todo, current, retryable, held>>
history == <<requests, skipped, failed, unpublished>>
vars    == <<broker, work, history, inputs, faults>>

Messages == {Malformed} \cup SUBSET Orders
PCs      == {"idle", "assess", "publish", "retry", "ack", "reject"}

\* The orders of a message.
Contents(m) == IF m = Malformed THEN {} ELSE m

Put(q, m)  == [q EXCEPT ![m] = @ + 1]
Take(q, m) == [q EXCEPT ![m] = @ - 1]

--------------------------------------------------------------------------------
(* One order: assess, decide *)

\* What the model says of an order: a score, and whether a hard filter applies
\* (unsupported skills or a rejected type of work).
Assessments == [score : Scores, filtered : BOOLEAN]

decide(a) == ~a.filtered /\ a.score >= Threshold

\* How a call to the model fails: an HTTP status, 0 for a connection error or a
\* timeout, 200 for an answer that is cut off or does not fit the schema (or any
\* other exception, which is swallowed likewise).
Failures == {0, 200, 400, 429, 500}

classify(s) == IF s \in {0, 429} \/ s >= 500 THEN "transient" ELSE "permanent"

--------------------------------------------------------------------------------
(* One message *)

\* A ready message is delivered to a free handler, which parses it.
Deliver(h, m) ==
    /\ pc[h] = "idle"
    /\ queue[m] > 0
    /\ queue' = Take(queue, m)
    /\ pc' = [pc EXCEPT ![h] = IF m = Malformed THEN "reject"
                               ELSE IF m = {} THEN "ack" ELSE "assess"]
    /\ msg' = [msg EXCEPT ![h] = m]
    /\ todo' = [todo EXCEPT ![h] = Contents(m)]
    /\ held' = held \cup {h}
    /\ UNCHANGED <<retry, dlq, verdicts, current, retryable, history, inputs, faults>>

\* _assess_one of order o is over; again says that it failed for a passing reason.
\* After the last order the failed ones, if any, are to be sent round again.
Done_forgets(h, o, again) ==
    LET left == todo[h] \ {o}
    IN  /\ todo' = [todo EXCEPT ![h] = left]
        /\ pc' = [pc EXCEPT ![h] = IF left # {} THEN "assess" ELSE "ack"]
        /\ UNCHANGED retryable
Done_alwaysRetries(h, o, again) ==
    LET left  == todo[h] \ {o}
        round == IF again THEN retryable[h] \cup {o} ELSE retryable[h]
    IN  /\ todo' = [todo EXCEPT ![h] = left]
        /\ retryable' = [retryable EXCEPT ![h] = round]
        /\ pc' = [pc EXCEPT ![h] = IF left # {} THEN "assess" ELSE "retry"]
Done(h, o, again) ==
    LET left  == todo[h] \ {o}
        round == IF again THEN retryable[h] \cup {o} ELSE retryable[h]
    IN  /\ todo' = [todo EXCEPT ![h] = left]
        /\ retryable' = [retryable EXCEPT ![h] = round]
        /\ pc' = [pc EXCEPT ![h] = IF left # {} THEN "assess"
                                   ELSE IF round # {} THEN "retry" ELSE "ack"]

\* The model assesses o: a verdict is to be published, or o is skipped.
Assess(h, o, a) ==
    /\ pc[h] = "assess"
    /\ o \in todo[h]
    /\ IF decide(a)
       THEN /\ pc' = [pc EXCEPT ![h] = "publish"]
            /\ current' = [current EXCEPT ![h] = {o}]
            /\ UNCHANGED <<todo, retryable, skipped>>
       ELSE /\ Done(h, o, FALSE)
            /\ skipped' = skipped \cup {o}
            /\ UNCHANGED current
    /\ UNCHANGED <<broker, msg, held, requests, failed, unpublished, inputs, faults>>

\* The call to the model fails: o is retried, or logged and given up.
AssessFails(h, o, s) ==
    LET again == classify(s) = "transient"
    IN  /\ pc[h] = "assess"
        /\ o \in todo[h]
        /\ Done(h, o, again)
        /\ failed' = IF again THEN failed ELSE failed \cup {o}
        /\ UNCHANGED <<broker, msg, current, held, requests, skipped, unpublished,
                       inputs, faults>>

\* The verdict is published.
PublishResult(h, o) ==
    /\ pc[h] = "publish"
    /\ o \in current[h]
    /\ verdicts' = Put(verdicts, o)
    /\ Done(h, o, FALSE)
    /\ current' = [current EXCEPT ![h] = {}]
    /\ UNCHANGED <<queue, retry, dlq, msg, held, history, inputs, faults>>

\* The publication raises, perhaps after the broker stored the verdict.  What the
\* transport raises is no TransientError: the order is logged and given up.
PublishResultFails(h, o) ==
    /\ pc[h] = "publish"
    /\ o \in current[h]
    /\ faults < MaxFaults
    /\ faults' = faults + 1
    /\ verdicts' \in {verdicts, Put(verdicts, o)}
    /\ Done(h, o, FALSE)
    /\ current' = [current EXCEPT ![h] = {}]
    /\ failed' = failed \cup {o}
    /\ unpublished' = unpublished \cup {o}
    /\ UNCHANGED <<queue, retry, dlq, msg, held, requests, skipped, inputs>>

\* The envelope of the failed orders, published to the retry queue.
Resend_wholeEnvelope(h) == Put(retry, msg[h])
Resend_nothing(h) == retry
Resend(h) == Put(retry, retryable[h])

Republish(h) ==
    /\ pc[h] = "retry"
    /\ retry' = Resend(h)
    /\ pc' = [pc EXCEPT ![h] = "ack"]
    /\ UNCHANGED <<queue, dlq, verdicts, msg, todo, current, retryable, held,
                   history, inputs, faults>>

\* The publication raises, perhaps after the broker stored the copy: the
\* exception leaves the subscriber.
RepublishFails(h) ==
    /\ pc[h] = "retry"
    /\ faults < MaxFaults
    /\ faults' = faults + 1
    /\ retry' \in {retry, Resend(h)}
    /\ pc' = [pc EXCEPT ![h] = "reject"]
    /\ UNCHANGED <<queue, dlq, verdicts, msg, todo, current, retryable, held,
                   history, inputs>>

\* The handler is free again.
Release(h) ==
    /\ pc' = [pc EXCEPT ![h] = "idle"]
    /\ msg' = [msg EXCEPT ![h] = {}]
    /\ todo' = [todo EXCEPT ![h] = {}]
    /\ current' = [current EXCEPT ![h] = {}]
    /\ retryable' = [retryable EXCEPT ![h] = {}]
    /\ held' = held \ {h}

Ack(h) ==
    /\ pc[h] = "ack"
    /\ Release(h)
    /\ UNCHANGED <<broker, history, inputs, faults>>

\* REJECT_ON_ERROR: the broker dead-letters the whole message.
Reject(h) ==
    /\ pc[h] = "reject"
    /\ dlq' = IF h \in held THEN dlq \cup {msg[h]} ELSE dlq
    /\ Release(h)
    /\ UNCHANGED <<queue, retry, verdicts, history, inputs, faults>>

--------------------------------------------------------------------------------
(* The environment *)

\* order-core, or anybody else, publishes to assess.requests.
Request(m) ==
    /\ inputs < MaxInputs
    /\ inputs' = inputs + 1
    /\ queue' = Put(queue, m)
    /\ requests' = [o \in Orders |-> IF o \in Contents(m) THEN requests[o] + 1 ELSE requests[o]]
    /\ UNCHANGED <<retry, dlq, verdicts, work, skipped, failed, unpublished, faults>>

\* The TTL of the retry queue sends a message back to assess.requests.
Expire_never(m) == FALSE /\ UNCHANGED vars
Expire(m) ==
    /\ retry[m] > 0
    /\ retry' = Take(retry, m)
    /\ queue' = Put(queue, m)
    /\ UNCHANGED <<dlq, verdicts, work, history, inputs, faults>>

\* What the broker counts as delivered to h is ready again.
Redelivered(h) == IF h \in held THEN Put(queue, msg[h]) ELSE queue

\* The process dies.
Crash(h) ==
    /\ pc[h] # "idle"
    /\ faults < MaxFaults
    /\ faults' = faults + 1
    /\ queue' = Redelivered(h)
    /\ Release(h)
    /\ UNCHANGED <<retry, dlq, verdicts, history, inputs>>

\* The connection drops: the broker redelivers while the handler carries on.
ConnectionLost(h) ==
    /\ h \in held
    /\ faults < MaxFaults
    /\ faults' = faults + 1
    /\ queue' = Redelivered(h)
    /\ held' = held \ {h}
    /\ UNCHANGED <<retry, dlq, verdicts, pc, msg, todo, current, retryable, history, inputs>>

--------------------------------------------------------------------------------
Init ==
    /\ queue = [m \in Messages |-> 0]
    /\ retry = [m \in SUBSET Orders |-> 0]
    /\ dlq = {}
    /\ verdicts = [o \in Orders |-> 0]
    /\ pc = [h \in Handlers |-> "idle"]
    /\ msg = [h \in Handlers |-> {}]
    /\ todo = [h \in Handlers |-> {}]
    /\ current = [h \in Handlers |-> {}]
    /\ retryable = [h \in Handlers |-> {}]
    /\ held = {}
    /\ requests = [o \in Orders |-> 0]
    /\ skipped = {}
    /\ failed = {}
    /\ unpublished = {}
    /\ inputs = 0
    /\ faults = 0

HandlerStep(h) ==
    \/ \E o \in Orders :
          \/ \E a \in Assessments : Assess(h, o, a)
          \/ \E s \in Failures : AssessFails(h, o, s)
          \/ PublishResult(h, o)
    \/ Republish(h) \/ Ack(h) \/ Reject(h)

Next ==
    \/ \E h \in Handlers :
          \/ \E m \in Messages : Deliver(h, m)
          \/ HandlerStep(h)
          \/ \E o \in Orders : PublishResultFails(h, o)
          \/ RepublishFails(h)
          \/ Crash(h)
          \/ ConnectionLost(h)
    \/ \E m \in SUBSET Orders : Expire(m)
    \/ \E m \in Envelopes \cup {Malformed} : Request(m)

Spec == Init /\ [][Next]_vars

\* The client of the model has a timeout, so that handlers proceed; queues are
\* first in, first out, so that no message is passed over for ever; the TTL
\* expires.  Nothing is assumed of what the model answers.
Fairness ==
    /\ \A h \in Handlers : WF_vars(HandlerStep(h))
    /\ \A m \in Messages : SF_vars(\E h \in Handlers : Deliver(h, m))
    /\ \A m \in SUBSET Orders : WF_vars(Expire(m))

FairSpec == Spec /\ Fairness

--------------------------------------------------------------------------------
(* Properties *)

\* Every message, handler, order and counter has its type.  What is sent round again
\* holds an order: the retry queue never has an empty envelope.
TypeOK ==
    /\ queue \in [Messages -> Nat]
    /\ retry \in [SUBSET Orders -> Nat] /\ retry[{}] = 0
    /\ dlq \subseteq Messages
    /\ verdicts \in [Orders -> Nat]
    /\ pc \in [Handlers -> PCs]
    /\ msg \in [Handlers -> Messages]
    /\ todo \in [Handlers -> SUBSET Orders]
    /\ current \in [Handlers -> SUBSET Orders]
    /\ retryable \in [Handlers -> SUBSET Orders]
    /\ held \subseteq Handlers
    /\ requests \in [Orders -> Nat]
    /\ skipped \subseteq Orders
    /\ failed \subseteq Orders
    /\ unpublished \subseteq Orders
    /\ inputs \in Nat
    /\ faults \in Nat

\* An order that was answered, found unsuitable or given up, or whose envelope is
\* in the DLQ.
Settled(o) ==
    \/ verdicts[o] > 0
    \/ o \in skipped \cup failed
    \/ \E m \in dlq : o \in Contents(m)

Queued(o) ==
    \/ \E m \in Messages : queue[m] > 0 /\ o \in Contents(m)
    \/ \E m \in SUBSET Orders : retry[m] > 0 /\ o \in m

\* The message that holds o will come back if its handler dies.
Unacked(o) == \E h \in held : pc[h] # "ack" /\ o \in Contents(msg[h])

\* broker.py: "the order is not lost".  A requested order is settled, or waits in
\* one of the queues, or belongs to a message whose handler is not yet about to
\* acknowledge it, although part of its envelope may be settled and another part
\* on its way through the retry queue.
NoOrderLost == \A o \in Orders : requests[o] > 0 => Settled(o) \/ Queued(o) \/ Unacked(o)

\* llm has no deduplication of its own: an order gets no more verdicts than
\* requests, except one for each crash, lost connection or failed publication.
VerdictsExplained == \A o \in Orders : verdicts[o] <= requests[o] + faults

\* A requested order is settled in the end, or tried again and again for as long
\* as the model fails for passing reasons; it is never parked for good.
SettledOrTriedAgain ==
    \A o \in Orders :
        []<>(requests[o] > 0 => Settled(o) \/ \E h \in Handlers : pc[h] = "assess" /\ o \in todo[h])

\* tests/unit/test_assess_orders.py: a failed publication of a verdict is transient
\* and the order goes to be retried.
PublishFailureRetried ==
    \A o \in unpublished : verdicts[o] > 0 \/ Queued(o) \/ Unacked(o)

--------------------------------------------------------------------------------
(* The inductive invariant behind NoOrderLost *)

\* Every order of a message in process is to do, to be retried or settled; when
\* the message is about to be acknowledged nothing of it is left.
HandlerOK(h) ==
    /\ pc[h] = "idle" => h \notin held
    /\ pc[h] \notin {"idle", "reject"} => msg[h] # Malformed
    /\ pc[h] \in {"assess", "publish", "retry"} =>
          \A o \in Contents(msg[h]) : o \in todo[h] \/ o \in retryable[h] \/ Settled(o)
    /\ pc[h] = "publish" => current[h] \subseteq todo[h]
    /\ pc[h] \in {"retry", "ack"} => todo[h] = {}
    /\ pc[h] = "retry" => retryable[h] # {}

IndInv ==
    /\ TypeOK
    /\ \A h \in Handlers : HandlerOK(h)
    /\ NoOrderLost

--------------------------------------------------------------------------------
(* The inductive invariant behind VerdictsExplained *)

\* The copies of messages about o in a queue.
Copies(q, o) == UNION {{m} \X (1 .. q[m]) : m \in {x \in DOMAIN q : o \in Contents(x)}}

\* The handlers that have not yet answered o or sent it round again.
Working(o) ==
    {h \in Handlers : /\ pc[h] \in {"assess", "publish", "retry"}
                      /\ o \in todo[h] \cup retryable[h]}

\* Every request pays for one verdict that was published, waits in a queue or is being
\* worked on, and every fault for one more.
Paid(o) ==
    /\ IsFiniteSet(Copies(queue, o)) /\ IsFiniteSet(Copies(retry, o)) /\ IsFiniteSet(Working(o))
    /\ verdicts[o] + Cardinality(Copies(queue, o)) + Cardinality(Copies(retry, o))
           + Cardinality(Working(o)) <= requests[o] + faults

\* A handler does not retry an order that it still has to assess, and begins afresh.
SharesOK(h) ==
    /\ todo[h] \cap retryable[h] = {}
    /\ pc[h] = "idle" => retryable[h] = {}

VerdictInv ==
    /\ \A h \in Handlers : SharesOK(h)
    /\ \A o \in Orders : Paid(o)
================================================================================
