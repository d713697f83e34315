------------------------------- MODULE OrderCore -------------------------------
(***************************************************************************)
(* order-core-service: the two RabbitMQ subscribers (parse.results and     *)
(* assess.results) that write orders and outbox rows in one PostgreSQL     *)
(* transaction per message, and the relay that publishes the outbox.       *)
(*                                                                         *)
(* One step is one statement that another task, replica or service can     *)
(* interleave with.  A transaction is READ COMMITTED: its writes live in   *)
(* wrote / events until Commit makes them visible at once, and a row it    *)
(* has written blocks every other writer of the same row until it ends.    *)
(* The neighbours (parser-worker, llm) appear as what they may send.       *)
(***************************************************************************)
EXTENDS Integers, Sequences, FiniteSets, Functions

CONSTANTS
    Orders,      \* order identities: the (source, external_id) pairs
    Batches,     \* the parse.results batches the parser may publish
    Scores,      \* suitability scores that may appear on assess.results
    Threshold,   \* ASSESSMENT__NOTIFY_THRESHOLD
    Handlers,    \* messages in process at once: prefetch over all replicas
    Relays,      \* outbox relays, one per replica
    BatchSize,   \* OUTBOX__BATCH_SIZE
    MaxInputs,   \* bound: messages the outside world publishes
    MaxFaults,   \* bound: faults of handlers, connections and llm
    MaxRelayFaults, \* bound: relay transactions that fail
    NoScore      \* NULL of orders.suitability_score

ASSUME ConstantsAssumption ==
    /\ Batches \subseteq Seq(Orders)
    /\ Scores \subseteq Nat
    /\ Threshold \in Nat
    /\ BatchSize \in Nat \ {0}
    /\ MaxInputs \in Nat
    /\ MaxFaults \in Nat
    /\ MaxRelayFaults \in Nat
    /\ NoScore \notin Scores

VARIABLES
    \* PostgreSQL, committed
    status,      \* orders.status, "absent" when there is no such row
    score,       \* orders.suitability_score
    outbox,      \* outbox.status by dedup_key, "absent" when there is no row
    payload,     \* the verdict a notify row was built from, by order
    \* RabbitMQ
    queue,       \* ready messages of parse.results and assess.results
    requests,    \* messages of assess.requests, by order
    dlq,         \* order.dlq
    \* the subscribers' message handlers
    pc,          \* where handler h is
    msg,         \* the message it works on
    held,        \* handlers whose message the broker counts as unacked
    todo,        \* the orders of the batch not yet inserted
    wrote,       \* order rows its open transaction has written
    events,      \* outbox rows its open transaction has inserted
    \* the relays
    claim,       \* rows locked by the relay's open transaction
    done,        \* those of them already published
    \* history and budgets
    owed,        \* every message the broker has ever accepted
    sent,        \* how often an outbox row has been published
    inputs,      \* messages published by the outside world
    faults,      \* faults of handlers and of the llm service
    relayFaults  \* relay transactions that did not commit

db      == <<status, score, outbox, payload>>
handler == <<pc, msg, held, todo, wrote, events>>
relay   == <<claim, done>>
budget  == <<inputs, faults, relayFaults>>
vars    == <<db, queue, requests, dlq, handler, relay, owed, sent, budget>>

--------------------------------------------------------------------------------
(* Data *)

\* The code also has FAILED, which it never assigns.
OrderStatus == {"ASSESS_REQUESTED", "NOTIFY_REQUESTED", "NO_NOTIFY"}

\* The only status a verdict may be applied to.
can_apply_assessment(s) == s = "ASSESS_REQUESTED"

\* The notification policy.
decide_notification(s) == s >= Threshold

\* The range the domain object accepts; the wire schema accepts any int.
ValidScore(s) == s \in 0 .. 100

\* Outbox rows are identified by dedup_key: assess:<order> or notify:<order>.
Keys == {"assess", "notify"} \X Orders

Parse(b)      == [kind |-> "parse", batch |-> b]
Verdict(o, s) == [kind |-> "verdict", order |-> o, score |-> s]
Malformed     == [kind |-> "malformed"]
NoMsg         == [kind |-> "none"]

ParseMsgs   == {Parse(b) : b \in Batches}
VerdictMsgs == {Verdict(o, s) : o \in Orders, s \in Scores}
Messages    == ParseMsgs \cup VerdictMsgs \cup {Malformed}

Categories == {"invalid-payload", "permanent"}
PCs == {"idle", "insert", "get", "set", "commit", "permanent", "invalid",
        "ack", "nack"}

Put(q, m)  == [q EXCEPT ![m] = @ + 1]
Take(q, m) == [q EXCEPT ![m] = @ - 1]

--------------------------------------------------------------------------------
(* The message handlers: guard, IngestOrders.handle, ProcessAssessment.handle *)

\* Where guard sends a delivered message: what does not parse is dead-lettered,
\* a verdict whose score the domain object refuses raises inside handle.  Malformed
\* is a JSON object that does not fit the schema; a body that is no object fails
\* before guard, and takes the way of an invalid score.
Entry(m) ==
    CASE m.kind = "malformed" -> "invalid"
      [] m.kind = "parse"     -> IF m.batch = <<>> THEN "commit" ELSE "insert"
      [] m.kind = "verdict"   -> IF ValidScore(m.score) THEN "get" ELSE "nack"

\* Outbox events, named by dedup_key.
add_assessment_request_missing(o) == {}
add_assessment_request_commonKey(o) == {<<"order", o>>}
add_assessment_request(o) == {<<"assess", o>>}
add_notification(o)       == {<<"notify", o>>}

\* A ready message is delivered to a free handler, which parses it.
Deliver(h, m) ==
    /\ pc[h] = "idle"
    /\ queue[m] > 0
    /\ queue' = Take(queue, m)
    /\ pc' = [pc EXCEPT ![h] = Entry(m)]
    /\ msg' = [msg EXCEPT ![h] = m]
    /\ held' = held \cup {h}
    /\ todo' = [todo EXCEPT ![h] = IF m.kind = "parse" THEN m.batch ELSE <<>>]
    /\ UNCHANGED <<db, requests, dlq, wrote, events, relay, owed, sent, budget>>

\* The row h's next statement writes.
Wants(h, o) ==
    \/ pc[h] = "insert" /\ o = Head(todo[h])
    \/ pc[h] = "set"    /\ o = msg[h].order

\* An INSERT waits for an uncommitted INSERT of the same key, an UPDATE for an
\* uncommitted UPDATE of the same row.
WaitsFor(h, g) ==
    /\ g # h
    /\ msg[g].kind = msg[h].kind
    /\ \E o \in wrote[g] : Wants(h, o)

Blocked_never(h) == FALSE
Blocked(h) == \E g \in Handlers : WaitsFor(h, g)

\* INSERT ... ON CONFLICT DO NOTHING returns a row unless h sees one already.
insert_new(h, o) == status[o] = "absent" /\ o \notin wrote[h]

\* insert_new of the next order; when the row is new, add_assessment_request.
IngestNext(h) ==
    LET o     == Head(todo[h])
        isNew == insert_new(h, o)
    IN  /\ pc[h] = "insert"
        /\ ~Blocked(h)
        /\ wrote' = IF isNew THEN [wrote EXCEPT ![h] = @ \cup {o}] ELSE wrote
        /\ events' = IF isNew THEN [events EXCEPT ![h] = @ \cup add_assessment_request(o)]
                              ELSE events
        /\ todo' = [todo EXCEPT ![h] = Tail(@)]
        /\ pc' = [pc EXCEPT ![h] = IF Tail(todo[h]) = <<>> THEN "commit" ELSE "insert"]
        /\ UNCHANGED <<db, queue, requests, dlq, msg, held, relay, owed, sent, budget>>

\* The plain SELECT: unknown order -> PermanentError, already decided -> commit
\* of an empty transaction, otherwise the verdict is going to be applied.
Get(h) ==
    LET s == status[msg[h].order]
    IN  /\ pc[h] = "get"
        /\ pc' = [pc EXCEPT ![h] = CASE s = "absent" -> "permanent"
                                     [] can_apply_assessment(s) -> "set"
                                     [] OTHER -> "commit"]
        /\ UNCHANGED <<db, queue, requests, dlq, msg, held, todo, wrote, events,
                       relay, owed, sent, budget>>

\* set_status, whose WHERE names only the key, and add_notification.
SetStatus(h) ==
    LET o == msg[h].order
    IN  /\ pc[h] = "set"
        /\ ~Blocked(h)
        /\ wrote' = [wrote EXCEPT ![h] = {o}]
        /\ events' = [events EXCEPT ![h] =
                        IF decide_notification(msg[h].score) THEN add_notification(o)
                                                             ELSE {}]
        /\ pc' = [pc EXCEPT ![h] = "commit"]
        /\ UNCHANGED <<db, queue, requests, dlq, msg, held, todo, relay, owed,
                       sent, budget>>

\* The status a handler's transaction gives to the rows it wrote.
NewStatus_ignoresDecision(m) ==
    IF m.kind = "parse" THEN "ASSESS_REQUESTED" ELSE "NOTIFY_REQUESTED"
NewStatus(m) ==
    CASE m.kind = "parse" -> "ASSESS_REQUESTED"
      [] m.kind = "verdict" /\ decide_notification(m.score) -> "NOTIFY_REQUESTED"
      [] OTHER -> "NO_NOTIFY"

\* Outbox rows after the transaction: ON CONFLICT (dedup_key) DO NOTHING.
AddedRows_doUpdate(h) == events[h]
AddedRows(h) == {k \in events[h] : outbox[k] = "absent"}

\* COMMIT: orders and outbox change together, the row locks are released.
Commit(h) ==
    LET m == msg[h]
    IN  /\ pc[h] = "commit"
        /\ status' = [o \in Orders |-> IF o \in wrote[h] THEN NewStatus(m) ELSE status[o]]
        /\ score' = [o \in Orders |-> IF o \in wrote[h] /\ m.kind = "verdict"
                                      THEN m.score ELSE score[o]]
        /\ outbox' = [k \in Keys |-> IF k \in AddedRows(h) THEN "pending" ELSE outbox[k]]
        /\ payload' = [o \in Orders |-> IF <<"notify", o>> \in AddedRows(h)
                                        THEN m.score ELSE payload[o]]
        /\ wrote' = [wrote EXCEPT ![h] = {}]
        /\ events' = [events EXCEPT ![h] = {}]
        /\ pc' = [pc EXCEPT ![h] = "ack"]
        /\ UNCHANGED <<queue, requests, dlq, msg, held, todo, relay, owed, sent, budget>>

\* The message and the transaction of h are gone; h is free again.
Release(h) ==
    /\ pc' = [pc EXCEPT ![h] = "idle"]
    /\ msg' = [msg EXCEPT ![h] = NoMsg]
    /\ held' = held \ {h}
    /\ todo' = [todo EXCEPT ![h] = <<>>]
    /\ wrote' = [wrote EXCEPT ![h] = {}]
    /\ events' = [events EXCEPT ![h] = {}]

\* guard publishes to order.dlq and returns normally; the ack comes after it.
DeadLetter(h) ==
    LET category == IF pc[h] = "invalid" THEN "invalid-payload" ELSE "permanent"
    IN  /\ pc[h] \in {"invalid", "permanent"}
        /\ dlq' = dlq \cup {<<category, msg[h]>>}
        /\ pc' = [pc EXCEPT ![h] = "ack"]
        /\ UNCHANGED <<db, queue, requests, msg, held, todo, wrote, events, relay,
                       owed, sent, budget>>

\* The subscriber returned normally: the broker forgets the message.
Ack(h) ==
    /\ pc[h] = "ack"
    /\ Release(h)
    /\ UNCHANGED <<db, queue, requests, dlq, relay, owed, sent, budget>>

\* NACK_ON_ERROR: a message the broker still counts as h's is ready again.
Requeue_dropped(h) == UNCHANGED queue
Requeue(h) == queue' = IF h \in held THEN Put(queue, msg[h]) ELSE queue

\* The exception that no except clause of guard catches.
Nack(h) ==
    /\ pc[h] = "nack"
    /\ Requeue(h)
    /\ Release(h)
    /\ UNCHANGED <<db, requests, dlq, relay, owed, sent, budget>>

\* A statement, the commit, the DLQ publish or the process fails: the
\* transaction is rolled back and the message redelivered.
Abort(h) ==
    /\ pc[h] \notin {"idle", "nack"}
    /\ faults < MaxFaults
    /\ faults' = faults + 1
    /\ Requeue(h)
    /\ Release(h)
    /\ UNCHANGED <<db, requests, dlq, relay, owed, sent, inputs, relayFaults>>

\* The AMQP connection drops: the broker redelivers while h keeps working.
ConnectionLost(h) ==
    /\ h \in held
    /\ faults < MaxFaults
    /\ faults' = faults + 1
    /\ queue' = Put(queue, msg[h])
    /\ held' = held \ {h}
    /\ UNCHANGED <<db, requests, dlq, pc, msg, todo, wrote, events, relay, owed,
                   sent, inputs, relayFaults>>

\* h is on a cycle of waiting transactions.
Deadlocked_never(h) == FALSE
Deadlocked(h) ==
    \E C \in SUBSET Handlers :
        /\ h \in C
        /\ \A x \in C : (\E y \in C : WaitsFor(x, y)) /\ (\E y \in C : WaitsFor(y, x))

\* PostgreSQL breaks a deadlock by failing one of its transactions.
DeadlockAbort(h) ==
    /\ Deadlocked(h)
    /\ Requeue(h)
    /\ Release(h)
    /\ UNCHANGED <<db, requests, dlq, relay, owed, sent, budget>>

--------------------------------------------------------------------------------
(* The relay: RelayOutbox.run_once *)

\* claim_pending: committed pending rows that no other relay has locked.
Claimable_dirtyRead ==
    {k \in Keys : outbox[k] = "pending" \/ \E h \in Handlers : k \in events[h]}
Claimable_withoutSkipLocked == {k \in Keys : outbox[k] = "pending"}
Claimable == {k \in Keys : outbox[k] = "pending" /\ \A r \in Relays : k \notin claim[r]}

ClaimPending(r) ==
    /\ claim[r] = {}
    /\ \E S \in SUBSET Claimable :
          /\ S # {}
          /\ \/ Cardinality(S) = BatchSize
             \/ Cardinality(S) < BatchSize /\ S = Claimable
          /\ claim' = [claim EXCEPT ![r] = S]
    /\ UNCHANGED <<db, queue, requests, dlq, handler, done, owed, sent, budget>>

\* publisher.publish of one claimed event, before anything is committed.
Publish(r, k) ==
    /\ k \in claim[r] \ done[r]
    /\ done' = [done EXCEPT ![r] = @ \cup {k}]
    /\ sent' = Put(sent, k)
    /\ requests' = IF k[1] = "assess" THEN Put(requests, k[2]) ELSE requests
    /\ UNCHANGED <<db, queue, dlq, handler, claim, owed, budget>>

\* mark_published and commit.
MarkPublished_early(r) ==
    /\ claim[r] # {}
    /\ outbox' = [k \in Keys |-> IF k \in claim[r] THEN "published" ELSE outbox[k]]
    /\ claim' = [claim EXCEPT ![r] = {}]
    /\ done' = [done EXCEPT ![r] = {}]
    /\ UNCHANGED <<status, score, payload, queue, requests, dlq, handler, owed,
                   sent, budget>>
MarkPublished(r) ==
    /\ claim[r] # {}
    /\ done[r] = claim[r]
    /\ outbox' = [k \in Keys |-> IF k \in claim[r] THEN "published" ELSE outbox[k]]
    /\ claim' = [claim EXCEPT ![r] = {}]
    /\ done' = [done EXCEPT ![r] = {}]
    /\ UNCHANGED <<status, score, payload, queue, requests, dlq, handler, owed,
                   sent, budget>>

\* A publish, the update, the commit or the process fails: rollback; the events
\* already published stay published and their rows stay pending.
RelayAbort(r) ==
    /\ claim[r] # {}
    /\ relayFaults < MaxRelayFaults
    /\ relayFaults' = relayFaults + 1
    /\ claim' = [claim EXCEPT ![r] = {}]
    /\ done' = [done EXCEPT ![r] = {}]
    /\ UNCHANGED <<db, queue, requests, dlq, handler, owed, sent, inputs, faults>>

--------------------------------------------------------------------------------
(* The neighbours *)

\* The broker accepts m.
Accept(m) ==
    /\ queue' = Put(queue, m)
    /\ owed' = owed \cup {m}

\* parser-worker publishes a batch; or a message arrives that no service of the
\* repository sends, malformed or with a score the domain refuses.
Input(m) ==
    /\ m.kind = "verdict" => ~ValidScore(m.score)
    /\ inputs < MaxInputs
    /\ inputs' = inputs + 1
    /\ Accept(m)
    /\ UNCHANGED <<db, requests, dlq, handler, relay, sent, faults, relayFaults>>

\* llm assesses a request and publishes the verdict.  Crashing before its ack
\* leaves the request on the queue, to be assessed once more.
LlmAnswer(o, s) ==
    /\ requests[o] > 0
    /\ ValidScore(s)
    /\ Accept(Verdict(o, s))
    /\ \/ requests' = Take(requests, o) /\ UNCHANGED faults
       \/ faults < MaxFaults /\ faults' = faults + 1 /\ UNCHANGED requests
    /\ UNCHANGED <<db, dlq, handler, relay, sent, inputs, relayFaults>>

\* llm finds the order unsuitable, or fails for good: nothing is published.
LlmSkip(o) ==
    /\ requests[o] > 0
    /\ requests' = Take(requests, o)
    /\ UNCHANGED <<db, queue, dlq, handler, relay, owed, sent, budget>>

--------------------------------------------------------------------------------
Init ==
    /\ status = [o \in Orders |-> "absent"]
    /\ score = [o \in Orders |-> NoScore]
    /\ outbox = [k \in Keys |-> "absent"]
    /\ payload = [o \in Orders |-> NoScore]
    /\ queue = [m \in Messages |-> 0]
    /\ requests = [o \in Orders |-> 0]
    /\ dlq = {}
    /\ pc = [h \in Handlers |-> "idle"]
    /\ msg = [h \in Handlers |-> NoMsg]
    /\ held = {}
    /\ todo = [h \in Handlers |-> <<>>]
    /\ wrote = [h \in Handlers |-> {}]
    /\ events = [h \in Handlers |-> {}]
    /\ claim = [r \in Relays |-> {}]
    /\ done = [r \in Relays |-> {}]
    /\ owed = {}
    /\ sent = [k \in Keys |-> 0]
    /\ inputs = 0
    /\ faults = 0
    /\ relayFaults = 0

\* What the handler task does of its own accord.
HandlerStep(h) ==
    \/ IngestNext(h) \/ Get(h) \/ SetStatus(h) \/ Commit(h)
    \/ DeadLetter(h) \/ Ack(h) \/ Nack(h) \/ DeadlockAbort(h)

RelayStep_withoutMark(r) == ClaimPending(r) \/ \E k \in Keys : Publish(r, k)
RelayStep(r) ==
    \/ ClaimPending(r)
    \/ \E k \in Keys : Publish(r, k)
    \/ MarkPublished(r)

Next ==
    \/ \E h \in Handlers :
          \/ \E m \in Messages : Deliver(h, m)
          \/ HandlerStep(h)
          \/ Abort(h)
          \/ ConnectionLost(h)
    \/ \E r \in Relays : RelayStep(r) \/ RelayAbort(r)
    \/ \E m \in Messages : Input(m)
    \/ \E o \in Orders : LlmSkip(o) \/ \E s \in Scores : LlmAnswer(o, s)

Spec == Init /\ [][Next]_vars

\* The event loop runs every ready task, the broker delivers to free consumers
\* and a relay polls for ever.  A statement that waits for a row is woken when
\* the holder ends, ahead of a redelivery that would have to come back through
\* the broker, so it cannot lose that race for ever: strong fairness.  The
\* outside world promises nothing.
Fairness ==
    /\ \A h \in Handlers, o \in Orders : SF_vars(IngestNext(h) /\ Head(todo[h]) = o)
    /\ \A h \in Handlers : SF_vars(SetStatus(h))
    /\ \A h \in Handlers : WF_vars(HandlerStep(h))
    /\ \A h \in Handlers : WF_vars(\E m \in Messages : Deliver(h, m))
    /\ \A r \in Relays : WF_vars(RelayStep(r))

FairSpec == Spec /\ Fairness

--------------------------------------------------------------------------------
(* Properties *)

\* Every order row, outbox row, message, handler and relay has its type.
TypeOK ==
    /\ status \in [Orders -> OrderStatus \cup {"absent"}]
    /\ score \in [Orders -> Scores \cup {NoScore}]
    /\ outbox \in [Keys -> {"absent", "pending", "published"}]
    /\ payload \in [Orders -> Scores \cup {NoScore}]
    /\ queue \in [Messages -> Nat]
    /\ requests \in [Orders -> Nat]
    /\ dlq \subseteq Categories \X Messages
    /\ pc \in [Handlers -> PCs]
    /\ msg \in [Handlers -> Messages \cup {NoMsg}]
    /\ held \subseteq Handlers
    /\ todo \in [Handlers -> Seq(Orders)]
    /\ wrote \in [Handlers -> SUBSET Orders]
    /\ events \in [Handlers -> SUBSET Keys]
    /\ claim \in [Relays -> SUBSET Keys]
    /\ done \in [Relays -> SUBSET Keys]
    /\ owed \subseteq Messages
    /\ sent \in [Keys -> Nat]
    /\ inputs \in Nat
    /\ faults \in Nat
    /\ relayFaults \in Nat

Decided(o) == status[o] \in {"NOTIFY_REQUESTED", "NO_NOTIFY"}

\* What it means that the service is done with a message.
Handled(m) ==
    \/ m.kind = "parse" /\ \A o \in Range(m.batch) : status[o] # "absent"
    \/ m.kind = "verdict" /\ Decided(m.order)
    \/ m.kind = "malformed" /\ <<"invalid-payload", m>> \in dlq

\* The broker still has m, ready or unacknowledged.
InBroker(m) == queue[m] > 0 \/ \E h \in held : msg[h] = m

\* README "Outbox Pattern": an order row and its assess.requests event are
\* written by the same transaction, so that neither is ever there alone.
OrdersAndRequestsTogether ==
    \A o \in Orders : status[o] # "absent" <=> outbox[<<"assess", o>>] # "absent"

\* An order whose status promises a notification has its notify row, and a
\* notify row belongs to a decided order and was built from a verdict that
\* reaches the threshold, whichever verdicts raced.
NotificationsJustified ==
    \A o \in Orders :
        /\ status[o] = "NOTIFY_REQUESTED" => outbox[<<"notify", o>>] # "absent"
        /\ outbox[<<"notify", o>>] # "absent" =>
              Decided(o) /\ payload[o] \in Scores /\ payload[o] >= Threshold

\* process_assessment.py: persist comes before publish, so llm cannot answer for
\* an order the service does not have: no verdict is ever dead-lettered.
NoUnknownVerdict ==
    /\ \A m \in owed : m.kind = "verdict" /\ ValidScore(m.score) => status[m.order] # "absent"
    /\ \A d \in dlq : d[1] # "permanent"

\* At-least-once intake: a message the broker accepted is still there, or what it
\* asked for is in the database (or in the DLQ), whichever handler, connection or
\* replica failed in between.  The broker itself goes on here; Polling restarts it.
NoMessageLost == \A m \in owed : InBroker(m) \/ Handled(m)

\* At-least-once dispatch: a row marked published was published; and the row is
\* published more than once only if a relay transaction failed.
DispatchCount ==
    \A k \in Keys :
        /\ outbox[k] = "published" => sent[k] >= 1
        /\ sent[k] <= 1 + relayFaults

\* A known order is never forgotten and never assessed anew, however often the
\* parser reports it; an outbox row never becomes pending again and its payload
\* never changes, so every copy of a notification carries the same text.
NoFreshStart ==
    /\ \A o \in Orders :
          /\ status[o] # "absent" => status'[o] # "absent"
          /\ Decided(o) => Decided(o)'
    /\ \A k \in Keys :
          /\ outbox[k] = "published" => outbox'[k] = "published"
          /\ outbox[k] = "pending" => outbox'[k] \in {"pending", "published"}
    /\ \A o \in Orders : outbox[<<"notify", o>>] # "absent" => payload'[o] = payload[o]

\* No step of the service, of a relay or of a neighbour starts anything over.
NothingStartsOver == [][NoFreshStart]_vars

\* The refinement mapping: an order and an event as TransactionalOutbox sees them.
Stage == [o \in Orders |-> CASE status[o] = "absent" -> "unknown"
                             [] Decided(o) -> "decided"
                             [] OTHER -> "assessing"]
Event == [k \in Keys |-> CASE outbox[k] = "absent" -> "none"
                           [] outbox[k] = "pending" -> "due"
                           [] OTHER -> "settled"]
Emitted == {k \in Keys : sent[k] > 0}

Promise == INSTANCE TransactionalOutbox
           WITH stage <- Stage, event <- Event, emitted <- Emitted

\* The service implements its abstract promise: orders and events, as the
\* database and the broker show them, move only as TransactionalOutbox allows.
ImplementsPromise == Promise!Spec

\* Every committed event is eventually published and marked.
OutboxDrains == \A k \in Keys : outbox[k] = "pending" ~> outbox[k] = "published"

\* Every message the broker accepted is eventually dealt with, deadlocks between
\* batches and redeliveries included.
MessagesHandled == \A m \in Messages : m \in owed ~> Handled(m)

\* domain/status.py: "Repeated delivery of a verdict to an already processed
\* order is a no-op".
RepeatedVerdictIsNoOp ==
    [][\A o \in Orders : Decided(o) => status'[o] = status[o] /\ score'[o] = score[o]]_vars

\* README "Reliability of intake": an invalid payload goes to order.dlq and is
\* acknowledged, so as not to spin in a hot loop.
InvalidVerdictDeadLettered ==
    \A m \in VerdictMsgs :
        (m \in owed /\ ~ValidScore(m.score)) ~> (\E c \in Categories : <<c, m>> \in dlq)

--------------------------------------------------------------------------------
(* The inductive invariant behind the safety properties *)

\* A handler's message, its place in the code and its open transaction agree;
\* what is being acknowledged has been handled.
HandlerOK(h) ==
    /\ pc[h] = "idle" => h \notin held
    /\ pc[h] # "idle" => msg[h] \in owed
    /\ pc[h] \notin {"insert", "commit"} => wrote[h] = {} /\ events[h] = {}
    /\ pc[h] = "insert" => msg[h].kind = "parse" /\ todo[h] # <<>>
    /\ pc[h] \in {"get", "set"} => msg[h].kind = "verdict" /\ ValidScore(msg[h].score)
    /\ pc[h] = "invalid" => msg[h].kind = "malformed"
    /\ pc[h] # "permanent"
    /\ pc[h] = "commit" => msg[h].kind \in {"parse", "verdict"}
    /\ pc[h] = "ack" => Handled(msg[h])

\* The open transaction of a batch: rows still absent, each with its event, and
\* every order of the batch to do, written or stored.
IngestOK(h) ==
    pc[h] \in {"insert", "commit"} /\ msg[h].kind = "parse" =>
        /\ pc[h] = "commit" => todo[h] = <<>>
        /\ \A o \in wrote[h] : status[o] = "absent"
        /\ events[h] = {"assess"} \X wrote[h]
        /\ \A o \in Range(msg[h].batch) :
              o \in Range(todo[h]) \/ o \in wrote[h] \/ status[o] # "absent"

\* The transaction of a verdict: the row and the event it decided on, or nothing
\* when the order had been decided before.
VerdictOK(h) ==
    pc[h] = "commit" /\ msg[h].kind = "verdict" =>
        /\ ValidScore(msg[h].score)
        /\ \/ wrote[h] = {} /\ events[h] = {} /\ Decided(msg[h].order)
           \/ /\ wrote[h] = {msg[h].order}
              /\ events[h] = IF msg[h].score >= Threshold
                             THEN {<<"notify", msg[h].order>>} ELSE {}

HandlersInv == \A h \in Handlers : HandlerOK(h) /\ IngestOK(h) /\ VerdictOK(h)

\* Two open transactions never insert the same order.
InsertLocks ==
    \A g, h \in Handlers :
        g # h /\ msg[g].kind = "parse" /\ msg[h].kind = "parse" => wrote[g] \cap wrote[h] = {}

\* A ready message was accepted once.
BrokerInv == \A m \in Messages : queue[m] > 0 => m \in owed

\* Whatever is known outside about an order was caused by its published request.
Causality ==
    /\ \A o \in Orders : requests[o] > 0 => sent[<<"assess", o>>] > 0
    /\ \A m \in owed : m.kind = "verdict" /\ ValidScore(m.score) => sent[<<"assess", m.order>>] > 0
    /\ \A k \in Keys : sent[k] > 0 => outbox[k] # "absent"

\* Claimed rows are pending, locked by one relay, and count their publications.
RelayInv ==
    /\ \A r \in Relays : done[r] \subseteq claim[r]
    /\ \A r \in Relays : \A k \in claim[r] : outbox[k] = "pending"
    /\ \A r \in Relays : \A k \in done[r] : sent[k] > 0
    /\ \A r1, r2 \in Relays : r1 # r2 => claim[r1] \cap claim[r2] = {}
    /\ \A k \in Keys : outbox[k] = "published" => sent[k] > 0
    /\ \A k \in Keys : sent[k] <= 1 + relayFaults
    /\ \A k \in Keys : outbox[k] # "published" /\ (\A r \in Relays : k \notin done[r])
                          => sent[k] <= relayFaults

NothingPermanent == \A d \in dlq : d[1] # "permanent"

IndInv ==
    /\ TypeOK
    /\ HandlersInv
    /\ InsertLocks
    /\ BrokerInv
    /\ Causality
    /\ RelayInv
    /\ OrdersAndRequestsTogether
    /\ NotificationsJustified
    /\ NothingPermanent
    /\ NoMessageLost

================================================================================
