----------------------------- MODULE Notifications -----------------------------
(***************************************************************************)
(* notifications: the consumer of the queue of the same name, which sends  *)
(* each message to Telegram and then acknowledges it, rejects it into the  *)
(* retry queue (TTL, then back), or publishes it to the dead-letter queue. *)
(*                                                                         *)
(* A handler is one of the concurrent invocations of the message handler.  *)
(* Between a send and the acknowledgement the process may die; when only   *)
(* the connection dies the handlers live on and the broker redelivers what *)
(* they still work on.  Messages that were prefetched but not handed to a  *)
(* handler count as being on the queue.                                    *)
(***************************************************************************)
EXTENDS Integers, FiniteSets

CONSTANTS
    Notes,       \* messages, each published once to the exchange
    Malformed,   \* those whose body does not match the schema
    Unsendable,  \* those whose text is blank or longer than Telegram takes
    Volatile,    \* those published without delivery mode 2, as order-core does
    Handlers,    \* RABBITMQ_CONCURRENCY invocations
    MaxAttempts, \* NOTIFY_MAX_ATTEMPTS
    MaxFaults,   \* bound: crashes, lost connections, failed DLQ publications
    MaxStops,    \* bound: graceful shutdowns
    NoNote       \* not a message

ASSUME NotificationsAssumption ==
    /\ Malformed \subseteq Notes
    /\ Unsendable \subseteq Notes
    /\ Volatile \subseteq Notes
    /\ IsFiniteSet(Handlers)
    /\ MaxAttempts \in Nat \ {0}
    /\ MaxFaults \in Nat
    /\ MaxStops \in Nat
    /\ NoNote \notin Notes

VARIABLES
    \* RabbitMQ
    place,       \* where the broker has a message
    rejections,  \* the count of its x-death entry for the main queue
    dlq,         \* notifications.dlq: category and message
    \* the process
    conn,        \* no connection, connected, or connected and subscribed
    consuming,   \* the flag behind /ready
    closing,     \* a shutdown is under way
    \* the handlers
    pc,          \* where handler h is
    note,        \* the message it works on
    attempt,     \* previous failed attempts, as read on receipt
    category,    \* why the message goes to the DLQ
    held,        \* handlers whose delivery is still theirs to settle
    \* history and budgets
    sends,       \* requests made to Telegram
    delivered,   \* times the message showed up in the chat
    unsure,      \* sends that reached the chat although the answer failed
    refused,     \* messages that Telegram has refused: 4xx, and not 429
    wiped,       \* messages the broker lost in a restart
    faults,
    stops

broker  == <<place, rejections, dlq>>
process == <<conn, consuming, closing>>
work    == <<pc, note, attempt, category, held>>
history == <<sends, delivered, unsure, refused, wiped>>
vars    == <<broker, process, work, history, faults, stops>>

\* Where a message is.  The fifth category of the code, "unexpected", needs an error
\* that the Telegram sender never throws.
Places     == {"unpublished", "main", "unacked", "retry", "gone"}
Categories == {"invalid-payload", "validation", "permanent", "exhausted"}
Conns      == {"down", "up", "consuming"}
PCs        == {"idle", "send", "ack", "drop", "dead"}

\* HTTP statuses of sendMessage; 0 stands for a timeout or a network error, 302
\* for an answer that is neither success nor error (also 200 with ok: false).
Answers == {0, 200, 302, 400, 429, 500}

--------------------------------------------------------------------------------
(* One message: parse, validate, send, decide *)

\* The main queue's x-death count, read from the headers of the delivery.
getAttemptCount(n) == rejections[n]

\* classifyFailure: whether an attempt that failed with status s may be repeated.
classifyFailure(s) ==
    IF s = 429 THEN "transient"
    ELSE IF s >= 500 THEN "transient"
    ELSE IF s >= 400 THEN "permanent"
    ELSE "transient"

\* Does Telegram post the message although (or because) it answers s?
Posts(s) == IF s = 200 THEN {TRUE} ELSE IF s \in {0, 500} THEN BOOLEAN ELSE {FALSE}

exhausted_offByOne(a) == a > MaxAttempts
exhausted_early(a) == a + 2 >= MaxAttempts
exhausted(a) == a + 1 >= MaxAttempts

\* What handler h does next after the answer s: the decision of execute.
decision_requeue(h, s) == IF s = 200 THEN "ack" ELSE "requeue"
decision_ignoresSuccess(h, s) ==
    IF classifyFailure(s) = "permanent" \/ exhausted(attempt[h]) THEN "dead" ELSE "drop"
decision(h, s) ==
    IF s = 200 THEN "ack"
    ELSE IF classifyFailure(s) = "permanent" \/ exhausted(attempt[h]) THEN "dead"
    ELSE "drop"

\* A message of the main queue is handed to a free handler, which parses and
\* validates it; what fails is to be dead-lettered without being sent.
Receive(h, n) ==
    /\ conn = "consuming"
    /\ pc[h] = "idle"
    /\ place[n] = "main"
    /\ place' = [place EXCEPT ![n] = "unacked"]
    /\ pc' = [pc EXCEPT ![h] = IF n \in Malformed \cup Unsendable THEN "dead" ELSE "send"]
    /\ note' = [note EXCEPT ![h] = n]
    /\ attempt' = [attempt EXCEPT ![h] = getAttemptCount(n)]
    /\ category' = [category EXCEPT ![h] =
                      CASE n \in Malformed -> "invalid-payload"
                        [] n \in Unsendable \ Malformed -> "validation"
                        [] OTHER -> "none"]
    /\ held' = held \cup {h}
    /\ UNCHANGED <<rejections, dlq, process, history, faults, stops>>

\* sender.send returns or throws, and execute decides.
Send(h, s) ==
    LET n == note[h]
    IN  /\ pc[h] = "send"
        /\ sends' = [sends EXCEPT ![n] = @ + 1]
        /\ \E posted \in Posts(s) :
              /\ delivered' = [delivered EXCEPT ![n] = IF posted THEN @ + 1 ELSE @]
              /\ unsure' = [unsure EXCEPT ![n] = IF posted /\ s # 200 THEN @ + 1 ELSE @]
        /\ refused' = IF s \in (400 .. 499) \ {429} THEN refused \cup {n} ELSE refused
        /\ pc' = [pc EXCEPT ![h] = decision(h, s)]
        /\ category' = [category EXCEPT ![h] =
                          CASE decision(h, s) # "dead" -> "none"
                            [] decision(h, s) = "dead" /\ classifyFailure(s) = "permanent" -> "permanent"
                            [] OTHER -> "exhausted"]
        /\ UNCHANGED <<broker, process, note, attempt, held, wiped, faults, stops>>

\* The handler returns; its message, if still its own, goes where it was sent.
Settle_zombies(h, where) ==
    /\ place' = [place EXCEPT ![note[h]] = where]
    /\ pc' = [pc EXCEPT ![h] = "idle"]
    /\ note' = [note EXCEPT ![h] = NoNote]
    /\ attempt' = [attempt EXCEPT ![h] = 0]
    /\ category' = [category EXCEPT ![h] = "none"]
    /\ held' = held \ {h}
Settle(h, where) ==
    /\ place' = IF h \in held THEN [place EXCEPT ![note[h]] = where] ELSE place
    /\ pc' = [pc EXCEPT ![h] = "idle"]
    /\ note' = [note EXCEPT ![h] = NoNote]
    /\ attempt' = [attempt EXCEPT ![h] = 0]
    /\ category' = [category EXCEPT ![h] = "none"]
    /\ held' = held \ {h}

\* ConsumerStatus.ACK.
Ack(h) ==
    /\ pc[h] = "ack"
    /\ Settle(h, "gone")
    /\ UNCHANGED <<rejections, dlq, process, history, faults, stops>>

\* ConsumerStatus.DROP: nack without requeue, dead-lettered to the retry queue.
Reject(h) ==
    rejections' = IF h \in held THEN [rejections EXCEPT ![note[h]] = @ + 1] ELSE rejections

Drop(h) ==
    /\ pc[h] = "drop"
    /\ Settle(h, "retry")
    /\ Reject(h)
    /\ UNCHANGED <<dlq, process, history, faults, stops>>

\* deadLetterPublisher.publish is confirmed; then the message is acknowledged.
DeadLetter(h) ==
    /\ pc[h] = "dead"
    /\ conn # "down"
    /\ dlq' = dlq \cup {<<category[h], note[h]>>}
    /\ pc' = [pc EXCEPT ![h] = "ack"]
    /\ UNCHANGED <<place, rejections, process, note, attempt, category, held,
                   history, faults, stops>>

\* It fails, perhaps after the broker stored the copy: the error escapes from the
\* handler, and requeue: false rejects the message into the retry queue.
DeadLetterFails(h) ==
    /\ pc[h] = "dead"
    /\ faults < MaxFaults
    /\ faults' = faults + 1
    /\ dlq' \in {dlq, dlq \cup {<<category[h], note[h]>>}}
    /\ Settle(h, "retry")
    /\ Reject(h)
    /\ UNCHANGED <<process, history, stops>>

--------------------------------------------------------------------------------
(* The broker and the connection *)

\* A producer publishes to the exchange.  The main queue is bound to it: order-core
\* declares only the exchange, so this assumes that notifications was started before.
Publish(n) ==
    /\ place[n] = "unpublished"
    /\ place' = [place EXCEPT ![n] = "main"]
    /\ UNCHANGED <<rejections, dlq, process, work, history, faults, stops>>

\* The TTL of the retry queue sends a message back to the main exchange.
Expire(n) ==
    /\ place[n] = "retry"
    /\ place' = [place EXCEPT ![n] = "main"]
    /\ UNCHANGED <<rejections, dlq, process, work, history, faults, stops>>

\* Deliveries that nobody can settle any more are ready again.
Redelivered == [n \in Notes |-> IF place[n] = "unacked" THEN "main" ELSE place[n]]

Connect ==
    /\ conn = "down"
    /\ conn' = "up"
    /\ UNCHANGED <<broker, consuming, closing, work, history, faults, stops>>

\* The consumer (re)subscribes and emits "ready"; nothing ever resets the flag.
Subscribe_onlyOnce ==
    /\ conn = "up"
    /\ ~closing
    /\ ~consuming
    /\ conn' = "consuming"
    /\ consuming' = TRUE
    /\ UNCHANGED <<broker, closing, work, history, faults, stops>>
Subscribe ==
    /\ conn = "up"
    /\ ~closing
    /\ conn' = "consuming"
    /\ consuming' = TRUE
    /\ UNCHANGED <<broker, closing, work, history, faults, stops>>

\* The connection drops; the handlers carry on.
ConnectionLost ==
    /\ conn # "down"
    /\ faults < MaxFaults
    /\ faults' = faults + 1
    /\ conn' = "down"
    /\ place' = Redelivered
    /\ held' = {}
    /\ UNCHANGED <<rejections, dlq, consuming, closing, pc, note, attempt, category,
                   history, stops>>

\* The broker restarts: messages without delivery mode 2 do not survive it.
BrokerRestart ==
    LET lost == {n \in Volatile : place[n] \in {"main", "unacked", "retry"}}
    IN  /\ faults < MaxFaults
        /\ faults' = faults + 1
        /\ conn' = "down"
        /\ place' = [n \in Notes |-> IF n \in lost THEN "gone" ELSE Redelivered[n]]
        /\ wiped' = wiped \cup lost
        /\ held' = {}
        /\ UNCHANGED <<rejections, dlq, consuming, closing, pc, note, attempt,
                       category, sends, delivered, unsure, refused, stops>>

\* Every handler is gone with its process.
Reset ==
    /\ conn' = "down"
    /\ consuming' = FALSE
    /\ closing' = FALSE
    /\ pc' = [h \in Handlers |-> "idle"]
    /\ note' = [h \in Handlers |-> NoNote]
    /\ attempt' = [h \in Handlers |-> 0]
    /\ category' = [h \in Handlers |-> "none"]
    /\ held' = {}

Crash_drops ==
    /\ faults < MaxFaults
    /\ faults' = faults + 1
    /\ place' = [n \in Notes |-> IF place[n] = "unacked" THEN "gone" ELSE place[n]]
    /\ Reset
    /\ UNCHANGED <<rejections, dlq, history, stops>>
Crash ==
    /\ faults < MaxFaults
    /\ faults' = faults + 1
    /\ place' = Redelivered
    /\ Reset
    /\ UNCHANGED <<rejections, dlq, history, stops>>

\* SIGTERM: consumer.close() ends the subscription and waits for the handlers.
Shutdown ==
    /\ ~closing
    /\ stops < MaxStops
    /\ stops' = stops + 1
    /\ closing' = TRUE
    /\ conn' = IF conn = "consuming" THEN "up" ELSE conn
    /\ UNCHANGED <<broker, consuming, work, history, faults>>

\* All handlers have returned: the process exits and another one is started.
Restart ==
    /\ closing
    /\ \A h \in Handlers : pc[h] = "idle"
    /\ place' = Redelivered
    /\ Reset
    /\ UNCHANGED <<rejections, dlq, history, faults, stops>>

--------------------------------------------------------------------------------
Init ==
    /\ place = [n \in Notes |-> "unpublished"]
    /\ rejections = [n \in Notes |-> 0]
    /\ dlq = {}
    /\ conn = "down"
    /\ consuming = FALSE
    /\ closing = FALSE
    /\ pc = [h \in Handlers |-> "idle"]
    /\ note = [h \in Handlers |-> NoNote]
    /\ attempt = [h \in Handlers |-> 0]
    /\ category = [h \in Handlers |-> "none"]
    /\ held = {}
    /\ sends = [n \in Notes |-> 0]
    /\ delivered = [n \in Notes |-> 0]
    /\ unsure = [n \in Notes |-> 0]
    /\ refused = {}
    /\ wiped = {}
    /\ faults = 0
    /\ stops = 0

HandlerStep(h) ==
    \/ \E s \in Answers : Send(h, s)
    \/ Ack(h)
    \/ Drop(h)
    \/ DeadLetter(h)

Next ==
    \/ \E n \in Notes : Publish(n) \/ Expire(n)
    \/ \E h \in Handlers :
          \/ \E n \in Notes : Receive(h, n)
          \/ HandlerStep(h)
          \/ DeadLetterFails(h)
    \/ Connect \/ Subscribe \/ ConnectionLost \/ BrokerRestart
    \/ Crash \/ Shutdown \/ Restart

Spec == Init /\ [][Next]_vars

\* fetch has a timeout, the client reconnects and resubscribes by itself, and
\* the broker delivers and expires; nobody has to publish anything.
Fairness ==
    /\ \A h \in Handlers : WF_vars(HandlerStep(h)) /\ WF_vars(\E n \in Notes : Receive(h, n))
    /\ \A n \in Notes : WF_vars(Expire(n))
    /\ WF_vars(Connect)
    /\ WF_vars(Subscribe)
    /\ WF_vars(Restart)

FairSpec == Spec /\ Fairness

--------------------------------------------------------------------------------
(* Properties *)

\* Every message, handler, connection and counter has its type.
TypeOK ==
    /\ place \in [Notes -> Places]
    /\ rejections \in [Notes -> Nat]
    /\ dlq \subseteq Categories \X Notes
    /\ conn \in Conns
    /\ consuming \in BOOLEAN
    /\ closing \in BOOLEAN
    /\ pc \in [Handlers -> PCs]
    /\ note \in [Handlers -> Notes \cup {NoNote}]
    /\ attempt \in [Handlers -> Nat]
    /\ category \in [Handlers -> Categories \cup {"none"}]
    /\ held \subseteq Handlers
    /\ sends \in [Notes -> Nat]
    /\ delivered \in [Notes -> Nat]
    /\ unsure \in [Notes -> Nat]
    /\ refused \subseteq Notes
    /\ wiped \subseteq Notes
    /\ faults \in Nat
    /\ stops \in Nat

Poison == Malformed \cup Unsendable

DeadLettered(n) == \E c \in Categories : <<c, n>> \in dlq

\* README "Delivery guarantees": a message leaves the queues only after it was
\* delivered or handed over to the DLQ; the one exception is a restart of the
\* broker that finds it stored without delivery mode 2.
NoNotificationLost ==
    \A n \in Notes : place[n] = "gone" => delivered[n] > 0 \/ DeadLettered(n) \/ n \in wiped

\* The attempt budget holds up to one more send for each crash, lost connection
\* or failed DLQ publication, none of which the x-death count knows about.
AttemptBudget == \A n \in Notes : sends[n] <= MaxAttempts + faults

\* A message shows up twice in the chat only after an ambiguous answer or a
\* fault; a graceful shutdown is neither.
DuplicatesExplained == \A n \in Notes : delivered[n] <= 1 + unsure[n] + faults

\* Why a message is in the DLQ: "exhausted" means the whole budget was spent,
\* "permanent" that Telegram refused it, the other two that it was never sent.
DeadLettersJustified ==
    \A d \in dlq :
        /\ d[1] = "exhausted" => sends[d[2]] >= MaxAttempts
        /\ d[1] = "permanent" => d[2] \in refused
        /\ d[1] \in {"invalid-payload", "validation"} => d[2] \in Poison /\ sends[d[2]] = 0

\* Every published message is eventually settled, however Telegram answers.
EventuallySettled == \A n \in Notes : place[n] = "main" ~> place[n] = "gone"

\* README "Delivery guarantees": the loss of messages is excluded.
LossExcluded == \A n \in Notes : place[n] = "gone" => delivered[n] > 0 \/ DeadLettered(n)

--------------------------------------------------------------------------------
(* The inductive invariant behind the safety properties *)

\* A handler knows its message, and how it came to its decision.
HandlerOK(h) ==
    /\ pc[h] = "idle" => h \notin held
    /\ pc[h] # "idle" => note[h] \in Notes /\ attempt[h] <= rejections[note[h]]
    /\ pc[h] \in {"send", "drop"} => note[h] \notin Poison
    /\ pc[h] = "ack" => delivered[note[h]] > 0 \/ DeadLettered(note[h])
    /\ pc[h] = "dead" =>
          /\ category[h] \in Categories
          /\ category[h] = "exhausted" => sends[note[h]] >= MaxAttempts
          /\ category[h] = "permanent" => note[h] \in refused
          /\ category[h] \in {"invalid-payload", "validation"} => note[h] \in Poison

\* A delivery belongs to one handler, which read the current x-death count.
HolderOK(h) ==
    LET n == note[h]
    IN  /\ place[n] = "unacked"
        /\ attempt[h] = rejections[n]
        /\ pc[h] = "drop" => ~exhausted(attempt[h])
        /\ pc[h] # "send" /\ n \notin Poison => sends[n] > rejections[n]

HandlersInv ==
    /\ \A h \in Handlers : HandlerOK(h)
    /\ \A h \in held : HolderOK(h)
    /\ \A g, h \in held : note[g] = note[h] => g = h

\* A message that can be sent is rejected only after it was; others never are sent.
SendsInv == \A n \in Notes : IF n \in Poison THEN sends[n] = 0 ELSE sends[n] >= rejections[n]

\* Handlers about to send a message that is no longer theirs.
Zombies(n) == {h \in Handlers \ held : note[h] = n /\ pc[h] = "send"}

PastSend(n) == \E h \in held : note[h] = n /\ pc[h] # "send"
Acking(n)   == \E h \in held : note[h] = n /\ pc[h] = "ack"

\* How many more sends and deliveries n has before it if nothing goes wrong.
SendsLeft(n) ==
    LET attemptsLeft == IF rejections[n] < MaxAttempts THEN MaxAttempts - rejections[n] ELSE 1
    IN  IF place[n] = "gone" THEN 0
        ELSE IF PastSend(n) THEN attemptsLeft - 1
        ELSE attemptsLeft
DeliveriesLeft(n) == IF place[n] = "gone" \/ Acking(n) THEN 0 ELSE 1

\* What was done, what stale handlers may still do and what lies ahead together
\* stay within the budget.
BudgetInv ==
    \A n \in Notes :
        /\ sends[n] + Cardinality(Zombies(n)) + SendsLeft(n) <= MaxAttempts + faults
        /\ delivered[n] + Cardinality(Zombies(n)) + DeliveriesLeft(n) <= 1 + unsure[n] + faults

IndInv ==
    /\ TypeOK
    /\ HandlersInv
    /\ SendsInv
    /\ BudgetInv
    /\ NoNotificationLost
    /\ DeadLettersJustified
================================================================================
