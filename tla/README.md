# profi-notifications: TLA+ models, checks and proofs

profi-notifications polls the order board of profi.ru, has every new order
assessed by a language model and posts the suitable ones to a Telegram chat. Six
services talk through RabbitMQ:

    scheduler --parse.requests--> parser-worker --parse.results--> order-core-service
    order-core-service --assess.requests--> llm --assess.results--> order-core-service
    order-core-service --exchange "notifications"--> notifications --> Telegram
    auth-worker --gRPC cookies--> parser-worker

All of them run as one container each with `restart: unless-stopped`; RabbitMQ
keeps its queues on a volume, order-core keeps its state in PostgreSQL, auth-worker
keeps its cookies in a file.

## Inventory

| Component | State | Operations | What is hard | What makes it correct |
|---|---|---|---|---|
| **order-core-service** | tables `orders` and `outbox`; open transactions of up to `prefetch` handlers per replica; claims of the relays | ingest a batch, apply a verdict, dead-letter, claim / publish / mark | handlers interleave between statements; redelivery while the first handler still works; publish before commit; deadlocks of crossed batches | nothing accepted is lost; an order and its request appear together; a notification only for a verdict above the threshold; nothing starts over |
| **notifications** | main, retry and dead-letter queue; `x-death` count; handlers between receipt, send and acknowledgement; readiness flag | receive, send, ack, reject to retry, dead-letter, reconnect, shut down | crash between send and ack; ambiguous answers of Telegram; failure of the DLQ publication; handlers that outlive their connection | no loss; sends and duplicates bounded by the faults that explain them; the DLQ tells the truth; every message settles |
| **llm** | none of its own; retry queue and DLQ in the broker | assess a batch, publish verdicts, re-publish the orders that failed transiently | part of a batch fails; crash between the retry publication and the ack; swallowed exceptions | every requested order ends answered, skipped, failed for good or in the DLQ |
| **auth-worker** | cookie file, status file, advisory lock on a lock file | refresh cycle (load, renew, touch, verify, save), report and pause, `GetCookies` | crash between renew and save; the lock is held across two HTTP calls; a touch that fails after the renewal; an operator who replaces the file; pauses longer than a token lives | the token expires only after a failed cycle; no write goes back to an older token or session; the lock is always released; the loop recovers by itself |
| **parser-worker** | none; one request at a time | fetch cookies, page through the board, publish the batch | the board changes between two pages; any failure drops the request; publication without confirmation; no timeout on HTTP calls | a walk misses an order within its reach only when another was placed in its way; what is missed or lost is made up for by the next poll |
| **scheduler** | none | declare the queue, publish a parse command per tick | commands are not persistent | polling never ends |
| **notification contract** (llm, order-core, notifications) | none | build and cut the text, forward the notification, validate it | UTF-16 units, escaping before cutting, renamed and absent fields | the text fits, keeps header and score, and arrives as it was sent |
| health, metrics, logging, configuration, prompts, profile | none that others read | | | out of scope, except the readiness flag of notifications |

The hazards these give rise to are listed in `PROJECT.json`, each at the line
where it bites, with the properties that would catch it.

## Modules

| Module | Models |
|---|---|
| `OrderCore` | order-core-service with its broker and database; parser-worker and llm as its neighbours |
| `TransactionalOutbox` | what order-core promises: orders, the events they cause, and nothing else |
| `MCOrderCore` | instances of `OrderCore` for TLC |
| `OrderCoreProofs` | its theorems |
| `Notifications` | the notifications service with its queues, connection, process and Telegram |
| `MCNotifications` | instances of `Notifications` for TLC |
| `NotificationsProofs` | its theorems |
| `Llm` | the llm service with its queues |
| `MCLlm` | instances of `Llm` for TLC |
| `LlmProofs` | its theorems |
| `NotificationText`, `MCNotificationText` | the text of a notification and its way through llm, order-core and notifications |
| `NotificationTextProofs` | its theorems, and what the functions on texts compute |
| `AuthWorker`, `MCAuthWorker` | auth-worker with its files and lock, profi.ru's sessions, the operator and time |
| `AuthWorkerProofs` | its theorems |
| `Polling`, `MCPolling` | scheduler, parser-worker, and order-core and llm as far as they carry an order to the queue of llm; services start and stop, queues may not exist yet |
| `PollingProofs` | its theorems |

### OrderCore

A *handler* is one message in process: FastStream runs up to `prefetch` of them per
replica, and a step is one database statement, publication or acknowledgement, the
points at which the event loop or another replica may interleave. `Deliver` is
guard's parse step (`Entry` says where it leads; that a body which is no JSON object fails
before guard and is requeued is left out, no service sends one), `IngestNext` one turn of the loop of
`IngestOrders.handle`, `Get` / `SetStatus` the two halves of
`ProcessAssessment.handle`, `Commit` the unit of work, `DeadLetter`, `Ack` and
`Nack` the ways out of `guard`. `Abort` stands for any exception or crash in
between, `ConnectionLost` for a broker that redelivers while the handler lives on:
the handler is then no longer in `held` and can settle nothing.

PostgreSQL is READ COMMITTED. Writes stay in `wrote` and `events` until `Commit`.
An INSERT waits for an open INSERT of the same key and an UPDATE for an open UPDATE
of the same row (`WaitsFor`); a cycle of waiting transactions is broken by failing
one of them (`DeadlockAbort`). `INSERT ... ON CONFLICT DO NOTHING` is `insert_new`
for orders and `AddedRows` for the outbox.

A relay claims committed pending rows nobody has locked (`ClaimPending`, the batch
size included), publishes them one by one (`Publish`), then marks and commits
(`MarkPublished`). `RelayAbort` rolls back; what was published stays published.

Data are abstracted: an order is its identity `(source, external_id)`, an outbox row
its `dedup_key`, a verdict its order and score, and a notification the score it was
built from, which tells the texts of different verdicts apart. `owed`, `sent` and
the budgets are history that the code does not have. The status `FAILED` is never
assigned by the code and left out. The broker does not restart here, although
`parse.results` is transient: `NoMessageLost` is about crashes and redelivery, and
`Polling` has the restart.

The neighbours: the parser publishes any of `Batches`; llm answers a request, answers
it and crashes (so that the request is assessed once more, perhaps with another
score), or publishes nothing. Besides, a malformed message or a verdict with a score
out of range may arrive; no service here sends one, but guard exists for them.

### Notifications

A handler takes a message (`Receive` parses and validates it and reads its `x-death`
count), sends it (`Send`, for every answer Telegram may give; 0 is a timeout), and
settles it by `Ack`, `Drop` (rejection into the retry queue) or `DeadLetter`
followed by `Ack`. `DeadLetterFails` is the publication that fails or is never
confirmed: the error leaves the handler and `requeue: false` turns it into a
rejection. `Expire` is the TTL of the retry queue. `ConnectionLost`, `BrokerRestart`,
`Crash`, `Shutdown` and `Restart` are the life of the process; after the first two
the handlers carry on as zombies whose deliveries are no longer theirs.

Assumptions: a 200 means that Telegram posted the message; a timeout or a 5xx may
have posted it (`Posts`); messages prefetched but not yet given to a handler count
as being on the queue; the broker publishes to the DLQ what it confirms; notifications
was started before the first publication, since order-core declares only the exchange and
a message that meets no queue is dropped. `Volatile`
are the messages published without delivery mode 2, which is how order-core
publishes them; `scripts/publish-sample.ts` publishes durable ones, so both kinds
exist. The dead-letter category `unexpected` is left out: it takes an error other
than the two that the Telegram sender throws. `refused` is history: the messages that
Telegram answered with a permanent error, against which `DeadLettersJustified` holds the
category `permanent`.

### Llm

An envelope is the set of its orders. order-core puts one order into each
(`assess_request_payload`), the wire format allows any number; an envelope that lists
an order twice is not modelled, and the orders of an envelope are assessed in any
order, where the code goes through its list. With the default prefetch of 1 a handler
is a replica. `Deliver` parses the envelope, `Assess` and `AssessFails` are the call to
the model, for every score and every failure it may give (`classify` sorts them),
`PublishResult` / `PublishResultFails` the verdict, and `Done` is the end of
`_assess_one` with what `handle` does about it. `Republish` sends the failed orders to
the retry queue (`Resend`), then the message is acknowledged (`Ack`); when that
publication raises, the exception leaves the subscriber and the whole message is
rejected into the DLQ (`Reject`). A publication that raises may have reached the
broker. `Expire` is the TTL of the retry queue; `Crash` and `ConnectionLost` give the
message back, the second while the handler goes on.

Assumed: the durable queues exist, which is so once the service has been started
(`_declare_queues` runs after the subscriber). `requests`, `skipped`, `failed` and
`unpublished` are history: the log has it, the service does not.

### NotificationText

A text is a sequence of characters of the kinds that the code tells apart: plain ones,
astral ones (two UTF-16 units), blanks, `&` (for every character that `html.escape`
expands) and, as one character each, the tags and the score line. `MaxTextLength` is
scaled down accordingly. `Used` is the running sum of code units, of which `tg_len` is
the last; `truncate` is `_truncate` (`Kept` is its loop: the characters in front of the
first one that does not fit), `from_price` and `Budget` the price as far as it is shown
(`Joined` leaves out empty parts), `build_notification` the whole text. A command is a
record, a message a function from the names of its JSON fields, so that renaming
(`alias`), leaving out what is `None` (`dump`) and reading by alias or name (`parse`)
are what the code does and not the identity. `PublishResult`, `Forward` and `Receive`
are the three services; `WellTyped` is the zod schema, which refuses a null, and
`Sendable` the validation of `createNotification`.

### AuthWorker

Daemons run the loop and serve `GetCookies`; a one-shot is a process started with
`PROFI_RUN_ONCE=1`. A jar is the session it belongs to and its freshest token, of which
the remaining lifetime and the status `touched` count; 0 also stands for a jar without a
readable token. `Wake`, `Acquire` / `LockTimedOut`, `Load`, `Renew`, `Touch`, `Save` and
`Report` are the cycle, with `LoadFails`, `RenewRejected`, `RenewFails`, `TouchFails` and
`SaveFails` its errors; `Finish` is the deferred release of the lock on every return, and
`Interval` the pause each outcome leads to. A failed touch is swallowed, but its cookies
have been merged before (`TouchFails`). `Tick` lets time pass while processes sleep, wait
for the lock or for an answer, never longer than their timeouts allow.

`TimingAssumption` is the relation between the settings that the safety of the token
needs: `REFRESH_BEFORE >= CHECK_INTERVAL + LOCK_TIMEOUT + 2 * REQUEST_TIMEOUT`. The
defaults satisfy it with 30 seconds to spare (180 against 60 + 30 + 2 * 30). After a
failed renewal the pause (300 s) is longer than that, which is why
`NeverExpiresUnprovoked` excepts it.

Assumed: the renew call succeeds exactly while profi.ru honours the login session (the
comment at `renewer.go:76` has a stale session show as a failed touch after a successful
renewal: here it does when the session ends between the two calls); the operator uploads
cookies only when the status file asks for a login, without taking the lock, in one step,
and the cookies are those of a fresh login, with a touched token that has its whole life
before it. An upload at any other moment can be overwritten by a cycle that has already
loaded the old file. One such moment is of the service's own making: a cycle writes the
status after it has let go of the lock (`Report`), so that it may ask for a login which
the operator has made in the meantime. The operator then logs in once more while another
cycle is renewing the first upload, and that cycle puts the older session over the newer
one. The history variables `judged` (the session an outcome is about) and `misled` (a
status asked for a login already made) single this out: it is the only exception in
`FileNeverGoesBack`, and it takes three logins. The comment on `tryTouch`
(`renewer.go:79`, "The renewed token is already saved") is ahead of the code: `Save`
comes after both calls, so that a crash during the touch call loses the renewed token;
`SessionKeptAlive` shows that the loop recovers from it.

### Polling

`Tick` publishes a parse command; `Receive`, `Cookies`, `Fetch`, `Publish`, `Ack` and
`Nack` are parser-worker's loop, of which `Fail` is any failing call. scheduler asks for
the board with `sort=DEFAULT` and not with `sort=DATE`; the samples in the repository
(`parser-worker/README.md`) show orders listed by a score, and a cursor that holds one. So the board is a
function `rank` from orders to ranks, 0 for those that are not listed; `Fetch` reads the
`PageSize` orders that rank highest below the cursor, and the cursor becomes the rank of
the last of them. Between two pages an order may be posted at any rank (`Post`), change
its rank (`Rerank`) or leave (`Withdraw`). A walk can therefore miss an order: one that is
placed under the cursor pushes another past the last page, and one that moves from under
the cursor to above it is never shown. `window` holds the orders a walk should see,
`shifts` counts the changes that explain a miss. An order may also be shown twice; `found`
is a set, since order-core inserts an order once. Assumed of profi.ru: no two orders rank
equal, and a cursor means the orders that rank below it when the page is asked for.

`Ingest`, `Relay` and `Assess` are order-core and llm
in one step each (`OrderCore` and `Llm` have their steps). `Start` declares the queues
of a service; a publication to a queue that nobody has declared yet vanishes, and the
outbox row is marked all the same (`vanished`). `Stop` and `BrokerRestart` are the
faults; a restart of the broker empties `parse.requests` and `parse.results`, whose
messages are not persistent, and ends parser-worker. All commands are alike, so that
their number is their queue; batches on `parse.results` that are alike count once.

## Runs

`tlc -config <cfg> <module>`; sizes are distinct states.

| Run | Instance | Shows |
|---|---|---|
| `core_intake` | 2 orders in two crossed batches, 2 handlers, 1 relay claiming 2 rows, one valid and one out-of-range score, 2 inputs, 2 faults (1.05 M) | `TypeOK`, `OrdersAndRequestsTogether`, `NoMessageLost`, and `IndInv`, the invariant the proofs rest on |
| `core_verdicts` | 1 order, contradictory scores 40 / 80 around the threshold 60, 2 handlers, 2 relays, one input, one fault and one relay fault, fair (37 k) | `NotificationsJustified`, `NoUnknownVerdict`, `DispatchCount`, `NothingStartsOver`, `ImplementsPromise` (refinement of `TransactionalOutbox`), and the liveness properties `OutboxDrains` and `MessagesHandled` |
| `core_deadlock` | crossed batches delivered up to 3 times, 1 fault, fair | `MessagesHandled`: deadlocks resolve and every batch is stored |
| `delivery` | 2 messages (one malformed, one volatile), 2 handlers, 3 attempts, 2 faults, 1 shutdown, fair (773 k) | `TypeOK`, `NoNotificationLost`, `AttemptBudget`, `DuplicatesExplained`, `DeadLettersJustified`, `IndInv`, and `EventuallySettled` |
| `llm_assess` | 2 orders, an envelope `{o1, o2}`, `{o1}` or a malformed one, 2 handlers, scores on both sides of the threshold, 1 fault, fair (44 k) | `TypeOK`, `NoOrderLost`, `VerdictsExplained`, the invariants behind them, `IndInv` and `VerdictInv`, and `SettledOrTriedAgain` |
| `texts` | titles up to 2 characters, summaries up to 3, all prices of empty, blank and plain parts, limit 14 (124 k) | `ForwardedIntact`, `FitsWithHeaderAndScore`, `SummaryCutAsLittleAsPossible`, and `IndInv`, of which `TypeOK` is a part |
| `auth` | a daemon, a one-shot, a client; lifetime 7, threshold 5, pauses 2 / 2 / 10, calls and lock 1 tick; 2 sessions, 2 faults, fair (314 k) | `TypeOK`, `NeverExpiresUnprovoked`, `FileNeverGoesBack`, `IndInv`, `LockReleased`, `SessionKeptAlive` |
| `polling` | pages of one order, 2 pages, 3 orders on 3 ranks, 2 changes of the board, one waiting message per queue, 1 fault, fair (832 k) | `TypeOK`, `MissesExplained`, `RequestSafe`, `IndInv`, `EventuallyAssessed` |

Runs in which the code disagrees with what the repository says of it (TLC finds the
counterexample):

| Run | Says | Does |
|---|---|---|
| `core_racing_verdicts` | a repeated verdict is a no-op (`domain/status.py`) | `get` takes no lock and `set_status` does not look at the status: two verdicts that are read before either commits are both applied, and the order may end `NO_NOTIFY` with its notification on the way |
| `core_invalid_score` | an invalid payload is dead-lettered, not looped (README, `reliability.py`) | the range of the score is checked inside `handle`, where guard does not catch it: requeued for ever |
| `loss` | loss of messages is excluded (notifications README) | notifications are published transient and do not survive a restart of the broker |
| `llm_unpublished` | a failed publication of a verdict is transient and retried (`test_assess_orders.py`, with a fake that raises `TransientError`) | what the real publisher raises is no `TransientError`: the order is logged, acknowledged and neither answered nor retried |

`/ready` of notifications is a smaller disagreement of the same kind, without a run: the
flag behind it is never reset, so that a reconnected process reports an active consumer
before it has subscribed again (`main.ts:91`).

### Bounds

Two handlers and two relays are the smallest number that race, and the proofs cover
any number. Two orders in opposite order are needed for a deadlock, one order with
two scores for racing verdicts. Two faults allow a fault during the recovery from
another one. In `llm_assess`, where liveness is checked too, there is one envelope and
one fault; with two envelopes (463 k states) or two faults besides (5.7 M) the safety
properties hold as well. An envelope of two orders is the smallest of which a part can
fail. `MaxAttempts` 3 distinguishes a first, a middle and a last attempt. The
bounds `MaxInputs`, `MaxFaults`, `MaxRelayFaults` and `MaxStops` cap only what the
environment does. When they are used up and the queues are empty the system rests,
which is why deadlock checking is off there; auth-worker and the polling never rest, and
there it is on. In `auth` the settings are the defaults in ticks of 30 seconds (pauses
60, 60 and 300 s, calls and lock 30 s), except that the threshold is lowered from 180 to
150 s, so that `TimingAssumption` holds with equality and an off-by-one shows, and that
the lifetime of a token is shortened. With three logins (1.06 M states) the safety
properties of `auth` and `IndInv` hold as well, and there the exception of
`FileNeverGoesBack` does occur; liveness takes too long at that size, and the proofs cover
any number of logins. In `texts` the limit is such that some headers do not fit, some
summaries fit, and some are cut, in front of and behind blanks, entities and astral
characters. In `polling` three orders and two pages of
one leave an order out of reach, three ranks let an order land above, between and below
the others, and with two changes a posting under the cursor does push an order out of a
walk; the board may hold any number of orders at the start. One fault of any kind may
strike at any point.
Handlers (and relays) are symmetric; symmetry is used in safety runs only.

### Fairness

order-core: the event loop runs every ready handler, the broker delivers to free
consumers and relays poll for ever, hence weak fairness of each. A statement that
waits for a row lock is woken when the holder ends, before a redelivered message can
come round again, hence strong fairness of the two statements that can be blocked.
Nothing is assumed of parser, llm or faults.
notifications: handlers progress (fetch has a timeout), the client reconnects and
resubscribes by itself, the broker delivers and expires, a stopped container is
started again. Nothing is assumed of what Telegram answers or of who publishes.
llm: handlers progress (the client of the model has a timeout) and the TTL expires; the
queues are first in, first out, so that a message cannot be passed over for ever by
others that come round again, hence strong fairness of its delivery. Nothing is
assumed of what the model answers, which is why an order may be retried for ever.
auth-worker: the loop goes on, calls end by their timeout, a client that has the lock
lets go of it; time is not stopped by clients that keep asking (strong fairness of
`Tick`), and a process that polls a lock which is free again and again gets it (strong
fairness of `Acquire`; flock promises no order, so this is an assumption on chance).
Nothing is assumed of profi.ru's sessions or the operator.
polling: Docker restarts what stopped, the schedule ticks, consumers and relay go on, and
calls to auth-worker and profi.ru return. The last is an assumption that the code does not
ensure: the HTTP client of parser-worker has no timeout (`profi/mod.rs:35`), and a call
that hangs ends all polling while the health file stays fresh. Weak fairness of some
service starting, of some batch, row or request being dealt with is enough; nothing is
assumed of the faults or of when and how the board changes. `EventuallyAssessed` is about
a board that comes to rest, as it does when `MaxChanges` is used up.

## Proofs

`tlapm OrderCoreProofs.tla`, and likewise `NotificationsProofs`, `LlmProofs`,
`NotificationTextProofs`, `AuthWorkerProofs` and `PollingProofs`, prove for every value of
the constants that satisfies the modules' assumptions (any sets of orders, envelopes,
scores, handlers, relays and processes, in `Notifications` a finite set of handlers; texts
of any length; any settings in the relation `TimingAssumption`; any page size, number of
pages and changes of the board):

* every invariant of the passing runs, the inductive ones included;
* the action properties `NothingStartsOver` of `OrderCore` and `FileNeverGoesBack` of
  `AuthWorker`;
* the refinement `Spec => Promise!Spec` of `TransactionalOutbox` by `OrderCore`.

**OrderCore.** None of the properties is inductive. `IndInv` adds what a handler's
place in the code says of its message and its open transaction (`HandlerOK`,
`IngestOK`, `VerdictOK`): rows a batch has written are still absent outside, each
with its event, and every order of the batch is to do, written or stored.
`InsertLocks` says that two open transactions never insert the same order, which is
what the row wait gives and what makes the commit of a batch meet absent rows only.
`Causality` is the argument of `process_assessment.py`: whatever is known outside of
an order was caused by its published request, hence by its stored row. `RelayInv`
makes locks exclusive and counts publications against failed relay transactions. The
proof has one lemma per action; handlers other than the one that moves are dealt with
once (`OtherHandler`, `HandlerFrame`). The refinement maps `Commit` of a batch to
`Register`, of a verdict to `Decide`, `Publish` to `Emit`, `MarkPublished` to
`Settle`, and every other step to a stutter.

**Notifications.** `AttemptBudget` and `DuplicatesExplained` are counting arguments.
`BudgetInv` adds to what was sent what may still be sent: by stale handlers (the
cardinality of `Zombies`) and along the regular path (`SendsLeft`, which `PastSend`
lowers as soon as the holder has sent). A fault may turn the holder into a zombie and
put the message back, which costs one more send, and pays for it with `faults`.
`HolderOK` says that a delivery belongs to one handler which has read the current
count.

**Llm.** `NoOrderLost` counts an unacknowledged message only until its handler is about
to acknowledge it, so that the property already has to hold at that point. `HandlerOK`
adds why it does: every order of a message in process is to do, to be retried or
settled, and when the handler comes to the retry publication or the acknowledgement
nothing is left to do, and what goes to the retry queue is never empty. One lemma (`DoneStep`) serves every way in which an order of an
envelope ends, another (`ReleaseStep`) every way in which a handler lets go.

`VerdictsExplained` is a counting argument over whole queues. `Copies` numbers the copies
of the messages about an order in a queue, so that their number is a cardinality, and
`Paid` bounds the verdicts published, waiting in a queue or being worked on by requests
and faults: every action moves one unit from one of the three places to another, and a
fault, which may leave two copies where one was, pays for the second. `SharesOK` is what
makes a handler count once: it never retries an order that it still has to assess.

**AuthWorker.** `NeverExpiresUnprovoked` is about time. `Need(d)` is the number of ticks
that a daemon whose last cycle went well may still need until the next token is saved,
from its pause over the wait for the lock and the two calls; `FreshOK` says that the token
in the file outlives it. Every tick lowers both by one, every step of the daemon lowers
`Need` or keeps it, and `TimingAssumption` is what is left when the token is found not to
be due. For others to keep this invariant, what they save must not be worse than what they
found: `LockOK` (who works on the file holds the lock) and `JarOK` (a jar in memory is no
older than the file, and what is saved is not due). `SessionOK` covers the operator, who
does not take the lock: as long as no status was outdated, a status asks for a login only
when the session is `Lost`, so that no cycle is about to save a token of the old one.

**Polling.** `RequestSafe` is inductive: a batch is stored together with the requests of
its new orders, and every later step moves a request on to the next place.
`MissesExplained` needs, between the pages, to tell which orders are still safe. `ToCome(o)`
says that fewer orders rank between the cursor and `o` than the pages to come will show;
the orders of the window that are neither collected nor to come are `Passed`, and `WalkOK`
bounds their number by `shifts`. A page either takes an order in or takes `PageSize`
others out of its way (`PageFacts`), so that it passes over none; withdrawing only lowers
the number of orders ahead. An order placed under the cursor, or moved from there, is the
only thing that adds to `Passed`, and it adds one at most (`OneDisplaced`): of two orders
that lose their place, the higher one would have had room for a further order ahead of
it. This is where it matters that no two orders rank equal. At the last page nothing is
to come any more, and `Passed` is what the batch lacks.

**NotificationText.** `JourneyOK` says that a message in flight is the command as llm
built it, in its wire format; the types follow from it. It rests on two facts.
`RoundTrip`: `parse(dump(c)) = c`, because aliases are distinct and no alias is the name
of another field. `BuiltText`: whatever the order and the summary, the text fits and is
not blank, so that notifications refuses nothing. The latter, `Fits` and `CutLittle`
come from lemmas about texts of any length: lengths add up (`Concatenation`) and grow
with every character (`UsedGrows`), `_truncate` stays within its limit (`Truncate`) and
makes the longest cut that does (`LongestCut`): a longer one would end in a blank or
pass the first character that does not fit.

Induction theorems with an operator as a parameter cannot be used here. Where an
argument goes along a text or a page, a lemma states it for a set of numbers (`AllUpTo`
in `NotificationTextProofs`: a set with 0 in it, and with each number the next, holds
all of them up to n), derived from the well-foundedness of the natural numbers; the
existence of the running sums and of the flattened texts, defined by recursive
functions, is proved with it too.

Only model-checked: the liveness properties `OutboxDrains`, `MessagesHandled`,
`EventuallySettled`, `SettledOrTriedAgain`, `LockReleased`, `SessionKeptAlive` and
`EventuallyAssessed` (fairness is out of the prover's reach), and the runs that end in a
counterexample.

## Not modelled

* The contractor profile and the prompts of llm (fixed text), configuration loading (the
  settings that matter are constants of the modules), logging, metrics, HTTP apart from
  the readiness flag, generated gRPC code.
* In order-core the order in which `claim_pending` picks rows (any batch of the right size
  is allowed) and publisher-confirm timeouts.
* In auth-worker the other cookies of a jar and duplicates of the token
  (`LatestTokens` takes the freshest, `cookieHeader` sends the last); what clients do with
  the status that `GetCookies` reports.
* In parser-worker the conversion of profi.ru's JSON into orders, and commands that do not
  decode, which scheduler does not send; they are refused like those that fail.
* Orders that are pushed off the polled pages between two polls: no code could see them,
  and `MissesExplained` and `EventuallyAssessed` speak of the orders within reach.
* The backlog of `parse.requests`, which grows without bound while parser-worker is down.

## Plan

1. Done: all modules above; theorems for every invariant and safety action property of the
   passing runs, and the refinement of `TransactionalOutbox`.
2. The duplicates of a token in a jar (`LatestTokens`, `RemoveOldTokenDuplicates`,
   `cookieHeader`) as functions.
3. An abstract specification of notifications (at least once within a budget) with a
   refinement proof, in the manner of `TransactionalOutbox`.
