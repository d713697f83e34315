-------------------------------- MODULE Polling --------------------------------
(***************************************************************************)
(* The way of an order from the board of profi.ru to the queue of llm:     *)
(* scheduler publishes parse commands at an interval, parser-worker walks  *)
(* the first pages of the board for each of them and publishes what it     *)
(* found, order-core-service stores it and asks llm for an assessment.     *)
(*                                                                         *)
(* The services start in any order, stop, and are started again by         *)
(* Docker.  A message of order-core is one step here, as is the relay of   *)
(* one outbox row: OrderCore has their steps, and what comes of a crash    *)
(* between them.  The board lists orders by rank: a score of profi.ru's,   *)
(* about which the DEFAULT order that scheduler asks for says nothing.     *)
(* So an order may be posted at any rank and change it at any time.  All   *)
(* commands have the same contents; their request ids serve logging only.  *)
(***************************************************************************)
EXTENDS Integers, FiniteSets, FiniteSetsExt

CONSTANTS
    MaxPages,    \* SCHEDULER__PARSE_MAX_PAGES
    PageSize,    \* page_size of the board filter
    MaxOrders,   \* bound: orders there are
    MaxRank,     \* bound: ranks on the board
    MaxChanges,  \* bound: changes of the board
    MaxWaiting,  \* bound: commands on parse.requests, batches on parse.results
    MaxFaults    \* bound: failures of processes, calls and the broker

ASSUME PollingAssumption ==
    /\ {MaxPages, MaxOrders, MaxRank, MaxChanges, MaxWaiting, MaxFaults} \subseteq Nat
    /\ PageSize \in Nat \ {0}

Orders == 1 .. MaxOrders
Ranks  == 1 .. MaxRank

VARIABLES
    \* profi.ru
    posted,    \* orders posted so far
    rank,      \* of each order; 0 when it is not on the board
    \* RabbitMQ
    exists,    \* queues that have been declared; all are durable
    requests,  \* commands on parse.requests
    results,   \* batches on parse.results
    waiting,   \* requests on assess.requests, by order
    \* the services
    up,        \* those that run
    pc,        \* where parser-worker is
    request,   \* the command it works on
    page,      \* index of the next page
    cursor,    \* where the next page begins: below this rank
    found,     \* orders collected so far
    stored,    \* order-core: orders in the database
    outbox,    \* order-core: orders whose request is to be relayed
    taken,     \* orders whose request llm has dealt with
    \* history and budget
    window,    \* the orders within reach of the walk at its first page, and
               \* on the board ever since
    shifts,    \* orders placed under the cursor, or moved from there, since then
    vanished,  \* orders whose request was published before its queue existed
    changes,   \* of the board so far
    faults

profi  == <<posted, rank>>
broker == <<exists, requests, results, waiting>>
walk   == <<pc, request, page, cursor, found, window, shifts>>
core   == <<stored, outbox>>
vars   == <<profi, broker, up, walk, core, taken, vanished, changes, faults>>

Services == {"scheduler", "parser-worker", "order-core", "llm"}

Fault  == faults < MaxFaults /\ faults' = faults + 1
Change == changes < MaxChanges /\ changes' = changes + 1

--------------------------------------------------------------------------------
(* scheduler *)

\* The other order the wire format knows, DATE, is never asked for.
BoardSort == {"DEFAULT", "DATE"}

BoardFilter == [page_size |-> PageSize, sort |-> "DEFAULT"]

\* Every tick builds the same command from the configuration.
build == [filter |-> BoardFilter, max_pages |-> MaxPages]

\* The wire format; max_pages is left out of it when there is none.
ParseRequestMessage == [page_size : Nat, sort : BoardSort, max_pages : Nat]

to_parse_request(c) ==
    [page_size |-> c.filter.page_size, sort |-> c.filter.sort, max_pages |-> c.max_pages]

\* A tick of the schedule publishes one command, not persistent.
Tick ==
    /\ "scheduler" \in up
    /\ requests < MaxWaiting
    /\ requests' = requests + 1
    /\ UNCHANGED <<profi, exists, results, waiting, up, walk, core, taken, vanished,
                   changes, faults>>

--------------------------------------------------------------------------------
(* parser-worker: AmqpConsumer.run and ProcessParseRequest.execute *)

NoCursor == MaxRank + 1

board == {o \in Orders : rank[o] > 0}

\* The n of a set of orders that rank highest.
Top(S, n) == {o \in S : Cardinality({x \in S : rank[x] > rank[o]}) < n}

\* The number of pages of a walk.
Pages(r) == IF r.max_pages > 1 THEN r.max_pages ELSE 1

\* What a walk that began now would reach.
Reach == Top(board, Pages(to_parse_request(build)) * PageSize)

Receive ==
    /\ pc = "idle"
    /\ requests > 0
    /\ requests' = requests - 1
    /\ request' = to_parse_request(build)
    /\ pc' = "cookies"
    /\ UNCHANGED <<profi, exists, results, waiting, up, page, cursor, found, window,
                   shifts, core, taken, vanished, changes, faults>>

\* The cookies arrive; the walk is to begin at the top of the board.
Cookies ==
    /\ pc = "cookies"
    /\ pc' = "fetch"
    /\ page' = 0
    /\ cursor' = NoCursor
    /\ found' = {}
    /\ UNCHANGED <<profi, broker, up, request, window, shifts, core, taken, vanished, changes, faults>>

\* The next page and whether there is one after it.
Fetched(n) == Top({o \in board : rank[o] < cursor}, n)
More(P)    == \E o \in board : rank[o] < cursor /\ \A x \in P : rank[o] < rank[x]
Last(P)    == Min({rank[o] : o \in P})

\* One page of the board, and on to the next unless this was the last.
Fetch_oneShort ==
    LET P == Fetched(request.page_size)
    IN  /\ pc = "fetch"
        /\ found' = found \cup P
        /\ cursor' = IF More(P) THEN Last(P) ELSE NoCursor
        /\ page' = page + 1
        /\ pc' = IF More(P) /\ page' + 1 < Pages(request) THEN "fetch" ELSE "publish"
        /\ window' = IF page = 0 THEN Reach ELSE window
        /\ shifts' = IF page = 0 THEN 0 ELSE shifts
        /\ UNCHANGED <<profi, broker, up, request, core, taken, vanished, changes, faults>>
Fetch_unbounded ==
    LET P == Fetched(request.page_size)
    IN  /\ pc = "fetch"
        /\ found' = found \cup P
        /\ cursor' = IF More(P) THEN Last(P) ELSE NoCursor
        /\ page' = page + 1
        /\ pc' = IF More(P) THEN "fetch" ELSE "publish"
        /\ window' = IF page = 0 THEN Reach ELSE window
        /\ shifts' = IF page = 0 THEN 0 ELSE shifts
        /\ UNCHANGED <<profi, broker, up, request, core, taken, vanished, changes, faults>>
Fetch ==
    LET P == Fetched(request.page_size)
    IN  /\ pc = "fetch"
        /\ found' = found \cup P
        /\ cursor' = IF More(P) THEN Last(P) ELSE NoCursor
        /\ page' = page + 1
        /\ pc' = IF More(P) /\ page' < Pages(request) THEN "fetch" ELSE "publish"
        /\ window' = IF page = 0 THEN Reach ELSE window
        /\ shifts' = IF page = 0 THEN 0 ELSE shifts
        /\ UNCHANGED <<profi, broker, up, request, core, taken, vanished, changes, faults>>

\* execute has returned or failed, or the process is gone: nothing is left of the walk.
Over(next) ==
    /\ pc' = next
    /\ request' = to_parse_request(build)
    /\ page' = 0
    /\ cursor' = NoCursor
    /\ found' = {}
    /\ window' = {}
    /\ shifts' = 0

\* The default exchange routes by queue name and drops what has no queue.
Enqueued(b) == IF "parse.results" \in exists THEN results \cup {b} ELSE results

\* The batch is published, not persistent and without waiting for a confirmation.
Publish ==
    /\ pc = "publish"
    /\ Cardinality(results) < MaxWaiting
    /\ results' = Enqueued(found)
    /\ Over("ack")
    /\ UNCHANGED <<profi, exists, requests, waiting, up, core, taken, vanished, changes, faults>>

\* A step of execute fails: cookies, a page, or the publication, perhaps after the
\* broker has received it.
Fail ==
    /\ pc \in {"cookies", "fetch", "publish"}
    /\ Fault
    /\ Over("nack")
    /\ \/ UNCHANGED results
       \/ /\ pc = "publish"
          /\ Cardinality(results) < MaxWaiting
          /\ results' = Enqueued(found)
    /\ UNCHANGED <<profi, exists, requests, waiting, up, core, taken, vanished, changes>>

\* The delivery is acknowledged or, without requeue, refused: it is gone either way.
Settled ==
    /\ pc' = "idle"
    /\ UNCHANGED <<profi, broker, up, request, page, cursor, found, window, shifts,
                   core, taken, vanished, changes, faults>>

Ack ==
    /\ pc = "ack"
    /\ Settled

Nack_missing ==
    /\ pc = "nack"
    /\ UNCHANGED vars
Nack ==
    /\ pc = "nack"
    /\ Settled

--------------------------------------------------------------------------------
(* order-core-service and llm *)

\* A batch is stored: orders not seen before, with the requests for their assessment.
Ingest(b) ==
    /\ "order-core" \in up
    /\ b \in results
    /\ results' = results \ {b}
    /\ stored' = stored \cup b
    /\ outbox' = outbox \cup (b \ stored)
    /\ UNCHANGED <<profi, exists, requests, waiting, up, walk, taken, vanished, changes, faults>>

\* The relay publishes the request for o, persistent, and marks it published whether
\* or not there is a queue for it.
Relay(o) ==
    /\ "order-core" \in up
    /\ o \in outbox
    /\ outbox' = outbox \ {o}
    /\ IF "assess.requests" \in exists
       THEN waiting' = waiting \cup {o} /\ UNCHANGED vanished
       ELSE vanished' = vanished \cup {o} /\ UNCHANGED waiting
    /\ UNCHANGED <<profi, exists, requests, results, up, walk, stored, taken, changes, faults>>

\* llm deals with the request for o and acknowledges it.
Assess(o) ==
    /\ "llm" \in up
    /\ o \in waiting
    /\ waiting' = waiting \ {o}
    /\ taken' = taken \cup {o}
    /\ UNCHANGED <<profi, exists, requests, results, up, walk, core, vanished, changes, faults>>

--------------------------------------------------------------------------------
(* Starting, stopping, profi.ru *)

\* The queues a service declares when it starts.
Declares(s) ==
    CASE s = "scheduler"     -> {"parse.requests"}
      [] s = "parser-worker" -> {"parse.requests"}
      [] s = "order-core"    -> {"parse.results"}
      [] s = "llm"           -> {"assess.requests"}

Start(s) ==
    /\ s \notin up
    /\ up' = up \cup {s}
    /\ exists' = exists \cup Declares(s)
    /\ pc' = IF s = "parser-worker" THEN "idle" ELSE pc
    /\ UNCHANGED <<profi, requests, results, waiting, request, page, cursor, found, window,
                   shifts, core, taken, vanished, changes, faults>>

\* A service stops or crashes.  The broker takes back the command of parser-worker.
Stop(s) ==
    /\ s \in up
    /\ Fault
    /\ up' = up \ {s}
    /\ IF s = "parser-worker"
       THEN /\ Over("down")
            /\ requests' = IF pc = "idle" THEN requests ELSE requests + 1
       ELSE UNCHANGED <<walk, requests>>
    /\ UNCHANGED <<profi, exists, results, waiting, core, taken, vanished, changes>>

\* RabbitMQ restarts: queues and persistent messages survive.  parser-worker exits
\* when it loses the connection, the other services reconnect.
BrokerRestart_losesAll ==
    /\ Fault
    /\ requests' = 0
    /\ results' = {}
    /\ waiting' = {}
    /\ up' = up \ {"parser-worker"}
    /\ Over("down")
    /\ UNCHANGED <<profi, exists, core, taken, vanished, changes>>
BrokerRestart ==
    /\ Fault
    /\ requests' = 0
    /\ results' = {}
    /\ up' = up \ {"parser-worker"}
    /\ Over("down")
    /\ UNCHANGED <<profi, exists, waiting, core, taken, vanished, changes>>

\* An order gets a rank that no other has.  A walk under way is disturbed when the
\* order lands among those its next pages show, or comes from there.
Place(o, r) ==
    LET shift == pc = "fetch" /\ page > 0 /\ (r < cursor \/ rank[o] \in 1 .. cursor - 1)
    IN  /\ Change
        /\ \A x \in Orders : rank[x] # r
        /\ rank' = [rank EXCEPT ![o] = r]
        /\ shifts' = IF shift THEN shifts + 1 ELSE shifts
        /\ UNCHANGED <<broker, up, pc, request, page, cursor, found, window,
                       core, taken, vanished, faults>>

Post(r) ==
    /\ posted < MaxOrders
    /\ posted' = posted + 1
    /\ Place(posted', r)

Rerank(o, r) ==
    /\ o \in board
    /\ Place(o, r)
    /\ UNCHANGED posted

Withdraw(o) ==
    /\ o \in board
    /\ Change
    /\ rank' = [rank EXCEPT ![o] = 0]
    /\ window' = window \ {o}
    /\ UNCHANGED <<posted, broker, up, pc, request, page, cursor, found, shifts,
                   core, taken, vanished, faults>>

--------------------------------------------------------------------------------

\* The board may hold orders already, numbered as they rank; the next ones are numbered
\* as they are posted.
Init ==
    /\ posted \in 0 .. MaxOrders
    /\ rank \in [Orders -> 0 .. MaxRank]
    /\ \A o \in Orders : rank[o] > 0 <=> o <= posted
    /\ \A x, y \in 1 .. posted : x < y => rank[x] > rank[y]
    /\ exists = {}
    /\ requests = 0
    /\ results = {}
    /\ waiting = {}
    /\ up = {}
    /\ pc = "down"
    /\ request = to_parse_request(build)
    /\ page = 0
    /\ cursor = NoCursor
    /\ found = {}
    /\ window = {}
    /\ shifts = 0
    /\ stored = {}
    /\ outbox = {}
    /\ taken = {}
    /\ vanished = {}
    /\ changes = 0
    /\ faults = 0

ParserStep == Receive \/ Cookies \/ Fetch \/ Publish \/ Ack \/ Nack

Next ==
    \/ Tick
    \/ ParserStep \/ Fail
    \/ \E b \in results : Ingest(b)
    \/ \E o \in Orders : Relay(o) \/ Assess(o) \/ Withdraw(o)
    \/ \E s \in Services : Start(s) \/ Stop(s)
    \/ BrokerRestart
    \/ \E r \in Ranks : Post(r) \/ \E o \in Orders : Rerank(o, r)

Spec == Init /\ [][Next]_vars

\* Docker starts every service and restarts it; the schedule ticks for ever; calls to
\* auth-worker and profi.ru return, which no timeout of parser-worker ensures; the
\* consumers and the relay go on.  profi.ru promises nothing.
FairSpec ==
    /\ Spec
    /\ WF_vars(\E s \in Services : Start(s))
    /\ WF_vars(Tick)
    /\ WF_vars(ParserStep)
    /\ WF_vars(\E b \in results : Ingest(b))
    /\ WF_vars(\E o \in Orders : Relay(o))
    /\ WF_vars(\E o \in Orders : Assess(o))

--------------------------------------------------------------------------------
(* Properties *)

\* Every variable is in its domain.
TypeOK ==
    /\ posted \in 0 .. MaxOrders
    /\ rank \in [Orders -> 0 .. MaxRank]
    /\ exists \subseteq {"parse.requests", "parse.results", "assess.requests"}
    /\ requests \in 0 .. MaxWaiting + 1
    /\ results \subseteq SUBSET Orders
    /\ waiting \subseteq Orders
    /\ up \subseteq Services
    /\ pc \in {"down", "idle", "cookies", "fetch", "publish", "ack", "nack"}
    /\ request \in ParseRequestMessage
    /\ page \in 0 .. Pages(request)
    /\ cursor \in 1 .. NoCursor
    /\ found \subseteq Orders
    /\ window \subseteq Orders
    /\ shifts \in 0 .. changes
    /\ stored \subseteq Orders
    /\ outbox \subseteq Orders
    /\ taken \subseteq Orders
    /\ vanished \subseteq Orders
    /\ changes \in 0 .. MaxChanges
    /\ faults \in 0 .. MaxFaults

\* Between the calls for two pages the board goes on changing.  A walk of it that is
\* about to publish lacks no more of the orders that were within its reach at the first
\* page, and on the board ever since, than orders were placed under its cursor or moved
\* from there: each of these costs at most one, and whatever else happens to the board
\* costs none.
MissesExplained ==
    pc = "publish" => Cardinality(window \ found) <= shifts

\* The request of a stored order is in the outbox, waits on the queue of llm or was
\* taken by llm, through restarts of every service and of the broker, unless it was
\* published when llm had not yet declared its queue: the one way to lose an order.
RequestSafe == stored \subseteq outbox \cup waiting \cup taken \cup vanished

\* When the board comes to rest, every order within the polled pages is taken by llm
\* in the end, with the one exception of RequestSafe: commands, pages and batches that
\* fail or are lost, and orders that a walk missed, are made up for by later polls.
EventuallyAssessed == <>[](Reach \subseteq taken \cup vanished)

--------------------------------------------------------------------------------
(* The inductive invariant behind MissesExplained and TypeOK *)

\* The orders the walk comes to before o.
Ahead(o) == {x \in board : rank[o] < rank[x] /\ rank[x] < cursor}

\* The pages still to come will show o if nothing is placed among their orders.
ToCome(o) ==
    /\ rank[o] < cursor
    /\ Cardinality(Ahead(o)) < (Pages(request) - page) * PageSize

\* The orders that were within reach and have been passed over.
Passed == {o \in window \ found : ~ToCome(o)}

\* No two orders have the same rank.  A walk under way has a page to come, and after
\* the first one it has passed over no more orders than there were shifts.
WalkOK ==
    /\ \A x, y \in board : rank[x] = rank[y] => x = y
    /\ request = to_parse_request(build)
    /\ window \subseteq board
    /\ pc = "fetch" =>
           /\ page < Pages(request)
           /\ page = 0 => cursor = NoCursor
           /\ page > 0 => Cardinality(Passed) <= shifts

\* parser-worker runs exactly when it is not down; the command it works on came off
\* the queue, so that there is room for it to come back.
CommandOK ==
    /\ "parser-worker" \in up <=> pc # "down"
    /\ pc \notin {"down", "idle"} => requests <= MaxWaiting

IndInv == TypeOK /\ WalkOK /\ CommandOK /\ MissesExplained /\ RequestSafe

================================================================================
