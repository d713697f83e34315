---------------------------- MODULE OrderCoreProofs ----------------------------
(* Proofs of the safety properties of OrderCore, for all constants. *)
EXTENDS OrderCore, TLAPS

\* The three shapes of a message, and the value that is none of them.
LEMMA MessageShapes ==
    /\ \A m \in Messages :
          /\ m.kind \in {"parse", "verdict", "malformed"}
          /\ m.kind = "parse" => m.batch \in Seq(Orders)
          /\ m.kind = "verdict" => m.order \in Orders /\ m.score \in Scores
          /\ m.kind = "malformed" => m = Malformed
    /\ NoMsg.kind = "none"
    /\ NoMsg \notin Messages
    /\ \A o \in Orders, s \in Scores :
          /\ Verdict(o, s) \in Messages
          /\ Verdict(o, s).kind = "verdict"
          /\ Verdict(o, s).order = o
          /\ Verdict(o, s).score = s
<1> USE DEF Parse, Verdict, Malformed, NoMsg
<1>1. \A m \in ParseMsgs : m.kind = "parse" /\ m.batch \in Seq(Orders)
  BY ConstantsAssumption DEF ConstantsAssumption, ParseMsgs
<1>2. \A m \in VerdictMsgs : m.kind = "verdict" /\ m.order \in Orders /\ m.score \in Scores
  BY DEF VerdictMsgs
<1>3. \A o \in Orders, s \in Scores : Verdict(o, s) \in VerdictMsgs
  BY DEF VerdictMsgs
<1>4. NoMsg.kind = "none" /\ Malformed.kind = "malformed"
  OBVIOUS
<1>5. QED
  BY <1>1, <1>2, <1>3, <1>4 DEF Messages

\* Counting a message in or out touches that message only.
LEMMA BagUpdates ==
    ASSUME NEW S, NEW q \in [S -> Nat], NEW m \in S
    PROVE  /\ Put(q, m) \in [S -> Nat]
           /\ Put(q, m)[m] = q[m] + 1
           /\ \A x \in S : x # m => Put(q, m)[x] = q[x]
           /\ q[m] > 0 => /\ Take(q, m) \in [S -> Nat]
                          /\ Take(q, m)[m] = q[m] - 1
                          /\ \A x \in S : x # m => Take(q, m)[x] = q[x]
BY DEF Put, Take

\* The orders of a batch are its first one and those that follow it.
LEMMA RangeOfBatch ==
    ASSUME NEW s \in Seq(Orders), s # <<>>
    PROVE  /\ Head(s) \in Orders
           /\ Tail(s) \in Seq(Orders)
           /\ \A o \in Range(s) : o = Head(s) \/ o \in Range(Tail(s))
<1>1. Len(s) \in Nat /\ Len(s) >= 1
  OBVIOUS
<1>2. ASSUME NEW o \in Range(s), o # Head(s)
      PROVE  o \in Range(Tail(s))
  <2>1. PICK i \in 1 .. Len(s) : o = s[i]
    BY DEF Range
  <2>2. i - 1 \in 1 .. Len(Tail(s)) /\ Tail(s)[i - 1] = s[i]
    BY <1>1, <1>2, <2>1
  <2>3. DOMAIN Tail(s) = 1 .. Len(Tail(s))
    BY <1>1
  <2>4. QED
    BY <2>1, <2>2, <2>3 DEF Range
<1>3. QED
  BY <1>1, <1>2

\* The empty batch, with which IngestOrders.handle has nothing to insert, has no orders.
LEMMA EmptyBatch == \A o : o \notin Range(<<>>)
BY DEF Range

--------------------------------------------------------------------------------
\* The initial state satisfies the inductive invariant.
LEMMA InitIndInv == Init => IndInv
<1> SUFFICES ASSUME Init PROVE IndInv
  OBVIOUS
<1> USE DEF Init
<1>1. TypeOK
  BY MessageShapes DEF TypeOK, PCs
<1>2. HandlersInv /\ InsertLocks /\ BrokerInv
  BY DEF HandlersInv, HandlerOK, IngestOK, VerdictOK, InsertLocks, BrokerInv
<1>3. Causality /\ RelayInv
  BY DEF Causality, RelayInv, Keys
<1>4. OrdersAndRequestsTogether /\ NotificationsJustified /\ NoMessageLost /\ NothingPermanent
  BY DEF OrdersAndRequestsTogether, NotificationsJustified, NoMessageLost, NothingPermanent,
         Keys
<1>5. QED
  BY <1>1, <1>2, <1>3, <1>4 DEF IndInv

--------------------------------------------------------------------------------
(* What a step leaves alone *)

\* The step does not touch handler g.
SameHandler(g) ==
    /\ pc'[g] = pc[g] /\ msg'[g] = msg[g] /\ todo'[g] = todo[g]
    /\ wrote'[g] = wrote[g] /\ events'[g] = events[g]
    /\ g \in held' <=> g \in held

\* The step does not undo anything that handled messages rely on.
Grows ==
    /\ owed \subseteq owed'
    /\ dlq \subseteq dlq'
    /\ \A o \in Orders : status[o] # "absent" => status'[o] # "absent"
    /\ \A o \in Orders : Decided(o) => Decided(o)'

\* What was handled stays handled.
LEMMA HandledStable ==
    ASSUME Grows, NEW m \in Messages, Handled(m)
    PROVE  Handled(m)'
<1>1. ASSUME m.kind = "parse" PROVE \A o \in Range(m.batch) : o \in Orders
  BY <1>1, MessageShapes DEF Range
<1>2. QED
  BY <1>1, MessageShapes DEF Handled, Grows

\* A step that leaves a handler and its rows alone keeps its invariant.
LEMMA OtherHandler ==
    ASSUME TypeOK, Grows, NEW g \in Handlers, SameHandler(g),
           HandlerOK(g), IngestOK(g), VerdictOK(g),
           \A o \in wrote[g] : status[o] = "absent" => status'[o] = "absent"
    PROVE  HandlerOK(g)' /\ IngestOK(g)' /\ VerdictOK(g)'
<1>1. ASSUME msg[g].kind # "none" PROVE msg[g] \in Messages
  BY <1>1, MessageShapes DEF TypeOK
<1>2. HandlerOK(g)'
  BY <1>1, HandledStable, MessageShapes DEF HandlerOK, SameHandler, Grows, Handled
<1>3. IngestOK(g)'
  <2>1. ASSUME msg[g].kind = "parse" PROVE \A o \in Range(msg[g].batch) : o \in Orders
    BY <1>1, <2>1, MessageShapes DEF Range
  <2>2. QED
    BY <2>1 DEF IngestOK, SameHandler, Grows
<1>4. VerdictOK(g)'
  BY <1>1, MessageShapes DEF VerdictOK, SameHandler, Grows
<1>5. QED
  BY <1>2, <1>3, <1>4

\* The part of the invariant that a handler's step outside Commit does not reach.
LEMMA HandlerFrame ==
    ASSUME IndInv, NEW h \in Handlers, TypeOK',
           UNCHANGED <<db, requests, relay, owed, sent, relayFaults>>,
           dlq \subseteq dlq', NothingPermanent',
           \A g \in Handlers \ {h} : SameHandler(g),
           HandlerOK(h)', IngestOK(h)', VerdictOK(h)',
           InsertLocks', BrokerInv', NoMessageLost'
    PROVE  IndInv'
<1>1. Grows
  BY DEF Grows, db, Decided
<1>2. \A g \in Handlers \ {h} : HandlerOK(g)' /\ IngestOK(g)' /\ VerdictOK(g)'
  BY <1>1, OtherHandler DEF IndInv, HandlersInv, db
<1>3. HandlersInv'
  BY <1>2 DEF HandlersInv
<1>4. Causality' /\ RelayInv'
  BY DEF IndInv, Causality, RelayInv, db, relay
<1>5. OrdersAndRequestsTogether' /\ NotificationsJustified'
  BY DEF IndInv, OrdersAndRequestsTogether, NotificationsJustified, db, Decided
<1>6. QED
  BY <1>3, <1>4, <1>5 DEF IndInv

--------------------------------------------------------------------------------
(* Every action preserves the inductive invariant *)

\* Delivery hands a message over from the queue to the handler.
LEMMA DeliverStep ==
    ASSUME IndInv, NEW h \in Handlers, NEW m \in Messages, Deliver(h, m)
    PROVE  IndInv'
<1> USE DEF Deliver
<1>1. TypeOK'
  <2>1. Entry(m) \in PCs /\ (m.kind = "parse" => m.batch \in Seq(Orders))
    BY MessageShapes DEF Entry, PCs
  <2>2. Take(queue, m) \in [Messages -> Nat]
    BY BagUpdates DEF IndInv, TypeOK
  <2>3. QED
    BY <2>1, <2>2 DEF IndInv, TypeOK, db, relay, budget
<1>2. m \in owed /\ queue \in [Messages -> Nat]
  BY DEF IndInv, BrokerInv, TypeOK
<1>3. /\ pc'[h] = Entry(m) /\ msg'[h] = m /\ h \in held'
      /\ todo'[h] = IF m.kind = "parse" THEN m.batch ELSE <<>>
      /\ wrote'[h] = {} /\ events'[h] = {}
  BY DEF IndInv, TypeOK, HandlersInv, HandlerOK
<1>4. HandlerOK(h)'
  BY <1>2, <1>3, MessageShapes DEF HandlerOK, Entry
<1>5. IngestOK(h)' /\ VerdictOK(h)'
  BY <1>3, MessageShapes DEF IngestOK, VerdictOK, Entry
<1>6. \A g \in Handlers \ {h} : SameHandler(g)
  BY DEF IndInv, TypeOK, SameHandler
<1>7. InsertLocks'
  BY <1>3, <1>6 DEF IndInv, InsertLocks, SameHandler
<1>8. BrokerInv'
  <2>1. \A x \in Messages : queue'[x] > 0 => queue[x] > 0
    BY <1>2 DEF Take
  <2>2. QED
    BY <2>1 DEF IndInv, BrokerInv
<1>9. NoMessageLost'
  <2> SUFFICES ASSUME NEW x \in owed, ~Handled(x) PROVE InBroker(x)'
    <3>1. \A x \in owed : Handled(x) => Handled(x)'
      BY HandledStable DEF IndInv, TypeOK, Grows, Decided, db
    <3>2. QED
      BY <3>1 DEF NoMessageLost
  <2>1. InBroker(x) /\ x \in Messages
    BY DEF IndInv, NoMessageLost, TypeOK
  <2>2. CASE x = m
    BY <1>3, <2>2 DEF InBroker
  <2>3. CASE x # m /\ queue[x] > 0
    BY <1>2, <2>1, <2>3 DEF InBroker, Take
  <2>4. CASE \E g \in held : msg[g] = x
    BY <1>6, <2>4 DEF InBroker, SameHandler, IndInv, TypeOK, HandlersInv, HandlerOK
  <2>5. QED
    BY <2>1, <2>2, <2>3, <2>4 DEF InBroker
<1>10. NothingPermanent'
  BY DEF IndInv, NothingPermanent
<1>11. QED
  BY <1>1, <1>4, <1>5, <1>6, <1>7, <1>8, <1>9, <1>10, HandlerFrame DEF budget

\* A step that leaves queue, message and broker alone loses no message.
LEMMA NoMessageMoves ==
    ASSUME IndInv, UNCHANGED <<db, queue, msg, held, owed>>, dlq \subseteq dlq'
    PROVE  BrokerInv' /\ NoMessageLost'
<1>1. BrokerInv'
  BY DEF IndInv, BrokerInv
<1>2. \A m \in owed : Handled(m) => Handled(m)'
  BY HandledStable DEF IndInv, TypeOK, Grows, db, Decided
<1>3. NoMessageLost'
  BY <1>2 DEF IndInv, NoMessageLost, InBroker
<1>4. QED
  BY <1>1, <1>3

\* Inserting the next order of a batch keeps the transaction well formed: the
\* row is absent, and ~Blocked(h) says that no other open transaction has it.
LEMMA IngestNextStep ==
    ASSUME IndInv, NEW h \in Handlers, IngestNext(h)
    PROVE  IndInv'
<1> DEFINE o == Head(todo[h])
           isNew == status[o] = "absent" /\ o \notin wrote[h]
<1>1. /\ pc[h] = "insert" /\ msg[h].kind = "parse" /\ msg[h] \in Messages
      /\ todo[h] \in Seq(Orders) /\ todo[h] # <<>>
  BY MessageShapes DEF IngestNext, insert_new, IndInv, HandlersInv, HandlerOK, TypeOK
<1>2. /\ o \in Orders /\ Tail(todo[h]) \in Seq(Orders)
      /\ \A x \in Range(todo[h]) : x = o \/ x \in Range(Tail(todo[h]))
  BY <1>1, RangeOfBatch
<1>3. /\ wrote' = IF isNew THEN [wrote EXCEPT ![h] = @ \cup {o}] ELSE wrote
      /\ events' = IF isNew THEN [events EXCEPT ![h] = @ \cup {<<"assess", o>>}] ELSE events
      /\ todo' = [todo EXCEPT ![h] = Tail(@)]
      /\ pc' = [pc EXCEPT ![h] = IF Tail(todo[h]) = <<>> THEN "commit" ELSE "insert"]
      /\ UNCHANGED <<db, queue, requests, dlq, msg, held, relay, owed, sent, budget>>
  BY DEF IngestNext, insert_new, add_assessment_request
<1>4. TypeOK'
  BY <1>1, <1>2, <1>3 DEF IndInv, TypeOK, db, relay, budget, PCs, Keys
<1>5. /\ wrote'[h] = IF isNew THEN wrote[h] \cup {o} ELSE wrote[h]
      /\ events'[h] = IF isNew THEN events[h] \cup {<<"assess", o>>} ELSE events[h]
      /\ todo'[h] = Tail(todo[h])
      /\ pc'[h] = IF Tail(todo[h]) = <<>> THEN "commit" ELSE "insert"
      /\ msg'[h] = msg[h] /\ status' = status
  BY <1>3 DEF IndInv, TypeOK, db
<1>6. \A g \in Handlers \ {h} : SameHandler(g)
  BY <1>3 DEF IndInv, TypeOK, SameHandler
<1>7. HandlerOK(h)'
  BY <1>1, <1>3, <1>5 DEF IndInv, HandlersInv, HandlerOK
<1>8. IngestOK(h)'
  <2>1. IngestOK(h)
    BY DEF IndInv, HandlersInv
  <2>2. pc'[h] = "commit" => todo'[h] = <<>>
    BY <1>5
  <2>3. \A x \in wrote'[h] : status'[x] = "absent"
    BY <1>1, <1>5, <2>1 DEF IngestOK
  <2>4. events'[h] = {"assess"} \X wrote'[h]
    BY <1>1, <1>5, <2>1 DEF IngestOK
  <2>5. ASSUME NEW x \in Range(msg[h].batch)
        PROVE  x \in Range(todo'[h]) \/ x \in wrote'[h] \/ status'[x] # "absent"
    BY <1>1, <1>2, <1>5, <2>1 DEF IngestOK
  <2>6. QED
    BY <1>5, <2>2, <2>3, <2>4, <2>5 DEF IngestOK
<1>9. VerdictOK(h)'
  BY <1>1, <1>5 DEF VerdictOK
<1>10. InsertLocks'
  <2>1. ASSUME NEW g \in Handlers \ {h}, msg[g].kind = "parse"
        PROVE  wrote'[g] \cap wrote'[h] = {}
    <3>1. o \notin wrote[g]
      BY <1>1, <2>1 DEF IngestNext, Blocked, WaitsFor, Wants
    <3>2. wrote[g] \cap wrote[h] = {} /\ wrote'[g] = wrote[g]
      BY <1>1, <1>6, <2>1 DEF IndInv, InsertLocks, SameHandler
    <3>3. QED
      BY <1>5, <3>1, <3>2
  <2>2. QED
    BY <1>3, <1>6, <2>1 DEF IndInv, InsertLocks, SameHandler
<1>11. BrokerInv' /\ NoMessageLost'
  BY <1>3, NoMessageMoves
<1>12. NothingPermanent'
  BY <1>3 DEF IndInv, NothingPermanent
<1>13. QED
  BY <1>3, <1>4, <1>6, <1>7, <1>8, <1>9, <1>10, <1>11, <1>12, HandlerFrame DEF budget

\* The order of a verdict that a handler works on has been stored.
LEMMA VerdictOrderStored ==
    ASSUME IndInv, NEW m \in owed, m.kind = "verdict", ValidScore(m.score)
    PROVE  m.order \in Orders /\ status[m.order] # "absent"
<1>1. m.order \in Orders
  BY MessageShapes DEF IndInv, TypeOK
<1>2. outbox[<<"assess", m.order>>] # "absent"
  BY <1>1 DEF IndInv, Causality, Keys
<1>3. QED
  BY <1>1, <1>2 DEF IndInv, OrdersAndRequestsTogether

\* The SELECT finds the order, so the PermanentError branch is never taken.
LEMMA GetStep ==
    ASSUME IndInv, NEW h \in Handlers, Get(h)
    PROVE  IndInv'
<1>1. /\ pc[h] = "get" /\ msg[h].kind = "verdict" /\ ValidScore(msg[h].score)
      /\ msg[h] \in owed /\ wrote[h] = {} /\ events[h] = {}
  BY DEF Get, IndInv, HandlersInv, HandlerOK
<1>2. msg[h].order \in Orders /\ status[msg[h].order] # "absent"
  BY <1>1, VerdictOrderStored
<1>3. /\ UNCHANGED <<db, queue, requests, dlq, msg, held, todo, wrote, events, relay,
                     owed, sent, budget>>
      /\ \E x \in {"set", "commit"} :
            /\ pc' = [pc EXCEPT ![h] = x]
            /\ x = "commit" => status[msg[h].order] # "ASSESS_REQUESTED"
  BY <1>2 DEF Get, can_apply_assessment
<1>4. TypeOK'
  BY <1>3 DEF IndInv, TypeOK, db, relay, budget, PCs
<1>5. \A g \in Handlers \ {h} : SameHandler(g)
  BY <1>3 DEF IndInv, TypeOK, SameHandler
<1>6. /\ pc'[h] \in {"set", "commit"}
      /\ pc'[h] = "commit" => status[msg[h].order] # "ASSESS_REQUESTED"
  BY <1>3 DEF IndInv, TypeOK
<1>7. HandlerOK(h)' /\ IngestOK(h)'
  BY <1>1, <1>3, <1>6 DEF HandlerOK, IngestOK, IndInv, HandlersInv
<1>8. VerdictOK(h)'
  BY <1>1, <1>2, <1>3, <1>6 DEF VerdictOK, Decided, IndInv, TypeOK, db, OrderStatus
<1>9. InsertLocks' /\ NothingPermanent'
  BY <1>3 DEF IndInv, InsertLocks, NothingPermanent
<1>10. BrokerInv' /\ NoMessageLost'
  BY <1>3, NoMessageMoves
<1>11. QED
  BY <1>3, <1>4, <1>5, <1>7, <1>8, <1>9, <1>10, HandlerFrame DEF budget

\* The UPDATE and the notify row belong to the verdict's own order.
LEMMA SetStatusStep ==
    ASSUME IndInv, NEW h \in Handlers, SetStatus(h)
    PROVE  IndInv'
<1> DEFINE o == msg[h].order
<1>1. /\ pc[h] = "set" /\ msg[h].kind = "verdict" /\ ValidScore(msg[h].score)
      /\ msg[h] \in owed
  BY DEF SetStatus, IndInv, HandlersInv, HandlerOK
<1>2. o \in Orders
  BY <1>1, VerdictOrderStored
<1>3. /\ wrote' = [wrote EXCEPT ![h] = {o}]
      /\ events' = [events EXCEPT ![h] =
                      IF msg[h].score >= Threshold THEN {<<"notify", o>>} ELSE {}]
      /\ pc' = [pc EXCEPT ![h] = "commit"]
      /\ UNCHANGED <<db, queue, requests, dlq, msg, held, todo, relay, owed, sent, budget>>
  BY DEF SetStatus, decide_notification, add_notification
<1>4. TypeOK'
  BY <1>2, <1>3 DEF IndInv, TypeOK, db, relay, budget, PCs, Keys
<1>5. \A g \in Handlers \ {h} : SameHandler(g)
  BY <1>3 DEF IndInv, TypeOK, SameHandler
<1>6. /\ pc'[h] = "commit" /\ wrote'[h] = {o} /\ msg'[h] = msg[h] /\ owed' = owed
      /\ events'[h] = IF msg[h].score >= Threshold THEN {<<"notify", o>>} ELSE {}
  BY <1>3 DEF IndInv, TypeOK
<1>7. HandlerOK(h)' /\ IngestOK(h)' /\ VerdictOK(h)'
  BY <1>1, <1>3, <1>6 DEF HandlerOK, IngestOK, VerdictOK, IndInv, HandlersInv
<1>8. InsertLocks' /\ NothingPermanent'
  BY <1>1, <1>3, <1>5 DEF IndInv, InsertLocks, NothingPermanent, SameHandler
<1>9. BrokerInv' /\ NoMessageLost'
  BY <1>3, NoMessageMoves
<1>10. QED
  BY <1>3, <1>4, <1>5, <1>7, <1>8, <1>9, HandlerFrame DEF budget

\* Only what did not parse is ever dead-lettered.
LEMMA DeadLetterStep ==
    ASSUME IndInv, NEW h \in Handlers, DeadLetter(h)
    PROVE  IndInv'
<1>1. /\ pc[h] = "invalid" /\ msg[h].kind = "malformed" /\ msg[h] \in owed
      /\ msg[h] \in Messages /\ wrote[h] = {} /\ events[h] = {}
  BY DEF DeadLetter, IndInv, HandlersInv, HandlerOK, TypeOK
<1>2. /\ dlq' = dlq \cup {<<"invalid-payload", msg[h]>>}
      /\ pc' = [pc EXCEPT ![h] = "ack"]
      /\ UNCHANGED <<db, queue, requests, msg, held, todo, wrote, events, relay,
                     owed, sent, budget>>
  BY <1>1 DEF DeadLetter
<1>3. TypeOK'
  BY <1>1, <1>2 DEF IndInv, TypeOK, db, relay, budget, PCs, Categories
<1>4. \A g \in Handlers \ {h} : SameHandler(g)
  BY <1>2 DEF IndInv, TypeOK, SameHandler
<1>5. pc'[h] = "ack" /\ msg'[h] = msg[h] /\ Handled(msg[h])'
  BY <1>1, <1>2 DEF IndInv, TypeOK, Handled
<1>6. HandlerOK(h)' /\ IngestOK(h)' /\ VerdictOK(h)'
  BY <1>1, <1>2, <1>5 DEF HandlerOK, IngestOK, VerdictOK
<1>7. InsertLocks' /\ NothingPermanent'
  BY <1>2 DEF IndInv, InsertLocks, NothingPermanent
<1>8. BrokerInv' /\ NoMessageLost'
  BY <1>2, NoMessageMoves
<1>9. QED
  BY <1>2, <1>3, <1>4, <1>6, <1>7, <1>8, HandlerFrame DEF budget

\* A handler that gives up its message, either done with it or putting it back.
LEMMA ReleaseStep ==
    ASSUME IndInv, NEW h \in Handlers, pc[h] # "idle", Release(h),
           UNCHANGED <<db, requests, dlq, relay, owed, sent, relayFaults>>,
           inputs' \in Nat, faults' \in Nat,
           \/ Handled(msg[h]) /\ UNCHANGED queue
           \/ Requeue(h)
    PROVE  IndInv'
<1>1. msg[h] \in owed /\ msg[h] \in Messages
  BY DEF IndInv, HandlersInv, HandlerOK, TypeOK
<1>2. /\ queue' \in [Messages -> Nat]
      /\ \A x \in Messages : x # msg[h] => queue'[x] = queue[x]
      /\ \A x \in Messages : queue[x] > 0 => queue'[x] > 0
      /\ Handled(msg[h]) \/ (h \in held => queue'[msg[h]] > 0)
  <2>1. queue \in [Messages -> Nat]
    BY DEF IndInv, TypeOK
  <2>2. CASE Handled(msg[h]) /\ UNCHANGED queue
    BY <2>1, <2>2
  <2>3. CASE h \in held /\ queue' = Put(queue, msg[h])
    BY <1>1, <2>1, <2>3 DEF Put
  <2>4. CASE h \notin held /\ UNCHANGED queue
    BY <2>1, <2>4
  <2>5. QED
    BY <2>2, <2>3, <2>4 DEF Requeue
<1>3. TypeOK'
  BY <1>2 DEF IndInv, TypeOK, Release, db, relay, PCs
<1>4. \A g \in Handlers \ {h} : SameHandler(g)
  BY DEF IndInv, TypeOK, SameHandler, Release
<1>5. pc'[h] = "idle" /\ h \notin held' /\ wrote'[h] = {} /\ events'[h] = {}
  BY DEF IndInv, TypeOK, Release
<1>6. HandlerOK(h)' /\ IngestOK(h)' /\ VerdictOK(h)'
  BY <1>5 DEF HandlerOK, IngestOK, VerdictOK
<1>7. InsertLocks' /\ NothingPermanent'
  BY <1>4, <1>5 DEF IndInv, InsertLocks, NothingPermanent, SameHandler
<1>8. BrokerInv'
  BY <1>1, <1>2 DEF IndInv, BrokerInv
<1>9. NoMessageLost'
  <2> SUFFICES ASSUME NEW x \in owed, ~Handled(x) PROVE InBroker(x)'
    <3>1. \A x \in owed : Handled(x) => Handled(x)'
      BY HandledStable DEF IndInv, TypeOK, Grows, Decided, db
    <3>2. QED
      BY <3>1 DEF NoMessageLost
  <2>1. InBroker(x) /\ x \in Messages
    BY DEF IndInv, NoMessageLost, TypeOK
  <2>2. CASE queue[x] > 0
    <3>1. queue'[x] > 0
      BY <1>2, <2>1, <2>2
    <3>2. QED
      BY <3>1 DEF InBroker
  <2>3. CASE \E g \in held : msg[g] = x
    <3>1. PICK g \in held : msg[g] = x
      BY <2>3
    <3>2. CASE g = h
      BY <1>2, <3>1, <3>2 DEF InBroker
    <3>3. CASE g # h
      <4>1. g \in held' /\ msg'[g] = x
        BY <1>4, <3>1, <3>3 DEF SameHandler, IndInv, TypeOK
      <4>2. QED
        BY <4>1 DEF InBroker
    <3>4. QED
      BY <3>2, <3>3
  <2>4. QED
    BY <2>1, <2>2, <2>3 DEF InBroker
<1>10. QED
  BY <1>3, <1>4, <1>6, <1>7, <1>8, <1>9, HandlerFrame

\* An acknowledged message had been handled, so that dropping it loses nothing.
LEMMA AckStep ==
    ASSUME IndInv, NEW h \in Handlers, Ack(h)
    PROVE  IndInv'
<1>1. Handled(msg[h])
  BY DEF Ack, IndInv, HandlersInv, HandlerOK
<1>2. QED
  BY <1>1, ReleaseStep DEF Ack, budget, IndInv, TypeOK

\* A message whose handling raised goes back to its queue.
LEMMA NackStep ==
    ASSUME IndInv, NEW h \in Handlers, Nack(h)
    PROVE  IndInv'
BY ReleaseStep DEF Nack, budget, IndInv, TypeOK

\* A failed statement, commit or process rolls back and gives the message back.
LEMMA AbortStep ==
    ASSUME IndInv, NEW h \in Handlers, Abort(h)
    PROVE  IndInv'
BY ReleaseStep DEF Abort, IndInv, TypeOK

\* The victim of a PostgreSQL deadlock gives its message back.
LEMMA DeadlockAbortStep ==
    ASSUME IndInv, NEW h \in Handlers, DeadlockAbort(h)
    PROVE  IndInv'
<1>1. pc[h] # "idle"
  BY DEF DeadlockAbort, Deadlocked, WaitsFor, Wants
<1>2. QED
  BY <1>1, ReleaseStep DEF DeadlockAbort, budget, IndInv, TypeOK

\* The broker takes the message back from a handler that is still at work.
LEMMA ConnectionLostStep ==
    ASSUME IndInv, NEW h \in Handlers, ConnectionLost(h)
    PROVE  IndInv'
<1> USE DEF ConnectionLost
<1>1. pc[h] # "idle" /\ msg[h] \in owed /\ msg[h] \in Messages
  BY DEF IndInv, HandlersInv, HandlerOK, TypeOK
<1>2. /\ queue' \in [Messages -> Nat]
      /\ \A x \in Messages : queue'[x] >= queue[x] /\ (x # msg[h] => queue'[x] = queue[x])
      /\ queue'[msg[h]] > 0
  BY <1>1 DEF IndInv, TypeOK, Put
<1>3. TypeOK'
  BY <1>2 DEF IndInv, TypeOK, db, relay
<1>4. \A g \in Handlers \ {h} : SameHandler(g)
  BY DEF SameHandler
<1>5. HandlerOK(h)' /\ IngestOK(h)' /\ VerdictOK(h)'
  BY <1>1 DEF IndInv, HandlersInv, HandlerOK, IngestOK, VerdictOK, Handled, Decided, db
<1>6. InsertLocks' /\ NothingPermanent'
  BY DEF IndInv, InsertLocks, NothingPermanent
<1>7. BrokerInv'
  BY <1>1, <1>2 DEF IndInv, BrokerInv
<1>8. NoMessageLost'
  <2> SUFFICES ASSUME NEW x \in owed, ~Handled(x) PROVE InBroker(x)'
    BY DEF NoMessageLost, Handled, Decided, db
  <2>1. InBroker(x) /\ x \in Messages
    BY DEF IndInv, NoMessageLost, TypeOK
  <2>2. CASE x = msg[h]
    BY <1>2, <2>2 DEF InBroker
  <2>3. CASE x # msg[h]
    BY <1>2, <2>1, <2>3 DEF InBroker
  <2>4. QED
    BY <2>2, <2>3
<1>9. QED
  BY <1>3, <1>4, <1>5, <1>6, <1>7, <1>8, HandlerFrame

\* The commit of a batch adds its absent orders, each with its request.
LEMMA CommitOfBatch ==
    ASSUME IndInv, NEW h \in Handlers, Commit(h), msg[h].kind = "parse"
    PROVE  /\ wrote[h] \subseteq Orders
           /\ \A o \in wrote[h] : status[o] = "absent" /\ outbox[<<"assess", o>>] = "absent"
           /\ status' = [o \in Orders |-> IF o \in wrote[h] THEN "ASSESS_REQUESTED" ELSE status[o]]
           /\ outbox' = [k \in Keys |-> IF k[1] = "assess" /\ k[2] \in wrote[h]
                                        THEN "pending" ELSE outbox[k]]
           /\ score' = score /\ payload' = payload
<1> USE DEF Keys
<1>1. pc[h] = "commit" /\ IngestOK(h) /\ wrote[h] \subseteq Orders
  BY DEF Commit, IndInv, HandlersInv, TypeOK
<1>2. /\ status' = [o \in Orders |-> IF o \in wrote[h] THEN "ASSESS_REQUESTED" ELSE status[o]]
      /\ score' = score
  BY DEF Commit, NewStatus, IndInv, TypeOK
<1>3. \A o \in wrote[h] : status[o] = "absent" /\ outbox[<<"assess", o>>] = "absent"
  BY <1>1 DEF IngestOK, IndInv, OrdersAndRequestsTogether
<1>4. AddedRows(h) = {"assess"} \X wrote[h]
  BY <1>1, <1>3 DEF AddedRows, IngestOK
<1>5. /\ outbox' = [k \in Keys |-> IF k[1] = "assess" /\ k[2] \in wrote[h]
                                  THEN "pending" ELSE outbox[k]]
      /\ payload' = payload
  BY <1>4 DEF Commit, IndInv, TypeOK
<1>6. QED
  BY <1>1, <1>2, <1>3, <1>5

\* The commit of a verdict decides its stored order, and adds the notify row when
\* the score reaches the threshold and there is no such row; or it does nothing,
\* because the order had been decided.
LEMMA CommitOfVerdict ==
    ASSUME IndInv, NEW h \in Handlers, Commit(h), msg[h].kind = "verdict"
    PROVE  LET m    == msg[h]
               o    == msg[h].order
               new  == IF m.score >= Threshold THEN "NOTIFY_REQUESTED" ELSE "NO_NOTIFY"
               adds == m.score >= Threshold /\ outbox[<<"notify", o>>] = "absent"
           IN  /\ o \in Orders /\ status[o] # "absent" /\ sent[<<"assess", o>>] > 0
               /\ m.score \in Scores /\ m.score \in Nat
               /\ \/ /\ wrote[h] = {} /\ events[h] = {} /\ Decided(o)
                     /\ status' = status /\ score' = score
                     /\ outbox' = outbox /\ payload' = payload
                  \/ /\ status' = [status EXCEPT ![o] = new]
                     /\ score' = [score EXCEPT ![o] = m.score]
                     /\ outbox' = [k \in Keys |-> IF adds /\ k = <<"notify", o>>
                                                  THEN "pending" ELSE outbox[k]]
                     /\ payload' = [x \in Orders |-> IF adds /\ x = o
                                                     THEN m.score ELSE payload[x]]
<1> DEFINE m == msg[h]
           o == m.order
<1> USE DEF Keys
<1>1. pc[h] = "commit" /\ m \in owed /\ m \in Messages /\ VerdictOK(h)
  BY DEF Commit, IndInv, HandlersInv, HandlerOK, TypeOK
<1>2. /\ o \in Orders /\ status[o] # "absent" /\ sent[<<"assess", o>>] > 0
      /\ m.score \in Scores /\ m.score \in Nat
  BY <1>1, VerdictOrderStored, MessageShapes, ConstantsAssumption
  DEF VerdictOK, ConstantsAssumption, IndInv, Causality
<1>3. CASE wrote[h] = {} /\ events[h] = {} /\ Decided(o)
  <2>1. status' = status /\ score' = score /\ outbox' = outbox /\ payload' = payload
    BY <1>3 DEF Commit, AddedRows, IndInv, TypeOK
  <2>2. QED
    BY <1>2, <1>3, <2>1
<1>4. CASE /\ wrote[h] = {o}
           /\ events[h] = IF m.score >= Threshold THEN {<<"notify", o>>} ELSE {}
  <2> DEFINE new  == IF m.score >= Threshold THEN "NOTIFY_REQUESTED" ELSE "NO_NOTIFY"
             adds == m.score >= Threshold /\ outbox[<<"notify", o>>] = "absent"
  <2>1. /\ status' = [status EXCEPT ![o] = new]
        /\ score' = [score EXCEPT ![o] = m.score]
    BY <1>2, <1>4 DEF Commit, NewStatus, decide_notification, IndInv, TypeOK
  <2>2. AddedRows(h) = IF adds THEN {<<"notify", o>>} ELSE {}
    BY <1>4 DEF AddedRows
  <2>3. /\ outbox' = [k \in Keys |-> IF adds /\ k = <<"notify", o>> THEN "pending" ELSE outbox[k]]
        /\ payload' = [x \in Orders |-> IF adds /\ x = o THEN m.score ELSE payload[x]]
    BY <2>2 DEF Commit
  <2>4. QED
    BY <1>2, <2>1, <2>3
<1>5. QED
  BY <1>1, <1>3, <1>4 DEF VerdictOK

\* COMMIT makes a transaction visible: orders and events change together.
LEMMA CommitStep ==
    ASSUME IndInv, NEW h \in Handlers, Commit(h)
    PROVE  IndInv'
<1> DEFINE m == msg[h]
<1> USE DEF Keys
<1>1. /\ pc[h] = "commit" /\ m \in owed /\ m \in Messages
      /\ m.kind \in {"parse", "verdict"}
      /\ HandlerOK(h) /\ IngestOK(h) /\ VerdictOK(h)
      /\ wrote[h] \subseteq Orders
  BY DEF Commit, IndInv, HandlersInv, HandlerOK, TypeOK
<1>2. /\ UNCHANGED <<queue, requests, dlq, msg, held, todo, claim, done, owed, sent,
                     inputs, faults, relayFaults>>
      /\ pc' = [pc EXCEPT ![h] = "ack"]
      /\ wrote' = [wrote EXCEPT ![h] = {}]
      /\ events' = [events EXCEPT ![h] = {}]
  BY DEF Commit, relay, budget
\* A batch adds its absent orders with their requests.
<1>3. CASE m.kind = "parse"
  <2>1. /\ status' = [o \in Orders |-> IF o \in wrote[h] THEN "ASSESS_REQUESTED" ELSE status[o]]
        /\ score' = score
    BY <1>3, CommitOfBatch
  <2>2. \A o \in wrote[h] : status[o] = "absent" /\ outbox[<<"assess", o>>] = "absent"
    BY <1>3, CommitOfBatch
  <2>4. /\ outbox' = [k \in Keys |-> IF k[1] = "assess" /\ k[2] \in wrote[h] THEN "pending" ELSE outbox[k]]
        /\ payload' = payload
    BY <1>3, CommitOfBatch
  <2>5. TypeOK'
    BY <1>1, <1>2, <2>1, <2>4 DEF IndInv, TypeOK, PCs, OrderStatus
  <2>6. Grows
    BY <1>2, <2>1, <2>2 DEF Grows, Decided
  <2>7. Handled(m)'
    <3>1. \A o \in Range(m.batch) : o \in Orders
      BY <1>1, <1>3, MessageShapes DEF Range
    <3>2. \A o \in Range(m.batch) : o \in wrote[h] \/ status[o] # "absent"
      BY <1>1, <1>3, EmptyBatch DEF IngestOK
    <3>3. QED
      BY <1>2, <1>3, <2>1, <3>1, <3>2 DEF Handled
  <2>8. HandlersInv'
    <3>1. ASSUME NEW g \in Handlers \ {h}
          PROVE  HandlerOK(g)' /\ IngestOK(g)' /\ VerdictOK(g)'
      <4>1. SameHandler(g)
        BY <1>2 DEF IndInv, TypeOK, SameHandler
      <4>2. \A o \in wrote[g] : status[o] = "absent" => status'[o] = "absent"
        <5>1. CASE msg[g].kind = "parse"
          BY <1>3, <2>1, <5>1 DEF IndInv, InsertLocks, TypeOK
        <5>2. CASE msg[g].kind # "parse"
          <6>1. wrote[g] # {} => pc[g] = "commit" /\ msg[g].kind = "verdict" /\ msg[g] \in owed
            BY <5>2 DEF IndInv, HandlersInv, HandlerOK
          <6>2. ASSUME NEW o \in wrote[g] PROVE status[o] # "absent"
            BY <6>1, <6>2, VerdictOrderStored DEF IndInv, HandlersInv, VerdictOK
          <6>3. QED
            BY <6>2
        <5>3. QED
          BY <5>1, <5>2
      <4>3. QED
        BY <2>6, <4>1, <4>2, OtherHandler DEF IndInv, HandlersInv
    <3>2. HandlerOK(h)' /\ IngestOK(h)' /\ VerdictOK(h)'
      BY <1>1, <1>2, <2>7 DEF HandlerOK, IngestOK, VerdictOK, IndInv, TypeOK
    <3>3. QED
      BY <3>1, <3>2 DEF HandlersInv
  <2>9. Causality' /\ RelayInv'
    BY <1>2, <2>2, <2>4 DEF IndInv, TypeOK, Causality, RelayInv
  <2>10. OrdersAndRequestsTogether'
    BY <2>1, <2>4 DEF IndInv, TypeOK, OrdersAndRequestsTogether
  <2>11. NotificationsJustified'
    BY <2>1, <2>2, <2>4 DEF IndInv, TypeOK, NotificationsJustified, Decided
  <2>12. NoMessageLost'
    BY <1>2, <2>6, HandledStable DEF IndInv, TypeOK, NoMessageLost, InBroker
  <2>13. InsertLocks' /\ BrokerInv' /\ NothingPermanent'
    BY <1>2 DEF IndInv, TypeOK, InsertLocks, BrokerInv, NothingPermanent
  <2>14. QED
    BY <2>5, <2>8, <2>9, <2>10, <2>11, <2>12, <2>13 DEF IndInv
\* A verdict decides its own stored order, and perhaps adds the notify row.
<1>4. CASE m.kind = "verdict"
  <2> DEFINE o    == m.order
             new  == IF m.score >= Threshold THEN "NOTIFY_REQUESTED" ELSE "NO_NOTIFY"
             adds == m.score >= Threshold /\ outbox[<<"notify", o>>] = "absent"
             Noop == /\ wrote[h] = {} /\ events[h] = {} /\ Decided(o)
                     /\ status' = status /\ score' = score
                     /\ outbox' = outbox /\ payload' = payload
             Apply == /\ status' = [status EXCEPT ![o] = new]
                      /\ score' = [score EXCEPT ![o] = m.score]
                      /\ outbox' = [k \in Keys |-> IF adds /\ k = <<"notify", o>>
                                                   THEN "pending" ELSE outbox[k]]
                      /\ payload' = [x \in Orders |-> IF adds /\ x = o
                                                      THEN m.score ELSE payload[x]]
  <2>1. /\ o \in Orders /\ status[o] # "absent" /\ m.score \in Scores /\ m.score \in Nat
        /\ Noop \/ Apply
    BY <1>4, CommitOfVerdict
  <2>2. CASE Noop
    <3>1. /\ status' = status /\ score' = score /\ outbox' = outbox /\ payload' = payload
      BY <2>2
    <3>2. TypeOK'
      BY <1>1, <1>2, <3>1 DEF IndInv, TypeOK, PCs
    <3>3. \A g \in Handlers \ {h} : SameHandler(g)
      BY <1>2 DEF IndInv, TypeOK, SameHandler
    <3>4. HandlerOK(h)' /\ IngestOK(h)' /\ VerdictOK(h)'
      BY <1>1, <1>2, <1>4, <2>2, <3>1 DEF HandlerOK, IngestOK, VerdictOK, Handled, Decided, IndInv, TypeOK
    <3>5. InsertLocks' /\ NothingPermanent'
      BY <1>2 DEF IndInv, TypeOK, InsertLocks, NothingPermanent
    <3>6. BrokerInv' /\ NoMessageLost'
      BY <1>2, <3>1, NoMessageMoves DEF db
    <3>7. QED
      BY <1>2, <3>1, <3>2, <3>3, <3>4, <3>5, <3>6, HandlerFrame DEF db, relay
  <2>3. CASE Apply
    <3>1. /\ status' = [status EXCEPT ![o] = new]
          /\ score' = [score EXCEPT ![o] = m.score]
      BY <2>3
    <3>a. /\ outbox' = [k \in Keys |-> IF adds /\ k = <<"notify", o>> THEN "pending" ELSE outbox[k]]
          /\ payload' = [x \in Orders |-> IF adds /\ x = o THEN m.score ELSE payload[x]]
      BY <2>3
    <3>b. /\ \A k \in Keys : outbox'[k] = IF adds /\ k = <<"notify", o>> THEN "pending" ELSE outbox[k]
          /\ \A x \in Orders : outbox'[<<"assess", x>>] = outbox[<<"assess", x>>]
          /\ \A x \in Orders : outbox'[<<"notify", x>>] = IF adds /\ x = o THEN "pending" ELSE outbox[<<"notify", x>>]
      BY <3>a
    <3>3. TypeOK'
      BY <1>1, <1>2, <2>1, <3>1, <3>a DEF IndInv, TypeOK, PCs, OrderStatus
    <3>4. Grows /\ Decided(o)'
      BY <1>2, <2>1, <3>1 DEF Grows, Decided, IndInv, TypeOK
    <3>5. HandlersInv'
      <4>1. ASSUME NEW g \in Handlers \ {h}
            PROVE  HandlerOK(g)' /\ IngestOK(g)' /\ VerdictOK(g)'
        <5>1. SameHandler(g)
          BY <1>2 DEF IndInv, TypeOK, SameHandler
        <5>2. \A x \in wrote[g] : status[x] = "absent" => status'[x] = "absent"
          BY <2>1, <3>1 DEF IndInv, TypeOK
        <5>3. QED
          BY <3>4, <5>1, <5>2, OtherHandler DEF IndInv, HandlersInv
      <4>2. HandlerOK(h)' /\ IngestOK(h)' /\ VerdictOK(h)'
        BY <1>1, <1>2, <1>4, <3>4 DEF HandlerOK, IngestOK, VerdictOK, Handled, IndInv, TypeOK
      <4>3. QED
        BY <4>1, <4>2 DEF HandlersInv
    <3>6. Causality' /\ RelayInv'
      <4>1. \A k \in Keys : /\ outbox[k] # "absent" => outbox'[k] = outbox[k]
                           /\ outbox'[k] \in {outbox[k], "pending"}
        BY <3>b
      <4>2. Causality'
        BY <1>2, <4>1 DEF IndInv, TypeOK, Causality
      <4>3. RelayInv'
        BY <1>2, <4>1 DEF IndInv, TypeOK, RelayInv
      <4>4. QED
        BY <4>2, <4>3
    <3>7. OrdersAndRequestsTogether'
      BY <2>1, <3>1, <3>b DEF IndInv, TypeOK, OrdersAndRequestsTogether
    <3>8. NotificationsJustified'
      BY <2>1, <3>1, <3>a, <3>b DEF IndInv, TypeOK, NotificationsJustified, Decided
    <3>9. NoMessageLost'
      BY <1>2, <3>4, HandledStable DEF IndInv, TypeOK, NoMessageLost, InBroker
    <3>10. InsertLocks' /\ BrokerInv' /\ NothingPermanent'
      BY <1>2 DEF IndInv, TypeOK, InsertLocks, BrokerInv, NothingPermanent
    <3>11. QED
      BY <3>3, <3>5, <3>6, <3>7, <3>8, <3>9, <3>10 DEF IndInv
  <2>4. QED
    BY <2>1, <2>2, <2>3
<1>5. QED
  BY <1>1, <1>3, <1>4

--------------------------------------------------------------------------------
(* The relays and the neighbours *)

\* A step outside the handlers, the orders and the queues they read keeps all
\* of the invariant but what it says of the outbox, of requests and of the relays.
LEMMA RelayFrame ==
    ASSUME IndInv, TypeOK', Causality', RelayInv',
           UNCHANGED <<status, score, payload, queue, dlq, handler, owed>>,
           \A k \in Keys : outbox'[k] = "absent" <=> outbox[k] = "absent"
    PROVE  IndInv'
<1> USE DEF handler
<1>1. Grows
  BY DEF Grows, Decided
<1>2. HandlersInv'
  <2>1. \A g \in Handlers : SameHandler(g)
    BY DEF SameHandler
  <2>2. QED
    BY <1>1, <2>1, OtherHandler DEF IndInv, HandlersInv
<1>3. InsertLocks' /\ BrokerInv' /\ NothingPermanent'
  BY DEF IndInv, InsertLocks, BrokerInv, NothingPermanent
<1>4. NoMessageLost'
  BY <1>1, HandledStable DEF IndInv, TypeOK, NoMessageLost, InBroker
<1>5. OrdersAndRequestsTogether' /\ NotificationsJustified'
  BY DEF IndInv, OrdersAndRequestsTogether, NotificationsJustified, Decided, Keys
<1>6. QED
  BY <1>2, <1>3, <1>4, <1>5 DEF IndInv

\* FOR UPDATE SKIP LOCKED: what is claimed is pending and nobody else's.
LEMMA ClaimPendingStep ==
    ASSUME IndInv, NEW r \in Relays, ClaimPending(r)
    PROVE  IndInv'
<1>1. PICK S \in SUBSET Claimable : claim' = [claim EXCEPT ![r] = S]
  BY DEF ClaimPending
<1>2. /\ UNCHANGED <<db, queue, requests, dlq, handler, done, owed, sent, budget>>
      /\ claim[r] = {}
  BY DEF ClaimPending
<1>3. S \subseteq Keys /\ \A k \in S : outbox[k] = "pending" /\ \A q \in Relays : k \notin claim[q]
  BY DEF Claimable
<1>4. TypeOK'
  BY <1>1, <1>2, <1>3 DEF IndInv, TypeOK, db, handler, budget
<1>5. Causality'
  BY <1>2 DEF IndInv, Causality, db
<1>6. /\ claim'[r] = S
      /\ \A q \in Relays : q # r => claim'[q] = claim[q]
      /\ done[r] = {}
  BY <1>1, <1>2 DEF IndInv, TypeOK, RelayInv
<1>7. RelayInv'
  BY <1>2, <1>3, <1>6 DEF IndInv, RelayInv, db, budget
<1>8. QED
  BY <1>2, <1>4, <1>5, <1>7, RelayFrame DEF db

\* A publication is counted, and only once per claim.
LEMMA PublishStep ==
    ASSUME IndInv, NEW r \in Relays, NEW k \in Keys, Publish(r, k)
    PROVE  IndInv'
<1>1. /\ k \in claim[r] /\ k \notin done[r]
      /\ done' = [done EXCEPT ![r] = @ \cup {k}]
      /\ sent' = Put(sent, k)
      /\ requests' = IF k[1] = "assess" THEN Put(requests, k[2]) ELSE requests
      /\ UNCHANGED <<db, queue, dlq, handler, claim, owed, budget>>
  BY DEF Publish
<1>2. outbox[k] = "pending" /\ \A q \in Relays : q # r => k \notin done[q] /\ k \notin claim[q]
  BY <1>1 DEF IndInv, RelayInv
<1>3. sent[k] <= relayFaults /\ sent \in [Keys -> Nat] /\ relayFaults \in Nat
  BY <1>1, <1>2 DEF IndInv, TypeOK, RelayInv
<1>4. /\ sent' \in [Keys -> Nat] /\ sent'[k] = sent[k] + 1
      /\ \A x \in Keys : x # k => sent'[x] = sent[x]
  BY <1>1, <1>3 DEF Put
<1>5. /\ requests' \in [Orders -> Nat]
      /\ \A o \in Orders : requests'[o] > 0 => requests[o] > 0 \/ k = <<"assess", o>>
  <2>1. requests \in [Orders -> Nat] /\ k[2] \in Orders /\ k = <<k[1], k[2]>>
    BY DEF IndInv, TypeOK, Keys
  <2>2. QED
    BY <1>1, <2>1 DEF Put
<1>6. TypeOK'
  BY <1>1, <1>4, <1>5 DEF IndInv, TypeOK, db, handler, budget
<1>7. Causality'
  <2>1. \A x \in Keys : sent[x] > 0 => sent'[x] > 0
    BY <1>3, <1>4
  <2>2. \A o \in Orders : requests'[o] > 0 => sent'[<<"assess", o>>] > 0
    BY <1>3, <1>4, <1>5, <2>1 DEF IndInv, Causality, Keys
  <2>3. \A m \in owed : m.kind = "verdict" /\ ValidScore(m.score) => sent'[<<"assess", m.order>>] > 0
    <3> SUFFICES ASSUME NEW m \in owed, m.kind = "verdict", ValidScore(m.score)
                 PROVE  sent'[<<"assess", m.order>>] > 0
      OBVIOUS
    <3>1. m.order \in Orders
      BY MessageShapes DEF IndInv, TypeOK
    <3>2. QED
      BY <2>1, <3>1 DEF IndInv, Causality, Keys
  <2>4. \A x \in Keys : sent'[x] > 0 => outbox[x] # "absent"
    BY <1>2, <1>4 DEF IndInv, Causality
  <2>5. QED
    BY <1>1, <2>2, <2>3, <2>4 DEF Causality, db
<1>8. RelayInv'
  <2>1. /\ done'[r] = done[r] \cup {k}
        /\ \A q \in Relays : q # r => done'[q] = done[q]
    BY <1>1 DEF IndInv, TypeOK
  <2>2. \A q \in Relays : done'[q] \subseteq claim[q] /\ \A x \in done'[q] : sent'[x] > 0
    BY <1>1, <1>3, <1>4, <2>1 DEF IndInv, TypeOK, RelayInv
  <2>3. \A x \in Keys : /\ outbox[x] = "published" => sent'[x] > 0
                        /\ sent'[x] <= 1 + relayFaults
    BY <1>2, <1>3, <1>4 DEF IndInv, RelayInv
  <2>4. \A x \in Keys : outbox[x] # "published" /\ (\A q \in Relays : x \notin done'[q])
                           => sent'[x] <= relayFaults
    BY <1>4, <2>1 DEF IndInv, RelayInv
  <2>5. QED
    BY <1>1, <2>2, <2>3, <2>4 DEF IndInv, RelayInv, db, budget
<1>9. QED
  BY <1>1, <1>6, <1>7, <1>8, RelayFrame DEF db

\* Only rows that were all published are marked.
LEMMA MarkPublishedStep ==
    ASSUME IndInv, NEW r \in Relays, MarkPublished(r)
    PROVE  IndInv'
<1>1. /\ done[r] = claim[r]
      /\ outbox' = [k \in Keys |-> IF k \in claim[r] THEN "published" ELSE outbox[k]]
      /\ claim' = [claim EXCEPT ![r] = {}]
      /\ done' = [done EXCEPT ![r] = {}]
      /\ UNCHANGED <<status, score, payload, queue, requests, dlq, handler, owed, sent, budget>>
  BY DEF MarkPublished
<1>2. /\ claim'[r] = {} /\ done'[r] = {}
      /\ \A q \in Relays : q # r => claim'[q] = claim[q] /\ done'[q] = done[q]
      /\ \A k \in Keys : outbox'[k] = IF k \in claim[r] THEN "published" ELSE outbox[k]
      /\ \A k \in claim[r] : outbox[k] = "pending" /\ sent[k] > 0
  BY <1>1 DEF IndInv, TypeOK, RelayInv
<1>3. TypeOK'
  BY <1>1 DEF IndInv, TypeOK, handler, budget
<1>4. Causality'
  BY <1>1, <1>2 DEF IndInv, Causality
<1>5. RelayInv'
  <2>1. \A q \in Relays : \A k \in claim'[q] : k \in Keys /\ outbox'[k] = "pending"
    BY <1>2 DEF IndInv, TypeOK, RelayInv
  <2>2. \A k \in Keys : outbox'[k] # "published" => k \notin done[r]
    BY <1>1, <1>2
  <2>3. \A k \in Keys : outbox'[k] # "published" /\ (\A q \in Relays : k \notin done'[q])
                           => sent[k] <= relayFaults
    BY <1>2, <2>2 DEF IndInv, RelayInv
  <2>4. QED
    BY <1>1, <1>2, <2>1, <2>3 DEF IndInv, RelayInv, budget
<1>6. QED
  BY <1>1, <1>2, <1>3, <1>4, <1>5, RelayFrame

\* A rolled back relay transaction costs one more possible publication per row.
LEMMA RelayAbortStep ==
    ASSUME IndInv, NEW r \in Relays, RelayAbort(r)
    PROVE  IndInv'
<1>1. /\ relayFaults' = relayFaults + 1
      /\ claim' = [claim EXCEPT ![r] = {}]
      /\ done' = [done EXCEPT ![r] = {}]
      /\ UNCHANGED <<db, queue, requests, dlq, handler, owed, sent, inputs, faults>>
  BY DEF RelayAbort
<1>2. /\ claim'[r] = {} /\ done'[r] = {}
      /\ \A q \in Relays : q # r => claim'[q] = claim[q] /\ done'[q] = done[q]
  BY <1>1 DEF IndInv, TypeOK
<1>3. TypeOK'
  BY <1>1 DEF IndInv, TypeOK, db, handler
<1>4. Causality'
  BY <1>1 DEF IndInv, Causality, db
<1>5. RelayInv'
  <2>1. \A k \in Keys : sent'[k] <= 1 + relayFaults /\ sent'[k] \in Nat
    BY <1>1 DEF IndInv, RelayInv, TypeOK
  <2>2. relayFaults \in Nat
    BY DEF IndInv, TypeOK
  <2>3. \A k \in Keys : sent'[k] <= 1 + relayFaults' /\ sent'[k] <= relayFaults'
    BY <1>1, <2>1, <2>2
  <2>4. QED
    BY <1>1, <1>2, <2>3 DEF IndInv, RelayInv, db
<1>6. QED
  BY <1>1, <1>3, <1>4, <1>5, RelayFrame DEF db

\* The broker accepts a message: it is owed from now on and it is ready.
LEMMA AcceptStep ==
    ASSUME IndInv, NEW m \in Messages, Accept(m),
           UNCHANGED <<db, dlq, handler, relay, sent, relayFaults>>,
           requests' \in [Orders -> Nat], inputs' \in Nat, faults' \in Nat,
           \A o \in Orders : requests'[o] > 0 => requests[o] > 0,
           m.kind = "verdict" /\ ValidScore(m.score) => requests[m.order] > 0
    PROVE  IndInv'
<1> USE DEF handler
<1>1. queue' = Put(queue, m) /\ owed' = owed \cup {m} /\ queue \in [Messages -> Nat]
  BY DEF Accept, IndInv, TypeOK
<1>2. /\ queue' \in [Messages -> Nat] /\ queue'[m] > 0
      /\ \A x \in Messages : /\ queue[x] > 0 => queue'[x] > 0
                             /\ x # m => queue'[x] = queue[x]
  BY <1>1 DEF Put
<1>3. TypeOK'
  BY <1>1, <1>2 DEF IndInv, TypeOK, db, relay
<1>4. Grows
  BY <1>1 DEF Grows, db, Decided
<1>5. HandlersInv'
  <2>1. \A g \in Handlers : SameHandler(g)
    BY DEF SameHandler
  <2>2. QED
    BY <1>4, <2>1, OtherHandler DEF IndInv, HandlersInv, db
<1>6. InsertLocks' /\ NothingPermanent'
  BY DEF IndInv, InsertLocks, NothingPermanent
<1>7. BrokerInv'
  BY <1>1, <1>2 DEF IndInv, BrokerInv
<1>8. Causality'
  <2>1. m.kind = "verdict" => m.order \in Orders
    BY MessageShapes
  <2>2. QED
    BY <1>1, <2>1 DEF IndInv, Causality, db
<1>9. RelayInv' /\ OrdersAndRequestsTogether' /\ NotificationsJustified'
  BY DEF IndInv, RelayInv, OrdersAndRequestsTogether, NotificationsJustified, Decided, db, relay
<1>10. NoMessageLost'
  <2> SUFFICES ASSUME NEW x \in owed', ~Handled(x)' PROVE InBroker(x)'
    BY DEF NoMessageLost
  <2>1. CASE x = m
    BY <1>2, <2>1 DEF InBroker
  <2>2. CASE x # m
    <3>1. x \in owed /\ x \in Messages
      BY <1>1, <2>2 DEF IndInv, TypeOK
    <3>2. InBroker(x)
      BY <1>4, <3>1, HandledStable DEF IndInv, NoMessageLost
    <3>3. QED
      BY <1>2, <3>1, <3>2 DEF InBroker
  <2>3. QED
    BY <2>1, <2>2
<1>11. QED
  BY <1>3, <1>5, <1>6, <1>7, <1>8, <1>9, <1>10 DEF IndInv

\* A batch, or a message that no service of the repository sends.
LEMMA InputStep ==
    ASSUME IndInv, NEW m \in Messages, Input(m)
    PROVE  IndInv'
<1>1. /\ requests' = requests /\ requests \in [Orders -> Nat]
      /\ inputs' \in Nat /\ faults' \in Nat
  BY DEF Input, IndInv, TypeOK
<1>2. QED
  BY <1>1, AcceptStep DEF Input

\* llm answers only what was requested, whether it answers once or twice.
LEMMA LlmAnswerStep ==
    ASSUME IndInv, NEW o \in Orders, NEW s \in Scores, LlmAnswer(o, s)
    PROVE  IndInv'
<1>1. requests \in [Orders -> Nat] /\ faults \in Nat /\ inputs \in Nat /\ requests[o] > 0
  BY DEF IndInv, TypeOK, LlmAnswer
<1>2. /\ requests' \in [Orders -> Nat]
      /\ \A x \in Orders : requests'[x] > 0 => requests[x] > 0
      /\ faults' \in Nat /\ inputs' \in Nat
  BY <1>1 DEF LlmAnswer, Take
<1>3. Verdict(o, s) \in Messages /\ Verdict(o, s).order = o
  BY MessageShapes
<1>4. QED
  BY <1>1, <1>2, <1>3, AcceptStep DEF LlmAnswer

\* A request that is not answered just disappears.
LEMMA LlmSkipStep ==
    ASSUME IndInv, NEW o \in Orders, LlmSkip(o)
    PROVE  IndInv'
<1>1. /\ requests' \in [Orders -> Nat]
      /\ \A x \in Orders : requests'[x] > 0 => requests[x] > 0
      /\ UNCHANGED <<db, queue, dlq, handler, relay, owed, sent, budget>>
  BY DEF LlmSkip, Take, IndInv, TypeOK
<1>2. TypeOK'
  BY <1>1 DEF IndInv, TypeOK, db, handler, relay, budget
<1>3. Causality' /\ RelayInv'
  BY <1>1 DEF IndInv, Causality, RelayInv, db, relay, budget
<1>4. QED
  BY <1>1, <1>2, <1>3, RelayFrame DEF db

--------------------------------------------------------------------------------
(* The theorems *)

\* Every step of the specification preserves the inductive invariant.
LEMMA NextIndInv == IndInv /\ [Next]_vars => IndInv'
<1> SUFFICES ASSUME IndInv, [Next]_vars PROVE IndInv'
  OBVIOUS
<1>1. ASSUME NEW h \in Handlers, NEW m \in Messages, Deliver(h, m) PROVE IndInv'
  BY <1>1, DeliverStep
<1>2. ASSUME NEW h \in Handlers, HandlerStep(h) PROVE IndInv'
  BY <1>2, IngestNextStep, GetStep, SetStatusStep, CommitStep, DeadLetterStep, AckStep,
     NackStep, DeadlockAbortStep DEF HandlerStep
<1>3. ASSUME NEW h \in Handlers, Abort(h) \/ ConnectionLost(h) PROVE IndInv'
  BY <1>3, AbortStep, ConnectionLostStep
<1>4. ASSUME NEW r \in Relays, RelayStep(r) \/ RelayAbort(r) PROVE IndInv'
  BY <1>4, ClaimPendingStep, PublishStep, MarkPublishedStep, RelayAbortStep DEF RelayStep
<1>5. ASSUME NEW m \in Messages, Input(m) PROVE IndInv'
  BY <1>5, InputStep
<1>6. ASSUME NEW o \in Orders, LlmSkip(o) \/ \E s \in Scores : LlmAnswer(o, s) PROVE IndInv'
  BY <1>6, LlmSkipStep, LlmAnswerStep
<1>7. CASE UNCHANGED vars
  <2>1. TypeOK' /\ Causality' /\ RelayInv'
    BY <1>7 DEF IndInv, TypeOK, Causality, RelayInv, vars, db, handler, relay, budget
  <2>2. QED
    BY <1>7, <2>1, RelayFrame DEF vars, db
<1>8. QED
  BY <1>1, <1>2, <1>3, <1>4, <1>5, <1>6, <1>7 DEF Next

\* The inductive invariant holds in every reachable state, for any number of
\* orders, handlers, relays, messages and faults.
THEOREM Invariance == Spec => []IndInv
BY InitIndInv, NextIndInv, PTL DEF Spec

\* Every variable of the service, of the broker and of the relays keeps its type.
THEOREM TypeCorrect == Spec => []TypeOK
<1>1. IndInv => TypeOK
  BY DEF IndInv
<1>2. QED
  BY <1>1, Invariance, PTL

\* An order row and its assess.requests event exist together or not at all.
THEOREM OutboxAtomicity == Spec => []OrdersAndRequestsTogether
<1>1. IndInv => OrdersAndRequestsTogether
  BY DEF IndInv
<1>2. QED
  BY <1>1, Invariance, PTL

\* No message that the broker accepted is lost by crashes, lost connections,
\* deadlocks or redeliveries.
THEOREM AtLeastOnceIntake == Spec => []NoMessageLost
<1>1. IndInv => NoMessageLost
  BY DEF IndInv
<1>2. QED
  BY <1>1, Invariance, PTL

\* Whichever verdicts race, a notify row stands for a decided order and for a
\* verdict that reaches the threshold.
THEOREM JustifiedNotifications == Spec => []NotificationsJustified
<1>1. IndInv => NotificationsJustified
  BY DEF IndInv
<1>2. QED
  BY <1>1, Invariance, PTL

\* The PermanentError branch of ProcessAssessment is dead: a verdict finds its order.
THEOREM VerdictsFindTheirOrder == Spec => []NoUnknownVerdict
<1>1. ASSUME IndInv PROVE NoUnknownVerdict
  BY <1>1, VerdictOrderStored DEF NoUnknownVerdict, IndInv, NothingPermanent
<1>2. QED
  BY <1>1, Invariance, PTL

\* The relay publishes at least once before it marks, and once more at most for
\* each of its transactions that failed.
THEOREM AtLeastOnceDispatch == Spec => []DispatchCount
<1>1. ASSUME IndInv PROVE DispatchCount
  BY <1>1 DEF DispatchCount, IndInv, RelayInv, TypeOK
<1>2. QED
  BY <1>1, Invariance, PTL

--------------------------------------------------------------------------------
(* Steps against the promise *)

\* The three kinds of step that the tables and the count of publications see.
LEMMA VisibleSteps ==
    ASSUME [Next]_vars
    PROVE  \/ UNCHANGED <<status, score, outbox, payload, sent>>
           \/ \E h \in Handlers : Commit(h)
           \/ \E r \in Relays, k \in Keys : Publish(r, k)
           \/ \E r \in Relays : MarkPublished(r)
<1> USE DEF db, handler, relay, budget
<1>1. ASSUME NEW h \in Handlers, NEW m \in Messages, Deliver(h, m)
      PROVE  UNCHANGED <<status, score, outbox, payload, sent>>
  BY <1>1 DEF Deliver
<1>2. ASSUME NEW h \in Handlers, HandlerStep(h), ~Commit(h)
      PROVE  UNCHANGED <<status, score, outbox, payload, sent>>
  BY <1>2 DEF HandlerStep, IngestNext, Get, SetStatus, DeadLetter, Ack, Nack, DeadlockAbort
<1>3. ASSUME NEW h \in Handlers, Abort(h) \/ ConnectionLost(h)
      PROVE  UNCHANGED <<status, score, outbox, payload, sent>>
  BY <1>3 DEF Abort, ConnectionLost
<1>4. ASSUME NEW r \in Relays, ClaimPending(r) \/ RelayAbort(r)
      PROVE  UNCHANGED <<status, score, outbox, payload, sent>>
  BY <1>4 DEF ClaimPending, RelayAbort
<1>5. ASSUME NEW m \in Messages, Input(m)
      PROVE  UNCHANGED <<status, score, outbox, payload, sent>>
  BY <1>5 DEF Input
<1>6. ASSUME NEW o \in Orders, LlmSkip(o) \/ \E s \in Scores : LlmAnswer(o, s)
      PROVE  UNCHANGED <<status, score, outbox, payload, sent>>
  BY <1>6 DEF LlmSkip, LlmAnswer
<1>7. CASE UNCHANGED vars
  BY <1>7 DEF vars
<1>8. QED
  BY <1>1, <1>2, <1>3, <1>4, <1>5, <1>6, <1>7 DEF Next, RelayStep

\* No step forgets an order, reopens a decision, makes a published row pending
\* or changes a notification that has been stored.
THEOREM NoSecondLife == Spec => NothingStartsOver
<1>1. ASSUME IndInv, [Next]_vars PROVE [NoFreshStart]_vars
  <2> USE DEF NoFreshStart, Decided, Keys
  <2>1. CASE UNCHANGED <<status, score, outbox, payload, sent>>
    BY <1>1, <2>1 DEF IndInv, TypeOK
  <2>2. ASSUME NEW h \in Handlers, Commit(h) PROVE NoFreshStart
    <3>1. msg[h].kind \in {"parse", "verdict"}
      BY <1>1, <2>2 DEF Commit, IndInv, HandlersInv, HandlerOK
    <3>2. CASE msg[h].kind = "parse"
      <4>1. /\ \A o \in Orders : status[o] # "absent" => status'[o] = status[o]
            /\ \A k \in Keys : outbox[k] # "absent" => outbox'[k] = outbox[k]
            /\ payload' = payload
        <5>1. \A k \in Keys : k = <<k[1], k[2]>>
          OBVIOUS
        <5>2. /\ \A o \in wrote[h] : status[o] = "absent" /\ outbox[<<"assess", o>>] = "absent"
              /\ status' = [o \in Orders |-> IF o \in wrote[h] THEN "ASSESS_REQUESTED" ELSE status[o]]
              /\ outbox' = [k \in Keys |-> IF k[1] = "assess" /\ k[2] \in wrote[h]
                                           THEN "pending" ELSE outbox[k]]
              /\ payload' = payload
          BY <1>1, <2>2, <3>2, CommitOfBatch
        <5>3. ASSUME NEW k \in Keys, outbox[k] # "absent" PROVE outbox'[k] = outbox[k]
          <6>1. ~(k[1] = "assess" /\ k[2] \in wrote[h])
            BY <5>1, <5>2, <5>3
          <6>2. QED
            BY <5>2, <6>1
        <5>4. QED
          BY <5>2, <5>3
      <4>2. QED
        BY <4>1
    <3>3. CASE msg[h].kind = "verdict"
      <4>1. /\ \A o \in Orders : status'[o] \in {status[o], "NOTIFY_REQUESTED", "NO_NOTIFY"}
            /\ \A k \in Keys : outbox[k] # "absent" => outbox'[k] = outbox[k]
            /\ \A o \in Orders : outbox[<<"notify", o>>] # "absent" => payload'[o] = payload[o]
        <5> DEFINE o    == msg[h].order
                   new  == IF msg[h].score >= Threshold THEN "NOTIFY_REQUESTED" ELSE "NO_NOTIFY"
                   adds == msg[h].score >= Threshold /\ outbox[<<"notify", o>>] = "absent"
        <5>1. CASE status' = status /\ outbox' = outbox /\ payload' = payload
          BY <5>1
        <5>2. CASE /\ status' = [status EXCEPT ![o] = new]
                   /\ outbox' = [k \in Keys |-> IF adds /\ k = <<"notify", o>>
                                                THEN "pending" ELSE outbox[k]]
                   /\ payload' = [x \in Orders |-> IF adds /\ x = o
                                                   THEN msg[h].score ELSE payload[x]]
          BY <1>1, <5>2 DEF IndInv, TypeOK
        <5>3. QED
          BY <1>1, <2>2, <3>3, <5>1, <5>2, CommitOfVerdict
      <4>2. QED
        BY <4>1
    <3>4. QED
      BY <3>1, <3>2, <3>3
  <2>3. ASSUME NEW r \in Relays, NEW k \in Keys, Publish(r, k) PROVE NoFreshStart
    BY <1>1, <2>3 DEF Publish, db, IndInv, TypeOK
  <2>4. ASSUME NEW r \in Relays, MarkPublished(r) PROVE NoFreshStart
    BY <1>1, <2>4 DEF MarkPublished, IndInv, TypeOK
  <2>5. QED
    BY <1>1, <2>1, <2>2, <2>3, <2>4, VisibleSteps
<1>2. QED
  BY <1>1, Invariance, PTL DEF Spec, NothingStartsOver

\* The transactions, handlers, relays and queues together do no more than
\* TransactionalOutbox allows: a batch's commit registers its new orders, a
\* verdict's decides one, a publication emits an event, a marking settles some.
THEOREM Refinement == Spec => ImplementsPromise
<1>1. Init => Promise!Init
  BY DEF Init, Promise!Init, Promise!Events, Stage, Event, Emitted, Keys, Decided
<1>2. ASSUME IndInv, IndInv', [Next]_vars PROVE [Promise!Next]_(Promise!vars)
  <2> USE DEF Keys
  <2>1. CASE UNCHANGED <<status, score, outbox, payload, sent>>
    BY <2>1 DEF Promise!vars, Stage, Event, Emitted, Decided
  <2>2. ASSUME NEW h \in Handlers, Commit(h) PROVE [Promise!Next]_(Promise!vars)
    <3>0. sent' = sent /\ Emitted' = Emitted
      BY <2>2 DEF Commit, Emitted
    <3>1. msg[h].kind \in {"parse", "verdict"}
      BY <1>2, <2>2 DEF Commit, IndInv, HandlersInv, HandlerOK
    <3>2. CASE msg[h].kind = "parse"
      <4>1. /\ wrote[h] \subseteq Orders
            /\ \A o \in wrote[h] : status[o] = "absent" /\ outbox[<<"assess", o>>] = "absent"
            /\ status' = [o \in Orders |-> IF o \in wrote[h] THEN "ASSESS_REQUESTED" ELSE status[o]]
            /\ outbox' = [k \in Keys |-> IF k[1] = "assess" /\ k[2] \in wrote[h]
                                         THEN "pending" ELSE outbox[k]]
        BY <1>2, <2>2, <3>2, CommitOfBatch
      <4>2. \A o \in wrote[h] : Stage[o] = "unknown"
        BY <4>1 DEF Stage, Decided
      <4>3. Stage' = [o \in Orders |-> IF o \in wrote[h] THEN "assessing" ELSE Stage[o]]
        BY <4>1 DEF Stage, Decided
      <4>4. Event' = [e \in Keys |-> IF e[1] = "assess" /\ e[2] \in wrote[h] THEN "due" ELSE Event[e]]
        BY <4>1 DEF Event
      <4>5. Promise!Register(wrote[h])
        BY <3>0, <4>2, <4>3, <4>4 DEF Promise!Register, Promise!Events
      <4>6. QED
        BY <4>1, <4>5 DEF Promise!Next
    <3>3. CASE msg[h].kind = "verdict"
      <4> DEFINE o    == msg[h].order
                 new  == IF msg[h].score >= Threshold THEN "NOTIFY_REQUESTED" ELSE "NO_NOTIFY"
                 adds == msg[h].score >= Threshold /\ outbox[<<"notify", o>>] = "absent"
      <4>1. o \in Orders /\ status[o] # "absent" /\ sent[<<"assess", o>>] > 0
        BY <1>2, <2>2, <3>3, CommitOfVerdict
      <4>2. CASE status' = status /\ outbox' = outbox
        BY <3>0, <4>2 DEF Promise!vars, Stage, Event, Decided
      <4>3. CASE /\ status' = [status EXCEPT ![o] = new]
                 /\ outbox' = [k \in Keys |-> IF adds /\ k = <<"notify", o>>
                                              THEN "pending" ELSE outbox[k]]
        <5>1. Stage[o] # "unknown" /\ <<"assess", o>> \in Emitted
          BY <4>1 DEF Stage, Emitted, Decided
        <5>2. Stage' = [Stage EXCEPT ![o] = "decided"]
          <6>1. \A x \in Orders : status'[x] = IF x = o THEN new ELSE status[x]
            BY <1>2, <4>3 DEF IndInv, TypeOK
          <6>2. QED
            BY <4>1, <6>1 DEF Stage, Decided
        <5>3. \/ UNCHANGED Event
              \/ /\ Event[<<"notify", o>>] = "none"
                 /\ Event' = [Event EXCEPT ![<<"notify", o>>] = "due"]
          <6>1. CASE ~adds
            BY <1>2, <4>3, <6>1 DEF Event, IndInv, TypeOK
          <6>2. CASE adds
            BY <4>1, <4>3, <6>2 DEF Event
          <6>3. QED
            BY <6>1, <6>2
        <5>4. Promise!Decide(o)
          BY <3>0, <5>1, <5>2, <5>3 DEF Promise!Decide
        <5>5. QED
          BY <4>1, <5>4 DEF Promise!Next
      <4>4. QED
        BY <1>2, <2>2, <3>3, <4>2, <4>3, CommitOfVerdict
    <3>4. QED
      BY <3>1, <3>2, <3>3
  <2>3. ASSUME NEW r \in Relays, NEW k \in Keys, Publish(r, k)
        PROVE  [Promise!Next]_(Promise!vars)
    <3>1. /\ outbox[k] = "pending" /\ status' = status /\ outbox' = outbox
          /\ sent' = [sent EXCEPT ![k] = @ + 1] /\ sent \in [Keys -> Nat]
      BY <1>2, <2>3 DEF Publish, Put, IndInv, TypeOK, RelayInv, db
    <3>2. UNCHANGED <<Stage, Event>> /\ Event[k] = "due"
      BY <3>1 DEF Stage, Event, Decided
    <3>3. Emitted' = Emitted \cup {k}
      BY <3>1 DEF Emitted
    <3>4. Promise!Emit(k)
      BY <3>2, <3>3 DEF Promise!Emit
    <3>5. QED
      BY <3>4 DEF Promise!Next, Promise!Events
  <2>4. ASSUME NEW r \in Relays, MarkPublished(r) PROVE [Promise!Next]_(Promise!vars)
    <3>1. /\ \A k \in claim[r] : k \in Keys /\ outbox[k] = "pending" /\ sent[k] > 0
          /\ outbox' = [k \in Keys |-> IF k \in claim[r] THEN "published" ELSE outbox[k]]
          /\ status' = status /\ sent' = sent
      BY <1>2, <2>4 DEF MarkPublished, IndInv, TypeOK, RelayInv
    <3>2. /\ \A e \in claim[r] : Event[e] = "due" /\ e \in Emitted
          /\ Event' = [e \in Keys |-> IF e \in claim[r] THEN "settled" ELSE Event[e]]
          /\ UNCHANGED <<Stage, Emitted>>
      BY <3>1 DEF Event, Emitted, Stage, Decided
    <3>3. Promise!Settle(claim[r])
      BY <3>2 DEF Promise!Settle, Promise!Events
    <3>4. QED
      BY <3>1, <3>3 DEF Promise!Next, Promise!Events
  <2>5. QED
    BY <1>2, <2>1, <2>2, <2>3, <2>4, VisibleSteps
<1>3. QED
  BY <1>1, <1>2, Invariance, PTL DEF Spec, ImplementsPromise, Promise!Spec

================================================================================
