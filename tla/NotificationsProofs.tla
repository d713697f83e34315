-------------------------- MODULE NotificationsProofs --------------------------
(* Proofs of the safety properties of Notifications, for all constants. *)
EXTENDS Notifications, FiniteSetTheorems, TLAPS

\* Stale handlers can be counted, and the count follows the set.
LEMMA ZombieCount ==
    ASSUME NEW S \in SUBSET Handlers
    PROVE  /\ IsFiniteSet(S)
           /\ Cardinality(S) \in Nat
           /\ \A h \in S : Cardinality(S \ {h}) = Cardinality(S) - 1
           /\ \A h \in Handlers \ S : Cardinality(S \cup {h}) = Cardinality(S) + 1
<1>1. IsFiniteSet(S)
  BY NotificationsAssumption, FS_Subset DEF NotificationsAssumption
<1>2. QED
  BY <1>1, FS_CardinalityType, FS_AddElement, FS_RemoveElement

\* The budget of one message.
BudgetOf(n) ==
    /\ sends[n] + Cardinality(Zombies(n)) + SendsLeft(n) <= MaxAttempts + faults
    /\ delivered[n] + Cardinality(Zombies(n)) + DeliveriesLeft(n) <= 1 + unsure[n] + faults

\* The terms of the budget are numbers.
LEMMA BudgetTypes ==
    ASSUME TypeOK, NEW n \in Notes
    PROVE  /\ Zombies(n) \subseteq Handlers
           /\ Cardinality(Zombies(n)) \in Nat
           /\ SendsLeft(n) \in Nat
           /\ DeliveriesLeft(n) \in {0, 1}
           /\ MaxAttempts \in Nat /\ MaxAttempts > 0
           /\ sends[n] \in Nat /\ delivered[n] \in Nat /\ unsure[n] \in Nat
           /\ rejections[n] \in Nat /\ faults \in Nat
<1>1. Zombies(n) \subseteq Handlers
  BY DEF Zombies
<1>2. Cardinality(Zombies(n)) \in Nat
  BY <1>1, ZombieCount
<1>3. MaxAttempts \in Nat /\ MaxAttempts > 0
  BY NotificationsAssumption DEF NotificationsAssumption
<1>4. SendsLeft(n) \in Nat
  BY <1>3 DEF SendsLeft, TypeOK
<1>5. QED
  BY <1>1, <1>2, <1>3, <1>4 DEF DeliveriesLeft, TypeOK

--------------------------------------------------------------------------------
\* The initial state satisfies the inductive invariant.
LEMMA InitIndInv == Init => IndInv
<1> SUFFICES ASSUME Init PROVE IndInv
  OBVIOUS
<1> USE DEF Init
<1>1. TypeOK
  BY NotificationsAssumption DEF TypeOK, Places, PCs, Conns, NotificationsAssumption
<1>2. HandlersInv /\ NoNotificationLost /\ DeadLettersJustified
  BY DEF HandlersInv, HandlerOK, NoNotificationLost, DeadLettersJustified
<1>3. SendsInv
  BY DEF SendsInv
<1>4. BudgetInv
  <2> SUFFICES ASSUME NEW n \in Notes PROVE BudgetOf(n)
    BY DEF BudgetInv, BudgetOf
  <2>1. Zombies(n) = {} /\ ~PastSend(n) /\ ~Acking(n)
    BY DEF Zombies, PastSend, Acking
  <2>2. Cardinality(Zombies(n)) = 0
    BY <2>1, FS_EmptySet
  <2>3. QED
    BY <1>1, <2>1, <2>2, BudgetTypes DEF BudgetOf, SendsLeft, DeliveriesLeft
<1>5. QED
  BY <1>1, <1>2, <1>3, <1>4 DEF IndInv

--------------------------------------------------------------------------------
(* Every action preserves the inductive invariant *)

\* The budget only looks at a message, at who works on it and at what was counted.
LEMMA SameBudget ==
    ASSUME BudgetInv, NEW n \in Notes, TypeOK, TypeOK', faults' >= faults,
           sends'[n] = sends[n], delivered'[n] = delivered[n], unsure'[n] = unsure[n],
           Cardinality(Zombies(n))' = Cardinality(Zombies(n)),
           SendsLeft(n)' = SendsLeft(n), DeliveriesLeft(n)' = DeliveriesLeft(n)
    PROVE  BudgetOf(n)'
<1>1. BudgetOf(n) /\ faults' \in Nat
  BY DEF BudgetInv, BudgetOf, TypeOK
<1>2. QED
  BY <1>1, BudgetTypes DEF BudgetOf

\* A message comes to the main queue, from a producer or from the retry queue.
LEMMA QueueStep ==
    ASSUME IndInv, NEW n \in Notes, place[n] \in {"unpublished", "retry"},
           place' = [place EXCEPT ![n] = "main"],
           UNCHANGED <<rejections, dlq, process, work, history, faults, stops>>
    PROVE  IndInv'
<1> USE DEF process, work, history
<1>1. TypeOK'
  BY DEF IndInv, TypeOK, Places
<1>2. \A h \in held : note[h] # n
  BY DEF IndInv, HandlersInv, HolderOK
<1>3. HandlersInv'
  <2>1. \A h \in Handlers : HandlerOK(h)'
    BY DEF IndInv, HandlersInv, HandlerOK, DeadLettered
  <2>2. \A h \in held : HolderOK(h)'
    BY <1>2 DEF IndInv, HandlersInv, HolderOK, TypeOK
  <2>3. QED
    BY <2>1, <2>2 DEF IndInv, HandlersInv
<1>4. SendsInv' /\ DeadLettersJustified' /\ NoNotificationLost'
  BY DEF IndInv, TypeOK, SendsInv, DeadLettersJustified, NoNotificationLost, DeadLettered
<1>5. BudgetInv'
  <2>1. ASSUME NEW x \in Notes PROVE BudgetOf(x)'
    <3>1. Zombies(x)' = Zombies(x) /\ (PastSend(x)' <=> PastSend(x)) /\ (Acking(x)' <=> Acking(x))
      BY DEF Zombies, PastSend, Acking
    <3>2. place'[x] = "gone" <=> place[x] = "gone"
      BY DEF IndInv, TypeOK
    <3>3. SendsLeft(x)' = SendsLeft(x) /\ DeliveriesLeft(x)' = DeliveriesLeft(x)
      BY <3>1, <3>2 DEF SendsLeft, DeliveriesLeft
    <3>4. QED
      BY <1>1, <3>1, <3>3, SameBudget DEF IndInv, TypeOK
  <2>2. QED
    BY <2>1 DEF BudgetInv, BudgetOf
<1>6. QED
  BY <1>1, <1>3, <1>4, <1>5 DEF IndInv

\* Connecting, subscribing and asking for a shutdown move no message.
LEMMA ProcessStep ==
    ASSUME IndInv, UNCHANGED <<broker, work, history, faults>>,
           conn' \in Conns, consuming' \in BOOLEAN, closing' \in BOOLEAN, stops' \in Nat
    PROVE  IndInv'
<1> USE DEF broker, work, history
<1>1. TypeOK'
  BY DEF IndInv, TypeOK
<1>2. HandlersInv' /\ SendsInv'
  BY DEF IndInv, HandlersInv, HandlerOK, HolderOK, SendsInv, DeadLettered
<1>3. DeadLettersJustified' /\ NoNotificationLost'
  BY DEF IndInv, DeadLettersJustified, NoNotificationLost, DeadLettered
<1>4. BudgetInv'
  BY DEF IndInv, BudgetInv, Zombies, SendsLeft, DeliveriesLeft, PastSend, Acking
<1>5. QED
  BY <1>1, <1>2, <1>3, <1>4 DEF IndInv

\* The step does not touch handler g.
SameHandler(g) ==
    /\ pc'[g] = pc[g] /\ note'[g] = note[g]
    /\ attempt'[g] = attempt[g] /\ category'[g] = category[g]
    /\ g \in held' <=> g \in held

\* Counters, the DLQ and the set of refused messages only grow.
Grows ==
    /\ \A n \in Notes : /\ rejections'[n] >= rejections[n] /\ sends'[n] >= sends[n]
                        /\ delivered'[n] >= delivered[n]
    /\ dlq \subseteq dlq'
    /\ refused \subseteq refused'

\* A step of handler h leaves the others as they were.
LEMMA OtherHandlers ==
    ASSUME IndInv, TypeOK', NEW h \in Handlers, \A g \in Handlers \ {h} : SameHandler(g), Grows,
           \A g \in held \ {h} : /\ place'[note[g]] = place[note[g]]
                                 /\ rejections'[note[g]] = rejections[note[g]],
           HandlerOK(h)',
           h \in held' => HolderOK(h)' /\ \A g \in held \ {h} : note[g] # note'[h]
    PROVE  HandlersInv'
<1>1. ASSUME NEW g \in Handlers \ {h} PROVE HandlerOK(g)'
  <2>1. HandlerOK(g) /\ SameHandler(g)
    BY DEF IndInv, HandlersInv
  <2>2. pc[g] # "idle" => /\ note[g] \in Notes
                          /\ attempt[g] \in Nat /\ rejections[note[g]] \in Nat
                          /\ rejections'[note[g]] \in Nat
                          /\ sends[note[g]] \in Nat /\ sends'[note[g]] \in Nat
                          /\ delivered[note[g]] \in Nat /\ delivered'[note[g]] \in Nat
    BY <2>1 DEF HandlerOK, IndInv, TypeOK
  <2>3. DeadLettered(note[g]) => DeadLettered(note[g])'
    BY <2>1 DEF DeadLettered, Grows, SameHandler
  <2>4. MaxAttempts \in Nat
    BY NotificationsAssumption DEF NotificationsAssumption
  <2>5. QED
    BY <2>1, <2>2, <2>3, <2>4 DEF HandlerOK, SameHandler, Grows
<1>2. ASSUME NEW g \in held \ {h} PROVE HolderOK(g)'
  <2>1. HolderOK(g) /\ SameHandler(g) /\ note[g] \in Notes
    BY DEF IndInv, HandlersInv, HandlerOK, TypeOK
  <2>2. sends'[note[g]] >= sends[note[g]] /\ sends'[note[g]] \in Nat /\ sends[note[g]] \in Nat
        /\ rejections[note[g]] \in Nat
    BY <2>1 DEF Grows, IndInv, TypeOK
  <2>3. QED
    BY <2>1, <2>2 DEF HolderOK, SameHandler
<1>3. \A g \in held' : g = h \/ (g \in held \ {h} /\ note'[g] = note[g])
  BY DEF SameHandler, TypeOK
<1>4. QED
  BY <1>1, <1>2, <1>3 DEF IndInv, HandlersInv

\* A step of handler h on its own message does not change another's budget.
LEMMA OtherBudget ==
    ASSUME IndInv, TypeOK', NEW h \in Handlers, \A g \in Handlers \ {h} : SameHandler(g),
           NEW x \in Notes, note[h] # x, note'[h] # x,
           place'[x] = place[x], rejections'[x] = rejections[x],
           sends'[x] = sends[x], delivered'[x] = delivered[x], unsure'[x] = unsure[x],
           faults' >= faults
    PROVE  BudgetOf(x)'
<1>1. Zombies(x)' = Zombies(x)
  BY DEF Zombies, SameHandler
<1>2. (PastSend(x)' <=> PastSend(x)) /\ (Acking(x)' <=> Acking(x))
  BY DEF PastSend, Acking, SameHandler, IndInv, TypeOK
<1>3. SendsLeft(x)' = SendsLeft(x) /\ DeliveriesLeft(x)' = DeliveriesLeft(x)
  BY <1>2 DEF SendsLeft, DeliveriesLeft
<1>4. QED
  BY <1>1, <1>3, SameBudget DEF IndInv

\* A delivery: the message goes from the queue to one handler.
LEMMA ReceiveStep ==
    ASSUME IndInv, NEW h \in Handlers, NEW n \in Notes, Receive(h, n)
    PROVE  IndInv'
<1> USE DEF Receive, process, history, getAttemptCount
<1>1. TypeOK'
  BY DEF IndInv, TypeOK, Places, PCs, Categories
<1>2. /\ pc'[h] = IF n \in Poison THEN "dead" ELSE "send"
      /\ note'[h] = n /\ attempt'[h] = rejections[n] /\ h \in held'
      /\ category'[h] = CASE n \in Malformed -> "invalid-payload"
                          [] n \in Unsendable \ Malformed -> "validation"
                          [] OTHER -> "none"
      /\ place'[n] = "unacked" /\ h \notin held
  BY DEF IndInv, TypeOK, Poison, HandlersInv, HandlerOK
<1>3. \A g \in Handlers \ {h} : SameHandler(g)
  BY DEF SameHandler, IndInv, TypeOK
<1>4. Grows
  BY DEF Grows, IndInv, TypeOK
<1>5. \A g \in held : g # h /\ note[g] # n
  BY <1>2 DEF IndInv, HandlersInv, HolderOK
<1>6. HandlerOK(h)'
  BY <1>2 DEF HandlerOK, IndInv, TypeOK, Categories, Poison
<1>7. HolderOK(h)'
  BY <1>2 DEF HolderOK
<1>8. HandlersInv'
  BY <1>1, <1>3, <1>4, <1>5, <1>6, <1>7, <1>2, OtherHandlers DEF IndInv, TypeOK
<1>9. SendsInv' /\ DeadLettersJustified' /\ NoNotificationLost'
  BY DEF IndInv, TypeOK, SendsInv, DeadLettersJustified, NoNotificationLost, DeadLettered
<1>10. BudgetInv'
  <2>1. ASSUME NEW x \in Notes, x # n PROVE BudgetOf(x)'
    <3>2. Zombies(x)' = Zombies(x)
      BY <1>2, <1>3, <2>1 DEF Zombies, SameHandler
    <3>3. (PastSend(x)' <=> PastSend(x)) /\ (Acking(x)' <=> Acking(x))
      BY <1>2, <1>3, <2>1 DEF PastSend, Acking, SameHandler, IndInv, TypeOK
    <3>4. place'[x] = place[x]
      BY <2>1 DEF IndInv, TypeOK
    <3>5. SendsLeft(x)' = SendsLeft(x) /\ DeliveriesLeft(x)' = DeliveriesLeft(x)
      BY <3>3, <3>4 DEF SendsLeft, DeliveriesLeft
    <3>6. QED
      BY <1>1, <3>2, <3>5, SameBudget DEF IndInv, TypeOK
  <2>2. BudgetOf(n)'
    <3>1. Zombies(n)' = Zombies(n)
      BY <1>2, <1>3, <1>5 DEF Zombies, SameHandler
    <3>2. ~PastSend(n) /\ ~Acking(n) /\ ~Acking(n)'
      BY <1>2, <1>3, <1>5 DEF PastSend, Acking, SameHandler, IndInv, TypeOK
    <3>3. DeliveriesLeft(n)' = DeliveriesLeft(n)
      BY <1>2, <3>2 DEF DeliveriesLeft
    <3>4. BudgetOf(n)
      BY DEF IndInv, BudgetInv, BudgetOf
    <3>5. SendsLeft(n)' <= SendsLeft(n) /\ SendsLeft(n)' \in Nat
      BY <1>2, <3>2, BudgetTypes, NotificationsAssumption DEF SendsLeft, IndInv, NotificationsAssumption
    <3>6. QED
      BY <3>1, <3>3, <3>4, <3>5, BudgetTypes DEF BudgetOf, IndInv
  <2>3. QED
    BY <2>1, <2>2 DEF BudgetInv, BudgetOf
<1>11. QED
  BY <1>1, <1>8, <1>9, <1>10 DEF IndInv

\* A send is counted; what it decides is justified by what was counted.
LEMMA SendStep ==
    ASSUME IndInv, NEW h \in Handlers, NEW s \in Answers, Send(h, s)
    PROVE  IndInv'
<1> USE DEF broker, process
<1>0. PICK n \in Notes : n = note[h]
  BY DEF Send, IndInv, HandlersInv, HandlerOK
<1>1. PICK posted \in Posts(s) :
         /\ delivered' = [delivered EXCEPT ![n] = IF posted THEN @ + 1 ELSE @]
         /\ unsure' = [unsure EXCEPT ![n] = IF posted /\ s # 200 THEN @ + 1 ELSE @]
  BY <1>0 DEF Send
<1>2. /\ pc[h] = "send" /\ note[h] = n /\ n \notin Poison /\ HandlerOK(h)
      /\ sends' = [sends EXCEPT ![n] = @ + 1]
      /\ pc' = [pc EXCEPT ![h] = decision(h, s)]
      /\ category' = [category EXCEPT ![h] =
                        CASE decision(h, s) # "dead" -> "none"
                          [] decision(h, s) = "dead" /\ classifyFailure(s) = "permanent" -> "permanent"
                          [] OTHER -> "exhausted"]
      /\ refused' = IF s \in (400 .. 499) \ {429} THEN refused \cup {n} ELSE refused
      /\ UNCHANGED <<place, rejections, dlq, conn, consuming, closing, note, attempt, held,
                     wiped, faults, stops>>
  BY <1>0 DEF Send, IndInv, HandlersInv, HandlerOK
<1>3. decision(h, s) \in {"ack", "drop", "dead"} /\ (decision(h, s) = "ack" <=> s = 200)
  BY DEF decision
<1>4. TypeOK'
  BY <1>1, <1>2, <1>3 DEF IndInv, TypeOK, PCs, Categories
<1>5. /\ pc'[h] = decision(h, s) /\ note'[h] = n /\ attempt'[h] = attempt[h]
      /\ sends'[n] = sends[n] + 1 /\ sends[n] \in Nat
      /\ rejections[n] \in Nat /\ attempt[h] \in Nat /\ attempt[h] <= rejections[n]
      /\ sends[n] >= rejections[n]
      /\ MaxAttempts \in Nat
  BY <1>2, NotificationsAssumption
  DEF IndInv, TypeOK, HandlerOK, SendsInv, NotificationsAssumption
<1>6. /\ delivered'[n] = IF posted THEN delivered[n] + 1 ELSE delivered[n]
      /\ unsure'[n] = IF posted /\ s # 200 THEN unsure[n] + 1 ELSE unsure[n]
      /\ s = 200 => posted
      /\ delivered[n] \in Nat /\ unsure[n] \in Nat
  BY <1>1, <1>2 DEF IndInv, TypeOK, Posts
<1>7. \A g \in Handlers \ {h} : SameHandler(g)
  BY <1>2 DEF SameHandler, IndInv, TypeOK
<1>8. Grows
  BY <1>1, <1>2 DEF Grows, IndInv, TypeOK
<1>9. HandlerOK(h)'
  <2>1. pc'[h] = "ack" => delivered'[n] > 0
    BY <1>3, <1>5, <1>6
  <2>2. pc'[h] = "dead" =>
          /\ category'[h] \in {"permanent", "exhausted"}
          /\ category'[h] = "exhausted" => attempt[h] + 1 >= MaxAttempts
          /\ category'[h] = "permanent" => classifyFailure(s) = "permanent"
    BY <1>2, <1>5 DEF decision, exhausted, IndInv, TypeOK
  <2>3. classifyFailure(s) = "permanent" => s \in (400 .. 499) \ {429}
    BY DEF classifyFailure, Answers
  <2>4. QED
    BY <1>2, <1>3, <1>5, <2>1, <2>2, <2>3 DEF HandlerOK, Categories
<1>10. h \in held => HolderOK(h)'
  <2>1. h \in held => place[n] = "unacked" /\ attempt[h] = rejections[n]
    BY <1>0 DEF IndInv, HandlersInv, HolderOK
  <2>2. pc'[h] = "drop" => ~exhausted(attempt[h])
    BY <1>5 DEF decision
  <2>3. QED
    BY <1>2, <1>5, <2>1, <2>2 DEF HolderOK, exhausted
<1>11. h \in held => \A g \in held \ {h} : note[g] # n
  BY <1>0 DEF IndInv, HandlersInv
<1>12. HandlersInv'
  BY <1>2, <1>4, <1>5, <1>7, <1>8, <1>9, <1>10, <1>11, OtherHandlers
<1>13. SendsInv'
  <2>1. \A x \in Notes : x # n => sends'[x] = sends[x]
    BY <1>2 DEF IndInv, TypeOK
  <2>2. QED
    BY <1>2, <1>5, <2>1 DEF IndInv, SendsInv
<1>14. NoNotificationLost'
  <2>1. \A x \in Notes : delivered[x] > 0 => delivered'[x] > 0
    BY <1>8, <1>4 DEF Grows, IndInv, TypeOK
  <2>2. QED
    BY <1>2, <2>1 DEF IndInv, NoNotificationLost, DeadLettered
<1>15. DeadLettersJustified'
  <2>1. \A x \in Notes : /\ sends'[x] >= sends[x] /\ sends'[x] \in Nat /\ sends[x] \in Nat
                         /\ x \in Poison => sends'[x] = sends[x]
    BY <1>2, <1>4, <1>8 DEF Grows, IndInv, TypeOK
  <2>2. \A d \in dlq : d[2] \in Notes
    BY DEF IndInv, TypeOK
  <2>3. QED
    BY <1>2, <1>5, <2>1, <2>2 DEF IndInv, DeadLettersJustified
<1>16. BudgetInv'
  <2>1. ASSUME NEW x \in Notes, x # n PROVE BudgetOf(x)'
    <3>1. sends'[x] = sends[x] /\ delivered'[x] = delivered[x] /\ unsure'[x] = unsure[x]
      BY <1>1, <1>2, <2>1 DEF IndInv, TypeOK
    <3>2. QED
      BY <1>2, <1>4, <1>5, <1>7, <2>1, <3>1, OtherBudget DEF IndInv, TypeOK
  <2>2. BudgetOf(n) /\ place[n] = place'[n] /\ rejections'[n] = rejections[n] /\ faults' = faults
        /\ held' = held
    BY <1>2 DEF IndInv, BudgetInv, BudgetOf
  <2>3. ASSUME h \notin held PROVE BudgetOf(n)'
    <3>1. h \in Zombies(n) /\ Zombies(n)' = Zombies(n) \ {h}
      BY <1>2, <1>3, <1>5, <1>7, <2>3 DEF Zombies, SameHandler
    <3>2. Cardinality(Zombies(n)') = Cardinality(Zombies(n)) - 1 /\ Zombies(n) \subseteq Handlers
      BY <3>1, ZombieCount DEF Zombies
    <3>3. (PastSend(n)' <=> PastSend(n)) /\ (Acking(n)' <=> Acking(n))
      BY <1>2, <1>7, <2>3 DEF PastSend, Acking, SameHandler, IndInv, TypeOK
    <3>4. SendsLeft(n)' = SendsLeft(n) /\ DeliveriesLeft(n)' = DeliveriesLeft(n)
      BY <2>2, <3>3 DEF SendsLeft, DeliveriesLeft
    <3>5. QED
      <4>1. Cardinality(Zombies(n)) \in Nat /\ SendsLeft(n) \in Nat /\ DeliveriesLeft(n) \in Nat
            /\ faults \in Nat
        BY BudgetTypes DEF IndInv
      <4>2. Cardinality(Zombies(n))' = Cardinality(Zombies(n)) - 1
        BY <3>2
      <4>3. QED
        BY <1>5, <1>6, <2>2, <3>4, <4>1, <4>2 DEF BudgetOf
  <2>4. ASSUME h \in held PROVE BudgetOf(n)'
    <3>1. Zombies(n)' = Zombies(n)
      BY <1>2, <1>7, <2>4 DEF Zombies, SameHandler
    <3>2. ~PastSend(n) /\ PastSend(n)' /\ ~Acking(n) /\ (Acking(n)' <=> s = 200)
      BY <1>2, <1>3, <1>5, <1>7, <1>11, <2>4 DEF PastSend, Acking, SameHandler, IndInv, TypeOK
    <3>3. place[n] = "unacked"
      BY <1>0, <2>4 DEF IndInv, HandlersInv, HolderOK
    <3>4. /\ SendsLeft(n)' = SendsLeft(n) - 1
          /\ DeliveriesLeft(n) = 1
          /\ DeliveriesLeft(n)' = IF s = 200 THEN 0 ELSE 1
      BY <1>5, <2>2, <3>2, <3>3 DEF SendsLeft, DeliveriesLeft
    <3>5. QED
      <4>1. Cardinality(Zombies(n)) \in Nat /\ SendsLeft(n) \in Nat /\ DeliveriesLeft(n) \in Nat
            /\ faults \in Nat
        BY BudgetTypes DEF IndInv
      <4>2. Cardinality(Zombies(n))' = Cardinality(Zombies(n))
        BY <3>1
      <4>3. QED
        BY <1>5, <1>6, <2>2, <3>4, <4>1, <4>2 DEF BudgetOf
  <2>5. QED
    BY <2>1, <2>3, <2>4 DEF BudgetInv, BudgetOf
<1>17. QED
  BY <1>4, <1>12, <1>13, <1>14, <1>15, <1>16 DEF IndInv

\* A handler returns: its message is acknowledged, rejected for a retry, or
\* rejected because the DLQ could not be reached, which is a fault.
LEMMA SettleStep ==
    ASSUME IndInv, NEW h \in Handlers, NEW where \in {"gone", "retry"}, Settle(h, where),
           rejections' = IF where = "retry" /\ h \in held
                         THEN [rejections EXCEPT ![note[h]] = @ + 1] ELSE rejections,
           dlq' = dlq \/ (pc[h] = "dead" /\ dlq' = dlq \cup {<<category[h], note[h]>>}),
           where = "gone" => pc[h] = "ack" /\ faults' = faults,
           where = "retry" => \/ pc[h] = "drop" /\ faults' = faults
                              \/ pc[h] = "dead" /\ faults' = faults + 1,
           UNCHANGED <<process, history, stops>>
    PROVE  IndInv'
<1> USE DEF process, history
<1>0. PICK n \in Notes : n = note[h]
  BY DEF IndInv, HandlersInv, HandlerOK
<1>1. /\ HandlerOK(h) /\ pc[h] \in {"ack", "drop", "dead"} /\ faults \in Nat /\ faults' \in Nat
      /\ faults' >= faults /\ MaxAttempts \in Nat /\ MaxAttempts > 0 /\ rejections[n] \in Nat
  BY NotificationsAssumption DEF IndInv, HandlersInv, TypeOK, NotificationsAssumption
<1>2. TypeOK'
  BY <1>0, <1>1 DEF IndInv, TypeOK, Settle, Places, PCs, HandlerOK
<1>3. \A g \in Handlers \ {h} : SameHandler(g)
  BY DEF SameHandler, IndInv, TypeOK, Settle
<1>4. pc'[h] = "idle" /\ note'[h] = NoNote /\ h \notin held' /\ NoNote \notin Notes
  BY NotificationsAssumption DEF IndInv, TypeOK, Settle, NotificationsAssumption
<1>5. \A x \in Notes : /\ x # n => place'[x] = place[x] /\ rejections'[x] = rejections[x]
                       /\ h \notin held => place'[x] = place[x] /\ rejections'[x] = rejections[x]
  BY <1>0 DEF IndInv, TypeOK, Settle
<1>6. h \in held => /\ place'[n] = where /\ place[n] = "unacked" /\ HolderOK(h)
                    /\ rejections'[n] = IF where = "retry" THEN rejections[n] + 1 ELSE rejections[n]
                    /\ \A g \in held \ {h} : note[g] # n
  BY <1>0 DEF IndInv, TypeOK, Settle, HandlersInv, HolderOK
<1>7. Grows
  <2>1. \A x \in Notes : rejections'[x] >= rejections[x]
    BY <1>1, <1>5, <1>6 DEF IndInv, TypeOK
  <2>2. QED
    BY <2>1 DEF Grows, IndInv, TypeOK
<1>8. HandlersInv'
  <2>1. HandlerOK(h)'
    BY <1>4 DEF HandlerOK
  <2>2. \A g \in held \ {h} : /\ note[g] \in Notes
                              /\ h \in held => note[g] # n
    BY <1>6 DEF IndInv, HandlersInv, HandlerOK, TypeOK
  <2>3. QED
    BY <1>2, <1>3, <1>4, <1>5, <1>7, <2>1, <2>2, OtherHandlers
<1>9. SendsInv'
  <2>1. n \notin Poison => sends[n] >= rejections'[n]
    <3>1. CASE h \in held
      BY <1>0, <1>1, <1>6, <3>1 DEF HolderOK, IndInv, TypeOK, SendsInv
    <3>2. CASE h \notin held
      BY <1>5, <3>2 DEF IndInv, SendsInv
    <3>3. QED
      BY <3>1, <3>2
  <2>2. QED
    BY <1>5, <2>1 DEF IndInv, SendsInv
<1>10. NoNotificationLost'
  <2>1. \A x \in Notes : DeadLettered(x) => DeadLettered(x)'
    BY <1>7 DEF DeadLettered, Grows
  <2>2. place'[n] = "gone" => delivered[n] > 0 \/ DeadLettered(n)' \/ n \in wiped
    <3>1. CASE h \in held
      BY <1>0, <1>1, <1>6, <2>1, <3>1 DEF HandlerOK
    <3>2. CASE h \notin held
      BY <1>5, <2>1, <3>2 DEF IndInv, NoNotificationLost
    <3>3. QED
      BY <3>1, <3>2
  <2>3. QED
    BY <1>5, <2>1, <2>2 DEF IndInv, NoNotificationLost
<1>11. DeadLettersJustified'
  <2>1. pc[h] = "dead" => /\ category[h] = "exhausted" => sends[n] >= MaxAttempts
                          /\ category[h] = "permanent" => n \in refused
                          /\ category[h] \in {"invalid-payload", "validation"}
                                => n \in Poison /\ sends[n] = 0
    BY <1>0, <1>1 DEF HandlerOK, IndInv, SendsInv
  <2>2. QED
    BY <1>0, <2>1 DEF IndInv, DeadLettersJustified
<1>12. ASSUME NEW x \in Notes, x # n PROVE BudgetOf(x)'
  BY <1>0, <1>1, <1>2, <1>3, <1>4, <1>5, <1>12, OtherBudget
<1>13. Zombies(n)' = Zombies(n)
  BY <1>1, <1>3, <1>4 DEF Zombies, SameHandler
<1>14. held' = held \ {h} /\ \A g \in held \ {h} : pc'[g] = pc[g] /\ note'[g] = note[g]
  BY <1>3 DEF Settle, SameHandler, IndInv, TypeOK
<1>15. ASSUME h \notin held PROVE BudgetOf(n)'
  <2>1. (PastSend(n)' <=> PastSend(n)) /\ (Acking(n)' <=> Acking(n))
    BY <1>15, <1>14 DEF PastSend, Acking
  <2>2. SendsLeft(n)' = SendsLeft(n) /\ DeliveriesLeft(n)' = DeliveriesLeft(n)
    BY <1>5, <1>15, <2>1 DEF SendsLeft, DeliveriesLeft
  <2>3. QED
    BY <1>1, <1>2, <1>13, <2>2, SameBudget DEF IndInv
<1>16. ASSUME h \in held PROVE BudgetOf(n)'
  <2>1. PastSend(n) /\ ~PastSend(n)' /\ ~Acking(n)' /\ (Acking(n) => pc[h] = "ack")
    BY <1>0, <1>1, <1>6, <1>16, <1>14 DEF PastSend, Acking
  <2>2. /\ SendsLeft(n)' <= SendsLeft(n) + (faults' - faults)
        /\ SendsLeft(n) \in Nat /\ SendsLeft(n)' \in Nat
    <3>1. CASE where = "gone"
      BY <1>1, <1>6, <1>16, <2>1, <3>1, BudgetTypes DEF SendsLeft, IndInv
    <3>2. CASE where = "retry" /\ pc[h] = "drop"
      <4>1. rejections[n] + 1 < MaxAttempts /\ faults' = faults
        BY <1>0, <1>1, <1>6, <1>16, <3>2 DEF HolderOK, exhausted
      <4>2. QED
        BY <1>1, <1>6, <1>16, <2>1, <3>2, <4>1 DEF SendsLeft
    <3>3. CASE where = "retry" /\ pc[h] = "dead"
      BY <1>1, <1>6, <1>16, <2>1, <3>3 DEF SendsLeft
    <3>4. QED
      BY <3>1, <3>2, <3>3
  <2>3. DeliveriesLeft(n)' <= DeliveriesLeft(n) /\ DeliveriesLeft(n)' \in Nat
    BY <1>1, <1>6, <1>16, <2>1 DEF DeliveriesLeft
  <2>4. Cardinality(Zombies(n))' = Cardinality(Zombies(n)) /\ BudgetOf(n)
    BY <1>13 DEF IndInv, BudgetInv, BudgetOf
  <2>5. QED
    BY <1>1, <2>2, <2>3, <2>4, BudgetTypes DEF BudgetOf, IndInv
<1>17. BudgetInv'
  BY <1>12, <1>15, <1>16 DEF BudgetInv, BudgetOf
<1>18. QED
  BY <1>2, <1>8, <1>9, <1>10, <1>11, <1>17 DEF IndInv

\* The DLQ has the message; the acknowledgement is still to come.
LEMMA DeadLetterStep ==
    ASSUME IndInv, NEW h \in Handlers, DeadLetter(h)
    PROVE  IndInv'
<1> USE DEF process, history
<1>0. PICK n \in Notes : n = note[h]
  BY DEF DeadLetter, IndInv, HandlersInv, HandlerOK
<1>1. /\ HandlerOK(h) /\ pc[h] = "dead" /\ category[h] \in Categories
      /\ dlq' = dlq \cup {<<category[h], n>>}
      /\ pc' = [pc EXCEPT ![h] = "ack"]
      /\ UNCHANGED <<place, rejections, process, note, attempt, category, held,
                     history, faults, stops>>
  BY <1>0 DEF DeadLetter, IndInv, HandlersInv, HandlerOK
<1>2. TypeOK'
  BY <1>1 DEF IndInv, TypeOK, PCs
<1>3. \A g \in Handlers \ {h} : SameHandler(g)
  BY <1>1 DEF SameHandler, IndInv, TypeOK
<1>4. Grows
  BY <1>1 DEF Grows, IndInv, TypeOK
<1>5. pc'[h] = "ack" /\ DeadLettered(n)'
  BY <1>1 DEF IndInv, TypeOK, DeadLettered
<1>6. HandlerOK(h)'
  BY <1>0, <1>1, <1>5 DEF HandlerOK
<1>7. h \in held => HolderOK(h)' /\ \A g \in held \ {h} : note[g] # n
  BY <1>0, <1>1, <1>5 DEF IndInv, HandlersInv, HolderOK
<1>8. HandlersInv'
  BY <1>0, <1>1, <1>2, <1>3, <1>4, <1>6, <1>7, OtherHandlers
<1>9. SendsInv' /\ NoNotificationLost'
  BY <1>1 DEF IndInv, SendsInv, NoNotificationLost, DeadLettered
<1>10. DeadLettersJustified'
  <2>1. /\ category[h] = "exhausted" => sends[n] >= MaxAttempts
        /\ category[h] = "permanent" => n \in refused
        /\ category[h] \in {"invalid-payload", "validation"} => n \in Poison /\ sends[n] = 0
    BY <1>0, <1>1 DEF HandlerOK, IndInv, SendsInv
  <2>2. QED
    BY <1>1, <2>1 DEF IndInv, DeadLettersJustified
<1>11. ASSUME NEW x \in Notes PROVE BudgetOf(x)'
  <2>1. Zombies(x)' = Zombies(x)
    BY <1>1, <1>3, <1>5 DEF Zombies, SameHandler
  <2>2. (PastSend(x)' <=> PastSend(x)) /\ (Acking(x) => Acking(x)')
    BY <1>1, <1>3, <1>5 DEF PastSend, Acking, SameHandler, IndInv, TypeOK
  <2>3. SendsLeft(x)' = SendsLeft(x) /\ DeliveriesLeft(x)' <= DeliveriesLeft(x)
        /\ DeliveriesLeft(x)' \in Nat
    BY <1>1, <2>2 DEF SendsLeft, DeliveriesLeft
  <2>4. Cardinality(Zombies(x))' = Cardinality(Zombies(x)) /\ BudgetOf(x)
    BY <2>1 DEF IndInv, BudgetInv, BudgetOf
  <2>5. QED
    BY <1>1, <2>3, <2>4, BudgetTypes DEF BudgetOf, IndInv
<1>12. QED
  BY <1>2, <1>8, <1>9, <1>10, <1>11 DEF IndInv, BudgetInv, BudgetOf

\* The connection goes: every delivery is taken back from a handler that works on
\* regardless, which costs each message at most one more send.
LEMMA DisconnectStep ==
    ASSUME IndInv, NEW lost \in SUBSET Notes,
           place' = [x \in Notes |-> IF x \in lost THEN "gone" ELSE Redelivered[x]],
           held' = {}, faults' = faults + 1, wiped' = wiped \cup lost, conn' = "down",
           UNCHANGED <<rejections, dlq, consuming, closing, pc, note, attempt, category,
                       sends, delivered, unsure, refused, stops>>
    PROVE  IndInv'
<1>1. TypeOK'
  BY DEF IndInv, TypeOK, Redelivered, Places, Conns
<1>2. HandlersInv'
  BY DEF IndInv, HandlersInv, HandlerOK, DeadLettered
<1>3. SendsInv' /\ DeadLettersJustified'
  BY DEF IndInv, SendsInv, DeadLettersJustified
<1>4. NoNotificationLost'
  BY DEF IndInv, TypeOK, NoNotificationLost, DeadLettered, Redelivered
<1>5. ASSUME NEW x \in Notes PROVE BudgetOf(x)'
  <2>1. ~PastSend(x)' /\ ~Acking(x)'
    BY DEF PastSend, Acking
  <2>2. place[x] = "gone" => place'[x] = "gone" /\ \A h \in held : note[h] # x
    BY DEF IndInv, TypeOK, Redelivered, HandlersInv, HolderOK
  <2>3. /\ BudgetOf(x) /\ faults \in Nat /\ MaxAttempts \in Nat /\ MaxAttempts > 0
        /\ rejections[x] \in Nat /\ sends[x] \in Nat /\ delivered[x] \in Nat /\ unsure[x] \in Nat
        /\ Cardinality(Zombies(x)) \in Nat /\ Zombies(x) \subseteq Handlers
    BY BudgetTypes DEF IndInv, BudgetInv, BudgetOf
  <2>4. /\ SendsLeft(x)' \in Nat /\ SendsLeft(x) \in Nat
        /\ SendsLeft(x)' <= SendsLeft(x) + 1
        /\ ~PastSend(x) => SendsLeft(x)' <= SendsLeft(x)
    BY <2>1, <2>2, <2>3 DEF SendsLeft
  <2>5. /\ DeliveriesLeft(x)' \in Nat /\ DeliveriesLeft(x) \in Nat
        /\ DeliveriesLeft(x)' <= DeliveriesLeft(x) + 1
        /\ ~Acking(x) => DeliveriesLeft(x)' <= DeliveriesLeft(x)
    BY <2>1, <2>2 DEF DeliveriesLeft
  <2>6. CASE \E h \in held : note[h] = x /\ pc[h] = "send"
    <3>1. PICK h \in held : note[h] = x /\ pc[h] = "send"
      BY <2>6
    <3>2. \A g \in held : note[g] = x => g = h
      BY <3>1 DEF IndInv, HandlersInv
    <3>3. ~PastSend(x) /\ ~Acking(x)
      BY <3>1, <3>2 DEF PastSend, Acking
    <3>4. Zombies(x)' = Zombies(x) \cup {h} /\ h \in Handlers \ Zombies(x)
      BY <3>1, <3>2 DEF Zombies, IndInv, TypeOK
    <3>5. Cardinality(Zombies(x))' = Cardinality(Zombies(x)) + 1
      BY <2>3, <3>4, ZombieCount
    <3>6. QED
      BY <2>3, <2>4, <2>5, <3>3, <3>5 DEF BudgetOf
  <2>7. CASE ~ \E h \in held : note[h] = x /\ pc[h] = "send"
    <3>1. Zombies(x)' = Zombies(x)
      BY <2>7 DEF Zombies, IndInv, TypeOK
    <3>2. Cardinality(Zombies(x))' = Cardinality(Zombies(x))
      BY <3>1
    <3>3. QED
      BY <2>3, <2>4, <2>5, <3>2 DEF BudgetOf
  <2>8. QED
    BY <2>6, <2>7
<1>6. QED
  BY <1>1, <1>2, <1>3, <1>4, <1>5 DEF IndInv, BudgetInv, BudgetOf

\* The process goes: nobody is left at work, and if a delivery was open it is a
\* crash and counts as a fault.
LEMMA ResetStep ==
    ASSUME IndInv, place' = Redelivered, Reset,
           faults' = faults + 1 \/ (faults' = faults /\ held = {}),
           UNCHANGED <<rejections, dlq, history, stops>>
    PROVE  IndInv'
<1> USE DEF history
<1>1. TypeOK'
  <2>1. Redelivered \in [Notes -> Places] /\ faults' \in Nat
    BY DEF IndInv, TypeOK, Redelivered, Places
  <2>2. /\ conn' \in Conns /\ consuming' \in BOOLEAN /\ closing' \in BOOLEAN
        /\ pc' \in [Handlers -> PCs] /\ note' \in [Handlers -> Notes \cup {NoNote}]
        /\ attempt' \in [Handlers -> Nat]
        /\ category' \in [Handlers -> Categories \cup {"none"}] /\ held' \subseteq Handlers
    BY DEF Reset, PCs, Conns
  <2>3. QED
    BY <2>1, <2>2 DEF IndInv, TypeOK
<1>2. HandlersInv'
  BY DEF HandlersInv, HandlerOK, Reset
<1>3. SendsInv' /\ DeadLettersJustified'
  BY DEF IndInv, SendsInv, DeadLettersJustified
<1>4. NoNotificationLost'
  BY DEF IndInv, TypeOK, NoNotificationLost, DeadLettered, Redelivered
<1>5. ASSUME NEW x \in Notes PROVE BudgetOf(x)'
  <2>1. ~PastSend(x)' /\ ~Acking(x)' /\ Zombies(x)' = {}
    BY DEF PastSend, Acking, Zombies, Reset
  <2>2. place[x] = "gone" => place'[x] = "gone"
    BY DEF IndInv, TypeOK, Redelivered
  <2>3. /\ BudgetOf(x) /\ faults \in Nat /\ MaxAttempts \in Nat /\ MaxAttempts > 0
        /\ rejections[x] \in Nat /\ sends[x] \in Nat /\ delivered[x] \in Nat /\ unsure[x] \in Nat
        /\ Cardinality(Zombies(x)) \in Nat
    BY BudgetTypes DEF IndInv, BudgetInv, BudgetOf
  <2>4. held = {} => ~PastSend(x) /\ ~Acking(x)
    BY DEF PastSend, Acking
  <2>5. /\ SendsLeft(x)' \in Nat /\ SendsLeft(x) \in Nat
        /\ SendsLeft(x)' <= SendsLeft(x) + (faults' - faults)
    BY <2>1, <2>2, <2>3, <2>4 DEF SendsLeft
  <2>6. /\ DeliveriesLeft(x)' \in Nat /\ DeliveriesLeft(x) \in Nat
        /\ DeliveriesLeft(x)' <= DeliveriesLeft(x) + (faults' - faults)
    BY <2>1, <2>2, <2>3, <2>4 DEF DeliveriesLeft
  <2>7. Cardinality(Zombies(x))' = 0
    BY <2>1, FS_EmptySet
  <2>8. QED
    BY <2>3, <2>5, <2>6, <2>7 DEF BudgetOf
<1>6. QED
  BY <1>1, <1>2, <1>3, <1>4, <1>5 DEF IndInv, BudgetInv, BudgetOf

--------------------------------------------------------------------------------
(* The theorems *)

\* Every step of the specification preserves the inductive invariant.
LEMMA NextIndInv == IndInv /\ [Next]_vars => IndInv'
<1> SUFFICES ASSUME IndInv, [Next]_vars PROVE IndInv'
  OBVIOUS
<1>0. conn \in Conns /\ consuming \in BOOLEAN /\ closing \in BOOLEAN /\ faults \in Nat /\ stops \in Nat
  BY DEF IndInv, TypeOK
<1>1. ASSUME NEW n \in Notes, Publish(n) \/ Expire(n) PROVE IndInv'
  BY <1>1, QueueStep DEF Publish, Expire
<1>2. ASSUME NEW h \in Handlers, NEW n \in Notes, Receive(h, n) PROVE IndInv'
  BY <1>2, ReceiveStep
<1>3. ASSUME NEW h \in Handlers, HandlerStep(h) PROVE IndInv'
  <2>1. ASSUME Ack(h) PROVE IndInv'
    BY <2>1, SettleStep DEF Ack
  <2>2. ASSUME Drop(h) PROVE IndInv'
    BY <2>2, SettleStep DEF Drop, Reject
  <2>3. QED
    BY <1>3, <2>1, <2>2, SendStep, DeadLetterStep DEF HandlerStep
<1>4. ASSUME NEW h \in Handlers, DeadLetterFails(h) PROVE IndInv'
  BY <1>4, SettleStep DEF DeadLetterFails, Reject
<1>5. ASSUME Connect \/ Subscribe \/ Shutdown PROVE IndInv'
  <2>1. /\ conn' \in Conns /\ consuming' \in BOOLEAN /\ closing' \in BOOLEAN /\ stops' \in Nat
        /\ UNCHANGED <<broker, work, history, faults>>
    <3>1. CASE Connect
      BY <1>0, <3>1 DEF Connect, Conns
    <3>2. CASE Subscribe
      BY <1>0, <3>2 DEF Subscribe, Conns
    <3>3. CASE Shutdown
      BY <1>0, <3>3 DEF Shutdown, Conns
    <3>4. QED
      BY <1>5, <3>1, <3>2, <3>3
  <2>2. QED
    BY <2>1, ProcessStep
<1>6. ASSUME ConnectionLost PROVE IndInv'
  <2>1. Redelivered = [x \in Notes |-> IF x \in {} THEN "gone" ELSE Redelivered[x]]
        /\ wiped = wiped \cup {}
    BY DEF Redelivered
  <2>2. QED
    BY <1>6, <2>1, DisconnectStep DEF ConnectionLost, history
<1>7. ASSUME BrokerRestart PROVE IndInv'
  <2> DEFINE lost == {n \in Volatile : place[n] \in {"main", "unacked", "retry"}}
  <2>1. lost \in SUBSET Notes
    BY NotificationsAssumption DEF NotificationsAssumption
  <2>2. PICK L \in SUBSET Notes : L = lost
    BY <2>1
  <2>3. QED
    BY <1>7, <2>2, DisconnectStep DEF BrokerRestart
<1>8. ASSUME Crash PROVE IndInv'
  BY <1>8, ResetStep DEF Crash
<1>9. ASSUME Restart PROVE IndInv'
  <2>1. held = {}
    BY <1>9 DEF Restart, IndInv, HandlersInv, HandlerOK, TypeOK
  <2>2. QED
    BY <1>9, <2>1, ResetStep DEF Restart
<1>10. ASSUME UNCHANGED vars PROVE IndInv'
  BY <1>0, <1>10, ProcessStep DEF vars, process
<1>11. QED
  BY <1>1, <1>2, <1>3, <1>4, <1>5, <1>6, <1>7, <1>8, <1>9, <1>10 DEF Next

\* The inductive invariant holds in every reachable state, for any number of
\* messages, handlers and faults and any attempt budget.
THEOREM Invariance == Spec => []IndInv
BY InitIndInv, NextIndInv, PTL DEF Spec

\* Every variable of the consumer and of the broker keeps its type.
THEOREM TypeCorrect == Spec => []TypeOK
<1>1. IndInv => TypeOK
  BY DEF IndInv
<1>2. QED
  BY <1>1, Invariance, PTL

\* Only a broker restart loses a notification; no crash, lost connection or
\* failed DLQ publication does.
THEOREM AtLeastOnceDelivery == Spec => []NoNotificationLost
<1>1. IndInv => NoNotificationLost
  BY DEF IndInv
<1>2. QED
  BY <1>1, Invariance, PTL

\* Each fault costs at most one send beyond NOTIFY_MAX_ATTEMPTS.
THEOREM BoundedAttempts == Spec => []AttemptBudget
<1>1. ASSUME IndInv, NEW n \in Notes PROVE sends[n] <= MaxAttempts + faults
  BY <1>1, BudgetTypes DEF IndInv, BudgetInv
<1>2. IndInv => AttemptBudget
  BY <1>1 DEF AttemptBudget
<1>3. QED
  BY <1>2, Invariance, PTL

\* Each duplicate in the chat has its ambiguous answer or its fault.
THEOREM BoundedDuplicates == Spec => []DuplicatesExplained
<1>1. ASSUME IndInv, NEW n \in Notes PROVE delivered[n] <= 1 + unsure[n] + faults
  BY <1>1, BudgetTypes DEF IndInv, BudgetInv
<1>2. IndInv => DuplicatesExplained
  BY <1>1 DEF DuplicatesExplained
<1>3. QED
  BY <1>2, Invariance, PTL

\* The category of a dead letter tells the truth about its sends.
THEOREM TruthfulDeadLetters == Spec => []DeadLettersJustified
<1>1. IndInv => DeadLettersJustified
  BY DEF IndInv
<1>2. QED
  BY <1>1, Invariance, PTL

================================================================================
