------------------------------- MODULE LlmProofs -------------------------------
(* Safety of Llm for all orders, envelopes, thresholds, replicas and bounds. *)
EXTENDS Llm, FiniteSetTheorems, TLAPS

\* The bags that stand for RabbitMQ's queues: adding and taking a message.
LEMMA BagUpdates ==
    ASSUME NEW S, NEW q \in [S -> Nat], NEW m \in S
    PROVE  /\ Put(q, m) \in [S -> Nat]
           /\ Put(q, m)[m] > 0
           /\ \A x \in S : q[x] > 0 => Put(q, m)[x] > 0
           /\ \A x \in S : Put(q, m)[x] >= q[x]
           /\ q[m] > 0 => Take(q, m) \in [S -> Nat]
           /\ \A x \in S \ {m} : Take(q, m)[x] = q[x]
BY DEF Put, Take

\* The orders of an envelope that parses are its elements.
LEMMA MessageShapes ==
    /\ \A m \in SUBSET Orders : m \in Messages /\ m # Malformed /\ Contents(m) = m
    /\ \A m \in Messages : Contents(m) \subseteq Orders
    /\ Malformed \in Messages /\ Contents(Malformed) = {}
    /\ {} \in Messages /\ Envelopes \subseteq Messages
BY LlmAssumption DEF LlmAssumption, Messages, Contents

\* What is settled stays settled: verdicts, log entries and dead letters are never
\* taken back.
LEMMA SettledStable ==
    ASSUME TypeOK, TypeOK',
           \A o \in Orders : verdicts'[o] >= verdicts[o],
           skipped \subseteq skipped', failed \subseteq failed', dlq \subseteq dlq'
    PROVE  \A o \in Orders : Settled(o) => Settled(o)'
<1> TAKE o \in Orders
<1> HAVE Settled(o)
<1>1. CASE verdicts[o] > 0
  <2>1. verdicts[o] \in Nat /\ verdicts'[o] \in Nat /\ verdicts'[o] >= verdicts[o]
    BY DEF TypeOK
  <2> QED BY <1>1, <2>1 DEF Settled
<1>2. CASE o \in skipped \cup failed
  BY <1>2 DEF Settled
<1>3. CASE \E m \in dlq : o \in Contents(m)
  BY <1>3 DEF Settled
<1> QED BY <1>1, <1>2, <1>3 DEF Settled

\* A handler that does not move keeps its part of the invariant.
LEMMA OtherHandler ==
    ASSUME TypeOK, \A o \in Orders : Settled(o) => Settled(o)',
           NEW g \in Handlers, HandlerOK(g),
           pc'[g] = pc[g], msg'[g] = msg[g], todo'[g] = todo[g],
           current'[g] = current[g], retryable'[g] = retryable[g],
           g \in held' => g \in held
    PROVE  HandlerOK(g)'
<1>1. Contents(msg[g])' = Contents(msg[g]) /\ Contents(msg[g]) \subseteq Orders
  BY MessageShapes DEF TypeOK, Contents
<1> QED BY <1>1 DEF HandlerOK

\* In the initial state there is nothing to lose.
LEMMA InitIndInv == Init => IndInv
<1> SUFFICES ASSUME Init PROVE IndInv
  OBVIOUS
<1>1. TypeOK
  BY MessageShapes DEF Init, TypeOK, PCs
<1>2. \A h \in Handlers : HandlerOK(h)
  BY DEF Init, HandlerOK
<1>3. NoOrderLost
  BY DEF Init, NoOrderLost
<1> QED BY <1>1, <1>2, <1>3 DEF IndInv

\* A delivered message leaves the queue and is unacknowledged.
LEMMA DeliverStep ==
    ASSUME IndInv, NEW h \in Handlers, NEW m \in Messages, Deliver(h, m)
    PROVE  IndInv'
<1> USE DEF IndInv, history
<1>1. TypeOK'
  <2>1. queue' \in [Messages -> Nat]
    BY BagUpdates DEF TypeOK, Deliver
  <2>2. Contents(m) \subseteq Orders
    BY MessageShapes
  <2> QED BY <2>1, <2>2 DEF TypeOK, Deliver, PCs
<1>2. \A o \in Orders : Settled(o) => Settled(o)'
  BY DEF Deliver, Settled
<1>3. ASSUME NEW g \in Handlers PROVE HandlerOK(g)'
  <2>1. CASE g = h
    <3>1. /\ msg'[h] = m /\ todo'[h] = Contents(m) /\ h \in held'
          /\ pc'[h] = IF m = Malformed THEN "reject" ELSE IF m = {} THEN "ack" ELSE "assess"
      BY DEF Deliver, TypeOK
    <3>2. m = {} => Contents(m) = {}
      BY MessageShapes
    <3> QED BY <2>1, <3>1, <3>2 DEF HandlerOK
  <2>2. CASE g # h
    <3>1. HandlerOK(g) OBVIOUS
    <3> QED BY <2>2, <3>1, <1>2, OtherHandler DEF Deliver, TypeOK
  <2> QED BY <2>1, <2>2
<1>4. NoOrderLost'
  <2> SUFFICES ASSUME NEW o \in Orders, requests'[o] > 0
               PROVE  (Settled(o) \/ Queued(o) \/ Unacked(o))'
    BY DEF NoOrderLost
  <2>1. Settled(o) \/ Queued(o) \/ Unacked(o)
    BY DEF NoOrderLost, Deliver
  <2>2. CASE Settled(o)
    BY <2>2, <1>2
  <2>3. CASE o \in Contents(m)
    <3>1. m # {} /\ m # Malformed
      BY <2>3, MessageShapes
    <3>2. pc'[h] = "assess" /\ h \in held' /\ msg'[h] = m
      BY <3>1 DEF Deliver, TypeOK
    <3> QED BY <2>3, <3>2 DEF Unacked
  <2>4. CASE Queued(o) /\ o \notin Contents(m)
    <3>1. \A x \in Messages \ {m} : queue'[x] = queue[x]
      BY BagUpdates DEF Deliver, TypeOK
    <3> QED BY <2>4, <3>1 DEF Queued, Deliver
  <2>5. CASE Unacked(o)
    <3>1. PICK g \in held : pc[g] # "ack" /\ o \in Contents(msg[g])
      BY <2>5 DEF Unacked
    <3>2. g # h /\ g \in Handlers
      BY DEF HandlerOK, TypeOK, Deliver
    <3>3. pc'[g] = pc[g] /\ msg'[g] = msg[g] /\ g \in held'
      BY <3>2 DEF Deliver, TypeOK
    <3> QED BY <3>1, <3>3 DEF Unacked
  <2> QED BY <2>1, <2>2, <2>3, <2>4, <2>5
<1> QED BY <1>1, <1>3, <1>4

\* An order of the message is over: settled, or remembered to be retried.  The
\* message may become ready to be acknowledged only if nothing of it is left.
LEMMA DoneStep ==
    ASSUME IndInv, TypeOK', NEW h \in Handlers, NEW o \in todo[h], NEW again \in BOOLEAN,
           pc[h] \in {"assess", "publish"}, Done(h, o, again),
           ~again => Settled(o)',
           \A x \in Orders : Settled(x) => Settled(x)',
           \A g \in Handlers \ {h} : current'[g] = current[g],
           UNCHANGED <<queue, retry, msg, held, requests>>
    PROVE  IndInv'
<1> USE DEF IndInv, history
<1>1. /\ todo'[h] = todo[h] \ {o}
      /\ retryable'[h] = IF again THEN retryable[h] \cup {o} ELSE retryable[h]
      /\ pc'[h] = IF todo'[h] # {} THEN "assess" ELSE IF retryable'[h] # {} THEN "retry" ELSE "ack"
      /\ \A g \in Handlers \ {h} : /\ pc'[g] = pc[g] /\ todo'[g] = todo[g]
                                   /\ retryable'[g] = retryable[g]
  BY DEF Done, TypeOK
<1>2. msg[h] # Malformed /\ Contents(msg[h]) \subseteq Orders /\ Contents(msg[h])' = Contents(msg[h])
  BY MessageShapes DEF HandlerOK, TypeOK, Contents
<1>3. \A x \in Contents(msg[h]) : x \in todo'[h] \/ x \in retryable'[h] \/ Settled(x)'
  BY <1>1, <1>2 DEF HandlerOK
<1>4. ASSUME NEW g \in Handlers PROVE HandlerOK(g)'
  <2>1. CASE g = h
    BY <2>1, <1>1, <1>2, <1>3 DEF HandlerOK
  <2>2. CASE g # h
    <3>1. HandlerOK(g) OBVIOUS
    <3> QED BY <2>2, <3>1, <1>1, OtherHandler
  <2> QED BY <2>1, <2>2
<1>5. NoOrderLost'
  <2> SUFFICES ASSUME NEW x \in Orders, requests'[x] > 0
               PROVE  (Settled(x) \/ Queued(x) \/ Unacked(x))'
    BY DEF NoOrderLost
  <2>1. Settled(x) \/ Queued(x) \/ Unacked(x)
    BY DEF NoOrderLost
  <2>2. CASE Settled(x)
    BY <2>2
  <2>3. CASE Queued(x)
    BY <2>3 DEF Queued
  <2>4. CASE Unacked(x)
    <3>1. PICK g \in held : pc[g] # "ack" /\ x \in Contents(msg[g])
      BY <2>4 DEF Unacked
    <3>2. CASE g = h /\ pc'[h] = "ack"
      BY <3>1, <3>2, <1>1, <1>3 DEF Unacked
    <3>3. CASE ~(g = h /\ pc'[h] = "ack")
      <4>1. g \in Handlers BY DEF TypeOK
      <4>2. pc'[g] # "ack" BY <3>1, <3>3, <4>1, <1>1
      <4> QED BY <3>1, <4>2 DEF Unacked
    <3> QED BY <3>2, <3>3
  <2> QED BY <2>1, <2>2, <2>3, <2>4
<1> QED BY <1>4, <1>5

\* The model assesses an order, or fails to: DoneStep, unless a verdict is due.
LEMMA AssessStep ==
    ASSUME IndInv, NEW h \in Handlers, NEW o \in Orders, NEW a \in Assessments, Assess(h, o, a)
    PROVE  IndInv'
<1> USE DEF IndInv, broker
<1>1. CASE decide(a)
  <2>1. TypeOK'
    BY <1>1 DEF TypeOK, Assess, PCs
  <2>2. \A x \in Orders : Settled(x) => Settled(x)'
    BY <1>1 DEF Assess, Settled
  <2>3. ASSUME NEW g \in Handlers PROVE HandlerOK(g)'
    <3>1. HandlerOK(g) OBVIOUS
    <3>2. CASE g = h
      <4>1. /\ pc[h] = "assess" /\ pc'[h] = "publish" /\ current'[h] = {o} /\ o \in todo[h]
            /\ msg'[h] = msg[h] /\ todo'[h] = todo[h] /\ retryable'[h] = retryable[h]
        BY <1>1 DEF Assess, TypeOK
      <4>2. Contents(msg[h])' = Contents(msg[h]) /\ Contents(msg[h]) \subseteq Orders
        BY <4>1, MessageShapes DEF TypeOK, Contents
      <4> QED BY <3>1, <3>2, <4>1, <4>2, <2>2 DEF HandlerOK
    <3>3. CASE g # h
      BY <3>1, <3>3, <2>2, <1>1, OtherHandler DEF Assess, TypeOK
    <3> QED BY <3>2, <3>3
  <2>4. ASSUME NEW x \in Orders, Unacked(x) PROVE Unacked(x)'
    <3>1. PICK g \in held : pc[g] # "ack" /\ x \in Contents(msg[g])
      BY <2>4 DEF Unacked
    <3>2. pc'[g] # "ack" /\ msg'[g] = msg[g] /\ held' = held
      BY <1>1, <3>1 DEF Assess, TypeOK
    <3> QED BY <3>1, <3>2 DEF Unacked
  <2>5. NoOrderLost'
    BY <1>1, <2>2, <2>4 DEF NoOrderLost, Queued, Assess
  <2> QED BY <2>1, <2>3, <2>5
<1>2. CASE ~decide(a)
  <2>1. TypeOK'
    BY <1>2 DEF TypeOK, Assess, Done, PCs
  <2>2. \A x \in Orders : Settled(x) => Settled(x)'
    BY <1>2 DEF Assess, Settled
  <2>3. Settled(o)'
    BY <1>2 DEF Assess, Settled
  <2>4. /\ o \in todo[h] /\ pc[h] \in {"assess", "publish"} /\ Done(h, o, FALSE)
        /\ \A g \in Handlers \ {h} : current'[g] = current[g]
        /\ UNCHANGED <<queue, retry, msg, held, requests>>
    BY <1>2 DEF Assess
  <2> QED BY <2>1, <2>2, <2>3, <2>4, DoneStep
<1> QED BY <1>1, <1>2

\* The model cannot be reached or refuses.
LEMMA AssessFailsStep ==
    ASSUME IndInv, NEW h \in Handlers, NEW o \in Orders, NEW s \in Failures, AssessFails(h, o, s)
    PROVE  IndInv'
<1> USE DEF IndInv, broker
<1> DEFINE again == classify(s) = "transient"
<1>1. TypeOK'
  BY DEF TypeOK, AssessFails, Done, PCs
<1>2. \A x \in Orders : Settled(x) => Settled(x)'
  BY DEF AssessFails, Settled
<1>3. ~again => Settled(o)'
  BY DEF AssessFails, Settled
<1>4. /\ o \in todo[h] /\ pc[h] \in {"assess", "publish"} /\ Done(h, o, again) /\ again \in BOOLEAN
      /\ \A g \in Handlers \ {h} : current'[g] = current[g]
      /\ UNCHANGED <<queue, retry, msg, held, requests>>
  BY DEF AssessFails
<1> HIDE DEF again
<1> QED BY <1>1, <1>2, <1>3, <1>4, DoneStep

\* A verdict is published, or is not and its order is given up.
LEMMA PublishStep ==
    ASSUME IndInv, NEW h \in Handlers, NEW o \in Orders,
           PublishResult(h, o) \/ PublishResultFails(h, o)
    PROVE  IndInv'
<1> USE DEF IndInv, history
<1>1. verdicts' \in {verdicts, Put(verdicts, o)} /\ verdicts \in [Orders -> Nat]
  BY DEF PublishResult, PublishResultFails, TypeOK
<1>2. verdicts' \in [Orders -> Nat] /\ \A x \in Orders : verdicts'[x] >= verdicts[x]
  BY <1>1, BagUpdates
<1>3. TypeOK'
  BY <1>2 DEF TypeOK, PublishResult, PublishResultFails, Done, PCs
<1>4. skipped \subseteq skipped' /\ failed \subseteq failed' /\ dlq \subseteq dlq'
  BY DEF PublishResult, PublishResultFails
<1>5. \A x \in Orders : Settled(x) => Settled(x)'
  BY <1>2, <1>3, <1>4, SettledStable
<1>6. Settled(o)'
  <2>1. CASE PublishResult(h, o)
    <3>1. verdicts' = Put(verdicts, o)
      BY <2>1 DEF PublishResult
    <3> QED BY <3>1, <1>1, BagUpdates DEF Settled
  <2>2. CASE PublishResultFails(h, o)
    BY <2>2 DEF PublishResultFails, Settled
  <2> QED BY <2>1, <2>2
<1>7. /\ o \in todo[h] /\ pc[h] \in {"assess", "publish"} /\ Done(h, o, FALSE)
      /\ \A g \in Handlers \ {h} : current'[g] = current[g]
      /\ UNCHANGED <<queue, retry, msg, held, requests>>
  BY DEF PublishResult, PublishResultFails, HandlerOK, TypeOK
<1> QED BY <1>3, <1>5, <1>6, <1>7, DoneStep

\* The failed orders are on the retry queue before their message is acknowledged;
\* when they may not be, the message is going to be dead-lettered instead.
LEMMA RepublishStep ==
    ASSUME IndInv, NEW h \in Handlers, Republish(h) \/ RepublishFails(h)
    PROVE  IndInv'
<1> USE DEF IndInv, history
<1>1. /\ retryable[h] \in SUBSET Orders /\ retry \in [SUBSET Orders -> Nat]
      /\ retry' \in {retry, Put(retry, retryable[h])}
  BY DEF Republish, RepublishFails, Resend, TypeOK
<1>2. retry' \in [SUBSET Orders -> Nat] /\ \A m \in SUBSET Orders : retry[m] > 0 => retry'[m] > 0
  BY <1>1, BagUpdates
<1>3. TypeOK'
  <2>1. retryable[h] # {}
    BY DEF Republish, RepublishFails, HandlerOK
  <2>2. retry'[{}] = 0
    BY <1>1, <2>1 DEF Put, TypeOK
  <2> QED BY <1>2, <2>2 DEF TypeOK, Republish, RepublishFails, PCs
<1>4. \A x \in Orders : Settled(x) => Settled(x)'
  BY DEF Republish, RepublishFails, Settled
<1>5. /\ pc[h] = "retry" /\ pc'[h] \in {"ack", "reject"}
      /\ UNCHANGED <<queue, msg, todo, current, retryable, held, requests>>
      /\ \A g \in Handlers \ {h} : pc'[g] = pc[g]
  BY DEF Republish, RepublishFails, TypeOK
<1>6. ASSUME NEW g \in Handlers PROVE HandlerOK(g)'
  <2>1. HandlerOK(g) OBVIOUS
  <2>2. CASE g = h
    BY <2>1, <2>2, <1>5 DEF HandlerOK
  <2>3. CASE g # h
    BY <2>1, <2>3, <1>4, <1>5, OtherHandler
  <2> QED BY <2>2, <2>3
<1>7. NoOrderLost'
  <2> SUFFICES ASSUME NEW x \in Orders, requests'[x] > 0
               PROVE  (Settled(x) \/ Queued(x) \/ Unacked(x))'
    BY DEF NoOrderLost
  <2>1. Settled(x) \/ Queued(x) \/ Unacked(x)
    BY <1>5 DEF NoOrderLost
  <2>2. CASE Settled(x)
    BY <2>2, <1>4
  <2>3. CASE Queued(x)
    BY <2>3, <1>2, <1>5 DEF Queued
  <2>4. CASE Unacked(x)
    <3>1. PICK g \in held : pc[g] # "ack" /\ x \in Contents(msg[g])
      BY <2>4 DEF Unacked
    <3>2. CASE g = h /\ pc'[h] = "ack"
      <4>1. x \in retryable[h] \/ Settled(x)
        BY <3>1, <3>2, <1>5 DEF HandlerOK
      <4>2. retry' = Put(retry, retryable[h])
        BY <3>2 DEF Republish, RepublishFails, TypeOK, Resend
      <4>3. retry'[retryable[h]] > 0
        BY <4>2, <1>1, BagUpdates
      <4> QED BY <4>1, <4>3, <1>1, <1>4 DEF Queued
    <3>3. CASE ~(g = h /\ pc'[h] = "ack")
      <4>1. g \in Handlers BY DEF TypeOK
      <4>2. pc'[g] # "ack" BY <3>1, <3>3, <4>1, <1>5
      <4> QED BY <3>1, <4>2, <1>5 DEF Unacked
    <3> QED BY <3>2, <3>3
  <2> QED BY <2>1, <2>2, <2>3, <2>4
<1> QED BY <1>3, <1>6, <1>7

\* A handler lets go of its message when nothing of it is left (Ack), when it is in
\* the DLQ (Reject), when it is ready again (Crash), or when it was not its own.
LEMMA ReleaseStep ==
    ASSUME IndInv, TypeOK', NEW h \in Handlers, pc[h] # "idle", Release(h),
           \A m \in Messages : queue[m] > 0 => queue'[m] > 0,
           dlq \subseteq dlq',
           \/ pc[h] = "ack"
           \/ h \notin held
           \/ msg[h] \in dlq'
           \/ queue'[msg[h]] > 0,
           UNCHANGED <<retry, verdicts, history>>
    PROVE  IndInv'
<1> USE DEF IndInv, history
<1>1. \A x \in Orders : Settled(x) => Settled(x)'
  BY DEF Settled
<1>2. /\ pc'[h] = "idle" /\ msg'[h] = {} /\ h \notin held' /\ held' = held \ {h}
      /\ \A g \in Handlers \ {h} :
            /\ pc'[g] = pc[g] /\ msg'[g] = msg[g] /\ todo'[g] = todo[g]
            /\ current'[g] = current[g] /\ retryable'[g] = retryable[g]
  BY DEF Release, TypeOK
<1>3. ASSUME NEW g \in Handlers PROVE HandlerOK(g)'
  <2>1. HandlerOK(g) OBVIOUS
  <2>2. CASE g = h
    BY <2>2, <1>2 DEF HandlerOK
  <2>3. CASE g # h
    BY <2>1, <2>3, <1>1, <1>2, OtherHandler
  <2> QED BY <2>2, <2>3
<1>4. NoOrderLost'
  <2> SUFFICES ASSUME NEW x \in Orders, requests'[x] > 0
               PROVE  (Settled(x) \/ Queued(x) \/ Unacked(x))'
    BY DEF NoOrderLost
  <2>1. Settled(x) \/ Queued(x) \/ Unacked(x)
    BY DEF NoOrderLost
  <2>2. CASE Settled(x)
    BY <2>2, <1>1
  <2>3. CASE Queued(x)
    BY <2>3 DEF Queued
  <2>4. CASE Unacked(x)
    <3>1. PICK g \in held : pc[g] # "ack" /\ x \in Contents(msg[g])
      BY <2>4 DEF Unacked
    <3>2. g \in Handlers /\ msg[g] \in Messages
      BY DEF TypeOK
    <3>3. CASE g = h
      <4>1. msg[h] \in dlq' \/ queue'[msg[h]] > 0
        BY <3>1, <3>3
      <4> QED BY <3>1, <3>2, <3>3, <4>1 DEF Settled, Queued
    <3>4. CASE g # h
      BY <3>1, <3>2, <3>4, <1>2 DEF Unacked
    <3> QED BY <3>3, <3>4
  <2> QED BY <2>1, <2>2, <2>3, <2>4
<1> QED BY <1>3, <1>4

\* The ways in which a handler lets go of its message.
LEMMA LetGoStep ==
    ASSUME IndInv, NEW h \in Handlers, Ack(h) \/ Reject(h) \/ Crash(h)
    PROVE  IndInv'
<1> USE DEF IndInv, broker, history
<1>1. queue \in [Messages -> Nat] /\ msg[h] \in Messages
  BY DEF TypeOK
<1>2. pc[h] # "idle" /\ Release(h) /\ UNCHANGED <<retry, verdicts, history>>
  BY DEF Ack, Reject, Crash
<1>3. queue' \in {queue, Redelivered(h)} /\ Redelivered(h) \in {queue, Put(queue, msg[h])}
  BY DEF Ack, Reject, Crash, Redelivered
<1>4. queue' \in [Messages -> Nat] /\ \A m \in Messages : queue[m] > 0 => queue'[m] > 0
  BY <1>1, <1>3, BagUpdates
<1>5. dlq \subseteq dlq' /\ dlq' \subseteq Messages
  BY <1>1 DEF Ack, Reject, Crash, TypeOK
<1>6. inputs' \in Nat /\ faults' \in Nat
  BY DEF Ack, Reject, Crash, TypeOK
<1>7. TypeOK'
  BY <1>2, <1>4, <1>5, <1>6, MessageShapes DEF TypeOK, Release, PCs
<1>8. pc[h] = "ack" \/ h \notin held \/ msg[h] \in dlq' \/ queue'[msg[h]] > 0
  <2>1. CASE Ack(h)
    BY <2>1 DEF Ack
  <2>2. CASE Reject(h)
    BY <2>2 DEF Reject
  <2>3. CASE Crash(h)
    <3>1. h \in held => queue' = Put(queue, msg[h])
      BY <2>3 DEF Crash, Redelivered
    <3> QED BY <3>1, <1>1, BagUpdates
  <2> QED BY <2>1, <2>2, <2>3
<1> QED BY <1>2, <1>4, <1>5, <1>7, <1>8, ReleaseStep

\* A handler that outlives its connection no longer holds its message, which is
\* ready again.
LEMMA ConnectionLostStep ==
    ASSUME IndInv, NEW h \in Handlers, ConnectionLost(h)
    PROVE  IndInv'
<1> USE DEF IndInv, history
<1>1. queue \in [Messages -> Nat] /\ msg[h] \in Messages /\ queue' = Put(queue, msg[h])
  BY DEF TypeOK, ConnectionLost, Redelivered
<1>2. /\ queue' \in [Messages -> Nat] /\ queue'[msg[h]] > 0
      /\ \A m \in Messages : queue[m] > 0 => queue'[m] > 0
  BY <1>1, BagUpdates
<1>3. TypeOK'
  BY <1>2 DEF TypeOK, ConnectionLost
<1>4. \A x \in Orders : Settled(x) => Settled(x)'
  BY DEF ConnectionLost, Settled
<1>5. ASSUME NEW g \in Handlers PROVE HandlerOK(g)'
  <2>1. HandlerOK(g) OBVIOUS
  <2> QED BY <2>1, <1>4, OtherHandler DEF ConnectionLost
<1>6. NoOrderLost'
  <2> SUFFICES ASSUME NEW x \in Orders, requests'[x] > 0
               PROVE  (Settled(x) \/ Queued(x) \/ Unacked(x))'
    BY DEF NoOrderLost
  <2>1. Settled(x) \/ Queued(x) \/ Unacked(x)
    BY DEF NoOrderLost, ConnectionLost
  <2>2. CASE Settled(x)
    BY <2>2, <1>4
  <2>3. CASE Queued(x)
    BY <2>3, <1>2 DEF Queued, ConnectionLost
  <2>4. CASE Unacked(x)
    <3>1. PICK g \in held : pc[g] # "ack" /\ x \in Contents(msg[g])
      BY <2>4 DEF Unacked
    <3>2. CASE g = h
      BY <3>1, <3>2, <1>1, <1>2 DEF Queued
    <3>3. CASE g # h
      BY <3>1, <3>3 DEF Unacked, ConnectionLost
    <3> QED BY <3>2, <3>3
  <2> QED BY <2>1, <2>2, <2>3, <2>4
<1> QED BY <1>3, <1>5, <1>6

\* A message of the retry queue is back on assess.requests.
LEMMA ExpireStep ==
    ASSUME IndInv, NEW m \in SUBSET Orders, Expire(m)
    PROVE  IndInv'
<1> USE DEF IndInv, work, history
<1>1. m \in Messages /\ Contents(m) = m
  BY MessageShapes
<1>2. /\ queue' \in [Messages -> Nat] /\ queue'[m] > 0
      /\ \A x \in Messages : queue[x] > 0 => queue'[x] > 0
  BY <1>1, BagUpdates DEF Expire, TypeOK
<1>3. retry' \in [SUBSET Orders -> Nat] /\ \A x \in (SUBSET Orders) \ {m} : retry'[x] = retry[x]
  <2>1. retry \in [SUBSET Orders -> Nat] /\ retry[m] > 0 /\ retry' = Take(retry, m)
    BY DEF Expire, TypeOK
  <2> QED BY ONLY <2>1, m \in SUBSET Orders, BagUpdates
<1>4. TypeOK'
  BY <1>2, <1>3 DEF TypeOK, Expire
<1>5. \A x \in Orders : Settled(x) => Settled(x)'
  BY DEF Expire, Settled
<1>6. ASSUME NEW g \in Handlers PROVE HandlerOK(g)'
  <2>1. HandlerOK(g) OBVIOUS
  <2> QED BY <2>1, <1>5, OtherHandler DEF Expire
<1>7. \A x \in Orders : Queued(x) => Queued(x)'
  BY <1>1, <1>2, <1>3 DEF Queued
<1>8. \A x \in Orders : Unacked(x) => Unacked(x)'
  BY DEF Unacked, Expire
<1>9. NoOrderLost'
  BY <1>5, <1>7, <1>8 DEF NoOrderLost, Expire
<1> QED BY <1>4, <1>6, <1>9

\* A newly requested order waits on assess.requests.
LEMMA RequestStep ==
    ASSUME IndInv, NEW m \in Messages, Request(m)
    PROVE  IndInv'
<1> USE DEF IndInv, work
<1>1. /\ queue' \in [Messages -> Nat] /\ queue'[m] > 0
      /\ \A x \in Messages : queue[x] > 0 => queue'[x] > 0
  BY BagUpdates DEF Request, TypeOK
<1>2. requests' \in [Orders -> Nat] /\ inputs' \in Nat
  BY DEF Request, TypeOK
<1>3. TypeOK'
  BY <1>1, <1>2 DEF TypeOK, Request
<1>4. \A x \in Orders : Settled(x) => Settled(x)'
  BY DEF Request, Settled
<1>5. ASSUME NEW g \in Handlers PROVE HandlerOK(g)'
  <2>1. HandlerOK(g) OBVIOUS
  <2> QED BY <2>1, <1>4, OtherHandler DEF Request
<1>6. ASSUME NEW x \in Orders, Queued(x) PROVE Queued(x)'
  BY <1>1, <1>6 DEF Queued, Request
<1>7. \A x \in Orders : Unacked(x) => Unacked(x)'
  BY DEF Unacked, Request
<1>8. ASSUME NEW x \in Contents(m) PROVE Queued(x)'
  BY <1>1, <1>8 DEF Queued, Contents
<1>9. \A x \in Orders \ Contents(m) : requests'[x] = requests[x]
  BY DEF Request
<1>10. NoOrderLost'
  BY <1>4, <1>6, <1>7, <1>8, <1>9 DEF NoOrderLost
<1> QED BY <1>3, <1>5, <1>10

\* Every step, and a step that changes nothing, keeps the invariant.
LEMMA NextIndInv == IndInv /\ [Next]_vars => IndInv'
<1> SUFFICES ASSUME IndInv, [Next]_vars PROVE IndInv'
  OBVIOUS
<1>1. ASSUME NEW h \in Handlers, NEW m \in Messages, Deliver(h, m) PROVE IndInv'
  BY <1>1, DeliverStep
<1>2. ASSUME NEW h \in Handlers, HandlerStep(h) PROVE IndInv'
  BY <1>2, AssessStep, AssessFailsStep, PublishStep, RepublishStep, LetGoStep DEF HandlerStep
<1>3. ASSUME NEW h \in Handlers, NEW o \in Orders, PublishResultFails(h, o) PROVE IndInv'
  BY <1>3, PublishStep
<1>4. ASSUME NEW h \in Handlers, RepublishFails(h) PROVE IndInv'
  BY <1>4, RepublishStep
<1>5. ASSUME NEW h \in Handlers, Crash(h) PROVE IndInv'
  BY <1>5, LetGoStep
<1>6. ASSUME NEW h \in Handlers, ConnectionLost(h) PROVE IndInv'
  BY <1>6, ConnectionLostStep
<1>7. ASSUME NEW m \in SUBSET Orders, Expire(m) PROVE IndInv'
  BY <1>7, ExpireStep
<1>8. ASSUME NEW m \in Envelopes \cup {Malformed}, Request(m) PROVE IndInv'
  BY <1>8, RequestStep, MessageShapes
<1>9. CASE UNCHANGED vars
  BY <1>9 DEF IndInv, TypeOK, HandlerOK, NoOrderLost, Settled, Queued, Unacked, Contents,
              vars, broker, work, history
<1> QED BY <1>1, <1>2, <1>3, <1>4, <1>5, <1>6, <1>7, <1>8, <1>9 DEF Next

\* The inductive invariant holds in every reachable state.
THEOREM Invariance == Spec => []IndInv
BY InitIndInv, NextIndInv, PTL DEF Spec

\* Queues, handlers and counters of llm keep their types.
THEOREM TypeCorrect == Spec => []TypeOK
<1>1. IndInv => TypeOK
  BY DEF IndInv
<1> QED BY <1>1, Invariance, PTL

\* A requested order is never lost without a trace: it is answered, skipped, logged
\* as failed or dead-lettered, or some queue or unacknowledged delivery still has
\* it, for envelopes of any size of which any part may fail, and any number of
\* replicas, crashes and lost connections.
THEOREM RequestedOrdersKept == Spec => []NoOrderLost
<1>1. IndInv => NoOrderLost
  BY DEF IndInv
<1> QED BY <1>1, Invariance, PTL

--------------------------------------------------------------------------------
(* Verdicts, requests and faults *)

\* The copies of a message in a queue are numbered.
LEMMA CopiesElements ==
    ASSUME NEW S, NEW q \in [S -> Nat], NEW o, NEW c
    PROVE  c \in Copies(q, o) <=>
               \E m \in S : o \in Contents(m) /\ \E i \in 1 .. q[m] : c = <<m, i>>
<1> DEFINE T == {x \in S : o \in Contents(x)}
<1>1. DOMAIN q = S
  OBVIOUS
<1>2. c \in Copies(q, o) <=> \E m \in T : c \in {m} \X (1 .. q[m])
  BY <1>1 DEF Copies
<1>3. ASSUME NEW m \in S PROVE c \in {m} \X (1 .. q[m]) <=> \E i \in 1 .. q[m] : c = <<m, i>>
  OBVIOUS
<1> QED BY <1>2, <1>3

\* A message about o that is put into a queue adds a copy; one that is taken
\* out removes one; messages about other orders do neither.
LEMMA CopiesPut ==
    ASSUME NEW S, NEW q \in [S -> Nat], NEW m \in S, NEW o, IsFiniteSet(Copies(q, o))
    PROVE  /\ IsFiniteSet(Copies(Put(q, m), o))
           /\ Cardinality(Copies(Put(q, m), o)) =
                  Cardinality(Copies(q, o)) + (IF o \in Contents(m) THEN 1 ELSE 0)
<1> DEFINE p == Put(q, m)
           new == <<m, q[m] + 1>>
<1>1. p \in [S -> Nat] /\ p[m] = q[m] + 1 /\ \A x \in S \ {m} : p[x] = q[x]
  BY DEF Put
<1>2. new \notin Copies(q, o)
  <2>1. ASSUME NEW x \in S, NEW i \in 1 .. q[x], new = <<x, i>> PROVE FALSE
    BY <2>1
  <2> QED BY <2>1, CopiesElements
<1> HIDE DEF p
<1>3. CASE o \in Contents(m)
  <2>1. Copies(p, o) = Copies(q, o) \cup {new}
    <3>1. ASSUME NEW c \in Copies(p, o) PROVE c \in Copies(q, o) \cup {new}
      <4>1. PICK x \in S, i \in Nat : o \in Contents(x) /\ i \in 1 .. p[x] /\ c = <<x, i>>
        BY <1>1, CopiesElements
      <4>2. i \in 1 .. q[x] \/ (x = m /\ i = q[m] + 1)
        BY <1>1, <4>1
      <4> QED BY <4>1, <4>2, CopiesElements
    <3>2. ASSUME NEW c \in Copies(q, o) PROVE c \in Copies(p, o)
      <4>1. PICK x \in S, i \in Nat : o \in Contents(x) /\ i \in 1 .. q[x] /\ c = <<x, i>>
        BY CopiesElements
      <4>2. i \in 1 .. p[x]
        BY <1>1, <4>1
      <4> QED BY <1>1, <4>1, <4>2, CopiesElements
    <3>3. new \in Copies(p, o)
      <4>1. q[m] + 1 \in 1 .. p[m]
        BY <1>1
      <4> QED BY <1>1, <1>3, <4>1, CopiesElements
    <3> QED BY <3>1, <3>2, <3>3
  <2> QED BY <1>2, <1>3, <2>1, FS_AddElement DEF p
<1>4. CASE o \notin Contents(m)
  <2>1. ASSUME NEW c PROVE c \in Copies(p, o) <=> c \in Copies(q, o)
    <3>1. \A x \in S : o \in Contents(x) => p[x] = q[x]
      BY <1>1, <1>4
    <3> QED BY <1>1, <3>1, CopiesElements
  <2>2. Copies(p, o) = Copies(q, o)
    BY <2>1
  <2>3. Cardinality(Copies(q, o)) \in Nat
    BY FS_CardinalityType
  <2> QED BY <1>4, <2>2, <2>3 DEF p
<1> QED BY <1>3, <1>4

LEMMA CopiesTake ==
    ASSUME NEW S, NEW q \in [S -> Nat], NEW m \in S, q[m] > 0, NEW o, IsFiniteSet(Copies(q, o))
    PROVE  /\ IsFiniteSet(Copies(Take(q, m), o))
           /\ Cardinality(Copies(Take(q, m), o)) =
                  Cardinality(Copies(q, o)) - (IF o \in Contents(m) THEN 1 ELSE 0)
<1> DEFINE p == Take(q, m)
           old == <<m, q[m]>>
<1>1. p \in [S -> Nat] /\ p[m] = q[m] - 1 /\ \A x \in S \ {m} : p[x] = q[x]
  BY DEF Take
<1> HIDE DEF p
<1>2. CASE o \in Contents(m)
  <2>1. old \in Copies(q, o)
    <3>1. q[m] \in 1 .. q[m]
      OBVIOUS
    <3> QED BY <1>2, <3>1, CopiesElements
  <2>2. Copies(p, o) = Copies(q, o) \ {old}
    <3>1. ASSUME NEW c \in Copies(p, o) PROVE c \in Copies(q, o) \ {old}
      <4>1. PICK x \in S, i \in Nat : o \in Contents(x) /\ i \in 1 .. p[x] /\ c = <<x, i>>
        BY <1>1, CopiesElements
      <4>2. i \in 1 .. q[x] /\ (x = m => i # q[m])
        BY <1>1, <4>1
      <4>3. c # old
        BY <4>1, <4>2
      <4> QED BY <4>1, <4>2, <4>3, CopiesElements
    <3>2. ASSUME NEW c \in Copies(q, o) \ {old} PROVE c \in Copies(p, o)
      <4>1. PICK x \in S, i \in Nat : o \in Contents(x) /\ i \in 1 .. q[x] /\ c = <<x, i>>
        BY CopiesElements
      <4>2. x = m => i # q[m]
        BY <3>2, <4>1
      <4>3. i \in 1 .. p[x]
        BY <1>1, <4>1, <4>2
      <4> QED BY <1>1, <4>1, <4>3, CopiesElements
    <3> QED BY <3>1, <3>2
  <2> QED BY <1>2, <2>1, <2>2, FS_RemoveElement DEF p
<1>3. CASE o \notin Contents(m)
  <2>1. ASSUME NEW c PROVE c \in Copies(p, o) <=> c \in Copies(q, o)
    <3>1. \A x \in S : o \in Contents(x) => p[x] = q[x]
      BY <1>1, <1>3
    <3> QED BY <1>1, <3>1, CopiesElements
  <2>2. Copies(p, o) = Copies(q, o)
    BY <2>1
  <2>3. Cardinality(Copies(q, o)) \in Nat
    BY FS_CardinalityType
  <2> QED BY <1>3, <2>2, <2>3 DEF p
<1> QED BY <1>2, <1>3

\* What handler h contributes to the work on o.
Share(h, o) == IF h \in Working(o) THEN 1 ELSE 0

\* When only h moves, only its share of the work changes.
LEMMA OneShare ==
    ASSUME NEW h \in Handlers, NEW o, IsFiniteSet(Working(o)),
           \A g \in Handlers \ {h} : pc'[g] = pc[g] /\ todo'[g] = todo[g] /\ retryable'[g] = retryable[g]
    PROVE  /\ IsFiniteSet(Working(o)')
           /\ Cardinality(Working(o)') = Cardinality(Working(o)) - Share(h, o) + Share(h, o)'
<1> DEFINE W == Working(o)
           V == Working(o)'
           U == W \ {h}
<1>1. \A g \in Handlers \ {h} : g \in V <=> g \in W
  BY DEF Working
<1>2. V \subseteq Handlers /\ W \subseteq Handlers
  BY DEF Working
<1> HIDE DEF V, W
<1>3. (h \in V => V = U \cup {h}) /\ (h \notin V => V = U)
  BY <1>1, <1>2
<1>4. IsFiniteSet(W) /\ Cardinality(W) \in Nat
  BY FS_CardinalityType DEF W
<1>5. /\ IsFiniteSet(U)
      /\ Cardinality(U) = IF h \in W THEN Cardinality(W) - 1 ELSE Cardinality(W)
  BY <1>4, FS_RemoveElement
<1>6. Cardinality(U) \in Nat
  BY <1>5, FS_CardinalityType
<1>7. CASE h \in V
  <2>1. IsFiniteSet(V) /\ Cardinality(V) = Cardinality(U) + 1
    BY <1>3, <1>5, <1>7, FS_AddElement
  <2> QED BY <1>4, <1>5, <1>6, <1>7, <2>1 DEF Share, V, W
<1>8. CASE h \notin V
  <2>1. V = U
    BY <1>3, <1>8
  <2>2. Cardinality(V) = Cardinality(W) - (IF h \in W THEN 1 ELSE 0)
    BY <1>4, <1>5, <2>1
  <2> QED BY <1>4, <1>5, <1>8, <2>1, <2>2 DEF Share, V, W
<1> QED BY <1>7, <1>8

\* The quantities that Paid compares are natural numbers.
LEMMA PaidTypes ==
    ASSUME TypeOK, NEW o \in Orders, Paid(o)
    PROVE  /\ Cardinality(Copies(queue, o)) \in Nat
           /\ Cardinality(Copies(retry, o)) \in Nat
           /\ Cardinality(Working(o)) \in Nat
           /\ verdicts[o] \in Nat /\ requests[o] \in Nat /\ faults \in Nat
BY FS_CardinalityType DEF Paid, TypeOK

\* The books stay balanced when h moves and the rest of a step makes up for the change of
\* its share.
LEMMA Balance ==
    ASSUME TypeOK, NEW h \in Handlers, NEW o \in Orders, Paid(o),
           \A g \in Handlers \ {h} : pc'[g] = pc[g] /\ todo'[g] = todo[g] /\ retryable'[g] = retryable[g],
           IsFiniteSet(Copies(queue', o)), IsFiniteSet(Copies(retry', o)),
           verdicts'[o] \in Nat, faults' \in Nat, requests' = requests,
           verdicts'[o] + Cardinality(Copies(queue', o)) + Cardinality(Copies(retry', o))
               + Share(h, o)' + faults
             <= verdicts[o] + Cardinality(Copies(queue, o)) + Cardinality(Copies(retry, o))
                    + Share(h, o) + faults'
    PROVE  Paid(o)'
<1>1. /\ IsFiniteSet(Working(o)')
      /\ Cardinality(Working(o)') = Cardinality(Working(o)) - Share(h, o) + Share(h, o)'
  BY OneShare DEF Paid
<1>2. Share(h, o) \in Int /\ Share(h, o)' \in Int
  BY DEF Share
<1>3. verdicts[o] + Cardinality(Copies(queue, o)) + Cardinality(Copies(retry, o))
          + Cardinality(Working(o)) <= requests[o] + faults
  BY DEF Paid
<1>4. Cardinality(Copies(queue', o)) \in Nat /\ Cardinality(Copies(retry', o)) \in Nat
  BY FS_CardinalityType
<1>5. verdicts'[o] + Cardinality(Copies(queue', o)) + Cardinality(Copies(retry', o))
          + Cardinality(Working(o)') <= requests'[o] + faults'
  BY <1>1, <1>2, <1>3, <1>4, PaidTypes
<1>6. Copies(queue, o)' = Copies(queue', o) /\ Copies(retry, o)' = Copies(retry', o)
  BY DEF Copies, Contents
<1> QED BY <1>1, <1>5, <1>6 DEF Paid

\* A delivered message is now worked on.
LEMMA DeliverPaid ==
    ASSUME IndInv, VerdictInv, NEW h \in Handlers, NEW m \in Messages, Deliver(h, m)
    PROVE  VerdictInv'
<1> USE DEF IndInv, history
<1>1. /\ pc[h] = "idle" /\ todo'[h] = Contents(m) /\ retryable'[h] = {}
      /\ pc'[h] = IF m = Malformed THEN "reject" ELSE IF m = {} THEN "ack" ELSE "assess"
      /\ \A g \in Handlers \ {h} : pc'[g] = pc[g] /\ todo'[g] = todo[g] /\ retryable'[g] = retryable[g]
      /\ queue \in [Messages -> Nat] /\ queue[m] > 0 /\ queue' = Take(queue, m)
  BY DEF Deliver, TypeOK, VerdictInv, SharesOK
<1>2. \A g \in Handlers : SharesOK(g)'
  BY <1>1 DEF VerdictInv, SharesOK
<1>3. ASSUME NEW o \in Orders PROVE Paid(o)'
  <2>1. Paid(o) /\ IsFiniteSet(Copies(queue, o)) /\ IsFiniteSet(Copies(retry, o))
    BY DEF VerdictInv, Paid
  <2>2. Share(h, o) = 0
    BY <1>1 DEF Share, Working
  <2>3. Share(h, o)' = IF o \in Contents(m) THEN 1 ELSE 0
    <3>1. o \in Contents(m) => m # Malformed /\ m # {}
      BY MessageShapes
    <3> QED BY <1>1, <3>1 DEF Share, Working
  <2>4. /\ IsFiniteSet(Copies(queue', o))
        /\ Cardinality(Copies(queue', o)) =
               Cardinality(Copies(queue, o)) - (IF o \in Contents(m) THEN 1 ELSE 0)
    BY <1>1, <2>1, CopiesTake
  <2>5. UNCHANGED <<retry, verdicts, faults, requests>>
    BY DEF Deliver
  <2> QED BY <1>1, <2>1, <2>2, <2>3, <2>4, <2>5, PaidTypes, Balance
<1> QED BY <1>2, <1>3 DEF VerdictInv

\* An order that is over leaves the work, unless it is to be sent round again.
LEMMA DoneShare ==
    ASSUME TypeOK, NEW h \in Handlers, NEW x \in todo[h], NEW again \in BOOLEAN,
           pc[h] \in {"assess", "publish"}, Done(h, x, again), \A g \in Handlers : SharesOK(g)
    PROVE  /\ \A g \in Handlers : SharesOK(g)'
           /\ \A g \in Handlers \ {h} :
                  pc'[g] = pc[g] /\ todo'[g] = todo[g] /\ retryable'[g] = retryable[g]
           /\ Share(h, x) = 1
           /\ \A o \in Orders : Share(h, o)' = IF o = x /\ ~again THEN 0 ELSE Share(h, o)
<1>1. /\ todo'[h] = todo[h] \ {x}
      /\ retryable'[h] = IF again THEN retryable[h] \cup {x} ELSE retryable[h]
      /\ pc'[h] = IF todo'[h] # {} THEN "assess" ELSE IF retryable'[h] # {} THEN "retry" ELSE "ack"
      /\ \A g \in Handlers \ {h} : pc'[g] = pc[g] /\ todo'[g] = todo[g] /\ retryable'[g] = retryable[g]
  BY DEF Done, TypeOK
<1>2. todo[h] \cap retryable[h] = {}
  BY DEF SharesOK
<1>3. \A g \in Handlers : SharesOK(g)'
  BY <1>1, <1>2 DEF SharesOK
<1>4. Share(h, x) = 1
  BY DEF Share, Working
<1>5. ASSUME NEW o \in Orders PROVE Share(h, o)' = IF o = x /\ ~again THEN 0 ELSE Share(h, o)
  <2>1. h \in Working(o) <=> o \in todo[h] \cup retryable[h]
    BY DEF Working
  <2>2. h \in Working(o)' <=> o \in todo'[h] \cup retryable'[h]
    BY <1>1 DEF Working
  <2>3. o \in todo'[h] \cup retryable'[h] <=>
            o \in todo[h] \cup retryable[h] /\ ~(o = x /\ ~again)
    BY <1>1, <1>2
  <2> QED BY <2>1, <2>2, <2>3 DEF Share
<1> QED BY <1>1, <1>3, <1>4, <1>5

\* An order is over: its verdict, if there is one, takes the place of the work on it.
LEMMA DonePaid ==
    ASSUME IndInv, VerdictInv, NEW h \in Handlers, NEW x \in todo[h], NEW again \in BOOLEAN,
           pc[h] \in {"assess", "publish"}, Done(h, x, again),
           verdicts' = verdicts \/ (verdicts' = Put(verdicts, x) /\ ~again),
           faults' \in {faults, faults + 1}, UNCHANGED <<queue, retry, requests>>
    PROVE  VerdictInv'
<1> USE DEF IndInv
<1>1. /\ \A g \in Handlers : SharesOK(g)'
      /\ \A g \in Handlers \ {h} :
             pc'[g] = pc[g] /\ todo'[g] = todo[g] /\ retryable'[g] = retryable[g]
      /\ Share(h, x) = 1
      /\ \A o \in Orders : Share(h, o)' = IF o = x /\ ~again THEN 0 ELSE Share(h, o)
  BY DoneShare DEF VerdictInv
<1>2. ASSUME NEW o \in Orders PROVE Paid(o)'
  <2>1. Paid(o) /\ IsFiniteSet(Copies(queue, o)) /\ IsFiniteSet(Copies(retry, o))
    BY DEF VerdictInv, Paid
  <2>2. PICK dv \in {0, 1} : verdicts'[o] = verdicts[o] + dv /\ (dv = 1 => o = x /\ ~again)
    <3>1. verdicts \in [Orders -> Nat] /\ x \in Orders
      BY DEF TypeOK
    <3> QED BY <3>1 DEF Put
  <2>3. PICK df \in {0, 1} : faults' = faults + df
    BY DEF TypeOK
  <2>4. Share(h, o) \in {0, 1}
    BY DEF Share
  <2>5. dv + Share(h, o)' <= Share(h, o) + df
    BY <1>1, <2>2, <2>3, <2>4
  <2>6. Share(h, o)' \in {0, 1}
    BY DEF Share
  <2> QED BY <1>1, <2>1, <2>2, <2>3, <2>4, <2>5, <2>6, PaidTypes, Balance
<1> QED BY <1>1, <1>2 DEF VerdictInv

\* The steps of a handler that deal with one order.
LEMMA OrderPaid ==
    ASSUME IndInv, VerdictInv, NEW h \in Handlers, NEW o \in Orders,
           \/ \E a \in Assessments : Assess(h, o, a)
           \/ \E s \in Failures : AssessFails(h, o, s)
           \/ PublishResult(h, o) \/ PublishResultFails(h, o)
    PROVE  VerdictInv'
<1> USE DEF IndInv, broker, history
<1>1. ASSUME NEW a \in Assessments, Assess(h, o, a) PROVE VerdictInv'
  <2>1. CASE decide(a)
    <3>1. /\ UNCHANGED <<queue, retry, verdicts, requests, faults, todo, retryable>>
          /\ pc[h] = "assess" /\ pc' = [pc EXCEPT ![h] = "publish"]
      BY <1>1, <2>1 DEF Assess
    <3>2. \A g \in Handlers : SharesOK(g)'
      BY <3>1 DEF VerdictInv, SharesOK, TypeOK
    <3>3. ASSUME NEW x \in Orders PROVE Working(x)' = Working(x)
      BY <3>1 DEF Working, TypeOK
    <3>4. ASSUME NEW x \in Orders PROVE Paid(x)'
      <4>1. Paid(x)
        BY DEF VerdictInv
      <4> QED BY <3>1, <3>3, <4>1 DEF Paid, Copies, Contents
    <3> QED BY <3>2, <3>4 DEF VerdictInv
  <2>2. CASE ~decide(a)
    <3>1. /\ UNCHANGED <<queue, retry, verdicts, requests, faults>>
          /\ pc[h] = "assess" /\ o \in todo[h] /\ Done(h, o, FALSE)
      BY <1>1, <2>2 DEF Assess
    <3> QED BY <3>1, DonePaid
  <2> QED BY <2>1, <2>2
<1>2. ASSUME NEW s \in Failures, AssessFails(h, o, s) PROVE VerdictInv'
  <2>1. PICK again \in BOOLEAN :
            /\ UNCHANGED <<queue, retry, verdicts, requests, faults>>
            /\ pc[h] = "assess" /\ o \in todo[h] /\ Done(h, o, again)
    BY <1>2 DEF AssessFails
  <2> QED BY <2>1, DonePaid
<1>3. CASE PublishResult(h, o) \/ PublishResultFails(h, o)
  <2>1. /\ UNCHANGED <<queue, retry, requests>> /\ faults' \in {faults, faults + 1}
        /\ verdicts' \in {verdicts, Put(verdicts, o)}
        /\ pc[h] = "publish" /\ o \in current[h] /\ Done(h, o, FALSE)
    BY <1>3 DEF PublishResult, PublishResultFails
  <2>2. o \in todo[h]
    BY <2>1 DEF HandlerOK
  <2> QED BY <2>1, <2>2, DonePaid
<1> QED BY <1>1, <1>2, <1>3

\* The envelope for the retry queue takes over what the handler had left; a publication
\* that fails may do so as well.
LEMMA RepublishPaid ==
    ASSUME IndInv, VerdictInv, NEW h \in Handlers, Republish(h) \/ RepublishFails(h)
    PROVE  VerdictInv'
<1> USE DEF IndInv, history
<1>1. /\ pc[h] = "retry" /\ pc'[h] \in {"ack", "reject"}
      /\ \A g \in Handlers \ {h} : pc'[g] = pc[g] /\ todo'[g] = todo[g] /\ retryable'[g] = retryable[g]
      /\ retry' \in {retry, Put(retry, retryable[h])} /\ faults' \in {faults, faults + 1}
      /\ UNCHANGED <<queue, verdicts, requests, todo, retryable>>
  BY DEF Republish, RepublishFails, Resend, TypeOK
<1>2. \A g \in Handlers : SharesOK(g)'
  BY <1>1 DEF VerdictInv, SharesOK
<1>3. ASSUME NEW o \in Orders PROVE Paid(o)'
  <2>1. Paid(o) /\ IsFiniteSet(Copies(queue, o)) /\ IsFiniteSet(Copies(retry, o))
    BY DEF VerdictInv, Paid
  <2>2. Share(h, o)' = 0
    BY <1>1 DEF Share, Working
  <2>3. Share(h, o) = IF o \in retryable[h] THEN 1 ELSE 0
    BY <1>1 DEF Share, Working, HandlerOK
  <2>4. retry \in [SUBSET Orders -> Nat] /\ retryable[h] \in SUBSET Orders
    BY DEF TypeOK
  <2>5. Contents(retryable[h]) = retryable[h]
    BY <2>4, MessageShapes
  <2>6. PICK dr \in {0, 1} :
            /\ IsFiniteSet(Copies(retry', o))
            /\ Cardinality(Copies(retry', o)) = Cardinality(Copies(retry, o)) + dr
            /\ dr = 1 => o \in retryable[h]
    <3>1. CASE retry' = retry
      BY <2>1, <3>1, PaidTypes
    <3>2. CASE retry' = Put(retry, retryable[h])
      BY <2>1, <2>4, <2>5, <3>2, CopiesPut
    <3> QED BY <1>1, <3>1, <3>2
  <2>7. PICK df \in {0, 1} : faults' = faults + df
    BY <1>1 DEF TypeOK
  <2>8. dr + Share(h, o)' <= Share(h, o) + df
    BY <2>2, <2>3, <2>6, <2>7
  <2> QED BY <1>1, <2>1, <2>2, <2>3, <2>6, <2>7, <2>8, PaidTypes, Balance
<1> QED BY <1>2, <1>3 DEF VerdictInv

\* The message of a handler that dies or loses its connection comes back, once for each
\* fault; a handler that has settled its message has nothing left to do.
LEMMA LetGoPaid ==
    ASSUME IndInv, VerdictInv, NEW h \in Handlers,
           Ack(h) \/ Reject(h) \/ Crash(h) \/ ConnectionLost(h)
    PROVE  VerdictInv'
<1> USE DEF IndInv, history, broker
<1>1. /\ \A g \in Handlers \ {h} : pc'[g] = pc[g] /\ todo'[g] = todo[g] /\ retryable'[g] = retryable[g]
      /\ UNCHANGED <<retry, verdicts, requests>>
      /\ \/ UNCHANGED <<pc, todo, retryable>>
         \/ pc'[h] = "idle" /\ todo'[h] = {} /\ retryable'[h] = {}
  BY DEF Ack, Reject, Crash, ConnectionLost, Release, TypeOK
<1>2. \/ queue' = queue /\ faults' = faults
      \/ queue' \in {queue, Put(queue, msg[h])} /\ faults' = faults + 1
  BY DEF Ack, Reject, Crash, ConnectionLost, Redelivered
<1>3. \A g \in Handlers : SharesOK(g)'
  BY <1>1 DEF VerdictInv, SharesOK
<1>4. ASSUME NEW o \in Orders PROVE Paid(o)'
  <2>1. Paid(o) /\ IsFiniteSet(Copies(queue, o)) /\ IsFiniteSet(Copies(retry, o))
    BY DEF VerdictInv, Paid
  <2>2. Share(h, o) \in {0, 1} /\ Share(h, o)' \in {0, Share(h, o)}
    BY <1>1 DEF Share, Working
  <2>3. PICK df \in {0, 1}, dq \in {0, 1} :
            /\ faults' = faults + df
            /\ IsFiniteSet(Copies(queue', o))
            /\ Cardinality(Copies(queue', o)) = Cardinality(Copies(queue, o)) + dq
            /\ dq <= df
    <3>1. faults \in Nat /\ queue \in [Messages -> Nat] /\ msg[h] \in Messages
      BY DEF TypeOK
    <3>2. /\ IsFiniteSet(Copies(Put(queue, msg[h]), o))
          /\ \E d \in {0, 1} : Cardinality(Copies(Put(queue, msg[h]), o)) = Cardinality(Copies(queue, o)) + d
      BY <2>1, <3>1, CopiesPut
    <3>3. Cardinality(Copies(queue, o)) = Cardinality(Copies(queue, o)) + 0
      BY <2>1, PaidTypes
    <3>4. CASE queue' = queue /\ faults' = faults
      BY <2>1, <3>1, <3>3, <3>4
    <3>5. CASE queue' = queue /\ faults' = faults + 1
      BY <2>1, <3>1, <3>3, <3>5
    <3>6. CASE queue' = Put(queue, msg[h]) /\ faults' = faults + 1
      BY <3>1, <3>2, <3>6
    <3> QED BY <1>2, <3>4, <3>5, <3>6
  <2>4. dq + Share(h, o)' <= Share(h, o) + df
    BY <2>2, <2>3
  <2> QED BY <1>1, <2>1, <2>2, <2>3, <2>4, PaidTypes, Balance
<1> QED BY <1>3, <1>4 DEF VerdictInv

\* A message changes queues, or a new one arrives with its requests.
LEMMA QueuePaid ==
    ASSUME IndInv, VerdictInv,
           \/ \E m \in SUBSET Orders : Expire(m)
           \/ \E m \in Envelopes \cup {Malformed} : Request(m)
    PROVE  VerdictInv'
<1> USE DEF IndInv, history
<1>1. UNCHANGED <<work, verdicts, faults>>
  BY DEF Expire, Request
<1>2. /\ \A g \in Handlers : SharesOK(g)'
      /\ \A o \in Orders : Working(o)' = Working(o)
  BY <1>1 DEF VerdictInv, SharesOK, Working, work
<1>3. \A o \in Orders : Copies(queue, o)' = Copies(queue', o) /\ Copies(retry, o)' = Copies(retry', o)
  BY DEF Copies, Contents
<1>4. ASSUME NEW o \in Orders, NEW m \in SUBSET Orders, Expire(m) PROVE Paid(o)'
  <2>1. Paid(o) /\ IsFiniteSet(Copies(queue, o)) /\ IsFiniteSet(Copies(retry, o))
    BY DEF VerdictInv, Paid
  <2>2. /\ retry[m] > 0 /\ retry' = Take(retry, m) /\ queue' = Put(queue, m) /\ requests' = requests
        /\ retry \in [SUBSET Orders -> Nat] /\ queue \in [Messages -> Nat] /\ m \in Messages
    BY <1>4, MessageShapes DEF Expire, TypeOK
  <2>3. /\ IsFiniteSet(Copies(queue', o)) /\ IsFiniteSet(Copies(retry', o))
        /\ Cardinality(Copies(queue', o)) + Cardinality(Copies(retry', o))
              = Cardinality(Copies(queue, o)) + Cardinality(Copies(retry, o))
    <3>1. /\ IsFiniteSet(Copies(queue', o))
          /\ Cardinality(Copies(queue', o)) =
                 Cardinality(Copies(queue, o)) + (IF o \in Contents(m) THEN 1 ELSE 0)
      BY <2>1, <2>2, CopiesPut
    <3>2. /\ IsFiniteSet(Copies(retry', o))
          /\ Cardinality(Copies(retry', o)) =
                 Cardinality(Copies(retry, o)) - (IF o \in Contents(m) THEN 1 ELSE 0)
      BY <2>1, <2>2, CopiesTake
    <3> QED BY <2>1, <3>1, <3>2, PaidTypes
  <2>4. /\ Cardinality(Copies(queue', o)) \in Nat /\ Cardinality(Copies(retry', o)) \in Nat
    BY <2>3, FS_CardinalityType
  <2> QED BY <1>1, <1>2, <1>3, <2>1, <2>2, <2>3, <2>4, PaidTypes DEF Paid
<1>5. ASSUME NEW o \in Orders, NEW m \in Envelopes \cup {Malformed}, Request(m) PROVE Paid(o)'
  <2>1. Paid(o) /\ IsFiniteSet(Copies(queue, o)) /\ IsFiniteSet(Copies(retry, o))
    BY DEF VerdictInv, Paid
  <2>2. /\ queue' = Put(queue, m) /\ retry' = retry /\ m \in Messages /\ queue \in [Messages -> Nat]
        /\ requests'[o] = requests[o] + (IF o \in Contents(m) THEN 1 ELSE 0)
    BY <1>5, MessageShapes DEF Request, TypeOK
  <2>3. /\ IsFiniteSet(Copies(queue', o))
        /\ Cardinality(Copies(queue', o)) =
               Cardinality(Copies(queue, o)) + (IF o \in Contents(m) THEN 1 ELSE 0)
    BY <2>1, <2>2, CopiesPut
  <2> QED BY <1>1, <1>2, <1>3, <2>1, <2>2, <2>3, PaidTypes DEF Paid
<1> QED BY <1>2, <1>4, <1>5 DEF VerdictInv

\* Requests and faults pay for all verdicts, published or to come.
THEOREM VerdictsPaid == Spec => []VerdictInv
<1>1. Init => VerdictInv
  <2> SUFFICES ASSUME Init PROVE VerdictInv
    OBVIOUS
  <2>1. \A h \in Handlers : SharesOK(h)
    BY DEF Init, SharesOK
  <2>2. ASSUME NEW o \in Orders PROVE Paid(o)
    <3>1. Working(o) = {}
      BY DEF Init, Working
    <3>2. /\ queue \in [Messages -> Nat] /\ \A m \in Messages : queue[m] = 0
          /\ retry \in [SUBSET Orders -> Nat] /\ \A m \in SUBSET Orders : retry[m] = 0
      BY DEF Init
    <3>3. Copies(queue, o) = {} /\ Copies(retry, o) = {}
      BY <3>2, CopiesElements
    <3>4. verdicts[o] = 0 /\ requests[o] = 0 /\ faults = 0
      BY DEF Init
    <3> QED BY <3>1, <3>3, <3>4, FS_EmptySet DEF Paid
  <2> QED BY <2>1, <2>2 DEF VerdictInv
<1>2. IndInv /\ VerdictInv /\ [Next]_vars => VerdictInv'
  <2> SUFFICES ASSUME IndInv, VerdictInv, [Next]_vars PROVE VerdictInv'
    OBVIOUS
  <2>1. CASE UNCHANGED vars
    BY <2>1 DEF vars, broker, work, history, VerdictInv, SharesOK, Paid, Copies, Contents, Working
  <2>2. CASE Next
    BY <2>2, DeliverPaid, OrderPaid, RepublishPaid, LetGoPaid, QueuePaid DEF Next, HandlerStep
  <2> QED BY <2>1, <2>2
<1> QED BY <1>1, <1>2, Invariance, PTL DEF Spec

\* An order gets no more verdicts than requests, except one for each crash, lost
\* connection or failed publication, although llm does not deduplicate and sends
\* parts of envelopes round again.
THEOREM VerdictsBounded == Spec => []VerdictsExplained
<1>1. IndInv /\ VerdictInv => VerdictsExplained
  <2> SUFFICES ASSUME IndInv, VerdictInv, NEW o \in Orders
               PROVE  verdicts[o] <= requests[o] + faults
    BY DEF VerdictsExplained
  <2>1. Paid(o) /\ TypeOK
    BY DEF VerdictInv, IndInv
  <2> QED BY <2>1, PaidTypes DEF Paid
<1> QED BY <1>1, Invariance, VerdictsPaid, PTL
================================================================================
