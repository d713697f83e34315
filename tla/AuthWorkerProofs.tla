--------------------------- MODULE AuthWorkerProofs ---------------------------
(***************************************************************************)
(* Safety of AuthWorker for any number of processes, logins and faults and *)
(* for all settings that satisfy TimingAssumption.                         *)
(***************************************************************************)
EXTENDS AuthWorker, TLAPS

--------------------------------------------------------------------------------
(* Settings and jars *)

LEMMA Settings ==
    /\ Lifetime \in Nat /\ RefreshBefore \in Nat /\ CheckInterval \in Nat /\ ErrorInterval \in Nat
    /\ AuthExpiredInterval \in Nat /\ CallTicks \in Nat /\ LockTimeout \in Nat
    /\ MaxLogins \in Nat /\ MaxFaults \in Nat /\ MaxLogins > 0
    /\ RefreshBefore >= CheckInterval + LockTimeout + 2 * CallTicks
    /\ Lifetime > RefreshBefore + CallTicks
BY TimingAssumption DEF TimingAssumption

\* A jar has a session and a token with a lifetime.
LEMMA JarFields ==
    ASSUME NEW j \in Jars
    PROVE  /\ j.session \in Sessions /\ j.session \in Nat
           /\ j.ttl \in 0 .. Lifetime /\ j.ttl \in Nat /\ j.ttl <= Lifetime
           /\ j.touched \in BOOLEAN /\ j # NoJar
BY Settings, NamesAssumption DEF NamesAssumption, Jars, Sessions

\* A jar that ages keeps its session and loses one tick of its lifetime, if there is one.
LEMMA AgedFields ==
    ASSUME NEW j \in Jars \cup {NoJar}
    PROVE  /\ Aged(j) \in Jars \cup {NoJar}
           /\ Aged(j) = NoJar <=> j = NoJar
           /\ j # NoJar => /\ Aged(j).session = j.session
                           /\ Aged(j).ttl = IF j.ttl > 0 THEN j.ttl - 1 ELSE 0
<1>1. CASE j = NoJar
  BY <1>1 DEF Aged
<1>2. CASE j # NoJar
  <2>1. /\ j \in Jars /\ j.ttl \in 0 .. Lifetime /\ Lifetime \in Nat
        /\ j.session \in Sessions /\ j.touched \in BOOLEAN
    BY <1>2, JarFields, Settings
  <2>2. Aged(j) = [j EXCEPT !.ttl = IF j.ttl > 0 THEN j.ttl - 1 ELSE 0]
    BY <1>2 DEF Aged
  <2>3. (IF j.ttl > 0 THEN j.ttl - 1 ELSE 0) \in 0 .. Lifetime
    BY <2>1
  <2>4. Aged(j) \in Jars
    BY <2>1, <2>2, <2>3 DEF Jars
  <2>5. Aged(j) # NoJar
    BY <2>4, JarFields
  <2> QED BY <1>2, <2>1, <2>2, <2>4, <2>5 DEF Jars
<1> QED BY <1>1, <1>2

\* The names of processes, of the reader and of nobody differ.
LEMMA Names ==
    /\ \A w \in Workers : w # NoOwner /\ w # Reader
    /\ NoOwner # Reader
    /\ \A d \in Daemons : d \in Workers /\ d \notin OneShots
BY NamesAssumption DEF NamesAssumption, Workers

--------------------------------------------------------------------------------
(* Processes that a step leaves alone *)

\* A process that does not move keeps its part of the invariant while the file stays.
LEMMA OtherJar ==
    ASSUME NEW g, JarOK(g), UNCHANGED file, pc'[g] = pc[g], jar'[g] = jar[g],
           changed'[g] = changed[g], spent'[g] = spent[g]
    PROVE  JarOK(g)'
BY DEF JarOK, NeedsRefresh

LEMMA OtherFresh ==
    ASSUME NEW g, FreshOK(g), UNCHANGED <<file, alive>>, g \in trouble' <=> g \in trouble,
           pc'[g] = pc[g], timer'[g] = timer[g], spent'[g] = spent[g], outcome'[g] = outcome[g]
    PROVE  FreshOK(g)'
BY DEF FreshOK, Need

LEMMA OtherLock ==
    ASSUME NEW g, pc'[g] = pc[g], spent'[g] = spent[g], Waits(g) => spent[g] <= Patience(g)
    PROVE  (Waits(g) => spent[g] <= Patience(g))'
BY DEF Waits, Patience

\* A daemon needs no more than RefreshBefore ticks, and never less than none.
LEMMA NeedBounds ==
    ASSUME TypeOK, LockOK, NEW d \in Daemons, FreshOK(d), d \notin trouble
    PROVE  Need(d) \in Nat /\ Need(d) <= RefreshBefore
<1> USE Settings
<1>1. d \in Workers /\ timer[d] \in Nat /\ spent[d] \in Nat
  BY Names DEF TypeOK
<1>2. /\ pc[d] = "wait" => spent[d] <= LockTimeout
      /\ pc[d] \in {"renew", "touch"} => spent[d] <= CallTicks
      /\ pc[d] = "sleep" => timer[d] <= CheckInterval
  BY <1>1 DEF LockOK, Waits, Patience, FreshOK
<1> QED BY <1>1, <1>2 DEF Need

--------------------------------------------------------------------------------
(* The initial state *)

LEMMA InitIndInv == Init => IndInv
<1> SUFFICES ASSUME Init PROVE IndInv
  OBVIOUS
<1> USE Settings
<1> DEFINE first == [session |-> 1, ttl |-> Lifetime, touched |-> TRUE]
<1>1. file \in {NoJar, first} /\ first \in Jars /\ first # NoJar
  <2>1. first \in Jars
    BY DEF Jars, Sessions
  <2> QED BY <2>1, JarFields DEF Init
<1> HIDE DEF first
<1>2. TypeOK
  <2>1. file \in Jars \cup {NoJar}
    BY <1>1
  <2>2. /\ lock \in Workers \cup {NoOwner, Reader}
        /\ reader \in {"idle", "wait", "read"} /\ prompted \in BOOLEAN /\ misled \in BOOLEAN
        /\ trouble \subseteq Daemons
    BY DEF Init
  <2>3. /\ waited \in 0 .. LockTimeout /\ faults \in 0 .. MaxFaults
        /\ logins \in Sessions /\ alive \subseteq Sessions
    BY DEF Init, Sessions
  <2>4. /\ pc \in [Workers -> {"sleep", "wait", "load", "renew", "touch", "save", "report", "done"}]
        /\ jar \in [Workers -> Jars \cup {NoJar}]
        /\ changed \in [Workers -> BOOLEAN]
        /\ outcome \in [Workers -> Statuses]
    BY DEF Init, Statuses
  <2>5. timer \in [Workers -> Nat] /\ spent \in [Workers -> Nat]
        /\ judged \in [Workers -> 0 .. MaxLogins]
    BY DEF Init
  <2> QED BY <2>1, <2>2, <2>3, <2>4, <2>5 DEF TypeOK
<1>3. LockOK
  BY DEF Init, LockOK, Waits
<1>4. \A w \in Workers : JarOK(w)
  BY DEF Init, JarOK
<1>5. \A d \in Daemons : FreshOK(d)
  <2> SUFFICES ASSUME NEW d \in Daemons PROVE FreshOK(d)
    OBVIOUS
  <2>1. pc[d] = "sleep" /\ timer[d] = 0
    BY Names DEF Init
  <2>2. Need(d) = LockTimeout + 2 * CallTicks
    BY <2>1 DEF Need
  <2>3. file # NoJar => file.ttl = Lifetime
    BY <1>1 DEF first
  <2> QED BY <2>1, <2>2, <2>3 DEF FreshOK
<1>6. SessionOK
  <2>1. file # NoJar => file.session = 1
    BY <1>1 DEF first
  <2> QED BY <2>1 DEF Init, SessionOK
<1> QED BY <1>2, <1>3, <1>4, <1>5, <1>6 DEF IndInv

--------------------------------------------------------------------------------
(* Steps of one process that leave the file alone *)

\* Only process w moves; the file, the sessions and the logins stay as they are.
Moves(w) ==
    /\ \A g \in Workers \ {w} :
           /\ pc'[g] = pc[g] /\ jar'[g] = jar[g] /\ changed'[g] = changed[g]
           /\ outcome'[g] = outcome[g] /\ timer'[g] = timer[g] /\ spent'[g] = spent[g]
           /\ judged'[g] = judged[g]
           /\ g \in trouble' <=> g \in trouble
    /\ UNCHANGED <<file, alive, logins>>

\* Such a step keeps the invariant if the process that moves keeps its own part of it,
\* the others keep the lock, and a session that is lost stays lost.
LEMMA LocalStep ==
    ASSUME IndInv, TypeOK', NEW w \in Workers, Moves(w),
           misled => misled',
           \A g \in Workers \ {w} : lock = g => lock' = g,
           reader' = "read" => lock' = Reader,
           pc'[w] \in {"load", "renew", "touch", "save"} => lock' = w,
           (Waits(w) => spent[w] <= Patience(w))',
           JarOK(w)', w \in Daemons => FreshOK(w)',
           jar'[w] # NoJar => jar'[w].session <= logins, judged'[w] <= logins,
           ~misled' /\ jar'[w] # NoJar /\ jar'[w].session # logins =>
               pc'[w] = "renew" /\ jar'[w].session \notin alive,
           ~misled' /\ Lost => Lost',
           ~misled' /\ prompted' => Lost',
           ~misled' /\ pc'[w] = "report" /\ Asks(outcome'[w]) /\ judged'[w] = logins => Lost'
    PROVE  IndInv'
<1> USE DEF Moves
<1>1. LockOK'
  <2>1. ASSUME NEW g \in Workers \ {w}
        PROVE  /\ pc'[g] \in {"load", "renew", "touch", "save"} => lock' = g
               /\ (Waits(g) => spent[g] <= Patience(g))'
    BY <2>1, OtherLock DEF IndInv, LockOK
  <2> QED BY <2>1 DEF LockOK
<1>2. \A g \in Workers : JarOK(g)'
  <2>1. ASSUME NEW g \in Workers \ {w} PROVE JarOK(g)'
    BY <2>1, OtherJar DEF IndInv
  <2> QED BY <2>1
<1>3. \A d \in Daemons : FreshOK(d)'
  <2>1. ASSUME NEW d \in Daemons, d # w PROVE FreshOK(d)'
    BY <2>1, Names, OtherFresh DEF IndInv
  <2> QED BY <2>1
<1>4. SessionOK'
  <2> USE DEF IndInv, SessionOK
  <2>1. \A g \in Workers : /\ jar'[g] # NoJar => jar'[g].session <= logins
                           /\ judged'[g] <= logins
    OBVIOUS
  <2>2. ASSUME ~misled'
        PROVE  \A g \in Workers :
                  jar'[g] # NoJar /\ jar'[g].session # logins =>
                      pc'[g] = "renew" /\ jar'[g].session \notin alive
    BY <2>2
  <2>3. ASSUME ~misled'
        PROVE  \A g \in Workers :
                  pc'[g] = "report" /\ Asks(outcome'[g]) /\ judged'[g] = logins => Lost'
    BY <2>3 DEF Asks
  <2>4. /\ file' # NoJar => file'.session <= logins'
        /\ alive' \subseteq 1 .. logins'
        /\ ~misled' => (file' # NoJar => file'.session = logins')
    OBVIOUS
  <2> HIDE DEF Moves
  <2>5. logins' = logins /\ alive' = alive
    BY DEF Moves
  <2> QED BY <2>1, <2>2, <2>3, <2>4, <2>5
<1> QED BY <1>1, <1>2, <1>3, <1>4 DEF IndInv

\* Execute returns: what the process leaves behind.
LEMMA FinishFacts ==
    ASSUME TypeOK, NEW w \in Workers, NEW s \in Statuses, Finish(w, s)
    PROVE  /\ lock' \in Workers \cup {NoOwner, Reader}
           /\ trouble' \subseteq Daemons
           /\ pc' \in [Workers -> {"sleep", "wait", "load", "renew", "touch", "save", "report",
                                   "done"}]
           /\ jar' \in [Workers -> Jars \cup {NoJar}]
           /\ changed' \in [Workers -> BOOLEAN]
           /\ outcome' \in [Workers -> Statuses]
           /\ spent' \in [Workers -> Nat]
           /\ judged' \in [Workers -> 0 .. MaxLogins]
           /\ misled' \in BOOLEAN
           /\ pc'[w] = "report" /\ jar'[w] = NoJar /\ outcome'[w] = s /\ ~Waits(w)'
           /\ judged'[w] = IF jar[w] = NoJar THEN logins ELSE jar[w].session
           /\ w \in Daemons => (w \in trouble' <=> s # "ok")
           /\ \A g \in Workers \ {w} :
                  /\ pc'[g] = pc[g] /\ jar'[g] = jar[g] /\ changed'[g] = changed[g]
                  /\ outcome'[g] = outcome[g] /\ spent'[g] = spent[g] /\ judged'[g] = judged[g]
                  /\ g \in trouble' <=> g \in trouble
<1> USE DEF Finish, Return, Goto
<1>1. judged' \in [Workers -> 0 .. MaxLogins]
  <2>1. (IF jar[w] = NoJar THEN logins ELSE jar[w].session) \in 0 .. MaxLogins
    BY JarFields, Settings DEF TypeOK, Sessions
  <2> QED BY <2>1 DEF TypeOK
<1>2. lock' \in Workers \cup {NoOwner, Reader} /\ trouble' \subseteq Daemons /\ misled' \in BOOLEAN
  BY DEF TypeOK
<1>3. /\ pc' \in [Workers -> {"sleep", "wait", "load", "renew", "touch", "save", "report", "done"}]
      /\ jar' \in [Workers -> Jars \cup {NoJar}]
      /\ changed' \in [Workers -> BOOLEAN]
      /\ outcome' \in [Workers -> Statuses]
      /\ spent' \in [Workers -> Nat]
  BY DEF TypeOK
<1>4. /\ pc'[w] = "report" /\ jar'[w] = NoJar /\ outcome'[w] = s
      /\ judged'[w] = IF jar[w] = NoJar THEN logins ELSE jar[w].session
      /\ w \in Daemons => (w \in trouble' <=> s # "ok")
  BY DEF TypeOK
<1>5. \A g \in Workers \ {w} :
          /\ pc'[g] = pc[g] /\ jar'[g] = jar[g] /\ changed'[g] = changed[g]
          /\ outcome'[g] = outcome[g] /\ spent'[g] = spent[g] /\ judged'[g] = judged[g]
          /\ g \in trouble' <=> g \in trouble
  BY DEF TypeOK
<1>6. ~Waits(w)'
  BY <1>4 DEF Waits
<1> HIDE DEF Finish, Return, Goto
<1> QED BY <1>1, <1>2, <1>3, <1>4, <1>5, <1>6

\* A cycle that ends without saving.
LEMMA FinishStep ==
    ASSUME IndInv, NEW w \in Workers, NEW s \in Statuses \ {"ok"}, Finish(w, s),
           UNCHANGED <<file, timer, client, outside>>, faults' \in 0 .. MaxFaults,
           ~misled /\ Asks(s) /\ judged'[w] = logins => Lost
    PROVE  IndInv'
<1> USE DEF client, outside
<1>t. TypeOK
  BY DEF IndInv
<1>f. s \in Statuses
  OBVIOUS
<1>1. TypeOK'
  BY <1>t, <1>f, FinishFacts DEF TypeOK
<1>2. /\ pc'[w] = "report" /\ jar'[w] = NoJar /\ outcome'[w] = s /\ ~Waits(w)'
      /\ judged'[w] = IF jar[w] = NoJar THEN logins ELSE jar[w].session
      /\ w \in Daemons => w \in trouble'
  BY <1>t, <1>f, FinishFacts
<1>3. Moves(w)
  BY <1>t, <1>f, FinishFacts DEF Moves
<1>4. JarOK(w)' /\ (w \in Daemons => FreshOK(w)')
  BY <1>2 DEF JarOK, FreshOK
<1>5. Lost => Lost'
  BY <1>2, <1>3 DEF Lost, Moves, NeedsRefresh
<1>6. /\ \A g \in Workers \ {w} : lock = g => lock' = g
      /\ reader' = "read" => lock' = Reader
  BY Names DEF Finish, IndInv, LockOK
<1>7. judged'[w] <= logins
  <2>1. logins \in Nat
    BY <1>t, Settings DEF TypeOK, Sessions
  <2> QED BY <1>2, <2>1 DEF IndInv, SessionOK
<1>8. misled' = misled /\ prompted' = prompted /\ (~misled /\ prompted => Lost)
  BY DEF Finish, Return, IndInv, SessionOK
<1> HIDE DEF client, outside
<1> QED BY <1>1, <1>2, <1>3, <1>4, <1>5, <1>6, <1>7, <1>8, LocalStep

--------------------------------------------------------------------------------
(* The steps of a cycle *)

\* A status is one of the known ones.
LEMMA KnownStatus ==
    /\ {"error", "missing_or_invalid_cookies", "requires_login", "renew_failed",
        "network_timeout", "network_error"} \subseteq Statuses \ {"ok"}
    /\ "ok" \in Statuses
    /\ \A s \in {"error", "renew_failed", "network_timeout", "network_error"} : ~Asks(s)
BY DEF Statuses, Asks

LEMMA WakeStep == ASSUME IndInv, NEW w \in Workers, Wake(w) PROVE IndInv'
<1> USE Settings DEF Wake, Goto, client, outside, history
<1>t. TypeOK
  BY DEF IndInv
<1>1. TypeOK'
  BY <1>t DEF TypeOK
<1>2. pc'[w] = "wait" /\ spent'[w] = 0 /\ jar'[w] = jar[w] /\ judged'[w] = judged[w]
  BY <1>t DEF TypeOK
<1>3. Moves(w)
  BY <1>t DEF TypeOK, Moves
<1>4. JarOK(w)'
  BY <1>2 DEF IndInv, JarOK
<1>5. w \in Daemons => FreshOK(w)'
  <2> SUFFICES ASSUME w \in Daemons PROVE FreshOK(w)'
    OBVIOUS
  <2>1. Need(w)' = LockTimeout + 2 * CallTicks
    BY <1>2 DEF Need
  <2>2. Need(w) = LockTimeout + 2 * CallTicks
    BY DEF Need
  <2> QED BY <1>2, <2>1, <2>2 DEF IndInv, FreshOK
<1>6. Lost => Lost'
  BY <1>2, <1>3 DEF Lost, Moves, NeedsRefresh
<1>7. /\ \A g \in Workers \ {w} : lock = g => lock' = g
      /\ reader' = "read" => lock' = Reader
      /\ (Waits(w) => spent[w] <= Patience(w))'
  BY <1>2 DEF IndInv, LockOK, Waits, Patience
<1>8. /\ misled' = misled /\ prompted' = prompted /\ (~misled /\ prompted => Lost)
      /\ judged'[w] <= logins /\ jar'[w] = NoJar
  BY <1>2 DEF IndInv, SessionOK, JarOK
<1> HIDE DEF Wake, Goto, client, outside, history
<1> QED BY <1>1, <1>2, <1>3, <1>4, <1>5, <1>6, <1>7, <1>8, LocalStep

LEMMA AcquireStep == ASSUME IndInv, NEW w \in Workers, Acquire(w) PROVE IndInv'
<1> USE Settings DEF Acquire, Goto, client, outside, history
<1>t. TypeOK
  BY DEF IndInv
<1>1. TypeOK'
  BY <1>t DEF TypeOK
<1>2. pc'[w] = "load" /\ spent'[w] = 0 /\ jar'[w] = jar[w] /\ judged'[w] = judged[w]
  BY <1>t DEF TypeOK
<1>3. Moves(w)
  BY <1>t DEF TypeOK, Moves
<1>4. JarOK(w)'
  BY <1>2 DEF IndInv, JarOK
<1>5. w \in Daemons => FreshOK(w)'
  <2> SUFFICES ASSUME w \in Daemons PROVE FreshOK(w)'
    OBVIOUS
  <2>1. Need(w)' = 2 * CallTicks
    BY <1>2 DEF Need
  <2>2. Need(w) = LockTimeout - spent[w] + 2 * CallTicks
    BY DEF Need
  <2>3. spent[w] \in Nat /\ spent[w] <= LockTimeout
    BY <1>t DEF IndInv, LockOK, TypeOK, Waits, Patience
  <2>4. file # NoJar => file.ttl \in Nat
    BY <1>t, JarFields DEF TypeOK
  <2> QED BY <1>2, <2>1, <2>2, <2>3, <2>4 DEF IndInv, FreshOK
<1>6. Lost => Lost'
  BY <1>2, <1>3 DEF Lost, Moves, NeedsRefresh
<1>7. /\ \A g \in Workers \ {w} : lock = g => lock' = g
      /\ reader' = "read" => lock' = Reader
      /\ (Waits(w) => spent[w] <= Patience(w))'
      /\ lock' = w
  BY <1>2, Names DEF IndInv, LockOK, Waits, Patience
<1>8. /\ misled' = misled /\ prompted' = prompted /\ (~misled /\ prompted => Lost)
      /\ judged'[w] <= logins /\ jar'[w] = NoJar
  BY <1>2 DEF IndInv, SessionOK, JarOK
<1> HIDE DEF Acquire, Goto, client, outside, history
<1> QED BY <1>1, <1>2, <1>3, <1>4, <1>5, <1>6, <1>7, <1>8, LocalStep

LEMMA LockTimedOutStep == ASSUME IndInv, NEW w \in Workers, LockTimedOut(w) PROVE IndInv'
<1>1. faults' \in 0 .. MaxFaults
  BY DEF LockTimedOut, IndInv, TypeOK
<1> QED BY <1>1, FinishStep, KnownStatus DEF LockTimedOut

LEMMA LoadFailsStep == ASSUME IndInv, NEW w \in Workers, LoadFails(w) PROVE IndInv'
<1>1. faults' \in 0 .. MaxFaults
  BY DEF LoadFails, IndInv, TypeOK
<1>2. Lost
  <2>1. ASSUME NEW g \in Workers PROVE pc[g] \notin {"touch", "save"}
    BY DEF LoadFails, IndInv, JarOK
  <2> QED BY <2>1 DEF Lost, LoadFails
<1> QED BY <1>1, <1>2, FinishStep, KnownStatus DEF LoadFails

LEMMA RenewFailsStep ==
    ASSUME IndInv, NEW w \in Workers,
           NEW s \in {"network_timeout", "network_error", "error"}, RenewFails(w, s)
    PROVE  IndInv'
<1>1. faults' \in 0 .. MaxFaults
  BY Settings DEF RenewFails, Fault, IndInv, TypeOK
<1> QED BY <1>1, FinishStep, KnownStatus DEF RenewFails

LEMMA SaveFailsStep == ASSUME IndInv, NEW w \in Workers, SaveFails(w) PROVE IndInv'
<1>1. faults' \in 0 .. MaxFaults
  BY Settings DEF SaveFails, Fault, IndInv, TypeOK
<1> QED BY <1>1, FinishStep, KnownStatus DEF SaveFails

\* profi.ru rejects the session: if it is the last one, it is lost, for the jar is the file.
LEMMA RenewRejectedStep == ASSUME IndInv, NEW w \in Workers, RenewRejected(w) PROVE IndInv'
<1> USE DEF RenewRejected
<1>1. faults' \in 0 .. MaxFaults
  BY DEF IndInv, TypeOK
<1>2. jar[w] # NoJar /\ file # NoJar /\ NeedsRefresh(jar[w]) /\ lock = w
      /\ (jar[w].session = file.session => jar[w] = file)
  BY DEF IndInv, JarOK, LockOK
<1>3. judged'[w] = jar[w].session
  BY <1>2 DEF Finish, Return, IndInv, TypeOK
<1>4. ASSUME NEW g \in Workers PROVE pc[g] \notin {"touch", "save"}
  BY <1>2 DEF IndInv, LockOK
<1>5. ASSUME ~misled, judged'[w] = logins PROVE Lost
  BY <1>2, <1>3, <1>4, <1>5 DEF Lost, IndInv, SessionOK
<1> QED BY <1>1, <1>5, FinishStep, KnownStatus

LEMMA LoadStep == ASSUME IndInv, NEW w \in Workers, Load(w) PROVE IndInv'
<1> USE Settings DEF Load, Goto, client, outside, history
<1>t. TypeOK
  BY DEF IndInv
<1>1. TypeOK'
  BY <1>t DEF TypeOK
<1>2. /\ pc'[w] = IF NeedsRefresh(file) THEN "renew" ELSE "save"
      /\ spent'[w] = 0 /\ jar'[w] = file /\ ~changed'[w] /\ judged'[w] = judged[w]
  BY <1>t DEF TypeOK
<1>3. Moves(w)
  BY <1>t DEF TypeOK, Moves
<1>f. file \in Jars /\ file' = file /\ file.ttl \in Nat
  BY <1>t, JarFields DEF TypeOK
<1>4. JarOK(w)'
  BY <1>2, <1>f DEF JarOK, NeedsRefresh
<1>5. w \in Daemons => FreshOK(w)'
  <2> SUFFICES ASSUME w \in Daemons PROVE FreshOK(w)'
    OBVIOUS
  <2>1. Need(w)' \in Nat /\ Need(w)' <= 2 * CallTicks
    BY <1>2 DEF Need
  <2>2. Need(w) = 2 * CallTicks
    BY DEF Need
  <2> QED BY <1>2, <1>f, <2>1, <2>2 DEF IndInv, FreshOK
<1>6. Lost => Lost'
  BY <1>2, <1>3, <1>f DEF Lost, Moves, NeedsRefresh
<1>7. /\ \A g \in Workers \ {w} : lock = g => lock' = g
      /\ reader' = "read" => lock' = Reader
      /\ (Waits(w) => spent[w] <= Patience(w))'
      /\ lock' = w
  BY <1>2 DEF IndInv, LockOK, Waits, Patience
<1>8. /\ misled' = misled /\ prompted' = prompted /\ (~misled /\ prompted => Lost)
      /\ judged'[w] <= logins /\ jar'[w].session <= logins
      /\ ~misled => jar'[w].session = logins
  BY <1>2 DEF IndInv, SessionOK
<1> HIDE DEF Load, Goto, client, outside, history
<1> QED BY <1>1, <1>2, <1>3, <1>4, <1>5, <1>6, <1>7, <1>8, LocalStep

\* A jar with another token.
LEMMA JarUpdate ==
    ASSUME NEW j \in Jars, NEW t \in 0 .. Lifetime, NEW b \in BOOLEAN
    PROVE  /\ [j EXCEPT !.ttl = t, !.touched = b] \in Jars
           /\ [j EXCEPT !.ttl = t, !.touched = b].session = j.session
           /\ [j EXCEPT !.ttl = t, !.touched = b].ttl = t
           /\ [j EXCEPT !.ttl = t] \in Jars
           /\ [j EXCEPT !.ttl = t].session = j.session
           /\ [j EXCEPT !.ttl = t].ttl = t
BY DEF Jars

LEMMA RenewStep == ASSUME IndInv, NEW w \in Workers, Renew(w) PROVE IndInv'
<1> USE Settings DEF Goto, client, outside, history
<1>t. TypeOK
  BY DEF IndInv
<1>j. /\ jar[w] \in Jars /\ file \in Jars /\ NeedsRefresh(jar[w]) /\ ~changed[w] /\ lock = w
      /\ jar[w].session = file.session => jar[w] = file
  BY <1>t DEF Renew, IndInv, JarOK, LockOK, TypeOK
<1>f. file' = file /\ file.ttl \in Nat /\ file.ttl <= Lifetime /\ jar[w].ttl \in Nat
  BY <1>j, JarFields DEF Renew
<1> DEFINE new == [jar[w] EXCEPT !.ttl = Lifetime, !.touched = FALSE]
<1>n. new \in Jars /\ new.session = jar[w].session /\ new.ttl = Lifetime
  <2>1. Lifetime \in 0 .. Lifetime
    OBVIOUS
  <2> QED BY <1>j, <2>1 DEF Jars
<1>c. \/ /\ jar' = [jar EXCEPT ![w] = new] /\ changed' = [changed EXCEPT ![w] = TRUE]
         /\ faults' = faults
      \/ jar' = jar /\ changed' = changed /\ faults' = faults + 1 /\ faults < MaxFaults
  BY DEF Renew, Fault
<1>u. Goto(w, "touch") /\ UNCHANGED <<file, lock, outcome, timer, client, outside, history>>
  BY DEF Renew
<1> HIDE DEF new
<1>1. TypeOK'
  <2>1. jar' \in [Workers -> Jars \cup {NoJar}]
    <3>1. jar \in [Workers -> Jars \cup {NoJar}] /\ new \in Jars \cup {NoJar}
      BY <1>t, <1>n DEF TypeOK
    <3>2. [jar EXCEPT ![w] = new] \in [Workers -> Jars \cup {NoJar}]
      BY <3>1
    <3> QED BY <1>c, <3>1, <3>2
  <2>2. changed' \in [Workers -> BOOLEAN]
    BY <1>t, <1>c DEF TypeOK
  <2>3. faults' \in 0 .. MaxFaults
    BY <1>t, <1>c DEF TypeOK
  <2> QED BY <1>t, <1>u, <2>1, <2>2, <2>3 DEF TypeOK
<1>2. /\ pc'[w] = "touch" /\ spent'[w] = 0 /\ judged'[w] = judged[w]
      /\ jar'[w] \in Jars /\ jar'[w].session = jar[w].session
      /\ jar'[w].session = file.session => jar'[w].ttl >= file.ttl
      /\ changed'[w] => jar'[w].ttl = Lifetime
  <2>1. CASE jar' = [jar EXCEPT ![w] = new]
    BY <1>t, <1>u, <1>c, <1>j, <1>n, <1>f, <2>1 DEF TypeOK
  <2>2. CASE jar' = jar /\ changed' = changed
    BY <1>t, <1>u, <1>j, <1>f, <2>2 DEF TypeOK
  <2> QED BY <1>c, <2>1, <2>2
<1>3. Moves(w)
  BY <1>t, <1>u, <1>c DEF TypeOK, Moves
<1>4. JarOK(w)'
  <2>1. jar'[w] # NoJar /\ file' # NoJar /\ jar'[w].ttl \in Nat
    BY <1>2, <1>j, <1>f, JarFields
  <2> QED BY <1>2, <1>f, <2>1 DEF JarOK
<1>5. w \in Daemons => FreshOK(w)'
  <2> SUFFICES ASSUME w \in Daemons PROVE FreshOK(w)'
    OBVIOUS
  <2>1. Need(w)' = CallTicks
    BY <1>2 DEF Need
  <2>2. Need(w) = 2 * CallTicks - spent[w]
    BY DEF Renew, Need
  <2>3. spent[w] \in Nat /\ spent[w] <= CallTicks
    BY <1>t DEF Renew, IndInv, LockOK, TypeOK, Waits, Patience
  <2>4. trouble' = trouble /\ alive' = alive /\ pc[w] = "renew"
    BY DEF Renew
  <2> QED BY <1>2, <1>f, <2>1, <2>2, <2>3, <2>4 DEF IndInv, FreshOK
<1>6. ~misled => jar[w].session = logins /\ logins \in alive
  BY <1>j, JarFields DEF Renew, IndInv, SessionOK
<1>7. ~misled => ~Lost
  BY <1>6, <1>j, JarFields DEF Lost
<1>8. /\ \A g \in Workers \ {w} : lock = g => lock' = g
      /\ reader' = "read" => lock' = Reader
      /\ (Waits(w) => spent[w] <= Patience(w))'
      /\ lock' = w
  BY <1>2, <1>j DEF Renew, IndInv, LockOK, Waits, Patience
<1>9. /\ misled' = misled /\ prompted' = prompted /\ (~misled /\ prompted => Lost)
      /\ judged'[w] <= logins /\ jar'[w].session <= logins
  BY <1>2, <1>j, JarFields DEF Renew, IndInv, SessionOK
<1> HIDE DEF Goto, client, outside, history
<1> QED BY <1>1, <1>2, <1>3, <1>4, <1>5, <1>6, <1>7, <1>8, <1>9, LocalStep

\* The renewal is verified, or the cycle ends: what goes on to Save is not due.
LEMMA VerifiedStep ==
    ASSUME IndInv, NEW w \in Workers, NEW j \in Jars, NEW b \in BOOLEAN, pc[w] = "touch",
           j.session = jar[w].session,
           j.ttl > 0 /\ b => /\ ~NeedsRefresh(j)
                             /\ j.session = file.session => j.ttl >= file.ttl,
           Verified(w, j, b), UNCHANGED <<file, timer, client, outside>>,
           faults' \in 0 .. MaxFaults
    PROVE  IndInv'
<1>1. CASE ~(j.ttl > 0 /\ b)
  BY <1>1, FinishStep, KnownStatus DEF Verified
<1>2. CASE j.ttl > 0 /\ b
  <2> USE Settings DEF Goto, client, outside, history
  <2>t. TypeOK
    BY DEF IndInv
  <2>u. /\ jar' = [jar EXCEPT ![w] = j] /\ Goto(w, "save")
        /\ UNCHANGED <<lock, changed, outcome, history>>
    BY <1>2 DEF Verified
  <2>j. jar[w] \in Jars /\ file \in Jars /\ lock = w /\ file.ttl \in Nat /\ j.ttl \in Nat /\ j # NoJar
        /\ file # NoJar /\ jar[w] # NoJar
    BY <2>t, JarFields DEF IndInv, JarOK, LockOK, TypeOK
  <2>1. TypeOK'
    BY <2>t, <2>u DEF TypeOK
  <2>2. pc'[w] = "save" /\ spent'[w] = 0 /\ judged'[w] = judged[w] /\ jar'[w] = j
    BY <2>t, <2>u DEF TypeOK
  <2>3. Moves(w)
    BY <2>t, <2>u DEF TypeOK, Moves
  <2>4. JarOK(w)'
    BY <1>2, <2>2, <2>j DEF JarOK, NeedsRefresh
  <2>5. w \in Daemons => FreshOK(w)'
    <3> SUFFICES ASSUME w \in Daemons PROVE FreshOK(w)'
      OBVIOUS
    <3>1. Need(w)' = 0
      BY <2>2 DEF Need
    <3>2. w \notin trouble => Need(w) \in Nat
      BY <2>t, NeedBounds DEF IndInv
    <3>3. trouble' = trouble
      BY <2>u
    <3> QED BY <2>2, <2>j, <3>1, <3>2, <3>3 DEF IndInv, FreshOK
  <2>6. ~Lost
    BY DEF Lost
  <2>7. ~misled => jar[w].session = logins
    BY <2>j DEF IndInv, SessionOK
  <2>8. /\ \A g \in Workers \ {w} : lock = g => lock' = g
        /\ reader' = "read" => lock' = Reader
        /\ (Waits(w) => spent[w] <= Patience(w))'
        /\ lock' = w
    BY <2>2, <2>j, <2>u DEF IndInv, LockOK, Waits, Patience
  <2>9. /\ misled' = misled /\ prompted' = prompted /\ (~misled /\ prompted => Lost)
        /\ judged'[w] <= logins /\ jar'[w].session <= logins
    BY <2>2, <2>j, <2>u DEF IndInv, SessionOK
  <2> HIDE DEF Goto, client, outside, history
  <2> QED BY <2>1, <2>2, <2>3, <2>4, <2>5, <2>6, <2>7, <2>8, <2>9, LocalStep
<1> QED BY <1>1, <1>2

LEMMA TouchStep == ASSUME IndInv, NEW w \in Workers, Touch(w) PROVE IndInv'
<1> USE Settings
<1> DEFINE new == [jar[w] EXCEPT !.ttl = Lifetime, !.touched = TRUE]
<1>1. jar[w] \in Jars /\ file \in Jars
  BY DEF Touch, IndInv, JarOK, TypeOK
<1>2. new \in Jars /\ new.session = jar[w].session /\ new.ttl = Lifetime
  <2>1. Lifetime \in 0 .. Lifetime
    OBVIOUS
  <2> QED BY <1>1, <2>1 DEF Jars
<1>3. Verified(w, new, TRUE) /\ pc[w] = "touch" /\ UNCHANGED <<file, timer, client, outside>>
  BY DEF Touch
<1>4. faults' \in 0 .. MaxFaults
  BY DEF Touch, IndInv, TypeOK
<1> HIDE DEF new
<1>5. ~NeedsRefresh(new) /\ new.ttl >= file.ttl
  BY <1>1, <1>2, JarFields DEF NeedsRefresh
<1> QED BY <1>2, <1>3, <1>4, <1>5, VerifiedStep

LEMMA TouchFailsStep == ASSUME IndInv, NEW w \in Workers, TouchFails(w) PROVE IndInv'
<1> USE Settings
<1> DEFINE new == [jar[w] EXCEPT !.ttl = 0]
<1>1. jar[w] \in Jars /\ file \in Jars /\ changed[w] \in BOOLEAN /\ spent[w] \in Nat
      /\ jar[w].ttl \in Nat
  BY JarFields DEF TouchFails, IndInv, JarOK, TypeOK
<1>2. new \in Jars /\ new.session = jar[w].session /\ new.ttl = 0
  <2>1. 0 \in 0 .. Lifetime
    OBVIOUS
  <2> QED BY <1>1, <2>1 DEF Jars
<1>3. /\ Verified(w, jar[w], changed[w]) \/ Verified(w, new, TRUE)
      /\ pc[w] = "touch" /\ UNCHANGED <<file, timer, client, outside>>
  BY DEF TouchFails
<1>4. faults' \in 0 .. MaxFaults
  BY DEF TouchFails, Fault, IndInv, TypeOK
<1> HIDE DEF new
<1>5. spent[w] <= CallTicks
  BY <1>3 DEF IndInv, LockOK, Waits, Patience
<1>6. /\ changed[w] => ~NeedsRefresh(jar[w])
      /\ jar[w].session = file.session => jar[w].ttl >= file.ttl
  BY <1>1, <1>3, <1>5 DEF IndInv, JarOK, NeedsRefresh
<1>7. CASE Verified(w, jar[w], changed[w])
  BY <1>1, <1>3, <1>4, <1>6, <1>7, VerifiedStep
<1>8. CASE Verified(w, new, TRUE)
  <2>1. ~(new.ttl > 0)
    BY <1>2
  <2> QED BY <1>2, <1>3, <1>4, <1>8, <2>1, VerifiedStep
<1> QED BY <1>3, <1>7, <1>8

LEMMA ReportStep == ASSUME IndInv, NEW w \in Workers, Report(w) PROVE IndInv'
<1> USE Settings DEF Goto, client
<1>t. TypeOK
  BY DEF IndInv
<1>p. \/ /\ prompted' = Asks(outcome[w]) /\ faults' = faults
         /\ misled' = (misled \/ (Asks(outcome[w]) /\ judged[w] # logins))
      \/ /\ prompted' = prompted /\ misled' = misled /\ faults' = faults + 1
         /\ faults < MaxFaults
  BY DEF Report, Fault
<1>u. /\ pc[w] = "report"
      /\ judged' = [judged EXCEPT ![w] = 0]
      /\ timer' = [timer EXCEPT ![w] = IF w \in Daemons THEN Interval(outcome[w]) ELSE 0]
      /\ outcome' = [outcome EXCEPT ![w] = "ok"]
      /\ Goto(w, IF w \in Daemons THEN "sleep" ELSE "done")
      /\ UNCHANGED <<file, lock, jar, changed, client, alive, logins, trouble>>
  BY DEF Report
<1>1. TypeOK'
  <2>1. timer' \in [Workers -> Nat]
    <3>1. Interval(outcome[w]) \in Nat
      BY DEF Interval
    <3> QED BY <1>t, <1>u, <3>1 DEF TypeOK
  <2>2. prompted' \in BOOLEAN /\ misled' \in BOOLEAN
    <3>1. prompted \in BOOLEAN /\ misled \in BOOLEAN
      BY <1>t DEF TypeOK
    <3>2. Asks(outcome[w]) \in BOOLEAN
      BY DEF Asks
    <3>3. (misled \/ (Asks(outcome[w]) /\ judged[w] # logins)) \in BOOLEAN
      OBVIOUS
    <3> QED BY <1>p, <3>1, <3>2, <3>3
  <2>3. faults' \in 0 .. MaxFaults
    BY <1>t, <1>p DEF TypeOK
  <2>4. /\ judged' \in [Workers -> 0 .. MaxLogins] /\ outcome' \in [Workers -> Statuses]
    BY <1>t, <1>u, KnownStatus DEF TypeOK
  <2> QED BY <1>t, <1>u, <2>1, <2>2, <2>3, <2>4 DEF TypeOK
<1>2. /\ pc'[w] = IF w \in Daemons THEN "sleep" ELSE "done"
      /\ spent'[w] = 0 /\ judged'[w] = 0 /\ jar'[w] = jar[w]
      /\ w \in Daemons => timer'[w] = Interval(outcome[w])
  BY <1>t, <1>u DEF TypeOK
<1>3. Moves(w)
  BY <1>t, <1>u DEF TypeOK, Moves
<1>4. JarOK(w)'
  BY <1>2, <1>u DEF IndInv, JarOK
<1>5. w \in Daemons => FreshOK(w)'
  <2> SUFFICES ASSUME w \in Daemons PROVE FreshOK(w)'
    OBVIOUS
  <2>1. w \notin trouble => timer'[w] = CheckInterval
    BY <1>2, <1>u DEF IndInv, FreshOK, Interval
  <2>2. Need(w)' = timer'[w] + LockTimeout + 2 * CallTicks
    BY <1>2 DEF Need
  <2>3. Need(w) = RefreshBefore
    BY <1>u DEF Need
  <2>4. file # NoJar => file.ttl \in Nat
    BY <1>t, JarFields DEF TypeOK
  <2> QED BY <1>2, <1>u, <2>1, <2>2, <2>3, <2>4 DEF IndInv, FreshOK
<1>6. Lost => Lost'
  BY <1>2, <1>3 DEF Lost, Moves, NeedsRefresh
<1>7. /\ \A g \in Workers \ {w} : lock = g => lock' = g
      /\ reader' = "read" => lock' = Reader
      /\ (Waits(w) => spent[w] <= Patience(w))'
  BY <1>2, <1>u DEF IndInv, LockOK, Waits, Patience
<1>8. /\ misled => misled'
      /\ ~misled' /\ prompted' => Lost
  <2>1. /\ ~misled /\ prompted => Lost
        /\ ~misled /\ Asks(outcome[w]) /\ judged[w] = logins => Lost
    BY <1>u DEF IndInv, SessionOK
  <2>2. CASE /\ prompted' = Asks(outcome[w])
             /\ misled' = (misled \/ (Asks(outcome[w]) /\ judged[w] # logins))
    <3>1. prompted' <=> Asks(outcome[w])
      BY <2>2, Zenon
    <3>2. misled' <=> (misled \/ (Asks(outcome[w]) /\ judged[w] # logins))
      BY <2>2, Zenon
    <3> QED BY <2>1, <3>1, <3>2
  <2>3. CASE prompted' = prompted /\ misled' = misled
    BY <2>1, <2>3
  <2> QED BY <1>p, <2>2, <2>3
<1>9. judged'[w] <= logins /\ jar'[w] = NoJar
  BY <1>t, <1>2, <1>u DEF IndInv, JarOK, TypeOK, Sessions
<1> HIDE DEF Goto, client
<1> QED BY <1>1, <1>2, <1>3, <1>4, <1>5, <1>6, <1>7, <1>8, <1>9, LocalStep

LEMMA CrashStep == ASSUME IndInv, NEW w \in Workers, Crash(w) PROVE IndInv'
<1> USE Settings DEF Crash, Goto, outside
<1>t. TypeOK
  BY DEF IndInv
<1>1. TypeOK'
  <2>1. faults' \in 0 .. MaxFaults
    BY <1>t DEF TypeOK, Fault
  <2>2. /\ lock' \in Workers \cup {NoOwner, Reader} /\ reader' \in {"idle", "wait", "read"}
        /\ waited' \in 0 .. LockTimeout /\ trouble' \subseteq Daemons
    BY <1>t DEF TypeOK
  <2>3. /\ pc' \in [Workers -> {"sleep", "wait", "load", "renew", "touch", "save", "report", "done"}]
        /\ jar' \in [Workers -> Jars \cup {NoJar}] /\ changed' \in [Workers -> BOOLEAN]
        /\ outcome' \in [Workers -> Statuses]
    BY <1>t, KnownStatus DEF TypeOK
  <2>4. /\ timer' \in [Workers -> Nat] /\ spent' \in [Workers -> Nat]
        /\ judged' \in [Workers -> 0 .. MaxLogins]
    BY <1>t DEF TypeOK
  <2> QED BY <1>t, <2>1, <2>2, <2>3, <2>4 DEF TypeOK
<1>2. /\ pc'[w] = IF w \in Daemons THEN "sleep" ELSE "done"
      /\ spent'[w] = 0 /\ judged'[w] = 0 /\ jar'[w] = NoJar
      /\ w \in Daemons => w \in trouble'
  BY <1>t DEF TypeOK
<1>3. Moves(w)
  BY <1>t DEF TypeOK, Moves
<1>4. JarOK(w)' /\ (w \in Daemons => FreshOK(w)')
  BY <1>2 DEF JarOK, FreshOK
<1>5. Lost => Lost'
  BY <1>2, <1>3 DEF Lost, Moves, NeedsRefresh
<1>6. /\ \A g \in Workers \ {w} : lock = g => lock' = g
      /\ reader' = "read" => lock' = Reader
      /\ ~Waits(w)'
  BY <1>2, Names DEF IndInv, LockOK, Waits
<1>7. /\ misled' = misled /\ prompted' = prompted /\ (~misled /\ prompted => Lost)
  BY DEF IndInv, SessionOK
<1>8. judged'[w] <= logins
  BY <1>t, <1>2 DEF TypeOK, Sessions
<1> HIDE DEF Crash, Goto, outside
<1> QED BY <1>1, <1>2, <1>3, <1>4, <1>5, <1>6, <1>7, <1>8, LocalStep

--------------------------------------------------------------------------------
(* Save *)

\* The process that saves is alone with the file: nobody else has a jar in memory.  The
\* token it writes is not due, so that it outlives what any daemon still needs.
LEMMA SaveStep == ASSUME IndInv, NEW w \in Workers, Save(w) PROVE IndInv'
<1> USE Settings DEF client, outside
<1>t. TypeOK
  BY DEF IndInv
<1>s. Finish(w, "ok") /\ file' = jar[w] /\ pc[w] = "save" /\ UNCHANGED <<timer, client, outside, faults>>
  BY DEF Save
<1>o. "ok" \in Statuses
  BY KnownStatus
<1>j. jar[w] \in Jars /\ jar[w] # NoJar /\ lock = w /\ jar[w].ttl > RefreshBefore /\ jar[w].ttl \in Nat
  <2>1. jar[w] \in Jars /\ jar[w] # NoJar /\ lock = w /\ ~NeedsRefresh(jar[w])
    BY <1>s, <1>t DEF IndInv, JarOK, LockOK, TypeOK
  <2> QED BY <2>1, JarFields DEF NeedsRefresh
<1>1. TypeOK'
  BY <1>t, <1>o, <1>s, <1>j, FinishFacts DEF TypeOK
<1>2. /\ pc'[w] = "report" /\ jar'[w] = NoJar /\ outcome'[w] = "ok" /\ ~Waits(w)'
      /\ judged'[w] = jar[w].session
  BY <1>t, <1>o, <1>s, <1>j, FinishFacts
<1>3. ASSUME NEW g \in Workers \ {w}
      PROVE  /\ pc'[g] = pc[g] /\ jar'[g] = jar[g] /\ changed'[g] = changed[g]
             /\ outcome'[g] = outcome[g] /\ spent'[g] = spent[g] /\ judged'[g] = judged[g]
             /\ g \in trouble' <=> g \in trouble
             /\ timer'[g] = timer[g]
             /\ pc[g] \notin {"load", "renew", "touch", "save"} /\ jar[g] = NoJar
  <2>1. pc[g] \notin {"load", "renew", "touch", "save"}
    BY <1>j DEF IndInv, LockOK
  <2>2. jar[g] = NoJar
    BY <2>1 DEF IndInv, JarOK
  <2> QED BY <1>t, <1>o, <1>s, <2>1, <2>2, FinishFacts
<1>4. LockOK'
  <2>1. ASSUME NEW g \in Workers \ {w}
        PROVE  /\ pc'[g] \notin {"load", "renew", "touch", "save"}
               /\ (Waits(g) => spent[g] <= Patience(g))'
    BY <1>3, OtherLock DEF IndInv, LockOK
  <2>2. reader' # "read"
    BY <1>j, <1>s, Names DEF IndInv, LockOK
  <2> QED BY <1>2, <2>1, <2>2 DEF LockOK
<1>5. ASSUME NEW g \in Workers PROVE JarOK(g)'
  <2>1. jar'[g] = NoJar /\ pc'[g] \notin {"renew", "touch", "save"}
    BY <1>2, <1>3
  <2> QED BY <2>1 DEF JarOK
<1>6. ASSUME NEW d \in Daemons PROVE FreshOK(d)'
  <2>1. CASE d = w
    <3>1. Need(d)' = RefreshBefore
      BY <1>2, <2>1 DEF Need
    <3> QED BY <1>2, <1>s, <1>j, <2>1, <3>1 DEF FreshOK
  <2>2. CASE d # w
    <3>1. Need(d)' = Need(d)
      BY <1>3, <2>2, Names DEF Need
    <3>2. d \notin trouble => Need(d) \in Nat /\ Need(d) <= RefreshBefore
      BY <1>t, NeedBounds DEF IndInv
    <3> QED BY <1>3, <1>s, <1>j, <2>2, <3>1, <3>2, Names DEF IndInv, FreshOK
  <2> QED BY <2>1, <2>2
<1>7. SessionOK'
  <2>1. /\ ~misled => jar[w].session = logins
        /\ jar[w].session <= logins
        /\ ~Lost
        /\ \A g \in Workers : judged[g] <= logins
        /\ alive \subseteq 1 .. logins
    BY <1>s, <1>j DEF IndInv, SessionOK, Lost
  <2>2. misled' = misled /\ logins' = logins /\ alive' = alive /\ prompted' = prompted
    BY <1>s DEF Finish, Return
  <2>3. ~misled => ~prompted
    BY <2>1 DEF IndInv, SessionOK
  <2>4. ASSUME NEW g \in Workers, ~misled, pc'[g] = "report", Asks(outcome'[g])
        PROVE  judged'[g] # logins
    <3>1. g # w
      BY <1>2, <2>4 DEF Asks
    <3> QED BY <1>3, <2>1, <2>4, <3>1 DEF IndInv, SessionOK, Asks
  <2>5. ASSUME NEW g \in Workers PROVE judged'[g] <= logins /\ jar'[g] = NoJar
    BY <1>2, <1>3, <2>1
  <2> QED BY <1>s, <2>1, <2>2, <2>3, <2>4, <2>5 DEF SessionOK
<1> QED BY <1>1, <1>4, <1>5, <1>6, <1>7 DEF IndInv

--------------------------------------------------------------------------------
(* The client of GetCookies *)

LEMMA ReaderStep ==
    ASSUME IndInv, Ask \/ ReaderAcquire \/ ReaderTimedOut \/ Serve
    PROVE  IndInv'
<1> USE Settings DEF Ask, ReaderAcquire, ReaderTimedOut, Serve, process, outside, history
<1>t. TypeOK
  BY DEF IndInv
<1>1. /\ \A g \in Workers : lock = g => lock' = g
      /\ reader' = "read" => lock' = Reader
  BY Names DEF IndInv, LockOK
<1>2. TypeOK'
  BY <1>t DEF TypeOK
<1>u. /\ UNCHANGED <<file, pc, jar, changed, outcome, timer, spent, alive, logins, prompted,
                     trouble, judged, misled, faults>>
  OBVIOUS
<1> HIDE DEF Ask, ReaderAcquire, ReaderTimedOut, Serve, process, outside, history
<1>3. LockOK'
  BY <1>1, <1>u DEF IndInv, LockOK, Waits, Patience
<1>4. ASSUME NEW g \in Workers PROVE JarOK(g)'
  BY <1>u, OtherJar DEF IndInv
<1>5. ASSUME NEW d \in Daemons PROVE FreshOK(d)'
  BY <1>u, OtherFresh DEF IndInv
<1>6. Lost' = Lost
  BY <1>u DEF Lost, NeedsRefresh
<1>7. SessionOK'
  BY <1>u, <1>6 DEF IndInv, SessionOK, Asks
<1> QED BY <1>2, <1>3, <1>4, <1>5, <1>7 DEF IndInv

--------------------------------------------------------------------------------
(* Time, profi.ru and the operator *)

\* A tick takes one tick off the token and one off what every daemon still needs.
LEMMA TickStep == ASSUME IndInv, Tick PROVE IndInv'
<1> USE Settings
<1>t. TypeOK
  BY DEF IndInv
<1>u. /\ UNCHANGED <<lock, pc, changed, outcome, reader, alive, logins, prompted, trouble, judged,
                     misled, faults>>
      /\ file' = Aged(file)
      /\ jar' = [w \in Workers |-> Aged(jar[w])]
      /\ timer' = [w \in Workers |-> IF timer[w] > 0 THEN timer[w] - 1 ELSE 0]
      /\ spent' = [w \in Workers |-> IF Waits(w) THEN spent[w] + 1 ELSE 0]
      /\ waited' = IF reader = "wait" THEN waited + 1 ELSE 0
  BY DEF Tick, outside, history
<1>w. ASSUME NEW w \in Workers
      PROVE  /\ jar[w] \in Jars \cup {NoJar} /\ jar'[w] = Aged(jar[w])
             /\ timer[w] \in Nat /\ timer'[w] = IF timer[w] > 0 THEN timer[w] - 1 ELSE 0
             /\ spent[w] \in Nat /\ spent'[w] = IF Waits(w) THEN spent[w] + 1 ELSE 0
             /\ \/ pc[w] = "done"
                \/ pc[w] = "sleep" /\ (timer[w] > 0 \/ w \in OneShots)
                \/ Waits(w) /\ spent[w] < Patience(w)
  <2>1. jar[w] \in Jars \cup {NoJar} /\ timer[w] \in Nat /\ spent[w] \in Nat
    BY <1>t DEF TypeOK
  <2>2. \/ pc[w] = "done"
        \/ pc[w] = "sleep" /\ (timer[w] > 0 \/ w \in OneShots)
        \/ Waits(w) /\ spent[w] < Patience(w)
    BY DEF Tick
  <2> QED BY <1>u, <2>1, <2>2
<1>f. file \in Jars \cup {NoJar}
  BY <1>t DEF TypeOK
<1>p. ASSUME NEW w \in Workers
      PROVE  (Waits(w)' <=> Waits(w)) /\ Patience(w)' = Patience(w) /\ Patience(w) \in Nat
  BY <1>u DEF Waits, Patience
<1>1. TypeOK'
  <2>1. file' \in Jars \cup {NoJar}
    BY <1>f, <1>u, AgedFields
  <2>2. jar' \in [Workers -> Jars \cup {NoJar}]
    <3>1. ASSUME NEW w \in Workers PROVE Aged(jar[w]) \in Jars \cup {NoJar}
      BY <1>w, AgedFields
    <3> QED BY <1>u, <3>1
  <2>3. timer' \in [Workers -> Nat] /\ spent' \in [Workers -> Nat]
    <3>1. ASSUME NEW w \in Workers
          PROVE  /\ (IF timer[w] > 0 THEN timer[w] - 1 ELSE 0) \in Nat
                 /\ (IF Waits(w) THEN spent[w] + 1 ELSE 0) \in Nat
      BY <1>w
    <3> QED BY <1>u, <3>1
  <2>4. waited' \in 0 .. LockTimeout
    BY <1>t, <1>u DEF TypeOK, Tick
  <2> QED BY <1>t, <1>u, <2>1, <2>2, <2>3, <2>4 DEF TypeOK
<1>2. LockOK'
  <2>1. ASSUME NEW w \in Workers PROVE (Waits(w) => spent[w] <= Patience(w))'
    <3>1. Waits(w) => spent[w] < Patience(w)
      BY <1>w DEF Waits
    <3> QED BY <1>w, <1>p, <3>1
  <2> QED BY <1>u, <2>1 DEF IndInv, LockOK
<1>3. ASSUME NEW w \in Workers PROVE JarOK(w)'
  <2>1. pc'[w] = pc[w] /\ changed'[w] = changed[w] /\ pc[w] # "save"
    BY <1>u, <1>w DEF Waits
  <2>2. JarOK(w)
    BY DEF IndInv
  <2>3. /\ jar'[w] = NoJar <=> jar[w] = NoJar
        /\ file' = NoJar <=> file = NoJar
    BY <1>f, <1>u, <1>w, AgedFields
  <2>4. CASE jar[w] = NoJar
    BY <2>1, <2>2, <2>3, <2>4 DEF JarOK
  <2>5. CASE jar[w] # NoJar
    <3>1. jar[w] \in Jars /\ file \in Jars /\ file # NoJar
      BY <1>f, <1>w, <2>2, <2>5 DEF JarOK
    <3>2. /\ jar'[w].session = jar[w].session /\ file'.session = file.session
          /\ jar'[w].ttl = IF jar[w].ttl > 0 THEN jar[w].ttl - 1 ELSE 0
          /\ file'.ttl = IF file.ttl > 0 THEN file.ttl - 1 ELSE 0
          /\ jar[w] = file => jar'[w] = file'
      BY <1>u, <1>w, <2>5, <3>1, AgedFields
    <3>3. jar[w].ttl \in Nat /\ file.ttl \in Nat
      BY <3>1, JarFields
    <3>4. pc[w] = "touch" => spent'[w] = spent[w] + 1 /\ spent[w] \in Nat
      BY <1>w DEF Waits
    <3> QED BY <2>1, <2>2, <2>3, <2>5, <3>1, <3>2, <3>3, <3>4 DEF JarOK, NeedsRefresh
  <2> QED BY <2>4, <2>5
<1>4. ASSUME NEW d \in Daemons PROVE FreshOK(d)'
  <2>1. FreshOK(d) /\ pc'[d] = pc[d] /\ outcome'[d] = outcome[d] /\ trouble' = trouble /\ alive' = alive
    BY <1>u DEF IndInv
  <2>2. d \in Workers /\ d \notin OneShots
    BY Names
  <2>3. \/ pc[d] = "sleep" /\ timer[d] > 0
        \/ pc[d] \in {"wait", "renew", "touch"}
    BY <1>w, <2>1, <2>2 DEF FreshOK, Waits
  <2>4. /\ timer[d] \in Nat /\ spent[d] \in Nat
        /\ pc[d] = "sleep" => timer'[d] = timer[d] - 1
        /\ pc[d] \in {"wait", "renew", "touch"} => spent'[d] = spent[d] + 1
    BY <1>w, <2>2, <2>3 DEF Waits
  <2>5. Need(d)' = Need(d) - 1
    BY <2>1, <2>3, <2>4 DEF Need
  <2>6. d \notin trouble => Need(d) \in Nat
    BY <1>t, <2>1, NeedBounds DEF IndInv
  <2>7. ASSUME d \notin trouble, file' # NoJar, file'.session \in alive
        PROVE  file'.ttl > Need(d)'
    <3>1. file \in Jars /\ file # NoJar /\ file.session \in alive
      BY <1>f, <1>u, <2>7, AgedFields
    <3>2. file.ttl > Need(d) /\ file.ttl \in Nat
      BY <2>1, <2>7, <3>1, JarFields DEF FreshOK
    <3>3. file'.ttl = IF file.ttl > 0 THEN file.ttl - 1 ELSE 0
      BY <1>u, <3>1, AgedFields
    <3> QED BY <2>5, <2>6, <2>7, <3>2, <3>3
  <2> QED BY <2>1, <2>3, <2>4, <2>7 DEF FreshOK
<1>5. SessionOK'
  <2>1. /\ file' = NoJar <=> file = NoJar
        /\ file # NoJar => file'.session = file.session
        /\ NeedsRefresh(file) /\ file # NoJar => NeedsRefresh(file')
    <3>1. CASE file = NoJar
      BY <1>u, <3>1, AgedFields
    <3>2. CASE file # NoJar
      <4>1. file \in Jars /\ file.ttl \in Nat
        BY <1>f, <3>2, JarFields
      <4> QED BY <1>u, <3>2, <4>1, AgedFields DEF NeedsRefresh
    <3> QED BY <3>1, <3>2
  <2>2. ASSUME NEW w \in Workers
        PROVE  /\ jar'[w] = NoJar <=> jar[w] = NoJar
               /\ jar[w] # NoJar => jar'[w].session = jar[w].session
    BY <1>w, AgedFields
  <2>3. Lost => Lost'
    BY <1>u, <2>1 DEF Lost
  <2>4. /\ file' # NoJar => file'.session <= logins'
        /\ alive' \subseteq 1 .. logins'
        /\ ~misled' => (file' # NoJar => file'.session = logins') /\ (prompted' => Lost')
    BY <1>u, <2>1, <2>3 DEF IndInv, SessionOK
  <2>5. ASSUME NEW w \in Workers
        PROVE  /\ jar'[w] # NoJar => jar'[w].session <= logins'
               /\ judged'[w] <= logins'
               /\ ~misled' /\ jar'[w] # NoJar /\ jar'[w].session # logins' =>
                      pc'[w] = "renew" /\ jar'[w].session \notin alive'
               /\ ~misled' /\ pc'[w] = "report" /\ Asks(outcome'[w]) /\ judged'[w] = logins' => Lost'
    BY <1>u, <2>2, <2>3 DEF IndInv, SessionOK, Asks
  <2> QED BY <2>4, <2>5 DEF SessionOK
<1> QED BY <1>1, <1>2, <1>3, <1>4, <1>5 DEF IndInv

LEMMA SessionEndsStep == ASSUME IndInv, NEW s \in Sessions, SessionEnds(s) PROVE IndInv'
<1>t. TypeOK
  BY DEF IndInv
<1>u. /\ UNCHANGED <<file, lock, pc, jar, changed, outcome, timer, spent, reader, waited, logins,
                     prompted, trouble, judged, misled, faults>>
      /\ alive' \subseteq alive
  BY DEF SessionEnds, process, client, history
<1>1. TypeOK'
  BY <1>t, <1>u DEF TypeOK
<1>2. LockOK'
  BY <1>u DEF IndInv, LockOK, Waits, Patience
<1>3. ASSUME NEW w \in Workers PROVE JarOK(w)'
  BY <1>u, OtherJar DEF IndInv
<1>4. ASSUME NEW d \in Daemons PROVE FreshOK(d)'
  <2>1. Need(d)' = Need(d)
    BY <1>u DEF Need
  <2> QED BY <1>u, <2>1 DEF IndInv, FreshOK
<1>5. Lost => Lost'
  BY <1>u DEF Lost, NeedsRefresh
<1>6. SessionOK'
  BY <1>u, <1>5 DEF IndInv, SessionOK, Asks
<1> QED BY <1>1, <1>2, <1>3, <1>4, <1>6 DEF IndInv

\* The upload of a new session: no jar in memory is of it, and unless a status was
\* outdated none of them will be saved.
LEMMA LoginStep == ASSUME IndInv, Login PROVE IndInv'
<1> USE Settings
<1>t. TypeOK
  BY DEF IndInv
<1> DEFINE new == [session |-> logins + 1, ttl |-> Lifetime, touched |-> TRUE]
<1>u. /\ UNCHANGED <<lock, pc, jar, changed, outcome, timer, spent, reader, waited, trouble, judged,
                     misled, faults>>
      /\ prompted /\ logins < MaxLogins /\ logins' = logins + 1
      /\ alive' = alive \cup {logins + 1} /\ file' = new /\ prompted' = FALSE
  BY DEF Login, process, client, history
<1>l. logins \in Nat /\ logins >= 1 /\ logins + 1 \in Sessions
  BY <1>t, <1>u DEF TypeOK, Sessions
<1>n. new \in Jars /\ new.session = logins + 1 /\ new.ttl = Lifetime /\ new # NoJar
  <2>1. new \in Jars
    BY <1>l DEF Jars
  <2> QED BY <2>1, JarFields
<1> HIDE DEF new
<1>1. TypeOK'
  BY <1>t, <1>u, <1>l, <1>n DEF TypeOK
<1>2. LockOK'
  BY <1>u DEF IndInv, LockOK, Waits, Patience
<1>j. ASSUME NEW w \in Workers, jar[w] # NoJar
      PROVE  jar[w].session \in Nat /\ jar[w].session <= logins
  <2>1. jar[w] \in Jars
    BY <1>t, <1>j DEF TypeOK
  <2> QED BY <1>j, <2>1, JarFields DEF IndInv, SessionOK
<1>3. ASSUME NEW w \in Workers PROVE JarOK(w)'
  <2>1. jar[w] # NoJar => jar[w].session # file'.session
    BY <1>j, <1>l, <1>n, <1>u
  <2>2. JarOK(w)
    BY DEF IndInv
  <2> QED BY <1>u, <1>n, <2>1, <2>2 DEF JarOK, NeedsRefresh
<1>4. ASSUME NEW d \in Daemons PROVE FreshOK(d)'
  <2>1. Need(d)' = Need(d)
    BY <1>u DEF Need
  <2>2. d \notin trouble => Need(d) \in Nat /\ Need(d) <= RefreshBefore
    BY <1>t, NeedBounds DEF IndInv
  <2> QED BY <1>u, <1>n, <2>1, <2>2 DEF IndInv, FreshOK
<1>5. SessionOK'
  <2>1. alive' \subseteq 1 .. logins'
    <3>1. alive \subseteq 1 .. logins
      BY DEF IndInv, SessionOK
    <3>2. ASSUME NEW s \in alive' PROVE s \in 1 .. logins + 1
      <4>1. s \in 1 .. logins \/ s = logins + 1
        BY <1>u, <3>1
      <4> QED BY <1>l, <4>1
    <3> QED BY <1>u, <3>2
  <2>2. ASSUME NEW w \in Workers
        PROVE  /\ jar'[w] # NoJar => jar'[w].session <= logins'
               /\ judged'[w] <= logins' /\ judged'[w] # logins'
    <3>1. judged[w] \in Nat /\ judged[w] <= logins
      BY <1>t DEF IndInv, SessionOK, TypeOK
    <3> QED BY <1>u, <1>j, <1>l, <3>1
  <2>3. ASSUME NEW w \in Workers, ~misled, jar[w] # NoJar
        PROVE  pc[w] = "renew" /\ jar[w].session \notin alive'
    <3>1. Lost
      BY <1>u, <2>3 DEF IndInv, SessionOK
    <3>2. pc[w] = "renew" /\ file # NoJar
      BY <2>3, <3>1 DEF IndInv, JarOK, Lost
    <3>3. jar[w].session \notin alive
      BY <2>3, <3>1, <3>2 DEF IndInv, SessionOK, Lost
    <3> QED BY <1>u, <1>l, <1>j, <2>3, <3>2, <3>3
  <2>4. file'.session = logins'
    BY <1>u, <1>n
  <2>5. logins' \in Nat
    BY <1>l, <1>u
  <2> QED BY <1>u, <2>1, <2>2, <2>3, <2>4, <2>5 DEF SessionOK
<1> QED BY <1>1, <1>2, <1>3, <1>4, <1>5 DEF IndInv

--------------------------------------------------------------------------------
(* The theorems *)

LEMMA NextIndInv == IndInv /\ [Next]_vars => IndInv'
<1> SUFFICES ASSUME IndInv, [Next]_vars PROVE IndInv'
  OBVIOUS
<1>1. ASSUME NEW w \in Workers, Wake(w) PROVE IndInv'
  BY <1>1, WakeStep
<1>2. ASSUME NEW w \in Workers, Cycle(w) PROVE IndInv'
  <2>1. CASE Acquire(w)
    BY <2>1, AcquireStep
  <2>2. CASE LockTimedOut(w)
    BY <2>2, LockTimedOutStep
  <2>3. CASE Load(w)
    BY <2>3, LoadStep
  <2>4. CASE LoadFails(w)
    BY <2>4, LoadFailsStep
  <2>5. CASE Renew(w)
    BY <2>5, RenewStep
  <2>6. CASE RenewRejected(w)
    BY <2>6, RenewRejectedStep
  <2>7. CASE \E s \in {"network_timeout", "network_error", "error"} : RenewFails(w, s)
    BY <2>7, RenewFailsStep
  <2>8. CASE Touch(w)
    BY <2>8, TouchStep
  <2>9. CASE TouchFails(w)
    BY <2>9, TouchFailsStep
  <2>10. CASE Save(w)
    BY <2>10, SaveStep
  <2>11. CASE SaveFails(w)
    BY <2>11, SaveFailsStep
  <2>12. CASE Report(w)
    BY <2>12, ReportStep
  <2> QED BY <1>2, <2>1, <2>2, <2>3, <2>4, <2>5, <2>6, <2>7, <2>8, <2>9, <2>10, <2>11, <2>12
          DEF Cycle
<1>3. ASSUME NEW w \in Workers, Crash(w) PROVE IndInv'
  BY <1>3, CrashStep
<1>4. CASE Ask \/ Client
  BY <1>4, ReaderStep DEF Client
<1>5. CASE Tick
  BY <1>5, TickStep
<1>6. ASSUME NEW s \in Sessions, SessionEnds(s) PROVE IndInv'
  BY <1>6, SessionEndsStep
<1>7. CASE Login
  BY <1>7, LoginStep
<1>8. CASE UNCHANGED vars
  <2>u. UNCHANGED <<file, lock, pc, jar, changed, outcome, timer, spent, reader, waited, alive,
                    logins, prompted, trouble, judged, misled, faults>>
    BY <1>8 DEF vars, process, client, outside, history
  <2>1. TypeOK'
    BY <2>u DEF IndInv, TypeOK
  <2>2. LockOK'
    BY <2>u DEF IndInv, LockOK, Waits, Patience
  <2>3. ASSUME NEW w \in Workers PROVE JarOK(w)'
    BY <2>u, OtherJar DEF IndInv
  <2>4. ASSUME NEW d \in Daemons PROVE FreshOK(d)'
    BY <2>u, OtherFresh DEF IndInv
  <2>5. Lost' = Lost
    BY <2>u DEF Lost, NeedsRefresh
  <2>6. SessionOK'
    BY <2>u, <2>5 DEF IndInv, SessionOK, Asks
  <2> QED BY <2>1, <2>2, <2>3, <2>4, <2>6 DEF IndInv
<1> QED BY <1>1, <1>2, <1>3, <1>4, <1>5, <1>6, <1>7, <1>8 DEF Next

\* The inductive invariant of the cookie file: who holds the lock, what the jars in memory
\* are worth, how long the token must last, and whose session the file holds.
THEOREM Invariance == Spec => []IndInv
BY InitIndInv, NextIndInv, PTL DEF Spec

\* Every variable is in its domain; no token outlives its lifetime.
THEOREM TypeCorrect == Spec => []TypeOK
<1>1. IndInv => TypeOK
  BY DEF IndInv
<1> QED BY <1>1, Invariance, PTL

\* The token of a living session runs out in the file only if the last cycle of every
\* daemon failed or died, whatever else competes for the lock and however slow the calls.
THEOREM TokenLasts == Spec => []NeverExpiresUnprovoked
<1>1. IndInv => NeverExpiresUnprovoked
  <2> SUFFICES ASSUME IndInv, file # NoJar, file.session \in alive, file.ttl = 0,
                      NEW d \in Daemons
               PROVE  d \in trouble
    BY DEF NeverExpiresUnprovoked, IndInv, TypeOK
  <2>1. d \notin trouble => Need(d) \in Nat
    BY NeedBounds DEF IndInv
  <2> QED BY <2>1 DEF IndInv, FreshOK
<1> QED BY <1>1, Invariance, PTL

\* Save puts neither an older session nor an older token over what the file holds, unless
\* a status misled the operator into a login that nobody needed.
THEOREM NothingUndone == Spec => FileNeverGoesBack
<1> DEFINE Forward ==
        \A w \in Workers : Save(w) /\ file # NoJar =>
            \/ file'.session = file.session /\ file'.ttl >= file.ttl
            \/ file'.session # file.session /\ misled
<1>1. IndInv /\ [Next]_vars => [Forward]_vars
  <2> SUFFICES ASSUME IndInv, NEW w \in Workers, Save(w), file # NoJar
               PROVE  \/ file'.session = file.session /\ file'.ttl >= file.ttl
                      \/ file'.session # file.session /\ misled
    OBVIOUS
  <2>1. file' = jar[w] /\ pc[w] = "save" /\ jar[w] # NoJar
    BY DEF Save, IndInv, JarOK
  <2>2. jar[w].session = file.session => jar[w].ttl >= file.ttl
    BY <2>1 DEF IndInv, JarOK
  <2>3. ~misled => jar[w].session = logins /\ file.session = logins
    BY <2>1 DEF IndInv, SessionOK
  <2> QED BY <2>1, <2>2, <2>3
<1> QED BY <1>1, Invariance, PTL DEF Spec, FileNeverGoesBack

================================================================================
