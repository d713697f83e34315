------------------------------ MODULE AuthWorker ------------------------------
(***************************************************************************)
(* auth-worker: the refresh loop that keeps the token in the cookie file   *)
(* alive, and GetCookies, which serves the file to parser-worker and to    *)
(* the health check.  Both work under an advisory lock on a lock file.     *)
(*                                                                         *)
(* A process is a daemon or a run with PROFI_RUN_ONCE=1; all share the     *)
(* files.  Time advances in ticks; a cookie jar is the login session it    *)
(* belongs to and its freshest token, of which the remaining lifetime (0   *)
(* also stands for no readable token) and the status "touched" are kept.   *)
(* A tick may pass while a process sleeps, waits for the lock or waits for *)
(* an HTTP answer; everything else is instantaneous compared with a tick.  *)
(***************************************************************************)
EXTENDS Integers

CONSTANTS
    Daemons,              \* processes that run the loop and serve gRPC
    OneShots,             \* processes that run one cycle
    Lifetime,             \* ticks a fresh token lives
    RefreshBefore,        \* PROFI_REFRESH_BEFORE
    CheckInterval,        \* PROFI_CHECK_INTERVAL
    ErrorInterval,        \* PROFI_ERROR_INTERVAL
    AuthExpiredInterval,  \* PROFI_AUTH_EXPIRED_INTERVAL
    CallTicks,            \* PROFI_REQUEST_TIMEOUT, the longest an HTTP call takes
    LockTimeout,          \* PROFI_LOCK_TIMEOUT
    MaxLogins,            \* bound: sessions the operator opens
    MaxFaults,            \* bound: crashes, failed calls, failed writes
    NoJar, NoOwner, Reader

Workers  == Daemons \cup OneShots
Sessions == 1 .. MaxLogins
Jars     == [session : Sessions, ttl : 0 .. Lifetime, touched : BOOLEAN]

\* A token that was not yet due at one check outlives a sleep, a wait for the lock and
\* the two calls of the next cycle; a fresh token is not due when a slow touch ends.
ASSUME TimingAssumption ==
    /\ {Lifetime, RefreshBefore, CheckInterval, ErrorInterval, AuthExpiredInterval,
        CallTicks, LockTimeout, MaxLogins, MaxFaults} \subseteq Nat
    /\ RefreshBefore >= CheckInterval + LockTimeout + 2 * CallTicks
    /\ Lifetime > RefreshBefore + CallTicks
    /\ MaxLogins > 0

\* Names stand for different things.
ASSUME NamesAssumption ==
    /\ Daemons \cap OneShots = {}
    /\ {NoOwner, Reader} \cap Workers = {}
    /\ NoOwner # Reader
    /\ NoJar \notin Jars

VARIABLES
    \* files
    file,      \* the cookie file
    lock,      \* who holds the lock
    \* the processes
    pc,        \* where process w is
    jar,       \* the jar in its memory while Execute runs
    changed,   \* whether a response of this cycle brought a new token
    outcome,   \* how its cycle ended
    timer,     \* ticks until its next cycle
    spent,     \* ticks it has spent waiting in its present step
    \* a client of GetCookies
    reader,    \* where it is
    waited,    \* ticks it has waited for the lock
    \* profi.ru and the operator
    alive,     \* the sessions profi.ru honours
    logins,    \* sessions opened so far
    prompted,  \* the status file asks for a login the operator has not yet made
    \* history and budget
    trouble,   \* the daemons whose last cycle failed or died
    judged,    \* the session (by number) that the outcome w is to report is about
    misled,    \* a status has asked for a login that had already been made
    faults

process == <<pc, jar, changed, outcome, timer, spent>>
client  == <<reader, waited>>
outside == <<alive, logins, prompted>>
history == <<trouble, judged, misled>>
vars    == <<file, lock, process, client, outside, history, faults>>

Statuses == {"ok", "renew_failed", "requires_login", "missing_or_invalid_cookies",
             "network_timeout", "network_error", "error"}

Fault == faults < MaxFaults /\ faults' = faults + 1

--------------------------------------------------------------------------------
(* The cycle *)

NeedsRefresh_late(j) == j.ttl < RefreshBefore
NeedsRefresh(j) == j.ttl <= RefreshBefore

Interval(s) ==
    CASE s = "ok"                                 -> CheckInterval
      [] s \in {"renew_failed", "requires_login"} -> AuthExpiredInterval
      [] OTHER                                    -> ErrorInterval

Goto(w, step) ==
    /\ pc' = [pc EXCEPT ![w] = step]
    /\ spent' = [spent EXCEPT ![w] = 0]

\* RunOnce begins: Execute asks for the lock.
Wake(w) ==
    /\ pc[w] = "sleep"
    /\ timer[w] = 0
    /\ Goto(w, "wait")
    /\ UNCHANGED <<file, lock, jar, changed, outcome, timer, client, outside,
                   history, faults>>

Acquire(w) ==
    /\ pc[w] = "wait"
    /\ lock = NoOwner
    /\ lock' = w
    /\ Goto(w, "load")
    /\ UNCHANGED <<file, jar, changed, outcome, timer, client, outside, history,
                   faults>>

\* Execute returns: the deferred release runs, the outcome is to be reported.
Return(w, s) ==
    /\ outcome' = [outcome EXCEPT ![w] = s]
    /\ jar' = [jar EXCEPT ![w] = NoJar]
    /\ changed' = [changed EXCEPT ![w] = FALSE]
    /\ trouble' = IF s # "ok" /\ w \in Daemons THEN trouble \cup {w} ELSE trouble \ {w}
    /\ judged' = [judged EXCEPT ![w] = IF jar[w] = NoJar THEN logins ELSE jar[w].session]
    /\ UNCHANGED misled
    /\ Goto(w, "report")

Finish_keepsLock(w, s) ==
    /\ Return(w, s)
    /\ UNCHANGED lock
Finish(w, s) ==
    /\ Return(w, s)
    /\ lock' = IF lock = w THEN NoOwner ELSE lock

\* The lock was not to be had in time.
LockTimedOut_proceeds(w) ==
    /\ pc[w] = "wait"
    /\ lock # NoOwner
    /\ spent[w] = LockTimeout
    /\ Goto(w, "load")
    /\ UNCHANGED <<file, lock, jar, changed, outcome, timer, client, outside, history, faults>>
LockTimedOut(w) ==
    /\ pc[w] = "wait"
    /\ lock # NoOwner
    /\ spent[w] = LockTimeout
    /\ Finish(w, "error")
    /\ UNCHANGED <<file, timer, client, outside, faults>>

\* The cookie file is read and its token judged.  A token that is not due is live,
\* so that the cycle goes straight on to Save.
Load(w) ==
    /\ pc[w] = "load"
    /\ file # NoJar
    /\ jar' = [jar EXCEPT ![w] = file]
    /\ changed' = [changed EXCEPT ![w] = FALSE]
    /\ Goto(w, IF NeedsRefresh(file) THEN "renew" ELSE "save")
    /\ UNCHANGED <<file, lock, outcome, timer, client, outside, history, faults>>

LoadFails(w) ==
    /\ pc[w] = "load"
    /\ file = NoJar
    /\ Finish(w, "missing_or_invalid_cookies")
    /\ UNCHANGED <<file, timer, client, outside, faults>>

\* profi.ru answers the renew call with a fresh token, or with success and no token.
\* It is assumed to do so as long as it honours the session; a session that ends
\* between the two calls shows as a failed touch after a successful renewal.
Renew_extends(w) ==
    /\ pc[w] = "renew"
    /\ jar[w].session \in alive
    /\ jar' = [jar EXCEPT ![w].ttl = @ + Lifetime, ![w].touched = FALSE]
    /\ changed' = [changed EXCEPT ![w] = TRUE]
    /\ Goto(w, "touch")
    /\ UNCHANGED <<file, lock, outcome, timer, client, outside, history, faults>>
Renew(w) ==
    /\ pc[w] = "renew"
    /\ jar[w].session \in alive
    /\ \/ /\ jar' = [jar EXCEPT ![w].ttl = Lifetime, ![w].touched = FALSE]
          /\ changed' = [changed EXCEPT ![w] = TRUE]
          /\ UNCHANGED faults
       \/ /\ Fault
          /\ UNCHANGED <<jar, changed>>
    /\ Goto(w, "touch")
    /\ UNCHANGED <<file, lock, outcome, timer, client, outside, history>>

\* classify: 401, 403 and redirects mean that the session is over.
RenewRejected(w) ==
    /\ pc[w] = "renew"
    /\ jar[w].session \notin alive
    /\ Finish(w, "requires_login")
    /\ UNCHANGED <<file, timer, client, outside, faults>>

\* No answer, 429, or any other error: the cycle is over, nothing is saved.
RenewFails(w, s) ==
    /\ pc[w] = "renew"
    /\ s = "network_timeout" => spent[w] = CallTicks
    /\ Fault
    /\ Finish(w, s)
    /\ UNCHANGED <<file, timer, client, outside>>

\* verifyRenew and finalTokens: the token of j is live and a response brought it.
Verified(w, j, brought) ==
    IF j.ttl > 0 /\ brought
    THEN /\ jar' = [jar EXCEPT ![w] = j]
         /\ Goto(w, "save")
         /\ UNCHANGED <<lock, changed, outcome, history>>
    ELSE Finish(w, "renew_failed")

\* tryTouch: the token becomes a touched one.
Touch(w) ==
    /\ pc[w] = "touch"
    /\ jar[w].session \in alive
    /\ Verified(w, [jar[w] EXCEPT !.ttl = Lifetime, !.touched = TRUE], TRUE)
    /\ UNCHANGED <<file, timer, client, outside, faults>>

\* tryTouch: the call fails, which is logged and swallowed.  Its cookies were merged
\* before the answer was judged: an answer that clears the token leaves none.
TouchFails(w) ==
    /\ pc[w] = "touch"
    /\ IF jar[w].session \in alive THEN Fault ELSE UNCHANGED faults
    /\ \/ Verified(w, jar[w], changed[w])
       \/ Verified(w, [jar[w] EXCEPT !.ttl = 0], TRUE)
    /\ UNCHANGED <<file, timer, client, outside>>

\* Save replaces the file in one step (temporary file, fsync, rename).
Save(w) ==
    /\ pc[w] = "save"
    /\ file' = jar[w]
    /\ Finish(w, "ok")
    /\ UNCHANGED <<timer, client, outside, faults>>

SaveFails(w) ==
    /\ pc[w] = "save"
    /\ Fault
    /\ Finish(w, "error")
    /\ UNCHANGED <<file, timer, client, outside>>

\* The statuses that ask the operator for a login.
Asks(s) == s \in {"requires_login", "missing_or_invalid_cookies"}

\* The worker writes the status and chooses the delay until the next cycle.  A
\* status that cannot be written is logged and left.
Report_stopsOnError(w) ==
    /\ pc[w] = "report"
    /\ prompted' = Asks(outcome[w])
    /\ misled' = (misled \/ (Asks(outcome[w]) /\ judged[w] # logins))
    /\ judged' = [judged EXCEPT ![w] = 0]
    /\ timer' = [timer EXCEPT ![w] = CheckInterval]
    /\ outcome' = [outcome EXCEPT ![w] = "ok"]
    /\ Goto(w, IF w \in Daemons /\ outcome[w] = "ok" THEN "sleep" ELSE "done")
    /\ UNCHANGED <<file, lock, jar, changed, client, alive, logins, trouble, faults>>
Report(w) ==
    /\ pc[w] = "report"
    /\ \/ /\ prompted' = Asks(outcome[w])
          /\ misled' = (misled \/ (Asks(outcome[w]) /\ judged[w] # logins))
          /\ UNCHANGED faults
       \/ /\ Fault
          /\ UNCHANGED <<prompted, misled>>
    /\ judged' = [judged EXCEPT ![w] = 0]
    /\ timer' = [timer EXCEPT ![w] = IF w \in Daemons THEN Interval(outcome[w]) ELSE 0]
    /\ outcome' = [outcome EXCEPT ![w] = "ok"]
    /\ Goto(w, IF w \in Daemons THEN "sleep" ELSE "done")
    /\ UNCHANGED <<file, lock, jar, changed, client, alive, logins, trouble>>

--------------------------------------------------------------------------------
(* GetCookies *)

Ask ==
    /\ reader = "idle"
    /\ reader' = "wait"
    /\ waited' = 0
    /\ UNCHANGED <<file, lock, process, outside, history, faults>>

ReaderAcquire ==
    /\ reader = "wait"
    /\ lock = NoOwner
    /\ lock' = Reader
    /\ reader' = "read"
    /\ waited' = 0
    /\ UNCHANGED <<file, process, outside, history, faults>>

ReaderTimedOut ==
    /\ reader = "wait"
    /\ lock # NoOwner
    /\ waited = LockTimeout
    /\ reader' = "idle"
    /\ waited' = 0
    /\ UNCHANGED <<file, lock, process, outside, history, faults>>

\* The file is read and the lock released, whether or not there is a file.
Serve ==
    /\ reader = "read"
    /\ reader' = "idle"
    /\ lock' = NoOwner
    /\ UNCHANGED <<file, process, waited, outside, history, faults>>

--------------------------------------------------------------------------------
(* Time, profi.ru, the operator, crashes *)

Aged(j) == IF j = NoJar THEN NoJar ELSE [j EXCEPT !.ttl = IF @ > 0 THEN @ - 1 ELSE 0]

\* The longest process w can stay where it is.
Patience(w) ==
    CASE pc[w] = "wait"               -> LockTimeout
      [] pc[w] \in {"renew", "touch"} -> CallTicks
      [] OTHER                        -> 0

Waits(w) == pc[w] \in {"wait", "renew", "touch"}

\* The lock is polled every 100 ms: nobody waits through a tick for a free lock.
Tick ==
    /\ \A w \in Workers :
           \/ pc[w] = "done"
           \/ pc[w] = "sleep" /\ (timer[w] > 0 \/ w \in OneShots)
           \/ Waits(w) /\ spent[w] < Patience(w)
    /\ \/ reader = "idle"
       \/ reader = "wait" /\ waited < LockTimeout
    /\ (reader = "wait" \/ \E w \in Workers : pc[w] = "wait") => lock # NoOwner
    /\ file' = Aged(file)
    /\ jar' = [w \in Workers |-> Aged(jar[w])]
    /\ timer' = [w \in Workers |-> IF timer[w] > 0 THEN timer[w] - 1 ELSE 0]
    /\ spent' = [w \in Workers |-> IF Waits(w) THEN spent[w] + 1 ELSE 0]
    /\ waited' = IF reader = "wait" THEN waited + 1 ELSE 0
    /\ UNCHANGED <<lock, pc, changed, outcome, reader, outside, history, faults>>

\* A session ends at profi.ru.
SessionEnds(s) ==
    /\ s \in alive
    /\ alive' = alive \ {s}
    /\ UNCHANGED <<file, lock, process, client, logins, prompted, history, faults>>

\* The operator, told to log in, replaces the file; nothing takes the lock for it.
\* Assumed: the cookies are those of a fresh login, whose token is touched and has its
\* whole life before it, and they replace the file in one step.
Login ==
    /\ prompted
    /\ logins < MaxLogins
    /\ logins' = logins + 1
    /\ alive' = alive \cup {logins'}
    /\ file' = [session |-> logins', ttl |-> Lifetime, touched |-> TRUE]
    /\ prompted' = FALSE
    /\ UNCHANGED <<lock, process, client, history, faults>>

\* A process dies; the kernel releases its lock.  The container is started again.
Crash(w) ==
    /\ pc[w] # "done"
    /\ Fault
    /\ Goto(w, IF w \in Daemons THEN "sleep" ELSE "done")
    /\ jar' = [jar EXCEPT ![w] = NoJar]
    /\ changed' = [changed EXCEPT ![w] = FALSE]
    /\ outcome' = [outcome EXCEPT ![w] = "ok"]
    /\ timer' = [timer EXCEPT ![w] = 0]
    /\ lock' = IF lock = w \/ (w \in Daemons /\ lock = Reader) THEN NoOwner ELSE lock
    /\ reader' = IF w \in Daemons THEN "idle" ELSE reader
    /\ waited' = IF w \in Daemons THEN 0 ELSE waited
    /\ trouble' = IF w \in Daemons THEN trouble \cup {w} ELSE trouble
    /\ judged' = [judged EXCEPT ![w] = 0]
    /\ UNCHANGED <<file, outside, misled>>

--------------------------------------------------------------------------------

Init ==
    LET first == [session |-> 1, ttl |-> Lifetime, touched |-> TRUE]
    IN  /\ file \in {NoJar, first}
        /\ logins = 1
        /\ alive = {1}
        /\ prompted = FALSE
        /\ lock = NoOwner
        /\ pc = [w \in Workers |-> "sleep"]
        /\ jar = [w \in Workers |-> NoJar]
        /\ changed = [w \in Workers |-> FALSE]
        /\ outcome = [w \in Workers |-> "ok"]
        /\ timer = [w \in Workers |-> 0]
        /\ spent = [w \in Workers |-> 0]
        /\ reader = "idle"
        /\ waited = 0
        /\ trouble = {}
        /\ judged = [w \in Workers |-> 0]
        /\ misled = FALSE
        /\ faults = 0

Cycle(w) ==
    \/ Acquire(w) \/ LockTimedOut(w)
    \/ Load(w) \/ LoadFails(w)
    \/ Renew(w) \/ RenewRejected(w)
    \/ \E s \in {"network_timeout", "network_error", "error"} : RenewFails(w, s)
    \/ Touch(w) \/ TouchFails(w)
    \/ Save(w) \/ SaveFails(w)
    \/ Report(w)

Client == ReaderAcquire \/ ReaderTimedOut \/ Serve

Next ==
    \/ \E w \in Workers : Wake(w) \/ Cycle(w) \/ Crash(w)
    \/ Ask \/ Client
    \/ Tick
    \/ \E s \in Sessions : SessionEnds(s)
    \/ Login

Spec == Init /\ [][Next]_vars

\* The loop of a daemon goes on, and calls end, at the latest by their timeout.  Time
\* is not held up by clients that ask again and again, and a process that polls a lock
\* which is free again and again gets it.
FairSpec ==
    /\ Spec
    /\ \A w \in Daemons : WF_vars(Wake(w))
    /\ \A w \in Workers : WF_vars(Cycle(w)) /\ SF_vars(Acquire(w))
    /\ WF_vars(Client)
    /\ SF_vars(Tick)

--------------------------------------------------------------------------------
(* Properties *)

\* Every variable is in its domain; no token outlives its lifetime.
TypeOK ==
    /\ file \in Jars \cup {NoJar}
    /\ lock \in Workers \cup {NoOwner, Reader}
    /\ pc \in [Workers -> {"sleep", "wait", "load", "renew", "touch", "save", "report", "done"}]
    /\ jar \in [Workers -> Jars \cup {NoJar}]
    /\ changed \in [Workers -> BOOLEAN]
    /\ outcome \in [Workers -> Statuses]
    /\ timer \in [Workers -> Nat]
    /\ spent \in [Workers -> Nat]
    /\ reader \in {"idle", "wait", "read"}
    /\ waited \in 0 .. LockTimeout
    /\ alive \subseteq Sessions
    /\ logins \in Sessions
    /\ prompted \in BOOLEAN
    /\ trouble \subseteq Daemons
    /\ judged \in [Workers -> 0 .. MaxLogins]
    /\ misled \in BOOLEAN
    /\ faults \in 0 .. MaxFaults

\* The token in the file runs out while its session lives only if the last cycle of
\* every daemon failed or died: the loop checks often enough and renews early enough,
\* however slow profi.ru answers and although others compete for the lock.
NeverExpiresUnprovoked ==
    file # NoJar /\ file.session \in alive /\ file.ttl = 0 => trouble = Daemons

\* A cycle never undoes what others wrote: Save puts neither an older session over
\* the one the operator has just uploaded, nor an older token over a newer one that
\* another process saved between this one's Load and Save.  The exception is an upload
\* that nobody needed, made because a cycle that had read the file before an upload
\* reported, and asked for a login, after it.
FileNeverGoesBack ==
    [][\A w \in Workers : Save(w) /\ file # NoJar =>
           \/ file'.session = file.session /\ file'.ttl >= file.ttl
           \/ file'.session # file.session /\ misled]_vars

\* Whoever takes the lock lets go of it, on every path through the cycle and in a crash.
LockReleased == []<>(lock = NoOwner)

\* Once faults are over, a session that lasts keeps a live and touched token in the
\* file for good, whatever crashes, failed calls and failed touches left behind.
SessionKeptAlive ==
    <>[](file # NoJar /\ file.session \in alive)
        => <>[](file # NoJar /\ file.ttl > 0 /\ file.touched)

--------------------------------------------------------------------------------
(* The inductive invariant behind NeverExpiresUnprovoked and FileNeverGoesBack *)

\* Whoever works on the cookie file holds the lock, and nobody waits longer than allowed.
LockOK ==
    /\ \A w \in Workers :
           /\ pc[w] \in {"load", "renew", "touch", "save"} => lock = w
           /\ Waits(w) => spent[w] <= Patience(w)
    /\ reader = "read" => lock = Reader

\* The jar in the memory of a cycle.  Before a call succeeds it is the jar in the file or
\* one that has been replaced there.  After the renewal it is no older than that, and
\* what is saved is not due.
JarOK(w) ==
    /\ jar[w] # NoJar <=> pc[w] \in {"renew", "touch", "save"}
    /\ jar[w] # NoJar => file # NoJar
    /\ pc[w] = "renew" =>
           /\ NeedsRefresh(jar[w])
           /\ ~changed[w]
           /\ jar[w].session = file.session => jar[w] = file
    /\ pc[w] \in {"touch", "save"} /\ jar[w].session = file.session => jar[w].ttl >= file.ttl
    /\ pc[w] = "touch" /\ changed[w] => jar[w].ttl + spent[w] >= Lifetime
    /\ pc[w] = "save" => ~NeedsRefresh(jar[w])

\* The ticks that a daemon whose last cycle went well may need until it has saved the
\* next token.
Need(d) ==
    CASE pc[d] = "sleep"  -> timer[d] + LockTimeout + 2 * CallTicks
      [] pc[d] = "wait"   -> LockTimeout - spent[d] + 2 * CallTicks
      [] pc[d] = "load"   -> 2 * CallTicks
      [] pc[d] = "renew"  -> 2 * CallTicks - spent[d]
      [] pc[d] = "touch"  -> CallTicks - spent[d]
      [] pc[d] = "report" -> RefreshBefore
      [] OTHER            -> 0

FreshOK(d) ==
    /\ pc[d] # "done"
    /\ d \notin trouble =>
           /\ pc[d] = "sleep" => timer[d] <= CheckInterval
           /\ pc[d] = "report" => outcome[d] = "ok"
           /\ file # NoJar /\ file.session \in alive => file.ttl > Need(d)

\* The session of the last login is over and nobody is about to save a token of it.
Lost ==
    /\ file # NoJar => logins \notin alive /\ NeedsRefresh(file)
    /\ \A w \in Workers : pc[w] \notin {"touch", "save"}

\* As long as no status was outdated, the file holds the session of the last login, and
\* a cycle that has loaded an older one will not get beyond the renewal; a status that
\* asks for a login does so with reason.
SessionOK ==
    /\ file # NoJar => file.session <= logins
    /\ \A w \in Workers : /\ jar[w] # NoJar => jar[w].session <= logins
                          /\ judged[w] <= logins
    /\ alive \subseteq 1 .. logins
    /\ ~misled =>
           /\ file # NoJar => file.session = logins
           /\ \A w \in Workers :
                  jar[w] # NoJar /\ jar[w].session # logins =>
                      pc[w] = "renew" /\ jar[w].session \notin alive
           /\ prompted => Lost
           /\ \A w \in Workers :
                  pc[w] = "report" /\ Asks(outcome[w]) /\ judged[w] = logins => Lost

IndInv ==
    /\ TypeOK
    /\ LockOK
    /\ \A w \in Workers : JarOK(w)
    /\ \A d \in Daemons : FreshOK(d)
    /\ SessionOK

================================================================================
