---------------------------------- MODULE Site ----------------------------------
(***************************************************************************)
(* One country site and the tasks that ask it for something: its anonymous *)
(* session (vinted/session.py), the hold after a refusal                   *)
(* (vinted/pacing.py, engine/poller.py tick), the routes out               *)
(* (vinted/proxies.py) and the watchdog's rotations (engine/watchdog.py).  *)
(*                                                                         *)
(* A session is a Python object that tasks keep while they wait for        *)
(* answers; the cache and the table name the one to use next.  Every       *)
(* action ends at an await.                                                *)
(***************************************************************************)
EXTENDS Naturals, FiniteSets

CONSTANTS
  Search,          \* the searches on this site
  Watchdog, Nobody,
  Proxy, Direct,
  MaxProfiles,     \* bound: seller profiles one check reads
  MaxSessions,     \* bound: sessions in use at a time
  MaxHold,         \* the longest backoff, in steps of the clock
  MaxCrashes       \* bound: crashes of the process

Task == Search \cup {Watchdog}
Route == Proxy \cup {Direct}

ASSUME SiteAssumption ==
  /\ Watchdog \notin Search /\ Nobody \notin Task
  /\ Direct \notin Proxy
  /\ MaxProfiles \in Nat /\ MaxSessions \in Nat /\ MaxCrashes \in Nat
  /\ MaxHold \in Nat \ {0}

VARIABLES
  cache,       \* SessionManager._cache
  stored,      \* the row of sessions: which session, the route is not a column
  lock,        \* SessionManager._locks: who holds it
  benched,     \* proxies set aside
  hold,        \* SiteCooldown: how much longer the site is held
  cooldown,    \* cooldown_until, the same in the table
  old,         \* sessions past rotate_after_minutes
  up,          \* the process is running
  task,        \* where each task is, and its locals
  crashes,
  told,        \* history: announcements since the site was last open
  owed         \* history: how much longer the holds written down were to last

sessions == <<cache, stored>>
holds == <<hold, cooldown, told, owed>>
vars == <<sessions, holds, lock, benched, old, up, task, crashes>>

Id == 0 .. MaxSessions
Session == [id : Id, route : Route]
NoSession == [id |-> 0, route |-> Direct]

Error == {"none", "expired", "blocked", "other"}
At == {"wait", "get", "load", "loaded", "mint", "save", "publish", "ask", "merge", "fail",
       "drop", "persist"}

\* A check reads a page (profile 0) and then up to MaxProfiles sellers.  failed is
\* _consecutive_errors > 0 when the check began; delay is what is left of a backoff; retried
\* (history) counts the quick retries since the poller last succeeded or was replaced.
Locals == [at : At, session : Session, profile : 0 .. MaxProfiles, error : Error,
           failed : BOOLEAN, delay : 0 .. MaxHold, retried : 0 .. 2]

Idle == [at |-> "wait", session |-> NoSession, profile |-> 0, error |-> "none",
         failed |-> FALSE, delay |-> 0, retried |-> 0]

TypeOK ==
  /\ cache \in Session
  /\ stored \in Id
  /\ lock \in Task \cup {Nobody}
  /\ benched \subseteq Proxy
  /\ hold \in 0 .. MaxHold
  /\ cooldown \in 0 .. MaxHold
  /\ old \subseteq 1 .. MaxSessions
  /\ up \in BOOLEAN
  /\ task \in [Task -> Locals]
  /\ crashes \in 0 .. MaxCrashes
  /\ told \in 0 .. 2
  /\ owed \in 0 .. MaxHold

Init ==
  /\ cache = NoSession /\ stored = 0
  /\ lock = Nobody
  /\ benched = {}
  /\ hold = 0 /\ cooldown = 0
  /\ old = {}
  /\ up = TRUE
  /\ task = [t \in Task |-> Idle]
  /\ crashes = 0
  /\ told = 0 /\ owed = 0

-----------------------------------------------------------------------------
(* Helpers. *)

Larger(a, b) == IF a >= b THEN a ELSE b
Less(n) == IF n = 0 THEN 0 ELSE n - 1
Upto2(n) == IF n >= 2 THEN 2 ELSE n

\* Sessions that are cached, stored or in a task's hands; the others' names can be given again.
InUse == {cache.id, stored} \cup {task[t].session.id : t \in Task}

Goes(t, now) == task' = [task EXCEPT ![t] = now]

\* Back to the schedule after an error, which the poller remembers.
Waits(t) == [Idle EXCEPT !.failed = TRUE, !.retried = task[t].retried]

\* ProxyRotation.acquire: the next proxy that is not set aside, or none.
Usable == IF Proxy \ benched = {} THEN {Direct} ELSE Proxy \ benched

Bench(route) == benched' = benched \cup ({route} \cap Proxy)

\* Mutant: every search that is refused bootstraps for itself.
Unlocked == TRUE

LockFree == lock = Nobody

\* Mutant: the last refusal decides how long.
LastDelay(delay) == delay

\* Gate.close_for.
Extended(delay) == Larger(hold, delay)

\* Mutant: asks the table, which is written after the gate is closed.
NotWrittenDown == cooldown = 0

FirstOnSite == hold = 0

-----------------------------------------------------------------------------
(* SessionManager. *)

\* A check that succeeds leaves nothing behind, its error count included: Idle.  A session in
\* hand: a poller asks, the watchdog has what it came for.
WithSession(t, session) ==
  IF t = Watchdog THEN Goes(t, Idle)
  ELSE Goes(t, [task[t] EXCEPT !.at = "ask", !.session = session])

\* bootstrap up to the answer: the route is taken, the page is asked for.
StartsBootstrap(t) ==
  /\ lock' = t
  /\ \E route \in Usable :
       Goes(t, [task[t] EXCEPT !.at = "mint", !.session = [id |-> 0, route |-> route]])

\* An exception out of the client.  The watchdog catches it; a profile read is best effort,
\* and the check goes on to the next seller or to its end.
Fails(t, error) ==
  IF t = Watchdog THEN Goes(t, Idle)
  ELSE IF task[t].profile > 0
  THEN \/ Goes(t, Idle)
       \/ /\ task[t].profile < MaxProfiles
          /\ Goes(t, [task[t] EXCEPT !.at = "get", !.profile = @ + 1, !.session = NoSession])
  ELSE Goes(t, [task[t] EXCEPT !.at = "fail", !.error = error, !.session = NoSession])

\* get, once the lock is free: the cached session if it is young enough.
Get(t) ==
  /\ task[t].at = "get" /\ LockFree
  /\ \/ /\ cache # NoSession /\ cache.id \notin old
        /\ WithSession(t, cache)
        /\ UNCHANGED lock
     \/ cache # NoSession /\ cache.id \in old /\ StartsBootstrap(t)
     \/ /\ cache = NoSession
        /\ Goes(t, [task[t] EXCEPT !.at = "load"])
        /\ lock' = t
  /\ UNCHANGED <<sessions, holds, benched, old, up, crashes>>

\* _load.  The table does not know the route.
Load(t) ==
  /\ task[t].at = "load"
  /\ Goes(t, [task[t] EXCEPT !.at = "loaded", !.session = [id |-> stored, route |-> Direct]])
  /\ UNCHANGED <<sessions, holds, lock, benched, old, up, crashes>>

Loaded(t) ==
  LET session == task[t].session IN
  /\ task[t].at = "loaded"
  /\ \/ /\ session # NoSession /\ session.id \notin old
        /\ cache' = session
        /\ lock' = Nobody
        /\ WithSession(t, session)
     \/ /\ session = NoSession \/ session.id \in old
        /\ StartsBootstrap(t)
        /\ UNCHANGED cache
  /\ UNCHANGED <<stored, holds, benched, old, up, crashes>>

\* The homepage's answer: a cookie; no connection or a refusal, and the route is set aside;
\* another error status; or a page without the cookie, which counts as a refusal.
Bootstrap(t) ==
  LET route == task[t].session.route
      unused == 1 .. MaxSessions \ InUse
  IN
  /\ task[t].at = "mint"
  /\ \/ \E s \in unused :
          /\ \A r \in unused : s <= r
          /\ old' = old \ {s}
          /\ Goes(t, [task[t] EXCEPT !.at = "save", !.session = [id |-> s, route |-> route]])
          /\ UNCHANGED <<lock, benched>>
     \/ /\ \/ Bench(route) /\ (Fails(t, "other") \/ Fails(t, "blocked"))
           \/ UNCHANGED benched /\ (Fails(t, "other") \/ Fails(t, "blocked"))
        /\ lock' = Nobody
        /\ UNCHANGED old
  /\ UNCHANGED <<cache, stored, holds, up, crashes>>

Save(t) ==
  /\ task[t].at = "save"
  /\ stored' = task[t].session.id
  /\ Goes(t, [task[t] EXCEPT !.at = "publish"])
  /\ UNCHANGED <<cache, holds, lock, benched, old, up, crashes>>

Publish(t) ==
  /\ task[t].at = "publish"
  /\ cache' = task[t].session
  /\ lock' = Nobody
  /\ WithSession(t, task[t].session)
  /\ UNCHANGED <<stored, holds, benched, old, up, crashes>>

\* invalidate, up to the DELETE; session is what the task still needs of it.
Pops(t, now, session) ==
  /\ cache' = NoSession
  /\ Goes(t, [now EXCEPT !.at = "drop", !.session = session])

-----------------------------------------------------------------------------
(* A poller: tick and _check. *)

\* Mutant: a hold is for the search that was refused.
AsksAnyway(q) == TRUE

MayAsk(q) == hold = 0

Tick(q) ==
  /\ up /\ task[q].at = "wait" /\ MayAsk(q)
  /\ Goes(q, [task[q] EXCEPT !.at = "get"])
  /\ UNCHANGED <<sessions, holds, lock, benched, old, up, crashes>>

\* raise_for_status, and what the body may say instead.
Answer(q) ==
  /\ task[q].at = "ask"
  /\ \/ \E error \in Error \ {"none"} : Fails(q, error)
     \/ Goes(q, [task[q] EXCEPT !.at = "merge"])
  /\ UNCHANGED <<sessions, holds, lock, benched, old, up, crashes>>

\* note_request, and merge_cookies, which stores the session again if the answer brought
\* cookies; then the body is read, and the check reads a seller or comes to its end.
Merge(q) ==
  /\ task[q].at = "merge"
  /\ stored' \in {stored, task[q].session.id}
  /\ \/ \E error \in {"expired", "other"} : Fails(q, error)
     \/ Goes(q, Idle)
     \/ /\ task[q].profile < MaxProfiles
        /\ Goes(q, [task[q] EXCEPT !.at = "get", !.profile = @ + 1, !.session = NoSession])
  /\ UNCHANGED <<cache, holds, lock, benched, old, up, crashes>>

\* After record_failure: a token or a client that is refused drops the session, and
\* discard_blocked keeps the one that was cached to set its route aside.
Handle(q) ==
  /\ task[q].at = "fail"
  /\ IF task[q].error = "other"
     THEN Goes(q, Waits(q)) /\ UNCHANGED cache
     ELSE Pops(q, task[q], IF task[q].error = "blocked" THEN cache ELSE NoSession)
  /\ UNCHANGED <<stored, holds, lock, benched, old, up, crashes>>

\* Mutant: every token that is refused is replaced at once.
AlwaysQuick(q) == TRUE

\* The first 401 after a success is an expiry, the next one a refusal.
IsQuick(q) == ~task[q].failed

\* The DELETE, and what follows it up to the next await: the watchdog gets a new session; a
\* poller retries soon or backs off; or the route is set aside and the gate closed.
Drop(t) ==
  /\ task[t].at = "drop"
  /\ stored' = 0
  /\ \/ /\ t = Watchdog
        /\ Goes(t, [task[t] EXCEPT !.at = "get"])
        /\ UNCHANGED <<benched, hold, told>>
     \/ /\ t # Watchdog /\ task[t].error = "expired"
        /\ Goes(t, IF IsQuick(t) THEN [Waits(t) EXCEPT !.retried = Upto2(@ + 1)] ELSE Waits(t))
        /\ UNCHANGED <<benched, hold, told>>
     \/ /\ t # Watchdog /\ task[t].error = "blocked"
        /\ Bench(task[t].session.route)
        /\ \E delay \in 1 .. MaxHold :
             /\ told' = IF FirstOnSite THEN Upto2(told + 1) ELSE told
             /\ hold' = Extended(delay)
             /\ Goes(t, [Waits(t) EXCEPT !.at = "persist", !.delay = delay])
  /\ UNCHANGED <<cache, cooldown, owed, lock, old, up, crashes>>

\* set_state_value: the deadline of this refusal.
Persist(q) ==
  /\ task[q].at = "persist"
  /\ cooldown' = task[q].delay
  /\ owed' = Larger(owed, task[q].delay)
  /\ Goes(q, Waits(q))
  /\ UNCHANGED <<sessions, hold, told, lock, benched, old, up, crashes>>

Step(t) ==
  \/ Get(t) \/ Load(t) \/ Loaded(t) \/ Bootstrap(t) \/ Save(t) \/ Publish(t)
  \/ Answer(t) \/ Merge(t) \/ Handle(t) \/ Drop(t) \/ Persist(t)

-----------------------------------------------------------------------------
(* The watchdog, the supervisor, the clock and the machine. *)

\* rotate, unless the site is held.
Rotate ==
  /\ up /\ task[Watchdog].at = "wait" /\ hold = 0
  /\ Pops(Watchdog, Idle, NoSession)
  /\ UNCHANGED <<stored, holds, lock, benched, old, up, crashes>>

\* Mutant: the task is replaced, its lock is not released.
KeptLock(q) == lock

Released(q) == IF lock = q THEN Nobody ELSE lock

\* What a statement that a task awaits leaves in the tables, if the task is cancelled after it
\* has run.
Stores(q) == IF task[q].at = "drop" THEN {stored, 0} ELSE {stored}
Deadlines(q) == IF task[q].at = "persist" THEN {cooldown, task[q].delay} ELSE {cooldown}

\* The search was edited or paused: its task is cancelled wherever it awaits, and a new
\* poller takes its place.
Replace(q) ==
  /\ up /\ task[q] # Idle
  /\ stored' \in Stores(q) /\ cooldown' \in Deadlines(q)
  /\ owed' = Larger(owed, cooldown')
  /\ lock' = Released(q)
  /\ Goes(q, Idle)
  /\ UNCHANGED <<cache, hold, told, benched, old, up, crashes>>

\* Time passes for the gate, for the deadline in the table and for one about to be written.
Clock ==
  /\ hold + cooldown > 0
  /\ hold' = Less(hold) /\ cooldown' = Less(cooldown) /\ owed' = Less(owed)
  /\ told' = IF hold' = 0 THEN 0 ELSE told
  /\ task' = [t \in Task |-> [task[t] EXCEPT !.delay = Less(@)]]
  /\ UNCHANGED <<sessions, lock, benched, old, up, crashes>>

Ages(s) ==
  /\ s \in InUse \ old
  /\ old' = old \cup {s}
  /\ UNCHANGED <<sessions, holds, lock, benched, up, task, crashes>>

Returns(p) ==
  /\ p \in benched
  /\ benched' = benched \ {p}
  /\ UNCHANGED <<sessions, holds, lock, old, up, task, crashes>>

\* The table remains; nothing else does.
Crash ==
  /\ up /\ crashes < MaxCrashes
  /\ up' = FALSE /\ crashes' = crashes + 1
  /\ cache' = NoSession /\ lock' = Nobody /\ benched' = {} /\ hold' = 0 /\ told' = 0
  /\ task' = [t \in Task |-> Idle]
  /\ UNCHANGED <<stored, cooldown, owed, old>>

\* _restore_cooldowns.
Boot ==
  /\ ~up /\ up' = TRUE
  /\ hold' = cooldown
  /\ UNCHANGED <<sessions, cooldown, told, owed, lock, benched, old, task, crashes>>

Next ==
  \/ \E t \in Task : Step(t)
  \/ \E q \in Search : Tick(q) \/ Replace(q)
  \/ Rotate \/ Clock \/ Crash \/ Boot
  \/ \E s \in 1 .. MaxSessions : Ages(s)
  \/ \E p \in Proxy : Returns(p)

Spec == Init /\ [][Next]_vars

\* Every request ends in an answer or a timeout, the lock is handed on in order of arrival,
\* time passes and the process is restarted.
Fairness ==
  /\ \A t \in Task : SF_vars(Step(t))
  /\ WF_vars(Clock) /\ WF_vars(Boot)

FairSpec == Spec /\ Fairness

-----------------------------------------------------------------------------
(* Properties. *)

\* However many searches start on an empty cache, one loads the homepage at a time.
OneBootstrap ==
  Cardinality({t \in Task : task[t].at \in {"mint", "save", "publish"}}) <= 1

\* A hold is announced once, by the search that closed the gate, however many are refused
\* before it opens again and whatever they wait for in between.
AnnouncedOnce == told <= 1

\* Of two refusals that cross, the longer backoff is the site's: no task ever shortens a hold.
HoldNeverShortened ==
  [][up' /\ (\E q \in Search : task'[q].at # task[q].at) => hold' >= hold]_vars

\* A poller retries at once at most once between two checks that succeed, whatever other
\* errors come in between.
OneQuickRetry == \A q \in Search : task[q].retried <= 1

\* Whoever waits between finding no session and publishing one holds the site's lock.
LockHeld ==
  \A t \in Task :
    task[t].at \in {"load", "loaded", "mint", "save", "publish"} => lock = t

\* Nothing runs and no gate is closed while there is no process.
DownIsIdle == up \/ (hold = 0 /\ \A t \in Task : task[t].at = "wait")

\* The inductive invariant: an announcement belongs to a hold, a quick retry to an error.
IInv ==
  /\ TypeOK
  /\ LockHeld
  /\ DownIsIdle
  /\ AnnouncedOnce /\ (hold = 0 => told = 0)
  /\ \A t \in Task : task[t].retried <= IF task[t].failed THEN 1 ELSE 0

-----------------------------------------------------------------------------
(* Liveness. *)

\* A check, or a rotation, comes to an end whatever is answered, and whoever is replaced
\* while holding the site's lock.
ChecksEnd == \A t \in Task : task[t].at # "wait" ~> task[t].at = "wait"

\* A hold runs out: checks under way when the gate closes may prolong it, but none begins.
SiteReopens == hold > 0 ~> hold = 0

-----------------------------------------------------------------------------
(* What comments and docstrings say of this code, and it does not do. *)

\* poller.py, tick: the hold is written down "so a restart does not forget the hold".
HoldSurvivesRestart == up => hold >= owed
=============================================================================
