------------------------------ MODULE SiteProofs ------------------------------
(***************************************************************************)
(* Proofs about Site, for any searches and proxies, any longest backoff    *)
(* and any number of profiles, sessions and crashes.  What IInv says of    *)
(* one task (Sound) and of what the tasks share (Shared) is kept apart, so *)
(* that a step is judged by the task that takes it.                        *)
(***************************************************************************)
EXTENDS Site, TLAPS, FiniteSetTheorems

Locked == {"load", "loaded", "mint", "save", "publish"}

\* What IInv says of a task with these locals, when the lock is held so.
Sound(t, now, held) ==
  /\ now \in Locals
  /\ now.at \in Locked => held = t
  /\ now.retried <= IF now.failed THEN 1 ELSE 0

\* What IInv says of the variables that no task owns.
Shared ==
  /\ cache \in Session /\ stored \in Id
  /\ lock \in Task \cup {Nobody}
  /\ benched \subseteq Proxy
  /\ hold \in 0 .. MaxHold /\ cooldown \in 0 .. MaxHold /\ owed \in 0 .. MaxHold
  /\ old \subseteq 1 .. MaxSessions
  /\ up \in BOOLEAN
  /\ crashes \in 0 .. MaxCrashes
  /\ told \in 0 .. 1
  /\ hold = 0 => told = 0

\* The two halves, and the empty process, are the inductive invariant.
LEMMA IInvIsSound ==
  IInv <=> /\ Shared /\ DownIsIdle
           /\ task \in [Task -> Locals]
           /\ \A t \in Task : Sound(t, task[t], lock)
BY DEF IInv, TypeOK, LockHeld, AnnouncedOnce, Shared, Sound, Locked

\* What a task without a check under way remembers.
LEMMA IdleIsLocals ==
  Idle \in Locals /\ Idle.at = "wait" /\ Idle.retried = 0
BY SiteAssumption DEF Idle, Locals, At, NoSession, Session, Id, Route, Error

\* It is sound whoever holds the lock.
LEMMA IdleIsSound ==
  ASSUME NEW t, NEW held  PROVE Sound(t, Idle, held)
BY IdleIsLocals DEF Sound, Idle, Locked

\* A step of one task that leaves the lock alone, takes it when it is free or gives it up keeps
\* the other tasks sound.
LEMMA LocalStep ==
  ASSUME IInv, up, NEW t \in Task, NEW now, Goes(t, now), Sound(t, now, lock'),
         lock' = lock \/ lock \in {t, Nobody},
         Shared', UNCHANGED up
  PROVE  IInv'
<1>1. task \in [Task -> Locals] /\ \A u \in Task : Sound(u, task[u], lock)
  BY IInvIsSound
<1>2. task' = [task EXCEPT ![t] = now] /\ now \in Locals
  BY DEF Goes, Sound
<1>3. task' \in [Task -> Locals] /\ \A u \in Task : task'[u] = IF u = t THEN now ELSE task[u]
  BY <1>1, <1>2
<1>4. \A u \in Task : Sound(u, task'[u], lock')
  <2> SUFFICES ASSUME NEW u \in Task \ {t} PROVE Sound(u, task'[u], lock')
    BY <1>3
  <2>1. task'[u] = task[u] /\ Sound(u, task[u], lock)
    BY <1>1, <1>3
  <2>2. lock = u => lock' = u
    BY SiteAssumption
  <2> QED
    BY <2>1, <2>2 DEF Sound
<1>5. DownIsIdle'
  BY DEF DownIsIdle
<1> QED
  BY <1>3, <1>4, <1>5, IInvIsSound DEF IInv, TypeOK, LockHeld, AnnouncedOnce, Shared, Sound, Locked

\* A task under way has a process, and is sound.
LEMMA UnderWay ==
  ASSUME IInv, NEW t \in Task
  PROVE  /\ task[t].at # "wait" => up
         /\ Sound(t, task[t], lock) /\ task[t] \in Locals
         /\ task[t].session \in Session /\ task[t].profile \in 0 .. MaxProfiles
         /\ task[t].delay \in 0 .. MaxHold /\ task[t].error \in Error
BY IInvIsSound DEF DownIsIdle, Sound, Locals

\* With a session in hand.
LEMMA WithSessionIsSound ==
  ASSUME IInv, NEW t \in Task, NEW session \in Session, WithSession(t, session)
  PROVE  \E now : Goes(t, now) /\ Sound(t, now, lock')
<1>1. CASE t = Watchdog
  BY <1>1, IdleIsSound DEF WithSession
<1>2. CASE t # Watchdog
  <2> DEFINE now == [task[t] EXCEPT !.at = "ask", !.session = session]
  <2>1. Sound(t, now, lock')
    BY UnderWay DEF Sound, Locals, At, Locked
  <2> QED
    BY <1>2, <2>1 DEF WithSession
<1> QED
  BY <1>1, <1>2

\* At the homepage, holding the lock.
LEMMA StartsBootstrapIsSound ==
  ASSUME IInv, NEW t \in Task, StartsBootstrap(t)
  PROVE  lock' = t /\ \E now : Goes(t, now) /\ Sound(t, now, lock')
<1>1. PICK route \in Usable :
        Goes(t, [task[t] EXCEPT !.at = "mint", !.session = [id |-> 0, route |-> route]])
  BY DEF StartsBootstrap
<1>2. [id |-> 0, route |-> route] \in Session /\ 0 \in Id
  BY SiteAssumption DEF Usable, Route, Session, Id
<1>3. Sound(t, [task[t] EXCEPT !.at = "mint", !.session = [id |-> 0, route |-> route]], t)
  BY <1>2, UnderWay DEF Sound, Locals, At
<1> QED
  BY <1>1, <1>3 DEF StartsBootstrap

\* After an exception.
LEMMA FailsIsSound ==
  ASSUME IInv, NEW t \in Task, NEW error \in Error, Fails(t, error)
  PROVE  \E now : Goes(t, now) /\ Sound(t, now, lock')
<1>0. NoSession \in Session
  BY SiteAssumption DEF NoSession, Session, Id, Route
<1>1. CASE Goes(t, Idle)
  BY <1>1, IdleIsSound
<1>2. CASE /\ task[t].profile < MaxProfiles
           /\ Goes(t, [task[t] EXCEPT !.at = "get", !.profile = @ + 1, !.session = NoSession])
  <2>1. task[t].profile + 1 \in 0 .. MaxProfiles
    BY <1>2, UnderWay, SiteAssumption
  <2>2. Sound(t, [task[t] EXCEPT !.at = "get", !.profile = @ + 1, !.session = NoSession], lock')
    BY <1>0, <2>1, UnderWay DEF Sound, Locals, At, Locked
  <2> QED
    BY <1>2, <2>2
<1>3. CASE Goes(t, [task[t] EXCEPT !.at = "fail", !.error = error, !.session = NoSession])
  <2>1. Sound(t, [task[t] EXCEPT !.at = "fail", !.error = error, !.session = NoSession], lock')
    BY <1>0, UnderWay DEF Sound, Locals, At, Locked
  <2> QED
    BY <1>3, <2>1
<1> QED
  BY <1>1, <1>2, <1>3 DEF Fails

\* A step that keeps what no task owns, and after which its task is sound.
LEMMA SoundStep ==
  ASSUME IInv, up, UNCHANGED up, NEW t \in Task,
         \E now : Goes(t, now) /\ Sound(t, now, lock'),
         lock' = lock \/ lock \in {t, Nobody}, Shared'
  PROVE  IInv'
BY LocalStep

-----------------------------------------------------------------------------
(* The session manager. *)

\* Getting a session keeps the invariant: whoever finds none takes the lock that is free.
LEMMA GetStep == ASSUME IInv, NEW t \in Task, Get(t) PROVE IInv'
<1>1. up /\ UNCHANGED up
  BY UnderWay DEF Get
<1>2. Shared
  BY IInvIsSound
<1>3. lock = Nobody
  BY DEF Get, LockFree
<1>4. lock' \in {t, Nobody} /\ \E now : Goes(t, now) /\ Sound(t, now, lock')
  <2>1. CASE WithSession(t, cache) /\ UNCHANGED lock
    BY <1>2, <1>3, <2>1, WithSessionIsSound DEF Shared
  <2>2. CASE StartsBootstrap(t)
    BY <2>2, StartsBootstrapIsSound
  <2>3. CASE Goes(t, [task[t] EXCEPT !.at = "load"]) /\ lock' = t
    <3>1. Sound(t, [task[t] EXCEPT !.at = "load"], t)
      BY UnderWay DEF Sound, Locals, At
    <3> QED
      BY <2>3, <3>1
  <2> QED
    BY <2>1, <2>2, <2>3 DEF Get
<1>5. Shared'
  BY <1>2, <1>4 DEF Get, Shared, sessions, holds
<1> QED
  BY <1>1, <1>3, <1>4, <1>5, SoundStep

\* Reading the table keeps the invariant: the lock stays where it is.
LEMMA LoadStep == ASSUME IInv, NEW t \in Task, Load(t) PROVE IInv'
<1> DEFINE now == [task[t] EXCEPT !.at = "loaded", !.session = [id |-> stored, route |-> Direct]]
<1>1. up /\ UNCHANGED <<up, lock>>
  BY UnderWay DEF Load
<1>2. Shared /\ Shared'
  BY IInvIsSound DEF Load, Shared, sessions, holds
<1>3. [id |-> stored, route |-> Direct] \in Session
  BY <1>2 DEF Shared, Session, Route
<1>4. lock = t
  BY UnderWay DEF Load, Sound, Locked
<1>5. Sound(t, now, lock')
  BY <1>1, <1>3, <1>4, UnderWay DEF Sound, Locals, At
<1> QED
  BY <1>1, <1>2, <1>5, SoundStep DEF Load

\* What was read is published, or a bootstrap begins, under the same lock.
LEMMA LoadedStep == ASSUME IInv, NEW t \in Task, Loaded(t) PROVE IInv'
<1>1. up /\ UNCHANGED up
  BY UnderWay DEF Loaded
<1>2. Shared /\ task[t].session \in Session
  BY IInvIsSound, UnderWay
<1>3. lock = t
  BY UnderWay DEF Loaded, Sound, Locked
<1>4. lock' \in {t, Nobody} /\ \E now : Goes(t, now) /\ Sound(t, now, lock')
  <2>1. CASE WithSession(t, task[t].session) /\ lock' = Nobody
    BY <1>2, <2>1, WithSessionIsSound
  <2>2. CASE StartsBootstrap(t)
    BY <2>2, StartsBootstrapIsSound
  <2> QED
    BY <2>1, <2>2 DEF Loaded
<1>5. Shared'
  BY <1>2, <1>4 DEF Loaded, Shared, holds
<1> QED
  BY <1>1, <1>3, <1>4, <1>5, SoundStep

\* The homepage's answer leaves the lock with a task that has a session to store, and frees it
\* otherwise.
LEMMA BootstrapStep == ASSUME IInv, NEW t \in Task, Bootstrap(t) PROVE IInv'
<1>1. up /\ UNCHANGED up
  BY UnderWay DEF Bootstrap
<1>2. Shared /\ task[t].session \in Session /\ task[t].session.route \in Route
  BY IInvIsSound, UnderWay DEF Session
<1>3. lock = t
  BY UnderWay DEF Bootstrap, Sound, Locked
<1>4. CASE \E s \in 1 .. MaxSessions \ InUse :
             /\ old' = old \ {s}
             /\ Goes(t, [task[t] EXCEPT !.at = "save",
                                        !.session = [id |-> s, route |-> task[t].session.route]])
             /\ UNCHANGED <<lock, benched>>
  <2>1. PICK s \in 1 .. MaxSessions :
          /\ old' = old \ {s}
          /\ Goes(t, [task[t] EXCEPT !.at = "save",
                                     !.session = [id |-> s, route |-> task[t].session.route]])
          /\ UNCHANGED <<lock, benched>>
    BY <1>4
  <2>2. [id |-> s, route |-> task[t].session.route] \in Session
    BY <1>2, SiteAssumption DEF Session, Id
  <2>3. Sound(t, [task[t] EXCEPT !.at = "save",
                                !.session = [id |-> s, route |-> task[t].session.route]], lock')
    BY <1>3, <2>1, <2>2, UnderWay DEF Sound, Locals, At
  <2>4. Shared'
    BY <1>2, <2>1 DEF Bootstrap, Shared, holds
  <2> QED
    BY <1>1, <2>1, <2>3, <2>4, SoundStep
<1>5. CASE /\ Bench(task[t].session.route) \/ UNCHANGED benched
           /\ Fails(t, "other") \/ Fails(t, "blocked")
           /\ lock' = Nobody
           /\ UNCHANGED old
  <2>1. \E now : Goes(t, now) /\ Sound(t, now, lock')
    BY <1>5, FailsIsSound DEF Error
  <2>2. Shared'
    BY <1>2, <1>5 DEF Bootstrap, Shared, holds, Bench
  <2> QED
    BY <1>1, <1>3, <1>5, <2>1, <2>2, SoundStep
<1> QED
  BY <1>4, <1>5 DEF Bootstrap

\* Storing the new session, still under the lock.
LEMMA SaveStep == ASSUME IInv, NEW t \in Task, Save(t) PROVE IInv'
<1>1. up /\ UNCHANGED <<up, lock>>
  BY UnderWay DEF Save
<1>2. Shared /\ task[t].session.id \in Id
  BY IInvIsSound, UnderWay DEF Session
<1>3. Shared'
  BY <1>2 DEF Save, Shared, holds
<1>4. Sound(t, [task[t] EXCEPT !.at = "publish"], lock')
  BY <1>1, UnderWay DEF Save, Sound, Locals, At, Locked
<1> QED
  BY <1>1, <1>3, <1>4, SoundStep DEF Save

\* Publishing it frees the lock.
LEMMA PublishStep == ASSUME IInv, NEW t \in Task, Publish(t) PROVE IInv'
<1>1. up /\ UNCHANGED up
  BY UnderWay DEF Publish
<1>2. Shared /\ task[t].session \in Session
  BY IInvIsSound, UnderWay
<1>3. lock = t /\ lock' = Nobody
  BY UnderWay DEF Publish, Sound, Locked
<1>4. \E now : Goes(t, now) /\ Sound(t, now, lock')
  BY <1>2, WithSessionIsSound DEF Publish
<1>5. Shared'
  BY <1>2, <1>3 DEF Publish, Shared, holds
<1> QED
  BY <1>1, <1>3, <1>4, <1>5, SoundStep

-----------------------------------------------------------------------------
(* A poller. *)

\* A check that begins, which only an open gate allows.
LEMMA TickStep == ASSUME IInv, NEW q \in Search, Tick(q) PROVE IInv'
<1>1. up /\ UNCHANGED <<up, lock>> /\ q \in Task
  BY DEF Tick, Task
<1>2. Shared'
  BY IInvIsSound DEF Tick, Shared, sessions, holds
<1>3. Sound(q, [task[q] EXCEPT !.at = "get"], lock')
  BY <1>1, UnderWay DEF Sound, Locals, At, Locked
<1> QED
  BY <1>1, <1>2, <1>3, SoundStep DEF Tick

\* An answer, whatever it says.
LEMMA AnswerStep == ASSUME IInv, NEW t \in Task, Answer(t) PROVE IInv'
<1>1. up /\ UNCHANGED <<up, lock>>
  BY UnderWay DEF Answer
<1>2. Shared'
  BY IInvIsSound DEF Answer, Shared, sessions, holds
<1>3. Sound(t, [task[t] EXCEPT !.at = "merge"], lock')
  BY UnderWay DEF Sound, Locals, At, Locked
<1>4. \E now : Goes(t, now) /\ Sound(t, now, lock')
  BY <1>3, FailsIsSound DEF Answer
<1> QED
  BY <1>1, <1>2, <1>4, SoundStep

\* The answer's cookies may bring any session back into the table.
LEMMA MergeStep == ASSUME IInv, NEW t \in Task, Merge(t) PROVE IInv'
<1>0. NoSession \in Session
  BY SiteAssumption DEF NoSession, Session, Id, Route
<1>1. up /\ UNCHANGED <<up, lock>>
  BY UnderWay DEF Merge
<1>2. Shared /\ task[t].session.id \in Id
  BY IInvIsSound, UnderWay DEF Session
<1>3. Shared'
  BY <1>2 DEF Merge, Shared, holds
<1>4. \E now : Goes(t, now) /\ Sound(t, now, lock')
  <2>1. CASE \E error \in {"expired", "other"} : Fails(t, error)
    BY <2>1, FailsIsSound DEF Error
  <2>2. CASE Goes(t, Idle)
    BY <2>2, IdleIsSound
  <2>3. CASE /\ task[t].profile < MaxProfiles
             /\ Goes(t, [task[t] EXCEPT !.at = "get", !.profile = @ + 1, !.session = NoSession])
    <3>1. task[t].profile + 1 \in 0 .. MaxProfiles
      BY <2>3, UnderWay, SiteAssumption
    <3>2. Sound(t, [task[t] EXCEPT !.at = "get", !.profile = @ + 1, !.session = NoSession], lock')
      BY <1>0, <3>1, UnderWay DEF Sound, Locals, At, Locked
    <3> QED
      BY <2>3, <3>2
  <2> QED
    BY <2>1, <2>2, <2>3 DEF Merge
<1> QED
  BY <1>1, <1>3, <1>4, SoundStep

\* Back to the schedule after an error, with one quick retry at most.
LEMMA WaitsIsSound ==
  ASSUME IInv, NEW t \in Task, NEW held
  PROVE  /\ Waits(t) \in Locals /\ Waits(t).at = "wait" /\ Waits(t).failed = TRUE
         /\ Waits(t).retried = task[t].retried /\ task[t].retried \in 0 .. 1
         /\ ~task[t].failed => task[t].retried = 0
         /\ Sound(t, Waits(t), held)
<1>1. task[t].retried \in 0 .. 1 /\ (~task[t].failed => task[t].retried = 0)
  BY UnderWay DEF Sound, Locals
<1>2. /\ Waits(t) \in Locals /\ Waits(t).at = "wait" /\ Waits(t).failed = TRUE
      /\ Waits(t).retried = task[t].retried
  <2>1. /\ Idle \in Locals /\ Idle.at = "wait" /\ task[t].retried \in 0 .. 2
        /\ TRUE \in BOOLEAN
    BY <1>1, IdleIsLocals
  <2> QED
    BY <2>1 DEF Waits, Locals
<1> QED
  BY <1>1, <1>2 DEF Sound, Locked

\* The quick retry is the first since a success.
LEMMA QuickIsSound ==
  ASSUME IInv, NEW t \in Task, ~task[t].failed, NEW held
  PROVE  Sound(t, [Waits(t) EXCEPT !.retried = Upto2(@ + 1)], held)
<1>0. task[t].retried = 0
  BY WaitsIsSound
<1>1. /\ Waits(t) \in Locals /\ Waits(t).at = "wait" /\ Waits(t).failed = TRUE
      /\ Waits(t).retried = 0
  BY <1>0, WaitsIsSound
<1>2. Upto2(Waits(t).retried + 1) = 1
  BY <1>1 DEF Upto2
<1> QED
  BY <1>1, <1>2 DEF Sound, Locals, Locked

\* About to write a deadline down.
LEMMA PersistIsSound ==
  ASSUME IInv, NEW t \in Task, NEW delay \in 1 .. MaxHold, NEW held
  PROVE  Sound(t, [Waits(t) EXCEPT !.at = "persist", !.delay = delay], held)
<1> DEFINE now == [Waits(t) EXCEPT !.at = "persist", !.delay = delay]
<1>1. /\ Waits(t) \in Locals /\ Waits(t).failed = TRUE /\ Waits(t).retried \in 0 .. 1
  BY WaitsIsSound
<1>2. delay \in 0 .. MaxHold
  BY SiteAssumption
<1>3. /\ now \in Locals /\ now.at = "persist" /\ now.failed = TRUE
      /\ now.retried = Waits(t).retried
  BY <1>1, <1>2 DEF Locals, At
<1> HIDE DEF now
<1>4. now.retried <= 1
  BY <1>1, <1>3
<1>5. Sound(t, now, held)
  BY <1>3, <1>4 DEF Sound, Locked
<1> QED
  BY <1>5 DEF now

\* About to delete the session.
LEMMA PoppedIsSound ==
  ASSUME NEW t, NEW now \in Locals, now.retried <= IF now.failed THEN 1 ELSE 0,
         NEW session \in Session, NEW held
  PROVE  Sound(t, [now EXCEPT !.at = "drop", !.session = session], held)
BY DEF Sound, Locals, At, Locked

\* What an error does first: the session leaves the cache.
LEMMA HandleStep == ASSUME IInv, NEW t \in Task, Handle(t) PROVE IInv'
<1>0. NoSession \in Session
  BY SiteAssumption DEF NoSession, Session, Id, Route
<1>1. up /\ UNCHANGED <<up, lock>>
  BY UnderWay DEF Handle
<1>2. Shared
  BY IInvIsSound
<1>3. Shared'
  BY <1>0, <1>2 DEF Handle, Shared, holds, Pops
<1>4. \E now : Goes(t, now) /\ Sound(t, now, lock')
  <2>1. CASE Goes(t, Waits(t))
    <3>1. Sound(t, Waits(t), lock')
      BY WaitsIsSound
    <3> QED
      BY <2>1, <3>1
  <2>2. CASE Pops(t, task[t], IF task[t].error = "blocked" THEN cache ELSE NoSession)
    <3> DEFINE session == IF task[t].error = "blocked" THEN cache ELSE NoSession
    <3>1. session \in Session
      BY <1>0, <1>2 DEF Shared
    <3> HIDE DEF session
    <3>2. Sound(t, [task[t] EXCEPT !.at = "drop", !.session = session], lock')
      BY <3>1, UnderWay DEF Sound, Locals, At, Locked
    <3> QED
      BY <2>2, <3>2 DEF Pops, session
  <2> QED
    BY <2>1, <2>2 DEF Handle
<1> QED
  BY <1>1, <1>3, <1>4, SoundStep

\* What follows the DELETE: a gate that is closed stays closed as long as it was to be.
LEMMA DropStep ==
  ASSUME IInv, NEW t \in Task, Drop(t) PROVE IInv' /\ hold' >= hold
<1>1. up /\ UNCHANGED <<up, lock>>
  BY UnderWay DEF Drop
<1>2. Shared /\ 0 \in Id
  BY IInvIsSound, SiteAssumption DEF Id
<1>0. stored' = 0 /\ UNCHANGED <<cache, cooldown, owed, lock, old, up, crashes>>
  BY DEF Drop
<1>3. CASE /\ Goes(t, [task[t] EXCEPT !.at = "get"])
           /\ UNCHANGED <<benched, hold, told>>
  <2>1. Sound(t, [task[t] EXCEPT !.at = "get"], lock')
    BY UnderWay DEF Sound, Locals, At, Locked
  <2>2. Shared'
    BY <1>2, <1>0, <1>3 DEF Shared
  <2> QED
    BY <1>1, <1>2, <1>3, <2>1, <2>2, SoundStep DEF Shared
<1>4. CASE /\ Goes(t, IF IsQuick(t) THEN [Waits(t) EXCEPT !.retried = Upto2(@ + 1)] ELSE Waits(t))
           /\ UNCHANGED <<benched, hold, told>>
  <2>1. /\ Sound(t, Waits(t), lock')
        /\ IsQuick(t) => Sound(t, [Waits(t) EXCEPT !.retried = Upto2(@ + 1)], lock')
    BY WaitsIsSound, QuickIsSound DEF IsQuick
  <2>2. \E now : Goes(t, now) /\ Sound(t, now, lock')
    BY <1>4, <2>1
  <2>3. Shared'
    BY <1>2, <1>0, <1>4 DEF Shared
  <2> QED
    BY <1>1, <1>2, <1>4, <2>2, <2>3, SoundStep DEF Shared
<1>5. CASE /\ Bench(task[t].session.route)
           /\ \E delay \in 1 .. MaxHold :
                /\ told' = IF FirstOnSite THEN Upto2(told + 1) ELSE told
                /\ hold' = Extended(delay)
                /\ Goes(t, [Waits(t) EXCEPT !.at = "persist", !.delay = delay])
  <2>1. PICK delay \in 1 .. MaxHold :
          /\ told' = IF FirstOnSite THEN Upto2(told + 1) ELSE told
          /\ hold' = Extended(delay)
          /\ Goes(t, [Waits(t) EXCEPT !.at = "persist", !.delay = delay])
    BY <1>5
  <2>2. Sound(t, [Waits(t) EXCEPT !.at = "persist", !.delay = delay], lock')
    BY PersistIsSound
  <2>3. hold' \in 1 .. MaxHold /\ hold' >= hold
    BY <1>2, <2>1, SiteAssumption DEF Extended, Larger, Shared
  <2>4. told' \in 0 .. 1
    BY <1>2, <2>1 DEF FirstOnSite, Upto2, Shared
  <2>5. benched' \subseteq Proxy
    BY <1>2, <1>5 DEF Bench, Shared
  <2>6. Shared'
    BY <1>2, <1>0, <2>3, <2>4, <2>5 DEF Shared
  <2> QED
    BY <1>1, <2>1, <2>2, <2>3, <2>6, SoundStep
<1> QED
  BY <1>3, <1>4, <1>5 DEF Drop

\* Writing the deadline down.
LEMMA PersistStep == ASSUME IInv, NEW t \in Task, Persist(t) PROVE IInv'
<1>1. up /\ UNCHANGED <<up, lock>>
  BY UnderWay DEF Persist
<1>2. Shared /\ task[t].delay \in 0 .. MaxHold
  BY IInvIsSound, UnderWay
<1>3. Shared'
  BY <1>2 DEF Persist, Shared, sessions, Larger
<1>4. Sound(t, Waits(t), lock')
  BY WaitsIsSound
<1> QED
  BY <1>1, <1>3, <1>4, SoundStep DEF Persist

-----------------------------------------------------------------------------
(* The rest of the system. *)

\* A rotation begins.
LEMMA RotateStep == ASSUME IInv, Rotate PROVE IInv'
<1> DEFINE now == [Idle EXCEPT !.at = "drop", !.session = NoSession]
<1>0. NoSession \in Session /\ Watchdog \in Task
  BY SiteAssumption DEF NoSession, Session, Id, Route, Task
<1>1. up /\ UNCHANGED <<up, lock>>
  BY DEF Rotate
<1>2. Shared /\ cache.id \in Id
  BY IInvIsSound DEF Shared, Session
<1>3. Shared'
  BY <1>0, <1>2 DEF Rotate, Shared, holds, Pops
<1>4. Idle \in Locals /\ Idle.retried = 0
  BY IdleIsLocals DEF Idle
<1>5. Goes(Watchdog, now)
  BY DEF Rotate, Pops
<1>6. Sound(Watchdog, now, lock')
  <2>1. Idle.retried <= IF Idle.failed THEN 1 ELSE 0
    BY <1>4 DEF Idle
  <2> QED
    BY <1>0, <1>4, <2>1, PoppedIsSound
<1> HIDE DEF now
<1> QED
  BY <1>0, <1>1, <1>3, <1>5, <1>6, SoundStep

\* A poller is replaced, whatever it holds.
LEMMA ReplaceStep == ASSUME IInv, NEW q \in Search, Replace(q) PROVE IInv'
<1>1. up /\ UNCHANGED up /\ q \in Task
  BY DEF Replace, Task
<1>2. Shared /\ task[q].delay \in 0 .. MaxHold
  BY <1>1, IInvIsSound, UnderWay
<1>3. lock' = lock \/ (lock = q /\ lock' = Nobody)
  BY DEF Replace, Released
<1>4. stored' \in Id
  BY <1>2, SiteAssumption DEF Replace, Stores, Shared, Id
<1>5. cooldown' \in 0 .. MaxHold
  BY <1>2 DEF Replace, Deadlines, Shared
<1>6. owed' \in 0 .. MaxHold
  BY <1>2, <1>5 DEF Replace, Larger, Shared
<1>7. Shared'
  BY <1>2, <1>3, <1>4, <1>5, <1>6 DEF Replace, Shared
<1>8. Sound(q, Idle, lock')
  BY IdleIsSound
<1> QED
  BY <1>1, <1>3, <1>7, <1>8, SoundStep DEF Replace

\* Time passes: every announcement belongs to a hold that has not run out.
LEMMA ClockStep == ASSUME IInv, Clock PROVE IInv'
<1>1. Shared /\ DownIsIdle /\ task \in [Task -> Locals]
      /\ \A t \in Task : Sound(t, task[t], lock)
  BY IInvIsSound
<1>2. \A n \in 0 .. MaxHold : Less(n) \in 0 .. MaxHold /\ (n = 0 => Less(n) = 0)
  BY SiteAssumption DEF Less
<1>3. Shared'
  BY <1>1, <1>2 DEF Clock, Shared, sessions
<1>4. ASSUME NEW t \in Task
      PROVE  /\ task'[t] \in Locals /\ task'[t].at = task[t].at
             /\ task'[t].failed = task[t].failed /\ task'[t].retried = task[t].retried
  <2>1. task'[t] = [task[t] EXCEPT !.delay = Less(@)] /\ Less(task[t].delay) \in 0 .. MaxHold
    BY <1>2, UnderWay DEF Clock
  <2> QED
    BY <2>1, UnderWay DEF Locals
<1>5. task' \in [Task -> Locals]
  BY <1>4 DEF Clock
<1>6. \A t \in Task : Sound(t, task'[t], lock')
  BY <1>1, <1>4 DEF Clock, Sound
<1>7. DownIsIdle'
  BY <1>1, <1>2, <1>4 DEF Clock, DownIsIdle, Shared
<1> QED
  BY <1>3, <1>5, <1>6, <1>7
     DEF IInv, TypeOK, LockHeld, AnnouncedOnce, Shared, Sound, Locked

\* The process dies: what is left is the table.
LEMMA CrashStep == ASSUME IInv, Crash PROVE IInv'
<1>1. Shared
  BY IInvIsSound
<1>2. NoSession \in Session
  BY SiteAssumption DEF NoSession, Session, Id, Route
<1>3. Shared'
  <2>1. up' \in BOOLEAN
    BY DEF Crash
  <2>2. crashes' \in 0 .. MaxCrashes
    BY <1>1, SiteAssumption DEF Crash, Shared
  <2>3. hold' \in 0 .. MaxHold /\ hold' = 0 /\ told' = 0
    BY SiteAssumption DEF Crash
  <2>4. lock' = Nobody /\ cache' \in Session /\ benched' = {}
        /\ UNCHANGED <<stored, cooldown, owed, old>>
    BY <1>2 DEF Crash
  <2> QED
    BY <1>1, <2>1, <2>2, <2>3, <2>4 DEF Shared
<1>4. /\ task' \in [Task -> Locals] /\ \A t \in Task : task'[t] = Idle
      /\ \A t \in Task : Sound(t, Idle, lock')
  BY IdleIsSound, IdleIsLocals DEF Crash
<1>5. DownIsIdle'
  BY <1>4, IdleIsLocals DEF Crash, DownIsIdle
<1> QED
  BY <1>3, <1>4, <1>5 DEF IInv, TypeOK, LockHeld, AnnouncedOnce, Shared, Sound, Locked

\* A session ages, a proxy comes back, the process starts.
LEMMA OtherStep ==
  ASSUME IInv,
         \/ \E s \in 1 .. MaxSessions : Ages(s)
         \/ \E p \in Proxy : Returns(p)
         \/ Boot
  PROVE  IInv'
<1>1. Shared /\ DownIsIdle
  BY IInvIsSound
<1>2. UNCHANGED <<task, lock>> /\ (up => up')
  BY DEF Ages, Returns, Boot
<1>3. CASE \E s \in 1 .. MaxSessions : Ages(s)
  BY <1>1, <1>3, <1>2 DEF Ages, IInv, TypeOK, LockHeld, DownIsIdle, AnnouncedOnce, sessions, holds
<1>4. CASE \E p \in Proxy : Returns(p)
  BY <1>1, <1>4, <1>2 DEF Returns, IInv, TypeOK, LockHeld, DownIsIdle, AnnouncedOnce, sessions, holds
<1>5. CASE Boot
  BY <1>1, <1>5, <1>2 DEF Boot, IInv, TypeOK, LockHeld, DownIsIdle, AnnouncedOnce, sessions
<1> QED
  BY <1>3, <1>4, <1>5

-----------------------------------------------------------------------------
(* Theorems. *)

\* The invariant holds at the start.
LEMMA InitIInv == Init => IInv
<1> SUFFICES ASSUME Init PROVE IInv
  OBVIOUS
<1>1. NoSession \in Session
  BY SiteAssumption DEF NoSession, Session, Id, Route
<1>2. Shared
  BY <1>1, SiteAssumption DEF Init, Shared, Id
<1>3. /\ task \in [Task -> Locals] /\ \A t \in Task : task[t] = Idle
      /\ \A t \in Task : Sound(t, Idle, lock)
  BY IdleIsSound, IdleIsLocals DEF Init
<1> QED
  BY <1>2, <1>3, IInvIsSound DEF Init, DownIsIdle

\* A step of a task keeps it.
LEMMA StepIInv == ASSUME IInv, NEW t \in Task, Step(t) PROVE IInv'
BY GetStep, LoadStep, LoadedStep, BootstrapStep, SaveStep, PublishStep, AnswerStep, MergeStep,
   HandleStep, DropStep, PersistStep DEF Step

\* Every step keeps it.
LEMMA NextIInv == IInv /\ [Next]_vars => IInv'
<1> SUFFICES ASSUME IInv, [Next]_vars PROVE IInv'
  OBVIOUS
<1>1. CASE \E t \in Task : Step(t)
  BY <1>1, StepIInv
<1>2. CASE \E q \in Search : Tick(q) \/ Replace(q)
  BY <1>2, TickStep, ReplaceStep
<1>3. CASE Rotate \/ Clock \/ Crash
  BY <1>3, RotateStep, ClockStep, CrashStep
<1>4. CASE \/ \E s \in 1 .. MaxSessions : Ages(s)
           \/ \E p \in Proxy : Returns(p)
           \/ Boot
  BY <1>4, OtherStep
<1>5. CASE UNCHANGED vars
  BY <1>5 DEF vars, sessions, holds, IInv, TypeOK, LockHeld, DownIsIdle, AnnouncedOnce
<1> QED
  BY <1>1, <1>2, <1>3, <1>4, <1>5 DEF Next

\* The inductive invariant of one country site.
THEOREM SiteInvariant == Spec => []IInv
BY InitIInv, NextIInv, PTL DEF Spec

\* Every variable keeps its type.
THEOREM SiteTypes == Spec => []TypeOK
<1>1. IInv => TypeOK
  BY DEF IInv
<1> QED
  BY <1>1, SiteInvariant, PTL

\* However many searches share a site, one loads its homepage at a time.
THEOREM BootstrapsAlone == Spec => []OneBootstrap
<1>1. ASSUME IInv PROVE OneBootstrap
  <2> DEFINE S == {t \in Task : task[t].at \in {"mint", "save", "publish"}}
  <2>1. S \subseteq {lock}
    BY <1>1 DEF IInv, LockHeld
  <2>2. IsFiniteSet({lock}) /\ Cardinality({lock}) = 1
    BY FS_Singleton
  <2>3. Cardinality(S) <= 1
    BY <2>1, <2>2, FS_Subset
  <2> QED
    BY <2>3 DEF OneBootstrap
<1> QED
  BY <1>1, SiteInvariant, PTL

\* A hold is announced once.
THEOREM AnnouncesOnce == Spec => []AnnouncedOnce
<1>1. IInv => AnnouncedOnce
  BY DEF IInv
<1> QED
  BY <1>1, SiteInvariant, PTL

\* Between two checks that succeed, a poller retries at once at most once.
THEOREM RetriesOnce == Spec => []OneQuickRetry
<1>1. ASSUME IInv PROVE OneQuickRetry
  <2> SUFFICES ASSUME NEW q \in Search PROVE task[q].retried <= 1
    BY DEF OneQuickRetry
  <2>1. q \in Task
    BY DEF Task
  <2> QED
    BY <1>1, <2>1, UnderWay DEF Sound, Locals
<1> QED
  BY <1>1, SiteInvariant, PTL

\* No task shortens a hold.
THEOREM HoldsStand == Spec => HoldNeverShortened
<1> DEFINE Moves == \E q \in Search : task'[q].at # task[q].at
<1>1. ASSUME IInv, [Next]_vars, up', Moves PROVE hold' >= hold
  <2>0. hold \in 0 .. MaxHold /\ Search \subseteq Task
    BY <1>1 DEF IInv, TypeOK, Task
  <2>1. CASE \E t \in Task : Step(t)
    <3>1. PICK t \in Task : Step(t)
      BY <2>1
    <3>2. CASE Drop(t)
      BY <1>1, <3>2, DropStep
    <3>3. CASE Get(t) \/ Load(t) \/ Loaded(t) \/ Bootstrap(t) \/ Save(t) \/ Publish(t)
      <4>1. UNCHANGED holds
        BY <3>3 DEF Get, Load, Loaded, Bootstrap, Save, Publish
      <4> QED
        BY <2>0, <4>1 DEF holds
    <3>4. CASE Answer(t) \/ Merge(t) \/ Handle(t)
      <4>1. UNCHANGED holds
        BY <3>4 DEF Answer, Merge, Handle
      <4> QED
        BY <2>0, <4>1 DEF holds
    <3>5. CASE Persist(t)
      BY <2>0, <3>5 DEF Persist
    <3> QED
      BY <3>1, <3>2, <3>3, <3>4, <3>5 DEF Step
  <2>2. CASE \E q \in Search : Tick(q) \/ Replace(q)
    BY <2>0, <2>2 DEF Tick, Replace, holds
  <2>3. CASE Clock
    <3>1. \A t \in Task : task'[t].at = task[t].at
      BY <1>1, <2>3, UnderWay DEF Clock, Locals
    <3> QED
      BY <1>1, <2>0, <3>1
  <2>4. CASE Rotate
    BY <2>0, <2>4 DEF Rotate, holds
  <2>5. CASE Crash
    BY <1>1, <2>5 DEF Crash
  <2>6. CASE \/ Boot \/ UNCHANGED vars
             \/ \E s \in 1 .. MaxSessions : Ages(s)
             \/ \E p \in Proxy : Returns(p)
    BY <1>1, <2>6 DEF Boot, Ages, Returns, vars
  <2> QED
    BY <1>1, <2>1, <2>2, <2>3, <2>4, <2>5, <2>6 DEF Next
<1>2. IInv /\ [Next]_vars => [up' /\ Moves => hold' >= hold]_vars
  BY <1>1
<1> QED
  BY <1>2, SiteInvariant, PTL DEF Spec, HoldNeverShortened
=============================================================================
