--------------------------------- MODULE Watch ---------------------------------
(***************************************************************************)
(* Finding listings: the task that watches each saved search               *)
(* (engine/poller.py, engine/dedup.py), the supervisor that starts and     *)
(* cancels those tasks (app.py), and the tables they share.  One check     *)
(* reads and writes the database in several steps with awaits between      *)
(* them; every action ends at an await where another task may run.         *)
(*                                                                         *)
(* All tasks share one SQLite connection.  Writers take turns behind a     *)
(* lock, readers do not: a read sees what an open transaction has          *)
(* inserted so far, and a rollback takes it away again.                    *)
(***************************************************************************)
EXTENDS Naturals, FiniteSets

CONSTANTS
  Search, Item, Destination,
  Routes,         \* query_destinations: where each search sends
  Matches,        \* listings that pass each search's filters, all facts known
  SellerGated,    \* those of them that pass only once the seller's profile is read
  MarketCapped,   \* searches with a max_market_percentile
  Ts,             \* photo_ts of each listing, 0 when it has none
  Price,          \* what a listing can cost
  Listed,         \* what each listing costs at first
  Drop,           \* <<before, now>>: a fall of at least price_drop_min_percent
  FirstRunMode,
  MaxNotify,      \* max_alerts_per_poll
  Deletable,      \* destinations the owner may delete
  Prunable,       \* listings old enough for the retention job when they are aged
  Repriced,       \* listings whose seller changes the price
  MaxCrashes      \* bound: crashes of the process

ASSUME WatchAssumption ==
  /\ IsFiniteSet(Item)
  /\ Routes \in [Search -> SUBSET Destination]
  /\ Matches \in [Search -> SUBSET Item]
  /\ SellerGated \in [Search -> SUBSET Item]
  /\ MarketCapped \subseteq Search
  /\ Ts \in [Item -> Nat]
  /\ Price \subseteq Nat \ {0}
  /\ Listed \in [Item -> Price]
  /\ Drop \subseteq {p \in Price \X Price : p[2] < p[1]}
  /\ FirstRunMode \in {"silent", "newest"}
  /\ MaxNotify \in Nat \ {0}
  /\ Deletable \subseteq Destination
  /\ Prunable \subseteq Item
  /\ Repriced \subseteq Item
  /\ MaxCrashes \in Nat

VARIABLES
  price,         \* items.total_price, 0 where the listing has no row
  outbox,        \* what was queued: who found it, for whom, and which news it is
  destinations,  \* rows of destinations
  succeeded,     \* searches with a query_state.last_success_at
  mark,          \* query_state.newest_item_ts, 0 when NULL
  watched,       \* searches that are not paused
  up,            \* the process is running
  task,          \* the poller of each search: where it is and its locals
  asking,        \* what each listing costs on the site
  aged,          \* listings whose photo is older than the freshness window
  committed,     \* history: listings some transaction recorded for good
  silent,        \* history: listings each search recorded without announcing them
  crashes

tables == <<price, outbox, destinations, succeeded, mark, watched>>
history == <<committed, silent>>
vars == <<tables, up, task, asking, aged, history, crashes>>

NoPrice == 0

\* photo_ts and the high-water mark, 0 where they are None.
Stamp == {0} \cup {Ts[i] : i \in Item}

\* UNIQUE (item, destination, from): from is the previous price, 0 for a new listing.
Row == [search : Search, item : Item, dest : Destination,
        from : Price \cup {NoPrice}, to : Price]

Page == [Item -> Price \cup {NoPrice}]
EmptyPage == [i \in Item |-> NoPrice]

At == {"off", "dead", "wait", "gates", "known", "prices", "drops", "decide", "record",
       "commit", "success"}

Task == [at : At, page : Page, candidates : SUBSET Item, known : SUBSET Item,
         before : Page, dests : SUBSET Destination, record : SUBSET Item,
         notify : SUBSET Item, newest : Stamp, inserted : SUBSET Item]

\* A task between checks, or none: no locals.
Idle(at) == [at |-> at, page |-> EmptyPage, candidates |-> {}, known |-> {},
             before |-> EmptyPage, dests |-> {}, record |-> {}, notify |-> {},
             newest |-> 0, inserted |-> {}]

TypeOK ==
  /\ price \in Page
  /\ outbox \subseteq Row
  /\ destinations \subseteq Destination
  /\ succeeded \subseteq Search
  /\ mark \in [Search -> Stamp]
  /\ watched \subseteq Search
  /\ up \in BOOLEAN
  /\ task \in [Search -> Task]
  /\ asking \in [Item -> Price]
  /\ aged \subseteq {i \in Item : Ts[i] # 0}
  /\ committed \subseteq Item
  /\ silent \in [Search -> SUBSET Item]
  /\ crashes \in 0 .. MaxCrashes

Init ==
  /\ price = EmptyPage
  /\ outbox = {}
  /\ destinations = Destination
  /\ succeeded = {}
  /\ mark = [q \in Search |-> 0]
  /\ watched = Search
  /\ up = TRUE
  /\ task = [q \in Search |-> Idle("off")]
  /\ asking = Listed
  /\ aged = {}
  /\ committed = {}
  /\ silent = [q \in Search |-> {}]
  /\ crashes = 0

-----------------------------------------------------------------------------
(* The database. *)

\* items, as any task on the connection sees it.
Recorded == {i \in Item : price[i] # NoPrice}

\* Database.transaction holds the write lock from its first insert to its commit.
Locked == \E q \in Search : task[q].at = "commit"
Uncommitted == UNION {task[q].inserted : q \in Search}

\* INSERT OR IGNORE over the UNIQUE key.
Queue(rows) ==
  outbox' = outbox \cup
    {r \in rows : \A s \in outbox :
       <<s.item, s.dest, s.from>> # <<r.item, r.dest, r.from>>}

ToldBy(q) == {r.item : r \in {s \in outbox : s.search = q /\ s.from = NoPrice}}

\* The foreign key on destination_id.
AllExist(D) == D \subseteq destinations

\* Mutant: what a transaction inserted outlives it.
KeptInserts(Q) == price

\* price, once the open transactions of the tasks Q are rolled back.
RolledBack(Q) ==
  [i \in Item |-> IF \E q \in Q : i \in task[q].inserted THEN NoPrice ELSE price[i]]

-----------------------------------------------------------------------------
(* dedup.select. *)

\* newest_timestamp.
IsNewest(t, S) ==
  IF S = {} THEN t = 0
  ELSE t \in {Ts[i] : i \in S} /\ \A i \in S : Ts[i] <= t

\* A listing without a timestamp cannot be judged on its age: it passes.
Fresh(unseen, high) ==
  {i \in unseen : Ts[i] = 0 \/ (i \notin aged /\ Ts[i] > high)}

\* Mutant: the first n of a list sorted by timestamp.
AreOldest(N, S, n) ==
  /\ N \subseteq S
  /\ Cardinality(N) = IF Cardinality(S) < n THEN Cardinality(S) ELSE n
  /\ \A i \in N, j \in S \ N : Ts[i] <= Ts[j]

\* The last n of a list sorted by timestamp: ties may fall either way.
AreNewest(N, S, n) ==
  /\ N \subseteq S
  /\ Cardinality(N) = IF Cardinality(S) < n THEN Cardinality(S) ELSE n
  /\ \A i \in N, j \in S \ N : Ts[j] <= Ts[i]

FirstRun(unseen, page, selection) ==
  /\ selection.record = unseen
  /\ AreNewest(selection.notify, unseen, IF FirstRunMode = "newest" THEN 1 ELSE 0)
  /\ IsNewest(selection.newest, IF unseen = {} THEN {i \in Item : page[i] # NoPrice} ELSE unseen)

\* Mutant: the overflow of the flood cap is not recorded.
SelectAnnounced(unseen, high, selection) ==
  LET fresh == Fresh(unseen, high) IN
  /\ AreNewest(selection.notify, fresh, MaxNotify)
  /\ selection.record = selection.notify
  /\ \E t \in Stamp : IsNewest(t, fresh) /\ selection.newest = IF t # 0 THEN t ELSE high

Select(unseen, high, selection) ==
  LET fresh == Fresh(unseen, high) IN
  /\ AreNewest(selection.notify, fresh, MaxNotify)
  /\ selection.record = fresh
  /\ \E t \in Stamp : IsNewest(t, fresh) /\ selection.newest = IF t # 0 THEN t ELSE high

-----------------------------------------------------------------------------
(* One check. *)

Step(q, now) == task' = [task EXCEPT ![q] = now]
OnPage(q) == {i \in Item : task[q].page[i] # NoPrice}

\* The search request and get_state: which of the catalog comes back is Vinted's choice.
\* Nobody but this task writes this search's query_state, so it is read where it is used.
Fetch(q) ==
  /\ task[q].at = "wait"
  /\ \E S \in SUBSET Item :
       Step(q, [task[q] EXCEPT !.at = "gates",
                               !.page = [i \in Item |-> IF i \in S THEN asking[i] ELSE NoPrice]])
  /\ UNCHANGED <<tables, up, asking, aged, history, crashes>>

\* _passes_gates and the market ceiling.  A listing behind a seller gate is rejected when
\* the seller's profile cannot be read.
Gates(q) ==
  /\ task[q].at = "gates"
  /\ \E unread \in SUBSET (OnPage(q) \cap SellerGated[q]),
        dear \in SUBSET (IF q \in MarketCapped THEN OnPage(q) ELSE {}) :
       Step(q, [task[q] EXCEPT !.at = "known",
                               !.candidates = (OnPage(q) \cap Matches[q]) \ (unread \cup dear)])
  /\ UNCHANGED <<tables, up, asking, aged, history, crashes>>

\* Mutant: nothing is known, the mark is trusted alone.
ReadNothingKnown(q) ==
  /\ task[q].at = "known"
  /\ Step(q, [task[q] EXCEPT !.at = "decide"])
  /\ UNCHANGED <<tables, up, asking, aged, history, crashes>>

\* known_item_ids.
ReadKnown(q) ==
  LET known == task[q].candidates \cap Recorded IN
  /\ task[q].at = "known"
  /\ Step(q, [task[q] EXCEPT !.at = IF known # {} /\ q \in succeeded THEN "prices" ELSE "decide",
                             !.known = known])
  /\ UNCHANGED <<tables, up, asking, aged, history, crashes>>

\* current_prices of the listings seen again, and the destinations of any drop.
ReadPrices(q) ==
  LET t == task[q]
      fell == {i \in t.known : <<price[i], t.page[i]>> \in Drop}
  IN
  /\ t.at = "prices"
  /\ Step(q, IF fell = {} THEN [t EXCEPT !.at = "decide"]
             ELSE [t EXCEPT !.at = "drops",
                            !.before = [i \in Item |-> IF i \in fell THEN price[i] ELSE NoPrice],
                            !.dests = Routes[q] \cap destinations])
  /\ UNCHANGED <<tables, up, asking, aged, history, crashes>>

\* record_price_drops, one transaction: prices and notifications.  A destination deleted
\* meanwhile fails it, and the exception ends the task.
WriteDrops(q) ==
  LET t == task[q]
      fell == {i \in Item : t.before[i] # NoPrice}
      rows == {[search |-> q, item |-> i, dest |-> d, from |-> t.before[i], to |-> t.page[i]] :
                 i \in fell, d \in t.dests}
  IN
  /\ t.at = "drops" /\ ~Locked
  /\ \/ /\ AllExist(t.dests)
        /\ price' = [i \in Item |-> IF i \in fell \cap Recorded THEN t.page[i] ELSE price[i]]
        /\ Queue(rows)
        /\ Step(q, [t EXCEPT !.at = "decide", !.before = EmptyPage, !.dests = {}])
     \/ /\ ~AllExist(t.dests)
        /\ Step(q, Idle("dead"))
        /\ UNCHANGED <<price, outbox>>
  /\ UNCHANGED <<destinations, succeeded, mark, watched, up, asking, aged, history, crashes>>

\* dedup.select, the sellers' numbers, and destination_ids_for_query.
Decide(q) ==
  LET t == task[q]
      unseen == t.candidates \ t.known
  IN
  /\ t.at = "decide"
  /\ \E notify \in SUBSET unseen, record \in SUBSET unseen, newest \in Stamp :
       LET selection == [record |-> record, notify |-> notify, newest |-> newest] IN
       /\ IF q \in succeeded THEN Select(unseen, mark[q], selection)
          ELSE FirstRun(unseen, t.page, selection)
       /\ Step(q, [t EXCEPT !.at = IF record = {} THEN "success" ELSE "record",
                            !.record = record, !.notify = notify, !.newest = newest,
                            !.dests = IF record = {} THEN {} ELSE Routes[q] \cap destinations])
  /\ UNCHANGED <<tables, up, asking, aged, history, crashes>>

\* record_new_items: the listings are in, the notifications are not yet.
RecordItems(q) ==
  LET t == task[q]
      mine == t.record \ Recorded
  IN
  /\ t.at = "record" /\ ~Locked
  /\ price' = [i \in Item |-> IF i \in mine THEN t.page[i] ELSE price[i]]
  /\ Step(q, [t EXCEPT !.at = "commit", !.inserted = mine])
  /\ UNCHANGED <<outbox, destinations, succeeded, mark, watched, up, asking, aged, history,
                 crashes>>

\* The notifications, and the commit; or the foreign key fails, the transaction is rolled
\* back and the exception ends the task.
RecordAlerts(q) ==
  LET t == task[q]
      rows == {[search |-> q, item |-> i, dest |-> d, from |-> NoPrice, to |-> t.page[i]] :
                 i \in t.notify, d \in t.dests}
  IN
  /\ t.at = "commit"
  /\ \/ /\ t.notify = {} \/ AllExist(t.dests)
        /\ Queue(rows)
        /\ Step(q, [t EXCEPT !.at = "success", !.inserted = {}])
        /\ committed' = committed \cup t.record
        /\ silent' = [silent EXCEPT ![q] = @ \cup (t.record \ (t.notify \cup ToldBy(q)))]
        /\ UNCHANGED price
     \/ /\ t.notify # {} /\ ~AllExist(t.dests)
        /\ price' = RolledBack({q})
        /\ Step(q, Idle("dead"))
        /\ UNCHANGED <<outbox, history>>
  /\ UNCHANGED <<destinations, succeeded, mark, watched, up, asking, aged, crashes>>

\* COALESCE(?, newest_item_ts).
MarkAfter(q) == IF task[q].newest # 0 THEN task[q].newest ELSE mark[q]

\* record_success.
Succeed(q) ==
  /\ task[q].at = "success" /\ ~Locked
  /\ succeeded' = succeeded \cup {q}
  /\ mark' = [mark EXCEPT ![q] = MarkAfter(q)]
  /\ Step(q, Idle("wait"))
  /\ UNCHANGED <<price, outbox, destinations, watched, up, asking, aged, history, crashes>>

Check(q) ==
  \/ Fetch(q) \/ Gates(q) \/ ReadKnown(q) \/ ReadPrices(q) \/ WriteDrops(q) \/ Decide(q)
  \/ RecordItems(q) \/ RecordAlerts(q) \/ Succeed(q)

-----------------------------------------------------------------------------
(* The supervisor. *)

\* Mutant: a task that ended on its own keeps its place.
StartStopped(q) ==
  /\ up /\ q \in watched /\ task[q].at = "off"
  /\ Step(q, Idle("wait"))
  /\ UNCHANGED <<tables, up, asking, aged, history, crashes>>

\* A search without a task, or whose task ended in an exception, gets a new one.
Start(q) ==
  /\ up /\ q \in watched /\ task[q].at \in {"off", "dead"}
  /\ Step(q, Idle("wait"))
  /\ UNCHANGED <<tables, up, asking, aged, history, crashes>>

\* The search was paused, deleted or edited: its task is cancelled wherever it awaits.
Cancel(q) ==
  /\ up /\ task[q].at # "off"
  /\ price' = RolledBack({q})
  /\ Step(q, Idle("off"))
  /\ UNCHANGED <<outbox, destinations, succeeded, mark, watched, up, asking, aged, history,
                 crashes>>

Pause(q) ==
  /\ up /\ ~Locked /\ q \in watched
  /\ watched' = watched \ {q}
  /\ UNCHANGED <<price, outbox, destinations, succeeded, mark, up, task, asking, aged, history,
                 crashes>>

Resume(q) ==
  /\ up /\ ~Locked /\ q \notin watched
  /\ watched' = watched \cup {q}
  /\ UNCHANGED <<price, outbox, destinations, succeeded, mark, up, task, asking, aged, history,
                 crashes>>

-----------------------------------------------------------------------------
(* The owner, the retention job, the sellers, the clock and the machine. *)

\* ON DELETE CASCADE.
DeleteDestination(d) ==
  /\ up /\ ~Locked /\ d \in Deletable \cap destinations
  /\ destinations' = destinations \ {d}
  /\ outbox' = {r \in outbox : r.dest # d}
  /\ UNCHANGED <<price, succeeded, mark, watched, up, task, asking, aged, history, crashes>>

\* item_retention_days is days, the freshness window and a check are minutes.  What has no
\* timestamp is let through when it comes back: silence about it ends with its row.
Prune(i) ==
  /\ up /\ ~Locked /\ i \in Prunable \cap Recorded
  /\ Ts[i] = 0 \/ i \in aged
  /\ \A q \in Search : i \notin task[q].record
  /\ price' = [price EXCEPT ![i] = NoPrice]
  /\ silent' = IF Ts[i] = 0 THEN [q \in Search |-> silent[q] \ {i}] ELSE silent
  /\ UNCHANGED <<outbox, destinations, succeeded, mark, watched, up, task, asking, aged,
                 committed, crashes>>

Reprice(i) ==
  /\ i \in Repriced
  /\ \E p \in Price \ {asking[i]} : asking' = [asking EXCEPT ![i] = p]
  /\ UNCHANGED <<tables, up, task, aged, history, crashes>>

Age(i) ==
  /\ i \notin aged /\ Ts[i] # 0
  /\ \A j \in Item \ aged : Ts[j] # 0 => Ts[i] <= Ts[j]
  /\ aged' = aged \cup {i}
  /\ UNCHANGED <<tables, up, task, asking, history, crashes>>

\* SQLite rolls an open transaction back when it is opened again.
Crash ==
  /\ up /\ crashes < MaxCrashes
  /\ up' = FALSE /\ crashes' = crashes + 1
  /\ price' = RolledBack(Search)
  /\ task' = [q \in Search |-> Idle("off")]
  /\ UNCHANGED <<outbox, destinations, succeeded, mark, watched, asking, aged, history>>

Boot ==
  /\ ~up /\ up' = TRUE
  /\ UNCHANGED <<tables, task, asking, aged, history, crashes>>

Next ==
  \/ \E q \in Search : Check(q) \/ Start(q) \/ Cancel(q) \/ Pause(q) \/ Resume(q)
  \/ \E d \in Destination : DeleteDestination(d)
  \/ \E i \in Item : Prune(i) \/ Reprice(i) \/ Age(i)
  \/ Crash \/ Boot

Spec == Init /\ [][Next]_vars

\* The event loop runs every task, the write lock is handed on in order of arrival, the
\* supervisor passes every fifteen seconds and the process is restarted.
Fairness ==
  /\ WF_vars(Boot)
  /\ \A q \in Search : SF_vars(Check(q)) /\ WF_vars(Start(q))

FairSpec == Spec /\ Fairness

-----------------------------------------------------------------------------
(* Properties. *)

\* A listing is recorded together with its notifications or not at all: outside an open
\* transaction no table holds a listing whose transaction was cancelled, failed or died.
NothingHalfRecorded == Recorded \ Uncommitted \subseteq committed

\* What a search recorded without a word (its first page, or the overflow of a flood) it
\* never announces as new later: not after a crash between recording and record_success,
\* an edit, a pause, the retention job or another turn of the results.
SilentStaysSilent ==
  \A q \in Search : ToldBy(q) \cap silent[q] = {}

\* A completed check leaves none of its candidates behind: each is recorded by now, was
\* known when the check looked, has become too old, or lay under the mark already.
CheckSettlesPage ==
  [][\A q \in Search :
       task[q].at = "success" /\ task'[q].at = "wait" =>
         task[q].candidates \subseteq
           Recorded \cup task[q].known \cup aged
             \cup {i \in Item : Ts[i] # 0 /\ Ts[i] <= mark[q]}]_vars

\* The high-water mark of a search never moves back, whatever a check finds, and however
\* its tasks are cancelled, restarted or overtaken.
MarkOnlyRises == [][\A q \in Search : mark'[q] >= mark[q]]_vars

-----------------------------------------------------------------------------
(* What watching promises. *)

\* items, without what an open transaction has inserted.
KnownPrice == [i \in Item |-> IF i \in Uncommitted THEN NoPrice ELSE price[i]]

FirstCap == IF FirstRunMode = "newest" THEN 1 ELSE 0

Finds == INSTANCE Findings
           WITH Reader <- Destination, LaterCap <- MaxNotify, known <- KnownPrice,
                alerts <- outbox, readers <- destinations, begun <- succeeded

\* Watching keeps what Findings promises: a step of a check, the supervisor, the owner or the
\* machine changes the tables, as committed, in no other way.  So a listing is recorded with
\* the alerts of its check or not at all, a flood alerts of its newest, and nobody the search
\* tells is left out, although all of it was decided some awaits before it is written.
FindingsKept == Finds!FindingsSpec

-----------------------------------------------------------------------------
(* Why the safety properties hold: together these are inductive. *)

Committed == Recorded \ Uncommitted

\* One open transaction at a time, and it knows what it inserted.
OneTransaction ==
  /\ \A q, p \in Search : task[q].at = "commit" /\ task[p].at = "commit" => q = p
  /\ \A q \in Search : task[q].inserted # {} => task[q].at = "commit"
  /\ \A q \in Search : task[q].inserted \subseteq task[q].record

\* What a check has recorded is there until it is done: retention is slower than a check.
RecordedStays ==
  \A q \in Search :
    /\ task[q].at = "commit" => task[q].record \subseteq Recorded
    /\ task[q].at = "success" => task[q].record \subseteq Committed

\* What a check writes, it has seen on its own page.
TakenFromPage ==
  \A q \in Search :
    /\ task[q].candidates \cup task[q].record \cup task[q].notify
         \cup {i \in Item : task[q].before[i] # NoPrice} \subseteq OnPage(q)
    /\ task[q].at = "wait" => OnPage(q) = {}

\* The mark is set by completed checks, and one under way has not gone below it.
MarkIsOld ==
  \A q \in Search :
    /\ q \notin succeeded => mark[q] = 0
    /\ task[q].at \in {"record", "commit", "success"} =>
         task[q].newest = 0 \/ task[q].newest >= mark[q]

\* What a check leaves out when it has decided what to record.
Accounted(q) ==
  task[q].record \cup task[q].known \cup aged \cup {i \in Item : Ts[i] # 0 /\ Ts[i] <= mark[q]}

CandidatesAccounted ==
  \A q \in Search :
    task[q].at \in {"record", "commit", "success"} => task[q].candidates \subseteq Accounted(q)

\* A listing recorded silently keeps its row as long as it could be taken for news.
SilentIsKept == \A q \in Search : silent[q] \subseteq Committed \cup aged

\* So a check either knows it, or finds it too old.  A search whose first check announces
\* the newest listing makes no such promise until that check has completed.
SilentIsKnown ==
  \A q \in Search :
    /\ task[q].at \in {"prices", "drops", "decide"} =>
         (task[q].candidates \ task[q].known) \cap silent[q] \subseteq aged
    /\ task[q].at \in {"record", "commit"} => task[q].notify \cap silent[q] = {}

IInv ==
  /\ TypeOK
  /\ OneTransaction
  /\ RecordedStays
  /\ TakenFromPage
  /\ MarkIsOld
  /\ CandidatesAccounted
  /\ SilentIsKept
  /\ NothingHalfRecorded
  /\ FirstRunMode = "silent" => SilentIsKnown /\ SilentStaysSilent

\* What a check has decided is still right when it is written: the announced are the newest of
\* the recorded, the search is as far as it was, and whoever it tells was among its destinations
\* when they were read.
PlanHolds(q) ==
  LET t == task[q] IN
  /\ t.at \in {"prices", "drops"} => q \in succeeded
  /\ t.at \in {"drops", "record", "commit"} => Routes[q] \cap destinations \subseteq t.dests
  /\ t.dests \subseteq Routes[q]
  /\ \A i \in Item : t.before[i] # NoPrice => <<t.before[i], t.page[i]>> \in Drop
  /\ t.at \in {"record", "commit"} =>
       AreNewest(t.notify, t.record, IF q \in succeeded THEN MaxNotify ELSE FirstCap)
  /\ \A i \in t.inserted : price[i] = t.page[i]

PlansHold == \A q \in Search : PlanHolds(q)

-----------------------------------------------------------------------------
(* Liveness. *)

\* Every search that is not paused gets back to waiting for its next check: a check ends,
\* the write lock is never left held, and a task that died is replaced.
SearchesKeepRunning ==
  \A q \in Search : q \in watched ~> (task[q].at = "wait" \/ q \notin watched)

-----------------------------------------------------------------------------
(* What a docstring says of this code, and it does not do. *)

\* dedup.py: recorded ids are kept "so two overlapping searches do not each tell you about
\* the same thing".
ToldByOneSearch ==
  \A q, p \in Search : q # p => ToldBy(q) \cap ToldBy(p) = {}
=============================================================================
