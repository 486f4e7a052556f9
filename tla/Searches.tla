------------------------------- MODULE Searches -------------------------------
(***************************************************************************)
(* The owner adds, edits, pauses and deletes saved searches (db/repo.py,   *)
(* from the dashboard, the bot and the command line), and the supervisor   *)
(* (app.py) keeps one task running per active search by comparing the      *)
(* table with the signatures of the tasks it started.  What a check does   *)
(* is in Watch; here a task only waits, checks and may die.                *)
(***************************************************************************)
EXTENDS Naturals, FiniteSets

CONSTANTS
  Url,          \* what can be searched for: the identity of a search
  MaxId,        \* bound: rows of queries at a time
  MaxRevision,  \* bound: edits of one search
  MaxSecond     \* bound: the clock, in whole seconds

ASSUME SearchesAssumption == MaxId \in Nat /\ MaxRevision \in Nat /\ MaxSecond \in Nat

VARIABLES
  queries,  \* rows of queries, by id: url, settings, paused, updated_at
  pollers,  \* the supervisor's tasks, by id, with what they were started from
  second    \* int(time.time())

searchesVars == <<queries, pollers, second>>

QueryId == 1 .. MaxId

\* Everything an edit can change is one revision: filters, interval, name.
QueryRow == [url : Url, revision : 0 .. MaxRevision, paused : BOOLEAN, updated : 0 .. MaxSecond]
NoQuery == [url |-> "none"]

\* A task holds the row it was started from.
Poller == [from : QueryRow, at : {"wait", "check", "dead"}]
NoPoller == [at |-> "none"]

SearchesTypeOK ==
  /\ queries \in [QueryId -> QueryRow \cup {NoQuery}]
  /\ pollers \in [QueryId -> Poller \cup {NoPoller}]
  /\ second \in 0 .. MaxSecond

SearchesInit ==
  /\ queries = [id \in QueryId |-> NoQuery]
  /\ pollers = [id \in QueryId |-> NoPoller]
  /\ second = 0

-----------------------------------------------------------------------------
(* The owner. *)

Saved(id) == queries[id] # NoQuery
SavedIds == {id \in QueryId : Saved(id)}

\* INTEGER PRIMARY KEY: one more than the largest id in the table, so the id of the search
\* added last is given out again once that search is deleted.
NextId(id) == id \notin SavedIds /\ \A k \in QueryId : (k < id) <=> (\E m \in SavedIds : k <= m)

\* UNIQUE (url), which the handlers test first.
AddQuery(url) ==
  /\ \A id \in SavedIds : queries[id].url # url
  /\ \E id \in QueryId :
       /\ NextId(id)
       /\ queries' = [queries EXCEPT ![id] = [url |-> url, revision |-> 0, paused |-> FALSE,
                                              updated |-> second]]
  /\ UNCHANGED <<pollers, second>>

Touch(id, row) == queries' = [queries EXCEPT ![id] = [row EXCEPT !.updated = second]]

UpdateQuery(id) ==
  /\ Saved(id) /\ queries[id].revision < MaxRevision
  /\ Touch(id, [queries[id] EXCEPT !.revision = @ + 1])
  /\ UNCHANGED <<pollers, second>>

\* One UPDATE of every row.
SetAllIntervals ==
  /\ SavedIds # {} /\ \A id \in SavedIds : queries[id].revision < MaxRevision
  /\ queries' = [id \in QueryId |->
       IF Saved(id) THEN [queries[id] EXCEPT !.revision = @ + 1, !.updated = second]
       ELSE NoQuery]
  /\ UNCHANGED <<pollers, second>>

SetPaused(id) ==
  /\ Saved(id)
  /\ \E paused \in BOOLEAN : Touch(id, [queries[id] EXCEPT !.paused = paused])
  /\ UNCHANGED <<pollers, second>>

DeleteQuery(id) ==
  /\ Saved(id)
  /\ queries' = [queries EXCEPT ![id] = NoQuery]
  /\ UNCHANGED <<pollers, second>>

SecondPasses ==
  /\ second < MaxSecond
  /\ second' = second + 1
  /\ UNCHANGED <<queries, pollers>>

-----------------------------------------------------------------------------
(* The supervisor. *)

ActiveQuery(id) == Saved(id) /\ ~queries[id].paused

\* _signature, the interval being part of what updated_at stands for.
Signature(row) == <<row.url, row.updated>>

Wanted(id) == IF ActiveQuery(id) THEN Signature(queries[id]) ELSE <<>>
Running(id) == IF pollers[id].at \in {"wait", "check"} THEN Signature(pollers[id].from) ELSE <<>>

\* Mutant: a task that ended by an error still counts as there.
DeadCounts(id) == Wanted(id) = Running(id) \/ pollers[id].at = "dead"

\* _reconcile, one pass of _supervise: what is out of date or done is cancelled at
\* whatever await it is, and every active search without a task gets one.
UpToDate(id) == Wanted(id) = Running(id) /\ pollers[id].at # "dead"

Reconcile ==
  /\ pollers' = [id \in QueryId |->
       IF UpToDate(id) THEN pollers[id]
       ELSE IF ActiveQuery(id) THEN [from |-> queries[id], at |-> "wait"]
       ELSE NoPoller]
  /\ UNCHANGED <<queries, second>>

-----------------------------------------------------------------------------
(* The tasks. *)

BeginCheck(id) ==
  /\ pollers[id].at = "wait"
  /\ pollers' = [pollers EXCEPT ![id].at = "check"]
  /\ UNCHANGED <<queries, second>>

\* Whatever came of it.
EndCheck(id) ==
  /\ pollers[id].at = "check"
  /\ pollers' = [pollers EXCEPT ![id].at = "wait"]
  /\ UNCHANGED <<queries, second>>

\* _guard: the exception ends this task and no other, the foreign key of a search deleted
\* meanwhile for one.
PollerCrashes(id) ==
  /\ pollers[id].at = "check"
  /\ pollers' = [pollers EXCEPT ![id].at = "dead"]
  /\ UNCHANGED <<queries, second>>

OwnerStep ==
  \/ SetAllIntervals
  \/ \E url \in Url : AddQuery(url)
  \/ \E id \in QueryId : UpdateQuery(id) \/ SetPaused(id) \/ DeleteQuery(id)

SearchesNext ==
  \/ OwnerStep \/ SecondPasses \/ Reconcile
  \/ \E id \in QueryId : BeginCheck(id) \/ EndCheck(id) \/ PollerCrashes(id)

SearchesSpec == SearchesInit /\ [][SearchesNext]_searchesVars /\ WF_searchesVars(Reconcile)

-----------------------------------------------------------------------------
(* Properties. *)

\* The tasks follow the table: when a search is added, paused, deleted, or changed in a
\* later second than the one its task was started from, or when its task died, the next
\* passes of the supervisor make the running tasks those the table asks for.
TasksFollowTable ==
  (\E id \in QueryId : Wanted(id) # Running(id)) ~> \A id \in QueryId : Wanted(id) = Running(id)
=============================================================================
