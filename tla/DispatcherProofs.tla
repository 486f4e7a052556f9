-------------------------- MODULE DispatcherProofs --------------------------
(***************************************************************************)
(* Proofs about Dispatcher, for any listings, destinations, batch sizes,   *)
(* budgets and number of crashes.  The types first; then lemmas that say   *)
(* who changes which variable; then one lemma per conjunct of IInv; then   *)
(* the theorems.                                                           *)
(***************************************************************************)
EXTENDS Dispatcher, TLAPS

\* The key an operation builds is a row of the table.
LEMMA RowForIsRow ==
  ASSUME NEW i \in Item, NEW d \in Destination, NEW kind \in {"new", "verdict"} \cup PriceDrop
  PROVE  /\ RowFor(i, d, kind) \in Row
         /\ RowFor(i, d, kind).item = i
         /\ RowFor(i, d, kind).dest = d
         /\ RowFor(i, d, kind).kind = kind
BY DEF RowFor, Row

\* A row's columns have their types.
LEMMA RowDest == \A r \in Row : r.dest \in Destination /\ r.item \in Item
BY DEF Row

\* An UPDATE of the status keeps the types.
LEMMA SetStatusTypes ==
  ASSUME TablesTypeOK, NEW R, NEW s \in Status, SetStatus(R, s),
         attempts' \in [Row -> Nat], due' \subseteq Row
  PROVE  TablesTypeOK'
BY DEF TablesTypeOK, SetStatus

\* So does an INSERT OR IGNORE.
LEMMA InsertTypes ==
  ASSUME TablesTypeOK, NEW R \in SUBSET Row, NEW ready, NEW released \in SUBSET Row,
         Insert(R, ready, released)
  PROVE  /\ status' \in [Row -> Status]
         /\ id' \in [Row -> Nat]
         /\ attempts' \in [Row -> Nat]
         /\ due' \subseteq Row
         /\ stale' \subseteq Row
         /\ next_id' \in Nat
BY DEF TablesTypeOK, Insert, Status

\* What pollers, agents and the retention job write keeps the types.
LEMMA RecordTypes ==
  ASSUME TablesTypeOK, NEW i \in Item,
         \/ \E D \in SUBSET Destination : RecordNewItem(i, D)
         \/ \E D \in SUBSET Destination, price \in PriceDrop : RecordPriceDrop(i, price, D)
         \/ \E v \in Verdict : StoreEnrichment(i, v)
         \/ PruneItem(i)
  PROVE  TablesTypeOK'
<1>1. ASSUME NEW D \in SUBSET Destination, RecordNewItem(i, D) PROVE TablesTypeOK'
  <2> DEFINE R == {RowFor(i, d, "new") : d \in D}
             ready == {RowFor(i, d, "new") : d \in {e \in D : ~Hold \/ ~IsChat(e)}}
  <2>1. R \in SUBSET Row
    BY RowForIsRow
  <2>2. /\ Insert(R, ready, {}) /\ items' = items \cup {i}
        /\ UNCHANGED <<enrichment, destinations>>
    BY <1>1 DEF RecordNewItem
  <2> HIDE DEF R, ready
  <2> QED
    BY <2>1, <2>2, InsertTypes DEF TablesTypeOK
<1>2. ASSUME NEW D \in SUBSET Destination, NEW price \in PriceDrop, RecordPriceDrop(i, price, D)
      PROVE  TablesTypeOK'
  <2> DEFINE R == {RowFor(i, d, price) : d \in D}
  <2>1. R \in SUBSET Row
    BY price \in {"new", "verdict"} \cup PriceDrop, RowForIsRow
  <2>2. Insert(R, R, {}) /\ UNCHANGED <<items, enrichment, destinations>>
    BY <1>2 DEF RecordPriceDrop
  <2> HIDE DEF R
  <2> QED
    BY <2>1, <2>2, InsertTypes DEF TablesTypeOK
<1>3. ASSUME NEW v \in Verdict, StoreEnrichment(i, v) PROVE TablesTypeOK'
  <2>1. FollowUps(i, v) \in SUBSET Row
    BY RowForIsRow DEF FollowUps, AlertedChats
  <2>2. Held(i) \in SUBSET Row
    BY DEF Held
  <2> QED
    BY <1>3, <2>1, <2>2, InsertTypes DEF StoreEnrichment, TablesTypeOK
<1>4. CASE PruneItem(i)
  BY <1>4 DEF PruneItem, TablesTypeOK, outbox
<1> QED
  BY <1>1, <1>2, <1>3, <1>4

\* So does what the expiry, the owner and the clock write.
LEMMA OtherTableTypes ==
  ASSUME TablesTypeOK,
         \/ \E D \in SUBSET Destination : RestartDeliveryClock(D)
         \/ \E r \in Row : BecomesDue(r) \/ BecomesStale(r)
         \/ \E d \in Destination :
              DropDestination(d) \/ SetDestination(d, "active") \/ SetDestination(d, "inactive")
  PROVE  TablesTypeOK'
BY DEF RestartDeliveryClock, BecomesDue, BecomesStale, DropDestination, SetDestination,
       TablesTypeOK, outbox, Status

\* An empty database is well typed.
LEMMA TypeInit == Init => TypeOK
<1> SUFFICES ASSUME Init PROVE TypeOK
  OBVIOUS
<1> USE ConstantsAssumption, DispatcherAssumption DEF Init
<1>1. TablesTypeOK
  BY DEF TablesInit, TablesTypeOK, Status
<1>2. WorkersTypeOK
  BY DEF WorkersTypeOK, PC, Outcome
<1>3. WorldTypeOK
  <2>1. unpaired \subseteq Destination
    BY DEF DispatcherAssumption
  <2>2. crashes \in 0 .. MaxCrashes /\ windows \in 0 .. MaxWindows
    BY DEF DispatcherAssumption
  <2>3. request \in [Destination -> {"none", "deleting", "pairing"}]
    OBVIOUS
  <2> QED
    BY <2>1, <2>2, <2>3 DEF WorldTypeOK
<1>4. HistoryTypeOK
  BY DEF HistoryTypeOK
<1> QED
  BY <1>1, <1>2, <1>3, <1>4 DEF TypeOK

\* Every step keeps the tables well typed.
LEMMA TablesTypeNext == TypeOK /\ [Next]_vars => TablesTypeOK'
<1> SUFFICES ASSUME TypeOK, [Next]_vars, ~ UNCHANGED tables PROVE TablesTypeOK'
  BY DEF TypeOK, TablesTypeOK, tables, outbox
<1>0. TablesTypeOK /\ attempts \in [Row -> Nat] /\ due \subseteq Row
  BY DEF TypeOK, TablesTypeOK
<1>1. CASE Recover
  BY <1>0, <1>1, SetStatusTypes DEF Recover, RecoverLeases, Status
<1>2. CASE QuietDestinations
  <2>1. quiet_now \ {d \in quiet_hours : Active(d)} \in SUBSET Destination
    BY DEF TypeOK, WorldTypeOK
  <2> QED
    BY <1>0, <1>2, <2>1, OtherTableTypes DEF QuietDestinations
<1>3. CASE Expire
  BY <1>0, <1>3, SetStatusTypes DEF Expire, ExpireStaleNotifications, MarkCancelled, Status
<1>4. ASSUME NEW d \in Destination, Claim(d) PROVE TablesTypeOK'
  BY <1>0, <1>4, SetStatusTypes DEF Claim, ClaimBatch, Status
<1>5. ASSUME NEW d \in Destination, ApplyScoreFloor(d) PROVE TablesTypeOK'
  BY <1>0, <1>5, SetStatusTypes DEF ApplyScoreFloor, MarkCancelled, Status
<1>6. ASSUME NEW d \in Destination, Record(d) PROVE TablesTypeOK'
  BY <1>0, <1>6, SetStatusTypes DEF Record, MarkSent, Status
<1>7. ASSUME NEW d \in Destination, Retry(d) PROVE TablesTypeOK'
  <2>1. attempts' \in [Row -> Nat] /\ due' \subseteq Row
    BY <1>0, <1>7 DEF Retry, MarkRetry
  <2> QED
    BY <1>0, <1>7, <2>1, SetStatusTypes DEF Retry, MarkRetry, Status
<1>8. ASSUME NEW d \in Destination, Fail(d) PROVE TablesTypeOK'
  BY <1>0, <1>8, SetStatusTypes DEF Fail, MarkFailed, Status
<1>9. ASSUME NEW d \in Destination, Deactivate(d) \/ Enable(d) \/ DeleteEnds(d) PROVE TablesTypeOK'
  BY <1>0, <1>9, OtherTableTypes DEF Deactivate, Enable, DeleteEnds
<1>10. ASSUME NEW d \in Destination, Purge(d) \/ DeleteBegins(d) PROVE TablesTypeOK'
  BY <1>0, <1>10, SetStatusTypes DEF Purge, DeleteBegins, CancelQueued, MarkCancelled, Status
<1>11. ASSUME NEW d \in Destination, PairEnds(d) PROVE TablesTypeOK'
  BY <1>0, <1>11, SetStatusTypes DEF PairEnds, DiscardPendingFor, MarkCancelled, Status
<1>12. ASSUME NEW i \in Item, Alert(i) \/ Enrich(i) \/ Prune(i) PROVE TablesTypeOK'
  BY <1>0, <1>12, RecordTypes DEF Alert, Enrich, Prune
<1>13. ASSUME NEW r \in Row, Due(r) \/ Stale(r) PROVE TablesTypeOK'
  BY <1>0, <1>13, OtherTableTypes DEF Due, Stale
<1>14. UNCHANGED tables \/ Recover \/ QuietDestinations \/ Expire
       \/ (\E d \in Destination : \/ Claim(d) \/ ApplyScoreFloor(d) \/ Record(d) \/ Retry(d)
             \/ Fail(d) \/ Deactivate(d) \/ Enable(d) \/ DeleteEnds(d) \/ Purge(d)
             \/ DeleteBegins(d) \/ PairEnds(d))
       \/ (\E i \in Item : Alert(i) \/ Enrich(i) \/ Prune(i))
       \/ (\E r \in Row : Due(r) \/ Stale(r))
  BY DEF Next, Drain, WorkerStep, Others, Clock, FindNoWork, FindWork, EndDrain, Serve,
         ClaimNothing, Post, Raise, PairBegins, GateOpens, QuietBegins, QuietEnds, Crash,
         Boot, vars
<1> QED
  BY <1>1, <1>2, <1>3, <1>4, <1>5, <1>6, <1>7, <1>8, <1>9, <1>10, <1>11, <1>12, <1>13, <1>14

\* Every step keeps the locals of the workers well typed.
LEMMA WorkersTypeNext == TypeOK /\ [Next]_vars => WorkersTypeOK'
<1> SUFFICES ASSUME TypeOK, [Next]_vars, ~ UNCHANGED workers PROVE WorkersTypeOK'
  BY DEF TypeOK, WorkersTypeOK, workers
<1>0. WorkersTypeOK
  BY DEF TypeOK
<1> USE <1>0 DEF WorkersTypeOK, PC, Outcome
<1>1. CASE FindWork
  BY <1>1 DEF FindWork
<1>2. ASSUME NEW d \in Destination, Return(d) PROVE WorkersTypeOK'
  BY <1>2 DEF Return
<1>3. ASSUME NEW d \in Destination, NEW next \in PC, Jump(d, next) PROVE WorkersTypeOK'
  BY <1>3 DEF Jump
<1>4. ASSUME NEW d \in Destination, Serve(d) PROVE WorkersTypeOK'
  BY <1>2, <1>3, <1>4 DEF Serve
<1>5. ASSUME NEW d \in Destination, Claim(d) PROVE WorkersTypeOK'
  BY <1>5 DEF Claim, Claimable, RowsOf, ScoredOut
<1>6. ASSUME NEW d \in Destination, ApplyScoreFloor(d) PROVE WorkersTypeOK'
  BY <1>2, <1>6 DEF ApplyScoreFloor
<1>7. ASSUME NEW d \in Destination, Post(d) PROVE WorkersTypeOK'
  <2>1. Message(d) \subseteq batch[d]
    BY DEF Message, Rest
  <2>2. delivered' \in [Destination -> SUBSET Row]
    BY <1>7, <2>1 DEF Post, Accepted, PhotoFallback, Transient, Rejected, Gone
  <2>3. /\ pc' \in [Destination -> PC]
        /\ outcome' \in [Destination -> Outcome]
        /\ UNCHANGED <<batch, under>>
    BY <1>7 DEF Post, Accepted, PhotoFallback, Transient, Rejected, Gone, Report
  <2> QED
    BY <2>2, <2>3
<1>8. ASSUME NEW d \in Destination, Record(d) PROVE WorkersTypeOK'
  BY <1>2, <1>3, <1>8 DEF Record, Dispose
<1>9. ASSUME NEW d \in Destination, Retry(d) PROVE WorkersTypeOK'
  <2>1. PICK over_budget \in SUBSET Row : GiveUp(d, over_budget)
    BY <1>9 DEF Retry, Rest
  <2> QED
    BY <1>2, <2>1 DEF GiveUp
<1>10. ASSUME NEW d \in Destination, ClaimNothing(d) \/ Fail(d) \/ Purge(d) \/ Raise(d)
       PROVE  WorkersTypeOK'
  BY <1>2, <1>10 DEF ClaimNothing, Fail, Purge, Raise
<1>11. ASSUME NEW d \in Destination, Deactivate(d) PROVE WorkersTypeOK'
  BY <1>3, <1>11 DEF Deactivate
<1>12. CASE Crash
  BY <1>12 DEF Crash
<1>13. \/ UNCHANGED workers \/ FindWork \/ Crash
       \/ \E d \in Destination : WorkerStep(d) \/ Raise(d)
  BY DEF Next, Drain, Others, Clock, Recover, QuietDestinations, Expire, FindNoWork,
         EndDrain, Alert, Enrich, Prune, Enable, DeleteBegins, DeleteEnds, PairBegins,
         PairEnds, GateOpens, QuietBegins, QuietEnds, Due, Stale, Boot, memory, vars
<1> QED
  BY <1>1, <1>4, <1>5, <1>6, <1>7, <1>8, <1>9, <1>10, <1>11, <1>12, <1>13 DEF WorkerStep

\* Every step keeps the dispatcher's memory, the world and the history well typed.
LEMMA WorldTypeNext == TypeOK /\ [Next]_vars => WorldTypeOK' /\ HistoryTypeOK'
<1> SUFFICES ASSUME TypeOK, [Next]_vars PROVE WorldTypeOK' /\ HistoryTypeOK'
  OBVIOUS
<1>0. WorkersTypeOK /\ WorldTypeOK /\ HistoryTypeOK
  BY DEF TypeOK
<1> USE <1>0, DispatcherAssumption
        DEF WorldTypeOK, HistoryTypeOK, WorkersTypeOK, world, history, memory
<1>1. CASE Drain
  BY <1>1 DEF Drain, Recover, QuietDestinations, Expire, FindNoWork, FindWork, EndDrain, GoTo
<1>2. ASSUME NEW d \in Destination, Post(d) PROVE WorldTypeOK' /\ HistoryTypeOK'
  <2>1. Message(d) \subseteq Row
    BY DEF Message, Rest
  <2>2. /\ UNCHANGED <<phase, quiet_now, world, stranded>>
        /\ gate' \in BOOLEAN
    BY <1>2 DEF Post, Accepted, PhotoFallback, Transient, Rejected, Gone
  <2>3. unrecorded' \subseteq Row
    BY <1>2, <2>1 DEF Post, Accepted, PhotoFallback, Transient, Rejected, Gone
  <2>4. Taken(Message(d)) \in [Row -> 0 .. 2] /\ TakenTwice(Message(d)) \in [Row -> 0 .. 2]
    BY DEF Taken, TakenTwice
  <2>5. copies' \in [Row -> 0 .. 2]
    BY <1>2, <2>4 DEF Post, Accepted, PhotoFallback, Transient, Rejected, Gone
  <2> QED
    BY <2>2, <2>3, <2>5
<1>3. ASSUME NEW d \in Destination, WorkerStep(d), ~ Post(d) PROVE WorldTypeOK' /\ HistoryTypeOK'
  BY <1>3 DEF WorkerStep, Serve, Claim, ClaimNothing, ApplyScoreFloor, Record, Retry, Fail,
              Deactivate, Purge
<1>4. ASSUME NEW d \in Destination, Raise(d) PROVE WorldTypeOK' /\ HistoryTypeOK'
  BY <1>4 DEF Raise
<1>5. CASE \E i \in Item : Alert(i) \/ Enrich(i) \/ Prune(i)
  BY <1>5 DEF Alert, Enrich, Prune
<1>6. ASSUME NEW d \in Destination,
             Enable(d) \/ DeleteBegins(d) \/ DeleteEnds(d) \/ PairBegins(d) \/ PairEnds(d)
      PROVE  WorldTypeOK' /\ HistoryTypeOK'
  BY <1>6 DEF Enable, DeleteBegins, DeleteEnds, PairBegins, PairEnds, Ask, With
<1>7. CASE Clock
  <2>1. ASSUME NEW d \in Destination, QuietBegins(d) PROVE WorldTypeOK' /\ HistoryTypeOK'
    <3>1. windows' \in 0 .. MaxWindows
      BY <2>1 DEF QuietBegins
    <3> QED
      BY <2>1, <3>1 DEF QuietBegins
  <2>2. ASSUME NEW d \in Destination, QuietEnds(d) PROVE WorldTypeOK' /\ HistoryTypeOK'
    BY <2>2 DEF QuietEnds
  <2>3. ASSUME NEW r \in Row, Due(r) \/ Stale(r) PROVE WorldTypeOK' /\ HistoryTypeOK'
    BY <2>3 DEF Due, Stale
  <2>4. CASE GateOpens
    BY <2>4 DEF GateOpens
  <2> QED
    BY <1>7, <2>1, <2>2, <2>3, <2>4 DEF Clock
<1>8. CASE Crash
  <2>1. crashes' \in 0 .. MaxCrashes
    BY <1>8 DEF Crash
  <2>2. unrecorded' \subseteq Row
    BY <1>8 DEF Crash
  <2>3. request' \in [Destination -> {"none", "deleting", "pairing"}]
    BY <1>8 DEF Crash
  <2> QED
    BY <1>8, <2>1, <2>2, <2>3 DEF Crash
<1>9. CASE Boot \/ UNCHANGED vars
  BY <1>9 DEF Boot, GoTo, vars
<1> QED
  BY <1>1, <1>2, <1>3, <1>4, <1>5, <1>6, <1>7, <1>8, <1>9 DEF Next, Others

\* Every variable keeps its type: statuses stay inside the CHECK constraint of the table,
\* and no worker, history or counter leaves its range.
THEOREM TypeCorrect == Spec => []TypeOK
<1>1. TypeOK /\ [Next]_vars => TypeOK'
  BY TablesTypeNext, WorkersTypeNext, WorldTypeNext DEF TypeOK
<1> QED
  BY <1>1, TypeInit, PTL DEF Spec

-----------------------------------------------------------------------------
(* Who writes what. *)

\* What an UPDATE of the status leaves in each row.
LEMMA StatusOf ==
  ASSUME NEW R, NEW s, SetStatus(R, s), NEW r \in Row
  PROVE  status'[r] = IF r \in R /\ status[r] # "absent" THEN s ELSE status[r]
BY DEF SetStatus

\* INSERT OR IGNORE makes absent rows pending and touches no other.
LEMMA StatusAfterInsert ==
  ASSUME NEW R, NEW ready, NEW released, Insert(R, ready, released), NEW r \in Row
  PROVE  status'[r] = IF r \in R /\ status[r] = "absent" THEN "pending" ELSE status[r]
BY DEF Insert, Present, With

\* Only a worker, FindWork and a crash change the locals of workers.
LEMMA WhoMovesWorkers ==
  [Next]_vars => \/ UNCHANGED workers \/ FindWork \/ Crash
                 \/ \E d \in Destination : WorkerStep(d) \/ Raise(d)
BY DEF Next, Drain, Others, Clock, Recover, QuietDestinations, Expire, FindNoWork,
       EndDrain, Alert, Enrich, Prune, Enable, DeleteBegins, DeleteEnds, PairBegins,
       PairEnds, GateOpens, QuietBegins, QuietEnds, Due, Stale, Boot, memory, vars

\* A worker touches its own locals and nobody else's.
LEMMA WorkerFrame ==
  ASSUME WorkersTypeOK, NEW d \in Destination, WorkerStep(d) \/ Raise(d)
  PROVE  /\ pc[d] # "idle"
         /\ UNCHANGED <<phase, request>>
         /\ \A e \in Destination \ {d} :
              /\ pc'[e] = pc[e] /\ batch'[e] = batch[e] /\ delivered'[e] = delivered[e]
              /\ under'[e] = under[e] /\ outcome'[e] = outcome[e]
<1> USE DEF WorkersTypeOK, Return, Jump, Report, world
<1>1. CASE Serve(d) \/ Claim(d) \/ ClaimNothing(d)
  BY <1>1 DEF Serve, Claim, ClaimNothing
<1>2. CASE ApplyScoreFloor(d)
  BY <1>2 DEF ApplyScoreFloor
<1>3. CASE Post(d)
  BY <1>3 DEF Post, Accepted, PhotoFallback, Transient, Rejected, Gone
<1>4. CASE Record(d)
  BY <1>4 DEF Record, Dispose
<1>5. CASE Retry(d)
  BY <1>5 DEF Retry, GiveUp
<1>6. CASE Fail(d) \/ Deactivate(d) \/ Purge(d) \/ Raise(d)
  BY <1>6 DEF Fail, Deactivate, Purge, Raise
<1> QED
  BY <1>1, <1>2, <1>3, <1>4, <1>5, <1>6 DEF WorkerStep

\* The ways a worker writes the status of a row.
WorkerWrites(d, r) ==
  \/ /\ Claim(d) /\ r \in Claimable(d) /\ r \in batch'[d]
     /\ status[r] = "pending" /\ status'[r] = "sending"
  \/ ApplyScoreFloor(d) /\ r \in under[d] /\ status'[r] = "cancelled"
  \/ Record(d) /\ r \in delivered[d] /\ status'[r] = "sent"
  \/ Retry(d) /\ r \in Rest(d) /\ status'[r] = "pending"
  \/ Fail(d) /\ r \in Rest(d) /\ status'[r] = "failed"
  \/ Purge(d) /\ status[r] \in {"pending", "sending"} /\ status'[r] = "cancelled"

\* Every way the status of a row changes.
StatusStep(r) ==
  \/ status'[r] = status[r]
  \/ /\ status[r] = "absent" /\ status'[r] = "pending" /\ destinations[r.dest] # "deleted"
     /\ r.kind = "verdict" => status[RowFor(r.item, r.dest, "new")] = "sent"
     /\ UNCHANGED destinations
  \/ status[r] = "pending" /\ status'[r] = "cancelled"
  \/ phase = "recover" /\ status[r] = "sending" /\ status'[r] = "pending"
  \/ status[r] = "sending" /\ status'[r] = "cancelled" /\ request'[r.dest] = "deleting"
  \/ status'[r] = "absent" /\ destinations'[r.dest] = "deleted"
  \/ status[r] # "absent" /\ WorkerWrites(r.dest, r)

\* The status changes a worker makes: its own rows, by what it holds.
LEMMA WorkerStatusStep ==
  ASSUME IInv, NEW d \in Destination, WorkerStep(d) \/ Raise(d), NEW r \in Row
  PROVE  StatusStep(r)
<1> SUFFICES ASSUME status'[r] # status[r]
             PROVE  r.dest = d /\ status[r] # "absent" /\ WorkerWrites(d, r)
  BY DEF StatusStep
<1>0. WorkersTypeOK /\ WorkerShape
  BY DEF IInv, TypeOK
<1> USE <1>0 DEF WorkerWrites
<1>1. CASE Claim(d)
  <2>1. PICK B \in SUBSET Claimable(d) : ClaimBatch(B) /\ batch' = [batch EXCEPT ![d] = B]
    BY <1>1 DEF Claim
  <2> QED
    BY <1>1, <2>1, StatusOf DEF ClaimBatch, Claimable, RowsOf, WorkersTypeOK
<1>2. CASE ApplyScoreFloor(d)
  BY <1>2, StatusOf DEF ApplyScoreFloor, MarkCancelled, WorkerShape, RowsOf
<1>3. CASE Record(d)
  BY <1>3, StatusOf DEF Record, MarkSent, WorkerShape, RowsOf
<1>4. CASE Retry(d)
  BY <1>4, StatusOf DEF Retry, MarkRetry, Rest, WorkerShape, RowsOf
<1>5. CASE Fail(d)
  BY <1>5, StatusOf DEF Fail, MarkFailed, Rest, WorkerShape, RowsOf
<1>6. CASE Purge(d)
  BY <1>6, StatusOf DEF Purge, CancelQueued, MarkCancelled, RowsOf, With
<1>7. CASE Serve(d) \/ ClaimNothing(d) \/ Post(d) \/ Deactivate(d) \/ Raise(d)
  BY <1>7 DEF Serve, ClaimNothing, Post, Deactivate, Raise, SetDestination, tables, outbox
<1> QED
  BY <1>1, <1>2, <1>3, <1>4, <1>5, <1>6, <1>7 DEF WorkerStep

\* The status changes of pollers and agents: new rows only.
LEMMA AlertStatusStep ==
  ASSUME IInv, NEW i \in Item, Alert(i) \/ Enrich(i) \/ Prune(i), NEW r \in Row
  PROVE  StatusStep(r)
<1> DEFINE Queued_ == /\ status[r] = "absent" /\ status'[r] = "pending"
                      /\ destinations[r.dest] # "deleted"
                      /\ r.kind = "verdict" => status[RowFor(r.item, r.dest, "new")] = "sent"
                      /\ UNCHANGED destinations
<1> SUFFICES ASSUME status'[r] # status[r] PROVE Queued_
  BY DEF StatusStep
<1>1. ASSUME NEW D \in SUBSET Destination, RecordNewItem(i, D) PROVE Queued_
  <2>1. PICK d \in D : r = RowFor(i, d, "new") /\ status[r] = "absent" /\ status'[r] = "pending"
    BY <1>1, StatusAfterInsert DEF RecordNewItem
  <2> QED
    BY <1>1, <2>1, RowForIsRow DEF RecordNewItem
<1>2. ASSUME NEW D \in SUBSET Destination, NEW price \in PriceDrop, RecordPriceDrop(i, price, D)
      PROVE  Queued_
  <2>1. PICK d \in D : r = RowFor(i, d, price) /\ status[r] = "absent" /\ status'[r] = "pending"
    BY <1>2, StatusAfterInsert DEF RecordPriceDrop
  <2>2. r.dest = d /\ r.kind # "verdict"
    BY <2>1, price \in {"new", "verdict"} \cup PriceDrop, RowForIsRow, ConstantsAssumption
  <2> QED
    BY <1>2, <2>1, <2>2 DEF RecordPriceDrop
<1>3. ASSUME NEW v \in Verdict, StoreEnrichment(i, v) PROVE Queued_
  <2>1. r \in FollowUps(i, v) /\ status[r] = "absent" /\ status'[r] = "pending"
    BY <1>3, StatusAfterInsert DEF StoreEnrichment
  <2>2. PICK d \in AlertedChats(i) : r = RowFor(i, d, "verdict")
    BY <2>1 DEF FollowUps
  <2>3. r.dest = d /\ r.item = i /\ destinations[d] = "active"
    BY <2>2, RowForIsRow DEF AlertedChats
  <2> QED
    BY <1>3, <2>1, <2>2, <2>3 DEF AlertedChats, StoreEnrichment
<1>4. CASE Prune(i)
  BY <1>4 DEF Prune, PruneItem, outbox
<1> QED
  BY <1>1, <1>2, <1>3, <1>4 DEF Alert, Enrich

\* Every change of a row's status, by who made it.
LEMMA StatusSteps ==
  ASSUME IInv, [Next]_vars, NEW r \in Row
  PROVE  StatusStep(r)
<1>0. status \in [Row -> Status]
  BY DEF IInv, TypeOK, TablesTypeOK
<1> USE <1>0
<1>1. CASE Recover
  BY <1>1, StatusOf DEF Recover, RecoverLeases, With, StatusStep
<1>2. CASE Expire
  BY <1>2, StatusOf DEF Expire, ExpireStaleNotifications, Expirable, MarkCancelled, With, StatusStep
<1>3. ASSUME NEW d \in Destination, DeleteBegins(d) PROVE StatusStep(r)
  <2>1. /\ request' = [request EXCEPT ![d] = "deleting"]
        /\ request \in [Destination -> {"none", "deleting", "pairing"}]
    BY <1>3 DEF DeleteBegins, Ask, IInv, TypeOK, WorldTypeOK
  <2> QED
    BY <1>3, <2>1, StatusOf DEF DeleteBegins, CancelQueued, MarkCancelled, With, RowsOf, StatusStep
<1>4. ASSUME NEW d \in Destination, DeleteEnds(d) PROVE StatusStep(r)
  BY <1>4 DEF DeleteEnds, DropDestination, StatusStep, IInv, TypeOK, TablesTypeOK
<1>5. ASSUME NEW d \in Destination, PairEnds(d) PROVE StatusStep(r)
  BY <1>5, StatusOf DEF PairEnds, DiscardPendingFor, MarkCancelled, With, StatusStep
<1>6. \/ UNCHANGED status \/ Recover \/ Expire
      \/ \E d \in Destination : \/ WorkerStep(d) \/ Raise(d)
                                \/ DeleteBegins(d) \/ DeleteEnds(d) \/ PairEnds(d)
      \/ \E i \in Item : Alert(i) \/ Enrich(i) \/ Prune(i)
  BY DEF Next, Drain, Others, Clock, QuietDestinations, RestartDeliveryClock, FindNoWork,
         FindWork, EndDrain, Enable, SetDestination, PairBegins, GateOpens, QuietBegins,
         QuietEnds, Due, BecomesDue, Stale, BecomesStale, Crash, Boot, tables, outbox, vars
<1> QED
  BY <1>1, <1>2, <1>3, <1>4, <1>5, <1>6, WorkerStatusStep, AlertStatusStep DEF StatusStep

-----------------------------------------------------------------------------
(* Each part of the inductive invariant is kept by every step. *)

\* WorkersInsideDrain is kept.
LEMMA InsideNext == IInv /\ [Next]_vars => WorkersInsideDrain'
<1> SUFFICES ASSUME IInv, [Next]_vars PROVE WorkersInsideDrain'
  OBVIOUS
<1> USE DEF WorkersInsideDrain
<1>0. WorkersInsideDrain /\ WorkersTypeOK
  BY DEF IInv, TypeOK
<1>1. ASSUME NEW d \in Destination, WorkerStep(d) \/ Raise(d) PROVE WorkersInsideDrain'
  BY <1>0, <1>1, WorkerFrame
<1>2. CASE FindWork \/ Crash
  BY <1>2 DEF FindWork, Crash, GoTo
<1>3. CASE EndDrain
  BY <1>3 DEF EndDrain, workers
<1>4. CASE UNCHANGED <<workers, phase>>
  BY <1>0, <1>4 DEF workers
<1>5. CASE Recover \/ QuietDestinations \/ Expire \/ FindNoWork \/ Boot
  BY <1>0, <1>5 DEF Recover, QuietDestinations, Expire, FindNoWork, Boot, workers
<1> QED
  BY <1>1, <1>2, <1>3, <1>4, <1>5
  DEF Next, Drain, Others, Clock, Alert, Enrich, Prune, Enable, DeleteBegins, DeleteEnds,
      PairBegins, PairEnds, GateOpens, QuietBegins, QuietEnds, Due, Stale, memory, vars

\* The shape of one worker's locals.
Shape(d) ==
  /\ batch[d] \subseteq RowsOf(d)
  /\ delivered[d] \subseteq batch[d]
  /\ under[d] \subseteq RowsOf(d)
  /\ pc[d] \in {"idle", "serve", "claim"} => batch[d] = {}
  /\ pc[d] = "floor" => under[d] \subseteq batch[d] /\ delivered[d] = {}
  /\ pc[d] = "send" => under[d] \cap batch[d] = {}
  /\ pc[d] = "record" => outcome[d] # "none"
  /\ pc[d] = "record" /\ outcome[d] = "ok" => delivered[d] = batch[d]

\* A worker's own step keeps the shape of its locals.
LEMMA ShapeStep ==
  ASSUME WorkersTypeOK, NEW d \in Destination, Shape(d), WorkerStep(d) \/ Raise(d)
  PROVE  Shape(d)'
<1> USE DEF Shape, WorkersTypeOK
<1>0. RowsOf(d)' = RowsOf(d)
  BY DEF RowsOf
<1>1. CASE Return(d)
  BY <1>1, <1>0 DEF Return
<1>2. CASE Serve(d)
  BY <1>0, <1>1, <1>2 DEF Serve, Jump
<1>3. CASE Claim(d)
  BY <1>0, <1>3 DEF Claim, Claimable, ScoredOut, RowsOf
<1>4. CASE ApplyScoreFloor(d)
  BY <1>0, <1>1, <1>4 DEF ApplyScoreFloor
<1>5. CASE Post(d)
  <2>1. UNCHANGED <<batch, under>> /\ pc[d] = "send" /\ pc'[d] \in {"send", "record"}
    BY <1>5 DEF Post, Accepted, PhotoFallback, Transient, Rejected, Gone, Report
  <2>2. delivered'[d] \subseteq batch[d]
    <3>1. Message(d) \subseteq batch[d]
      BY DEF Message, Rest
    <3> QED
      BY <1>5, <3>1 DEF Post, Accepted, Transient, Rejected, Gone
  <2>3. pc'[d] = "record" => outcome'[d] # "none"
    BY <1>5 DEF Post, Accepted, PhotoFallback, Transient, Rejected, Gone, Report
  <2>4. pc'[d] = "record" /\ outcome'[d] = "ok" => delivered'[d] = batch[d]
    <3>1. SUFFICES ASSUME Accepted(d, Message(d)), pc'[d] = "record", outcome'[d] = "ok"
                   PROVE  Rest(d) \subseteq Message(d)
      BY <1>5, <2>2 DEF Post, Accepted, PhotoFallback, Transient, Rejected, Gone, Report, Rest
    <3> QED
      BY <2>1, <3>1 DEF Accepted
  <2> QED
    BY <1>0, <2>1, <2>2, <2>3, <2>4
<1>6. CASE Record(d)
  BY <1>0, <1>1, <1>6 DEF Record, Dispose, Jump
<1>7. CASE Retry(d)
  BY <1>0, <1>1, <1>7 DEF Retry, GiveUp, Rest
<1>8. CASE Deactivate(d)
  BY <1>0, <1>8 DEF Deactivate, Jump
<1> QED
  BY <1>1, <1>2, <1>3, <1>4, <1>5, <1>6, <1>7, <1>8
  DEF WorkerStep, ClaimNothing, Fail, Purge, Raise

\* WorkerShape is kept.
LEMMA ShapeNext == IInv /\ [Next]_vars => WorkerShape'
<1> SUFFICES ASSUME IInv, [Next]_vars, NEW d \in Destination PROVE Shape(d)'
  BY DEF WorkerShape, Shape
<1>0. Shape(d) /\ WorkersTypeOK /\ WorkersInsideDrain
  BY DEF IInv, TypeOK, WorkerShape, Shape
<1>1. RowsOf(d)' = RowsOf(d)
  BY DEF RowsOf
<1>2. CASE UNCHANGED workers
  BY <1>0, <1>1, <1>2 DEF workers, Shape
<1>3. CASE FindWork
  <2>1. batch'[d] = {} /\ delivered'[d] = {} /\ under'[d] \subseteq RowsOf(d)
        /\ pc'[d] \in {"idle", "serve"}
    BY <1>0, <1>3 DEF FindWork, GoTo, WorkersInsideDrain, Shape
  <2> QED
    BY <1>1, <2>1 DEF Shape
<1>4. CASE Crash
  BY <1>1, <1>4 DEF Crash, Shape
<1>5. ASSUME NEW e \in Destination, WorkerStep(e) \/ Raise(e) PROVE Shape(d)'
  <2>1. CASE e = d
    BY <1>0, <1>5, <2>1, ShapeStep
  <2>2. CASE e # d
    BY <1>0, <1>1, <1>5, <2>2, WorkerFrame DEF Shape
  <2> QED
    BY <2>1, <2>2
<1> QED
  BY <1>2, <1>3, <1>4, <1>5, WhoMovesWorkers

\* Who changes the state of a destination.
LEMMA DestinationSteps ==
  [Next]_vars => \/ UNCHANGED destinations
                 \/ \E d \in Destination : Deactivate(d) \/ Enable(d) \/ DeleteEnds(d)
<1> SUFFICES ASSUME [Next]_vars PROVE \/ UNCHANGED destinations
                 \/ \E d \in Destination : Deactivate(d) \/ Enable(d) \/ DeleteEnds(d)
  OBVIOUS
<1> USE DEF tables, SetStatus, MarkCancelled, MarkSent, MarkFailed
<1>1. CASE Drain
  BY <1>1 DEF Drain, Recover, RecoverLeases, QuietDestinations, RestartDeliveryClock, Expire,
     ExpireStaleNotifications, FindNoWork, FindWork, EndDrain
<1>2. ASSUME NEW d \in Destination, WorkerStep(d) \/ Raise(d), ~ Deactivate(d)
      PROVE  UNCHANGED destinations
  BY <1>2 DEF WorkerStep, Serve, Claim, ClaimBatch, ClaimNothing, ApplyScoreFloor, Post, Record,
     Retry, MarkRetry, Fail, Purge, CancelQueued, Raise
<1>3. CASE \E i \in Item : Alert(i) \/ Enrich(i) \/ Prune(i)
  BY <1>3 DEF Alert, RecordNewItem, RecordPriceDrop, Enrich, StoreEnrichment, Prune, PruneItem
<1>4. ASSUME NEW d \in Destination, DeleteBegins(d) \/ PairBegins(d) \/ PairEnds(d)
      PROVE  UNCHANGED destinations
  BY <1>4 DEF DeleteBegins, CancelQueued, PairBegins, PairEnds, DiscardPendingFor
<1>5. CASE Clock \/ Crash \/ Boot \/ UNCHANGED vars
  BY <1>5 DEF Clock, GateOpens, QuietBegins, QuietEnds, Due, BecomesDue, Stale, BecomesStale,
     Crash, Boot, vars
<1> QED
  BY <1>1, <1>2, <1>3, <1>4, <1>5 DEF Next, Others

\* DeletedRowsGone is kept.
LEMMA DeletedNext == IInv /\ [Next]_vars => DeletedRowsGone'
<1> SUFFICES ASSUME IInv, [Next]_vars, NEW r \in Row, status'[r] # "absent",
                    destinations'[r.dest] = "deleted"
             PROVE  FALSE
  BY DEF DeletedRowsGone, Present, With
<1>0. DeletedRowsGone /\ TablesTypeOK /\ StatusStep(r) /\ r.dest \in Destination
  BY StatusSteps, RowDest DEF IInv, TypeOK
<1>1. CASE destinations[r.dest] = "deleted"
  BY <1>0, <1>1 DEF DeletedRowsGone, Present, With, StatusStep
<1>2. CASE destinations[r.dest] # "deleted"
  <2>1. PICK d \in Destination : Deactivate(d) \/ Enable(d) \/ DeleteEnds(d)
    BY <1>2, DestinationSteps
  <2>2. DeleteEnds(d) /\ r.dest = d
    BY <1>0, <1>2, <2>1 DEF Deactivate, Enable, DeleteEnds, SetDestination, DropDestination,
       TablesTypeOK
  <2> QED
    BY <2>2 DEF DeleteEnds, DropDestination
<1> QED
  BY <1>1, <1>2

\* Once deleted, a destination stays deleted.
LEMMA DeletedForGood ==
  ASSUME TablesTypeOK, [Next]_vars, NEW d \in Destination, destinations[d] = "deleted"
  PROVE  destinations'[d] = "deleted"
BY DestinationSteps
   DEF Deactivate, Enable, DeleteEnds, SetDestination, DropDestination, TablesTypeOK

\* Nothing but Recover leads from a start to serving, or forgets what was stranded.
LEMMA PhaseSteps ==
  ASSUME IInv, [Next]_vars
  PROVE  /\ phase \in {"down", "recover"} => Recover \/ phase' \in {"down", "recover"}
         /\ Recover \/ stranded \subseteq stranded'
<1> USE DEF memory, history
<1>0. WorkersInsideDrain /\ WorkersTypeOK
  BY DEF IInv, TypeOK
<1>1. CASE \E d \in Destination : WorkerStep(d) \/ Raise(d)
  <2>1. PICK d \in Destination : WorkerStep(d) \/ Raise(d)
    BY <1>1
  <2>2. phase = "serving"
    BY <1>0, <2>1, WorkerFrame DEF WorkersInsideDrain
  <2>3. stranded \subseteq stranded'
    BY <2>1 DEF WorkerStep, Serve, Claim, ClaimNothing, ApplyScoreFloor, Post, Record, Retry,
       Fail, Deactivate, Purge, Raise
  <2> QED
    BY <2>2, <2>3
<1>2. CASE Drain
  BY <1>2 DEF Drain, QuietDestinations, Expire, FindNoWork, FindWork, EndDrain
<1>3. CASE Others
  BY <1>3 DEF Others, Alert, Enrich, Prune, Enable, DeleteBegins, DeleteEnds, PairBegins, PairEnds
<1>4. CASE Clock \/ Crash \/ Boot \/ UNCHANGED vars
  BY <1>4 DEF Clock, GateOpens, QuietBegins, QuietEnds, Due, Stale, Crash, Boot, GoTo, vars
<1> QED
  BY <1>1, <1>2, <1>3, <1>4 DEF Next

\* Leases is kept.
LEMMA LeasesNext == IInv /\ [Next]_vars => Leases'
<1> SUFFICES ASSUME IInv, [Next]_vars, phase' \notin {"down", "recover"},
                    NEW r \in Row, status'[r] = "sending", r \notin stranded'
             PROVE  /\ r \in batch'[r.dest]
                    /\ pc'[r.dest] \in Serving
                    /\ pc'[r.dest] \in {"retry", "fail", "deactivate", "purge"}
                         => r \notin delivered'[r.dest]
  BY DEF Leases, With, Serving
<1> DEFINE d == r.dest
<1>0. /\ WorkersTypeOK /\ WorkersInsideDrain /\ Shape(d) /\ Leases
      /\ StatusStep(r) /\ d \in Destination /\ r \in RowsOf(d)
  BY StatusSteps, RowDest DEF IInv, TypeOK, WorkerShape, Shape, RowsOf
<1> HIDE DEF d
<1>1. CASE status[r] # "sending"
  <2>1. Claim(d) /\ r \in batch'[d]
    BY <1>0, <1>1 DEF StatusStep, WorkerWrites, d
  <2>2. pc'[d] \in {"send", "floor"}
    BY <1>0, <2>1 DEF Claim, WorkersTypeOK
  <2> QED
    BY <2>1, <2>2 DEF Serving, d
<1>2. CASE status[r] = "sending"
  <2>1. ~ Recover
    BY <1>0, <1>2, StatusOf DEF Recover, RecoverLeases, With
  <2>2. /\ r \in batch[d] /\ pc[d] \in Serving
        /\ pc[d] \in {"retry", "fail", "deactivate", "purge"} => r \notin delivered[d]
    BY <1>0, <1>2, <2>1, PhaseSteps DEF Leases, With, d
  <2> DEFINE Held_ == /\ r \in batch'[d] /\ pc'[d] \in Serving
                      /\ pc'[d] \in {"retry", "fail", "deactivate", "purge"} =>
                           r \notin delivered'[d]
  <2>3. CASE UNCHANGED workers
    BY <2>2, <2>3 DEF workers, d
  <2>4. CASE FindWork \/ Crash
    BY <1>0, <2>2, <2>4 DEF FindWork, Crash, WorkersInsideDrain, Serving
  <2>5. ASSUME NEW e \in Destination, WorkerStep(e) \/ Raise(e), e # d PROVE Held_
    BY <1>0, <2>2, <2>5, WorkerFrame
  <2>6. ASSUME WorkerStep(d) \/ Raise(d) PROVE Held_
    <3> USE <1>0, <1>2, <2>2 DEF Serving, WorkersTypeOK
    <3>1. CASE ApplyScoreFloor(d)
      <4>1. r \notin under[d]
        BY <3>1, StatusOf DEF ApplyScoreFloor, MarkCancelled
      <4> QED
        BY <3>1, <4>1 DEF ApplyScoreFloor
    <3>2. CASE Post(d)
      BY <3>2 DEF Post, Accepted, PhotoFallback, Transient, Rejected, Gone, Report
    <3>3. CASE Record(d)
      <4>1. r \notin delivered[d]
        BY <3>3, StatusOf DEF Record, MarkSent
      <4> QED
        BY <3>3, <4>1 DEF Record, Dispose, Jump, Shape
    <3>4. CASE Retry(d)
      <4> DEFINE over_budget == {s \in Rest(d) : attempts[s] + 1 >= MAX_ATTEMPTS}
      <4>1. r \in over_budget
        BY <3>4, StatusOf DEF Retry, MarkRetry, Rest
      <4> QED
        BY <3>4, <4>1 DEF Retry, GiveUp
    <3>5. CASE Fail(d)
      BY <3>5, StatusOf DEF Fail, MarkFailed, Rest
    <3>6. CASE Deactivate(d)
      BY <3>6 DEF Deactivate, Jump
    <3>7. CASE Purge(d)
      BY <3>7, StatusOf DEF Purge, CancelQueued, MarkCancelled, With
    <3>8. CASE Raise(d)
      BY <3>8 DEF Raise
    <3> QED
      BY <2>6, <3>1, <3>2, <3>3, <3>4, <3>5, <3>6, <3>7, <3>8
      DEF WorkerStep, Serve, Claim, ClaimNothing
  <2> QED
    BY <2>3, <2>4, <2>5, <2>6, WhoMovesWorkers DEF d
<1> QED
  BY <1>1, <1>2

\* Short of a crash, a deletion under way ends in a deleted destination.
LEMMA RequestSteps ==
  ASSUME TypeOK, [Next]_vars, ~ Crash, NEW d \in Destination, request[d] = "deleting"
  PROVE  request'[d] = "deleting" \/ destinations'[d] = "deleted"
<1>0. request \in [Destination -> {"none", "deleting", "pairing"}] /\ TablesTypeOK
  BY DEF TypeOK, WorldTypeOK
<1>1. ASSUME NEW e \in Destination, DeleteEnds(e)
      PROVE  request'[d] = "deleting" \/ destinations'[d] = "deleted"
  BY <1>0, <1>1 DEF DeleteEnds, Ask, DropDestination, TablesTypeOK
<1>2. ASSUME NEW e \in Destination, DeleteBegins(e) \/ PairBegins(e) \/ PairEnds(e)
      PROVE  request'[d] = "deleting"
  BY <1>0, <1>2 DEF DeleteBegins, PairBegins, PairEnds, Ask
<1>3. \/ UNCHANGED request
      \/ \E e \in Destination : DeleteBegins(e) \/ DeleteEnds(e) \/ PairBegins(e) \/ PairEnds(e)
  BY DEF Next, Drain, Recover, QuietDestinations, Expire, FindNoWork, FindWork, EndDrain,
     WorkerStep, Serve, Claim, ClaimNothing, ApplyScoreFloor, Post, Record, Retry, Fail,
     Deactivate, Purge, Raise, Others, Alert, Enrich, Prune, Enable, Clock, GateOpens,
     QuietBegins, QuietEnds, Due, Stale, Boot, world, vars
<1> QED
  BY <1>1, <1>2, <1>3

\* Only a message to the far end makes copies, and what went unrecorded stays so.
LEMMA CopiesSteps ==
  [Next]_vars => /\ unrecorded \subseteq unrecorded'
                 /\ UNCHANGED copies \/ \E d \in Destination : Post(d)
BY DEF Next, Drain, Recover, QuietDestinations, Expire, FindNoWork, FindWork, EndDrain,
   WorkerStep, Serve, Claim, ClaimNothing, ApplyScoreFloor, Post, Accepted, PhotoFallback,
   Transient, Rejected, Gone, Record, Retry, Fail, Deactivate, Purge, Raise, Others, Alert, Enrich, Prune, Enable,
   DeleteBegins, DeleteEnds, PairBegins, PairEnds, Clock, GateOpens, QuietBegins, QuietEnds,
   Due, Stale, Crash, Boot, history, vars

\* What one message to the far end changes.
LEMMA PostEffect ==
  ASSUME TypeOK, NEW d \in Destination, Shape(d), Post(d), NEW r \in Row
  PROVE  /\ pc[d] = "send" /\ pc'[d] \in {"send", "record"}
         /\ batch'[d] = batch[d] /\ delivered[d] \subseteq delivered'[d]
         /\ status' = status
         /\ copies'[r] >= copies[r]
         /\ r \in delivered'[d] => r \in delivered[d] \/ copies'[r] >= 1
         /\ copies'[r] # copies[r] => r \in Rest(d)
         /\ copies'[r] # copies[r] => r \in delivered'[d] \/ r \in unrecorded'
         /\ copies'[r] = 2 => copies[r] >= 1 \/ r \in unrecorded'
<1> DEFINE m == Message(d)
<1>0. /\ copies \in [Row -> 0 .. 2] /\ copies[r] \in 0 .. 2 /\ WorkersTypeOK /\ m \subseteq Rest(d)
      /\ pc[d] = "send" /\ status' = status
  BY DEF TypeOK, HistoryTypeOK, Message, Post, tables, outbox
<1>1. Accepted(d, m) \/ Transient(d, m) \/ Rejected(d) \/ Gone(d)
  BY DEF Post
<1> HIDE DEF m
<1>2. pc'[d] \in {"send", "record"} /\ batch'[d] = batch[d] /\ delivered[d] \subseteq delivered'[d]
  BY <1>0, <1>1 DEF WorkersTypeOK, Accepted, PhotoFallback, Transient, Rejected, Gone, Report
<1>3. /\ Taken(m)[r] >= copies[r] /\ Taken(m)[r] \in 0 .. 2
      /\ r \in m => Taken(m)[r] >= 1
      /\ r \notin m => Taken(m)[r] = copies[r]
      /\ Taken(m)[r] = 2 => copies[r] >= 1
  BY <1>0 DEF Taken
<1>4. /\ TakenTwice(m)[r] >= copies[r]
      /\ r \in m => TakenTwice(m)[r] = 2
      /\ r \notin m => TakenTwice(m)[r] = copies[r]
  BY <1>0 DEF TakenTwice
<1>5. CASE Accepted(d, m)
  <2>1. delivered'[d] = delivered[d] \cup m
    BY <1>0, <1>5 DEF Accepted, WorkersTypeOK
  <2>2. CASE copies' = Taken(m)
    BY <1>0, <1>2, <1>3, <2>1, <2>2
  <2>3. CASE copies' = TakenTwice(m) /\ unrecorded' = unrecorded \cup m
    BY <1>0, <1>2, <1>4, <2>1, <2>3
  <2> QED
    BY <1>5, <2>2, <2>3 DEF Accepted, PhotoFallback
<1>6. CASE Transient(d, m)
  <2>1. delivered' = delivered
    BY <1>6 DEF Transient
  <2>2. CASE UNCHANGED copies
    BY <1>0, <1>2, <2>1, <2>2
  <2>3. CASE (copies' = Taken(m) \/ PhotoFallback(d, m)) /\ unrecorded' = unrecorded \cup m
    BY <1>0, <1>2, <1>3, <1>4, <2>1, <2>3 DEF PhotoFallback
  <2> QED
    BY <1>6, <2>2, <2>3 DEF Transient
<1>7. CASE Rejected(d) \/ Gone(d)
  BY <1>0, <1>2, <1>7 DEF Rejected, Gone
<1> QED
  BY <1>1, <1>5, <1>6, <1>7

\* Copies are never taken back.
LEMMA CopiesGrow ==
  ASSUME IInv, [Next]_vars, NEW r \in Row
  PROVE  /\ copies[r] \in 0 .. 2 /\ copies'[r] \in 0 .. 2 /\ copies'[r] >= copies[r]
         /\ copies'[r] # copies[r] => Post(r.dest) /\ r \in Rest(r.dest)
<1>0. TypeOK /\ HistoryTypeOK /\ HistoryTypeOK'
  BY WorldTypeNext DEF IInv, TypeOK
<1>1. ASSUME NEW d \in Destination, Post(d), copies'[r] # copies[r]
      PROVE  copies'[r] >= copies[r] /\ r \in Rest(d) /\ r.dest = d
  <2>1. Shape(d)
    BY DEF IInv, WorkerShape, Shape
  <2> QED
    BY <1>0, <1>1, <2>1, PostEffect DEF Shape, Rest, RowsOf
<1> QED
  BY <1>0, <1>1, CopiesSteps DEF HistoryTypeOK

\* A row leaves "sent" only with its destination.
LEMMA SentStays ==
  ASSUME IInv, [Next]_vars, NEW r \in Row, status[r] = "sent"
  PROVE  status'[r] = "sent" \/ destinations'[r.dest] = "deleted"
<1>0. StatusStep(r) /\ r.dest \in Destination
  BY StatusSteps, RowDest
<1>1. ~ (ApplyScoreFloor(r.dest) /\ r \in under[r.dest])
  BY <1>0 DEF ApplyScoreFloor, IInv, HeldRows, Holds, WorkerShape
<1>2. ~ ((Retry(r.dest) \/ Fail(r.dest)) /\ r \in Rest(r.dest))
  BY <1>0 DEF Retry, Fail, IInv, HeldRows, Holds
<1> QED
  BY <1>0, <1>1, <1>2 DEF StatusStep, WorkerWrites

\* HeldRows is kept.
LEMMA HeldNext == IInv /\ [Next]_vars => HeldRows'
<1> SUFFICES ASSUME IInv, [Next]_vars PROVE HeldRows'
  OBVIOUS
<1>a. \A d \in Destination : Holds(d)' \subseteq Row
  BY WorkersTypeNext DEF IInv, WorkersTypeOK, Holds, Rest
<1> SUFFICES ASSUME NEW d \in Destination, NEW r \in Row, r \in Holds(d)'
             PROVE  /\ status'[r] # "sent"
                    /\ \/ status'[r] = "sending"
                       \/ request'[d] = "deleting" \/ destinations'[d] = "deleted"
                    /\ status'[r] = "absent" => destinations'[d] = "deleted"
                    /\ r \in Rest(d)' => copies'[r] = 0 \/ r \in unrecorded'
  BY <1>a DEF HeldRows
<1> DEFINE Good == /\ status[r] # "sent"
                   /\ \/ status[r] = "sending"
                      \/ request[d] = "deleting" \/ destinations[d] = "deleted"
                   /\ status[r] = "absent" => destinations[d] = "deleted"
           Fresh == copies[r] = 0 \/ r \in unrecorded
<1>0. /\ TypeOK /\ TablesTypeOK /\ WorkersTypeOK /\ WorkersInsideDrain /\ Shape(d)
      /\ StatusStep(r) /\ r.dest \in Destination
      /\ r \in Holds(d) => Good /\ (r \in Rest(d) => Fresh)
  BY StatusSteps, RowDest DEF IInv, TypeOK, WorkerShape, Shape, HeldRows
<1>1. ~ Crash
  BY DEF Crash, Holds
<1>2. destinations[d] = "deleted" => destinations'[d] = "deleted"
  BY <1>0, DeletedForGood
<1>3. request[d] = "deleting" => request'[d] = "deleting" \/ destinations'[d] = "deleted"
  BY <1>0, <1>1, RequestSteps
<1>4. r.dest = d /\ Fresh /\ ~ Post(d) => Fresh'
  BY CopiesGrow, CopiesSteps
<1>5. CASE ~ (WorkerStep(d) \/ Raise(d))
  <2>1. ~ FindWork
    BY <1>0 DEF FindWork, Holds
  <2>2. pc'[d] = pc[d] /\ batch'[d] = batch[d] /\ delivered'[d] = delivered[d]
    BY <1>0, <1>1, <1>5, <2>1, WhoMovesWorkers, WorkerFrame DEF workers
  <2>3. r \in Holds(d) /\ (r \in Rest(d)' => r \in Rest(d)) /\ r.dest = d /\ pc[d] # "idle"
    BY <1>0, <2>2 DEF Holds, Rest, Shape, RowsOf
  <2>4. ~ WorkerWrites(d, r) /\ phase = "serving"
    BY <1>0, <1>5, <2>3 DEF WorkerWrites, WorkerStep, WorkersInsideDrain
  <2>5. Good'
    BY <1>0, <1>2, <1>3, <2>3, <2>4 DEF StatusStep
  <2> QED
    BY <1>0, <1>4, <1>5, <2>3, <2>5 DEF WorkerStep
<1>6. CASE Claim(d)
  <2>1. r \in batch'[d] /\ pc[d] = "claim"
    BY <1>0, <1>6 DEF Claim, Holds, WorkersTypeOK
  <2>2. /\ r.dest = d /\ status[r] = "pending" /\ status'[r] = "sending"
    <3>1. PICK B \in SUBSET Claimable(d) : ClaimBatch(B) /\ batch' = [batch EXCEPT ![d] = B]
      BY <1>6 DEF Claim
    <3> QED
      BY <1>0, <2>1, <3>1, StatusOf DEF ClaimBatch, Claimable, RowsOf, WorkersTypeOK
  <2>3. copies[r] \in 0 .. 2 /\ copies'[r] = copies[r]
    BY <1>6, <2>1, <2>2, CopiesGrow DEF Post
  <2>4. Fresh
    BY <2>1, <2>2, <2>3 DEF IInv, CopiesKnown, DeletedRowsGone, Present, With
  <2> QED
    BY <1>4, <2>2, <2>3, <2>4, CopiesSteps
<1>7. CASE ApplyScoreFloor(d)
  <2>1. pc'[d] = "send" /\ r \in batch[d] \ under[d] /\ delivered' = delivered /\ r.dest = d
    BY <1>0, <1>7 DEF ApplyScoreFloor, Return, Holds, WorkersTypeOK, Shape, RowsOf
  <2>2. status'[r] = status[r] /\ r \in Holds(d) /\ r \in Rest(d) /\ ~ Post(d)
    BY <1>0, <1>7, <2>1, StatusOf DEF ApplyScoreFloor, MarkCancelled, Holds, Rest, Shape, Post
  <2> QED
    BY <1>0, <1>2, <1>3, <1>4, <2>1, <2>2
<1>8. CASE Post(d)
  <2>1. /\ r \in Holds(d) /\ status'[r] = status[r] /\ (r \in Rest(d)' => r \in Rest(d))
        /\ copies'[r] # copies[r] => r \in delivered'[d] \/ r \in unrecorded'
    BY <1>0, <1>8, PostEffect DEF Holds, Rest
  <2>2. unrecorded \subseteq unrecorded'
    BY CopiesSteps
  <2> QED
    BY <1>0, <1>2, <1>3, <2>1, <2>2 DEF Rest
<1>9. CASE Record(d)
  <2>1. /\ pc'[d] \in {"retry", "fail"} /\ r \in Rest(d) /\ pc[d] = "record" /\ r.dest = d
    BY <1>0, <1>9 DEF Record, Dispose, Return, Jump, Holds, Rest, WorkersTypeOK, Shape, RowsOf
  <2>2. status'[r] = status[r] /\ r \in Holds(d) /\ ~ Post(d)
    BY <1>9, <2>1, StatusOf DEF Record, MarkSent, Holds, Rest, Post
  <2> QED
    BY <1>0, <1>2, <1>3, <1>4, <2>1, <2>2
<1>10. CASE Retry(d)
  <2> DEFINE over_budget == {s \in Rest(d) : attempts[s] + 1 >= MAX_ATTEMPTS}
  <2>1. r \in over_budget /\ r.dest = d /\ pc[d] = "retry"
    BY <1>0, <1>10 DEF Retry, GiveUp, Return, Holds, Rest, WorkersTypeOK, Shape, RowsOf
  <2>2. status'[r] = status[r] /\ r \in Holds(d) /\ r \in Rest(d) /\ ~ Post(d)
    BY <1>10, <2>1, StatusOf DEF Retry, MarkRetry, Holds, Post
  <2> QED
    BY <1>0, <1>2, <1>3, <1>4, <2>1, <2>2
<1>11. CASE Serve(d) \/ ClaimNothing(d) \/ Fail(d) \/ Deactivate(d) \/ Purge(d) \/ Raise(d)
  BY <1>0, <1>11
     DEF Serve, ClaimNothing, Fail, Deactivate, Purge, Raise, Return, Jump, Holds, WorkersTypeOK
<1> QED
  BY <1>5, <1>6, <1>7, <1>8, <1>9, <1>10, <1>11 DEF WorkerStep

\* CopiesKnown is kept.
LEMMA CopiesNext == IInv /\ [Next]_vars => CopiesKnown'
<1> SUFFICES ASSUME IInv, [Next]_vars, NEW r \in Row, copies'[r] >= 1, r \notin unrecorded'
             PROVE  \/ status'[r] = "sent"
                    \/ destinations'[r.dest] = "deleted"
                    \/ r \in delivered'[r.dest] /\ pc'[r.dest] \in {"send", "record"}
  BY DEF CopiesKnown
<1> DEFINE d == r.dest
           Known == \/ status'[r] = "sent" \/ destinations'[d] = "deleted"
                    \/ r \in delivered'[d] /\ pc'[d] \in {"send", "record"}
<1>0. /\ d \in Destination /\ Shape(d) /\ TypeOK /\ WorkersTypeOK /\ TablesTypeOK
      /\ WorkersInsideDrain /\ r \notin unrecorded
      /\ copies[r] \in 0 .. 2 /\ copies'[r] \in 0 .. 2
  BY RowDest, CopiesSteps, CopiesGrow DEF IInv, TypeOK, WorkerShape, Shape
<1> SUFFICES Known
  OBVIOUS
<1>1. CASE copies'[r] # copies[r]
  BY <1>0, <1>1, CopiesGrow, PostEffect
<1>2. CASE copies'[r] = copies[r]
  <2>1. \/ status[r] = "sent" \/ destinations[d] = "deleted"
        \/ r \in delivered[d] /\ pc[d] \in {"send", "record"}
    BY <1>0, <1>2 DEF IInv, CopiesKnown
  <2>2. CASE status[r] = "sent" \/ destinations[d] = "deleted"
    BY <1>0, <2>2, SentStays, DeletedForGood
  <2>3. CASE r \in delivered[d] /\ pc[d] \in {"send", "record"}
    <3> HIDE DEF d
    <3>1. ~ FindWork
      BY <1>0, <2>3 DEF FindWork, WorkersInsideDrain
    <3>2. ~ Crash /\ ~ Raise(d)
      BY <1>0, <2>3 DEF Crash, Raise
    <3>3. CASE UNCHANGED workers
      BY <2>3, <3>3 DEF workers
    <3>4. ASSUME NEW e \in Destination, WorkerStep(e) \/ Raise(e), e # d PROVE Known
      BY <1>0, <2>3, <3>4, WorkerFrame
    <3>5. CASE Post(d)
      BY <1>0, <2>3, <3>5, PostEffect
    <3>6. CASE Record(d)
      <4>1. status[r] = "absent" => destinations[d] = "deleted"
        BY <1>0, <2>3 DEF IInv, HeldRows, Holds, Shape
      <4> QED
        BY <1>0, <2>3, <3>6, <4>1, StatusOf, DeletedForGood DEF Record, MarkSent
    <3>7. ASSUME WorkerStep(d) PROVE Post(d) \/ Record(d)
      BY <2>3, <3>7 DEF WorkerStep, Serve, Claim, ClaimNothing, ApplyScoreFloor, Retry, Fail,
         Deactivate, Purge
    <3> QED
      BY <3>1, <3>2, <3>3, <3>4, <3>5, <3>6, <3>7, WhoMovesWorkers
  <2> QED
    BY <2>1, <2>2, <2>3
<1> QED
  BY <1>1, <1>2

\* DeliveredWasAccepted is kept.
LEMMA DeliveredNext == IInv /\ [Next]_vars => DeliveredWasAccepted'
<1> SUFFICES ASSUME IInv, [Next]_vars, NEW d \in Destination, NEW r \in Row, r \in delivered'[d]
             PROVE  copies'[r] >= 1
  BY WorkersTypeNext DEF DeliveredWasAccepted, WorkersTypeOK, IInv
<1>0. /\ TypeOK /\ WorkersTypeOK /\ Shape(d) /\ (r \in delivered[d] => copies[r] >= 1)
      /\ copies[r] \in 0 .. 2 /\ copies'[r] \in 0 .. 2 /\ copies'[r] >= copies[r]
  BY CopiesGrow DEF IInv, TypeOK, WorkerShape, Shape, DeliveredWasAccepted
<1>1. CASE Post(d)
  BY <1>0, <1>1, PostEffect
<1>2. CASE ~ Post(d)
  <2>1. ASSUME NEW e \in Destination, WorkerStep(e) \/ Raise(e) PROVE r \in delivered[d]
    <3>1. CASE e # d
      BY <1>0, <2>1, <3>1, WorkerFrame
    <3>2. CASE e = d
      BY <1>0, <1>2, <2>1, <3>2 DEF WorkerStep, Serve, Claim, ClaimNothing, ApplyScoreFloor,
         Record, Dispose, Retry, GiveUp, Fail, Deactivate, Purge, Raise, Return, Jump, WorkersTypeOK
    <3> QED
      BY <3>1, <3>2
  <2>2. r \in delivered[d]
    BY <2>1, WhoMovesWorkers DEF workers, FindWork, Crash
  <2> QED
    BY <1>0, <2>2
<1> QED
  BY <1>1, <1>2

\* SentWasAccepted is kept.
LEMMA SentNext == IInv /\ [Next]_vars => SentWasAccepted'
<1> SUFFICES ASSUME IInv, [Next]_vars, NEW r \in Row, status'[r] = "sent" PROVE copies'[r] >= 1
  BY DEF SentWasAccepted, With
<1>0. /\ StatusStep(r) /\ r.dest \in Destination
      /\ status[r] = "sent" => copies[r] >= 1
      /\ \A d \in Destination : r \in delivered[d] => copies[r] >= 1
      /\ copies[r] \in 0 .. 2 /\ copies'[r] \in 0 .. 2 /\ copies'[r] >= copies[r]
  BY StatusSteps, RowDest, CopiesGrow DEF IInv, SentWasAccepted, With, DeliveredWasAccepted
<1> QED
  BY <1>0 DEF StatusStep, WorkerWrites

\* DuplicatesExplained is kept.
LEMMA DuplicatesNext == IInv /\ [Next]_vars => DuplicatesExplained'
<1> SUFFICES ASSUME IInv, [Next]_vars, NEW r \in Row, copies'[r] = 2 PROVE r \in unrecorded'
  BY DEF DuplicatesExplained
<1> DEFINE d == r.dest
<1>0. d \in Destination /\ Shape(d) /\ TypeOK /\ unrecorded \subseteq unrecorded'
  BY RowDest, CopiesSteps DEF IInv, WorkerShape, Shape
<1> HIDE DEF d
<1>1. CASE copies[r] = 2
  BY <1>0, <1>1 DEF IInv, DuplicatesExplained
<1>2. CASE copies[r] # 2
  <2>1. Post(d) /\ r \in Rest(d)
    BY <1>2, CopiesGrow DEF d
  <2>2. copies[r] >= 1 \/ r \in unrecorded'
    BY <1>0, <2>1, PostEffect
  <2>3. r \in Holds(d)
    BY <2>1 DEF Post, Holds, Rest
  <2>4. copies[r] = 0 \/ r \in unrecorded
    BY <1>0, <2>1, <2>3 DEF IInv, HeldRows
  <2> QED
    BY <1>0, <2>2, <2>4
<1> QED
  BY <1>1, <1>2

\* AttemptsWithinBudget is kept.
LEMMA AttemptsNext == IInv /\ [Next]_vars => AttemptsWithinBudget'
<1> SUFFICES ASSUME IInv, [Next]_vars, NEW r \in Row PROVE attempts'[r] < MAX_ATTEMPTS
  BY DEF AttemptsWithinBudget
<1> USE DispatcherAssumption
<1>0. TablesTypeOK /\ attempts[r] < MAX_ATTEMPTS /\ attempts[r] \in Nat
  BY DEF IInv, TypeOK, TablesTypeOK, AttemptsWithinBudget
<1>1. ASSUME NEW d \in Destination, Retry(d) PROVE attempts'[r] < MAX_ATTEMPTS
  BY <1>0, <1>1 DEF Retry, MarkRetry
<1>2. ASSUME NEW R, NEW ready, NEW released, Insert(R, ready, released)
      PROVE  attempts'[r] < MAX_ATTEMPTS
  BY <1>0, <1>2 DEF Insert
<1>3. ASSUME NEW i \in Item, Alert(i) \/ Enrich(i) PROVE attempts'[r] < MAX_ATTEMPTS
  BY <1>2, <1>3 DEF Alert, RecordNewItem, RecordPriceDrop, Enrich, StoreEnrichment
<1>4. \/ UNCHANGED attempts \/ \E i \in Item : Alert(i) \/ Enrich(i)
      \/ \E d \in Destination : Retry(d)
  BY DEF Next, Drain, Recover, RecoverLeases, QuietDestinations, RestartDeliveryClock, Expire,
     ExpireStaleNotifications, MarkCancelled, MarkSent, MarkFailed, FindNoWork, FindWork, EndDrain,
     WorkerStep, Serve, Claim, ClaimBatch, ClaimNothing, ApplyScoreFloor, Post, Record, Fail,
     Deactivate, SetDestination, Purge, CancelQueued, Raise, Others, Prune, PruneItem, Enable,
     DeleteBegins, DeleteEnds, DropDestination, PairBegins, PairEnds, DiscardPendingFor, Clock,
     GateOpens, QuietBegins, QuietEnds, Due, BecomesDue, Stale, BecomesStale, Crash, Boot,
     tables, outbox, vars
<1> QED
  BY <1>0, <1>1, <1>3, <1>4

\* FollowUpAfterAlert is kept.
LEMMA FollowUpNext == IInv /\ [Next]_vars => FollowUpAfterAlert'
<1> SUFFICES ASSUME IInv, [Next]_vars, NEW r \in Row, status'[r] # "absent", r.kind = "verdict"
             PROVE  status'[RowFor(r.item, r.dest, "new")] = "sent"
  BY DEF FollowUpAfterAlert, Present, With
<1> DEFINE n == RowFor(r.item, r.dest, "new")
<1>0. /\ n \in Row /\ n.dest = r.dest /\ StatusStep(r)
      /\ status[r] # "absent" => status[n] = "sent"
      /\ destinations'[r.dest] # "deleted"
  BY RowForIsRow, RowDest, StatusSteps, DeletedNext
  DEF IInv, FollowUpAfterAlert, Present, With, DeletedRowsGone
<1> HIDE DEF n
<1>1. status[n] = "sent"
  BY <1>0 DEF StatusStep, n
<1> QED
  BY <1>0, <1>1, SentStays DEF n

-----------------------------------------------------------------------------
(* The theorems. *)

\* The invariant holds of an empty database and a dispatcher about to start.
LEMMA InvInit == Init => IInv
<1> SUFFICES ASSUME Init PROVE IInv
  OBVIOUS
<1>1. TypeOK
  BY TypeInit
<1>2. /\ status = [r \in Row |-> "absent"] /\ copies = [r \in Row |-> 0]
      /\ attempts = [r \in Row |-> 0]
      /\ pc = [d \in Destination |-> "idle"]
      /\ batch = [d \in Destination |-> {}]
      /\ delivered = [d \in Destination |-> {}]
      /\ under = [d \in Destination |-> {}]
  BY DEF Init, TablesInit
<1>3. WorkersInsideDrain /\ WorkerShape /\ HeldRows /\ DeliveredWasAccepted
  BY <1>2 DEF WorkersInsideDrain, WorkerShape, HeldRows, Holds, DeliveredWasAccepted
<1>4. /\ Leases /\ CopiesKnown /\ DeletedRowsGone /\ SentWasAccepted
      /\ DuplicatesExplained /\ FollowUpAfterAlert
  BY <1>2 DEF Leases, CopiesKnown, DeletedRowsGone, SentWasAccepted, DuplicatesExplained,
     FollowUpAfterAlert, Present, With
<1>5. AttemptsWithinBudget
  BY <1>2, DispatcherAssumption DEF AttemptsWithinBudget
<1> QED
  BY <1>1, <1>3, <1>4, <1>5 DEF IInv

\* The invariant is inductive.
LEMMA InvNext == IInv /\ [Next]_vars => IInv'
<1>1. IInv /\ [Next]_vars => TypeOK'
  BY TablesTypeNext, WorkersTypeNext, WorldTypeNext DEF IInv, TypeOK
<1> QED
  BY <1>1, InsideNext, ShapeNext, HeldNext, LeasesNext, CopiesNext, DeliveredNext, DeletedNext,
     SentNext, DuplicatesNext, AttemptsNext, FollowUpNext DEF IInv

\* The inductive invariant holds of every behaviour, for any number of listings,
\* destinations, batch sizes, tries, crashes and quiet windows.
THEOREM Invariance == Spec => []IInv
BY InvInit, InvNext, PTL DEF Spec

\* No worker that ends leaves a row in 'sending': only an exception out of a sender or a
\* crash can, whatever the mix of answers.
THEOREM LeasesAreHeld == Spec => []LeaseHeld
<1>1. IInv => LeaseHeld
  BY DEF IInv, Leases, LeaseHeld, With
<1> QED
  BY <1>1, Invariance, PTL

\* History never claims a delivery that did not happen.
THEOREM SentMeansAccepted == Spec => []SentWasAccepted
<1>1. IInv => SentWasAccepted
  BY DEF IInv
<1> QED
  BY <1>1, Invariance, PTL

\* A listing reaches a destination twice only when an accepted copy went unrecorded.
THEOREM DuplicatesHaveACause == Spec => []DuplicatesExplained
<1>1. IInv => DuplicatesExplained
  BY DEF IInv
<1> QED
  BY <1>1, Invariance, PTL

\* No row goes round more than MAX_ATTEMPTS times.
THEOREM BudgetIsKept == Spec => []AttemptsWithinBudget
<1>1. IInv => AttemptsWithinBudget
  BY DEF IInv
<1> QED
  BY <1>1, Invariance, PTL

\* A follow-up is only ever queued beside an alert that went out.
THEOREM FollowUpsFollow == Spec => []FollowUpAfterAlert
<1>1. IInv => FollowUpAfterAlert
  BY DEF IInv
<1> QED
  BY <1>1, Invariance, PTL

\* What a worker is about to send nobody has cancelled.
THEOREM CancelledIsNotSent == Spec => []NothingCancelledIsSent
<1>1. IInv => NothingCancelledIsSent
  <2> SUFFICES ASSUME IInv, NEW d \in Destination, pc[d] = "send", request[d] # "deleting",
                      destinations[d] # "deleted", NEW r \in Rest(d)
               PROVE  r \in With("sending")
    BY DEF NothingCancelledIsSent
  <2>1. r \in Holds(d) /\ r \in Row
    BY DEF Holds, Rest, IInv, TypeOK, WorkersTypeOK
  <2> QED
    BY <2>1 DEF IInv, HeldRows, With
<1> QED
  BY <1>1, Invariance, PTL

\* What was sent, given up or cancelled is never brought back or rewritten, except under
\* a worker whose destination is being deleted.
THEOREM SettledForGood == Spec => SettledStaysSettled
<1> DEFINE Kept == \A r \in Row :
      (/\ status[r] \in {"sent", "failed", "cancelled"}
       /\ status'[r] # "absent"
       /\ request[r.dest] # "deleting") => status'[r] = status[r]
<1>1. IInv /\ [Next]_vars => Kept
  <2> SUFFICES ASSUME IInv, [Next]_vars, NEW r \in Row,
                      status[r] \in {"sent", "failed", "cancelled"}, status'[r] # "absent",
                      request[r.dest] # "deleting"
               PROVE  status'[r] = status[r]
    OBVIOUS
  <2> DEFINE d == r.dest
  <2>0. StatusStep(r) /\ d \in Destination /\ destinations[d] # "deleted" /\ Shape(d)
    BY StatusSteps, RowDest DEF IInv, DeletedRowsGone, Present, With, WorkerShape, Shape
  <2>1. r \notin Holds(d)
    BY <2>0 DEF IInv, HeldRows
  <2> HIDE DEF d
  <2>2. ~ (ApplyScoreFloor(d) /\ r \in under[d]) /\ ~ (Record(d) /\ r \in delivered[d])
    BY <2>0, <2>1 DEF ApplyScoreFloor, Record, Holds, Shape
  <2>3. ~ ((Retry(d) \/ Fail(d)) /\ r \in Rest(d))
    BY <2>0, <2>1 DEF Retry, Fail, Holds
  <2> QED
    BY <2>0, <2>2, <2>3 DEF StatusStep, WorkerWrites, d
<1>2. IInv /\ [Next]_vars => [Kept]_vars
  BY <1>1
<1> QED
  BY <1>2, Invariance, PTL DEF Spec, SettledStaysSettled

\* A verdict under the floor at claim time keeps its alert inside the process.
THEOREM FloorIsHonoured == Spec => FloorHonoured
<1> DEFINE Kept == \A d \in Destination : \A r \in under[d] : copies'[r] = copies[r]
<1>1. IInv /\ [Next]_vars => Kept
  <2> SUFFICES ASSUME IInv, [Next]_vars, NEW d \in Destination, NEW r \in under[d],
                      copies'[r] # copies[r]
               PROVE  FALSE
    OBVIOUS
  <2>0. Shape(d) /\ r \in Row /\ r.dest = d
    BY DEF IInv, WorkerShape, Shape, RowsOf
  <2>1. Post(d) /\ r \in Rest(d)
    BY <2>0, CopiesGrow
  <2> QED
    BY <2>0, <2>1 DEF Post, Shape, Rest
<1>2. IInv /\ [Next]_vars => [Kept]_vars
  BY <1>1
<1> QED
  BY <1>2, Invariance, PTL DEF Spec, FloorHonoured
=============================================================================
