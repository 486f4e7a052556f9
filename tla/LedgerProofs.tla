---------------------------- MODULE LedgerProofs ----------------------------
(***************************************************************************)
(* Dispatcher implements AlertLedger: every step of delivery is a step of  *)
(* the ledger, or leaves it alone.                                         *)
(***************************************************************************)
EXTENDS DispatcherProofs

\* A step that moves the notes of R and leaves the rest of the ledger alone is a Turn.
LEMMA TurnFrom ==
  ASSUME NEW R, NEW next, UNCHANGED <<copies, unrecorded>>,
         \A r \in Row : NoteOf(r)' = IF r \in R THEN next ELSE NoteOf(r)
  PROVE  Ledger!Turn(R, next)
BY DEF Ledger!Turn

\* One that moves none leaves the ledger alone.
LEMMA StutterFrom ==
  ASSUME UNCHANGED <<copies, unrecorded>>, \A r \in Row : NoteOf(r)' = NoteOf(r)
  PROVE  UNCHANGED Ledger!ledger
BY DEF Ledger!ledger

\* A row whose status the table still owes an answer is queued.
LEMMA QueuedNotes ==
  ASSUME NEW r \in Row, ~ Withdrawn(r), status[r] \in {"pending", "sending"}
  PROVE  r \in Ledger!With({"queued"})
BY DEF NoteOf, Ledger!With

\* What an UPDATE of open rows means to the ledger.
LEMMA UpdateFrom ==
  ASSUME IInv, NEW R \in SUBSET Row, NEW s \in Status, SetStatus(R, s),
         UNCHANGED <<copies, unrecorded>>,
         \A r \in Row : Withdrawn(r)' <=> Withdrawn(r),
         \A r \in R : Withdrawn(r) \/ status[r] \in {"absent", "pending", "sending"},
         NEW Q, Q = {r \in R : ~ Withdrawn(r) /\ status[r] # "absent"}
  PROVE  /\ Q \in SUBSET Ledger!With({"queued"})
         /\ s \in {"failed", "cancelled"} => Ledger!Turn(Q, "dropped")
         /\ s = "sent" => Ledger!Turn(Q, "sent")
         /\ s \in {"pending", "sending"} => UNCHANGED Ledger!ledger
<1>0. \A r \in Row : status'[r] = IF r \in R /\ status[r] # "absent" THEN s ELSE status[r]
  BY StatusOf
<1>1. Q \in SUBSET Ledger!With({"queued"})
  BY QueuedNotes
<1>2. CASE s \in {"failed", "cancelled"}
  <2>1. \A r \in Row : NoteOf(r)' = IF r \in Q THEN "dropped" ELSE NoteOf(r)
    BY <1>0, <1>2 DEF NoteOf
  <2> QED
    BY <1>1, <1>2, <2>1, TurnFrom
<1>3. CASE s = "sent"
  <2>1. \A r \in Row : NoteOf(r)' = IF r \in Q THEN "sent" ELSE NoteOf(r)
    BY <1>0, <1>3 DEF NoteOf
  <2> QED
    BY <1>1, <1>3, <2>1, TurnFrom
<1>4. CASE s \in {"pending", "sending"}
  <2>1. \A r \in Row : NoteOf(r)' = NoteOf(r)
    BY <1>0, <1>4 DEF NoteOf
  <2> QED
    BY <1>1, <1>4, <2>1, StutterFrom
<1>5. CASE s = "absent"
  BY <1>1, <1>5
<1> QED
  BY <1>1, <1>2, <1>3, <1>4, <1>5 DEF Status

\* A crash loses count of what its workers delivered, and forgets deletions half done.
LEMMA CrashInterrupts ==
  ASSUME IInv, Crash
  PROVE  Ledger!LedgerNext
<1> DEFINE D == {r \in Row : r \in unrecorded' /\ r \notin unrecorded}
           W == {r \in Row : NoteOf(r)' # NoteOf(r)}
<1>0. /\ request' = [d \in Destination |-> "none"]
      /\ UNCHANGED <<copies, status, destinations>>
      /\ unrecorded \subseteq unrecorded'
  BY DEF Crash, tables, outbox
<1>1. \A r \in Row : ~ Withdrawn(r) => NoteOf(r)' = NoteOf(r)
  BY <1>0, RowDest DEF Withdrawn, NoteOf
<1>2. W \in SUBSET Ledger!With({"withdrawn"})
  BY <1>1 DEF NoteOf, Ledger!With
<1>3. D \in SUBSET {r \in Row : copies[r] >= 1}
  <2> SUFFICES ASSUME NEW r \in D PROVE copies[r] >= 1
    OBVIOUS
  <2>1. PICK d \in Destination : r \in delivered[d]
    BY DEF Crash
  <2> QED
    BY <2>1 DEF IInv, DeliveredWasAccepted
<1>4. unrecorded' = unrecorded \cup D
  BY <1>0, WorldTypeNext DEF IInv, TypeOK, HistoryTypeOK, Crash, WorkersTypeOK
<1>5. \A r \in Row : NoteOf(r)' \in Ledger!Note
  BY DEF NoteOf, Ledger!Note
<1>6. \A r \in Row : NoteOf(r)' = "sent" => copies[r] >= 1
  BY <1>0 DEF NoteOf, IInv, SentWasAccepted, With
<1> HIDE DEF D, W
<1>7. W \subseteq Row
  BY <1>2 DEF Ledger!With
<1>8. \A r \in Row : r \notin W => NoteOf(r)' = NoteOf(r)
  BY DEF W
<1>9. Ledger!Interrupt(D, W)
  BY <1>0, <1>4, <1>5, <1>6, <1>7, <1>8 DEF Ledger!Interrupt
<1> QED
  BY <1>2, <1>3, <1>9 DEF Ledger!LedgerNext

\* So does an exception out of a sender.
LEMMA RaiseInterrupts ==
  ASSUME IInv, [Next]_vars, NEW d \in Destination, Raise(d)
  PROVE  Ledger!LedgerNext
<1>0. /\ UNCHANGED <<copies, status, destinations, request>>
      /\ unrecorded' = unrecorded \cup delivered[d]
      /\ delivered[d] \subseteq Row
  BY DEF Raise, tables, outbox, world, IInv, TypeOK, WorkersTypeOK
<1>1. \A r \in Row : NoteOf(r)' = NoteOf(r)
  BY <1>0 DEF NoteOf, Withdrawn
<1>2. delivered[d] \in SUBSET {r \in Row : copies[r] >= 1}
  BY <1>0 DEF IInv, DeliveredWasAccepted
<1>3. \A r \in Row : NoteOf(r)' \in Ledger!Note
  BY DEF NoteOf, Ledger!Note
<1>4. Ledger!Interrupt(delivered[d], {})
  BY <1>0, <1>1, <1>3 DEF Ledger!Interrupt
<1> QED
  BY <1>2, <1>4 DEF Ledger!LedgerNext

\* What a message leaves unrecorded it also delivered.
LEMMA DoubtsAreCopies ==
  ASSUME IInv, NEW d \in Destination, Post(d), NEW r \in unrecorded' \ unrecorded
  PROVE  r \in Row /\ copies'[r] # copies[r]
<1> DEFINE m == Message(d)
<1>0. /\ copies \in [Row -> 0 .. 2] /\ m \subseteq Rest(d) /\ Rest(d) \subseteq Row
      /\ \A s \in Row : copies[s] = 2 => s \in unrecorded
  BY DEF IInv, TypeOK, HistoryTypeOK, WorkersTypeOK, Message, Rest, DuplicatesExplained
<1>1. Accepted(d, m) \/ Transient(d, m) \/ Rejected(d) \/ Gone(d)
  BY DEF Post
<1> HIDE DEF m
<1>2. r \in m /\ (copies' = Taken(m) \/ copies' = TakenTwice(m))
  BY <1>1 DEF Accepted, PhotoFallback, Transient, Rejected, Gone
<1>3. r \in Row /\ copies[r] \in 0 .. 1
  BY <1>0, <1>2
<1> QED
  BY <1>2, <1>3 DEF Taken, TakenTwice

\* A message to the far end reaches what is still open.
LEMMA PostReaches ==
  ASSUME IInv, [Next]_vars, NEW d \in Destination, Post(d)
  PROVE  Ledger!LedgerNext
<1> DEFINE R == {r \in Row : copies'[r] # copies[r]}
           D == {r \in Row : r \in unrecorded' /\ r \notin unrecorded}
<1>0. UNCHANGED <<status, destinations, request>> /\ pc[d] = "send"
  BY DEF Post, tables, outbox, world
<1>1. \A r \in Row : NoteOf(r)' = NoteOf(r)
  BY <1>0 DEF NoteOf, Withdrawn
<1>2. \A r \in Row : /\ copies[r] \in 0 .. 2 /\ copies'[r] \in 0 .. 2 /\ copies'[r] >= copies[r]
                     /\ copies'[r] = 2 => r \in unrecorded'
  BY CopiesGrow, InvNext DEF IInv, DuplicatesExplained
<1>3. R \in SUBSET Ledger!With({"queued", "withdrawn"})
  <2> SUFFICES ASSUME NEW r \in R PROVE r \in Ledger!With({"queued", "withdrawn"})
    OBVIOUS
  <2>1. r.dest \in Destination /\ Post(r.dest) /\ r \in Rest(r.dest)
    BY CopiesGrow, RowDest
  <2>2. r \in Holds(r.dest)
    BY <2>1 DEF Post, Holds, Rest
  <2>3. status[r] = "sending" \/ Withdrawn(r)
    BY <2>1, <2>2 DEF IInv, HeldRows, Withdrawn
  <2> QED
    BY <2>3 DEF NoteOf, Ledger!With
<1>4. D \in SUBSET R
  BY DoubtsAreCopies
<1>5. unrecorded' = unrecorded \cup D
  BY CopiesSteps, WorldTypeNext DEF IInv, TypeOK, HistoryTypeOK
<1>6. copies' \in [Row -> 0 .. 2]
  BY WorldTypeNext DEF IInv, HistoryTypeOK
<1>7. \A r \in Row : /\ r \notin R => copies'[r] = copies[r]
                     /\ r \in R => copies'[r] > copies[r]
  BY <1>2
<1> HIDE DEF D, R
<1>8. Ledger!Reach(R, D)
  BY <1>1, <1>2, <1>5, <1>6, <1>7 DEF Ledger!Reach
<1> QED
  BY <1>3, <1>4, <1>8 DEF Ledger!LedgerNext

\* Pollers and agents queue what nobody queued before.
LEMMA AlertsQueue ==
  ASSUME IInv, [Next]_vars, NEW i \in Item, Alert(i) \/ Enrich(i)
  PROVE  Ledger!LedgerNext
<1> DEFINE R == {r \in Row : ~ Withdrawn(r) /\ status'[r] # status[r]}
<1>0. UNCHANGED <<copies, unrecorded, request, destinations>>
  BY DEF Alert, RecordNewItem, RecordPriceDrop, Enrich, StoreEnrichment, history, world
<1>1. \A r \in Row : status'[r] = status[r] \/ (status[r] = "absent" /\ status'[r] = "pending")
  <2>1. ASSUME NEW Q, NEW ready, NEW released, Insert(Q, ready, released), NEW r \in Row
        PROVE  status'[r] = status[r] \/ (status[r] = "absent" /\ status'[r] = "pending")
    BY <2>1, StatusAfterInsert
  <2> QED
    BY <2>1 DEF Alert, RecordNewItem, RecordPriceDrop, Enrich, StoreEnrichment
<1>2. R \in SUBSET Ledger!With({"none"})
  BY <1>1 DEF NoteOf, Ledger!With
<1>3. \A r \in Row : NoteOf(r)' = IF r \in R THEN "queued" ELSE NoteOf(r)
  BY <1>0, <1>1 DEF NoteOf, Withdrawn
<1> HIDE DEF R
<1>4. Ledger!Turn(R, "queued")
  BY <1>0, <1>3, TurnFrom
<1> QED
  BY <1>2, <1>4 DEF Ledger!LedgerNext

\* A deletion withdraws every notification of its destination.
LEMMA DeletionWithdraws ==
  ASSUME IInv, [Next]_vars, NEW d \in Destination, DeleteBegins(d)
  PROVE  Ledger!LedgerNext
<1> DEFINE R == RowsOf(d)
<1>0. /\ UNCHANGED <<copies, unrecorded, destinations>>
      /\ \A r \in Row \ R : status'[r] = status[r]
      /\ request' = [request EXCEPT ![d] = "deleting"]
      /\ request \in [Destination -> {"none", "deleting", "pairing"}]
  BY StatusOf DEF DeleteBegins, CancelQueued, MarkCancelled, SetStatus, Ask, history, IInv,
     TypeOK, WorldTypeOK
<1>1. \A r \in Row : NoteOf(r)' = IF r \in R THEN "withdrawn" ELSE NoteOf(r)
  BY <1>0, RowDest DEF NoteOf, Withdrawn, RowsOf
<1>2. R \in SUBSET Row
  BY DEF RowsOf
<1> HIDE DEF R
<1>3. Ledger!Turn(R, "withdrawn")
  BY <1>0, <1>1, TurnFrom
<1> QED
  BY <1>2, <1>3 DEF Ledger!LedgerNext

\* A row a worker still has to write is open, or its destination is going.
LEMMA HeldIsOpen ==
  ASSUME IInv, NEW d \in Destination, NEW r \in Holds(d)
  PROVE  /\ r \in Row
         /\ Withdrawn(r) \/ status[r] \in {"absent", "pending", "sending"}
<1>1. r \in Row /\ r.dest = d
  BY DEF IInv, TypeOK, WorkersTypeOK, WorkerShape, Holds, Rest, RowsOf
<1> QED
  BY <1>1 DEF IInv, HeldRows, Withdrawn

\* What a worker writes about its batch.
LEMMA WorkerSettles ==
  ASSUME IInv, NEW d \in Destination,
         ApplyScoreFloor(d) \/ Record(d) \/ Retry(d) \/ Fail(d) \/ Purge(d) \/ Claim(d)
  PROVE  Ledger!LedgerNext \/ UNCHANGED Ledger!ledger
<1>0. /\ UNCHANGED <<copies, unrecorded, request, destinations>>
      /\ \A r \in Row : Withdrawn(r)' <=> Withdrawn(r)
  BY DEF ApplyScoreFloor, Record, Retry, Fail, Purge, Claim, MarkCancelled, MarkSent, MarkRetry,
     MarkFailed, CancelQueued, ClaimBatch, SetStatus, history, world, Withdrawn
<1>1. CASE ApplyScoreFloor(d)
  <2>1. under[d] \in SUBSET Row /\ under[d] \subseteq Holds(d) /\ SetStatus(under[d], "cancelled")
    BY <1>1 DEF ApplyScoreFloor, MarkCancelled, IInv, TypeOK, WorkersTypeOK, WorkerShape, Holds
  <2> DEFINE Q == {r \in under[d] : ~ Withdrawn(r) /\ status[r] # "absent"}
  <2>2. Q \in SUBSET Ledger!With({"queued"}) /\ Ledger!Turn(Q, "dropped")
    BY <1>0, <2>1, HeldIsOpen, UpdateFrom, "cancelled" \in Status DEF Status
  <2> QED
    BY <2>2 DEF Ledger!LedgerNext
<1>2. CASE Record(d)
  <2>1. delivered[d] \in SUBSET Row /\ delivered[d] \subseteq Holds(d) /\ SetStatus(delivered[d], "sent")
    BY <1>2 DEF Record, MarkSent, IInv, TypeOK, WorkersTypeOK, WorkerShape, Holds
  <2> DEFINE Q == {r \in delivered[d] : ~ Withdrawn(r) /\ status[r] # "absent"}
  <2>2. Q \in SUBSET Ledger!With({"queued"}) /\ Ledger!Turn(Q, "sent")
    BY <1>0, <2>1, HeldIsOpen, UpdateFrom, "sent" \in Status DEF Status
  <2>3. \A r \in Q : copies[r] >= 1
    BY DEF IInv, DeliveredWasAccepted
  <2> QED
    BY <2>2, <2>3 DEF Ledger!LedgerNext, Ledger!Confirm
<1>3. CASE Fail(d)
  <2>1. Rest(d) \in SUBSET Row /\ Rest(d) \subseteq Holds(d) /\ SetStatus(Rest(d), "failed")
    BY <1>3 DEF Fail, MarkFailed, IInv, TypeOK, WorkersTypeOK, Holds, Rest
  <2> DEFINE Q == {r \in Rest(d) : ~ Withdrawn(r) /\ status[r] # "absent"}
  <2>2. Q \in SUBSET Ledger!With({"queued"}) /\ Ledger!Turn(Q, "dropped")
    BY <1>0, <2>1, HeldIsOpen, UpdateFrom, "failed" \in Status DEF Status
  <2> QED
    BY <2>2 DEF Ledger!LedgerNext
<1>4. CASE Retry(d)
  <2>1. PICK R \in SUBSET Row : R \subseteq Holds(d) /\ SetStatus(R, "pending")
    BY <1>4 DEF Retry, MarkRetry, IInv, TypeOK, WorkersTypeOK, Holds, Rest
  <2> QED
    BY <1>0, <2>1, HeldIsOpen, UpdateFrom, "pending" \in Status DEF Status
<1>5. CASE Purge(d)
  <2> DEFINE R == RowsOf(d) \cap (With("pending") \cup With("sending"))
             Q == {r \in R : ~ Withdrawn(r) /\ status[r] # "absent"}
  <2>1. /\ R \in SUBSET Row /\ \A r \in R : status[r] \in {"pending", "sending"}
        /\ SetStatus(R, "cancelled")
    BY <1>5 DEF Purge, CancelQueued, MarkCancelled, RowsOf, With
  <2> HIDE DEF R
  <2>2. Q \in SUBSET Ledger!With({"queued"}) /\ Ledger!Turn(Q, "dropped")
    BY <1>0, <2>1, UpdateFrom, "cancelled" \in Status DEF Status
  <2> QED
    BY <2>2 DEF Ledger!LedgerNext
<1>6. CASE Claim(d)
  <2>1. PICK R \in SUBSET Row : /\ \A r \in R : status[r] = "pending"
                               /\ SetStatus(R, "sending")
    BY <1>6 DEF Claim, ClaimBatch, Claimable, RowsOf
  <2> QED
    BY <1>0, <2>1, UpdateFrom, "sending" \in Status DEF Status
<1> QED
  BY <1>1, <1>2, <1>3, <1>4, <1>5, <1>6

\* What the drain and the pairing handler write.
LEMMA OthersSettle ==
  ASSUME IInv, Recover \/ Expire \/ \E d \in Destination : PairEnds(d)
  PROVE  Ledger!LedgerNext \/ UNCHANGED Ledger!ledger
<1>1. CASE Recover
  <2>1. /\ SetStatus(With("sending"), "pending") /\ With("sending") \in SUBSET Row
        /\ \A r \in With("sending") : status[r] = "sending"
    BY <1>1 DEF Recover, RecoverLeases, With
  <2>2. /\ UNCHANGED <<copies, unrecorded>>
        /\ \A r \in Row : Withdrawn(r)' <=> Withdrawn(r)
    BY <1>1 DEF Recover, RecoverLeases, SetStatus, world, Withdrawn
  <2> QED
    BY <2>1, <2>2, UpdateFrom, "pending" \in Status DEF Status
<1>2. ASSUME NEW R \in SUBSET With("pending"), SetStatus(R, "cancelled"),
             UNCHANGED <<copies, unrecorded>>, \A r \in Row : Withdrawn(r)' <=> Withdrawn(r)
      PROVE  Ledger!LedgerNext
  <2> DEFINE Q == {r \in R : ~ Withdrawn(r) /\ status[r] # "absent"}
  <2>1. R \in SUBSET Row /\ \A r \in R : status[r] = "pending"
    BY DEF With
  <2>2. Q \in SUBSET Ledger!With({"queued"}) /\ Ledger!Turn(Q, "dropped")
    BY <1>2, <2>1, UpdateFrom, "cancelled" \in Status DEF Status
  <2> QED
    BY <2>2 DEF Ledger!LedgerNext
<1>3. CASE Expire
  <2>1. /\ Expirable(quiet_now) \in SUBSET With("pending")
        /\ SetStatus(Expirable(quiet_now), "cancelled")
        /\ UNCHANGED <<copies, unrecorded>>
        /\ \A r \in Row : Withdrawn(r)' <=> Withdrawn(r)
    BY <1>3 DEF Expire, ExpireStaleNotifications, MarkCancelled, SetStatus, Expirable, history,
       world, Withdrawn
  <2> QED
    BY <1>2, <2>1
<1>4. ASSUME NEW d \in Destination, PairEnds(d)
      PROVE  Ledger!LedgerNext
  <2>0. request \in [Destination -> {"none", "deleting", "pairing"}] /\ request[d] = "pairing"
    BY <1>4 DEF IInv, TypeOK, WorldTypeOK, PairEnds
  <2>1. /\ RowsOf(d) \cap With("pending") \in SUBSET With("pending")
        /\ SetStatus(RowsOf(d) \cap With("pending"), "cancelled")
        /\ UNCHANGED <<copies, unrecorded, destinations>>
        /\ request' = [request EXCEPT ![d] = "none"]
    BY <1>4 DEF PairEnds, DiscardPendingFor, MarkCancelled, SetStatus, history, Ask
  <2>2. \A r \in Row : Withdrawn(r)' <=> Withdrawn(r)
    BY <2>0, <2>1, RowDest DEF Withdrawn
  <2> QED
    BY <1>2, <2>1, <2>2
<1> QED
  BY <1>1, <1>3, <1>4

\* The rows of a destination that is gone are withdrawn already.
LEMMA DeletionEnds ==
  ASSUME IInv, NEW d \in Destination, DeleteEnds(d)
  PROVE  UNCHANGED Ledger!ledger
<1>0. /\ UNCHANGED <<copies, unrecorded>>
      /\ request[d] = "deleting"
      /\ request' = [request EXCEPT ![d] = "none"]
      /\ destinations' = [destinations EXCEPT ![d] = "deleted"]
      /\ \A r \in Row : r.dest # d => status'[r] = status[r]
      /\ request \in [Destination -> {"none", "deleting", "pairing"}]
      /\ destinations \in [Destination -> {"active", "inactive", "deleted"}]
  BY DEF DeleteEnds, DropDestination, Ask, history, IInv, TypeOK, WorldTypeOK, TablesTypeOK
<1>1. \A r \in Row : NoteOf(r)' = NoteOf(r)
  BY <1>0, RowDest DEF NoteOf, Withdrawn
<1> QED
  BY <1>0, <1>1, StutterFrom

\* What leaves the statuses, the destinations and the copies alone leaves the ledger alone.
LEMMA SameTables ==
  ASSUME UNCHANGED <<copies, unrecorded, destinations, status, request>>
  PROVE  UNCHANGED Ledger!ledger
BY StutterFrom DEF NoteOf, Withdrawn

\* Turning a destination on or off withdraws nothing, and neither does pairing it.
LEMMA OwnersStutter ==
  ASSUME IInv, NEW d \in Destination, Deactivate(d) \/ Enable(d) \/ PairBegins(d)
  PROVE  UNCHANGED Ledger!ledger
<1>1. CASE Deactivate(d) \/ Enable(d)
  <2>1. /\ UNCHANGED <<copies, unrecorded, request, status>>
        /\ destinations \in [Destination -> {"active", "inactive", "deleted"}]
        /\ \E s \in {"active", "inactive"} :
             destinations' = [destinations EXCEPT ![d] = IF @ = "deleted" THEN @ ELSE s]
    BY <1>1 DEF Deactivate, Enable, SetDestination, history, world, outbox, IInv, TypeOK,
       TablesTypeOK
  <2>2. \A r \in Row : destinations'[r.dest] = "deleted" <=> destinations[r.dest] = "deleted"
    BY <2>1, RowDest
  <2>3. \A r \in Row : NoteOf(r)' = NoteOf(r)
    BY <2>1, <2>2 DEF NoteOf, Withdrawn
  <2> QED
    BY <2>1, <2>3, StutterFrom
<1>2. CASE PairBegins(d)
  <2>1. /\ UNCHANGED <<copies, unrecorded, destinations, status>>
        /\ request' = [request EXCEPT ![d] = "pairing"] /\ request[d] = "none"
        /\ request \in [Destination -> {"none", "deleting", "pairing"}]
    BY <1>2 DEF PairBegins, Ask, history, tables, outbox, IInv, TypeOK, WorldTypeOK
  <2>2. \A r \in Row : NoteOf(r)' = NoteOf(r)
    BY <2>1, RowDest DEF NoteOf, Withdrawn
  <2> QED
    BY <2>1, <2>2, StutterFrom
<1> QED
  BY <1>1, <1>2

-----------------------------------------------------------------------------
(* The refinement. *)

LEMMA LedgerStep == IInv /\ [Next]_vars => [Ledger!LedgerNext]_(Ledger!ledger)
<1> SUFFICES ASSUME IInv, [Next]_vars
             PROVE  Ledger!LedgerNext \/ UNCHANGED Ledger!ledger
  OBVIOUS
<1>1. CASE Drain
  <2>1. CASE Recover \/ Expire
    BY <2>1, OthersSettle
  <2>2. CASE QuietDestinations \/ FindNoWork \/ FindWork \/ EndDrain
    BY <2>2, SameTables DEF QuietDestinations, RestartDeliveryClock, FindNoWork, FindWork,
       EndDrain, tables, outbox, history, world
  <2> QED
    BY <1>1, <2>1, <2>2 DEF Drain
<1>2. ASSUME NEW d \in Destination, WorkerStep(d) \/ Raise(d)
      PROVE  Ledger!LedgerNext \/ UNCHANGED Ledger!ledger
  <2>1. CASE Serve(d) \/ ClaimNothing(d)
    BY <2>1, SameTables DEF Serve, ClaimNothing, tables, outbox, history, world
  <2> QED
    BY <1>2, <2>1, WorkerSettles, OwnersStutter, PostReaches, RaiseInterrupts DEF WorkerStep
<1>3. CASE Others
  <2>1. ASSUME NEW i \in Item, Alert(i) \/ Enrich(i) \/ Prune(i)
        PROVE  Ledger!LedgerNext \/ UNCHANGED Ledger!ledger
    <3>1. CASE Prune(i)
      BY <3>1, SameTables DEF Prune, PruneItem, outbox, world, history
    <3> QED
      BY <2>1, <3>1, AlertsQueue
  <2>2. ASSUME NEW d \in Destination,
               Enable(d) \/ DeleteBegins(d) \/ DeleteEnds(d) \/ PairBegins(d) \/ PairEnds(d)
        PROVE  Ledger!LedgerNext \/ UNCHANGED Ledger!ledger
    BY <2>2, OwnersStutter, DeletionWithdraws, DeletionEnds, OthersSettle
  <2> QED
    BY <1>3, <2>1, <2>2 DEF Others
<1>4. CASE Clock \/ Boot \/ UNCHANGED vars
  BY <1>4, SameTables DEF Clock, GateOpens, QuietBegins, QuietEnds, Due, BecomesDue, Stale,
     BecomesStale, Boot, vars, tables, outbox, world, history
<1>5. CASE Crash
  BY <1>5, CrashInterrupts
<1> QED
  BY <1>1, <1>2, <1>3, <1>4, <1>5 DEF Next

\* Delivery implements the ledger, for any number of listings and destinations: a
\* notification is queued once and settled once, whatever workers, answers, crashes and
\* owners do to it.
THEOREM LedgerIsKept == Spec => LedgerKept
<1>1. Init => Ledger!LedgerInit
  BY RowDest DEF Init, TablesInit, Ledger!LedgerInit, NoteOf, Withdrawn
<1> QED
  BY <1>1, LedgerStep, Invariance, PTL DEF Spec, LedgerKept, Ledger!LedgerSpec
=============================================================================
