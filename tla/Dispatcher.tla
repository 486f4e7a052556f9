------------------------------ MODULE Dispatcher ------------------------------
(***************************************************************************)
(* Delivery (deliver/dispatcher.py and the four senders) over the outbox,  *)
(* beside everything else in the process that writes to the same tables    *)
(* while a worker is awaiting: pollers, the enrichment endpoint, the       *)
(* dashboard and the Telegram bot.  Each action ends at an await.          *)
(***************************************************************************)
EXTENDS Outbox

CONSTANTS
  MAX_ATTEMPTS,      \* tries before a notification is given up
  MaxBatch,          \* max_batch of each destination's sender
  STACK_THRESHOLD,   \* Discord: batches up to this size go one message per row
  DIGEST_THRESHOLD,  \* Telegram: rows sent singly before the rest become a digest
  Unpaired,          \* Telegram destinations nobody has connected yet, initially
  Misconfigured,     \* destinations no sender can be built for
  SenderMayRaise,    \* a send can end in an exception the sender does not catch
  Deletable,         \* destinations the owner may delete
  Prunable,          \* listings old enough for the retention job
  MaxCrashes,        \* bound: crashes of the process
  MaxWindows         \* bound: quiet-hours windows

ASSUME DispatcherAssumption ==
  /\ MAX_ATTEMPTS \in Nat \ {0}
  /\ MaxBatch \in [Destination -> Nat \ {0}]
  /\ STACK_THRESHOLD \in Nat
  /\ DIGEST_THRESHOLD \in Nat
  /\ Unpaired \subseteq {d \in Destination : KindOf[d] = "telegram"}
  /\ Misconfigured \subseteq Destination
  /\ SenderMayRaise \in BOOLEAN
  /\ Deletable \subseteq Destination
  /\ Prunable \subseteq Item
  /\ MaxCrashes \in Nat
  /\ MaxWindows \in Nat

VARIABLES
  phase,        \* where run() and drain() are; "down" when there is no process
  pc,           \* where each destination's _serve is
  batch,        \* what it claimed and has not cancelled itself
  delivered,    \* result.delivered so far
  under,        \* what it claimed with a verdict under the floor
  outcome,      \* how sending ended
  quiet_now,    \* _quiet_now, in memory
  gate,         \* _discord_gate is closed, in memory
  quiet_hours,  \* destinations inside their quiet hours, by the clock
  unpaired,     \* Telegram destinations without a chat_id
  request,      \* the dashboard or bot handler half-way through a destination
  copies,       \* history: copies of a notification the far end took (2: or more)
  unrecorded,   \* history: rows with a copy the process never learnt of
  stranded,     \* history: rows whose worker ended in an exception
  crashes, windows

workers == <<pc, batch, delivered, under, outcome>>
memory == <<phase, workers, quiet_now, gate>>
world == <<quiet_hours, unpaired, request, crashes, windows>>
history == <<copies, unrecorded, stranded>>
vars == <<tables, memory, world, history>>

PC == {"idle", "serve", "claim", "floor", "send", "record", "retry", "fail",
       "deactivate", "purge"}
Outcome == {"none", "ok", "retry", "rejected", "gone"}

WorkersTypeOK ==
  /\ pc \in [Destination -> PC]
  /\ batch \in [Destination -> SUBSET Row]
  /\ delivered \in [Destination -> SUBSET Row]
  /\ under \in [Destination -> SUBSET Row]
  /\ outcome \in [Destination -> Outcome]

WorldTypeOK ==
  /\ phase \in {"down", "recover", "quiet", "expire", "look", "serving"}
  /\ quiet_now \subseteq Destination
  /\ gate \in BOOLEAN
  /\ quiet_hours \subseteq Destination
  /\ unpaired \subseteq Destination
  /\ request \in [Destination -> {"none", "deleting", "pairing"}]
  /\ crashes \in 0 .. MaxCrashes
  /\ windows \in 0 .. MaxWindows

HistoryTypeOK ==
  /\ copies \in [Row -> 0 .. 2]
  /\ unrecorded \subseteq Row
  /\ stranded \subseteq Row

TypeOK == TablesTypeOK /\ WorkersTypeOK /\ WorldTypeOK /\ HistoryTypeOK

Init ==
  /\ TablesInit
  /\ phase = "recover"
  /\ pc = [d \in Destination |-> "idle"]
  /\ batch = [d \in Destination |-> {}]
  /\ delivered = [d \in Destination |-> {}]
  /\ under = [d \in Destination |-> {}]
  /\ outcome = [d \in Destination |-> "none"]
  /\ quiet_now = {}
  /\ gate = FALSE
  /\ quiet_hours = {}
  /\ unpaired = Unpaired
  /\ request = [d \in Destination |-> "none"]
  /\ copies = [r \in Row |-> 0]
  /\ unrecorded = {} /\ stranded = {}
  /\ crashes = 0 /\ windows = 0

Running == phase # "down"
Active(d) == destinations[d] = "active"

-----------------------------------------------------------------------------
(* run() and drain(). *)

GoTo(next) == phase' = next

Recover ==
  /\ phase = "recover" /\ GoTo("quiet")
  /\ RecoverLeases
  /\ stranded' = {}
  /\ UNCHANGED <<workers, quiet_now, gate, world, copies, unrecorded>>

\* _quiet_destinations: restart the clock of every destination that has woken up.
QuietDestinations ==
  LET asleep == {d \in quiet_hours : Active(d)}
      woken == quiet_now \ asleep
  IN
  /\ phase = "quiet" /\ GoTo("expire")
  /\ RestartDeliveryClock(woken)
  /\ quiet_now' = asleep
  /\ UNCHANGED <<workers, gate, world, copies, unrecorded, stranded>>

Expire ==
  /\ phase = "expire" /\ GoTo("look")
  /\ ExpireStaleNotifications(quiet_now)
  /\ UNCHANGED <<workers, quiet_now, gate, world, history>>

\* Nothing to do: run() waits for work or two seconds, and drains again.
FindNoWork ==
  /\ phase = "look" /\ DestinationsWithWork = {} /\ GoTo("quiet")
  /\ UNCHANGED <<tables, workers, quiet_now, gate, world, history>>

FindWork ==
  /\ phase = "look" /\ DestinationsWithWork # {} /\ GoTo("serving")
  /\ pc' = [d \in Destination |-> IF d \in DestinationsWithWork THEN "serve" ELSE "idle"]
  /\ UNCHANGED <<tables, batch, delivered, under, outcome, quiet_now, gate, world, history>>

\* gather() returns when every worker has: the next cycle never overlaps this one.
EndDrain ==
  /\ phase = "serving" /\ \A d \in Destination : pc[d] = "idle"
  /\ GoTo("quiet")
  /\ UNCHANGED <<tables, workers, quiet_now, gate, world, history>>

-----------------------------------------------------------------------------
(* _serve. *)

Jump(d, next) ==
  /\ pc' = [pc EXCEPT ![d] = next]
  /\ UNCHANGED <<batch, delivered, under, outcome>>

\* _serve returns.
Return(d) ==
  /\ pc' = [pc EXCEPT ![d] = "idle"]
  /\ batch' = [batch EXCEPT ![d] = {}]
  /\ delivered' = [delivered EXCEPT ![d] = {}]
  /\ under' = [under EXCEPT ![d] = {}]
  /\ outcome' = [outcome EXCEPT ![d] = "none"]

Rest(d) == batch[d] \ delivered[d]

Serve(d) ==
  LET waits == ~Active(d) \/ d \in unpaired \/ d \in quiet_now
      paused == KindOf[d] = "discord" /\ gate
  IN
  /\ pc[d] = "serve"
  /\ \/ waits /\ Return(d)
     \/ ~waits /\ d \in Misconfigured /\ Jump(d, "deactivate")
     \/ ~waits /\ d \notin Misconfigured /\ paused /\ Return(d)
     \/ ~waits /\ d \notin Misconfigured /\ ~paused /\ Jump(d, "claim")
  /\ UNCHANGED <<tables, phase, quiet_now, gate, world, history>>

ClaimNothing(d) ==
  /\ pc[d] = "claim" /\ Claimable(d) = {}
  /\ Return(d)
  /\ UNCHANGED <<tables, phase, quiet_now, gate, world, history>>

Claim(d) ==
  /\ pc[d] = "claim" /\ Claimable(d) # {}
  /\ \E B \in SUBSET Claimable(d) :
       /\ IsNextBatch(B, d, MaxBatch[d])
       /\ ClaimBatch(B)
       /\ batch' = [batch EXCEPT ![d] = B]
       /\ under' = [under EXCEPT ![d] = ScoredOut(B)]
       /\ pc' = [pc EXCEPT ![d] = IF ScoredOut(B) = {} THEN "send" ELSE "floor"]
  /\ UNCHANGED <<delivered, outcome, phase, quiet_now, gate, world, history>>

\* Mutant: the batch goes out as it was claimed, the cancelled rows included.
CancelButSend(d) ==
  /\ pc[d] = "floor"
  /\ MarkCancelled(under[d])
  /\ Jump(d, "send")
  /\ UNCHANGED <<phase, quiet_now, gate, world, history>>

\* _apply_score_floor, on the verdicts as they were when the batch was claimed.
ApplyScoreFloor(d) ==
  LET passing == batch[d] \ under[d] IN
  /\ pc[d] = "floor"
  /\ MarkCancelled(under[d])
  /\ \/ passing = {} /\ Return(d)
     \/ /\ passing # {}
        /\ pc' = [pc EXCEPT ![d] = "send"]
        /\ batch' = [batch EXCEPT ![d] = passing]
        /\ UNCHANGED <<delivered, under, outcome>>
  /\ UNCHANGED <<phase, quiet_now, gate, world, history>>

\* The rows the next message to the far end carries: Discord stacks a large batch,
\* Telegram folds what is over its threshold into a digest, ntfy sends one by one
\* and a webhook gets everything in one POST.
Grouped(d) ==
  CASE KindOf[d] = "webhook" -> TRUE
    [] KindOf[d] = "discord" -> Cardinality(batch[d]) > STACK_THRESHOLD
    [] KindOf[d] = "telegram" -> Cardinality(delivered[d]) >= DIGEST_THRESHOLD
    [] KindOf[d] = "ntfy" -> FALSE

Message(d) ==
  IF Grouped(d) THEN Rest(d) ELSE {r \in Rest(d) : \A s \in Rest(d) : id[r] <= id[s]}

Taken(R) == [r \in Row |-> IF r \in R /\ copies[r] < 2 THEN copies[r] + 1 ELSE copies[r]]
TakenTwice(R) == [r \in Row |-> IF r \in R THEN 2 ELSE copies[r]]

\* Sending is over: what is left of _serve turns the result into writes.
Report(d, result) ==
  /\ pc' = [pc EXCEPT ![d] = "record"]
  /\ outcome' = [outcome EXCEPT ![d] = result]
  /\ UNCHANGED <<batch, under>>

\* _send_with_photo: the photo arrived and its answer did not, so the text went out too.
PhotoFallback(d, m) ==
  /\ KindOf[d] = "telegram" /\ ~Grouped(d)
  /\ copies' = TakenTwice(m)

Accepted(d, m) ==
  /\ delivered' = [delivered EXCEPT ![d] = @ \cup m]
  /\ \/ Rest(d) \subseteq m /\ Report(d, "ok")
     \/ ~(Rest(d) \subseteq m) /\ UNCHANGED <<pc, batch, under, outcome>>
  /\ \/ copies' = Taken(m) /\ UNCHANGED unrecorded
     \/ PhotoFallback(d, m) /\ unrecorded' = unrecorded \cup m
  /\ UNCHANGED gate

\* A timeout, a rate limit, a 5xx.  After a timeout the far end may have the message.
\* A global rate limit closes the gate for every Discord destination.
Transient(d, m) ==
  /\ Report(d, "retry") /\ UNCHANGED delivered
  /\ \/ UNCHANGED <<copies, unrecorded>>
     \/ /\ copies' = Taken(m) \/ PhotoFallback(d, m)
        /\ unrecorded' = unrecorded \cup m
  /\ gate' \in IF KindOf[d] = "discord" THEN {gate, TRUE} ELSE {gate}

\* The payload is refused (a 400).  A single message turns that into a retry of what
\* is left of the batch; a stacked message or a digest gives its rows up.
Rejected(d) ==
  /\ Report(d, IF Grouped(d) /\ KindOf[d] # "webhook" THEN "rejected" ELSE "retry")
  /\ UNCHANGED <<delivered, copies, unrecorded, gate>>

\* The channel itself is finished: a deleted webhook, a bot somebody blocked.
Gone(d) ==
  /\ KindOf[d] # "ntfy"
  /\ Report(d, "gone")
  /\ UNCHANGED <<delivered, copies, unrecorded, gate>>

Post(d) ==
  LET m == Message(d) IN
  /\ pc[d] = "send"
  /\ Accepted(d, m) \/ Transient(d, m) \/ Rejected(d) \/ Gone(d)
  /\ UNCHANGED <<tables, phase, quiet_now, world, stranded>>

\* An exception out of send() ends this worker only (return_exceptions=True).
Raise(d) ==
  /\ SenderMayRaise /\ pc[d] = "send"
  /\ Return(d)
  /\ stranded' = stranded \cup batch[d]
  /\ unrecorded' = unrecorded \cup delivered[d]
  /\ UNCHANGED <<tables, phase, quiet_now, gate, world, copies>>

\* Which branch of _serve the result calls for.
Dispose(d) ==
  \/ outcome[d] = "ok" /\ Return(d)
  \/ outcome[d] = "retry" /\ Jump(d, "retry")
  \/ outcome[d] = "rejected" /\ Jump(d, "fail")
  \/ outcome[d] = "gone" /\ Jump(d, "deactivate")

\* Mutant: a partial delivery is recorded as a complete one.
RecordWholeBatch(d) ==
  /\ pc[d] = "record"
  /\ MarkSent(batch[d])
  /\ Dispose(d)
  /\ UNCHANGED <<phase, quiet_now, gate, world, history>>

\* Mutant: a rejected message is nobody's business any more.
RecordAndAbandon(d) ==
  /\ pc[d] = "record"
  /\ MarkSent(delivered[d])
  /\ IF outcome[d] = "rejected" THEN Return(d) ELSE Dispose(d)
  /\ UNCHANGED <<phase, quiet_now, gate, world, history>>

Record(d) ==
  /\ pc[d] = "record"
  /\ MarkSent(delivered[d])
  /\ Dispose(d)
  /\ UNCHANGED <<phase, quiet_now, gate, world, history>>

\* What is left for mark_failed after mark_retry.
GiveUp(d, over_budget) ==
  \/ over_budget = {} /\ Return(d)
  \/ /\ over_budget # {}
     /\ pc' = [pc EXCEPT ![d] = "fail"]
     /\ batch' = [batch EXCEPT ![d] = over_budget]
     /\ delivered' = [delivered EXCEPT ![d] = {}]
     /\ UNCHANGED <<under, outcome>>

\* Mutant: the budget is checked one try too late.
RetryOnceMore(d) ==
  LET over_budget == {r \in Rest(d) : attempts[r] >= MAX_ATTEMPTS} IN
  /\ pc[d] = "retry"
  /\ MarkRetry(Rest(d) \ over_budget)
  /\ GiveUp(d, over_budget)
  /\ UNCHANGED <<phase, quiet_now, gate, world, history>>

\* Mutant: what the far end already took is retried with the rest.
RetryWholeBatch(d) ==
  LET over_budget == {r \in batch[d] : attempts[r] + 1 >= MAX_ATTEMPTS} IN
  /\ pc[d] = "retry"
  /\ MarkRetry(batch[d] \ over_budget)
  /\ GiveUp(d, over_budget)
  /\ UNCHANGED <<phase, quiet_now, gate, world, history>>

\* mark_retry for what has tries left; what has none is given up next.
Retry(d) ==
  LET over_budget == {r \in Rest(d) : attempts[r] + 1 >= MAX_ATTEMPTS} IN
  /\ pc[d] = "retry"
  /\ MarkRetry(Rest(d) \ over_budget)
  /\ GiveUp(d, over_budget)
  /\ UNCHANGED <<phase, quiet_now, gate, world, history>>

Fail(d) ==
  /\ pc[d] = "fail"
  /\ MarkFailed(Rest(d))
  /\ Return(d)
  /\ UNCHANGED <<phase, quiet_now, gate, world, history>>

\* deactivate_destination, its two writes.
Deactivate(d) ==
  /\ pc[d] = "deactivate"
  /\ SetDestination(d, "inactive")
  /\ Jump(d, "purge")
  /\ UNCHANGED <<phase, quiet_now, gate, world, history>>

Purge(d) ==
  /\ pc[d] = "purge"
  /\ CancelQueued(d)
  /\ Return(d)
  /\ UNCHANGED <<phase, quiet_now, gate, world, history>>

WorkerStep(d) ==
  \/ Serve(d) \/ Claim(d) \/ ClaimNothing(d) \/ ApplyScoreFloor(d) \/ Post(d) \/ Record(d)
  \/ Retry(d) \/ Fail(d) \/ Deactivate(d) \/ Purge(d)

Drain == Recover \/ QuietDestinations \/ Expire \/ FindNoWork \/ FindWork \/ EndDrain

-----------------------------------------------------------------------------
(* The rest of the process. *)

\* Pollers.  The destinations come from an earlier read of destination_ids_for_query.
Alert(i) ==
  /\ Running
  /\ \/ \E D \in SUBSET Destination : RecordNewItem(i, D)
     \/ \E D \in SUBSET Destination, price \in PriceDrop : RecordPriceDrop(i, price, D)
  /\ UNCHANGED <<memory, world, history>>

Enrich(i) ==
  /\ Running
  /\ \E v \in Verdict : StoreEnrichment(i, v)
  /\ UNCHANGED <<memory, world, history>>

Prune(i) ==
  /\ Running /\ i \in Prunable
  /\ PruneItem(i)
  /\ UNCHANGED <<memory, world, history>>

Enable(d) ==
  /\ Running /\ destinations[d] = "inactive"
  /\ SetDestination(d, "active")
  /\ UNCHANGED <<memory, world, history>>

Ask(d, handler) == request' = [request EXCEPT ![d] = handler]

DeleteBegins(d) ==
  /\ Running /\ d \in Deletable /\ destinations[d] # "deleted" /\ request[d] = "none"
  /\ CancelQueued(d)
  /\ Ask(d, "deleting")
  /\ UNCHANGED <<memory, quiet_hours, unpaired, crashes, windows, history>>

DeleteEnds(d) ==
  /\ request[d] = "deleting"
  /\ DropDestination(d)
  /\ Ask(d, "none")
  /\ UNCHANGED <<memory, quiet_hours, unpaired, crashes, windows, history>>

\* claim_pairing: the chat is written first, the backlog dropped second.
PairBegins(d) ==
  /\ Running /\ d \in unpaired /\ destinations[d] # "deleted" /\ request[d] = "none"
  /\ unpaired' = unpaired \ {d}
  /\ Ask(d, "pairing")
  /\ UNCHANGED <<tables, memory, quiet_hours, crashes, windows, history>>

PairEnds(d) ==
  /\ request[d] = "pairing"
  /\ DiscardPendingFor(d)
  /\ Ask(d, "none")
  /\ UNCHANGED <<memory, quiet_hours, unpaired, crashes, windows, history>>

-----------------------------------------------------------------------------
(* The clock and the machine. *)

GateOpens ==
  /\ gate /\ gate' = FALSE
  /\ UNCHANGED <<tables, phase, workers, quiet_now, world, history>>

QuietBegins(d) ==
  /\ windows < MaxWindows /\ d \notin quiet_hours
  /\ quiet_hours' = quiet_hours \cup {d} /\ windows' = windows + 1
  /\ UNCHANGED <<tables, memory, unpaired, request, crashes, history>>

\* A window outlasts a drain: one that ends while the process is up has been noticed.
QuietEnds(d) ==
  /\ d \in quiet_hours
  /\ d \in quiet_now \/ ~Running \/ ~Active(d)
  /\ quiet_hours' = quiet_hours \ {d}
  /\ UNCHANGED <<tables, memory, unpaired, request, crashes, windows, history>>

Due(r) == BecomesDue(r) /\ UNCHANGED <<memory, world, history>>

Stale(r) ==
  /\ BecomesStale(r)
  /\ UNCHANGED <<memory, world, copies, unrecorded, stranded>>

\* Memory goes, the tables stay.  What the far end took and no write recorded is forgotten.
Crash ==
  /\ Running /\ crashes < MaxCrashes
  /\ crashes' = crashes + 1
  /\ phase' = "down"
  /\ pc' = [d \in Destination |-> "idle"]
  /\ batch' = [d \in Destination |-> {}]
  /\ delivered' = [d \in Destination |-> {}]
  /\ under' = [d \in Destination |-> {}]
  /\ outcome' = [d \in Destination |-> "none"]
  /\ quiet_now' = {}
  /\ gate' = FALSE
  /\ request' = [d \in Destination |-> "none"]
  /\ unrecorded' = unrecorded \cup
       UNION {delivered[d] : d \in {e \in Destination : pc[e] \in {"send", "record"}}}
  /\ UNCHANGED <<tables, quiet_hours, unpaired, windows, copies, stranded>>

Boot ==
  /\ phase = "down" /\ GoTo("recover")
  /\ UNCHANGED <<tables, workers, quiet_now, gate, world, history>>

Clock ==
  \/ GateOpens
  \/ \E d \in Destination : QuietBegins(d) \/ QuietEnds(d)
  \/ \E r \in Row : Due(r) \/ Stale(r)

Others ==
  \/ \E i \in Item : Alert(i) \/ Enrich(i) \/ Prune(i)
  \/ \E d \in Destination : \/ Enable(d) \/ DeleteBegins(d) \/ DeleteEnds(d)
                            \/ PairBegins(d) \/ PairEnds(d)

Next ==
  \/ Drain
  \/ \E d \in Destination : WorkerStep(d) \/ Raise(d)
  \/ Others \/ Clock \/ Crash \/ Boot

Spec == Init /\ [][Next]_vars

\* The event loop keeps running the dispatcher and its workers, retry delays and pauses
\* run out, quiet windows end, a handler that began ends, and the process is restarted.
\* Nothing obliges pollers, agents, owners or crashes to act.
Fairness ==
  /\ WF_vars(Drain) /\ WF_vars(Boot) /\ WF_vars(GateOpens)
  /\ \A d \in Destination : /\ WF_vars(WorkerStep(d)) /\ WF_vars(QuietEnds(d))
                            /\ WF_vars(DeleteEnds(d)) /\ WF_vars(PairEnds(d))
  /\ \A r \in Row : WF_vars(Due(r))

FairSpec == Spec /\ Fairness

-----------------------------------------------------------------------------
(* Safety. *)

Serving == {"floor", "send", "record", "retry", "fail", "deactivate", "purge"}

\* A row is 'sending' only while a live worker holds it: whatever the far end says and
\* however the batch is split, a worker that ends leaves none behind.  Only a crash
\* (until leases are recovered) or an exception out of the sender strands one.
LeaseHeld ==
  phase \notin {"down", "recover"} =>
    \A r \in With("sending") :
      r \in stranded \/ (r \in batch[r.dest] /\ pc[r.dest] \in Serving)

\* mark_sent is only ever told of rows the far end has accepted.
SentWasAccepted == \A r \in With("sent") : copies[r] >= 1

\* A second copy has one cause: an earlier one was accepted and no answer, or no write
\* of the answer, ever reached the table.  Retries alone never repeat a delivery.
DuplicatesExplained == \A r \in Row : copies[r] = 2 => r \in unrecorded

\* The try budget holds across claims, retries, crashes and rows revived by either.
AttemptsWithinBudget == \A r \in Row : attempts[r] < MAX_ATTEMPTS

\* A "verdict is in" follow-up exists only beside an alert that did go out.
FollowUpAfterAlert ==
  \A r \in Present : r.kind = "verdict" =>
    status[RowFor(r.item, r.dest, "new")] = "sent"

\* What a worker is about to send it has claimed and nobody has cancelled since: not
\* the floor, the pairing handler or expiry.  A deletion under way is the exception.
NothingCancelledIsSent ==
  \A d \in Destination :
    (pc[d] = "send" /\ request[d] # "deleting" /\ destinations[d] # "deleted") =>
      Rest(d) \subseteq With("sending")

\* What is settled stays settled: no crash, retry, release, expiry or late answer
\* brings back a notification that was sent, given up or cancelled, or rewrites how it
\* ended, unless its destination is being deleted under a worker that still holds it.
SettledStaysSettled ==
  [][\A r \in Row :
       (/\ status[r] \in {"sent", "failed", "cancelled"}
        /\ status'[r] # "absent"
        /\ request[r.dest] # "deleting")
       => status'[r] = status[r]]_vars

\* Rows whose verdict was under the floor when they were claimed never leave the process.
FloorHonoured ==
  [][\A d \in Destination : \A r \in under[d] : copies'[r] = copies[r]]_vars

-----------------------------------------------------------------------------
(* What delivery promises. *)

Withdrawn(r) == request[r.dest] = "deleting" \/ destinations[r.dest] = "deleted"

\* A row of the outbox, as whoever waits for the alert sees it.
NoteOf(r) ==
  IF Withdrawn(r) THEN "withdrawn"
  ELSE IF status[r] = "absent" THEN "none"
  ELSE IF status[r] = "sent" THEN "sent"
  ELSE IF status[r] \in {"failed", "cancelled"} THEN "dropped" ELSE "queued"

Ledger == INSTANCE AlertLedger
            WITH Notice <- Row, note <- [r \in Row |-> NoteOf(r)],
                 heard <- copies, doubted <- unrecorded

\* Delivery keeps the ledger: with all its workers, batches, retries and crashes it does
\* nothing to a notification that AlertLedger does not allow.
LedgerKept == Ledger!LedgerSpec

-----------------------------------------------------------------------------
(* Why the safety properties hold: together these are inductive. *)

\* Workers exist only between FindWork and EndDrain.
WorkersInsideDrain == \A d \in Destination : pc[d] # "idle" => phase = "serving"

\* What a worker's locals look like at each point of _serve.
WorkerShape ==
  \A d \in Destination :
    /\ batch[d] \subseteq RowsOf(d)
    /\ delivered[d] \subseteq batch[d]
    /\ under[d] \subseteq RowsOf(d)
    /\ pc[d] \in {"idle", "serve", "claim"} => batch[d] = {}
    /\ pc[d] = "floor" => under[d] \subseteq batch[d] /\ delivered[d] = {}
    /\ pc[d] = "send" => under[d] \cap batch[d] = {}
    /\ pc[d] = "record" => outcome[d] # "none"
    /\ pc[d] = "record" /\ outcome[d] = "ok" => delivered[d] = batch[d]

\* Rows whose status the worker is still going to write one by one.
Holds(d) ==
  IF pc[d] \in {"floor", "send", "record"} THEN batch[d]
  ELSE IF pc[d] \in {"retry", "fail"} THEN Rest(d) ELSE {}

\* Nobody but the owner deleting the destination takes a row away from its worker.
HeldRows ==
  \A d \in Destination : \A r \in Holds(d) :
    /\ status[r] # "sent"
    /\ status[r] = "sending" \/ request[d] = "deleting" \/ destinations[d] = "deleted"
    /\ status[r] = "absent" => destinations[d] = "deleted"
    /\ r \in Rest(d) => copies[r] = 0 \/ r \in unrecorded

\* LeaseHeld, and that a worker past mark_sent has yet to write the row's status.
Leases ==
  phase \notin {"down", "recover"} =>
    \A r \in With("sending") \ stranded :
      /\ r \in batch[r.dest]
      /\ pc[r.dest] \in Serving
      /\ pc[r.dest] \in {"retry", "fail", "deactivate", "purge"} => r \notin delivered[r.dest]

\* Where a copy the process knows of can be: recorded, gone with its destination, or
\* still in the hands of the worker that delivered it.
CopiesKnown ==
  \A r \in Row :
    copies[r] >= 1 /\ r \notin unrecorded =>
      \/ status[r] = "sent"
      \/ destinations[r.dest] = "deleted"
      \/ r \in delivered[r.dest] /\ pc[r.dest] \in {"send", "record"}

DeliveredWasAccepted == \A d \in Destination : \A r \in delivered[d] : copies[r] >= 1

DeletedRowsGone == \A r \in Present : destinations[r.dest] # "deleted"

\* The inductive invariant: each row has one owner, the table or a worker, and what the
\* far end has taken is either written down or explained.
IInv ==
  /\ TypeOK
  /\ WorkersInsideDrain
  /\ WorkerShape
  /\ HeldRows
  /\ Leases
  /\ CopiesKnown
  /\ DeliveredWasAccepted
  /\ DeletedRowsGone
  /\ SentWasAccepted
  /\ DuplicatesExplained
  /\ AttemptsWithinBudget
  /\ FollowUpAfterAlert

-----------------------------------------------------------------------------
(* Liveness. *)

Queued(r) == status[r] \in {"pending", "sending"}

\* Queued notifications are settled without waiting for them to expire, given an active,
\* connected destination, a listing still recorded and a sender that does not raise.
EventuallyServed ==
  \A r \in Row : Queued(r) ~>
    \/ ~Queued(r) \/ r \in stranded
    \/ ~Active(r.dest) \/ r.dest \in unpaired \/ r.item \notin items

\* No row stays queued past the delivery window for ever: not one for a destination that is
\* off, or asleep, or was never connected, nor one whose listing is gone.
NothingWaitsForever ==
  \A r \in Row : []<>(~Queued(r) \/ r \notin stale \/ r \in stranded)

-----------------------------------------------------------------------------
(* What a docstring says of this code, and it does not do. *)

\* Repo.store_enrichment: when the alert has already gone out and the verdict is hot, a
\* follow-up is queued for the same chat destinations.
LateHotVerdictFollowsUp ==
  [][\A i \in Item, d \in Destination :
       (/\ enrichment[i] = NoVerdict /\ enrichment'[i] \in Hot
        /\ IsChat(d) /\ Active(d)
        /\ copies[RowFor(i, d, "new")] > 0 /\ status[RowFor(i, d, "new")] # "pending")
       => status'[RowFor(i, d, "verdict")] # "absent"]_vars
=============================================================================
