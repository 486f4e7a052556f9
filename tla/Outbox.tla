-------------------------------- MODULE Outbox --------------------------------
(***************************************************************************)
(* The outbox: the table where finding a listing and delivering an alert   *)
(* meet (db/repo.py over db/migrations/0001, 0006, 0008).  Every method of *)
(* Repo is one SQL statement or one transaction behind Database's write    *)
(* lock, so every operator below is one atomic step; the modules that      *)
(* EXTEND this one decide who calls it and what may happen between calls.  *)
(*                                                                         *)
(* A column of the table is a variable, a function of the row's unique     *)
(* key.  Time is two sets of rows: `due` (next_attempt_at has passed) and  *)
(* `stale` (created_at is older than the delivery window).                 *)
(***************************************************************************)
EXTENDS Naturals, FiniteSets

CONSTANTS
  Item,          \* listings
  Destination,   \* configured channels
  KindOf,        \* destinations.kind
  PriceDrop,     \* previous prices a listing can have dropped from
  Verdict,       \* answers an outside agent can give about a listing
  NoVerdict,     \* items.enriched_at IS NULL
  UnderFloor,    \* verdicts scoring under the search's min_enrich_score
  Hot,           \* verdicts at or over followup_min_score that match the query
  Hold           \* enrichment_wait_s > 0: chat alerts wait for a verdict

ChannelKind == {"discord", "telegram", "webhook", "ntfy"}

ASSUME ConstantsAssumption ==
  /\ KindOf \in [Destination -> ChannelKind]
  /\ UnderFloor \subseteq Verdict
  /\ Hot \subseteq Verdict
  /\ NoVerdict \notin Verdict
  /\ Hold \in BOOLEAN
  /\ PriceDrop \cap {"new", "verdict"} = {}

VARIABLES
  items,         \* listings recorded in the items table
  enrichment,    \* the verdict recorded for each listing
  destinations,  \* "active", "inactive" or "deleted", per destination
  status,        \* outbox.status, "absent" where there is no such row
  id,            \* outbox.id, the order rows were inserted in
  attempts,      \* outbox.attempts
  due,           \* rows whose outbox.next_attempt_at is not in the future
  stale,         \* rows whose outbox.created_at is before the delivery window
  next_id        \* AUTOINCREMENT

outbox == <<status, id, attempts, due, stale, next_id>>
tables == <<items, enrichment, destinations, outbox>>

\* UNIQUE (item_id, destination_id, kind, previous_price).
Row == [item : Item, dest : Destination, kind : {"new", "verdict"} \cup PriceDrop]

Status == {"absent", "pending", "sending", "sent", "failed", "cancelled"}

TablesTypeOK ==
  /\ items \subseteq Item
  /\ enrichment \in [Item -> Verdict \cup {NoVerdict}]
  /\ destinations \in [Destination -> {"active", "inactive", "deleted"}]
  /\ status \in [Row -> Status]
  /\ id \in [Row -> Nat]
  /\ attempts \in [Row -> Nat]
  /\ due \subseteq Row
  /\ stale \subseteq Row
  /\ next_id \in Nat

TablesInit ==
  /\ items = {}
  /\ enrichment = [i \in Item |-> NoVerdict]
  /\ destinations = [d \in Destination |-> "active"]
  /\ status = [r \in Row |-> "absent"]
  /\ id = [r \in Row |-> 0]
  /\ attempts = [r \in Row |-> 0]
  /\ due = {}
  /\ stale = {}
  /\ next_id = 1

-----------------------------------------------------------------------------
(* Reading the table. *)

With(s) == {r \in Row : status[r] = s}
Present == Row \ With("absent")
RowsOf(d) == {r \in Row : r.dest = d}
RowFor(i, d, kind) == [item |-> i, dest |-> d, kind |-> kind]
IsChat(d) == KindOf[d] # "webhook"

DestinationsWithWork ==
  {d \in Destination : \E r \in RowsOf(d) : status[r] = "pending" /\ r \in due}

\* The JOIN on items: a row whose listing has been pruned is never claimed.
Claimable(d) == {r \in RowsOf(d) : status[r] = "pending" /\ r \in due /\ r.item \in items}

\* ORDER BY o.id LIMIT limit.
IsNextBatch(B, d, limit) ==
  /\ Cardinality(B) <= limit
  /\ Cardinality(B) < limit => B = Claimable(d)
  /\ \A r \in B, s \in Claimable(d) \ B : id[r] < id[s]

\* _under_score_floor.
ScoredOut(B) ==
  {r \in B : r.kind = "new" /\ IsChat(r.dest) /\ enrichment[r.item] \in UnderFloor}

-----------------------------------------------------------------------------
(* Writing it. *)

\* UPDATE ... WHERE id = ? touches a row whatever its status, if the row is still there.
SetStatus(R, s) ==
  /\ status' = [r \in Row |-> IF r \in R /\ status[r] # "absent" THEN s ELSE status[r]]
  /\ UNCHANGED <<items, enrichment, destinations, id, stale, next_id>>

\* INSERT OR IGNORE, `ready` being the rows that may go out at once.  The rows of one
\* statement go to different destinations: they share its id.
Insert(R, ready, released) ==
  LET new == R \ Present IN
  /\ status' = [r \in Row |-> IF r \in new THEN "pending" ELSE status[r]]
  /\ id' = [r \in Row |-> IF r \in new THEN next_id ELSE id[r]]
  /\ attempts' = [r \in Row |-> IF r \in new THEN 0 ELSE attempts[r]]
  /\ due' = (due \ new) \cup (new \cap ready) \cup released
  /\ stale' = stale \ new
  /\ next_id' = IF new = {} THEN next_id ELSE next_id + 1

\* One listing of a transaction.  The destinations were read earlier: they may be
\* inactive by now, and one that is gone fails the foreign key and the transaction.
RecordNewItem(i, D) ==
  /\ \A d \in D : destinations[d] # "deleted"
  /\ items' = items \cup {i}
  /\ Insert({RowFor(i, d, "new") : d \in D},
            {RowFor(i, d, "new") : d \in {e \in D : ~Hold \/ ~IsChat(e)}}, {})
  /\ UNCHANGED <<enrichment, destinations>>

RecordPriceDrop(i, price, D) ==
  LET R == {RowFor(i, d, price) : d \in D} IN
  /\ i \in items
  /\ \A d \in D : destinations[d] # "deleted"
  /\ Insert(R, R, {})
  /\ UNCHANGED <<items, enrichment, destinations>>

\* Notifications of a listing still waiting for their moment; a verdict releases them.
Held(i) == {r \in Row : r.item = i /\ status[r] = "pending" /\ r \notin due}

\* Mutant: a follow-up rides beside an alert that is still being sent.
AlertedOrSending(i) ==
  {d \in Destination : /\ IsChat(d) /\ destinations[d] = "active"
                       /\ status[RowFor(i, d, "new")] \in {"sent", "sending"}}

AlertedChats(i) ==
  {d \in Destination : /\ IsChat(d) /\ destinations[d] = "active"
                       /\ status[RowFor(i, d, "new")] = "sent"}

FollowUps(i, v) ==
  IF v \in Hot /\ Held(i) = {} THEN {RowFor(i, d, "verdict") : d \in AlertedChats(i)} ELSE {}

StoreEnrichment(i, v) ==
  /\ i \in items
  /\ enrichment' = [enrichment EXCEPT ![i] = v]
  /\ Insert(FollowUps(i, v), FollowUps(i, v), Held(i))
  /\ UNCHANGED <<items, destinations>>

PruneItem(i) ==
  /\ i \in items
  /\ items' = items \ {i}
  /\ enrichment' = [enrichment EXCEPT ![i] = NoVerdict]
  /\ UNCHANGED <<destinations, outbox>>

ClaimBatch(B) == SetStatus(B, "sending") /\ UNCHANGED <<attempts, due>>
MarkSent(R) == SetStatus(R, "sent") /\ UNCHANGED <<attempts, due>>
MarkFailed(R) == SetStatus(R, "failed") /\ UNCHANGED <<attempts, due>>
MarkCancelled(R) == SetStatus(R, "cancelled") /\ UNCHANGED <<attempts, due>>

MarkRetry(R) ==
  /\ SetStatus(R, "pending")
  /\ attempts' = [r \in Row |-> IF r \in R \cap Present THEN attempts[r] + 1 ELSE attempts[r]]
  /\ due' = due \ R

\* Mutant: only what is still inside the delivery window is recovered.
RecoverFreshLeases ==
  SetStatus(With("sending") \ stale, "pending") /\ UNCHANGED <<attempts, due>>

RecoverLeases == SetStatus(With("sending"), "pending") /\ UNCHANGED <<attempts, due>>

\* Mutant: a worker's rows are cancelled under it.
DiscardQueuedFor(d) == MarkCancelled(RowsOf(d) \cap (With("pending") \cup With("sending")))

DiscardPendingFor(d) == MarkCancelled(RowsOf(d) \cap With("pending"))

RestartDeliveryClock(D) ==
  /\ stale' = {r \in stale : ~(r.dest \in D /\ status[r] = "pending")}
  /\ UNCHANGED <<items, enrichment, destinations, status, id, attempts, due, next_id>>

\* Mutant: what waits for a destination that is off never expires.
ExpirableOfActive(held) ==
  {r \in With("pending") \cap stale : destinations[r.dest] = "active" /\ r.dest \notin held}

Expirable(held) == {r \in With("pending") \cap stale : r.dest \notin held}
ExpireStaleNotifications(held) == MarkCancelled(Expirable(held))

\* deactivate_destination and delete_destination are several writes: these are their
\* parts, and callers take them one at a time.
SetDestination(d, state) ==
  /\ destinations' = [destinations EXCEPT ![d] = IF @ = "deleted" THEN @ ELSE state]
  /\ UNCHANGED <<items, enrichment, outbox>>

CancelQueued(d) == MarkCancelled(RowsOf(d) \cap (With("pending") \cup With("sending")))

\* ON DELETE CASCADE takes the destination's outbox rows with it.
DropDestination(d) ==
  /\ destinations' = [destinations EXCEPT ![d] = "deleted"]
  /\ status' = [r \in Row |-> IF r.dest = d THEN "absent" ELSE status[r]]
  /\ UNCHANGED <<items, enrichment, id, attempts, due, stale, next_id>>

-----------------------------------------------------------------------------
(* The clock. *)

BecomesDue(r) ==
  /\ status[r] = "pending" /\ r \notin due
  /\ due' = due \cup {r}
  /\ UNCHANGED <<items, enrichment, destinations, status, id, attempts, stale, next_id>>

BecomesStale(r) ==
  /\ status[r] \in {"pending", "sending"} /\ r \notin stale
  /\ stale' = stale \cup {r}
  /\ UNCHANGED <<items, enrichment, destinations, status, id, attempts, due, next_id>>
=============================================================================
