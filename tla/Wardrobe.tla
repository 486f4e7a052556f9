------------------------------- MODULE Wardrobe -------------------------------
(***************************************************************************)
(* Which recorded listings are still up.  The site never says "sold", so   *)
(* the liveness checker (engine/liveness.py) reads the public wardrobe of  *)
(* a seller page by page (vinted/client.py) and marks as gone what is      *)
(* recorded (items and sweep_candidates, db/repo.py) and not in it.        *)
(*                                                                         *)
(* Sellers go on uploading and selling while the pages are read, and the   *)
(* poller and the sweeps go on recording.  The rows of one listing in both *)
(* tables are one row here: every statement treats them alike.             *)
(***************************************************************************)
EXTENDS Naturals, FiniteSets, Sequences

CONSTANTS
  Seller, Piece,     \* sellers, and the listings of all of them
  SellerOf,
  Matching,          \* those of them that a search or a sweep records
  Newness,           \* the wardrobe shows the newest first
  PiecesPerPage,     \* WARDROBE_PER_PAGE
  PageCap,           \* WARDROBE_PAGE_CAP
  SellersPerCycle,   \* SELLERS_PER_CYCLE
  MaxTroubles        \* bound: cycles cut short, accounts that are hidden, rows pruned

ASSUME WardrobeAssumption ==
  /\ IsFiniteSet(Piece) /\ IsFiniteSet(Seller)
  /\ SellerOf \in [Piece -> Seller]
  /\ Matching \subseteq Piece
  /\ Newness \in [Piece -> Nat]
  /\ \A k, l \in Piece : Newness[k] = Newness[l] => k = l
  /\ PiecesPerPage \in Nat \ {0} /\ PageCap \in Nat \ {0} /\ SellersPerCycle \in Nat \ {0}
  /\ MaxTroubles \in Nat

VARIABLES
  offer,      \* where each listing is: not uploaded, in the wardrobe, closed there, gone
  rowed,      \* listings with a row in items or sweep_candidates
  unlooked,   \* those whose sold_checked_at is NULL
  soldAt,     \* those whose sold_at is set
  turn,       \* sellers by their last look, 0 the latest: sold_checked_at of their rows
  recent,     \* sellers looked at less than RECHECK_AFTER_S ago
  reader,     \* the checker: where it is, and the locals of check_due
  steady,     \* history: on sale since the read of this wardrobe began, nothing left it, and
              \* no answer of the read left the listing out
  troubles

wardrobeVars == <<offer, rowed, unlooked, soldAt, turn, recent, reader, steady, troubles>>

ReaderAt == {"idle", "page", "look", "mark"}

\* due, the page to read, wardrobe.statuses, which of them are closed, wardrobe.complete,
\* and what is about to be marked.
Reader == [at : ReaderAt, due : Seq(Seller), page : 1 .. PageCap, seen : SUBSET Piece,
           closed : SUBSET Piece, complete : BOOLEAN, gone : SUBSET Piece]

Reading(due) == [at |-> IF due = <<>> THEN "idle" ELSE "page", due |-> due, page |-> 1,
                 seen |-> {}, closed |-> {}, complete |-> FALSE, gone |-> {}]

WardrobeTypeOK ==
  /\ offer \in [Piece -> {"ahead", "up", "closed", "away"}]
  /\ rowed \subseteq Piece
  /\ unlooked \subseteq rowed /\ soldAt \subseteq rowed
  /\ turn \in [Seller -> Nat]
  /\ recent \subseteq Seller
  /\ reader \in Reader
  /\ steady \subseteq Piece
  /\ troubles \in 0 .. MaxTroubles

WardrobeInit ==
  /\ offer = [l \in Piece |-> "ahead"]
  /\ rowed = {} /\ unlooked = {} /\ soldAt = {}
  /\ turn \in [Seller -> 0 .. Cardinality(Seller) - 1]
  /\ \A s, t \in Seller : turn[s] = turn[t] => s = t
  /\ recent = {}
  /\ reader = Reading(<<>>)
  /\ steady = {}
  /\ troubles = 0

-----------------------------------------------------------------------------
(* The site, and the rest of the program. *)

OfSeller(s) == {l \in Piece : SellerOf[l] = s}
OnSale(s) == {l \in OfSeller(s) : offer[l] = "up"}
InWardrobe(s) == {l \in OfSeller(s) : offer[l] \in {"up", "closed"}}

UploadPiece(l) ==
  /\ offer[l] = "ahead"
  /\ offer' = [offer EXCEPT ![l] = "up"]
  /\ UNCHANGED <<rowed, unlooked, soldAt, turn, recent, reader, steady, troubles>>

\* Sold or reserved, and still shown: it matters where there is a row.
ClosePiece(l) ==
  /\ l \in rowed /\ offer[l] = "up"
  /\ offer' = [offer EXCEPT ![l] = "closed"]
  /\ steady' = steady \ {l}
  /\ UNCHANGED <<rowed, unlooked, soldAt, turn, recent, reader, troubles>>

\* Sold or withdrawn: what stood behind it moves up, perhaps onto a page already read.
TakeDown(l) ==
  /\ offer[l] \in {"up", "closed"}
  /\ offer' = [offer EXCEPT ![l] = "away"]
  /\ steady' = steady \ OfSeller(SellerOf[l])
  /\ UNCHANGED <<rowed, unlooked, soldAt, turn, recent, reader, troubles>>

\* record_new_items or record_sweep_candidates, with sold_checked_at and sold_at NULL.
RecordPiece(l) ==
  /\ l \in Matching /\ offer[l] = "up" /\ l \notin rowed
  /\ rowed' = rowed \cup {l}
  /\ unlooked' = unlooked \cup {l}
  /\ UNCHANGED <<offer, soldAt, turn, recent, reader, steady, troubles>>

\* prune_items, by age; a candidate of a sweep that is too old to be looked at again counts
\* as pruned here.
PrunePiece(l) ==
  /\ l \in rowed /\ troubles < MaxTroubles
  /\ rowed' = rowed \ {l} /\ unlooked' = unlooked \ {l} /\ soldAt' = soldAt \ {l}
  /\ troubles' = troubles + 1
  /\ UNCHANGED <<offer, turn, recent, reader, steady>>

\* RECHECK_AFTER_S passes for the seller looked at longest ago.
ClockTicks ==
  /\ \E s \in recent : /\ \A t \in recent : turn[t] <= turn[s]
                      /\ recent' = recent \ {s}
  /\ UNCHANGED <<offer, rowed, unlooked, soldAt, turn, reader, steady, troubles>>

-----------------------------------------------------------------------------
(* The checker. *)

LiveRows(s) == {l \in OfSeller(s) \cap rowed : l \notin soldAt}

NeverLooked(s) == LiveRows(s) \cap unlooked # {}

\* Mutant: a seller is looked at once.
DueOnce(s) == NeverLooked(s)

LookIsDue(s) == LiveRows(s) # {} /\ (NeverLooked(s) \/ s \notin recent)

\* MIN(checked), which is 0 for a seller with a row nobody looked at; all other rows of a
\* seller carry the same look.
LongerAgo(s, t) ==
  \/ NeverLooked(s) /\ ~NeverLooked(t)
  \/ ~NeverLooked(s) /\ ~NeverLooked(t) /\ turn[s] > turn[t]

\* ORDER BY oldest LIMIT: sellers_due_liveness.
IsDueList(due) ==
  LET taken == {due[i] : i \in DOMAIN due}
  IN  /\ \A i, j \in DOMAIN due : i < j => due[i] # due[j] /\ ~LongerAgo(due[j], due[i])
      /\ \A s \in taken : LookIsDue(s)
      /\ \A s \in {t \in Seller : LookIsDue(t)} \ taken :
           Len(due) = SellersPerCycle /\ \A t \in taken : ~LongerAgo(s, t)

StartCycle ==
  /\ reader.at = "idle"
  /\ \E n \in 1 .. SellersPerCycle : \E due \in [1 .. n -> Seller] :
       /\ IsDueList(due)
       /\ reader' = Reading(due)
       /\ steady' = OnSale(Head(due))
  /\ UNCHANGED <<offer, rowed, unlooked, soldAt, turn, recent, troubles>>

\* The page a listing stands on: the newest first.
PageOf(l) ==
  Cardinality({k \in InWardrobe(SellerOf[l]) : Newness[k] > Newness[l]}) \div PiecesPerPage + 1

TotalPages(s) == (Cardinality(InWardrobe(s)) + PiecesPerPage - 1) \div PiecesPerPage

\* Mutant: the range of pages ends one too late.
PastCap(page) == page > PageCap

AtCap(page) == page = PageCap

\* seller_wardrobe asks for the next page as long as the answer names more of them; an answer
\* that names no total ends the read as a complete one.  Entries without an integer id are not
\* counted.  A total that is named is the true one.
ReadWardrobePage ==
  /\ reader.at = "page"
  /\ LET s == Head(reader.due)
         shown == {l \in InWardrobe(s) : PageOf(l) = reader.page}
     IN  \E counted \in SUBSET shown, named \in BOOLEAN :
           LET seen == reader.seen \cup counted
               last == ~named \/ reader.page >= TotalPages(s)
           IN  /\ reader' = [reader EXCEPT
                    !.at = IF last \/ AtCap(reader.page) THEN "look" ELSE "page",
                    !.page = IF last \/ AtCap(@) THEN @ ELSE @ + 1,
                    !.seen = seen,
                    !.closed = (@ \ counted) \cup {l \in counted : offer[l] = "closed"},
                    !.complete = last]
               /\ steady' = IF named THEN steady \ (shown \ seen) ELSE steady \cap seen
  /\ UNCHANGED <<offer, rowed, unlooked, soldAt, turn, recent, troubles>>

\* The account is hidden or deleted: nothing is known, and the look is noted.
WardrobeHidden ==
  /\ reader.at = "page" /\ troubles < MaxTroubles
  /\ reader' = [Reading(reader.due) EXCEPT !.at = "mark"]
  /\ troubles' = troubles + 1
  /\ UNCHANGED <<offer, rowed, unlooked, soldAt, turn, recent, steady>>

\* Any error of the site ends the cycle, and so does a restart.
CycleEnds ==
  /\ reader.at # "idle" /\ troubles < MaxTroubles
  /\ reader' = Reading(<<>>)
  /\ steady' = {}
  /\ troubles' = troubles + 1
  /\ UNCHANGED <<offer, rowed, unlooked, soldAt, turn, recent>>

\* Mutant: a read cut off at the page cap counts as a full one.
AnyReadIsFull(recorded) == (reader.closed \cap recorded) \cup (recorded \ reader.seen)

\* Only a full read makes absence meaningful.
Missing(recorded) ==
  (reader.closed \cap recorded) \cup (IF reader.complete THEN recorded \ reader.seen ELSE {})

\* live_item_ids is read once the wardrobe has been.
CompareRows ==
  /\ reader.at = "look"
  /\ reader' = [Reading(reader.due) EXCEPT
                  !.at = "mark", !.gone = Missing(LiveRows(Head(reader.due)))]
  /\ UNCHANGED <<offer, rowed, unlooked, soldAt, turn, recent, steady, troubles>>

\* record_liveness: one transaction.
RecordLiveness ==
  /\ reader.at = "mark"
  /\ LET s == Head(reader.due)
         rest == Tail(reader.due)
     IN  /\ unlooked' = unlooked \ LiveRows(s)
         /\ turn' = [t \in Seller |-> IF t = s THEN 0
                                     ELSE IF turn[t] < turn[s] THEN turn[t] + 1 ELSE turn[t]]
         /\ recent' = recent \cup {s}
         /\ soldAt' = soldAt \cup (reader.gone \cap rowed)
         /\ reader' = Reading(rest)
         /\ steady' = IF rest = <<>> THEN {} ELSE OnSale(Head(rest))
  /\ UNCHANGED <<offer, rowed, troubles>>

CheckerStep == StartCycle \/ ReadWardrobePage \/ CompareRows \/ RecordLiveness

WardrobeNext ==
  \/ \E l \in Piece : \/ UploadPiece(l) \/ ClosePiece(l) \/ TakeDown(l)
                      \/ RecordPiece(l) \/ PrunePiece(l)
  \/ ClockTicks \/ CheckerStep \/ WardrobeHidden \/ CycleEnds

\* The hourly cycle and the clock go on.
WardrobeSpec ==
  /\ WardrobeInit /\ [][WardrobeNext]_wardrobeVars
  /\ WF_wardrobeVars(CheckerStep) /\ WF_wardrobeVars(ClockTicks)

-----------------------------------------------------------------------------
(* Properties. *)

\* A listing that is on sale from the first page read to the last, in a wardrobe nothing
\* leaves meanwhile, is not marked gone, however many are uploaded and recorded meanwhile
\* (check_due, seller_wardrobe), unless an answer left it out: its entry had no integer id, or
\* an answer named no total of pages before its page was read.  Those the code does mark gone.
SteadyIsKept == [][(soldAt' \ soldAt) \cap steady = {}]_wardrobeVars

\* A recorded listing that left the wardrobe is marked gone in the end, unless its row is
\* pruned first or the wardrobe has more pages than are read: whatever was unreadable is
\* looked at again ("the next cycle picks these sellers up again", check_due).
GoneIsNoticed ==
  \A l \in Matching :
    (l \in rowed /\ offer[l] = "away")
      ~> (l \in soldAt \/ l \notin rowed \/ TotalPages(SellerOf[l]) > PageCap)
=============================================================================
