------------------------------ MODULE MCChores ------------------------------
(***************************************************************************)
(* The chores behind the alerts, checked in one run.  The components       *)
(* share no state with one another, so nothing is lost by letting one of   *)
(* them move in a behaviour: the initial state picks which, and the others *)
(* stay at theirs.                                                         *)
(***************************************************************************)
EXTENDS Searches, Wardrobe, Watchdog, Notices, Pacing, MCMigrations

VARIABLE part   \* the component that moves in this behaviour

choresVars == <<part, searchesVars, wardrobeVars, watchdogVars, noticesVars, pacingVars, migrationVars>>

Init ==
  /\ part \in {"searches", "wardrobe", "watchdog", "notices", "pacing", "migrations"}
  /\ SearchesInit /\ WardrobeInit /\ WatchdogInit /\ NoticesInit /\ PacingInit /\ MigrationsInit
  /\ part # "wardrobe" => turn["ada"] = 0

\* Every part but the one that moves stays as it is.
Rest ==
  /\ part' = part
  /\ part # "searches" => UNCHANGED searchesVars
  /\ part # "wardrobe" => UNCHANGED wardrobeVars
  /\ part # "watchdog" => UNCHANGED watchdogVars
  /\ part # "notices" => UNCHANGED noticesVars
  /\ part # "pacing" => UNCHANGED pacingVars
  /\ part # "migrations" => UNCHANGED migrationVars

Next ==
  \/ part = "searches" /\ SearchesNext /\ Rest
  \/ part = "wardrobe" /\ WardrobeNext /\ Rest
  \/ part = "watchdog" /\ WatchdogNext /\ Rest
  \/ part = "notices" /\ NoticesNext /\ Rest
  \/ part = "pacing" /\ PacingNext /\ Rest
  \/ part = "migrations" /\ MigrationsNext /\ Rest

\* The fairness of each module's own specification.
ChoresSpec ==
  /\ Init /\ [][Next]_choresVars
  /\ WF_searchesVars(part = "searches" /\ Reconcile)
  /\ WF_wardrobeVars(part = "wardrobe" /\ CheckerStep)
  /\ WF_wardrobeVars(part = "wardrobe" /\ ClockTicks)
  /\ WF_watchdogVars(part = "watchdog" /\ WatchdogStep)

\* The type invariant: every component's.
ChoresTypeOK ==
  /\ SearchesTypeOK /\ WardrobeTypeOK /\ WatchdogTypeOK
  /\ NoticesTypeOK /\ PacingTypeOK /\ MigrationsTypeOK

MCSellerOf == [l \in Piece |-> IF l = "other" THEN "eve" ELSE "ada"]
MCNewness == [l \in Piece |-> CASE l = "old" -> 1 [] l = "mid" -> 2 [] l = "new" -> 3
                                [] OTHER -> 4]
MCSiteOf == [q \in Search |-> "fr"]
=============================================================================
