---------------------------- MODULE MCDashboard ----------------------------
(***************************************************************************)
(* What the owner starts and sets, checked in one run.  The components     *)
(* share no state with one another, so nothing is lost by letting one of   *)
(* them move in a behaviour: the initial state picks which, and the others *)
(* stay at theirs.                                                         *)
(***************************************************************************)
EXTENDS Sweep, Throttle, Settings

VARIABLE part   \* the component that moves in this behaviour

dashboardVars == <<part, sweepVars, throttleVars, settingsVars>>

Init ==
  /\ part \in {"sweep", "throttle", "settings"}
  /\ SweepInit /\ ThrottleInit /\ SettingsInit

\* Every part but the one that moves stays as it is.
Rest ==
  /\ part' = part
  /\ part # "sweep" => UNCHANGED sweepVars
  /\ part # "throttle" => UNCHANGED throttleVars
  /\ part # "settings" => UNCHANGED settingsVars

Next ==
  \/ part = "sweep" /\ SweepNext /\ Rest
  \/ part = "throttle" /\ ThrottleNext /\ Rest
  \/ part = "settings" /\ SettingsNext /\ Rest

\* The fairness of the sweep's own specification.
DashboardSpec ==
  /\ Init /\ [][Next]_dashboardVars
  /\ \A r \in Run : WF_sweepVars(part = "sweep" /\ SweepStep(r))

\* Two forms, or one form beside a clone.
FewAtOnce == clones = 0 \/ \E t \in Tab : \A u \in Tab \ {t} : tab[u].at = "closed"

\* The second run finds nothing on sale.
MCStock == [r \in Run |-> IF r = "r1" THEN Listing ELSE {}]

MCTitleRank == [l \in Listing |-> CASE l = "a" -> 1 [] l = "b" -> 2 [] OTHER -> 3]
=============================================================================
