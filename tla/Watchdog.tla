------------------------------- MODULE Watchdog -------------------------------
(***************************************************************************)
(* Telling a search whose feed is frozen from one that is merely slow      *)
(* (engine/watchdog.py).  Every check of a search leaves in query_state    *)
(* how often in a row the newest listing was the same, and how full the    *)
(* page was (engine/poller.py); every two minutes the watchdog compares    *)
(* the searches of a site, and warns of a frozen one once, with a fresh    *)
(* session if it is set to.  What a rotation does to the site is in Site.  *)
(***************************************************************************)
EXTENDS Naturals, FiniteSets

CONSTANTS
  Search, SiteOf,
  Patience,     \* watchdog_stale_cycles
  Rotates,      \* watchdog_action is "rotate", not "warn"
  MaxRestarts   \* bound

ASSUME WatchdogAssumption ==
  /\ Patience \in Nat /\ Patience >= 2
  /\ Rotates \in BOOLEAN
  /\ MaxRestarts \in Nat

VARIABLES
  feed,      \* what query_state says of each search, and how it compares with its history
  warned,    \* _already_warned
  round,     \* check(): what it found stale and has not reacted to, and where it is
  told,      \* history: searches announced, and seen frozen at every pass since
  lost,      \* history: those whose announcement an exception swallowed
  restarts

watchdogVars == <<feed, warned, round, told, lost, restarts>>

\* stale_cycles, a success less than _RECENT_MOVEMENT_S ago, last_returned = PER_PAGE, and
\* _quiet_for_its_own_standards.
Feed == [cycles : 0 .. Patience, recent : BOOLEAN, full : BOOLEAN, quiet : BOOLEAN]
Round == [at : {"idle", "react", "rotate", "tell"}, on : SUBSET Search, stale : SUBSET Search]
NoRound == [at |-> "idle", on |-> {}, stale |-> {}]

WatchdogTypeOK ==
  /\ feed \in [Search -> Feed]
  /\ warned \subseteq Search
  /\ round \in Round
  /\ told \subseteq Search /\ lost \subseteq Search
  /\ restarts \in 0 .. MaxRestarts

WatchdogInit ==
  /\ feed = [q \in Search |-> [cycles |-> 0, recent |-> FALSE, full |-> FALSE, quiet |-> TRUE]]
  /\ warned = {}
  /\ round = NoRound
  /\ told = {} /\ lost = {}
  /\ restarts = 0

-----------------------------------------------------------------------------
(* The searches. *)

Upto(n) == IF n < Patience THEN n + 1 ELSE n

\* The end of a check: a newer listing, the same one again, or an empty page.
EndsCheck(q) ==
  /\ \E full \in BOOLEAN :
       \/ feed' = [feed EXCEPT ![q] = [cycles |-> 0, recent |-> TRUE, full |-> full,
                                       quiet |-> FALSE]]
       \/ feed' = [feed EXCEPT ![q].cycles = Upto(@), ![q].recent = TRUE, ![q].full = full]
       \/ /\ ~full
          /\ feed' = [feed EXCEPT ![q] = [cycles |-> 0, recent |-> TRUE, full |-> FALSE,
                                          quiet |-> TRUE]]
  /\ UNCHANGED <<warned, round, told, lost, restarts>>

\* Time passes without a success, and without a new listing; retention changes what a
\* usual gap between listings is.
TimePasses(q) ==
  /\ \/ feed[q].recent /\ feed' = [feed EXCEPT ![q].recent = FALSE]
     \/ feed' = [feed EXCEPT ![q].quiet = ~@]
  /\ UNCHANGED <<warned, round, told, lost, restarts>>

-----------------------------------------------------------------------------
(* The watchdog. *)

Moving(site) ==
  \E q \in Search : SiteOf[q] = site /\ feed[q].cycles = 0 /\ feed[q].recent

Silent(q) == feed[q].cycles = Patience /\ feed[q].full /\ feed[q].quiet

\* Mutant: a page that is not full takes it back on a quiet night, too.
EasedAtNight(q) == feed[q].cycles < Patience \/ ~Silent(q)

\* Mutant: a new listing does not take it back.
EasedByPage(q) == feed[q].cycles = Patience /\ Moving(SiteOf[q]) /\ ~Silent(q)

\* What takes the warning back: a new listing, and with the site moving a page that is not
\* full or a gap that is not unusual.
Eased(q) == feed[q].cycles < Patience \/ (Moving(SiteOf[q]) /\ ~Silent(q))

\* As a reader of the log would say it: nothing new, and no other reason not to warn.
StillFrozen(q) == feed[q].cycles = Patience /\ (Moving(SiteOf[q]) => Silent(q))

\* The queries to decide read nothing an action here changes in between.
FindStale ==
  /\ round.at = "idle"
  /\ warned' = {q \in warned : ~Eased(q)}
  /\ told' = {q \in told : StillFrozen(q)}
  /\ lost' = {q \in lost : StillFrozen(q)}
  /\ round' = [at |-> "react", on |-> {},
               stale |-> {q \in Search : Silent(q) /\ Moving(SiteOf[q])}]
  /\ UNCHANGED <<feed, restarts>>

EndRound ==
  /\ round.at = "react" /\ round.stale = {}
  /\ round' = NoRound
  /\ UNCHANGED <<feed, warned, told, lost, restarts>>

\* _react, for the searches found stale, one after the other, unless it was warned of: the
\* flag comes first.
React(q) ==
  /\ round.at = "react" /\ q \in round.stale
  /\ warned' = warned \cup {q}
  /\ round' = [at |-> IF q \in warned THEN "react" ELSE IF Rotates THEN "rotate" ELSE "tell",
               on |-> {q} \ warned, stale |-> round.stale \ {q}]
  /\ UNCHANGED <<feed, told, lost, restarts>>

\* Done, skipped while the site is held, or refused.
RotateSession ==
  /\ round.at = "rotate"
  /\ round' = [round EXCEPT !.at = "tell"]
  /\ UNCHANGED <<feed, warned, told, lost, restarts>>

TellStale(q) ==
  /\ round.at = "tell" /\ q \in round.on
  /\ told' = told \cup {q}
  /\ round' = [at |-> "react", on |-> {}, stale |-> round.stale]
  /\ UNCHANGED <<feed, warned, lost, restarts>>

\* Any other error in the rotation, or one of notify_status, ends the round: run()
\* suppresses it, and the flag stays.
RoundRaises(q) ==
  /\ round.at \in {"rotate", "tell"} /\ q \in round.on
  /\ lost' = lost \cup {q}
  /\ round' = NoRound
  /\ UNCHANGED <<feed, warned, told, restarts>>

\* The flags are in memory.
RestartWatchdog ==
  /\ restarts < MaxRestarts /\ restarts' = restarts + 1
  /\ warned' = {} /\ told' = {} /\ lost' = {}
  /\ round' = NoRound
  /\ UNCHANGED feed

WatchdogStep ==
  \/ FindStale \/ EndRound \/ RotateSession
  \/ \E q \in Search : React(q) \/ TellStale(q)

WatchdogNext ==
  \/ WatchdogStep \/ RestartWatchdog
  \/ \E q \in Search : EndsCheck(q) \/ TimePasses(q) \/ RoundRaises(q)

WatchdogSpec == WatchdogInit /\ [][WatchdogNext]_watchdogVars /\ WF_watchdogVars(WatchdogStep)

-----------------------------------------------------------------------------
(* Properties. *)

\* A feed that stays frozen while its site moves is announced, again if the watchdog has seen
\* it move since the last time, unless an exception swallows the notice (check, _react).
SilenceIsTold ==
  \A q \in Search :
    (Silent(q) /\ Moving(SiteOf[q]))
      ~> (q \in told \cup lost \/ ~Silent(q) \/ ~Moving(SiteOf[q]))

\* One stretch of silence is announced once, whatever became of the rotation and of the
\* notice, and however long the site sleeps in between (_already_warned).
WarnedOnce == [][\A q \in Search : TellStale(q) => q \notin told \cup lost]_watchdogVars

-----------------------------------------------------------------------------
(* Why: the flag comes before the notice and stays until the stretch is over. *)

WatchdogIInv ==
  /\ WatchdogTypeOK
  /\ told \cup lost \subseteq warned
  /\ round.on \subseteq warned \ (told \cup lost)
=============================================================================
