--------------------------------- MODULE Sweep ---------------------------------
(***************************************************************************)
(* A sweep: one look at the stock that is already on sale, ranked by its   *)
(* titles, then by a photo check, and then by a few full opinions that     *)
(* cost money (engine/sweep.py), started from the dashboard behind a flag  *)
(* (web/server.py) or from the command line (cli.py), and written down     *)
(* step by step in sweep_runs and sweep_candidates (db/repo.py).           *)
(*                                                                         *)
(* Every action ends at an await: the process can stop there, and another  *)
(* run can take a step.  Title, price and id are abstracted to one         *)
(* ranking of the listings, an answer of the photo check to how it ranks,  *)
(* and what a call to the flows costs to one unit.                         *)
(***************************************************************************)
EXTENDS Naturals, FiniteSets

CONSTANTS
  Run,          \* ids of sweep_runs
  Listing,
  Stock,        \* what is on sale for the search of each run
  TitleRank,    \* _rank_key: the smaller the better, no two listings alike
  Eligible,     \* listings that pass SWEEP_GATES
  PerPage, MaxPages, MaxItems, BatchSize, MaxVerdicts,
  MaxStops      \* bound: shutdowns and crashes of the process

ASSUME SweepAssumption ==
  /\ IsFiniteSet(Listing)
  /\ Stock \in [Run -> SUBSET Listing]
  /\ TitleRank \in [Listing -> Nat]
  /\ \A k, l \in Listing : TitleRank[k] = TitleRank[l] => k = l
  /\ Eligible \subseteq Listing
  /\ PerPage \in Nat \ {0} /\ MaxPages \in Nat \ {0} /\ MaxItems \in Nat \ {0}
  /\ BatchSize \in Nat \ {0}
  /\ MaxVerdicts \in Nat
  /\ MaxStops \in Nat

VARIABLES
  sweepStatus,   \* sweep_runs.status
  billed,        \* sweep_runs.tokens and cost_eur
  candidates,    \* sweep_candidates: the listings each run stored
  triage,        \* their matches_target and confidence
  verdicts,      \* those with a judged_at
  sweeping,      \* the dashboard's flag: a sweep is in flight
  serving,       \* the process is up
  job,           \* the task of each run: where it is and its locals
  spent,         \* history: units the flows reported
  abandoned,     \* history: runs whose task ended before it could close its row
  stops

sweepTables == <<sweepStatus, billed, candidates, triage, verdicts>>
sweepVars == <<sweepTables, sweeping, serving, job, spent, abandoned, stops>>

SweepFinal == {"ok", "partial", "blocked"}

\* matches_target with its confidence, by _match_rank: a sure yes before a doubtful one,
\* both before a listing nobody looked at, and that before a no.
Yes == 3
Doubtful == 2
Unseen == 1
No == 0
TriageAnswer == {Yes, Doubtful, Unseen, No}
NoAnswers == [l \in Listing |-> Unseen]

JobAt == {"off", "open", "page", "hold", "store", "ask", "note", "bill", "opinion", "keep",
          "pay", "close", "rescue", "end", "over"}

\* Who started it: the dashboard, or the command line with or without --judge.
Starter == {"dashboard", "judge", "plain"}

\* pages_fetched, collected, status, the ids already sent, the answers of the batch in
\* flight, outcomes, and the winners no opinion was bought for yet.
Job == [at : JobAt, by : Starter, pages : 0 .. MaxPages, collected : SUBSET Listing, outcome : SweepFinal,
        sent : SUBSET Listing, reply : [Listing -> TriageAnswer],
        outcomes : [Listing -> TriageAnswer], winners : SUBSET Listing]

NoJob(at, by) == [at |-> at, by |-> by, pages |-> 0, collected |-> {}, outcome |-> "ok", sent |-> {},
                  reply |-> NoAnswers, outcomes |-> NoAnswers, winners |-> {}]

SweepTypeOK ==
  /\ sweepStatus \in [Run -> SweepFinal \cup {"none", "running"}]
  /\ billed \in [Run -> Nat]
  /\ candidates \in [Run -> SUBSET Listing]
  /\ triage \in [Run -> [Listing -> TriageAnswer]]
  /\ verdicts \in [Run -> SUBSET Listing]
  /\ sweeping \in BOOLEAN
  /\ serving \in BOOLEAN
  /\ job \in [Run -> Job]
  /\ spent \in [Run -> Nat]
  /\ abandoned \subseteq Run
  /\ stops \in 0 .. MaxStops

SweepInit ==
  /\ sweepStatus = [r \in Run |-> "none"]
  /\ billed = [r \in Run |-> 0]
  /\ candidates = [r \in Run |-> {}]
  /\ triage = [r \in Run |-> NoAnswers]
  /\ verdicts = [r \in Run |-> {}]
  /\ sweeping = FALSE
  /\ serving = TRUE
  /\ job = [r \in Run |-> NoJob("off", "dashboard")]
  /\ spent = [r \in Run |-> 0]
  /\ abandoned = {}
  /\ stops = 0

-----------------------------------------------------------------------------
(* The two orders. *)

\* The n listings of L that come first under Before.
FirstOf(n, L, Before(_, _)) == {l \in L : Cardinality({k \in L : Before(k, l)}) < n}

TitleBefore(k, l) == TitleRank[k] < TitleRank[l]

\* _triage_key over answers.
TriageBefore(answers, k, l) ==
  \/ answers[k] > answers[l]
  \/ answers[k] = answers[l] /\ TitleBefore(k, l)

\* The best of what the funnel let through.
Funnel(collected) == FirstOf(MaxItems, collected \cap Eligible, TitleBefore)

\* _batches: the next candidates no request carried yet.
Batch(r) == FirstOf(BatchSize, candidates[r] \ job[r].sent, TitleBefore)

Recognised(r, answers) == {l \in candidates[r] : answers[l] \in {Yes, Doubtful}}

\* The best of them, in the order a reader of the table sees.
BestRecognised(r, answers) ==
  LET Before(k, l) == TriageBefore(answers, k, l)
  IN  FirstOf(MaxVerdicts, Recognised(r, answers), Before)

\* Mutant: the slice is taken in the order of the titles.
BestTitles(r) == FirstOf(MaxVerdicts, Recognised(r, job[r].outcomes), TitleBefore)

\* What the verdict stage may buy, sliced before a single request exists, by the answers in
\* memory.
Winners(r) == BestRecognised(r, job[r].outcomes)

-----------------------------------------------------------------------------
(* The dashboard's endpoint and the command line. *)

SweepGoTo(r, at) == job' = [job EXCEPT ![r].at = at]

InFlight(r) == job[r].at \notin {"off", "over"}
OfDashboard(r) == job[r].by = "dashboard"

\* Mutant: the handler looks for an open row instead of a flag.
ClaimByTable(r) ==
  /\ \A q \in Run : OfDashboard(q) => sweepStatus[q] # "running"
  /\ sweeping' = TRUE

\* The flag is tested and claimed before the first await of the handler.
ClaimFlag(r) == ~sweeping /\ sweeping' = TRUE

LaunchSweep(r, by) ==
  /\ sweepStatus[r] = "none" /\ job[r].at = "off"
  /\ IF by = "dashboard" THEN serving /\ ClaimFlag(r) ELSE UNCHANGED sweeping
  /\ job' = [job EXCEPT ![r] = NoJob("open", by)]
  /\ UNCHANGED <<sweepTables, serving, spent, abandoned, stops>>

CreateSweepRun(r) ==
  /\ job[r].at = "open"
  /\ sweepStatus' = [sweepStatus EXCEPT ![r] = "running"]
  /\ SweepGoTo(r, "page")
  /\ UNCHANGED <<billed, candidates, triage, verdicts, sweeping, serving, spent, abandoned,
                 stops>>

\* The row could not be opened: the flag is released and the request fails.
CreateFails(r) ==
  /\ job[r].at = "open"
  /\ job' = [job EXCEPT ![r] = NoJob("off", "dashboard")]
  /\ sweeping' = IF OfDashboard(r) THEN FALSE ELSE sweeping
  /\ UNCHANGED <<sweepTables, serving, spent, abandoned, stops>>

-----------------------------------------------------------------------------
(* run_sweep: reading pages and storing what they hold. *)

\* A short page, enough listings or the last page ends the paging.
ReadPage(r) ==
  /\ job[r].at = "page"
  /\ \E found \in SUBSET Stock[r] :
       /\ Cardinality(found) <= PerPage
       /\ LET collected == job[r].collected \cup found
              more == /\ Cardinality(found) = PerPage
                      /\ Cardinality(collected) < MaxItems
                      /\ job[r].pages + 1 < MaxPages
          IN  job' = [job EXCEPT ![r].at = IF more THEN "page" ELSE "store",
                                 ![r].pages = @ + 1,
                                 ![r].collected = collected]
  /\ UNCHANGED <<sweepTables, sweeping, serving, spent, abandoned, stops>>

\* A refusal closes the site's gate, another error of the site does not; both end the
\* paging and leave what was read.
PageFails(r) ==
  /\ job[r].at = "page"
  /\ \E end \in {<<"blocked", "hold">>, <<"partial", "store">>} :
       job' = [job EXCEPT ![r].outcome = end[1], ![r].at = end[2]]
  /\ UNCHANGED <<sweepTables, sweeping, serving, spent, abandoned, stops>>

\* _hold_site: Site has the gate and the state it writes.
HoldSite(r) ==
  /\ job[r].at = "hold"
  /\ SweepGoTo(r, "store")
  /\ UNCHANGED <<sweepTables, sweeping, serving, spent, abandoned, stops>>

\* Mutant: run_sweep closes the row of a run that is judged, too.
CloseEarly(r) == sweepStatus' = [sweepStatus EXCEPT ![r] = job[r].outcome]

\* The row stays open: only judge_sweep closes a run it will spend money on.
LeaveOpen(r) == UNCHANGED sweepStatus

\* With nothing to judge, and on a run without --judge, the run ends here.
StoreCandidates(r) ==
  LET kept == Funnel(job[r].collected)
  IN  /\ job[r].at = "store"
      /\ candidates' = [candidates EXCEPT ![r] = @ \cup kept]
      /\ job' = [job EXCEPT
                   ![r].at = IF job[r].by = "plain" \/ job[r].outcome # "ok" \/ kept = {}
                               THEN "close" ELSE "ask",
                   ![r].pages = 0, ![r].collected = {}]
      /\ LeaveOpen(r)
      /\ UNCHANGED <<billed, triage, verdicts, sweeping, serving, spent, abandoned, stops>>

-----------------------------------------------------------------------------
(* judge_sweep: the photo check, batch by batch. *)

\* The flow answers for some listings of the batch; ids nobody sent are dropped.
AnswerBatch(r) ==
  /\ job[r].at = "ask"
  /\ \E answers \in [Batch(r) -> TriageAnswer] :
       job' = [job EXCEPT ![r].at = "note",
                          ![r].reply = [l \in Listing |-> IF l \in Batch(r) THEN answers[l]
                                                          ELSE Unseen]]
  /\ spent' = [spent EXCEPT ![r] = @ + 1]
  /\ UNCHANGED <<sweepTables, sweeping, serving, abandoned, stops>>

\* A failed batch ends the stage, and the expensive one is not opened; what it may have cost
\* nobody learns.
BatchFails(r) ==
  /\ job[r].at = "ask"
  /\ job' = [job EXCEPT ![r].outcome = "partial", ![r].at = "close"]
  /\ UNCHANGED <<sweepTables, sweeping, serving, spent, abandoned, stops>>

Over(reply, old) ==
  [l \in Listing |-> IF reply[l] # Unseen THEN reply[l] ELSE old[l]]

RecordTriage(r) ==
  /\ job[r].at = "note"
  /\ triage' = [triage EXCEPT ![r] =
                  [l \in Listing |-> IF l \in candidates[r] THEN Over(job[r].reply, @)[l]
                                     ELSE @[l]]]
  /\ job' = [job EXCEPT ![r].at = "bill", ![r].outcomes = Over(job[r].reply, @)]
  /\ UNCHANGED <<sweepStatus, billed, candidates, verdicts, sweeping, serving, spent,
                 abandoned, stops>>

\* Mutant: what a stage spent replaces the total.
SetSweepCost(r) == billed' = [billed EXCEPT ![r] = 1]

AddSweepCost(r) == billed' = [billed EXCEPT ![r] = @ + 1]

\* After the last batch the winners are chosen from the answers in memory.
BillBatch(r) ==
  LET sent == job[r].sent \cup Batch(r)
      winners == Winners(r)
      next == CASE candidates[r] \ sent # {} -> "ask"
                [] candidates[r] \ sent = {} /\ winners # {} -> "opinion"
                [] OTHER -> "close"
  IN  /\ job[r].at = "bill"
      /\ AddSweepCost(r)
      /\ job' = [job EXCEPT ![r].at = next, ![r].sent = sent, ![r].reply = NoAnswers,
                            ![r].winners = IF next = "opinion" THEN winners ELSE {}]
      /\ UNCHANGED <<sweepStatus, candidates, triage, verdicts, sweeping, serving, spent,
                     abandoned, stops>>

-----------------------------------------------------------------------------
(* _buy_verdicts: one full opinion per winner, best first. *)

IsNextWinner(r, l) ==
  /\ l \in job[r].winners
  /\ \A k \in job[r].winners \ {l} : TriageBefore(job[r].outcomes, l, k)

AnswerOpinion(r) ==
  /\ job[r].at = "opinion"
  /\ SweepGoTo(r, "keep")
  /\ spent' = [spent EXCEPT ![r] = @ + 1]
  /\ UNCHANGED <<sweepTables, sweeping, serving, abandoned, stops>>

\* On to the next winner, if there is one.
Pass(r, outcome) ==
  \E l \in Listing :
    LET left == job[r].winners \ {l}
    IN  /\ IsNextWinner(r, l)
        /\ job' = [job EXCEPT ![r].winners = left, ![r].outcome = outcome,
                              ![r].at = IF left = {} THEN "close" ELSE "opinion"]

\* A refusal costs that one candidate its opinion and the run its "ok".
OpinionFails(r) ==
  /\ job[r].at = "opinion"
  /\ Pass(r, "partial")
  /\ UNCHANGED <<sweepTables, sweeping, serving, spent, abandoned, stops>>

RecordVerdict(r) ==
  /\ job[r].at = "keep"
  /\ \E l \in Listing : /\ IsNextWinner(r, l)
                        /\ verdicts' = [verdicts EXCEPT ![r] = @ \cup {l}]
  /\ SweepGoTo(r, "pay")
  /\ UNCHANGED <<sweepStatus, billed, candidates, triage, sweeping, serving, spent,
                 abandoned, stops>>

PayVerdict(r) ==
  /\ job[r].at = "pay"
  /\ AddSweepCost(r)
  /\ Pass(r, job[r].outcome)
  /\ UNCHANGED <<sweepStatus, candidates, triage, verdicts, sweeping, serving, spent,
                 abandoned, stops>>

-----------------------------------------------------------------------------
(* The end of a run, on every path. *)

CloseRun(r) ==
  /\ job[r].at = "close"
  /\ sweepStatus' = [sweepStatus EXCEPT ![r] = job[r].outcome]
  /\ SweepGoTo(r, "end")
  /\ UNCHANGED <<billed, candidates, triage, verdicts, sweeping, serving, spent, abandoned,
                 stops>>

\* Something nobody anticipated, a locked database say.  The command line has no handler.
SweepRaises(r) ==
  /\ job[r].at \in {"page", "hold", "store", "note", "bill", "keep", "pay", "close"}
  /\ SweepGoTo(r, IF OfDashboard(r) THEN "rescue" ELSE "end")
  /\ abandoned' = IF OfDashboard(r) THEN abandoned ELSE abandoned \cup {r}
  /\ UNCHANGED <<sweepTables, sweeping, serving, spent, stops>>

\* _run_magic_sweep closes a row that is still open, and never raises itself unless the
\* database refuses this, too.
RescueSweep(r) ==
  /\ job[r].at = "rescue"
  /\ SweepGoTo(r, "end")
  /\ \/ /\ sweepStatus' = [sweepStatus EXCEPT ![r] = IF @ = "running" THEN "partial" ELSE @]
        /\ UNCHANGED abandoned
     \/ /\ abandoned' = abandoned \cup {r}
        /\ UNCHANGED sweepStatus
  /\ UNCHANGED <<billed, candidates, triage, verdicts, sweeping, serving, spent, stops>>

\* Mutant: only a run that closed its row frees the endpoint.
ReleaseIfClosed(r) ==
  sweeping' = IF OfDashboard(r) /\ sweepStatus[r] \in SweepFinal THEN FALSE ELSE sweeping

\* The finally of run() frees the endpoint.
ReleaseFlag(r) == sweeping' = IF OfDashboard(r) THEN FALSE ELSE sweeping

EndSweep(r) ==
  /\ job[r].at = "end"
  /\ ReleaseFlag(r)
  /\ job' = [job EXCEPT ![r] = NoJob("over", "dashboard")]
  /\ UNCHANGED <<sweepTables, serving, spent, abandoned, stops>>

\* serve() cancels what is in flight, and a crash ends it: the rows stay "running".
StopServing ==
  /\ serving /\ stops < MaxStops
  /\ serving' = FALSE /\ sweeping' = FALSE /\ stops' = stops + 1
  /\ job' = [r \in Run |->
               IF OfDashboard(r) /\ InFlight(r)
                 THEN NoJob(IF sweepStatus[r] = "none" THEN "off" ELSE "over", "dashboard")
                 ELSE job[r]]
  /\ abandoned' = abandoned \cup
       {r \in Run : OfDashboard(r) /\ InFlight(r) /\ sweepStatus[r] = "running"}
  /\ UNCHANGED <<sweepTables, spent>>

\* Ctrl-C on the command line.
Interrupt(r) ==
  /\ ~OfDashboard(r) /\ InFlight(r) /\ stops < MaxStops
  /\ stops' = stops + 1
  /\ job' = [job EXCEPT ![r] = NoJob(IF sweepStatus[r] = "none" THEN "off" ELSE "over",
                                     "dashboard")]
  /\ abandoned' = IF sweepStatus[r] = "running" THEN abandoned \cup {r} ELSE abandoned
  /\ UNCHANGED <<sweepTables, sweeping, serving, spent>>

ServeAgain ==
  /\ ~serving
  /\ serving' = TRUE
  /\ UNCHANGED <<sweepTables, sweeping, job, spent, abandoned, stops>>

SweepStep(r) ==
  \/ CreateSweepRun(r) \/ CreateFails(r)
  \/ ReadPage(r) \/ PageFails(r) \/ HoldSite(r) \/ StoreCandidates(r)
  \/ AnswerBatch(r) \/ BatchFails(r) \/ RecordTriage(r) \/ BillBatch(r)
  \/ AnswerOpinion(r) \/ OpinionFails(r) \/ RecordVerdict(r) \/ PayVerdict(r)
  \/ CloseRun(r) \/ SweepRaises(r) \/ RescueSweep(r) \/ EndSweep(r)

SweepNext ==
  \/ \E r \in Run : (\E by \in Starter : LaunchSweep(r, by)) \/ SweepStep(r) \/ Interrupt(r)
  \/ StopServing \/ ServeAgain

\* A task that can run does run; nobody has to start a sweep.
SweepSpec == SweepInit /\ [][SweepNext]_sweepVars /\ \A r \in Run : WF_sweepVars(SweepStep(r))

-----------------------------------------------------------------------------
(* Properties. *)

\* One sweep at a time on the dashboard: a second click while a sweep spends money is
\* refused (magic_search_sweep).
OneSweep ==
  \A q, r \in Run :
    OfDashboard(q) /\ OfDashboard(r) /\ InFlight(q) /\ InFlight(r) => q = r

\* What is read once the row says it is over stays true: a closed run changes neither its
\* status nor its bill, its candidates or an answer ("a poller that stops at no longer
\* running can be believed", _close_run).
FinalIsFinal ==
  [][\A r \in Run : sweepStatus[r] \in SweepFinal =>
       /\ sweepStatus'[r] = sweepStatus[r] /\ billed'[r] = billed[r]
       /\ candidates'[r] = candidates[r] /\ triage'[r] = triage[r]
       /\ verdicts'[r] = verdicts[r]]_sweepVars

\* A run that closes itself, whole or partial, says all the flows reported, and none says
\* more (add_sweep_cost, called as each stage completes).
BillIsWhole ==
  \A r \in Run : /\ billed[r] <= spent[r]
                 /\ job[r].at = "close" \/ sweepStatus[r] \in {"ok", "blocked"}
                      => billed[r] = spent[r]

\* The opinions a run pays for go to the best of the listings the photo check recognised,
\* by the order a reader derives from the rows, and never to more than the ceiling
\* (judge_sweep, triage_order).
OpinionsForTheBest == \A r \in Run : verdicts[r] \subseteq BestRecognised(r, triage[r])

\* The endpoint never stays at 409: whatever happens to a sweep, the dashboard can start the
\* next one (the finally of run()).
EndpointFrees == sweeping ~> ~sweeping

-----------------------------------------------------------------------------
(* Why they hold. *)

Judging == {"ask", "note", "bill", "opinion", "keep", "pay"}
Fetching == {"page", "hold", "store"}

\* The flag covers every task of the dashboard, and there is none without a process.
FlagCovers == \A r \in Run : OfDashboard(r) /\ InFlight(r) => sweeping /\ serving

\* Where the task is tells the row: a row that says "running" is worked on, or it was
\* abandoned, and a row that was closed stays behind a task that is through with it.
RowFollowsTask ==
  \A r \in Run :
    /\ job[r].at \in {"off", "open"} <=> sweepStatus[r] = "none"
    /\ job[r].at \in Judging \cup Fetching \cup {"close"} => sweepStatus[r] = "running"
    /\ sweepStatus[r] = "running" => job[r].at \notin {"end", "over"} \/ r \in abandoned
    /\ sweepStatus[r] \in SweepFinal => job[r].at \in {"end", "over"}

\* At most one answer is reported and not yet billed, and only between the two.
BillFollowsTask ==
  \A r \in Run :
    /\ billed[r] <= spent[r]
    /\ job[r].at \in Fetching \cup {"off", "open", "ask", "opinion", "close"}
         => billed[r] = spent[r]
    /\ job[r].at \in {"note", "bill", "keep", "pay"} => spent[r] = billed[r] + 1
    /\ sweepStatus[r] \in {"ok", "blocked"} => billed[r] = spent[r]

PagesLeft ==
  \A r \in Run : /\ job[r].at = "open" => job[r].pages = 0
                 /\ job[r].at = "page" => job[r].pages < MaxPages

\* The answers in memory are those in the table while a run judges, and the winners were
\* chosen when the last of them was in.
AnswersFollowTask ==
  \A r \in Run :
    /\ job[r].at \in Fetching \cup {"off", "open"}
         => candidates[r] = {} /\ verdicts[r] = {} /\ triage[r] = NoAnswers
    /\ job[r].at \in Fetching \cup {"open"} => job[r].outcomes = NoAnswers
    /\ job[r].at \in Judging => job[r].outcomes = triage[r]
    /\ job[r].at \in {"ask", "note", "bill"} => verdicts[r] = {}
    /\ job[r].at = "note" => \A l \in Listing : job[r].reply[l] # Unseen => l \in candidates[r]
    /\ job[r].at \in {"opinion", "keep", "pay"}
         => job[r].winners \subseteq BestRecognised(r, triage[r])

SweepIInv ==
  /\ SweepTypeOK /\ OneSweep /\ OpinionsForTheBest
  /\ FlagCovers /\ RowFollowsTask /\ BillFollowsTask /\ PagesLeft /\ AnswersFollowTask
=============================================================================
