---------------------------- MODULE SweepProofs ----------------------------
(***************************************************************************)
(* SweepIInv is inductive: a sweep in flight, its row, its bill and its    *)
(* answers agree at every await, for any number of runs and listings.      *)
(***************************************************************************)
EXTENDS Sweep, TLAPS

\* Slices are slices of what they are taken from.
LEMMA SlicesAreParts ==
  /\ \A L \in SUBSET Listing : Funnel(L) \subseteq L
  /\ \A r \in Run : Batch(r) \subseteq candidates[r]
  /\ \A r \in Run : Winners(r) \subseteq candidates[r]
<1>1. \A L \in SUBSET Listing : Funnel(L) \subseteq L
  BY DEF Funnel, FirstOf
<1>2. \A r \in Run : Batch(r) \subseteq candidates[r]
  BY DEF Batch, FirstOf
<1>3. \A r \in Run : Winners(r) \subseteq candidates[r]
  BY DEF Winners, BestRecognised, Recognised, FirstOf
<1> QED
  BY <1>1, <1>2, <1>3

LEMMA NoAnswersType == NoAnswers \in [Listing -> TriageAnswer]
BY DEF NoAnswers, TriageAnswer, Unseen

\* A task that has not begun, or is over, has its types.
LEMMA NoJobTypes ==
  ASSUME NEW at \in JobAt, NEW by \in Starter
  PROVE  NoJob(at, by) \in Job
BY NoAnswersType, SweepAssumption DEF NoJob, Job, SweepFinal

LEMMA SweepTypeInit == SweepInit => SweepTypeOK
<1> SUFFICES ASSUME SweepInit PROVE SweepTypeOK
  OBVIOUS
<1>1. NoJob("off", "dashboard") \in Job
  BY NoJobTypes DEF JobAt, Starter
<1>2. 0 \in 0 .. MaxStops
  BY SweepAssumption
<1> QED
  BY <1>1, <1>2, NoAnswersType DEF SweepInit, SweepTypeOK

\* A step of a run leaves its task well formed.
LEMMA JobTypes ==
  ASSUME SweepIInv, NEW r \in Run, SweepStep(r)
  PROVE  job' \in [Run -> Job]
<1>0. /\ job \in [Run -> Job] /\ job[r] \in Job
      /\ candidates \in [Run -> SUBSET Listing]
      /\ job[r].at = "page" => job[r].pages < MaxPages
  BY DEF SweepIInv, SweepTypeOK, PagesLeft
<1> USE <1>0
<1>1. ASSUME NEW at \in JobAt, job' = [job EXCEPT ![r].at = at]
      PROVE  job' \in [Run -> Job]
  BY <1>1 DEF Job
<1>2. ASSUME NEW at \in JobAt, NEW by \in Starter, job' = [job EXCEPT ![r] = NoJob(at, by)]
      PROVE  job' \in [Run -> Job]
  BY <1>2, NoJobTypes
<1>3. CASE CreateSweepRun(r) \/ HoldSite(r) \/ AnswerOpinion(r) \/ RecordVerdict(r)
           \/ CloseRun(r) \/ SweepRaises(r) \/ RescueSweep(r)
  <2>1. \E at \in {"page", "store", "keep", "pay", "end", "rescue"} : SweepGoTo(r, at)
    BY <1>3 DEF CreateSweepRun, HoldSite, AnswerOpinion, RecordVerdict, CloseRun, SweepRaises,
       RescueSweep
  <2> QED
    BY <1>1, <2>1 DEF SweepGoTo, JobAt
<1>4. CASE CreateFails(r) \/ EndSweep(r)
  BY <1>2, <1>4 DEF CreateFails, EndSweep, Starter, JobAt
<1>5. CASE ReadPage(r)
  <2>1. PICK at \in JobAt, collected \in SUBSET Listing :
          job' = [job EXCEPT ![r].at = at, ![r].pages = @ + 1, ![r].collected = collected]
    <3>1. Stock[r] \in SUBSET Listing /\ job[r].collected \in SUBSET Listing
      BY SweepAssumption DEF Job
    <3> QED
      BY <1>5, <3>1 DEF ReadPage, JobAt
  <2>2. job[r].pages + 1 \in 0 .. MaxPages
    BY <1>5, SweepAssumption DEF Job, ReadPage
  <2> QED
    BY <2>1, <2>2 DEF Job
<1>6. CASE PageFails(r) \/ BatchFails(r)
  <2>1. PICK at \in JobAt, outcome \in SweepFinal :
          job' = [job EXCEPT ![r].outcome = outcome, ![r].at = at]
    <3>1. CASE PageFails(r)
      <4>1. PICK end \in {<<"blocked", "hold">>, <<"partial", "store">>} :
              job' = [job EXCEPT ![r].outcome = end[1], ![r].at = end[2]]
        BY <3>1 DEF PageFails
      <4>2. end[1] \in SweepFinal /\ end[2] \in JobAt
        BY DEF SweepFinal, JobAt
      <4> QED
        BY <4>1, <4>2
    <3>2. CASE BatchFails(r)
      BY <3>2 DEF BatchFails, JobAt, SweepFinal
    <3> QED
      BY <1>6, <3>1, <3>2
  <2> QED
    BY <2>1 DEF Job
<1>7. CASE StoreCandidates(r)
  <2>1. PICK at \in JobAt :
          job' = [job EXCEPT ![r].at = at, ![r].pages = 0, ![r].collected = {}]
    <3>1. (IF job[r].by = "plain" \/ job[r].outcome # "ok" \/ Funnel(job[r].collected) = {}
             THEN "close" ELSE "ask") \in JobAt
      BY DEF JobAt
    <3> QED
      BY <1>7, <3>1 DEF StoreCandidates
  <2>2. 0 \in 0 .. MaxPages
    BY SweepAssumption
  <2> QED
    BY <2>1, <2>2 DEF Job
<1>8. CASE AnswerBatch(r)
  <2>1. PICK reply \in [Listing -> TriageAnswer] :
          job' = [job EXCEPT ![r].at = "note", ![r].reply = reply]
    BY <1>8 DEF AnswerBatch, TriageAnswer, Unseen
  <2> QED
    BY <2>1 DEF Job, JobAt
<1>9. CASE RecordTriage(r)
  <2>1. Over(job[r].reply, job[r].outcomes) \in [Listing -> TriageAnswer]
    BY DEF Over, Job
  <2> QED
    BY <1>9, <2>1 DEF RecordTriage, Job, JobAt
<1>10. CASE BillBatch(r)
  <2>1. PICK at \in JobAt, sent \in SUBSET Listing, winners \in SUBSET Listing :
          job' = [job EXCEPT ![r].at = at, ![r].sent = sent, ![r].reply = NoAnswers,
                             ![r].winners = winners]
    BY <1>10, SlicesAreParts DEF BillBatch, JobAt, Job
  <2> QED
    BY <2>1, NoAnswersType DEF Job
<1>11. CASE OpinionFails(r) \/ PayVerdict(r)
  <2>1. PICK at \in JobAt, outcome \in SweepFinal, winners \in SUBSET Listing :
          job' = [job EXCEPT ![r].winners = winners, ![r].outcome = outcome, ![r].at = at]
    BY <1>11 DEF OpinionFails, PayVerdict, Pass, Job, JobAt, SweepFinal
  <2> QED
    BY <2>1 DEF Job
<1> QED
  BY <1>3, <1>4, <1>5, <1>6, <1>7, <1>8, <1>9, <1>10, <1>11 DEF SweepStep

LEMMA SweepTypeNext == SweepIInv /\ [SweepNext]_sweepVars => SweepTypeOK'
<1> SUFFICES ASSUME SweepIInv, [SweepNext]_sweepVars PROVE SweepTypeOK'
  OBVIOUS
<1>0. SweepTypeOK
  BY DEF SweepIInv
<1>1. CASE UNCHANGED sweepVars
  BY <1>0, <1>1 DEF SweepTypeOK, sweepVars, sweepTables
<1>2. ASSUME NEW r \in Run, SweepStep(r) PROVE SweepTypeOK'
  <2>1. job' \in [Run -> Job]
    BY <1>2, JobTypes
  <2>2. UNCHANGED <<serving, stops>>
    BY <1>2 DEF SweepStep, CreateSweepRun, CreateFails, ReadPage, PageFails, HoldSite,
       StoreCandidates, AnswerBatch, BatchFails, RecordTriage, BillBatch, AnswerOpinion,
       OpinionFails, RecordVerdict, PayVerdict, CloseRun, SweepRaises, RescueSweep, EndSweep
  <2>3. sweepStatus' \in [Run -> SweepFinal \cup {"none", "running"}]
    <3>1. job[r].outcome \in SweepFinal /\ "partial" \in SweepFinal
      BY <1>0 DEF SweepTypeOK, Job, SweepFinal
    <3> QED
      BY <1>0, <1>2, <3>1 DEF SweepStep, CreateSweepRun, CreateFails, ReadPage, PageFails,
         HoldSite, StoreCandidates, LeaveOpen, AnswerBatch, BatchFails, RecordTriage, BillBatch,
         AnswerOpinion, OpinionFails, RecordVerdict, PayVerdict, CloseRun, SweepRaises,
         RescueSweep, EndSweep, SweepTypeOK, sweepTables
  <2>4. billed' \in [Run -> Nat]
    <3>1. UNCHANGED billed \/ AddSweepCost(r)
      BY <1>2 DEF SweepStep, CreateSweepRun, CreateFails, ReadPage, PageFails, HoldSite,
         StoreCandidates, AnswerBatch, BatchFails, RecordTriage, BillBatch, AnswerOpinion,
         OpinionFails, RecordVerdict, PayVerdict, CloseRun, SweepRaises, RescueSweep, EndSweep,
         sweepTables
    <3> QED
      BY <1>0, <3>1 DEF AddSweepCost, SweepTypeOK
  <2>5. spent' \in [Run -> Nat]
    <3>1. UNCHANGED spent \/ spent' = [spent EXCEPT ![r] = @ + 1]
      BY <1>2 DEF SweepStep, CreateSweepRun, CreateFails, ReadPage, PageFails, HoldSite,
         StoreCandidates, AnswerBatch, BatchFails, RecordTriage, BillBatch, AnswerOpinion,
         OpinionFails, RecordVerdict, PayVerdict, CloseRun, SweepRaises, RescueSweep, EndSweep
    <3> QED
      BY <1>0, <3>1 DEF SweepTypeOK
  <2>6. candidates' \in [Run -> SUBSET Listing]
    <3>1. job[r].collected \in SUBSET Listing
      BY <1>0 DEF SweepTypeOK, Job
    <3>2. Funnel(job[r].collected) \in SUBSET Listing
      BY <3>1, SlicesAreParts
    <3>3. CASE StoreCandidates(r)
      BY <1>0, <3>2, <3>3 DEF StoreCandidates, SweepTypeOK
    <3>4. CASE ~ StoreCandidates(r)
      BY <1>0, <1>2, <3>4 DEF SweepStep, CreateSweepRun, CreateFails, ReadPage, PageFails,
         HoldSite, AnswerBatch, BatchFails, RecordTriage, BillBatch, AnswerOpinion,
         OpinionFails, RecordVerdict, PayVerdict, CloseRun, SweepRaises, RescueSweep, EndSweep,
         SweepTypeOK, sweepTables
    <3> QED
      BY <3>3, <3>4
  <2>7. verdicts' \in [Run -> SUBSET Listing]
    <3>1. CASE RecordVerdict(r)
      BY <1>0, <3>1 DEF RecordVerdict, SweepTypeOK
    <3>2. CASE ~ RecordVerdict(r)
      BY <1>0, <1>2, <3>2 DEF SweepStep, CreateSweepRun, CreateFails, ReadPage, PageFails,
         HoldSite, StoreCandidates, AnswerBatch, BatchFails, RecordTriage, BillBatch,
         AnswerOpinion, OpinionFails, PayVerdict, CloseRun, SweepRaises, RescueSweep, EndSweep,
         SweepTypeOK, sweepTables
    <3> QED
      BY <3>1, <3>2
  <2>8. triage' \in [Run -> [Listing -> TriageAnswer]]
    <3>1. CASE RecordTriage(r)
      <4>1. \A l \in Listing : Over(job[r].reply, triage[r])[l] \in TriageAnswer
        <5>1. job[r].reply \in [Listing -> TriageAnswer] /\ triage[r] \in [Listing -> TriageAnswer]
          BY <1>0 DEF SweepTypeOK, Job
        <5> QED
          BY <5>1 DEF Over
      <4>2. PICK kept \in [Listing -> TriageAnswer] : triage' = [triage EXCEPT ![r] = kept]
        <5>1. triage[r] \in [Listing -> TriageAnswer] /\ triage \in [Run -> [Listing -> TriageAnswer]]
          BY <1>0 DEF SweepTypeOK
        <5> DEFINE kept == [l \in Listing |-> IF l \in candidates[r]
                                              THEN Over(job[r].reply, triage[r])[l]
                                              ELSE triage[r][l]]
        <5>2. kept \in [Listing -> TriageAnswer]
          BY <4>1, <5>1
        <5>3. triage' = [triage EXCEPT ![r] = kept]
          BY <3>1, <5>1 DEF RecordTriage
        <5> QED
          BY <5>2, <5>3
      <4> QED
        BY <1>0, <4>2 DEF SweepTypeOK
    <3>2. CASE ~ RecordTriage(r)
      BY <1>0, <1>2, <3>2 DEF SweepStep, CreateSweepRun, CreateFails, ReadPage, PageFails,
         HoldSite, StoreCandidates, AnswerBatch, BatchFails, BillBatch, AnswerOpinion,
         OpinionFails, RecordVerdict, PayVerdict, CloseRun, SweepRaises, RescueSweep, EndSweep,
         SweepTypeOK, sweepTables
    <3> QED
      BY <3>1, <3>2
  <2>9. sweeping' \in BOOLEAN /\ abandoned' \subseteq Run
    BY <1>0, <1>2 DEF SweepStep, CreateSweepRun, CreateFails, ReadPage, PageFails, HoldSite,
       StoreCandidates, AnswerBatch, BatchFails, RecordTriage, BillBatch, AnswerOpinion,
       OpinionFails, RecordVerdict, PayVerdict, CloseRun, SweepRaises, RescueSweep, EndSweep,
       ReleaseFlag, SweepTypeOK
  <2> QED
    BY <1>0, <2>1, <2>2, <2>3, <2>4, <2>5, <2>6, <2>7, <2>8, <2>9 DEF SweepTypeOK
<1>3. ASSUME NEW r \in Run, NEW by \in Starter, LaunchSweep(r, by) PROVE SweepTypeOK'
  <2>1. NoJob("open", by) \in Job
    BY NoJobTypes DEF JobAt
  <2> QED
    BY <1>0, <1>3, <2>1 DEF LaunchSweep, ClaimFlag, SweepTypeOK, sweepTables
<1>4. \A at \in {"off", "over"} : NoJob(at, "dashboard") \in Job
  BY NoJobTypes DEF JobAt, Starter
<1>5. ASSUME NEW r \in Run, Interrupt(r) PROVE SweepTypeOK'
  <2>1. job' \in [Run -> Job]
    BY <1>0, <1>4, <1>5 DEF Interrupt, SweepTypeOK
  <2>2. abandoned' \subseteq Run /\ stops' \in 0 .. MaxStops
    BY <1>0, <1>5, SweepAssumption DEF Interrupt, SweepTypeOK
  <2> QED
    BY <1>0, <1>5, <2>1, <2>2 DEF Interrupt, SweepTypeOK, sweepTables
<1>6. CASE StopServing
  <2>1. job' \in [Run -> Job]
    BY <1>0, <1>4, <1>6 DEF StopServing, SweepTypeOK
  <2>2. abandoned' \subseteq Run /\ stops' \in 0 .. MaxStops
    BY <1>0, <1>6, SweepAssumption DEF StopServing, SweepTypeOK
  <2> QED
    BY <1>0, <1>6, <2>1, <2>2 DEF StopServing, SweepTypeOK, sweepTables
<1>7. CASE ServeAgain
  BY <1>0, <1>7 DEF ServeAgain, SweepTypeOK, sweepTables
<1> QED
  BY <1>1, <1>2, <1>3, <1>5, <1>6, <1>7 DEF SweepNext

-----------------------------------------------------------------------------
(* One run: what SweepIInv says of it. *)

RowAgrees(r) ==
  /\ job[r].at \in {"off", "open"} <=> sweepStatus[r] = "none"
  /\ job[r].at \in Judging \cup Fetching \cup {"close"} => sweepStatus[r] = "running"
  /\ sweepStatus[r] = "running" => job[r].at \notin {"end", "over"} \/ r \in abandoned
  /\ sweepStatus[r] \in SweepFinal => job[r].at \in {"end", "over"}

BillAgrees(r) ==
  /\ billed[r] <= spent[r]
  /\ job[r].at \in Fetching \cup {"off", "open", "ask", "opinion", "close"}
       => billed[r] = spent[r]
  /\ job[r].at \in {"note", "bill", "keep", "pay"} => spent[r] = billed[r] + 1
  /\ sweepStatus[r] \in {"ok", "blocked"} => billed[r] = spent[r]

PagesAgree(r) ==
  /\ job[r].at = "open" => job[r].pages = 0
  /\ job[r].at = "page" => job[r].pages < MaxPages

AnswersAgree(r) ==
  /\ job[r].at \in Fetching \cup {"off", "open"}
       => candidates[r] = {} /\ verdicts[r] = {} /\ triage[r] = NoAnswers
  /\ job[r].at \in Fetching \cup {"open"} => job[r].outcomes = NoAnswers
  /\ job[r].at \in Judging => job[r].outcomes = triage[r]
  /\ job[r].at \in {"ask", "note", "bill"} => verdicts[r] = {}
  /\ job[r].at = "note" => \A l \in Listing : job[r].reply[l] # Unseen => l \in candidates[r]
  /\ job[r].at \in {"opinion", "keep", "pay"}
       => job[r].winners \subseteq BestRecognised(r, triage[r])
  /\ verdicts[r] \subseteq BestRecognised(r, triage[r])

Agrees(r) == RowAgrees(r) /\ BillAgrees(r) /\ PagesAgree(r) /\ AnswersAgree(r)

LEMMA SweepIInvParts ==
  SweepIInv <=> SweepTypeOK /\ OneSweep /\ FlagCovers /\ \A r \in Run : Agrees(r)
BY DEF SweepIInv, OpinionsForTheBest, RowFollowsTask, BillFollowsTask, PagesLeft,
       AnswersFollowTask, Agrees, RowAgrees, BillAgrees, PagesAgree, AnswersAgree

Same(r) ==
  /\ sweepStatus'[r] = sweepStatus[r] /\ billed'[r] = billed[r] /\ spent'[r] = spent[r]
  /\ candidates'[r] = candidates[r] /\ triage'[r] = triage[r] /\ verdicts'[r] = verdicts[r]
  /\ job'[r] = job[r]
  /\ r \in abandoned => r \in abandoned'

\* What agrees goes on agreeing while nobody touches it.
LEMMA AgreesStill ==
  ASSUME NEW r \in Run, Agrees(r), Same(r)
  PROVE  Agrees(r)'
<1>1. RowAgrees(r)' /\ BillAgrees(r)' /\ PagesAgree(r)'
  BY DEF Agrees, Same, RowAgrees, BillAgrees, PagesAgree, Judging, Fetching, SweepFinal
<1>2. BestRecognised(r, triage[r])' = BestRecognised(r, triage[r])
  BY DEF Same, BestRecognised, Recognised, FirstOf, TriageBefore, TitleBefore
<1>3. AnswersAgree(r)'
  BY <1>2 DEF Agrees, Same, AnswersAgree, Judging, Fetching
<1> QED
  BY <1>1, <1>3 DEF Agrees

\* A step of one run leaves the others alone.
LEMMA StepFrame ==
  ASSUME SweepTypeOK, NEW r \in Run, SweepStep(r), NEW q \in Run \ {r}
  PROVE  Same(q)
BY DEF SweepTypeOK, Same, SweepStep, CreateSweepRun, CreateFails, ReadPage, PageFails, HoldSite,
       StoreCandidates, LeaveOpen, AnswerBatch, BatchFails, RecordTriage, BillBatch,
       AddSweepCost, AnswerOpinion, OpinionFails, RecordVerdict, PayVerdict, Pass, CloseRun,
       SweepRaises, RescueSweep, EndSweep, SweepGoTo, sweepTables

\* Which answers count as the best depends on the candidates and the answers alone.
LEMMA BestStill ==
  ASSUME NEW r \in Run, candidates'[r] = candidates[r], triage'[r] = triage[r]
  PROVE  BestRecognised(r, triage[r])' = BestRecognised(r, triage[r])
BY DEF BestRecognised, Recognised, FirstOf, TriageBefore, TitleBefore

\* On to the next winner: the rest of the task stays.
LEMMA PassKeeps ==
  ASSUME job \in [Run -> Job], NEW r \in Run, NEW outcome, Pass(r, outcome)
  PROVE  /\ job'[r].at \in {"opinion", "close"} /\ job'[r].by = job[r].by
         /\ job'[r].outcomes = job[r].outcomes /\ job'[r].winners \subseteq job[r].winners
<1>1. PICK l \in Listing :
        job' = [job EXCEPT ![r].winners = job[r].winners \ {l}, ![r].outcome = outcome,
                           ![r].at = IF job[r].winners \ {l} = {} THEN "close" ELSE "opinion"]
  BY DEF Pass
<1> QED
  BY <1>1 DEF Job

\* Where a step of a run leads, row, bill and answers have come along.
LEMMA StepAgrees ==
  ASSUME SweepIInv, NEW r \in Run, SweepStep(r)
  PROVE  Agrees(r)'
<1>0. /\ SweepTypeOK /\ Agrees(r)
      /\ job \in [Run -> Job] /\ job[r] \in Job
      /\ sweepStatus \in [Run -> SweepFinal \cup {"none", "running"}]
      /\ billed \in [Run -> Nat] /\ spent \in [Run -> Nat]
      /\ candidates \in [Run -> SUBSET Listing]
      /\ triage \in [Run -> [Listing -> TriageAnswer]]
      /\ verdicts \in [Run -> SUBSET Listing]
  BY SweepIInvParts DEF SweepTypeOK
<1>a. BestRecognised(r, triage[r])' = BestRecognised(r, triage[r])
        \/ candidates'[r] # candidates[r] \/ triage'[r] # triage[r]
  BY BestStill
<1> USE <1>0 DEF RowAgrees, BillAgrees, PagesAgree, AnswersAgree, Judging, Fetching, SweepFinal
<1>1. CASE CreateSweepRun(r)
  <2>1. /\ job'[r].at = "page" /\ job'[r].pages = job[r].pages
        /\ job'[r].outcomes = job[r].outcomes /\ job[r].at = "open"
        /\ sweepStatus'[r] = "running"
        /\ UNCHANGED <<billed, candidates, triage, verdicts, spent, abandoned>>
    BY <1>1 DEF CreateSweepRun, SweepGoTo, Job
  <2> QED
    BY <1>a, <2>1, SweepAssumption DEF Agrees
<1>2. CASE CreateFails(r)
  <2>1. /\ job'[r].at = "off" /\ job[r].at = "open"
        /\ UNCHANGED <<sweepStatus, billed, candidates, triage, verdicts, spent, abandoned>>
    BY <1>2 DEF CreateFails, NoJob, Job, sweepTables
  <2> QED
    BY <1>a, <2>1 DEF Agrees
<1>3. CASE ReadPage(r)
  <2>1. /\ job'[r].at = "page" => job'[r].pages < MaxPages
        /\ job'[r].at \in {"page", "store"} /\ job'[r].outcomes = job[r].outcomes
        /\ job[r].at = "page"
        /\ UNCHANGED <<sweepStatus, billed, candidates, triage, verdicts, spent, abandoned>>
    BY <1>3 DEF ReadPage, Job, sweepTables
  <2> QED
    BY <1>a, <2>1 DEF Agrees
<1>4. CASE PageFails(r) \/ HoldSite(r)
  <2>1. /\ job'[r].at \in {"hold", "store"} /\ job'[r].outcomes = job[r].outcomes
        /\ job[r].at \in {"page", "hold"}
        /\ UNCHANGED <<sweepStatus, billed, candidates, triage, verdicts, spent, abandoned>>
    BY <1>4 DEF PageFails, HoldSite, SweepGoTo, Job, sweepTables
  <2> QED
    BY <1>a, <2>1 DEF Agrees
<1>5. CASE StoreCandidates(r)
  <2>1. /\ job'[r].at \in {"close", "ask"} /\ job'[r].outcomes = job[r].outcomes
        /\ job[r].at = "store"
        /\ UNCHANGED <<sweepStatus, billed, triage, verdicts, spent, abandoned>>
    BY <1>5 DEF StoreCandidates, LeaveOpen, Job
  <2> QED
    BY <2>1 DEF Agrees
<1>6. CASE AnswerBatch(r)
  <2>1. /\ job'[r].at = "note" /\ job'[r].outcomes = job[r].outcomes
        /\ job[r].at = "ask" /\ spent'[r] = spent[r] + 1
        /\ \A l \in Listing : job'[r].reply[l] # Unseen => l \in Batch(r)
        /\ UNCHANGED <<sweepStatus, billed, candidates, triage, verdicts, abandoned>>
    BY <1>6 DEF AnswerBatch, Job, sweepTables
  <2> QED
    BY <1>a, <2>1, SlicesAreParts DEF Agrees
<1>7. CASE BatchFails(r)
  <2>1. /\ job'[r].at = "close" /\ job[r].at = "ask"
        /\ UNCHANGED <<sweepStatus, billed, candidates, triage, verdicts, spent, abandoned>>
    BY <1>7 DEF BatchFails, Job, sweepTables
  <2> QED
    BY <1>a, <2>1 DEF Agrees
<1>8. CASE RecordTriage(r)
  <2>1. /\ job'[r].at = "bill" /\ job[r].at = "note"
        /\ job'[r].outcomes = Over(job[r].reply, job[r].outcomes)
        /\ triage'[r] = [l \in Listing |-> IF l \in candidates[r]
                                             THEN Over(job[r].reply, triage[r])[l]
                                             ELSE triage[r][l]]
        /\ UNCHANGED <<sweepStatus, billed, candidates, verdicts, spent, abandoned>>
    BY <1>8 DEF RecordTriage, Job
  <2>2. triage'[r] = job'[r].outcomes
    <3>1. /\ job[r].outcomes = triage[r]
          /\ \A l \in Listing : job[r].reply[l] # Unseen => l \in candidates[r]
          /\ triage[r] \in [Listing -> TriageAnswer]
      BY <2>1 DEF Agrees
    <3> QED
      BY <2>1, <3>1 DEF Over
  <2> QED
    BY <2>1, <2>2 DEF Agrees
<1>9. CASE BillBatch(r)
  <2>1. /\ job'[r].at \in {"ask", "opinion", "close"} /\ job[r].at = "bill"
        /\ job'[r].outcomes = job[r].outcomes
        /\ job'[r].at = "opinion" => job'[r].winners = Winners(r)
        /\ billed'[r] = billed[r] + 1
        /\ UNCHANGED <<sweepStatus, candidates, triage, verdicts, spent, abandoned>>
    BY <1>9 DEF BillBatch, AddSweepCost, Job
  <2> QED
    BY <1>a, <2>1 DEF Agrees, Winners
<1>10. CASE AnswerOpinion(r)
  <2>1. /\ job'[r].at = "keep" /\ job[r].at = "opinion"
        /\ job'[r].outcomes = job[r].outcomes /\ job'[r].winners = job[r].winners
        /\ spent'[r] = spent[r] + 1
        /\ UNCHANGED <<sweepStatus, billed, candidates, triage, verdicts, abandoned>>
    BY <1>10 DEF AnswerOpinion, SweepGoTo, Job, sweepTables
  <2> QED
    BY <1>a, <2>1 DEF Agrees
<1>11. CASE OpinionFails(r) \/ PayVerdict(r)
  <2>1. /\ job'[r].at \in {"opinion", "close"}
        /\ job'[r].outcomes = job[r].outcomes /\ job'[r].winners \subseteq job[r].winners
        /\ UNCHANGED <<sweepStatus, candidates, triage, verdicts, spent, abandoned>>
        /\ \/ job[r].at = "opinion" /\ UNCHANGED billed
           \/ job[r].at = "pay" /\ billed'[r] = billed[r] + 1
    BY <1>11, PassKeeps DEF OpinionFails, PayVerdict, AddSweepCost, sweepTables
  <2> QED
    BY <1>a, <2>1 DEF Agrees
<1>12. CASE RecordVerdict(r)
  <2>1. /\ job'[r].at = "pay" /\ job[r].at = "keep"
        /\ job'[r].outcomes = job[r].outcomes /\ job'[r].winners = job[r].winners
        /\ verdicts'[r] \subseteq verdicts[r] \cup job[r].winners
        /\ UNCHANGED <<sweepStatus, billed, candidates, triage, spent, abandoned>>
    BY <1>12 DEF RecordVerdict, IsNextWinner, SweepGoTo, Job
  <2> QED
    BY <1>a, <2>1 DEF Agrees
<1>13. CASE CloseRun(r)
  <2>1. /\ job'[r].at = "end" /\ job[r].at = "close" /\ sweepStatus'[r] \in SweepFinal
        /\ UNCHANGED <<billed, candidates, triage, verdicts, spent, abandoned>>
    BY <1>13 DEF CloseRun, SweepGoTo, Job
  <2> QED
    BY <1>a, <2>1 DEF Agrees
<1>14. CASE SweepRaises(r)
  <2>1. /\ job'[r].at \in {"rescue", "end"}
        /\ job'[r].at = "end" => r \in abandoned'
        /\ job[r].at \in Judging \cup Fetching \cup {"close"}
        /\ UNCHANGED <<sweepStatus, billed, candidates, triage, verdicts, spent>>
    BY <1>14 DEF SweepRaises, SweepGoTo, Job, sweepTables
  <2> QED
    BY <1>a, <2>1 DEF Agrees
<1>15. CASE RescueSweep(r)
  <2>1. /\ job'[r].at = "end" /\ job[r].at = "rescue"
        /\ \/ r \in abandoned' /\ sweepStatus'[r] = sweepStatus[r]
           \/ sweepStatus'[r] = IF sweepStatus[r] = "running" THEN "partial" ELSE sweepStatus[r]
        /\ UNCHANGED <<billed, candidates, triage, verdicts, spent>>
    BY <1>15 DEF RescueSweep, SweepGoTo, Job
  <2> QED
    BY <1>a, <2>1 DEF Agrees
<1>16. CASE EndSweep(r)
  <2>1. /\ job'[r].at = "over" /\ job[r].at = "end"
        /\ UNCHANGED <<sweepStatus, billed, candidates, triage, verdicts, spent, abandoned>>
    BY <1>16 DEF EndSweep, NoJob, Job, sweepTables
  <2> QED
    BY <1>a, <2>1 DEF Agrees
<1> QED
  BY <1>1, <1>2, <1>3, <1>4, <1>5, <1>6, <1>7, <1>8, <1>9, <1>10, <1>11, <1>12, <1>13, <1>14,
     <1>15, <1>16 DEF SweepStep

-----------------------------------------------------------------------------
(* The flag. *)

\* A step of a run neither starts nor hands over a task.
LEMMA StepKeepsFlag ==
  ASSUME SweepIInv, NEW r \in Run, SweepStep(r)
  PROVE  FlagCovers' /\ OneSweep'
<1>0. /\ job \in [Run -> Job] /\ job[r] \in Job /\ FlagCovers /\ OneSweep
      /\ job' \in [Run -> Job] /\ SweepTypeOK
  BY JobTypes DEF SweepIInv, SweepTypeOK
<1>1. \A q \in Run \ {r} : job'[q] = job[q]
  BY <1>0, StepFrame DEF Same
<1>2. UNCHANGED serving
  BY DEF SweepStep, CreateSweepRun, CreateFails, ReadPage, PageFails, HoldSite, StoreCandidates,
     AnswerBatch, BatchFails, RecordTriage, BillBatch, AnswerOpinion, OpinionFails,
     RecordVerdict, PayVerdict, CloseRun, SweepRaises, RescueSweep, EndSweep
<1>3. CASE CreateFails(r) \/ EndSweep(r)
  <2>1. /\ job'[r].at \in {"off", "over"} /\ job[r].at \notin {"off", "over"}
        /\ sweeping' = IF OfDashboard(r) THEN FALSE ELSE sweeping
    <3>1. CASE CreateFails(r)
      BY <1>0, <3>1 DEF CreateFails, NoJob
    <3>2. CASE EndSweep(r)
      BY <1>0, <3>2 DEF EndSweep, ReleaseFlag, NoJob
    <3> QED
      BY <1>3, <3>1, <3>2
  <2> QED
    BY <1>0, <1>1, <1>2, <2>1 DEF FlagCovers, OneSweep, OfDashboard, InFlight
<1>4. CASE ~ (CreateFails(r) \/ EndSweep(r))
  <2>1. UNCHANGED sweeping /\ job[r].at \notin {"off", "over"}
    BY <1>4 DEF SweepStep, CreateSweepRun, ReadPage, PageFails, HoldSite, StoreCandidates,
       AnswerBatch, BatchFails, RecordTriage, BillBatch, AnswerOpinion, OpinionFails,
       RecordVerdict, PayVerdict, CloseRun, SweepRaises, RescueSweep
  <2>2. job'[r].by = job[r].by
    <3>1. CASE ReadPage(r)
      BY <1>0, <3>1 DEF ReadPage, Job
    <3>2. CASE PageFails(r)
      BY <1>0, <3>2 DEF PageFails, Job
    <3>3. CASE StoreCandidates(r)
      BY <1>0, <3>3 DEF StoreCandidates, Job
    <3>4. CASE AnswerBatch(r)
      BY <1>0, <3>4 DEF AnswerBatch, Job
    <3>5. CASE BatchFails(r)
      BY <1>0, <3>5 DEF BatchFails, Job
    <3>6. CASE RecordTriage(r)
      BY <1>0, <3>6 DEF RecordTriage, Job
    <3>7. CASE BillBatch(r)
      BY <1>0, <3>7 DEF BillBatch, Job
    <3>8. CASE OpinionFails(r)
      BY <1>0, <3>8, PassKeeps DEF OpinionFails
    <3>9. CASE PayVerdict(r)
      BY <1>0, <3>9, PassKeeps DEF PayVerdict
    <3>10. CASE \E at \in JobAt : SweepGoTo(r, at)
      BY <1>0, <3>10 DEF SweepGoTo, Job
    <3> QED
      BY <1>4, <3>1, <3>2, <3>3, <3>4, <3>5, <3>6, <3>7, <3>8, <3>9, <3>10
      DEF SweepStep, CreateSweepRun, HoldSite, AnswerOpinion, RecordVerdict, CloseRun,
          SweepRaises, RescueSweep, JobAt
  <2> QED
    BY <1>0, <1>1, <1>2, <2>1, <2>2 DEF FlagCovers, OneSweep, OfDashboard, InFlight
<1> QED
  BY <1>3, <1>4

-----------------------------------------------------------------------------
(* Starts, stops and the theorems. *)

LEMMA SweepInvInit == SweepInit => SweepIInv
<1> SUFFICES ASSUME SweepInit PROVE SweepIInv
  OBVIOUS
<1>1. SweepTypeOK
  BY SweepTypeInit
<1>2. OneSweep /\ FlagCovers
  BY DEF SweepInit, OneSweep, FlagCovers, InFlight, NoJob
<1>3. ASSUME NEW r \in Run PROVE Agrees(r)
  BY SweepAssumption
  DEF SweepInit, Agrees, RowAgrees, BillAgrees, PagesAgree, AnswersAgree, NoJob, Judging,
      Fetching, SweepFinal
<1> QED
  BY <1>1, <1>2, <1>3, SweepIInvParts

\* A launch claims the flag, and opens no row yet.
LEMMA LaunchKeeps ==
  ASSUME SweepIInv, NEW r \in Run, NEW by \in Starter, LaunchSweep(r, by)
  PROVE  OneSweep' /\ FlagCovers' /\ \A q \in Run : Agrees(q)'
<1>0. /\ job \in [Run -> Job] /\ FlagCovers /\ OneSweep /\ \A q \in Run : Agrees(q)
      /\ job' = [job EXCEPT ![r] = NoJob("open", by)]
      /\ UNCHANGED <<sweepTables, serving, spent, abandoned>>
      /\ sweepStatus[r] = "none" /\ job[r].at = "off"
  BY SweepIInvParts DEF SweepTypeOK, LaunchSweep
<1>1. ASSUME NEW q \in Run \ {r} PROVE Agrees(q)'
  <2>1. Same(q)
    BY <1>0 DEF Same, sweepTables
  <2> QED
    BY <1>0, <2>1, AgreesStill
<1>2. Agrees(r)'
  <2>1. /\ job'[r].at = "open" /\ job'[r].pages = 0 /\ job'[r].outcomes = NoAnswers
        /\ UNCHANGED <<sweepStatus, billed, spent, candidates, triage, verdicts>>
    BY <1>0 DEF NoJob, sweepTables
  <2>2. BestRecognised(r, triage[r])' = BestRecognised(r, triage[r])
    BY <2>1, BestStill
  <2> QED
    BY <1>0, <2>1, <2>2
    DEF Agrees, RowAgrees, BillAgrees, PagesAgree, AnswersAgree, Judging, Fetching, SweepFinal
<1>3. OneSweep' /\ FlagCovers'
  <2>1. by = "dashboard" => /\ sweeping' /\ serving
                            /\ \A q \in Run : OfDashboard(q) => ~ InFlight(q)
    BY <1>0 DEF LaunchSweep, ClaimFlag, FlagCovers
  <2>2. by # "dashboard" => UNCHANGED sweeping
    BY DEF LaunchSweep
  <2>3. job'[r].by = by /\ \A q \in Run \ {r} : job'[q] = job[q]
    BY <1>0 DEF NoJob
  <2> QED
    BY <1>0, <2>1, <2>2, <2>3 DEF OneSweep, FlagCovers, OfDashboard, InFlight
<1> QED
  BY <1>1, <1>2, <1>3

\* A task that is stopped leaves its row as it was, and says so.
LEMMA StopsKeep ==
  ASSUME SweepIInv, StopServing \/ \E r \in Run : Interrupt(r)
  PROVE  OneSweep' /\ FlagCovers' /\ \A q \in Run : Agrees(q)'
<1>0. /\ job \in [Run -> Job] /\ FlagCovers /\ OneSweep /\ \A q \in Run : Agrees(q)
      /\ UNCHANGED <<sweepTables, spent>> /\ abandoned \subseteq abandoned'
  BY SweepIInvParts DEF SweepTypeOK, StopServing, Interrupt
<1>1. \A q \in Run :
        \/ job'[q] = job[q] /\ (StopServing => ~ OfDashboard(q) \/ ~ InFlight(q))
        \/ /\ job'[q] = NoJob(IF sweepStatus[q] = "none" THEN "off" ELSE "over", "dashboard")
           /\ sweepStatus[q] = "running" => q \in abandoned'
  BY <1>0 DEF StopServing, Interrupt, OfDashboard, InFlight
<1>2. ASSUME NEW q \in Run PROVE Agrees(q)'
  <2>1. CASE job'[q] = job[q]
    <3>1. Same(q)
      BY <1>0, <2>1 DEF Same, sweepTables
    <3> QED
      BY <1>0, <3>1, AgreesStill
  <2>2. CASE /\ job'[q] = NoJob(IF sweepStatus[q] = "none" THEN "off" ELSE "over", "dashboard")
             /\ sweepStatus[q] = "running" => q \in abandoned'
    <3>1. /\ job'[q].at = IF sweepStatus[q] = "none" THEN "off" ELSE "over"
          /\ UNCHANGED <<sweepStatus, billed, spent, candidates, triage, verdicts>>
      BY <1>0, <2>2 DEF NoJob, sweepTables
    <3>2. BestRecognised(q, triage[q])' = BestRecognised(q, triage[q])
      BY <3>1, BestStill
    <3> QED
      BY <1>0, <2>2, <3>1, <3>2
      DEF Agrees, RowAgrees, BillAgrees, PagesAgree, AnswersAgree, Judging, Fetching, SweepFinal
  <2> QED
    BY <1>1, <2>1, <2>2
<1>3. \A q \in Run : OfDashboard(q)' /\ InFlight(q)' => OfDashboard(q) /\ InFlight(q) /\ ~ StopServing
  <2> SUFFICES ASSUME NEW q \in Run, OfDashboard(q)', InFlight(q)'
               PROVE  OfDashboard(q) /\ InFlight(q) /\ ~ StopServing
    OBVIOUS
  <2>1. job'[q] # NoJob(IF sweepStatus[q] = "none" THEN "off" ELSE "over", "dashboard")
    BY DEF InFlight, NoJob
  <2>2. job'[q] = job[q]
    BY <1>1, <2>1
  <2>3. OfDashboard(q) /\ InFlight(q)
    BY <2>2 DEF OfDashboard, InFlight
  <2> QED
    BY <1>1, <2>1, <2>3
<1>4. ~ StopServing => UNCHANGED <<sweeping, serving>>
  BY DEF Interrupt
<1>5. OneSweep' /\ FlagCovers'
  BY <1>0, <1>3, <1>4 DEF OneSweep, FlagCovers
<1> QED
  BY <1>2, <1>5

LEMMA SweepInvNext == SweepIInv /\ [SweepNext]_sweepVars => SweepIInv'
<1> SUFFICES ASSUME SweepIInv, [SweepNext]_sweepVars
             PROVE  OneSweep' /\ FlagCovers' /\ \A q \in Run : Agrees(q)'
  BY SweepTypeNext DEF SweepIInv, OpinionsForTheBest, RowFollowsTask, BillFollowsTask, PagesLeft,
     AnswersFollowTask, Agrees, RowAgrees, BillAgrees, PagesAgree, AnswersAgree
<1>0. FlagCovers /\ OneSweep /\ \A q \in Run : Agrees(q)
  BY SweepIInvParts
<1>1. ASSUME NEW r \in Run, SweepStep(r)
      PROVE  OneSweep' /\ FlagCovers' /\ \A q \in Run : Agrees(q)'
  <2>1. ASSUME NEW q \in Run PROVE Agrees(q)'
    <3>1. CASE q = r
      BY <1>1, <3>1, StepAgrees
    <3>2. CASE q # r
      <4>1. Same(q)
        BY <1>1, <3>2, StepFrame DEF SweepIInv
      <4> QED
        BY <1>0, <4>1, AgreesStill
    <3> QED
      BY <3>1, <3>2
  <2> QED
    BY <1>1, <2>1, StepKeepsFlag
<1>2. CASE ServeAgain \/ UNCHANGED sweepVars
  <2>1. \A q \in Run : Same(q)
    BY <1>2 DEF ServeAgain, Same, sweepVars, sweepTables
  <2>2. \A q \in Run : Agrees(q)'
    BY <1>0, <2>1, AgreesStill
  <2>3. UNCHANGED <<job, sweeping>> /\ (serving => serving')
    BY <1>2 DEF ServeAgain, sweepVars
  <2> QED
    BY <1>0, <2>2, <2>3 DEF OneSweep, FlagCovers, OfDashboard, InFlight
<1> QED
  BY <1>1, <1>2, LaunchKeeps, StopsKeep DEF SweepNext

\* Task, row, bill and answers agree at every await, and one sweep of the dashboard is in
\* flight at a time, whatever fails, stops or is launched in between.
THEOREM SweepInvariance == SweepSpec => []SweepIInv
BY SweepInvInit, SweepInvNext, PTL DEF SweepSpec

\* A run that closed itself says what it cost.
THEOREM BillsAreWhole == SweepSpec => []BillIsWhole
<1>1. SweepIInv => BillIsWhole
  BY DEF SweepIInv, BillFollowsTask, BillIsWhole
<1> QED
  BY <1>1, SweepInvariance, PTL

\* Money goes to the best of what the photo check recognised.
THEOREM OpinionsGoToTheBest == SweepSpec => []OpinionsForTheBest
<1>1. SweepIInv => OpinionsForTheBest
  BY DEF SweepIInv
<1> QED
  BY <1>1, SweepInvariance, PTL

\* A closed run is never written to again.
THEOREM FinalStaysFinal == SweepSpec => FinalIsFinal
<1>1. ASSUME SweepIInv, [SweepNext]_sweepVars, NEW q \in Run, sweepStatus[q] \in SweepFinal
      PROVE  /\ sweepStatus'[q] = sweepStatus[q] /\ billed'[q] = billed[q]
             /\ candidates'[q] = candidates[q] /\ triage'[q] = triage[q]
             /\ verdicts'[q] = verdicts[q]
  <2>0. job[q].at \in {"end", "over"} /\ SweepTypeOK
    BY <1>1 DEF SweepIInv, RowFollowsTask
  <2>1. ASSUME NEW r \in Run, SweepStep(r), r # q
        PROVE  Same(q)
    BY <2>0, <2>1, StepFrame
  <2>2. CASE SweepStep(q)
    <3>1. EndSweep(q)
      BY <2>0, <2>2 DEF SweepStep, CreateSweepRun, CreateFails, ReadPage, PageFails, HoldSite,
         StoreCandidates, AnswerBatch, BatchFails, RecordTriage, BillBatch, AnswerOpinion,
         OpinionFails, RecordVerdict, PayVerdict, CloseRun, SweepRaises, RescueSweep
    <3> QED
      BY <3>1 DEF EndSweep, sweepTables
  <2>3. CASE ~ \E r \in Run : SweepStep(r)
    BY <1>1, <2>3 DEF SweepNext, LaunchSweep, Interrupt, StopServing, ServeAgain, sweepVars,
       sweepTables
  <2> QED
    BY <2>1, <2>2, <2>3 DEF Same
<1>2. SweepIInv /\ [SweepNext]_sweepVars =>
        [\A r \in Run : sweepStatus[r] \in SweepFinal =>
           /\ sweepStatus'[r] = sweepStatus[r] /\ billed'[r] = billed[r]
           /\ candidates'[r] = candidates[r] /\ triage'[r] = triage[r]
           /\ verdicts'[r] = verdicts[r]]_sweepVars
  BY <1>1
<1> QED
  BY <1>2, SweepInvariance, PTL DEF SweepSpec, FinalIsFinal
=============================================================================
