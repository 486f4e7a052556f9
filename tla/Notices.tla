-------------------------------- MODULE Notices --------------------------------
(***************************************************************************)
(* Two chores that speak up by themselves, through Dispatcher's            *)
(* notify_status: the watch over the agent that answers webhooks           *)
(* (engine/enrichwatch.py), which remembers in memory that it spoke, and   *)
(* the weekly report (engine/report.py), which writes it down.  Whatever   *)
(* either raises is suppressed, and it is tried again at the next round.   *)
(***************************************************************************)
EXTENDS Naturals, Sequences, FiniteSets

CONSTANTS
  Asked,        \* listings that a webhook destination is sent
  Streak,       \* SILENT_STREAK
  MaxSlots,     \* bound: Mondays, 08:00
  MaxUpsets     \* bound: errors and restarts

ASSUME NoticesAssumption ==
  /\ IsFiniteSet(Asked)
  /\ Streak \in Nat \ {0}
  /\ MaxSlots \in Nat \ {0} /\ MaxUpsets \in Nat

VARIABLES
  asked,        \* outbox rows of webhooks that are sent, by sent_at
  settled,      \* how many of them left longer ago than the wait and GRACE_S
  answered,     \* listings with an enriched_at
  forgotten,    \* listings whose items row retention removed
  silence,      \* EnrichmentWatch: about to announce, and _warned
  slot,         \* latest_slot(now)
  sentSlot,     \* app_state.weekly_report_sent_at, 0 before the first report
  report,       \* WeeklyReport.tick: where it is, and for which slot
  excused,      \* history: the last notice of silence is over, or was never given
  reported,     \* history: slots a report was announced for
  cutOff,       \* history: slots whose report was announced and not written down
  upsets

noticesVars == <<asked, settled, answered, forgotten, silence, slot, sentSlot, report, excused,
                 reported, cutOff, upsets>>
agentVars == <<asked, settled, answered, forgotten, silence, excused>>
weekVars == <<slot, sentSlot, report, reported, cutOff>>

Slot == 1 .. MaxSlots
Silence == [telling : BOOLEAN, warned : BOOLEAN]
Report == [at : {"idle", "announce", "write"}, slot : 0 .. MaxSlots]
NoReport == [at |-> "idle", slot |-> 0]

NoticesTypeOK ==
  /\ asked \in Seq(Asked)
  /\ settled \in 0 .. Len(asked)
  /\ answered \subseteq Asked /\ forgotten \subseteq Asked
  /\ silence \in Silence
  /\ slot \in Slot /\ sentSlot \in 0 .. MaxSlots
  /\ report \in Report
  /\ excused \in BOOLEAN
  /\ reported \subseteq Slot /\ cutOff \subseteq Slot
  /\ upsets \in 0 .. MaxUpsets

NoticesInit ==
  /\ asked = <<>> /\ settled = 0 /\ answered = {} /\ forgotten = {}
  /\ silence = [telling |-> FALSE, warned |-> FALSE]
  /\ slot = 1 /\ sentSlot = 0 /\ report = NoReport
  /\ excused = TRUE
  /\ reported = {} /\ cutOff = {}
  /\ upsets = 0

-----------------------------------------------------------------------------
(* The listings and the agent. *)

Sent(l) == \E i \in 1 .. Len(asked) : asked[i] = l

WebhookLeaves(l) ==
  /\ ~Sent(l)
  /\ asked' = Append(asked, l)
  /\ UNCHANGED <<settled, answered, forgotten, silence, excused, weekVars, upsets>>

\* The next one counts from now on.
WaitIsOver ==
  /\ settled < Len(asked)
  /\ settled' = settled + 1
  /\ excused' = (excused \/ asked[settled + 1] \in answered)
  /\ UNCHANGED <<asked, answered, forgotten, silence, weekVars, upsets>>

\* record_verdict, at any time while the listing is known.
AgentAnswers(l) ==
  /\ Sent(l) /\ l \notin answered \cup forgotten
  /\ answered' = answered \cup {l}
  /\ excused' = TRUE
  /\ UNCHANGED <<asked, settled, forgotten, silence, weekVars, upsets>>

\* prune_items: the oldest first, long after they settled.
ForgetListing(l) ==
  /\ \E i \in 1 .. settled : /\ asked[i] = l /\ l \notin forgotten
                             /\ \A j \in 1 .. i - 1 : asked[j] \in forgotten
  /\ forgotten' = forgotten \cup {l}
  /\ excused' = TRUE
  /\ UNCHANGED <<asked, settled, answered, silence, weekVars, upsets>>

-----------------------------------------------------------------------------
(* EnrichmentWatch. *)

\* enrichment_answers, as far as a streak reaches: the limit is more than that.
LastStreak == settled - Streak + 1 .. settled

\* No answer to the last Streak of them; retention removes the oldest, so what it left is
\* fewer than a streak as soon as it removed one of these.
IsOutage ==
  /\ settled >= Streak
  /\ \A i \in LastStreak : asked[i] \notin answered \cup forgotten

\* Mutant: the flag stands for the last notice, not for the outage.
SpeakAgain == IsOutage

\* Once per outage: anything else takes the flag back.
SpeakUp == IsOutage /\ ~silence.warned

EnrichmentCheck ==
  /\ ~silence.telling
  /\ silence' = [telling |-> SpeakUp, warned |-> IsOutage]
  /\ excused' = (excused /\ ~SpeakUp)
  /\ UNCHANGED <<asked, settled, answered, forgotten, weekVars, upsets>>

\* notify_status is through with every destination, or it raised.
TellSilence ==
  /\ silence.telling
  /\ silence' = [silence EXCEPT !.telling = FALSE]
  /\ UNCHANGED <<asked, settled, answered, forgotten, excused, weekVars, upsets>>

-----------------------------------------------------------------------------
(* WeeklyReport. *)

MondayComes ==
  /\ slot < MaxSlots
  /\ slot' = slot + 1
  /\ UNCHANGED <<agentVars, sentSlot, report, reported, cutOff, upsets>>

ReportIsDue == sentSlot < slot

StartReport ==
  /\ report.at = "idle" /\ ReportIsDue
  /\ report' = [at |-> "announce", slot |-> slot]
  /\ UNCHANGED <<agentVars, slot, sentSlot, reported, cutOff, upsets>>

AnnounceReport ==
  /\ report.at = "announce"
  /\ report' = [report EXCEPT !.at = "write"]
  /\ reported' = reported \cup {report.slot}
  /\ UNCHANGED <<agentVars, slot, sentSlot, cutOff, upsets>>

WriteReportDown ==
  /\ report.at = "write"
  /\ sentSlot' = report.slot
  /\ report' = NoReport
  /\ UNCHANGED <<agentVars, slot, reported, cutOff, upsets>>

CutOff == IF report.at = "write" THEN {report.slot} ELSE {}

\* The database refuses a read or the write: the tick ends, and the next one starts over.
ReportRaises ==
  /\ report.at # "idle" /\ upsets < MaxUpsets
  /\ report' = NoReport
  /\ cutOff' = cutOff \cup CutOff
  /\ upsets' = upsets + 1
  /\ UNCHANGED <<agentVars, slot, sentSlot, reported>>

\* A stop or a crash: what was in memory is forgotten.
RestartChores ==
  /\ upsets < MaxUpsets
  /\ silence' = [telling |-> FALSE, warned |-> FALSE]
  /\ excused' = TRUE
  /\ report' = NoReport
  /\ cutOff' = cutOff \cup CutOff
  /\ upsets' = upsets + 1
  /\ UNCHANGED <<asked, settled, answered, forgotten, slot, sentSlot, reported>>

NoticesNext ==
  \/ \E l \in Asked : WebhookLeaves(l) \/ AgentAnswers(l) \/ ForgetListing(l)
  \/ WaitIsOver \/ EnrichmentCheck \/ TellSilence
  \/ MondayComes \/ StartReport \/ AnnounceReport \/ WriteReportDown \/ ReportRaises
  \/ RestartChores

NoticesSpec == NoticesInit /\ [][NoticesNext]_noticesVars

-----------------------------------------------------------------------------
(* Properties. *)

\* Neither repeats itself without a cause: a second notice of silence follows an answer that
\* came or began to count, a listing that retention removed, or a restart, and a second report of one Monday an error
\* or a crash between announcing it and writing it down (_warned, weekly_report_sent_at).
NothingRepeated ==
  [][/\ silence'.telling /\ ~silence.telling => excused
     /\ AnnounceReport => report.slot \notin reported \ cutOff]_noticesVars
=============================================================================
