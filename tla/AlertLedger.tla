------------------------------ MODULE AlertLedger ------------------------------
(***************************************************************************)
(* What delivery promises about every notification, whatever workers,      *)
(* batches, leases and retries are behind it.  A notification is queued    *)
(* once and settled once; it counts as sent only after the far end took    *)
(* it, is never sent after it was settled, and reaches its reader a second *)
(* time only if the process was left in doubt about the first.             *)
(***************************************************************************)
EXTENDS Naturals

CONSTANT Notice

VARIABLES
  note,     \* where each notification stands
  heard,    \* copies of it the far end took (2: or more)
  doubted   \* those with a copy nobody may have written down

ledger == <<note, heard, doubted>>

\* "withdrawn": the destination is being deleted, or is, and nothing is promised of it.
Note == {"none", "queued", "sent", "dropped", "withdrawn"}

LedgerInit ==
  /\ note = [n \in Notice |-> "none"]
  /\ heard = [n \in Notice |-> 0]
  /\ doubted = {}

Turn(R, next) ==
  /\ note' = [n \in Notice |-> IF n \in R THEN next ELSE note[n]]
  /\ UNCHANGED <<heard, doubted>>

Confirm(R) == (\A n \in R : heard[n] >= 1) /\ Turn(R, "sent")

With(stand) == {n \in Notice : note[n] \in stand}

\* The far end takes R, which nobody has settled, D of it without telling: whoever has two
\* copies was in doubt.
Reach(R, D) ==
  /\ UNCHANGED note
  /\ doubted' = doubted \cup D
  /\ heard' \in [Notice -> 0 .. 2]
  /\ \A n \in Notice :
       /\ n \notin R => heard'[n] = heard[n]
       /\ n \in R => heard'[n] > heard[n] \/ (heard[n] = 2 /\ heard'[n] = 2)
       /\ n \in R /\ heard'[n] = 2 => n \in doubted'

\* The process loses count of D, and W, half withdrawn, comes back as the table has it.
Interrupt(D, W) ==
  /\ UNCHANGED heard
  /\ doubted' = doubted \cup D
  /\ note' \in [Notice -> Note]
  /\ \A n \in Notice : n \notin W => note'[n] = note[n]
  /\ \A n \in W : note'[n] = "sent" => heard[n] >= 1

LedgerNext ==
  \/ \E R \in SUBSET With({"none"}) : Turn(R, "queued")
  \/ \E R \in SUBSET With({"queued"}) : Confirm(R) \/ Turn(R, "dropped")
  \/ \E R \in SUBSET Notice : Turn(R, "withdrawn")
  \/ \E R \in SUBSET With({"queued", "withdrawn"}) : \E D \in SUBSET R : Reach(R, D)
  \/ \E D \in SUBSET {n \in Notice : heard[n] >= 1} :
       \E W \in SUBSET With({"withdrawn"}) : Interrupt(D, W)

LedgerSpec == LedgerInit /\ [][LedgerNext]_ledger
=============================================================================
