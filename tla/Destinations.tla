----------------------------- MODULE Destinations -----------------------------
(***************************************************************************)
(* Where alerts go: the rows of destinations with what their settings say, *)
(* written by the dashboard and the command line (web/server.py, cli.py)   *)
(* and by the two halves of pairing a Telegram chat                        *)
(* (botctl/telegram_bot.py), and the senders the dispatcher builds from    *)
(* them and keeps (deliver/dispatcher.py).  What a worker claims and how a *)
(* batch fares is in Dispatcher; which destinations ask for notices, and   *)
(* when there is one to send, is left open.  Their language, quiet hours   *)
(* and failures are left out.                                              *)
(***************************************************************************)
EXTENDS Naturals

CONSTANTS
  Address,        \* chats, webhooks and topics
  MaxDestination, \* bound: rows at a time
  Pairer          \* processes that run pair-telegram

ASSUME DestinationsAssumption == MaxDestination \in Nat

VARIABLES
  row,        \* destinations: kind, config_json, active, by id
  pairer,     \* create_pairing, between its read and its write
  claim,      \* claim_pairing, by the chat that tapped a link
  edit,       \* edit_destination, between its read and its write
  senders,    \* _senders and _signatures
  worker,     \* _serve, by destination, from its sender on
  connected,  \* history: the chat told "Connected" of a destination, if nothing since
  blind,      \* history: what was connected since a pairing looked
  overlapped  \* history: a pairing wrote while another was between its steps

destinationsVars == <<row, pairer, claim, edit, senders, worker, connected, blind, overlapped>>
dashboardHeld == <<pairer, claim, edit>>
dispatcherHeld == <<senders, worker>>

DestId == 1 .. MaxDestination
Kind == {"telegram", "discord"}   \* discord stands for all that are not paired

\* What config_json says: the settings of a kind, or a pairing code.  No two codes are the same, and
\* of one's age matters whether it is over PAIRING_TTL_S.
Config == [of : Kind, to : Address] \cup [of : {"code"}, expired : BOOLEAN]
Row == [kind : Kind, config : Config, active : BOOLEAN]
NoRow == [kind |-> "none"]

\* Instead of a sender, the settings it was built from.
NoSender == [of |-> "none"]

\* On hand is at most one destination.
Pairing == [at : {"idle", "write"}, found : SUBSET DestId]
NoPairing == [at |-> "idle", found |-> {}]
Edit == [on : SUBSET DestId, of : Kind]
NoEdit == [on |-> {}, of |-> "telegram"]

DestinationsTypeOK ==
  /\ row \in [DestId -> Row \cup {NoRow}]
  /\ pairer \in [Pairer -> Pairing]
  /\ claim \in [Address -> SUBSET DestId]
  /\ edit \in Edit
  /\ senders \in [DestId -> Config \cup {NoSender}]
  /\ worker \in [DestId -> {"idle", "unfit", "send", "drop"}]
  /\ connected \in [DestId -> SUBSET Address]
  /\ blind \in [Pairer -> SUBSET DestId]
  /\ overlapped \in BOOLEAN

DestinationsInit ==
  /\ row = [d \in DestId |-> NoRow]
  /\ pairer = [p \in Pairer |-> NoPairing]
  /\ claim = [c \in Address |-> {}]
  /\ edit = NoEdit
  /\ senders = [d \in DestId |-> NoSender]
  /\ worker = [d \in DestId |-> "idle"]
  /\ connected = [d \in DestId |-> {}]
  /\ blind = [p \in Pairer |-> {}]
  /\ overlapped = FALSE

-----------------------------------------------------------------------------
(* The table. *)

Kept(d) == row[d] # NoRow
Settings(kind, address) == [of |-> kind, to |-> address]
NewCode == [of |-> "code", expired |-> FALSE]

\* INTEGER PRIMARY KEY: one more than the largest id, so that of the destination added last
\* is given out again once it is deleted.
NextDestination(d) ==
  ~Kept(d) /\ \A e \in DestId : (e < d) <=> (\E f \in DestId : Kept(f) /\ e <= f)

Insert(d, kind, config) ==
  row' = [row EXCEPT ![d] = [kind |-> kind, config |-> config, active |-> TRUE]]

\* UPDATE ... WHERE id: nothing, if it is gone.
SetConfig(d, config) ==
  row' = [row EXCEPT ![d] = IF Kept(d) THEN [@ EXCEPT !.config = config] ELSE @]

Deactivate(d) ==
  row' = [row EXCEPT ![d] = IF Kept(d) THEN [@ EXCEPT !.active = FALSE] ELSE @]

Forgotten(d) == [connected EXCEPT ![d] = {}]

-----------------------------------------------------------------------------
(* The owner. *)

AddDestination(d, kind, address) ==
  /\ NextDestination(d)
  /\ Insert(d, kind, Settings(kind, address))
  /\ connected' = Forgotten(d)
  /\ UNCHANGED <<dashboardHeld, dispatcherHeld, blind, overlapped>>

\* It was disabled: reactivate_destination.
EnableDestination(d) ==
  /\ Kept(d)
  /\ row' = [row EXCEPT ![d].active = TRUE]
  /\ UNCHANGED <<dashboardHeld, dispatcherHeld, connected, blind, overlapped>>

\* The last of the writes of delete_destination.
DeleteDestination(d) ==
  /\ Kept(d)
  /\ row' = [row EXCEPT ![d] = NoRow]
  /\ connected' = Forgotten(d)
  /\ UNCHANGED <<dashboardHeld, dispatcherHeld, blind, overlapped>>

ReadForEdit(d) ==
  /\ edit.on = {} /\ Kept(d)
  /\ edit' = [on |-> {d}, of |-> row[d].kind]
  /\ UNCHANGED <<row, pairer, claim, dispatcherHeld, connected, blind, overlapped>>

\* The settings are new as a whole, a code that waited included.
SaveEdit(d, address) ==
  /\ d \in edit.on
  /\ SetConfig(d, Settings(edit.of, address))
  /\ edit' = NoEdit
  /\ connected' = Forgotten(d)
  /\ UNCHANGED <<pairer, claim, dispatcherHeld, blind, overlapped>>

-----------------------------------------------------------------------------
(* Pairing. *)

Waiting(d) == row[d].kind = "telegram" /\ row[d].config.of = "code"

\* Mutant: only among those that are active.
WaitingActive(d) == Waiting(d) /\ row[d].active

\* What create_pairing reuses.
Reusable(d) == Waiting(d)

FirstReusable == {d \in DestId : Reusable(d) /\ \A e \in DestId : e < d => ~Reusable(e)}

\* create_pairing: the first destination that waits already.
LookForWaiting(p) ==
  /\ pairer[p].at = "idle"
  /\ pairer' = [pairer EXCEPT ![p] = [at |-> "write", found |-> FirstReusable]]
  /\ blind' = [blind EXCEPT ![p] = {}]
  /\ UNCHANGED <<row, claim, edit, dispatcherHeld, connected, overlapped>>

\* The link is printed.
EndPairing(p) ==
  /\ pairer' = [pairer EXCEPT ![p] = NoPairing]
  /\ overlapped' = (overlapped \/ \E o \in Pairer \ {p} : pairer[o].at = "write")
  /\ UNCHANGED <<claim, edit, dispatcherHeld, blind>>

RefreshLink(p, d) ==
  /\ pairer[p].at = "write" /\ d \in pairer[p].found
  /\ SetConfig(d, NewCode)
  /\ connected' = IF d \in blind[p] THEN Forgotten(d) ELSE connected
  /\ EndPairing(p)

AddWaiting(p, d) ==
  /\ pairer[p].at = "write" /\ pairer[p].found = {} /\ NextDestination(d)
  /\ Insert(d, "telegram", NewCode)
  /\ connected' = Forgotten(d)
  /\ EndPairing(p)

CodeExpires(d) ==
  /\ Waiting(d)
  /\ row' = [row EXCEPT ![d].config.expired = TRUE]
  /\ UNCHANGED <<dashboardHeld, dispatcherHeld, connected, blind, overlapped>>

\* claim_pairing, up to the check of the code's age.  Any other link gets an answer only.
TapLink(c, d) ==
  /\ claim[c] = {}
  /\ Waiting(d) /\ ~row[d].config.expired
  /\ claim' = [claim EXCEPT ![c] = {d}]
  /\ UNCHANGED <<row, pairer, edit, dispatcherHeld, connected, blind, overlapped>>

\* The queue it then discards is in Dispatcher; handle_start answers "Connected".
BindChat(c, d) ==
  /\ d \in claim[c]
  /\ SetConfig(d, Settings("telegram", c))
  /\ claim' = [claim EXCEPT ![c] = {}]
  /\ connected' = [connected EXCEPT ![d] = IF Kept(d) THEN {c} ELSE {}]
  /\ blind' = [p \in Pairer |-> IF pairer[p].at = "write" THEN blind[p] \cup {d} ELSE blind[p]]
  /\ UNCHANGED <<pairer, edit, dispatcherHeld, overlapped>>

-----------------------------------------------------------------------------
(* The dispatcher. *)

AwaitingPairing(d) == row[d].kind = "telegram" /\ row[d].config.of # "telegram"

\* Otherwise _build raises SenderConfigError.
Fits(d) == row[d].config.of = row[d].kind

\* Mutant: kept as long as the destination is.
AnySender(d) == senders[d] # NoSender

\* The signature is the settings, as JSON.
SignatureHolds(d) == senders[d] = row[d].config

\* _sender_for: no other task runs in between, as closing a sender that borrows its client
\* does not wait.
SenderFor(d) ==
  IF SignatureHolds(d) THEN senders[d] ELSE IF Fits(d) THEN row[d].config ELSE NoSender

Take(d) == senders' = [senders EXCEPT ![d] = SenderFor(d)]

\* It sends through what it takes.
BeginServe(d) ==
  /\ worker[d] = "idle" /\ Kept(d) /\ row[d].active /\ ~AwaitingPairing(d)
  /\ Take(d) /\ SenderFor(d) # NoSender
  /\ worker' = [worker EXCEPT ![d] = "send"]
  /\ UNCHANGED <<row, dashboardHeld, connected, blind, overlapped>>

CannotServe(d) ==
  /\ worker[d] = "idle" /\ Kept(d) /\ row[d].active /\ ~AwaitingPairing(d)
  /\ Take(d) /\ SenderFor(d) = NoSender
  /\ worker' = [worker EXCEPT ![d] = "unfit"]
  /\ UNCHANGED <<row, dashboardHeld, connected, blind, overlapped>>

\* destination.misconfigured
DisableUnfit(d) ==
  /\ worker[d] = "unfit"
  /\ worker' = [worker EXCEPT ![d] = "idle"]
  /\ Deactivate(d)
  /\ UNCHANGED <<dashboardHeld, senders, connected, blind, overlapped>>

\* Delivered, refused or put back.
EndServe(d) ==
  /\ worker[d] = "send"
  /\ worker' = [worker EXCEPT ![d] = "idle"]
  /\ UNCHANGED <<row, dashboardHeld, senders, connected, blind, overlapped>>

\* deactivate_destination, then _drop_sender.
GoneForGood(d) ==
  /\ worker[d] = "send"
  /\ worker' = [worker EXCEPT ![d] = "drop"]
  /\ Deactivate(d)
  /\ UNCHANGED <<dashboardHeld, senders, connected, blind, overlapped>>

DropSender(d) ==
  /\ worker[d] = "drop"
  /\ senders' = [senders EXCEPT ![d] = NoSender]
  /\ worker' = [worker EXCEPT ![d] = "idle"]
  /\ UNCHANGED <<row, dashboardHeld, connected, blind, overlapped>>

\* notify_status: the ids were read before, so it may be disabled by now; what _build raises is
\* suppressed.
TakeForNotice(d) ==
  /\ Kept(d) /\ Take(d)
  /\ UNCHANGED <<row, dashboardHeld, worker, connected, blind, overlapped>>

\* pair-telegram is a process of its own.
RestartService ==
  /\ claim' = [c \in Address |-> {}] /\ edit' = NoEdit
  /\ senders' = [d \in DestId |-> NoSender]
  /\ worker' = [d \in DestId |-> "idle"]
  /\ UNCHANGED <<row, pairer, connected, blind, overlapped>>

OwnerStep(d) ==
  \/ EnableDestination(d) \/ DeleteDestination(d) \/ ReadForEdit(d)
  \/ \E address \in Address : SaveEdit(d, address)
  \/ \E kind \in Kind, address \in Address : AddDestination(d, kind, address)

PairingStep(d) ==
  \/ CodeExpires(d)
  \/ \E p \in Pairer : RefreshLink(p, d) \/ AddWaiting(p, d)
  \/ \E c \in Address : TapLink(c, d) \/ BindChat(c, d)

DispatcherStep(d) ==
  \/ BeginServe(d) \/ EndServe(d) \/ CannotServe(d) \/ DisableUnfit(d)
  \/ GoneForGood(d) \/ DropSender(d) \/ TakeForNotice(d)

DestinationsNext ==
  \/ \E d \in DestId : OwnerStep(d) \/ PairingStep(d) \/ DispatcherStep(d)
  \/ \E p \in Pairer : LookForWaiting(p)
  \/ RestartService

DestinationsSpec == DestinationsInit /\ [][DestinationsNext]_destinationsVars

-----------------------------------------------------------------------------
(* Properties. *)

\* Asking for a link twice leaves no second destination behind, however claims, edits,
\* deletions and workers come in between, unless two pairings overlap (create_pairing).
OneWaiting ==
  overlapped \/ \A d, e \in DestId : Waiting(d) /\ Waiting(e) => d = e

\* A chat that was told "Connected" is where alerts go from then on, although senders are
\* kept, ids come back and links are refreshed, until the owner edits or deletes the destination
\* or a pairing that looked before writes over it (handle_start, _sender_for).
HeardWhereConnected ==
  [][\A d \in DestId : \A c \in connected[d] :
       BeginServe(d) \/ TakeForNotice(d)
         => senders'[d] = NoSender \/ senders'[d] = Settings("telegram", c)]_destinationsVars

-----------------------------------------------------------------------------
(* Why: together these are inductive. *)

\* A chat told "Connected" still is what the row says.
ToldIsBound ==
  \A d \in DestId : \A c \in connected[d] :
    Kept(d) /\ row[d].config = Settings("telegram", c)

\* A pairing found one destination at most; if a chat was told of it since, it does not know; and
\* none other waits.
PairerOnCourse(p) ==
  pairer[p].at = "write" =>
    /\ \A d, e \in pairer[p].found : d = e
    /\ \A d \in pairer[p].found : connected[d] # {} => d \in blind[p]
    /\ overlapped \/ \A d \in DestId : Waiting(d) => d \in pairer[p].found

DestinationsIInv ==
  /\ DestinationsTypeOK /\ OneWaiting /\ ToldIsBound
  /\ \A p \in Pairer : PairerOnCourse(p)
=============================================================================
