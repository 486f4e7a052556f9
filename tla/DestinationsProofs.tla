------------------------- MODULE DestinationsProofs -------------------------
(***************************************************************************)
(* What is proved of Destinations, for any number of destinations, chats   *)
(* and processes that pair.                                                *)
(***************************************************************************)
EXTENDS Destinations, TLAPS

(***************************************************************************)
(* What a write does to a row.                                             *)
(***************************************************************************)
LEMMA KeptIsARow == ASSUME DestinationsTypeOK, NEW d \in DestId, Kept(d) PROVE row[d] \in Row
  BY DEF DestinationsTypeOK, Kept

LEMMA ConfigOfWaiting ==
  ASSUME DestinationsTypeOK, NEW d \in DestId, Waiting(d)
  PROVE  /\ Kept(d)
         /\ row[d].config \in [of : {"code"}, expired : BOOLEAN]
  <1>1. Kept(d)
    BY DEF Waiting, Kept, NoRow
  <1>2. row[d].config \in Config
    BY <1>1, KeptIsARow DEF Row
  <1> QED
    BY <1>1, <1>2 DEF Config, Kind, Waiting

LEMMA SettingsAreConfig ==
  ASSUME NEW kind \in Kind, NEW address \in Address
  PROVE  Settings(kind, address) \in Config /\ Settings(kind, address).of # "code"
  BY DEF Settings, Config, Kind

LEMMA NewCodeIsConfig == NewCode \in Config /\ NewCode.of = "code"
  BY DEF NewCode, Config

LEMMA InsertTypes ==
  ASSUME DestinationsTypeOK, NEW d \in DestId, NEW kind \in Kind, NEW config \in Config,
         Insert(d, kind, config)
  PROVE  /\ row' \in [DestId -> Row \cup {NoRow}]
         /\ row'[d].config = config
         /\ \A e \in DestId \ {d} : row'[e] = row[e]
  <1> DEFINE new == [kind |-> kind, config |-> config, active |-> TRUE]
  <1>1. new \in Row /\ new.config = config
    BY DEF Row
  <1>2. row' = [row EXCEPT ![d] = new]
    BY DEF Insert
  <1> HIDE DEF new
  <1> QED
    BY <1>1, <1>2 DEF DestinationsTypeOK

LEMMA SetConfigTypes ==
  ASSUME DestinationsTypeOK, NEW d \in DestId, NEW config \in Config, SetConfig(d, config)
  PROVE  /\ row' \in [DestId -> Row \cup {NoRow}]
         /\ \A e \in DestId \ {d} : row'[e] = row[e]
         /\ Kept(d) => row'[d] # NoRow /\ row'[d].config = config
         /\ ~Kept(d) => row'[d] = NoRow
  <1> DEFINE new == IF Kept(d) THEN [row[d] EXCEPT !.config = config] ELSE row[d]
  <1>1. row' = [row EXCEPT ![d] = new]
    BY DEF SetConfig
  <1>2. Kept(d) => new \in Row /\ new.config = config /\ new # NoRow
    BY KeptIsARow DEF Row, NoRow
  <1>3. ~Kept(d) => new = NoRow
    BY DEF Kept
  <1> HIDE DEF new
  <1> QED
    BY <1>1, <1>2, <1>3 DEF DestinationsTypeOK

LEMMA ActiveTypes ==
  ASSUME DestinationsTypeOK, NEW d \in DestId, Kept(d), NEW active \in BOOLEAN,
         row' = [row EXCEPT ![d].active = active]
  PROVE  /\ row' \in [DestId -> Row \cup {NoRow}]
         /\ \A e \in DestId \ {d} : row'[e] = row[e]
         /\ row'[d] # NoRow /\ row'[d].config = row[d].config /\ row'[d].kind = row[d].kind
  <1>1. row[d] \in Row
    BY KeptIsARow
  <1>2. row'[d] \in Row /\ row'[d].config = row[d].config /\ row'[d].kind = row[d].kind
    BY <1>1 DEF Row, DestinationsTypeOK
  <1>3. row'[d] # NoRow
    BY <1>2 DEF Row, NoRow
  <1> QED
    BY <1>2, <1>3 DEF DestinationsTypeOK

LEMMA DeactivateTypes ==
  ASSUME DestinationsTypeOK, NEW d \in DestId, Deactivate(d)
  PROVE  /\ row' \in [DestId -> Row \cup {NoRow}]
         /\ \A e \in DestId \ {d} : row'[e] = row[e]
         /\ Kept(d) => row'[d] # NoRow /\ row'[d].config = row[d].config /\ row'[d].kind = row[d].kind
         /\ ~Kept(d) => row'[d] = NoRow
  <1>1. CASE Kept(d)
    <2>1. row[d] \in Row
      BY <1>1, KeptIsARow
    <2>2. row' = [row EXCEPT ![d] = [row[d] EXCEPT !.active = FALSE]]
      BY <1>1 DEF Deactivate, DestinationsTypeOK
    <2>3. row'[d] \in Row /\ row'[d].config = row[d].config /\ row'[d].kind = row[d].kind
      BY <2>1, <2>2 DEF Row, DestinationsTypeOK
    <2>4. row'[d] # NoRow
      BY <2>3 DEF Row, NoRow
    <2> QED
      BY <1>1, <2>2, <2>3, <2>4 DEF DestinationsTypeOK
  <1>2. CASE ~Kept(d)
    BY <1>2 DEF Deactivate, DestinationsTypeOK, Kept
  <1> QED
    BY <1>1, <1>2

LEMMA ExpiryTypes ==
  ASSUME DestinationsTypeOK, NEW d \in DestId, CodeExpires(d)
  PROVE  /\ row' \in [DestId -> Row \cup {NoRow}]
         /\ \A e \in DestId \ {d} : row'[e] = row[e]
         /\ Waiting(d)
  <1>1. Waiting(d) /\ Kept(d) /\ row[d] \in Row
    BY ConfigOfWaiting, KeptIsARow DEF CodeExpires
  <1>2. row[d].config \in [of : {"code"}, expired : BOOLEAN]
    BY <1>1, ConfigOfWaiting
  <1> DEFINE config == [row[d].config EXCEPT !.expired = TRUE]
  <1>3. config \in Config
    BY <1>2 DEF Config
  <1>4. row' = [row EXCEPT ![d] = [row[d] EXCEPT !.config = config]]
    BY DEF CodeExpires, DestinationsTypeOK
  <1> HIDE DEF config
  <1>5. [row[d] EXCEPT !.config = config] \in Row
    BY <1>1, <1>3 DEF Row
  <1> QED
    BY <1>1, <1>4, <1>5 DEF DestinationsTypeOK

LEMMA TakenSender ==
  ASSUME DestinationsTypeOK, NEW d \in DestId, Kept(d), Take(d)
  PROVE  /\ senders' \in [DestId -> Config \cup {NoSender}]
         /\ senders'[d] = SenderFor(d)
         /\ SenderFor(d) = NoSender \/ SenderFor(d) = row[d].config
  <1>1. row[d] \in Row /\ senders[d] \in Config \cup {NoSender}
    BY KeptIsARow DEF DestinationsTypeOK
  <1>2. row[d].config \in Config
    BY <1>1 DEF Row
  <1>3. /\ SenderFor(d) \in Config \cup {NoSender}
        /\ SenderFor(d) = NoSender \/ SenderFor(d) = row[d].config
    BY <1>1, <1>2 DEF SenderFor, SignatureHolds
  <1> QED
    BY <1>3 DEF Take, DestinationsTypeOK

(***************************************************************************)
(* Type correctness.                                                       *)
(***************************************************************************)
LEMMA TypesAtStart == DestinationsInit => DestinationsTypeOK
  <1>1. NoEdit \in Edit /\ NoPairing \in Pairing
    BY DEF NoEdit, Edit, Kind, NoPairing, Pairing
  <1> QED
    BY <1>1 DEF DestinationsInit, DestinationsTypeOK

LEMMA OwnerTypes ==
  ASSUME DestinationsTypeOK, NEW d \in DestId, OwnerStep(d)
  PROVE  DestinationsTypeOK'
  <1> USE DEF dashboardHeld, dispatcherHeld
  <1>1. CASE EnableDestination(d)
    BY <1>1, ActiveTypes DEF EnableDestination, DestinationsTypeOK
  <1>2. CASE DeleteDestination(d)
    BY <1>2 DEF DeleteDestination, Forgotten, DestinationsTypeOK
  <1>3. CASE ReadForEdit(d)
    <2>1. row[d].kind \in Kind
      BY <1>3, KeptIsARow DEF ReadForEdit, Row
    <2>2. edit' \in Edit
      BY <1>3, <2>1 DEF ReadForEdit, Edit
    <2> QED
      BY <1>3, <2>2 DEF ReadForEdit, DestinationsTypeOK
  <1>4. ASSUME NEW address \in Address, SaveEdit(d, address)
        PROVE  DestinationsTypeOK'
    <2>1. Settings(edit.of, address) \in Config
      BY SettingsAreConfig DEF DestinationsTypeOK, Edit
    <2>2. row' \in [DestId -> Row \cup {NoRow}]
      BY <1>4, <2>1, SetConfigTypes DEF SaveEdit
    <2>3. NoEdit \in Edit
      BY DEF NoEdit, Edit, Kind
    <2> QED
      BY <1>4, <2>2, <2>3 DEF SaveEdit, Forgotten, DestinationsTypeOK
  <1>5. ASSUME NEW kind \in Kind, NEW address \in Address,
               AddDestination(d, kind, address)
        PROVE  DestinationsTypeOK'
    <2>1. row' \in [DestId -> Row \cup {NoRow}]
      BY <1>5, InsertTypes, SettingsAreConfig DEF AddDestination
    <2> QED
      BY <1>5, <2>1 DEF AddDestination, Forgotten, DestinationsTypeOK
  <1> QED
    BY <1>1, <1>2, <1>3, <1>4, <1>5 DEF OwnerStep

LEMMA PairingTypes ==
  ASSUME DestinationsTypeOK, NEW d \in DestId, PairingStep(d)
  PROVE  DestinationsTypeOK'
  <1> USE DEF dashboardHeld, dispatcherHeld
  <1>1. CASE CodeExpires(d)
    BY <1>1, ExpiryTypes DEF CodeExpires, DestinationsTypeOK
  <1>2. ASSUME NEW p \in Pairer, EndPairing(p)
        PROVE  /\ pairer' \in [Pairer -> Pairing] /\ overlapped' \in BOOLEAN
               /\ claim' \in [Address -> SUBSET DestId] /\ edit' \in Edit
               /\ senders' \in [DestId -> Config \cup {NoSender}]
               /\ worker' \in [DestId -> {"idle", "unfit", "send", "drop"}]
               /\ blind' \in [Pairer -> SUBSET DestId]
    <2>1. NoPairing \in Pairing
      BY DEF NoPairing, Pairing
    <2> QED
      BY <1>2, <2>1 DEF EndPairing, DestinationsTypeOK
  <1>3. ASSUME NEW p \in Pairer, RefreshLink(p, d)
        PROVE  DestinationsTypeOK'
    <2>1. row' \in [DestId -> Row \cup {NoRow}]
      BY <1>3, SetConfigTypes, NewCodeIsConfig DEF RefreshLink
    <2>2. connected' \in [DestId -> SUBSET Address]
      BY <1>3 DEF RefreshLink, Forgotten, DestinationsTypeOK
    <2> QED
      BY <1>2, <1>3, <2>1, <2>2 DEF RefreshLink, DestinationsTypeOK
  <1>4. ASSUME NEW p \in Pairer, AddWaiting(p, d)
        PROVE  DestinationsTypeOK'
    <2>1. row' \in [DestId -> Row \cup {NoRow}]
      BY <1>4, InsertTypes, NewCodeIsConfig DEF AddWaiting, Kind
    <2>2. connected' \in [DestId -> SUBSET Address]
      BY <1>4 DEF AddWaiting, Forgotten, DestinationsTypeOK
    <2> QED
      BY <1>2, <1>4, <2>1, <2>2 DEF AddWaiting, DestinationsTypeOK
  <1>5. ASSUME NEW c \in Address, TapLink(c, d)
        PROVE  DestinationsTypeOK'
    BY <1>5 DEF TapLink, DestinationsTypeOK
  <1>6. ASSUME NEW c \in Address, BindChat(c, d)
        PROVE  DestinationsTypeOK'
    <2>1. row' \in [DestId -> Row \cup {NoRow}]
      BY <1>6, SetConfigTypes, SettingsAreConfig DEF BindChat, Kind
    <2>2. connected' \in [DestId -> SUBSET Address] /\ claim' \in [Address -> SUBSET DestId]
      BY <1>6 DEF BindChat, DestinationsTypeOK
    <2>3. blind' \in [Pairer -> SUBSET DestId]
      BY <1>6 DEF BindChat, DestinationsTypeOK
    <2> QED
      BY <1>6, <2>1, <2>2, <2>3 DEF BindChat, DestinationsTypeOK
  <1> QED
    BY <1>1, <1>3, <1>4, <1>5, <1>6 DEF PairingStep

LEMMA DispatcherTypes ==
  ASSUME DestinationsTypeOK, NEW d \in DestId, DispatcherStep(d)
  PROVE  DestinationsTypeOK'
  <1> USE DEF dashboardHeld
  <1>1. CASE BeginServe(d)
    BY <1>1, TakenSender DEF BeginServe, DestinationsTypeOK
  <1>2. CASE EndServe(d)
    BY <1>2 DEF EndServe, DestinationsTypeOK
  <1>3. CASE CannotServe(d)
    BY <1>3, TakenSender DEF CannotServe, DestinationsTypeOK
  <1>4. CASE DisableUnfit(d)
    BY <1>4, DeactivateTypes DEF DisableUnfit, DestinationsTypeOK
  <1>5. CASE GoneForGood(d)
    BY <1>5, DeactivateTypes DEF GoneForGood, DestinationsTypeOK
  <1>6. CASE DropSender(d)
    BY <1>6 DEF DropSender, DestinationsTypeOK
  <1>7. CASE TakeForNotice(d)
    BY <1>7, TakenSender DEF TakeForNotice, DestinationsTypeOK
  <1> QED
    BY <1>1, <1>2, <1>3, <1>4, <1>5, <1>6, <1>7 DEF DispatcherStep

LEMMA LookTypes ==
  ASSUME DestinationsTypeOK, NEW p \in Pairer, LookForWaiting(p)
  PROVE  DestinationsTypeOK'
  <1>1. [at |-> "write", found |-> FirstReusable] \in Pairing
    BY DEF Pairing, FirstReusable
  <1> QED
    BY <1>1 DEF LookForWaiting, dispatcherHeld, DestinationsTypeOK

LEMMA RestartTypes ==
  ASSUME DestinationsTypeOK, RestartService
  PROVE  DestinationsTypeOK'
  <1>1. NoEdit \in Edit
    BY DEF NoEdit, Edit, Kind
  <1> QED
    BY <1>1 DEF RestartService, DestinationsTypeOK

(***************************************************************************)
(* Most steps set nothing waiting and touch no chat that was told.         *)
(***************************************************************************)
Settles ==
  /\ UNCHANGED <<pairer, blind, overlapped>>
  /\ \A d \in DestId :
       /\ Waiting(d)' => Waiting(d)
       /\ connected'[d] \subseteq connected[d]
       /\ connected'[d] # {} => row'[d] # NoRow /\ row'[d].config = row[d].config

LEMMA SettlingIsSafe ==
  ASSUME DestinationsIInv, Settles
  PROVE  OneWaiting' /\ ToldIsBound' /\ \A p \in Pairer : PairerOnCourse(p)'
  <1>1. OneWaiting'
    BY DEF DestinationsIInv, Settles, OneWaiting
  <1>2. ToldIsBound'
    BY DEF DestinationsIInv, Settles, ToldIsBound, Kept
  <1>3. ASSUME NEW p \in Pairer
        PROVE  PairerOnCourse(p)'
    <2>1. PairerOnCourse(p) /\ pairer' = pairer /\ blind' = blind /\ overlapped' = overlapped
      BY DEF DestinationsIInv, Settles
    <2>2. \A d \in DestId : (Waiting(d)' => Waiting(d)) /\ connected'[d] \subseteq connected[d]
      BY DEF Settles
    <2>3. pairer[p].found \subseteq DestId
      BY DEF DestinationsIInv, DestinationsTypeOK, Pairing
    <2> QED
      BY <2>1, <2>2, <2>3 DEF PairerOnCourse
  <1> QED
    BY <1>1, <1>2, <1>3

\* What leaves the rows and the history alone does.
LEMMA IdleSettles ==
  ASSUME DestinationsIInv, UNCHANGED <<row, connected, pairer, blind, overlapped>>
  PROVE  Settles
  BY DEF DestinationsIInv, ToldIsBound, Settles, Waiting, Kept

\* And what changes one row, of which none was told or whose settings stay.
LEMMA OneRowSettles ==
  ASSUME DestinationsIInv, NEW d \in DestId, UNCHANGED <<pairer, blind, overlapped>>,
         \A e \in DestId \ {d} : row'[e] = row[e],
         \A e \in DestId : connected'[e] \subseteq connected[e],
         connected'[d] # {} => row'[d] # NoRow /\ row'[d].config = row[d].config,
         Waiting(d)' => Waiting(d)
  PROVE  Settles
  <1>1. ASSUME NEW e \in DestId
        PROVE  /\ Waiting(e)' => Waiting(e)
               /\ connected'[e] # {} => row'[e] # NoRow /\ row'[e].config = row[e].config
    <2>1. CASE e = d
      BY <2>1
    <2>2. CASE e # d
      <3>1. row'[e] = row[e]
        BY <2>2
      <3>2. connected[e] # {} => row[e] # NoRow
        BY DEF DestinationsIInv, ToldIsBound, Kept
      <3> QED
        BY <3>1, <3>2 DEF Waiting
    <2> QED
      BY <2>1, <2>2
  <1> QED
    BY <1>1 DEF Settles

LEMMA ForgottenIs ==
  ASSUME DestinationsTypeOK, NEW d \in DestId, connected' = Forgotten(d)
  PROVE  connected'[d] = {} /\ \A e \in DestId : connected'[e] \subseteq connected[e]
  BY DEF Forgotten, DestinationsTypeOK

LEMMA OwnerSettles ==
  ASSUME DestinationsIInv, NEW d \in DestId, OwnerStep(d)
  PROVE  Settles
  <1> USE DEF dashboardHeld, dispatcherHeld
  <1>0. DestinationsTypeOK
    BY DEF DestinationsIInv
  <1>1. CASE EnableDestination(d)
    <2>1. /\ \A e \in DestId \ {d} : row'[e] = row[e]
          /\ row'[d] # NoRow /\ row'[d].config = row[d].config /\ row'[d].kind = row[d].kind
      BY <1>0, <1>1, ActiveTypes DEF EnableDestination
    <2> QED
      BY <1>1, <2>1, OneRowSettles DEF EnableDestination, Waiting
  <1>2. CASE DeleteDestination(d)
    <2>1. row'[d] = NoRow /\ \A e \in DestId \ {d} : row'[e] = row[e]
      BY <1>0, <1>2 DEF DeleteDestination, DestinationsTypeOK
    <2>2. ~Waiting(d)'
      BY <2>1 DEF Waiting, NoRow
    <2>3. connected'[d] = {} /\ \A e \in DestId : connected'[e] \subseteq connected[e]
      BY <1>0, <1>2, ForgottenIs DEF DeleteDestination
    <2> QED
      BY <1>2, <2>1, <2>2, <2>3, OneRowSettles DEF DeleteDestination
  <1>3. CASE ReadForEdit(d)
    BY <1>3, IdleSettles DEF ReadForEdit
  <1>4. ASSUME NEW address \in Address, SaveEdit(d, address)
        PROVE  Settles
    <2> DEFINE config == Settings(edit.of, address)
    <2>1. config \in Config /\ config.of # "code"
      BY <1>0, SettingsAreConfig DEF DestinationsTypeOK, Edit
    <2>2. SetConfig(d, config)
      BY <1>4 DEF SaveEdit
    <2>3. connected'[d] = {} /\ \A e \in DestId : connected'[e] \subseteq connected[e]
      BY <1>0, <1>4, ForgottenIs DEF SaveEdit
    <2> HIDE DEF config
    <2>4. (\A e \in DestId \ {d} : row'[e] = row[e]) /\ (row'[d] = NoRow \/ row'[d].config = config)
      BY <1>0, <2>1, <2>2, SetConfigTypes
    <2>5. ~Waiting(d)'
      BY <2>1, <2>4 DEF Waiting, NoRow
    <2> QED
      BY <1>4, <2>3, <2>4, <2>5, OneRowSettles DEF SaveEdit
  <1>5. ASSUME NEW kind \in Kind, NEW address \in Address,
               AddDestination(d, kind, address)
        PROVE  Settles
    <2> DEFINE config == Settings(kind, address)
    <2>1. config \in Config /\ config.of # "code"
      BY SettingsAreConfig
    <2>2. Insert(d, kind, config)
      BY <1>5 DEF AddDestination
    <2>3. connected'[d] = {} /\ \A e \in DestId : connected'[e] \subseteq connected[e]
      BY <1>0, <1>5, ForgottenIs DEF AddDestination
    <2> HIDE DEF config
    <2>4. (\A e \in DestId \ {d} : row'[e] = row[e]) /\ row'[d].config = config
      BY <1>0, <2>1, <2>2, InsertTypes
    <2>5. ~Waiting(d)'
      BY <2>1, <2>4 DEF Waiting
    <2> QED
      BY <1>5, <2>3, <2>4, <2>5, OneRowSettles DEF AddDestination
  <1> QED
    BY <1>1, <1>2, <1>3, <1>4, <1>5 DEF OwnerStep

LEMMA DispatcherSettles ==
  ASSUME DestinationsIInv, NEW d \in DestId, DispatcherStep(d)
  PROVE  Settles
  <1> USE DEF dashboardHeld
  <1>0. DestinationsTypeOK /\ (connected[d] # {} => Kept(d))
    BY DEF DestinationsIInv, ToldIsBound
  <1>1. ASSUME Deactivate(d), UNCHANGED <<connected, pairer, blind, overlapped>>
        PROVE  Settles
    <2>1. /\ \A e \in DestId \ {d} : row'[e] = row[e]
          /\ Kept(d) => /\ row'[d] # NoRow /\ row'[d].config = row[d].config
                        /\ row'[d].kind = row[d].kind
          /\ ~Kept(d) => row'[d] = NoRow
      BY <1>0, <1>1, DeactivateTypes
    <2>2. Waiting(d)' => Waiting(d)
      BY <2>1 DEF Waiting, NoRow
    <2> QED
      BY <1>0, <1>1, <2>1, <2>2, OneRowSettles
  <1>2. CASE DisableUnfit(d)
    BY <1>1, <1>2 DEF DisableUnfit
  <1>3. CASE GoneForGood(d)
    BY <1>1, <1>3 DEF GoneForGood
  <1>4. ASSUME BeginServe(d) \/ EndServe(d) \/ CannotServe(d) \/ DropSender(d) \/ TakeForNotice(d)
        PROVE  Settles
    BY <1>4, IdleSettles DEF BeginServe, EndServe, CannotServe, DropSender, TakeForNotice
  <1> QED
    BY <1>2, <1>3, <1>4 DEF DispatcherStep

\* No chat was told of a destination that waits.
LEMMA ToldDoNotWait ==
  ASSUME DestinationsIInv, NEW d \in DestId, Waiting(d)
  PROVE  connected[d] = {}
  <1>1. ASSUME NEW c \in connected[d]
        PROVE  FALSE
    <2>1. row[d].config = Settings("telegram", c)
      BY DEF DestinationsIInv, ToldIsBound
    <2>2. Settings("telegram", c).of = "telegram"
      BY DEF Settings
    <2> QED
      BY <2>1, <2>2 DEF Waiting
  <1> QED
    BY <1>1

LEMMA ExpirySettles ==
  ASSUME DestinationsIInv, NEW d \in DestId, CodeExpires(d)
  PROVE  Settles
  <1>1. DestinationsTypeOK
    BY DEF DestinationsIInv
  <1>2. (\A e \in DestId \ {d} : row'[e] = row[e]) /\ Waiting(d)
    BY <1>1, ExpiryTypes
  <1>3. connected[d] = {}
    BY <1>2, ToldDoNotWait
  <1> QED
    BY <1>2, <1>3, OneRowSettles DEF CodeExpires, dashboardHeld

(***************************************************************************)
(* The steps of a pairing.                                                 *)
(***************************************************************************)
LEMMA LookingIsSafe ==
  ASSUME DestinationsIInv, NEW p \in Pairer, LookForWaiting(p)
  PROVE  OneWaiting' /\ ToldIsBound' /\ \A o \in Pairer : PairerOnCourse(o)'
  <1>0. UNCHANGED <<row, connected, overlapped>>
    BY DEF LookForWaiting
  <1>1. OneWaiting' /\ ToldIsBound'
    BY <1>0 DEF DestinationsIInv, OneWaiting, ToldIsBound, Waiting, Kept
  <1>2. /\ pairer'[p].found = FirstReusable
        /\ \A o \in Pairer \ {p} : pairer'[o] = pairer[o] /\ blind'[o] = blind[o]
    BY DEF LookForWaiting, DestinationsIInv, DestinationsTypeOK
  <1>3. /\ DestId \subseteq Nat /\ FirstReusable \subseteq DestId
        /\ \A d \in DestId : d \in FirstReusable <=> Waiting(d) /\ \A e \in DestId : e < d => ~Waiting(e)
    BY DEF FirstReusable, Reusable, DestId
  <1>4. PairerOnCourse(p)'
    <2>1. \A d, e \in FirstReusable : d = e
      BY <1>3
    <2>2. \A d \in FirstReusable : connected[d] = {}
      BY <1>3, ToldDoNotWait
    <2>3. overlapped \/ \A d \in DestId : Waiting(d) => d \in FirstReusable
      BY <1>3 DEF DestinationsIInv, OneWaiting
    <2> QED
      BY <1>0, <1>2, <2>1, <2>2, <2>3 DEF PairerOnCourse, Waiting
  <1>5. ASSUME NEW o \in Pairer \ {p}
        PROVE  PairerOnCourse(o)'
    BY <1>0, <1>2 DEF DestinationsIInv, PairerOnCourse, Waiting
  <1> QED
    BY <1>1, <1>4, <1>5

\* One that writes leaves one destination waiting and no chat told of it, and whoever looked before
\* has overlapped with it.
LEMMA WritingIsSafe ==
  ASSUME DestinationsIInv, NEW p \in Pairer, NEW d \in DestId, EndPairing(p),
         \A e \in DestId \ {d} : row'[e] = row[e],
         \A e \in DestId : connected'[e] \subseteq connected[e],
         connected'[d] = {},
         overlapped \/ \A e \in DestId \ {d} : ~Waiting(e)
  PROVE  OneWaiting' /\ ToldIsBound' /\ \A o \in Pairer : PairerOnCourse(o)'
  <1>0. /\ pairer'[p] = NoPairing
        /\ \A o \in Pairer \ {p} : pairer'[o] = pairer[o] /\ (pairer[o].at = "write" => overlapped')
        /\ blind' = blind
        /\ overlapped => overlapped'
    BY DEF EndPairing, DestinationsIInv, DestinationsTypeOK
  <1>1. OneWaiting'
    BY <1>0 DEF OneWaiting, Waiting
  <1>2. ToldIsBound'
    <2>1. ASSUME NEW e \in DestId, NEW c \in connected'[e]
          PROVE  row'[e] # NoRow /\ row'[e].config = Settings("telegram", c)
      <3>1. e # d /\ c \in connected[e]
        BY <2>1
      <3>2. row'[e] = row[e]
        BY <3>1
      <3> QED
        BY <3>1, <3>2 DEF DestinationsIInv, ToldIsBound, Kept
    <2> QED
      BY <2>1 DEF ToldIsBound, Kept
  <1>3. PairerOnCourse(p)'
    BY <1>0 DEF PairerOnCourse, NoPairing
  <1>4. ASSUME NEW o \in Pairer \ {p}
        PROVE  PairerOnCourse(o)'
    <2>1. pairer[o].found \subseteq DestId /\ PairerOnCourse(o)
      BY DEF DestinationsIInv, DestinationsTypeOK, Pairing
    <2> QED
      BY <1>0, <2>1 DEF PairerOnCourse
  <1> QED
    BY <1>1, <1>2, <1>3, <1>4

LEMMA RefreshIsSafe ==
  ASSUME DestinationsIInv, NEW p \in Pairer, NEW d \in DestId, RefreshLink(p, d)
  PROVE  OneWaiting' /\ ToldIsBound' /\ \A o \in Pairer : PairerOnCourse(o)'
  <1>0. DestinationsTypeOK /\ PairerOnCourse(p) /\ pairer[p].at = "write" /\ d \in pairer[p].found
    BY DEF DestinationsIInv, RefreshLink
  <1>1. SetConfig(d, NewCode) /\ EndPairing(p)
    BY DEF RefreshLink
  <1>2. \A e \in DestId \ {d} : row'[e] = row[e]
    BY <1>0, <1>1, SetConfigTypes, NewCodeIsConfig
  <1>3. connected'[d] = {} /\ \A e \in DestId : connected'[e] \subseteq connected[e]
    <2>1. CASE d \in blind[p]
      BY <1>0, <2>1, ForgottenIs DEF RefreshLink
    <2>2. CASE d \notin blind[p]
      BY <1>0, <2>2 DEF RefreshLink, PairerOnCourse
    <2> QED
      BY <2>1, <2>2
  <1>4. overlapped \/ \A e \in DestId \ {d} : ~Waiting(e)
    BY <1>0 DEF PairerOnCourse
  <1> QED
    BY <1>1, <1>2, <1>3, <1>4, WritingIsSafe

LEMMA AddingIsSafe ==
  ASSUME DestinationsIInv, NEW p \in Pairer, NEW d \in DestId, AddWaiting(p, d)
  PROVE  OneWaiting' /\ ToldIsBound' /\ \A o \in Pairer : PairerOnCourse(o)'
  <1>0. DestinationsTypeOK /\ PairerOnCourse(p) /\ pairer[p].at = "write" /\ pairer[p].found = {}
    BY DEF DestinationsIInv, AddWaiting
  <1>1. Insert(d, "telegram", NewCode) /\ EndPairing(p) /\ connected' = Forgotten(d)
    BY DEF AddWaiting
  <1>2. \A e \in DestId \ {d} : row'[e] = row[e]
    BY <1>0, <1>1, InsertTypes, NewCodeIsConfig DEF Kind
  <1>3. connected'[d] = {} /\ \A e \in DestId : connected'[e] \subseteq connected[e]
    BY <1>0, <1>1, ForgottenIs
  <1>4. overlapped \/ \A e \in DestId \ {d} : ~Waiting(e)
    BY <1>0 DEF PairerOnCourse
  <1> QED
    BY <1>1, <1>2, <1>3, <1>4, WritingIsSafe

LEMMA BindingIsSafe ==
  ASSUME DestinationsIInv, NEW c \in Address, NEW d \in DestId, BindChat(c, d)
  PROVE  OneWaiting' /\ ToldIsBound' /\ \A p \in Pairer : PairerOnCourse(p)'
  <1> DEFINE config == Settings("telegram", c)
  <1>0. DestinationsTypeOK /\ config \in Config /\ config.of # "code" /\ SetConfig(d, config)
    BY SettingsAreConfig DEF DestinationsIInv, BindChat, Kind
  <1>1. /\ \A e \in DestId \ {d} : row'[e] = row[e] /\ connected'[e] = connected[e]
        /\ IF Kept(d) THEN row'[d] # NoRow /\ row'[d].config = config /\ connected'[d] = {c}
                      ELSE row'[d] = NoRow /\ connected'[d] = {}
    <2> HIDE DEF config
    <2>1. /\ \A e \in DestId \ {d} : row'[e] = row[e]
          /\ IF Kept(d) THEN row'[d] # NoRow /\ row'[d].config = config ELSE row'[d] = NoRow
      BY <1>0, SetConfigTypes
    <2>2. connected' = [connected EXCEPT ![d] = IF Kept(d) THEN {c} ELSE {}]
      BY DEF BindChat
    <2> QED
      BY <1>0, <2>1, <2>2 DEF DestinationsTypeOK
  <1>2. UNCHANGED <<pairer, overlapped>>
    BY DEF BindChat, dispatcherHeld
  <1>3. \A e \in DestId : Waiting(e)' => Waiting(e)
    BY <1>0, <1>1 DEF Waiting, NoRow
  <1>4. OneWaiting'
    BY <1>2, <1>3 DEF DestinationsIInv, OneWaiting
  <1>5. ToldIsBound'
    <2>1. ASSUME NEW e \in DestId, NEW x \in connected'[e]
          PROVE  row'[e] # NoRow /\ row'[e].config = Settings("telegram", x)
      BY <1>1, <2>1 DEF DestinationsIInv, ToldIsBound, Kept
    <2> QED
      BY <2>1 DEF ToldIsBound, Kept
  <1>6. ASSUME NEW p \in Pairer
        PROVE  PairerOnCourse(p)'
    <2>1. pairer[p].found \subseteq DestId /\ PairerOnCourse(p)
      BY DEF DestinationsIInv, DestinationsTypeOK, Pairing
    <2>2. pairer[p].at = "write" => blind'[p] = blind[p] \cup {d}
      BY DEF BindChat
    <2> QED
      BY <1>1, <1>2, <1>3, <2>1, <2>2 DEF PairerOnCourse
  <1> QED
    BY <1>4, <1>5, <1>6

(***************************************************************************)
(* The theorems.                                                           *)
(***************************************************************************)
LEMMA DestinationsStart == DestinationsInit => DestinationsIInv
  <1> SUFFICES ASSUME DestinationsInit PROVE DestinationsIInv
    OBVIOUS
  <1>1. DestinationsTypeOK
    BY TypesAtStart
  <1>2. \A d \in DestId : connected[d] = {} /\ ~Waiting(d)
    BY DEF DestinationsInit, Waiting, NoRow
  <1>3. \A p \in Pairer : pairer[p].at = "idle"
    BY DEF DestinationsInit, NoPairing
  <1> QED
    BY <1>1, <1>2, <1>3 DEF DestinationsIInv, OneWaiting, ToldIsBound, PairerOnCourse

LEMMA DestinationsStep == DestinationsIInv /\ [DestinationsNext]_destinationsVars => DestinationsIInv'
  <1> SUFFICES ASSUME DestinationsIInv, [DestinationsNext]_destinationsVars
               PROVE  DestinationsIInv'
    OBVIOUS
  <1>0. DestinationsTypeOK
    BY DEF DestinationsIInv
  <1> DEFINE Safe == OneWaiting' /\ ToldIsBound' /\ \A p \in Pairer : PairerOnCourse(p)'
  <1>1. ASSUME NEW d \in DestId, OwnerStep(d)
        PROVE  DestinationsTypeOK' /\ Safe
    BY <1>0, <1>1, OwnerTypes, OwnerSettles, SettlingIsSafe
  <1>2. ASSUME NEW d \in DestId, PairingStep(d)
        PROVE  DestinationsTypeOK' /\ Safe
    <2>1. DestinationsTypeOK'
      BY <1>0, <1>2, PairingTypes
    <2>2. CASE CodeExpires(d)
      BY <2>1, <2>2, ExpirySettles, SettlingIsSafe
    <2>3. ASSUME NEW p \in Pairer, RefreshLink(p, d)
          PROVE  Safe
      BY <2>3, RefreshIsSafe
    <2>4. ASSUME NEW p \in Pairer, AddWaiting(p, d)
          PROVE  Safe
      BY <2>4, AddingIsSafe
    <2>5. ASSUME NEW c \in Address, TapLink(c, d)
          PROVE  Safe
      BY <2>5, IdleSettles, SettlingIsSafe DEF TapLink, dispatcherHeld
    <2>6. ASSUME NEW c \in Address, BindChat(c, d)
          PROVE  Safe
      BY <2>6, BindingIsSafe
    <2> HIDE DEF Safe
    <2> QED
      BY <1>2, <2>1, <2>2, <2>3, <2>4, <2>5, <2>6 DEF PairingStep
  <1>3. ASSUME NEW d \in DestId, DispatcherStep(d)
        PROVE  DestinationsTypeOK' /\ Safe
    BY <1>0, <1>3, DispatcherTypes, DispatcherSettles, SettlingIsSafe
  <1>4. ASSUME NEW p \in Pairer, LookForWaiting(p)
        PROVE  DestinationsTypeOK' /\ Safe
    BY <1>0, <1>4, LookTypes, LookingIsSafe
  <1>5. ASSUME RestartService
        PROVE  DestinationsTypeOK' /\ Safe
    <2>1. Settles
      BY <1>5, IdleSettles DEF RestartService
    <2> QED
      BY <1>0, <1>5, <2>1, RestartTypes, SettlingIsSafe
  <1>6. ASSUME UNCHANGED destinationsVars
        PROVE  DestinationsTypeOK' /\ Safe
    <2>1. DestinationsTypeOK'
      BY <1>0, <1>6 DEF destinationsVars, DestinationsTypeOK
    <2>2. Settles
      BY <1>6, IdleSettles DEF destinationsVars
    <2> QED
      BY <2>1, <2>2, SettlingIsSafe
  <1> HIDE DEF Safe
  <1>7. ASSUME DestinationsNext
        PROVE  DestinationsTypeOK' /\ Safe
    BY <1>1, <1>2, <1>3, <1>4, <1>5, <1>7 DEF DestinationsNext
  <1>8. DestinationsTypeOK' /\ Safe
    BY <1>6, <1>7
  <1> QED
    BY <1>8 DEF DestinationsIInv, Safe

\* Types, at most one destination waiting unless pairings overlapped, and what makes that and the
\* next theorem inductive: rows say of a connected chat what it was told, and a pairing between
\* its steps found what still waits (telegram_bot.py, the destinations part of repo.py).
THEOREM DestinationsInvariance == DestinationsSpec => []DestinationsIInv
  BY DestinationsStart, DestinationsStep, PTL DEF DestinationsSpec

\* Asking for a link twice leaves no second destination behind (create_pairing).
THEOREM SecondLinkReuses == DestinationsSpec => []OneWaiting
  <1>1. DestinationsIInv => OneWaiting
    BY DEF DestinationsIInv
  <1> QED
    BY <1>1, DestinationsInvariance, PTL

\* Workers and notices reach the chat that was told "Connected" (_sender_for, claim_pairing).
THEOREM ConnectedIsHeard == DestinationsSpec => HeardWhereConnected
  <1>1. ASSUME DestinationsIInv, NEW d \in DestId, NEW c \in connected[d], BeginServe(d) \/ TakeForNotice(d)
        PROVE  senders'[d] = NoSender \/ senders'[d] = Settings("telegram", c)
    <2>1. Kept(d) /\ Take(d)
      BY <1>1 DEF BeginServe, TakeForNotice
    <2>2. row[d].config = Settings("telegram", c) /\ DestinationsTypeOK
      BY <1>1 DEF DestinationsIInv, ToldIsBound
    <2> QED
      BY <2>1, <2>2, TakenSender
  <1> DEFINE Heard == \A d \in DestId : \A c \in connected[d] :
                        BeginServe(d) \/ TakeForNotice(d)
                          => senders'[d] = NoSender \/ senders'[d] = Settings("telegram", c)
  <1>2. DestinationsIInv => Heard
    BY <1>1
  <1>3. HeardWhereConnected <=> [][Heard]_destinationsVars
    BY DEF HeardWhereConnected
  <1> HIDE DEF Heard
  <1> QED
    BY <1>2, <1>3, DestinationsInvariance, PTL
=============================================================================
