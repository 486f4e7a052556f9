---------------------------- MODULE DashboardProofs ----------------------------
(***************************************************************************)
(* A save settles what its search feeds, for any searches, destinations    *)
(* and sellers and any number of forms open at once; and guesses at the    *)
(* password are paced, for every setting of the brake.                     *)
(***************************************************************************)
EXTENDS Integers, Settings, Throttle, WellFoundedInduction, SequenceTheorems, TLAPS

\* A form nobody crossed was rendered from the destinations that are active, and once it
\* read the routes, what is routed and what it has yet to write make up what was ticked.
SaveOnCourse(t) ==
  LET q == tab[t].query
  IN  t \notin crossed =>
        /\ tab[t].at \in {"shown", "saved", "route"} => tab[t].offered = active
        /\ tab[t].at \in {"saved", "route"} => tab[t].wanted \subseteq tab[t].offered
        /\ tab[t].at = "route" =>
             /\ tab[t].add \subseteq tab[t].wanted
             /\ (RoutedNow(q) \ tab[t].drop) \cup tab[t].add = tab[t].wanted
        /\ tab[t].at = "done" => RoutedNow(q) = tab[t].wanted

SettingsIInv == SettingsTypeOK /\ \A t \in Tab : SaveOnCourse(t)

-----------------------------------------------------------------------------
(* Types. *)

LEMMA NothingTyped == NoTab \in TabRecord /\ NoTap \in Tap /\ NoClone \in Clone
<1>1. AnyQuery \in Query
  BY SettingsAssumption DEF AnyQuery
<1>2. QED
  BY <1>1 DEF NoTab, NoTap, NoClone, TabRecord, TabAt, Tap, Clone

LEMMA TabStepTyped ==
  ASSUME SettingsTypeOK, NEW t \in Tab,
         \/ \E q \in Query : OpenTab(t, q)
         \/ SubmitTab(t) \/ ReadRoutes(t) \/ WriteRoute(t) \/ CloseTab(t)
  PROVE  SettingsTypeOK'
<1>1. /\ tab \in [Tab -> TabRecord] /\ tab[t] \in TabRecord
      /\ tab[t].query \in Query /\ tab[t].blocked \in SUBSET Login
      /\ tab[t].offered \in SUBSET Destination /\ tab[t].wanted \in SUBSET Destination
      /\ tab[t].drop \in SUBSET Destination /\ tab[t].add \in SUBSET Destination
  BY DEF SettingsTypeOK, TabRecord
<1>2. ASSUME NEW q \in Query, OpenTab(t, q)
      PROVE  SettingsTypeOK'
  <2>1. [NoTab EXCEPT !.at = "shown", !.query = q, !.blocked = blocked[q], !.offered = active]
          \in TabRecord
    BY NothingTyped DEF SettingsTypeOK, TabRecord, TabAt, NoTab
  <2>2. QED
    BY <1>1, <1>2, <2>1 DEF OpenTab, SettingsTypeOK
<1>3. CASE SubmitTab(t)
  <2>1. PICK wanted \in SUBSET tab[t].offered :
          tab' = [tab EXCEPT ![t].at = "saved", ![t].wanted = wanted]
    BY <1>3 DEF SubmitTab
  <2>2. wanted \in SUBSET Destination
    BY <1>1
  <2>3. tab' \in [Tab -> TabRecord]
    BY <1>1, <2>1, <2>2 DEF TabRecord, TabAt
  <2>4. blocked' \in [Query -> SUBSET Login]
    BY <1>1, <1>3 DEF SubmitTab, SettingsTypeOK
  <2>5. QED
    BY <1>3, <2>3, <2>4 DEF SubmitTab, SettingsTypeOK
<1>4. CASE ReadRoutes(t)
  <2> DEFINE current == RoutedNow(tab[t].query)
             drop == current \ tab[t].wanted
             add == tab[t].wanted \ current
  <2>1. drop \in SUBSET Destination /\ add \in SUBSET Destination
    BY <1>1 DEF RoutedNow, SettingsTypeOK
  <2>2. tab' = [tab EXCEPT ![t].at = "route", ![t].drop = drop, ![t].add = add]
    BY <1>4 DEF ReadRoutes, Unchecked
  <2> HIDE DEF drop, add
  <2>3. tab' \in [Tab -> TabRecord]
    BY <1>1, <2>1, <2>2 DEF TabRecord, TabAt
  <2>4. QED
    BY <1>4, <2>3 DEF ReadRoutes, SettingsTypeOK
<1>5. CASE WriteRoute(t)
  <2>1. tab' \in [Tab -> TabRecord]
    BY <1>1, <1>5 DEF WriteRoute, TabRecord, TabAt
  <2>2. routes' \in [Query -> SUBSET Destination]
    <3>1. ASSUME NEW d \in Destination
          PROVE  /\ routes[tab[t].query] \ {d} \in SUBSET Destination
                 /\ routes[tab[t].query] \cup {d} \in SUBSET Destination
      BY <1>1 DEF SettingsTypeOK
    <3>2. QED
      BY <1>1, <1>5, <3>1 DEF WriteRoute, SettingsTypeOK
  <2>3. crossed' \subseteq Tab
    BY <1>5 DEF WriteRoute, SettingsTypeOK, OthersOn
  <2>4. QED
    BY <1>5, <2>1, <2>2, <2>3 DEF WriteRoute, SettingsTypeOK
<1>6. CASE CloseTab(t)
  BY <1>1, <1>6 DEF CloseTab, SettingsTypeOK, TabRecord, TabAt
<1>7. QED
  BY <1>2, <1>3, <1>4, <1>5, <1>6

LEMMA OtherStepTyped ==
  ASSUME SettingsTypeOK,
         \/ \E d \in Destination : SwitchDestination(d)
         \/ \E l \in Login : BlockSeller(l) \/ \E q \in Query : PressSkip(l, q)
         \/ \E q, target \in Query : StartClone(q, target)
         \/ AddClone \/ ReadSourceRoutes \/ RouteClone
  PROVE  SettingsTypeOK'
<1> USE DEF SettingsTypeOK
<1>1. ASSUME NEW d \in Destination, SwitchDestination(d)
      PROVE  SettingsTypeOK'
  BY <1>1 DEF SwitchDestination
<1>2. ASSUME NEW l \in Login, BlockSeller(l)
      PROVE  SettingsTypeOK'
  <2>1. tap[l].query \in Query /\ tap[l].read \in SUBSET Login
    BY DEF Tap
  <2>2. QED
    BY <1>2, <2>1, NothingTyped DEF BlockSeller
<1>3. ASSUME NEW l \in Login, NEW q \in Query, PressSkip(l, q)
      PROVE  SettingsTypeOK'
  <2>1. [busy |-> TRUE, query |-> q, read |-> blocked[q]] \in Tap
    BY DEF Tap
  <2>2. QED
    BY <1>3, <2>1 DEF PressSkip
<1>4. ASSUME NEW q \in Query, NEW target \in Query, StartClone(q, target)
      PROVE  SettingsTypeOK'
  <2>1. clone' \in Clone
    BY <1>4 DEF StartClone, Clone
  <2>2. clones' \in 0 .. MaxClones
    BY <1>4, SettingsAssumption DEF StartClone
  <2>3. QED
    BY <1>4, <2>1, <2>2 DEF StartClone
<1>5. CASE AddClone
  BY <1>5 DEF AddClone, Clone
<1>6. CASE ReadSourceRoutes
  BY <1>6 DEF ReadSourceRoutes, Clone, RoutedNow
<1>7. CASE RouteClone
  BY <1>7, NothingTyped DEF RouteClone, Clone
<1>8. QED
  BY <1>1, <1>2, <1>3, <1>4, <1>5, <1>6, <1>7

-----------------------------------------------------------------------------
(* The forms. *)

\* A step elsewhere leaves a form on course, unless the form is crossed by it.
LEMMA LeftAlone ==
  ASSUME NEW t \in Tab, SaveOnCourse(t),
         tab'[t] = tab[t],
         t \notin crossed' =>
           /\ t \notin crossed
           /\ active' = active
           /\ tab[t].at \in {"route", "done"} => routes'[tab[t].query] = routes[tab[t].query]
  PROVE  SaveOnCourse(t)'
BY DEF SaveOnCourse, RoutedNow

LEMMA OpenOnCourse ==
  ASSUME SettingsIInv, NEW t \in Tab, NEW q \in Query, OpenTab(t, q), NEW u \in Tab
  PROVE  SaveOnCourse(u)'
<1>1. tab \in [Tab -> TabRecord] /\ SaveOnCourse(u)
  BY DEF SettingsIInv, SettingsTypeOK
<1>2. CASE u = t
  <2>1. tab'[t].at = "shown" /\ tab'[t].offered = active /\ active' = active
    BY <1>1 DEF OpenTab, NoTab
  <2>2. QED
    BY <1>2, <2>1 DEF SaveOnCourse
<1>3. CASE u # t
  BY <1>1, <1>3, LeftAlone DEF OpenTab
<1>4. QED
  BY <1>2, <1>3

LEMMA SubmitOnCourse ==
  ASSUME SettingsIInv, NEW t \in Tab, SubmitTab(t), NEW u \in Tab
  PROVE  SaveOnCourse(u)'
<1>1. tab \in [Tab -> TabRecord] /\ SaveOnCourse(u)
  BY DEF SettingsIInv, SettingsTypeOK
<1>2. CASE u = t
  <2>1. PICK wanted \in SUBSET tab[t].offered :
          tab' = [tab EXCEPT ![t].at = "saved", ![t].wanted = wanted]
    BY DEF SubmitTab
  <2>2. /\ tab'[t].at = "saved" /\ tab'[t].wanted = wanted
        /\ tab'[t].offered = tab[t].offered
    BY <1>1, <2>1 DEF TabRecord
  <2>3. tab[t].at = "shown" /\ crossed' = crossed /\ active' = active
    BY DEF SubmitTab
  <2>4. QED
    BY <1>1, <1>2, <2>2, <2>3 DEF SaveOnCourse
<1>3. CASE u # t
  BY <1>1, <1>3, LeftAlone DEF SubmitTab
<1>4. QED
  BY <1>2, <1>3

LEMMA ReadOnCourse ==
  ASSUME SettingsIInv, NEW t \in Tab, ReadRoutes(t), NEW u \in Tab
  PROVE  SaveOnCourse(u)'
<1>1. tab \in [Tab -> TabRecord] /\ SaveOnCourse(u)
  BY DEF SettingsIInv, SettingsTypeOK
<1>2. CASE u = t
  <2> DEFINE current == RoutedNow(tab[t].query)
  <2>1. /\ tab'[t].at = "route" /\ tab'[t].wanted = tab[t].wanted
        /\ tab'[t].drop = current \ tab[t].wanted
        /\ tab'[t].add = tab[t].wanted \ current
        /\ tab'[t].query = tab[t].query /\ tab'[t].offered = tab[t].offered
    BY <1>1 DEF ReadRoutes, TabRecord, Unchecked
  <2>2. /\ tab[t].at = "saved" /\ crossed' = crossed
        /\ active' = active /\ routes' = routes
    BY DEF ReadRoutes
  <2>3. routes'[tab'[t].query] \cap active' = current
    BY <2>1, <2>2 DEF RoutedNow
  <2>4. (current \ (current \ tab[t].wanted)) \cup (tab[t].wanted \ current) = tab[t].wanted
    OBVIOUS
  <2> HIDE DEF current
  <2>5. QED
    BY <1>1, <1>2, <2>1, <2>2, <2>3, <2>4 DEF SaveOnCourse, RoutedNow
<1>3. CASE u # t
  BY <1>1, <1>3, LeftAlone DEF ReadRoutes
<1>4. QED
  BY <1>2, <1>3

LEMMA WriteOnCourse ==
  ASSUME SettingsIInv, NEW t \in Tab, WriteRoute(t), NEW u \in Tab
  PROVE  SaveOnCourse(u)'
<1> DEFINE q == tab[t].query
<1>1. /\ tab \in [Tab -> TabRecord] /\ routes \in [Query -> SUBSET Destination]
      /\ SaveOnCourse(u) /\ q \in Query
  BY DEF SettingsIInv, SettingsTypeOK, TabRecord
<1>2. /\ tab[t].at = "route" /\ active' = active
      /\ crossed' = crossed \cup OthersOn(q, t)
  BY DEF WriteRoute
<1>3. CASE u = t
  <2>1. t \notin OthersOn(q, t)
    BY DEF OthersOn
  <2>2. ASSUME NEW d \in tab[t].drop,
               routes' = [routes EXCEPT ![q] = @ \ {d}],
               tab' = [tab EXCEPT ![t].drop = @ \ {d}]
        PROVE  SaveOnCourse(t)'
    <3>1. /\ tab'[t].at = "route" /\ tab'[t].wanted = tab[t].wanted
          /\ tab'[t].drop = tab[t].drop \ {d} /\ tab'[t].add = tab[t].add
          /\ tab'[t].query = q /\ tab'[t].offered = tab[t].offered
      BY <1>1, <1>2, <2>2 DEF TabRecord
    <3>2. routes'[q] = routes[q] \ {d}
      BY <1>1, <2>2
    <3>3. QED
      BY <1>1, <1>2, <1>3, <2>1, <2>2, <3>1, <3>2 DEF SaveOnCourse, RoutedNow
  <2>3. ASSUME tab[t].drop = {}, NEW d \in tab[t].add,
               routes' = [routes EXCEPT ![q] = @ \cup {d}],
               tab' = [tab EXCEPT ![t].add = @ \ {d}]
        PROVE  SaveOnCourse(t)'
    <3>1. /\ tab'[t].at = "route" /\ tab'[t].wanted = tab[t].wanted
          /\ tab'[t].drop = {} /\ tab'[t].add = tab[t].add \ {d}
          /\ tab'[t].query = q /\ tab'[t].offered = tab[t].offered
      BY <1>1, <1>2, <2>3 DEF TabRecord
    <3>2. routes'[q] = routes[q] \cup {d}
      BY <1>1, <2>3
    <3>3. QED
      BY <1>1, <1>2, <1>3, <2>1, <2>3, <3>1, <3>2 DEF SaveOnCourse, RoutedNow
  <2>4. QED
    BY <1>3, <2>2, <2>3 DEF WriteRoute
<1>4. CASE u # t
  <2>1. tab'[u] = tab[u]
    BY <1>1, <1>4 DEF WriteRoute
  <2>2. ASSUME u \notin crossed', tab[u].at \in {"route", "done"}
        PROVE  routes'[tab[u].query] = routes[tab[u].query]
    <3>1. tab[u].query # q /\ tab[u].query \in Query
      BY <1>1, <1>2, <1>4, <2>2 DEF OthersOn, TabRecord
    <3>2. QED
      BY <1>1, <3>1 DEF WriteRoute
  <2>3. QED
    BY <1>1, <1>2, <2>1, <2>2, LeftAlone
<1>5. QED
  BY <1>3, <1>4

LEMMA CloseOnCourse ==
  ASSUME SettingsIInv, NEW t \in Tab, CloseTab(t), NEW u \in Tab
  PROVE  SaveOnCourse(u)'
<1>1. tab \in [Tab -> TabRecord] /\ SaveOnCourse(u)
  BY DEF SettingsIInv, SettingsTypeOK
<1>2. CASE u = t
  <2>1. /\ tab'[t].at = "done" /\ tab'[t].wanted = tab[t].wanted
        /\ tab'[t].query = tab[t].query
    BY <1>1 DEF CloseTab, TabRecord
  <2>2. /\ tab[t].at = "route" /\ tab[t].drop = {} /\ tab[t].add = {}
        /\ crossed' = crossed /\ active' = active /\ routes' = routes
    BY DEF CloseTab
  <2>3. QED
    BY <1>1, <1>2, <2>1, <2>2 DEF SaveOnCourse, RoutedNow
<1>3. CASE u # t
  BY <1>1, <1>3, LeftAlone DEF CloseTab
<1>4. QED
  BY <1>2, <1>3

LEMMA OthersOnCourse ==
  ASSUME SettingsIInv, NEW u \in Tab,
         \/ \E d \in Destination : SwitchDestination(d)
         \/ \E l \in Login : BlockSeller(l) \/ \E q \in Query : PressSkip(l, q)
         \/ \E q, target \in Query : StartClone(q, target)
         \/ AddClone \/ ReadSourceRoutes \/ RouteClone
  PROVE  SaveOnCourse(u)'
<1>1. /\ SaveOnCourse(u) /\ clone \in Clone /\ routes \in [Query -> SUBSET Destination]
      /\ tab[u].at \in TabAt /\ tab[u].query \in Query
  BY DEF SettingsIInv, SettingsTypeOK, TabRecord
<1>2. ASSUME NEW d \in Destination, SwitchDestination(d)
      PROVE  SaveOnCourse(u)'
  <2>1. tab'[u] = tab[u] /\ crossed' = {t \in Tab : tab[t].at # "closed"}
    BY <1>2 DEF SwitchDestination
  <2>2. u \notin crossed' => tab[u].at = "closed"
    BY <2>1
  <2>3. QED
    BY <2>1, <2>2 DEF SaveOnCourse
<1>3. ASSUME NEW l \in Login, BlockSeller(l) \/ \E q \in Query : PressSkip(l, q)
      PROVE  SaveOnCourse(u)'
  BY <1>1, <1>3, LeftAlone DEF BlockSeller, PressSkip
<1>4. ASSUME NEW q \in Query, NEW target \in Query, StartClone(q, target)
      PROVE  SaveOnCourse(u)'
  BY <1>1, <1>4, LeftAlone DEF StartClone
<1>5. CASE AddClone \/ ReadSourceRoutes
  BY <1>1, <1>5, LeftAlone DEF AddClone, ReadSourceRoutes
<1>6. CASE RouteClone
  <2>1. tab'[u] = tab[u] /\ active' = active /\ (u \notin crossed' => u \notin crossed)
    BY <1>6 DEF RouteClone
  <2>2. ASSUME u \notin crossed'
        PROVE  routes'[tab[u].query] = routes[tab[u].query]
    <3>1. CASE routes' = routes
      BY <3>1
    <3>2. ASSUME NEW d \in clone.add,
                 routes' = [routes EXCEPT ![clone.target] = @ \cup {d}],
                 crossed' = crossed \cup {t \in Tab : tab[t].query = clone.target}
          PROVE  routes'[tab[u].query] = routes[tab[u].query]
      BY <1>1, <2>2, <3>2
    <3>3. QED
      BY <1>6, <3>1, <3>2 DEF RouteClone
  <2>3. QED
    BY <1>1, <2>1, <2>2, LeftAlone
<1>7. QED
  BY <1>2, <1>3, <1>4, <1>5, <1>6

-----------------------------------------------------------------------------

\* The inductive invariant: every form nobody crossed is on course.
THEOREM SettingsInvariance == SettingsSpec => []SettingsIInv
<1>1. SettingsInit => SettingsIInv
  <2> SUFFICES ASSUME SettingsInit
               PROVE  SettingsIInv
    OBVIOUS
  <2>1. AnyQuery \in Query
    BY SettingsAssumption DEF AnyQuery
  <2>2. SettingsTypeOK
    BY <2>1, NothingTyped, SettingsAssumption DEF SettingsInit, SettingsTypeOK
  <2>3. ASSUME NEW t \in Tab
        PROVE  SaveOnCourse(t)
    BY DEF SettingsInit, NoTab, SaveOnCourse
  <2>4. QED
    BY <2>2, <2>3 DEF SettingsIInv
<1>2. ASSUME SettingsIInv, [SettingsNext]_settingsVars
      PROVE  SettingsIInv'
  <2>1. CASE UNCHANGED settingsVars
    BY <1>2, <2>1 DEF settingsVars, SettingsIInv, SettingsTypeOK, SaveOnCourse, RoutedNow
  <2>2. ASSUME NEW t \in Tab,
               \/ \E q \in Query : OpenTab(t, q)
               \/ SubmitTab(t) \/ ReadRoutes(t) \/ WriteRoute(t) \/ CloseTab(t)
        PROVE  SettingsIInv'
    <3>1. SettingsTypeOK'
      BY <1>2, <2>2, TabStepTyped DEF SettingsIInv
    <3>2. \A u \in Tab : SaveOnCourse(u)'
      BY <1>2, <2>2, OpenOnCourse, SubmitOnCourse, ReadOnCourse, WriteOnCourse, CloseOnCourse
    <3>3. QED
      BY <3>1, <3>2 DEF SettingsIInv
  <2>3. ASSUME \/ \E d \in Destination : SwitchDestination(d)
               \/ \E l \in Login : BlockSeller(l) \/ \E q \in Query : PressSkip(l, q)
               \/ \E q, target \in Query : StartClone(q, target)
               \/ AddClone \/ ReadSourceRoutes \/ RouteClone
        PROVE  SettingsIInv'
    <3>1. SettingsTypeOK'
      BY <1>2, <2>3, OtherStepTyped DEF SettingsIInv
    <3>2. \A u \in Tab : SaveOnCourse(u)'
      BY <1>2, <2>3, OthersOnCourse
    <3>3. QED
      BY <3>1, <3>2 DEF SettingsIInv
  <2>4. QED
    BY <1>2, <2>1, <2>2, <2>3 DEF SettingsNext
<1>3. QED
  BY <1>1, <1>2, PTL DEF SettingsSpec

\* SaveSettles, of edit_search: once a save is through, the search feeds exactly what was
\* ticked, unless somebody else wrote its routes or switched a destination meanwhile.
THEOREM SavesSettle == SettingsSpec => []SaveSettles
<1>1. SettingsIInv => SaveSettles
  BY DEF SettingsIInv, SaveOnCourse, SaveSettles
<1>2. QED
  BY <1>1, SettingsInvariance, PTL

-----------------------------------------------------------------------------
(* The login throttle. *)

LEMMA LeastExists ==
  ASSUME NEW S \in SUBSET Nat, S # {}
  PROVE  \E m \in S : \A n \in S : m <= n
<1>1. PICK m \in S : \A n \in S : <<n, m>> \notin OpToRel(<, Nat)
  BY NatLessThanWellFounded, WFMin, Zenon
<1>2. \A n \in S : ~(n < m)
  BY <1>1, Zenon DEF OpToRel
<1>3. QED
  BY <1>2

\* What is dropped at the front left the window; the rest is kept, in order.
LEMMA RecentIsSuffix ==
  ASSUME ThrottleTypeOK, NEW c \in Client
  PROVE  \E d \in 0 .. Len(failures[c]) :
           /\ \A i \in 1 .. d : now - failures[c][i] > Window
           /\ Recent(c) \in Seq(0 .. MaxClock)
           /\ Len(Recent(c)) = Len(failures[c]) - d + 1
           /\ \A i \in 1 .. Len(failures[c]) - d : Recent(c)[i] = failures[c][d + i]
           /\ Recent(c)[Len(failures[c]) - d + 1] = now
<1> DEFINE k == Len(failures[c])
           all == Append(failures[c], now)
           kept == {i \in 1 .. Len(all) : now - all[i] <= Window}
           first == CHOOSE i \in kept : \A j \in kept : i <= j
<1>1. /\ failures[c] \in Seq(0 .. MaxClock) /\ k \in Nat /\ now \in 0 .. MaxClock
      /\ Window \in Nat
  BY ThrottleAssumption DEF ThrottleTypeOK
<1>2. /\ all \in Seq(0 .. MaxClock) /\ Len(all) = k + 1 /\ all[k + 1] = now
      /\ \A i \in 1 .. k : all[i] = failures[c][i] /\ failures[c][i] \in 0 .. MaxClock
  <2>1. /\ all \in Seq(0 .. MaxClock) /\ Len(all) = k + 1 /\ all[k + 1] = now
        /\ \A i \in 1 .. k : all[i] = failures[c][i]
    BY <1>1, AppendProperties
  <2>2. \A i \in 1 .. k : failures[c][i] \in 0 .. MaxClock
    BY <1>1, ElementOfSeq
  <2>3. QED
    BY <2>1, <2>2
<1>3. Recent(c) = SubSeq(all, first, k + 1)
  BY <1>2 DEF Recent
<1> HIDE DEF k, all
<1>4. k + 1 \in kept /\ kept \in SUBSET Nat
  BY <1>1, <1>2
<1>5. first \in kept /\ \A j \in kept : first <= j
  BY <1>4, LeastExists
<1>6. first \in 1 .. k + 1
  <2> HIDE DEF first
  <2>1. QED
    BY <1>2, <1>5
<1> HIDE DEF first
<1>7. PICK d \in 0 .. k : first = d + 1
  <2>1. first - 1 \in 0 .. k /\ first = (first - 1) + 1
    BY <1>1, <1>6
  <2>2. QED
    BY <2>1
<1>8. ASSUME NEW i \in 1 .. d
      PROVE  now - failures[c][i] > Window
  <2>1. i \in 1 .. k /\ i \in 1 .. k + 1 /\ ~(first <= i)
    BY <1>1, <1>7
  <2>2. i \notin kept
    BY <1>5, <2>1
  <2>3. all[i] = failures[c][i] /\ failures[c][i] \in 0 .. MaxClock
    BY <1>2, <2>1
  <2>4. ~(now - all[i] <= Window)
    BY <1>2, <2>1, <2>2
  <2>5. QED
    BY <1>1, <2>3, <2>4
<1> HIDE DEF kept
<1>9. /\ Recent(c) \in Seq(0 .. MaxClock) /\ Len(Recent(c)) = k - d + 1
      /\ \A i \in 1 .. k - d + 1 : Recent(c)[i] = all[d + i]
  <2>1. \A i \in 1 .. k + 1 : all[i] \in 0 .. MaxClock
    BY <1>1, <1>2
  <2>2. d + 1 \in Int /\ k + 1 \in Int /\ d + 1 <= k + 1
    BY <1>1, <1>7
  <2>3. \A i \in d + 1 .. k + 1 : all[i] \in 0 .. MaxClock
    BY <1>1, <1>7, <2>1
  <2>4. /\ SubSeq(all, d + 1, k + 1) \in Seq(0 .. MaxClock)
        /\ Len(SubSeq(all, d + 1, k + 1)) = (k + 1) - (d + 1) + 1
        /\ \A i \in 1 .. (k + 1) - (d + 1) + 1 :
             SubSeq(all, d + 1, k + 1)[i] = all[(d + 1) + i - 1]
    BY <2>2, <2>3, SubSeqProperties
  <2>5. (k + 1) - (d + 1) + 1 = k - d + 1 /\ \A i \in Int : (d + 1) + i - 1 = d + i
    BY <1>1, <1>7
  <2>6. QED
    BY <1>1, <1>3, <1>7, <2>4, <2>5
<1>10. \A i \in 1 .. k - d : Recent(c)[i] = failures[c][d + i]
  <2>1. SUFFICES ASSUME NEW i \in 1 .. k - d
                 PROVE  Recent(c)[i] = failures[c][d + i]
    OBVIOUS
  <2>2. i \in 1 .. k - d + 1 /\ d + i \in 1 .. k
    BY <1>1, <1>7
  <2>3. QED
    BY <1>2, <1>9, <2>2
<1>11. Recent(c)[k - d + 1] = now
  <2>1. k - d + 1 \in 1 .. k - d + 1 /\ d + (k - d + 1) = k + 1
    BY <1>1, <1>7
  <2>2. QED
    BY <1>2, <1>9, <2>1
<1>12. QED
  BY <1>7, <1>8, <1>9, <1>10, <1>11 DEF k

LEMMA NumbersTyped ==
  ASSUME ThrottleTypeOK, NEW c \in Client
  PROVE  /\ now \in 0 .. MaxClock /\ MaxClock \in Nat /\ blockedUntil[c] \in Nat
         /\ cooldown[c] \in Cooldown .. MaxCooldown
         /\ MaxCooldown \in Nat /\ Cooldown \in Nat /\ Window \in Nat
         /\ Attempts \in Nat \ {0}
         /\ Len(wrong[c]) \in Nat /\ Len(failures[c]) \in Nat
<1>1. /\ now \in 0 .. MaxClock /\ blockedUntil[c] \in Nat
      /\ cooldown[c] \in Cooldown .. MaxCooldown
      /\ wrong[c] \in Seq(0 .. MaxClock) /\ failures[c] \in Seq(0 .. MaxClock)
  BY DEF ThrottleTypeOK
<1>2. Len(wrong[c]) \in Nat /\ Len(failures[c]) \in Nat
  BY <1>1, LenProperties
<1>3. QED
  BY <1>1, <1>2, ThrottleAssumption

LEMMA RecordTyped ==
  ASSUME ThrottleTypeOK, NEW c \in Client
  PROVE  /\ wrong[c] \in Seq(0 .. MaxClock) /\ failures[c] \in Seq(0 .. MaxClock)
         /\ \A i \in 1 .. Len(wrong[c]) : wrong[c][i] \in 0 .. MaxClock
<1>1. wrong[c] \in Seq(0 .. MaxClock) /\ failures[c] \in Seq(0 .. MaxClock)
  BY DEF ThrottleTypeOK
<1>2. QED
  BY <1>1, ElementOfSeq

\* A client whose record nothing touches, but for the clock, stays as it was.
LEMMA UntouchedKeeps ==
  ASSUME ThrottleIInv, NEW c \in Client, now' \in Nat, now <= now',
         failures'[c] = failures[c], blockedUntil'[c] = blockedUntil[c], wrong'[c] = wrong[c]
  PROVE  /\ blockedUntil'[c] <= now' + MaxCooldown
         /\ \A i \in 1 .. Len(wrong'[c]) : wrong'[c][i] <= now'
         /\ FailuresAreLast(c)' /\ ForgottenIsPaid(c)'
<1> DEFINE n == Len(wrong[c])
           m == n - Len(failures[c])
<1>1. /\ now \in Nat /\ blockedUntil[c] \in Nat /\ MaxCooldown \in Nat /\ Cooldown \in Nat
      /\ Window \in Nat /\ n \in Nat /\ Len(failures[c]) \in Nat
  BY NumbersTyped DEF ThrottleIInv
<1>2. \A i \in 1 .. n : wrong[c][i] \in Nat
  BY RecordTyped DEF ThrottleIInv
<1>3. FailuresAreLast(c)'
  BY DEF ThrottleIInv, FailuresAreLast
<1>4. blockedUntil'[c] <= now' + MaxCooldown
  BY <1>1 DEF ThrottleIInv
<1>5. \A i \in 1 .. Len(wrong'[c]) : wrong'[c][i] <= now'
  BY <1>1, <1>2 DEF ThrottleIInv
<1>6. \A i \in 1 .. m : \/ now - wrong[c][i] > Window
                         \/ wrong[c][i] + Cooldown <= now
                         \/ wrong[c][i] + Cooldown <= blockedUntil[c]
  BY DEF ThrottleIInv, ForgottenIsPaid
<1>7. ASSUME NEW i \in 1 .. m
      PROVE  \/ now' - wrong[c][i] > Window
             \/ wrong[c][i] + Cooldown <= now'
             \/ wrong[c][i] + Cooldown <= blockedUntil[c]
  <2>1. i \in 1 .. n
    <3> HIDE DEF n
    <3>1. QED
      BY <1>1
  <2> HIDE DEF m, n
  <2>2. wrong[c][i] \in Nat
    BY <1>2, <2>1
  <2>3. QED
    <3>1. i \in 1 .. m
      OBVIOUS
    <3>2. CASE now - wrong[c][i] > Window
      BY <1>1, <2>2, <3>2
    <3>3. CASE wrong[c][i] + Cooldown <= now
      BY <1>1, <2>2, <3>3
    <3>4. QED
      BY <1>6, <3>1, <3>2, <3>3
<1>8. ForgottenIsPaid(c)'
  BY <1>7 DEF ForgottenIsPaid
<1>9. QED
  BY <1>3, <1>4, <1>5, <1>8

LEMMA TickKeeps ==
  ASSUME ThrottleIInv, ThrottleTick
  PROVE  ThrottleIInv'
<1>1. /\ now' = now + 1 /\ now' \in 0 .. MaxClock /\ now \in Nat
      /\ failures' = failures /\ blockedUntil' = blockedUntil /\ cooldown' = cooldown
      /\ wrong' = wrong
  BY ThrottleAssumption DEF ThrottleTick, ThrottleIInv, ThrottleTypeOK
<1>2. ThrottleTypeOK'
  BY <1>1 DEF ThrottleIInv, ThrottleTypeOK
<1>3. GuessesArePaced'
  BY <1>1 DEF ThrottleIInv, GuessesArePaced
<1>4. QED
  BY <1>1, <1>2, <1>3, UntouchedKeeps DEF ThrottleIInv

LEMMA RightKeeps ==
  ASSUME ThrottleIInv, NEW c \in Client, RightPassword(c)
  PROVE  ThrottleIInv'
<1>1. /\ now' = now
      /\ failures' = [failures EXCEPT ![c] = <<>>]
      /\ blockedUntil' = [blockedUntil EXCEPT ![c] = 0]
      /\ cooldown' = [cooldown EXCEPT ![c] = Cooldown]
      /\ wrong' = [wrong EXCEPT ![c] = <<>>]
  BY DEF RightPassword
<1>2. ThrottleTypeOK /\ now \in Nat
  BY DEF ThrottleIInv, ThrottleTypeOK
<1>3. ThrottleTypeOK'
  BY <1>1, <1>2, ThrottleAssumption DEF ThrottleTypeOK
<1>4. /\ failures'[c] = <<>> /\ wrong'[c] = <<>> /\ blockedUntil'[c] = 0
      /\ \A e \in Client \ {c} : /\ failures'[e] = failures[e] /\ wrong'[e] = wrong[e]
                                /\ blockedUntil'[e] = blockedUntil[e]
  BY <1>1, <1>2 DEF ThrottleTypeOK
<1>5. ASSUME NEW e \in Client
      PROVE  /\ blockedUntil'[e] <= now' + MaxCooldown
             /\ \A i \in 1 .. Len(wrong'[e]) : wrong'[e][i] <= now'
             /\ FailuresAreLast(e)' /\ ForgottenIsPaid(e)'
  <2>1. CASE e = c
    <3>1. /\ Len(failures'[c]) = 0 /\ Len(wrong'[c]) = 0 /\ blockedUntil'[c] = 0
          /\ now' = now /\ now \in Nat /\ MaxCooldown \in Nat /\ Attempts \in Nat \ {0}
      BY <1>1, <1>2, <1>4, ThrottleAssumption
    <3>2. FailuresAreLast(c)' /\ ForgottenIsPaid(c)'
      BY <3>1 DEF FailuresAreLast, ForgottenIsPaid
    <3>3. QED
      BY <2>1, <3>1, <3>2
  <2>2. CASE e # c
    BY <1>1, <1>2, <1>4, <2>2, UntouchedKeeps
  <2>3. QED
    BY <2>1, <2>2
<1>6. GuessesArePaced'
  BY <1>4 DEF ThrottleIInv, GuessesArePaced
<1>7. QED
  BY <1>3, <1>5, <1>6 DEF ThrottleIInv

\* Only what is forgotten can be Attempts places back, and it was paid for.
LEMMA WrongKeeps ==
  ASSUME ThrottleIInv, NEW c \in Client, WrongPassword(c)
  PROVE  ThrottleIInv'
<1> DEFINE n == Len(wrong[c])
           k == Len(failures[c])
<1>1. /\ now \in 0 .. MaxClock /\ MaxClock \in Nat /\ blockedUntil[c] \in Nat
      /\ cooldown[c] \in Cooldown .. MaxCooldown
      /\ MaxCooldown \in Nat /\ Cooldown \in Nat /\ Window \in Nat
      /\ Attempts \in Nat \ {0} /\ n \in Nat /\ k \in Nat
  BY NumbersTyped DEF ThrottleIInv
<1>2. /\ wrong[c] \in Seq(0 .. MaxClock) /\ failures[c] \in Seq(0 .. MaxClock)
      /\ \A i \in 1 .. n : wrong[c][i] \in 0 .. MaxClock
  BY RecordTyped DEF ThrottleIInv
<1>3. /\ now' = now /\ wrong' = [wrong EXCEPT ![c] = Append(wrong[c], now)]
      /\ wrong'[c] = Append(wrong[c], now)
      /\ \A e \in Client \ {c} : wrong'[e] = wrong[e]
      /\ ~(blockedUntil[c] > now)
  BY DEF WrongPassword, ThrottleIInv, ThrottleTypeOK, Blocked
<1>4. /\ Len(wrong'[c]) = n + 1 /\ wrong'[c][n + 1] = now
      /\ \A i \in 1 .. n : wrong'[c][i] = wrong[c][i]
  BY <1>2, <1>1, <1>3, AppendProperties
<1>5. /\ k <= n /\ k < Attempts
      /\ \A i \in 1 .. k : failures[c][i] = wrong[c][n - k + i]
      /\ \A i \in 1 .. n : wrong[c][i] <= now
  BY DEF ThrottleIInv, FailuresAreLast
<1>6. \A i \in 1 .. n - k : now - wrong[c][i] > Window \/ wrong[c][i] + Cooldown <= now
  <2>1. ASSUME NEW i \in 1 .. n - k
        PROVE  now - wrong[c][i] > Window \/ wrong[c][i] + Cooldown <= now
    <3>1. \/ now - wrong[c][i] > Window
          \/ wrong[c][i] + Cooldown <= now
          \/ wrong[c][i] + Cooldown <= blockedUntil[c]
      BY DEF ThrottleIInv, ForgottenIsPaid
    <3> HIDE DEF n, k
    <3>2. wrong[c][i] \in Nat /\ now \in Nat
      BY <1>2, <1>1, <1>5
    <3>3. QED
      BY <1>1, <1>3, <3>1, <3>2
  <2>2. QED
    BY <2>1
<1>7. PICK d \in 0 .. k :
        /\ \A i \in 1 .. d : now - failures[c][i] > Window
        /\ Recent(c) \in Seq(0 .. MaxClock)
        /\ Len(Recent(c)) = k - d + 1
        /\ \A i \in 1 .. k - d : Recent(c)[i] = failures[c][d + i]
        /\ Recent(c)[k - d + 1] = now
  BY RecentIsSuffix DEF ThrottleIInv
<1> HIDE DEF n, k
<1>8. /\ n \in Nat /\ k \in Nat /\ d \in Nat /\ d <= k /\ k <= n
  BY <1>1, <1>5, <1>7
<1>9. \A i \in 1 .. n : wrong'[c][i] \in Nat /\ wrong'[c][i] <= now
  BY <1>2, <1>4, <1>5
<1>10. \A i \in 1 .. n + 1 : wrong'[c][i] \in Nat /\ wrong'[c][i] <= now
  <2>1. SUFFICES ASSUME NEW i \in 1 .. n + 1
                 PROVE  wrong'[c][i] \in Nat /\ wrong'[c][i] <= now
    OBVIOUS
  <2>2. i \in 1 .. n \/ i = n + 1
    BY <1>8
  <2>3. wrong'[c][n + 1] \in Nat /\ wrong'[c][n + 1] <= now
    BY <1>1, <1>4
  <2>4. QED
    BY <1>9, <2>2, <2>3
<1>11. GuessesArePaced'
  <2> SUFFICES ASSUME NEW e \in Client, NEW i \in 1 .. Len(wrong'[e]),
                      i + Attempts <= Len(wrong'[e])
               PROVE  \/ wrong'[e][i + Attempts] - wrong'[e][i] >= Cooldown
                      \/ wrong'[e][i + Attempts] - wrong'[e][i] > Window
    BY DEF GuessesArePaced
  <2>1. CASE e # c
    BY <1>3, <2>1 DEF ThrottleIInv, GuessesArePaced
  <2>2. CASE e = c /\ i + Attempts <= n
    <3>1. i \in 1 .. n /\ i + Attempts \in 1 .. n
      BY <1>1, <1>4, <2>2
    <3>2. wrong'[c][i] = wrong[c][i] /\ wrong'[c][i + Attempts] = wrong[c][i + Attempts]
      BY <1>4, <3>1
    <3>3. \/ wrong[c][i + Attempts] - wrong[c][i] >= Cooldown
          \/ wrong[c][i + Attempts] - wrong[c][i] > Window
      BY <2>2, <3>1 DEF ThrottleIInv, GuessesArePaced, n
    <3>4. QED
      BY <2>2, <3>2, <3>3
  <2>3. CASE e = c /\ i + Attempts = n + 1
    <3>1. i \in 1 .. n - k /\ i \in 1 .. n
      BY <1>1, <1>4, <1>5, <2>3
    <3>2. wrong'[c][i] = wrong[c][i] /\ wrong'[c][i + Attempts] = now
      BY <1>4, <2>3, <3>1
    <3>3. now - wrong[c][i] > Window \/ wrong[c][i] + Cooldown <= now
      BY <1>6, <3>1
    <3>4. wrong[c][i] \in Nat /\ now \in Nat
      BY <1>2, <1>1, <3>1
    <3>5. QED
      BY <1>1, <2>3, <3>2, <3>3, <3>4
  <2>4. QED
    BY <1>1, <1>4, <2>1, <2>2, <2>3
<1>12. CASE IsTooMany(Len(Recent(c)))
  <2>1. /\ failures' = [failures EXCEPT ![c] = <<>>] /\ failures'[c] = <<>>
        /\ blockedUntil' = [blockedUntil EXCEPT ![c] = now + cooldown[c]]
        /\ blockedUntil'[c] = now + cooldown[c]
        /\ cooldown' = [cooldown EXCEPT ![c] = Doubled(cooldown[c])]
        /\ \A e \in Client \ {c} : failures'[e] = failures[e] /\ blockedUntil'[e] = blockedUntil[e]
    BY <1>12 DEF WrongPassword, ThrottleIInv, ThrottleTypeOK
  <2>2. Doubled(cooldown[c]) \in Cooldown .. MaxCooldown /\ now + cooldown[c] \in Nat
    BY <1>1 DEF Doubled, AtMost
  <2>3. ThrottleTypeOK'
    BY <1>2, <1>1, <1>3, <2>1, <2>2 DEF ThrottleIInv, ThrottleTypeOK
  <2>4. ASSUME NEW e \in Client
        PROVE  /\ blockedUntil'[e] <= now' + MaxCooldown
               /\ \A i \in 1 .. Len(wrong'[e]) : wrong'[e][i] <= now'
               /\ FailuresAreLast(e)' /\ ForgottenIsPaid(e)'
    <3>1. CASE e = c
      <4>1. blockedUntil'[c] <= now' + MaxCooldown
        BY <1>1, <1>3, <2>1
      <4>2. ASSUME NEW i \in 1 .. n + 1
            PROVE  wrong'[c][i] <= now /\ wrong'[c][i] \in Nat
        BY <1>10
      <4>3. FailuresAreLast(c)'
        <5>1. Len(failures'[c]) = 0 /\ Len(wrong'[c]) = n + 1 /\ 0 <= n + 1 /\ 0 < Attempts
          BY <1>1, <1>4, <2>1
        <5>2. QED
          BY <5>1 DEF FailuresAreLast
      <4>4. ForgottenIsPaid(c)'
        <5>1. ASSUME NEW i \in 1 .. n + 1
              PROVE  wrong'[c][i] + Cooldown <= blockedUntil'[c]
          <6>1. cooldown[c] \in Nat /\ Cooldown <= cooldown[c] /\ now \in Nat /\ Cooldown \in Nat
            BY <1>1
          <6>2. blockedUntil'[c] = now + cooldown[c]
            BY <2>1
          <6>3. QED
            BY <4>2, <6>1, <6>2
        <5>2. Len(wrong'[c]) - Len(failures'[c]) = n + 1
          <6>1. Len(wrong'[c]) = n + 1 /\ Len(failures'[c]) = 0 /\ n + 1 \in Nat
            BY <1>4, <1>8, <2>1
          <6>2. QED
            BY <6>1
        <5>3. QED
          BY <5>1, <5>2 DEF ForgottenIsPaid
      <4>5. QED
        BY <1>3, <1>4, <3>1, <4>1, <4>2, <4>3, <4>4
    <3>2. CASE e # c
      BY <1>1, <1>3, <2>1, <3>2, UntouchedKeeps
    <3>3. QED
      BY <3>1, <3>2
  <2>5. QED
    BY <1>11, <2>3, <2>4 DEF ThrottleIInv
<1>13. CASE ~IsTooMany(Len(Recent(c)))
  <2>1. /\ failures' = [failures EXCEPT ![c] = Recent(c)] /\ failures'[c] = Recent(c)
        /\ blockedUntil' = blockedUntil /\ cooldown' = cooldown
        /\ \A e \in Client \ {c} : failures'[e] = failures[e]
    BY <1>13 DEF WrongPassword, ThrottleIInv, ThrottleTypeOK
  <2>2. ThrottleTypeOK'
    <3>1. Append(wrong[c], now) \in Seq(0 .. MaxClock)
      BY <1>2, <1>1, AppendProperties
    <3>2. wrong' \in [Client -> Seq(0 .. MaxClock)]
      BY <1>3, <3>1 DEF ThrottleIInv, ThrottleTypeOK
    <3>3. failures' \in [Client -> Seq(0 .. MaxClock)]
      BY <1>7, <2>1 DEF ThrottleIInv, ThrottleTypeOK
    <3>4. QED
      BY <1>3, <2>1, <3>2, <3>3 DEF ThrottleIInv, ThrottleTypeOK
  <2>3. Len(failures'[c]) = k - d + 1 /\ Len(failures'[c]) < Attempts
    BY <1>1, <1>7, <1>13, <2>1 DEF IsTooMany
  <2>4. FailuresAreLast(c)'
    <3>1. ASSUME NEW i \in 1 .. k - d + 1
          PROVE  Recent(c)[i] = wrong'[c][(n + 1) - (k - d + 1) + i]
      <4>1. CASE i = k - d + 1
        <5>1. (n + 1) - (k - d + 1) + i = n + 1
          BY <1>8, <4>1
        <5>2. QED
          BY <1>4, <1>7, <4>1, <5>1
      <4>2. CASE i \in 1 .. k - d
        <5>1. Recent(c)[i] = failures[c][d + i] /\ d + i \in 1 .. k
          BY <1>8, <1>7, <4>2
        <5>2. failures[c][d + i] = wrong[c][n - k + (d + i)]
          BY <1>5, <5>1
        <5>3. n - k + (d + i) \in 1 .. n /\ n - k + (d + i) = (n + 1) - (k - d + 1) + i
          BY <1>8, <4>2
        <5>4. QED
          BY <1>4, <5>1, <5>2, <5>3
      <4>3. QED
        BY <1>8, <4>1, <4>2
    <3>2. k - d + 1 <= n + 1
      BY <1>8
    <3>3. QED
      BY <1>4, <2>1, <2>3, <3>1, <3>2 DEF FailuresAreLast
  <2>5. ForgottenIsPaid(c)'
    <3>1. ASSUME NEW i \in 1 .. (n + 1) - (k - d + 1)
          PROVE  now - wrong'[c][i] > Window \/ wrong'[c][i] + Cooldown <= now
      <4>1. i \in 1 .. n /\ wrong'[c][i] = wrong[c][i]
        <5>1. i \in 1 .. n
          BY <1>8
        <5>2. QED
          BY <1>4, <5>1
      <4>2. CASE i \in 1 .. n - k
        BY <1>6, <4>1, <4>2
      <4>3. CASE i \notin 1 .. n - k
        <5>1. i - (n - k) \in 1 .. d
          BY <1>8, <4>3
        <5>2. i - (n - k) \in 1 .. k
          BY <1>8, <5>1
        <5>3. failures[c][i - (n - k)] = wrong[c][n - k + (i - (n - k))]
          BY <1>5, <5>2
        <5>4. n - k + (i - (n - k)) = i
          BY <1>8, <4>1
        <5>5. QED
          BY <1>7, <4>1, <5>1, <5>3, <5>4
      <4>4. QED
        BY <4>2, <4>3
    <3>2. QED
      BY <1>3, <1>4, <2>1, <2>3, <3>1 DEF ForgottenIsPaid
  <2>6. ASSUME NEW e \in Client
        PROVE  /\ blockedUntil'[e] <= now' + MaxCooldown
               /\ \A i \in 1 .. Len(wrong'[e]) : wrong'[e][i] <= now'
               /\ FailuresAreLast(e)' /\ ForgottenIsPaid(e)'
    <3>1. CASE e = c
      <4>1. blockedUntil'[c] <= now' + MaxCooldown
        BY <1>1, <1>3, <2>1
      <4>2. \A i \in 1 .. n + 1 : wrong'[c][i] <= now
        BY <1>10
      <4>3. QED
        BY <1>3, <1>4, <2>4, <2>5, <3>1, <4>1, <4>2
    <3>2. CASE e # c
      BY <1>1, <1>3, <2>1, <3>2, UntouchedKeeps
    <3>3. QED
      BY <3>1, <3>2
  <2>7. QED
    BY <1>11, <2>2, <2>6 DEF ThrottleIInv
<1>14. QED
  BY <1>12, <1>13

\* The inductive invariant: of the wrong passwords since the last right one, the newest are
\* kept, and the others left the window or were paid for.
THEOREM ThrottleInvariance == ThrottleSpec => []ThrottleIInv
<1>1. ThrottleInit => ThrottleIInv
  BY ThrottleAssumption DEF ThrottleInit, ThrottleIInv, ThrottleTypeOK, FailuresAreLast,
     ForgottenIsPaid, GuessesArePaced
<1>2. ThrottleIInv /\ [ThrottleNext]_throttleVars => ThrottleIInv'
  <2>1. CASE UNCHANGED throttleVars
    BY <2>1 DEF throttleVars, ThrottleIInv, ThrottleTypeOK, FailuresAreLast, ForgottenIsPaid,
       GuessesArePaced
  <2>2. QED
    BY <2>1, TickKeeps, RightKeeps, WrongKeeps DEF ThrottleNext
<1>3. QED
  BY <1>1, <1>2, PTL DEF ThrottleSpec

\* GuessesArePaced, of LoginThrottle: the pace of an address, for every setting of the brake.
THEOREM GuessesStayPaced == ThrottleSpec => []GuessesArePaced
<1>1. ThrottleIInv => GuessesArePaced
  BY DEF ThrottleIInv
<1>2. QED
  BY <1>1, ThrottleInvariance, PTL
=============================================================================
