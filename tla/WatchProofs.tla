------------------------------ MODULE WatchProofs ------------------------------
(***************************************************************************)
(* Proofs about Watch, for any searches, listings, routes, filters, caps   *)
(* and number of crashes.  The types first, one case per action; then what *)
(* IInv says of one search (Sound), and a lemma that lets a step be judged *)
(* by the search it belongs to; then one lemma per action; then the        *)
(* theorems.  Last, what a check has decided still holds when it is        *)
(* written, and so watching refines Findings.                              *)
(***************************************************************************)
EXTENDS Watch, TLAPS, FiniteSetTheorems

\* A task's step leaves the other tasks where they are.
LEMMA StepIsLocal ==
  ASSUME TypeOK, NEW q \in Search, NEW now, Step(q, now)
  PROVE  /\ task'[q] = now
         /\ \A p \in Search \ {q} : task'[p] = task[p]
         /\ now \in Task => task' \in [Search -> Task]
BY DEF TypeOK, Step

\* A task between checks has no locals.
LEMMA IdleIsTask == \A at \in At : Idle(at) \in Task
BY DEF Idle, Task, Page, EmptyPage, Stamp, NoPrice

\* A rollback keeps the types.
LEMMA RolledBackIsPage ==
  ASSUME TypeOK, NEW Q \in SUBSET Search PROVE RolledBack(Q) \in Page
BY DEF TypeOK, RolledBack, Page, NoPrice

\* A step of a check keeps the types.
LEMMA TypeStepCheck ==
  ASSUME WatchAssumption, TypeOK, TakenFromPage, NEW q \in Search, Check(q) PROVE TypeOK'
<1> DEFINE t == task[q]
<1>0. t \in Task
  BY DEF TypeOK
<1>1. CASE Fetch(q)
  <2>1. PICK S \in SUBSET Item :
           Step(q, [task[q] EXCEPT !.at = "gates",
                                   !.page = [i \in Item |-> IF i \in S THEN asking[i] ELSE NoPrice]])
    BY <1>1 DEF Fetch
  <2>2. [i \in Item |-> IF i \in S THEN asking[i] ELSE NoPrice] \in Page
    BY DEF TypeOK, Page, NoPrice
  <2>3. task' \in [Search -> Task]
    BY <1>0, <2>1, <2>2, StepIsLocal DEF Task, At
  <2> QED
    BY <1>1, <2>3 DEF Fetch, TypeOK, tables, history
<1>2. CASE Gates(q)
  <2>1. task' \in [Search -> Task]
    BY <1>0, <1>2, StepIsLocal DEF Gates, Task, At, OnPage
  <2> QED
    BY <1>2, <2>1 DEF Gates, TypeOK, tables, history
<1>3. CASE ReadKnown(q)
  <2> DEFINE known == t.candidates \cap Recorded
             now == [t EXCEPT !.at = IF known # {} /\ q \in succeeded THEN "prices" ELSE "decide",
                              !.known = known]
  <2>0. Step(q, now) /\ known \in SUBSET Item
    BY <1>0, <1>3 DEF ReadKnown, Task
  <2>1. task' \in [Search -> Task]
    <3> HIDE DEF known
    <3>1. now \in Task
      BY <1>0, <2>0 DEF Task, At
    <3> QED
      BY <2>0, <3>1, StepIsLocal
  <2> QED
    BY <1>3, <2>1 DEF ReadKnown, TypeOK, tables, history
<1>4. CASE ReadPrices(q)
  <2> DEFINE fell == {i \in t.known : <<price[i], t.page[i]>> \in Drop}
             before == [i \in Item |-> IF i \in fell THEN price[i] ELSE NoPrice]
  <2>1. before \in Page
    BY DEF TypeOK, Page, NoPrice
  <2>2. Routes[q] \cap destinations \in SUBSET Destination
    BY DEF WatchAssumption, TypeOK
  <2>3. Step(q, IF fell = {} THEN [t EXCEPT !.at = "decide"]
                ELSE [t EXCEPT !.at = "drops", !.before = before,
                               !.dests = Routes[q] \cap destinations])
    BY <1>4 DEF ReadPrices
  <2> HIDE DEF fell, before
  <2>4. task' \in [Search -> Task]
    BY <1>0, <2>1, <2>2, <2>3, StepIsLocal DEF Task, At
  <2> QED
    BY <1>4, <2>4 DEF ReadPrices, TypeOK, tables, history
<1>5. CASE WriteDrops(q)
  <2>1. task' \in [Search -> Task]
    <3>1. [t EXCEPT !.at = "decide", !.before = EmptyPage, !.dests = {}] \in Task
      BY <1>0 DEF Task, At, EmptyPage, Page, NoPrice
    <3>2. Idle("dead") \in Task
      BY IdleIsTask DEF At
    <3> QED
      BY <1>5, <3>1, <3>2, StepIsLocal DEF WriteDrops
  <2> DEFINE fell == {i \in Item : t.before[i] # NoPrice}
             rows == {[search |-> q, item |-> i, dest |-> d, from |-> t.before[i], to |-> t.page[i]] :
                        i \in fell, d \in t.dests}
  <2>2. \A i \in fell : t.page[i] \in Price /\ t.before[i] \in Price \cup {NoPrice}
    BY <1>0 DEF TakenFromPage, OnPage, Task, Page
  <2>3. rows \subseteq Row
    BY <1>0, <2>2 DEF Row, Task
  <2>4. price' \in Page /\ outbox' \subseteq Row
    <3>1. CASE UNCHANGED <<price, outbox>>
      BY <3>1 DEF TypeOK
    <3>2. CASE price' = [i \in Item |-> IF i \in fell \cap Recorded THEN t.page[i] ELSE price[i]]
               /\ Queue(rows)
      <4>1. price' \in Page
        BY <3>2, <2>2 DEF TypeOK, Page
      <4> HIDE DEF rows
      <4> QED
        BY <3>2, <4>1, <2>3 DEF TypeOK, Queue
    <3> QED
      BY <1>5, <3>1, <3>2 DEF WriteDrops
  <2> QED
    BY <1>5, <2>1, <2>4 DEF WriteDrops, TypeOK, history
<1>6. CASE Decide(q)
  <2> DEFINE unseen == t.candidates \ t.known
  <2>1. PICK notify \in SUBSET unseen, record \in SUBSET unseen, newest \in Stamp :
         Step(q, [t EXCEPT !.at = IF record = {} THEN "success" ELSE "record",
                            !.record = record, !.notify = notify, !.newest = newest,
                            !.dests = IF record = {} THEN {} ELSE Routes[q] \cap destinations])
    BY <1>6 DEF Decide
  <2>2. Routes[q] \cap destinations \in SUBSET Destination
    BY DEF WatchAssumption, TypeOK
  <2>3. task' \in [Search -> Task]
    BY <1>0, <2>1, <2>2, StepIsLocal DEF Task, At
  <2> QED
    BY <1>6, <2>3 DEF Decide, TypeOK, tables, history
<1>7. CASE RecordItems(q)
  <2>1. task' \in [Search -> Task]
    <3>1. [t EXCEPT !.at = "commit", !.inserted = t.record \ Recorded] \in Task
      BY <1>0 DEF Task, At
    <3> QED
      BY <1>7, <3>1, StepIsLocal DEF RecordItems
  <2>2. price' \in Page
    BY <1>0, <1>7 DEF RecordItems, TypeOK, Page, Task
  <2> QED
    BY <1>7, <2>1, <2>2 DEF RecordItems, TypeOK, history
<1>8. CASE RecordAlerts(q)
  <2>1. task' \in [Search -> Task]
    <3>1. [t EXCEPT !.at = "success", !.inserted = {}] \in Task
      BY <1>0 DEF Task, At
    <3>2. Idle("dead") \in Task
      BY IdleIsTask DEF At
    <3> QED
      BY <1>8, <3>1, <3>2, StepIsLocal DEF RecordAlerts
  <2> DEFINE rows == {[search |-> q, item |-> i, dest |-> d, from |-> NoPrice, to |-> t.page[i]] :
                        i \in t.notify, d \in t.dests}
  <2>2. \A i \in t.notify : i \in Item /\ t.page[i] \in Price
    BY <1>0 DEF TakenFromPage, OnPage, Task, Page
  <2>3. rows \subseteq Row
    BY <1>0, <2>2 DEF Row, Task
  <2>4. CASE Queue(rows) /\ UNCHANGED price /\ committed' = committed \cup t.record
             /\ silent' = [silent EXCEPT ![q] = @ \cup (t.record \ (t.notify \cup ToldBy(q)))]
    <3> HIDE DEF rows
    <3>1. outbox' \subseteq Row
      BY <2>3, <2>4 DEF TypeOK, Queue
    <3>2. silent' \in [Search -> SUBSET Item] /\ committed' \subseteq Item
      BY <1>0, <2>4 DEF TypeOK, Task
    <3> QED
      BY <1>8, <2>1, <2>4, <3>1, <3>2 DEF RecordAlerts, TypeOK
  <2>5. CASE price' = RolledBack({q}) /\ UNCHANGED <<outbox, history>>
    BY <1>8, <2>1, <2>5, RolledBackIsPage DEF RecordAlerts, TypeOK, history
  <2> QED
    BY <1>8, <2>4, <2>5 DEF RecordAlerts
<1>9. CASE Succeed(q)
  <2>1. task' \in [Search -> Task]
    BY <1>9, IdleIsTask, StepIsLocal DEF Succeed, At
  <2>2. MarkAfter(q) \in Stamp
    BY <1>0 DEF MarkAfter, TypeOK, Task
  <2> QED
    BY <1>9, <2>1, <2>2 DEF Succeed, TypeOK, history
<1> QED
  BY <1>1, <1>2, <1>3, <1>4, <1>5, <1>6, <1>7, <1>8, <1>9 DEF Check

\* So does everybody else's.
LEMMA TypeStepOther ==
  ASSUME WatchAssumption, TypeOK,
         \/ \E q \in Search : Start(q) \/ Cancel(q) \/ Pause(q) \/ Resume(q)
         \/ \E d \in Destination : DeleteDestination(d)
         \/ \E i \in Item : Prune(i) \/ Reprice(i) \/ Age(i)
         \/ Crash \/ Boot
  PROVE  TypeOK'
<1>1. ASSUME NEW q \in Search, Start(q) \/ Cancel(q) PROVE TypeOK'
  <2>1. task' \in [Search -> Task]
    BY <1>1, IdleIsTask, StepIsLocal DEF Start, Cancel, At
  <2>2. price' \in Page
    BY <1>1, RolledBackIsPage DEF Start, Cancel, TypeOK, tables
  <2> QED
    BY <1>1, <2>1, <2>2 DEF Start, Cancel, TypeOK, tables, history
<1>2. ASSUME NEW q \in Search, Pause(q) \/ Resume(q) PROVE TypeOK'
  BY <1>2 DEF Pause, Resume, TypeOK, history
<1>3. ASSUME NEW d \in Destination, DeleteDestination(d) PROVE TypeOK'
  BY <1>3 DEF DeleteDestination, TypeOK, history
<1>4. ASSUME NEW i \in Item, Prune(i) PROVE TypeOK'
  BY <1>4 DEF Prune, TypeOK, Page, NoPrice
<1>5. ASSUME NEW i \in Item, Reprice(i) \/ Age(i) PROVE TypeOK'
  BY <1>5 DEF Reprice, Age, TypeOK, tables, history
<1>6. CASE Crash
  <2>1. task' \in [Search -> Task]
    BY <1>6, IdleIsTask DEF Crash, At
  <2>2. price' \in Page
    BY <1>6, RolledBackIsPage DEF Crash
  <2>3. crashes' \in 0 .. MaxCrashes
    BY <1>6 DEF Crash, TypeOK, WatchAssumption
  <2> QED
    BY <1>6, <2>1, <2>2, <2>3 DEF Crash, TypeOK, history
<1>7. CASE Boot
  BY <1>7 DEF Boot, TypeOK, tables, history
<1> QED
  BY <1>1, <1>2, <1>3, <1>4, <1>5, <1>6, <1>7

-----------------------------------------------------------------------------
(* The other conjuncts of IInv. *)

\* What IInv says of one search.
Sound(q) ==
  /\ task[q].inserted # {} => task[q].at = "commit"
  /\ task[q].inserted \subseteq task[q].record
  /\ task[q].at = "commit" => task[q].record \subseteq Recorded
  /\ task[q].at = "success" => task[q].record \subseteq Committed
  /\ task[q].candidates \cup task[q].record \cup task[q].notify
       \cup {i \in Item : task[q].before[i] # NoPrice} \subseteq OnPage(q)
  /\ task[q].at = "wait" => OnPage(q) = {}
  /\ q \notin succeeded => mark[q] = 0
  /\ task[q].at \in {"record", "commit", "success"} =>
       /\ task[q].newest = 0 \/ task[q].newest >= mark[q]
       /\ task[q].candidates \subseteq Accounted(q)
  /\ silent[q] \subseteq Committed \cup aged
  /\ FirstRunMode = "silent" =>
       /\ task[q].at \in {"prices", "drops", "decide"} =>
            (task[q].candidates \ task[q].known) \cap silent[q] \subseteq aged
       /\ task[q].at \in {"record", "commit"} => task[q].notify \cap silent[q] = {}
       /\ ToldBy(q) \cap silent[q] = {}

\* At most one transaction is open.
OneCommits == \A q, p \in Search : task[q].at = "commit" /\ task[p].at = "commit" => q = p

\* IInv is what it says of each search, and what it says of the shared tables.
LEMMA IInvBySearch ==
  IInv <=> TypeOK /\ OneCommits /\ (\A q \in Search : Sound(q)) /\ NothingHalfRecorded
BY DEF IInv, OneTransaction, RecordedStays, TakenFromPage, MarkIsOld, CandidatesAccounted,
       SilentIsKept, SilentIsKnown, SilentStaysSilent, Sound, OneCommits

\* The same of the next state.
LEMMA IInvBySearchNext ==
  TypeOK' /\ OneCommits' /\ (\A q \in Search : Sound(q)') /\ NothingHalfRecorded' => IInv'
BY DEF IInv, OneTransaction, RecordedStays, TakenFromPage, MarkIsOld, CandidatesAccounted,
       SilentIsKept, SilentIsKnown, SilentStaysSilent, Sound, OneCommits

\* The rows no transaction can take back, with and without an open one.
LEMMA Transactions ==
  ASSUME IInv
  PROVE  /\ ~Locked => Uncommitted = {}
         /\ \A q \in Search : task[q].at = "commit" => Uncommitted = task[q].inserted
<1>1. \A p \in Search : Sound(p) /\ OneCommits
  BY IInvBySearch
<1> QED
  BY <1>1 DEF Sound, OneCommits, Locked, Uncommitted

\* What one search holds, another one's step leaves alone.
LEMMA SoundFrame ==
  ASSUME NEW p \in Search, Sound(p),
         task'[p] = task[p], mark'[p] = mark[p], p \in succeeded' <=> p \in succeeded,
         silent'[p] = silent[p], ToldBy(p)' \subseteq ToldBy(p),
         aged \subseteq aged', Committed \subseteq Committed',
         task[p].at = "commit" => Recorded \subseteq Recorded'
  PROVE  Sound(p)'
<1>1. Accounted(p) \subseteq Accounted(p)'
  BY DEF Accounted
<1>2. OnPage(p)' = OnPage(p)
  BY DEF OnPage
<1> QED
  BY <1>1, <1>2 DEF Sound

\* So a step of q preserves IInv if it preserves what IInv says of q.
LEMMA LocalStep ==
  ASSUME IInv, TypeOK', NEW q \in Search,
         \A p \in Search \ {q} :
           /\ task'[p] = task[p] /\ mark'[p] = mark[p] /\ (p \in succeeded' <=> p \in succeeded)
           /\ silent'[p] = silent[p] /\ ToldBy(p)' \subseteq ToldBy(p),
         aged \subseteq aged', Committed \subseteq Committed', Committed' \subseteq committed',
         \A p \in Search \ {q} :
           task[p].at = "commit" => Recorded \subseteq Recorded' /\ task'[q].at # "commit",
         Sound(q)'
  PROVE  IInv'
<1>1. OneCommits /\ \A p \in Search : Sound(p)
  BY IInvBySearch
<1>2. \A p \in Search \ {q} : Sound(p)'
  BY <1>1, SoundFrame
<1>3. OneCommits'
  BY <1>1 DEF OneCommits
<1>4. NothingHalfRecorded'
  BY DEF NothingHalfRecorded, Committed
<1> QED
  BY <1>2, <1>3, <1>4, IInvBySearchNext

\* A step of q that writes no table.
LEMMA QuietStep ==
  ASSUME IInv, TypeOK', NEW q \in Search,
         UNCHANGED <<price, outbox, mark, succeeded, aged, history>>,
         \A p \in Search \ {q} : task'[p] = task[p],
         task'[q].inserted = task[q].inserted, task'[q].at # "commit",
         Committed' = Committed => Sound(q)'
  PROVE  IInv'
<1>1. Recorded' = Recorded
  BY DEF Recorded
<1>2. \A p \in Search : task'[p].inserted = task[p].inserted
  OBVIOUS
<1>3. Uncommitted' = Uncommitted
  BY <1>2 DEF Uncommitted
<1>4. Committed' = Committed
  BY <1>1, <1>3 DEF Committed
<1>5. \A p \in Search : ToldBy(p)' = ToldBy(p)
  BY DEF ToldBy
<1>6. Committed' \subseteq committed'
  BY <1>4 DEF IInv, NothingHalfRecorded, Committed, history
<1> QED
  BY <1>1, <1>4, <1>5, <1>6, LocalStep DEF history

\* The page replaces an empty one.
LEMMA FetchStep ==
  ASSUME WatchAssumption, IInv, TypeOK', NEW q \in Search, Fetch(q) PROVE IInv'
<1>0. task[q] \in Task /\ Sound(q)
  BY IInvBySearch DEF IInv, TypeOK
<1>1. PICK page : Step(q, [task[q] EXCEPT !.at = "gates", !.page = page])
  BY DEF Fetch
<1>2. task'[q] = [task[q] EXCEPT !.at = "gates", !.page = page]
      /\ \A p \in Search \ {q} : task'[p] = task[p]
  BY <1>1, StepIsLocal DEF IInv
<1>3. ASSUME Committed' = Committed PROVE Sound(q)'
  BY <1>0, <1>2, <1>3 DEF Fetch, Sound, OnPage, Task, tables, history, ToldBy
<1> QED
  BY <1>0, <1>2, <1>3, QuietStep DEF Fetch, Task, tables

\* The candidates are listings on the page.
LEMMA GatesStep ==
  ASSUME WatchAssumption, IInv, TypeOK', NEW q \in Search, Gates(q) PROVE IInv'
<1>0. task[q] \in Task /\ Sound(q)
  BY IInvBySearch DEF IInv, TypeOK
<1>1. PICK candidates \in SUBSET OnPage(q) :
        Step(q, [task[q] EXCEPT !.at = "known", !.candidates = candidates])
  BY DEF Gates
<1>2. task'[q] = [task[q] EXCEPT !.at = "known", !.candidates = candidates]
      /\ \A p \in Search \ {q} : task'[p] = task[p]
  BY <1>1, StepIsLocal DEF IInv
<1>3. ASSUME Committed' = Committed PROVE Sound(q)'
  BY <1>0, <1>2, <1>3 DEF Gates, Sound, OnPage, Task, tables, history, ToldBy
<1> QED
  BY <1>0, <1>2, <1>3, QuietStep DEF Gates, Task, tables

\* What was recorded silently and is not aged is found by the look-up.
LEMMA ReadKnownStep ==
  ASSUME WatchAssumption, IInv, TypeOK', NEW q \in Search, ReadKnown(q) PROVE IInv'
<1> DEFINE known == task[q].candidates \cap Recorded
<1>0. task[q] \in Task /\ Sound(q)
  BY IInvBySearch DEF IInv, TypeOK
<1>1. PICK at \in {"prices", "decide"} : Step(q, [task[q] EXCEPT !.at = at, !.known = known])
  BY DEF ReadKnown
<1>2. task'[q] = [task[q] EXCEPT !.at = at, !.known = known]
      /\ \A p \in Search \ {q} : task'[p] = task[p]
  BY <1>1, StepIsLocal DEF IInv
<1>3. ASSUME Committed' = Committed PROVE Sound(q)'
  <2>1. (task[q].candidates \ known) \cap silent[q] \subseteq aged
    BY <1>0 DEF Sound, Committed
  <2> HIDE DEF known
  <2> QED
    BY <1>0, <1>2, <1>3, <2>1 DEF ReadKnown, Sound, OnPage, Task, tables, history, ToldBy
<1> QED
  BY <1>0, <1>2, <1>3, QuietStep DEF ReadKnown, Task, tables

\* A price that fell is one the page shows.
LEMMA ReadPricesStep ==
  ASSUME WatchAssumption, IInv, TypeOK', NEW q \in Search, ReadPrices(q) PROVE IInv'
<1>0. task[q] \in Task /\ Sound(q) /\ task[q].at = "prices"
  BY IInvBySearch DEF IInv, TypeOK, ReadPrices
<1> DEFINE fell == {i \in task[q].known : <<price[i], task[q].page[i]>> \in Drop}
           before == [i \in Item |-> IF i \in fell THEN price[i] ELSE NoPrice]
<1>1. \/ task'[q] = [task[q] EXCEPT !.at = "decide"]
      \/ task'[q] = [task[q] EXCEPT !.at = "drops", !.before = before,
                                     !.dests = Routes[q] \cap destinations]
  BY StepIsLocal DEF ReadPrices, IInv
<1>2. \A i \in fell : i \in OnPage(q)
  BY <1>0 DEF WatchAssumption, OnPage, NoPrice, Task
<1>3. \A i \in Item : before[i] # NoPrice => i \in OnPage(q)
  BY <1>2
<1>4. \A p \in Search \ {q} : task'[p] = task[p]
  BY StepIsLocal DEF ReadPrices, IInv
<1> HIDE DEF before
<1>5. ASSUME Committed' = Committed PROVE Sound(q)'
  BY <1>0, <1>1, <1>3, <1>5 DEF ReadPrices, Sound, OnPage, Task, tables, history, ToldBy, Accounted
<1> QED
  BY <1>0, <1>1, <1>4, <1>5, QuietStep DEF ReadPrices, Task, tables

\* A new task starts from nothing.
LEMMA StartStep ==
  ASSUME WatchAssumption, IInv, TypeOK', NEW q \in Search, Start(q) PROVE IInv'
<1>0. task[q] \in Task /\ Sound(q)
  BY IInvBySearch DEF IInv, TypeOK
<1>1. task'[q] = Idle("wait") /\ \A p \in Search \ {q} : task'[p] = task[p]
  BY StepIsLocal DEF IInv, Start
<1>2. ASSUME Committed' = Committed PROVE Sound(q)'
  BY <1>0, <1>1, <1>2 DEF Start, Sound, OnPage, Idle, EmptyPage, NoPrice, tables, history, ToldBy
<1>3. task'[q].inserted = task[q].inserted /\ task'[q].at # "commit"
  BY <1>0, <1>1 DEF Start, Sound, Idle
<1> QED
  BY <1>1, <1>2, <1>3, QuietStep DEF Start, tables

\* FIRST_RUN_MODE=silent announces nothing.
LEMMA NewestOfNone ==
  ASSUME NEW N, NEW S, IsFiniteSet(S), AreNewest(N, S, 0) PROVE N = {}
<1>1. Cardinality(S) \in Nat /\ IsFiniteSet(N)
  BY FS_CardinalityType, FS_Subset DEF AreNewest
<1>2. Cardinality(N) = 0
  BY <1>1 DEF AreNewest
<1> QED
  BY <1>1, <1>2, FS_EmptySet

\* What a check drops is known, too old or under the mark, and what it announces has not
\* been recorded silently.
LEMMA SelectionIsSound ==
  ASSUME WatchAssumption, IInv, NEW q \in Search, task[q].at = "decide",
         NEW notify \in SUBSET (task[q].candidates \ task[q].known),
         NEW record \in SUBSET (task[q].candidates \ task[q].known), NEW newest \in Stamp,
         LET unseen == task[q].candidates \ task[q].known
             selection == [record |-> record, notify |-> notify, newest |-> newest]
         IN  IF q \in succeeded THEN Select(unseen, mark[q], selection)
             ELSE FirstRun(unseen, task[q].page, selection)
  PROVE  /\ newest = 0 \/ newest >= mark[q]
         /\ task[q].candidates \subseteq record \cup task[q].known \cup aged
                                           \cup {i \in Item : Ts[i] # 0 /\ Ts[i] <= mark[q]}
         /\ FirstRunMode = "silent" => notify \cap silent[q] = {}
<1> DEFINE unseen == task[q].candidates \ task[q].known
           selection == [record |-> record, notify |-> notify, newest |-> newest]
<1>0. /\ task[q] \in Task /\ Sound(q) /\ Stamp \subseteq Nat /\ mark[q] \in Nat
      /\ \A i \in Item : Ts[i] \in Nat
      /\ \A i \in aged : Ts[i] # 0
  BY IInvBySearch DEF IInv, TypeOK, WatchAssumption, Stamp
<1>1. CASE q \in succeeded
  <2> DEFINE fresh == Fresh(unseen, mark[q])
  <2>1. /\ AreNewest(notify, fresh, MaxNotify)
        /\ record = fresh
        /\ \E t \in Stamp : IsNewest(t, fresh) /\ newest = IF t # 0 THEN t ELSE mark[q]
    BY <1>1 DEF Select
  <2>2. newest = 0 \/ newest >= mark[q]
    <3>1. PICK t \in Stamp : IsNewest(t, fresh) /\ newest = IF t # 0 THEN t ELSE mark[q]
      BY <2>1
    <3>2. CASE t = 0
      BY <1>0, <3>1, <3>2
    <3>3. CASE t # 0
      <4>1. PICK i \in fresh : t = Ts[i]
        BY <3>1, <3>3 DEF IsNewest
      <4>2. t > mark[q]
        BY <3>3, <4>1 DEF Fresh
      <4> QED
        BY <1>0, <3>1, <3>3, <4>2
    <3> QED
      BY <3>2, <3>3
  <2>3. \A i \in unseen \ fresh : i \in aged \/ (Ts[i] # 0 /\ Ts[i] <= mark[q])
    BY <1>0 DEF Fresh, Task
  <2>4. FirstRunMode = "silent" => notify \cap silent[q] = {}
    <3>1. notify \subseteq fresh /\ fresh \subseteq unseen
      BY <2>1 DEF AreNewest, Fresh
    <3>2. FirstRunMode = "silent" => unseen \cap silent[q] \subseteq aged
      BY <1>0 DEF Sound
    <3>3. fresh \cap aged = {}
      BY <1>0 DEF Fresh
    <3> QED
      BY <3>1, <3>2, <3>3
  <2> HIDE DEF fresh
  <2> QED
    BY <1>0, <2>1, <2>2, <2>3, <2>4 DEF Task
<1>2. CASE q \notin succeeded
  <2>1. record = unseen /\ AreNewest(notify, unseen, IF FirstRunMode = "newest" THEN 1 ELSE 0)
    BY <1>2 DEF FirstRun
  <2>2. newest >= mark[q]
    BY <1>0, <1>2 DEF Sound
  <2>3. FirstRunMode = "silent" => notify = {}
    <3>1. IsFiniteSet(unseen)
      BY <1>0, FS_Subset DEF WatchAssumption, Task
    <3> QED
      BY <2>1, <3>1, NewestOfNone
  <2> QED
    BY <2>1, <2>2, <2>3
<1> QED
  BY <1>1, <1>2

\* What is decided is sound by the lemma above.
LEMMA DecideStep ==
  ASSUME WatchAssumption, IInv, TypeOK', NEW q \in Search, Decide(q) PROVE IInv'
<1> DEFINE unseen == task[q].candidates \ task[q].known
<1>0. task[q] \in Task /\ Sound(q) /\ task[q].at = "decide"
  BY IInvBySearch DEF IInv, TypeOK, Decide
<1>1. PICK notify \in SUBSET unseen, record \in SUBSET unseen, newest \in Stamp :
        LET selection == [record |-> record, notify |-> notify, newest |-> newest] IN
        /\ IF q \in succeeded THEN Select(unseen, mark[q], selection)
           ELSE FirstRun(unseen, task[q].page, selection)
        /\ Step(q, [task[q] EXCEPT !.at = IF record = {} THEN "success" ELSE "record",
                            !.record = record, !.notify = notify, !.newest = newest,
                            !.dests = IF record = {} THEN {} ELSE Routes[q] \cap destinations])
  BY DEF Decide
<1>2. /\ newest = 0 \/ newest >= mark[q]
      /\ task[q].candidates \subseteq record \cup task[q].known \cup aged
                                        \cup {i \in Item : Ts[i] # 0 /\ Ts[i] <= mark[q]}
      /\ FirstRunMode = "silent" => notify \cap silent[q] = {}
  BY <1>0, <1>1, SelectionIsSound
<1>3. task'[q] = [task[q] EXCEPT !.at = IF record = {} THEN "success" ELSE "record",
                    !.record = record, !.notify = notify, !.newest = newest,
                    !.dests = IF record = {} THEN {} ELSE Routes[q] \cap destinations]
      /\ \A p \in Search \ {q} : task'[p] = task[p]
  BY <1>1, StepIsLocal DEF IInv
<1>4. UNCHANGED <<price, outbox, mark, succeeded, aged, history>>
  BY DEF Decide, tables
<1>5. task'[q].inserted = task[q].inserted /\ task'[q].at # "commit" /\ task[q].inserted = {}
  BY <1>0, <1>3 DEF Sound, Task
<1>6. ASSUME Committed' = Committed PROVE Sound(q)'
  BY <1>0, <1>2, <1>3, <1>4, <1>5, <1>6 DEF Sound, OnPage, Task, history, ToldBy, Accounted
<1> QED
  BY <1>3, <1>4, <1>5, <1>6, QuietStep

\* The alerts of a drop are not first alerts, and a price that changes stays a price.
LEMMA WriteDropsStep ==
  ASSUME WatchAssumption, IInv, TypeOK', NEW q \in Search, WriteDrops(q) PROVE IInv'
<1> DEFINE t == task[q]
           fell == {i \in Item : t.before[i] # NoPrice}
           rows == {[search |-> q, item |-> i, dest |-> d, from |-> t.before[i], to |-> t.page[i]] :
                      i \in fell, d \in t.dests}
<1>0. t \in Task /\ Sound(q) /\ t.at = "drops" /\ ~Locked
  BY IInvBySearch DEF IInv, TypeOK, WriteDrops
<1>1. /\ \A p \in Search \ {q} : task'[p] = task[p]
      /\ \/ task'[q] = [t EXCEPT !.at = "decide", !.before = EmptyPage, !.dests = {}]
         \/ task'[q] = Idle("dead")
  BY StepIsLocal DEF WriteDrops, IInv
<1>2. UNCHANGED <<mark, succeeded, aged, history>>
  BY DEF WriteDrops
<1>3. Recorded' = Recorded
  <2>1. CASE UNCHANGED price
    BY <2>1 DEF Recorded
  <2>2. CASE price' = [i \in Item |-> IF i \in fell \cap Recorded THEN t.page[i] ELSE price[i]]
    <3>1. \A i \in fell : t.page[i] # NoPrice
      BY <1>0 DEF Sound, OnPage
    <3> QED
      BY <2>2, <3>1 DEF Recorded
  <2> QED
    BY <2>1, <2>2 DEF WriteDrops
<1>4. \A p \in Search : ToldBy(p)' \subseteq ToldBy(p)
  <2>1. CASE UNCHANGED outbox
    BY <2>1 DEF ToldBy
  <2>2. CASE Queue(rows)
    <3>1. \A r \in rows : r.from # NoPrice
      OBVIOUS
    <3>2. outbox' \subseteq outbox \cup rows
      BY <2>2 DEF Queue
    <3> HIDE DEF rows
    <3> QED
      BY <3>1, <3>2 DEF ToldBy
  <2> QED
    BY <2>1, <2>2 DEF WriteDrops
<1>5. t.inserted = {} /\ task'[q].inserted = {} /\ task'[q].at # "commit"
  <2>1. t.inserted = {}
    BY <1>0 DEF Sound
  <2>2. CASE task'[q] = [t EXCEPT !.at = "decide", !.before = EmptyPage, !.dests = {}]
    BY <1>0, <2>1, <2>2 DEF Task
  <2>3. CASE task'[q] = Idle("dead")
    BY <2>1, <2>3 DEF Idle
  <2> QED
    BY <1>1, <2>2, <2>3
<1>6. Uncommitted' = Uncommitted
  BY <1>1, <1>5 DEF Uncommitted
<1>7. Committed' = Committed
  BY <1>3, <1>6 DEF Committed
<1>8. Sound(q)'
  <2>1. CASE task'[q] = [t EXCEPT !.at = "decide", !.before = EmptyPage, !.dests = {}]
    BY <1>0, <1>2, <1>4, <1>5, <1>7, <2>1 DEF Sound, OnPage, Task, history, EmptyPage, NoPrice
  <2>2. CASE task'[q] = Idle("dead")
    BY <1>0, <1>2, <1>4, <1>7, <2>2 DEF Sound, OnPage, Idle, history, EmptyPage, NoPrice
  <2> QED
    BY <1>1, <2>1, <2>2
<1>9. Committed' \subseteq committed'
  BY <1>2, <1>7 DEF IInv, NothingHalfRecorded, Committed, history
<1> QED
  BY <1>1, <1>2, <1>3, <1>4, <1>5, <1>7, <1>8, <1>9, LocalStep DEF history

\* What the transaction inserts is not yet recorded for good.
LEMMA RecordItemsStep ==
  ASSUME WatchAssumption, IInv, TypeOK', NEW q \in Search, RecordItems(q) PROVE IInv'
<1> DEFINE t == task[q]
           mine == t.record \ Recorded
<1>0. t \in Task /\ Sound(q) /\ t.at = "record" /\ ~Locked
  BY IInvBySearch DEF IInv, TypeOK, RecordItems
<1>1. /\ \A p \in Search \ {q} : task'[p] = task[p]
      /\ task'[q] = [t EXCEPT !.at = "commit", !.inserted = mine]
  BY StepIsLocal DEF RecordItems, IInv
<1>2. UNCHANGED <<outbox, mark, succeeded, aged, history>>
      /\ price' = [i \in Item |-> IF i \in mine THEN t.page[i] ELSE price[i]]
  BY DEF RecordItems
<1>3. Recorded' = Recorded \cup t.record
  <2>1. t.record \subseteq OnPage(q) /\ t.record \subseteq Item
    BY <1>0 DEF Sound, Task
  <2> QED
    BY <1>2, <2>1 DEF Recorded, OnPage
<1>4. Uncommitted = {} /\ Uncommitted' = mine
  <2>1. \A p \in Search : task[p].inserted = {}
    BY <1>0, Transactions DEF Uncommitted
  <2>2. task'[q].inserted = mine
    BY <1>0, <1>1 DEF Task
  <2>3. \A p \in Search \ {q} : task'[p].inserted = {}
    BY <1>1, <2>1
  <2> QED
    BY <2>1, <2>2, <2>3 DEF Uncommitted
<1>5. Committed' = Committed
  BY <1>3, <1>4 DEF Committed
<1>6. \A p \in Search : ToldBy(p)' = ToldBy(p)
  BY <1>2 DEF ToldBy
<1>7. Sound(q)'
  BY <1>0, <1>1, <1>2, <1>3, <1>5, <1>6 DEF Sound, OnPage, Task, history, Accounted
<1>8. Committed' \subseteq committed'
  BY <1>2, <1>5 DEF IInv, NothingHalfRecorded, Committed, history
<1>9. \A p \in Search \ {q} : task[p].at # "commit"
  BY <1>0 DEF Locked
<1> QED
  BY <1>1, <1>2, <1>5, <1>6, <1>7, <1>8, <1>9, LocalStep DEF history

\* At the commit the transaction's rows become part of what is recorded for good; at the
\* rollback they go.
LEMMA RecordAlertsStep ==
  ASSUME WatchAssumption, IInv, TypeOK', NEW q \in Search, RecordAlerts(q) PROVE IInv'
<1> DEFINE t == task[q]
           rows == {[search |-> q, item |-> i, dest |-> d, from |-> NoPrice, to |-> t.page[i]] :
                      i \in t.notify, d \in t.dests}
<1>0. t \in Task /\ Sound(q) /\ t.at = "commit" /\ Uncommitted = t.inserted
      /\ \A p \in Search \ {q} : task[p].at # "commit" /\ task[p].inserted = {}
  BY IInvBySearch, Transactions DEF IInv, TypeOK, RecordAlerts, OneCommits, Sound
<1>1. \A p \in Search \ {q} : task'[p] = task[p]
  BY StepIsLocal DEF RecordAlerts, IInv
<1>2. UNCHANGED <<mark, succeeded, aged>>
  BY DEF RecordAlerts
<1>3. CASE /\ Queue(rows)
           /\ Step(q, [t EXCEPT !.at = "success", !.inserted = {}])
           /\ committed' = committed \cup t.record
           /\ silent' = [silent EXCEPT ![q] = @ \cup (t.record \ (t.notify \cup ToldBy(q)))]
           /\ UNCHANGED price
  <2>1. task'[q] = [t EXCEPT !.at = "success", !.inserted = {}]
    BY <1>3, StepIsLocal DEF IInv
  <2>2. Recorded' = Recorded
    BY <1>3 DEF Recorded
  <2>3. Uncommitted' = {}
    <3>1. task'[q].inserted = {}
      BY <1>0, <2>1 DEF Task
    <3> QED
      BY <1>0, <1>1, <3>1 DEF Uncommitted
  <2>4. Committed' = Recorded /\ Committed = Recorded \ t.inserted
    BY <1>0, <2>2, <2>3 DEF Committed
  <2>5. t.record \subseteq Recorded /\ t.inserted \subseteq t.record
    BY <1>0 DEF Sound
  <2>6. Committed' \subseteq committed'
    BY <1>3, <2>4, <2>5 DEF IInv, NothingHalfRecorded, Committed
  <2>7. /\ \A p \in Search \ {q} : silent'[p] = silent[p]
        /\ silent'[q] = silent[q] \cup (t.record \ (t.notify \cup ToldBy(q)))
    BY <1>3 DEF IInv, TypeOK
  <2>8. /\ \A p \in Search \ {q} : ToldBy(p)' \subseteq ToldBy(p)
        /\ ToldBy(q)' \subseteq ToldBy(q) \cup t.notify
    <3>1. \A r \in rows : r.search = q /\ r.item \in t.notify
      OBVIOUS
    <3>2. outbox' \subseteq outbox \cup rows
      BY <1>3 DEF Queue
    <3> HIDE DEF rows
    <3> QED
      BY <3>1, <3>2 DEF ToldBy
  <2>9. Accounted(q)' = Accounted(q) /\ OnPage(q)' = OnPage(q)
    BY <1>0, <1>2, <2>1 DEF Accounted, OnPage, Task
  <2>10. Sound(q)'
    BY <1>0, <1>2, <2>1, <2>4, <2>5, <2>7, <2>8, <2>9 DEF Sound, Task
  <2>11. aged \subseteq aged' /\ Committed \subseteq Committed'
    BY <1>2, <2>4
  <2> QED
    BY <1>0, <1>1, <1>2, <2>6, <2>7, <2>8, <2>10, <2>11, LocalStep
<1>4. CASE /\ price' = RolledBack({q})
           /\ Step(q, Idle("dead"))
           /\ UNCHANGED <<outbox, history>>
  <2>1. task'[q] = Idle("dead")
    BY <1>4, StepIsLocal DEF IInv
  <2>2. Recorded' = Recorded \ t.inserted
    BY <1>4 DEF Recorded, RolledBack, NoPrice
  <2>3. Uncommitted' = {}
    BY <1>0, <1>1, <2>1 DEF Uncommitted, Idle
  <2>4. Committed' = Committed
    BY <1>0, <2>2, <2>3 DEF Committed
  <2>5. \A p \in Search : ToldBy(p)' = ToldBy(p)
    BY <1>4 DEF ToldBy
  <2>6. Sound(q)'
    BY <1>0, <1>2, <1>4, <2>1, <2>4, <2>5 DEF Sound, Idle, OnPage, EmptyPage, history, NoPrice
  <2>7. Committed' \subseteq committed'
    BY <1>4, <2>4 DEF IInv, NothingHalfRecorded, Committed, history
  <2> QED
    BY <1>0, <1>1, <1>2, <1>4, <2>4, <2>5, <2>6, <2>7, LocalStep DEF history
<1> QED
  BY <1>3, <1>4 DEF RecordAlerts

\* The mark moves to a listing that is not below it.
LEMMA SucceedStep ==
  ASSUME WatchAssumption, IInv, TypeOK', NEW q \in Search, Succeed(q) PROVE IInv'
<1>0. task[q] \in Task /\ Sound(q) /\ ~Locked
  BY IInvBySearch DEF IInv, TypeOK, Succeed
<1>1. task'[q] = Idle("wait") /\ \A p \in Search \ {q} : task'[p] = task[p]
  BY StepIsLocal DEF IInv, Succeed
<1>2. /\ \A p \in Search \ {q} : mark'[p] = mark[p] /\ (p \in succeeded' <=> p \in succeeded)
      /\ q \in succeeded'
      /\ UNCHANGED <<price, outbox, aged, history>>
  BY DEF Succeed, IInv, TypeOK
<1>3. Recorded' = Recorded /\ \A p \in Search : ToldBy(p)' = ToldBy(p)
  BY <1>2 DEF Recorded, ToldBy
<1>4. task[q].inserted = {} /\ task'[q].inserted = {} /\ task'[q].at # "commit"
  BY <1>0, <1>1 DEF Succeed, Sound, Idle
<1>5. Uncommitted' = Uncommitted
  BY <1>1, <1>4 DEF Uncommitted
<1>6. Committed' = Committed
  BY <1>3, <1>5 DEF Committed
<1>7. Sound(q)'
  BY <1>0, <1>1, <1>2, <1>3, <1>6 DEF Sound, Idle, OnPage, EmptyPage, history, NoPrice
<1>8. Committed' \subseteq committed'
  BY <1>2, <1>6 DEF IInv, NothingHalfRecorded, Committed, history
<1> QED
  BY <1>1, <1>2, <1>3, <1>4, <1>6, <1>7, <1>8, LocalStep DEF history

\* Wherever the task is cancelled, what its transaction inserted goes with it.
LEMMA CancelStep ==
  ASSUME WatchAssumption, IInv, TypeOK', NEW q \in Search, Cancel(q) PROVE IInv'
<1>0. Sound(q) /\ OneCommits
  BY IInvBySearch
<1>1. task'[q] = Idle("off") /\ \A p \in Search \ {q} : task'[p] = task[p]
  BY StepIsLocal DEF IInv, Cancel
<1>2. UNCHANGED <<outbox, mark, succeeded, aged, history>>
  BY DEF Cancel
<1>3. Recorded' = Recorded \ task[q].inserted
  BY DEF Cancel, Recorded, RolledBack, NoPrice
<1>4. task'[q].inserted = {}
  BY <1>1 DEF Idle
<1>5. Uncommitted = Uncommitted' \cup task[q].inserted
  BY <1>1, <1>4 DEF Uncommitted
<1>6. Committed' = Committed
  BY <1>3, <1>5 DEF Committed
<1>7. \A p \in Search : ToldBy(p)' = ToldBy(p)
  BY <1>2 DEF ToldBy
<1>8. Sound(q)'
  BY <1>0, <1>1, <1>2, <1>6, <1>7 DEF Sound, Idle, OnPage, EmptyPage, history, NoPrice
<1>9. \A p \in Search \ {q} :
        task[p].at = "commit" => Recorded \subseteq Recorded' /\ task'[q].at # "commit"
  BY <1>0, <1>1, <1>3 DEF Sound, OneCommits, Idle
<1>10. Committed' \subseteq committed'
  BY <1>2, <1>6 DEF IInv, NothingHalfRecorded, Committed, history
<1> QED
  BY <1>1, <1>2, <1>6, <1>7, <1>8, <1>9, <1>10, LocalStep DEF history

\* A crash rolls every open transaction back.
LEMMA CrashStep ==
  ASSUME WatchAssumption, IInv, TypeOK', Crash PROVE IInv'
<1>0. \A q \in Search : Sound(q)
  BY IInvBySearch
<1>1. \A q \in Search : task'[q] = Idle("off")
  BY DEF Crash
<1>2. UNCHANGED <<outbox, mark, succeeded, aged, history>>
  BY DEF Crash
<1>3. Recorded' = Recorded \ Uncommitted
  BY DEF Crash, Recorded, RolledBack, NoPrice, Uncommitted
<1>4. Uncommitted' = {}
  BY <1>1 DEF Uncommitted, Idle
<1>5. Committed' = Committed
  BY <1>3, <1>4 DEF Committed
<1>6. \A q \in Search : Sound(q)'
  BY <1>0, <1>1, <1>2, <1>5
     DEF Sound, Idle, OnPage, EmptyPage, history, NoPrice, ToldBy
<1>7. OneCommits'
  BY <1>1 DEF OneCommits, Idle
<1>8. NothingHalfRecorded'
  BY <1>2, <1>5 DEF IInv, NothingHalfRecorded, Committed, history
<1> QED
  BY <1>6, <1>7, <1>8, IInvBySearchNext

\* A step of the owner, a seller or the clock that takes no listing's row away.
LEMMA OutsideStep ==
  ASSUME IInv, TypeOK', UNCHANGED <<price, task, mark, succeeded, history>>,
         outbox' \subseteq outbox, aged \subseteq aged'
  PROVE  IInv'
<1>1. OneCommits /\ \A q \in Search : Sound(q)
  BY IInvBySearch
<1>2. Recorded' = Recorded /\ Uncommitted' = Uncommitted
  BY DEF Recorded, Uncommitted
<1>3. Committed' = Committed
  BY <1>2 DEF Committed
<1>4. \A q \in Search : ToldBy(q)' \subseteq ToldBy(q)
  BY DEF ToldBy
<1>5. \A q \in Search : Sound(q)'
  BY <1>1, <1>2, <1>3, <1>4, SoundFrame DEF history
<1>6. OneCommits'
  BY <1>1 DEF OneCommits
<1>7. NothingHalfRecorded'
  BY <1>2 DEF IInv, NothingHalfRecorded, history
<1> QED
  BY <1>5, <1>6, <1>7, IInvBySearchNext

\* The retention job takes no row a check still needs.
LEMMA PruneStep ==
  ASSUME WatchAssumption, IInv, TypeOK', NEW i \in Item, Prune(i) PROVE IInv'
<1>0. OneCommits /\ (\A q \in Search : Sound(q))
  BY IInvBySearch
<1>1. UNCHANGED <<outbox, mark, succeeded, aged, task, committed>>
  BY DEF Prune
<1>2. Recorded' = Recorded \ {i}
  BY DEF Prune, IInv, TypeOK, Page, Recorded, NoPrice
<1>3. Uncommitted' = Uncommitted
  BY <1>1 DEF Uncommitted
<1>4. Committed' = Committed \ {i}
  BY <1>2, <1>3 DEF Committed
<1>5. \A q \in Search : silent'[q] \subseteq silent[q] /\ (i \in silent'[q] => i \in aged)
  BY DEF Prune
<1>6. \A q \in Search : i \notin task[q].record
  BY DEF Prune
<1>7. ASSUME NEW q \in Search PROVE Sound(q)'
  <2>1. Sound(q) /\ Accounted(q)' = Accounted(q) /\ OnPage(q)' = OnPage(q) /\ ToldBy(q)' = ToldBy(q)
    BY <1>0, <1>1 DEF Accounted, OnPage, ToldBy
  <2>2. silent'[q] \subseteq silent[q] /\ silent'[q] \subseteq Committed' \cup aged
    BY <1>4, <1>5, <2>1 DEF Sound
  <2>3. i \notin task[q].record
    BY <1>6
  <2> QED
    BY <1>1, <1>2, <1>4, <2>1, <2>2, <2>3 DEF Sound
<1>8. OneCommits'
  BY <1>0, <1>1 DEF OneCommits
<1>9. NothingHalfRecorded'
  BY <1>1, <1>4 DEF IInv, NothingHalfRecorded, Committed
<1> QED
  BY <1>7, <1>8, <1>9, IInvBySearchNext

-----------------------------------------------------------------------------
(* The theorems. *)

\* IInv holds of an empty database.
LEMMA InitIsInductive == WatchAssumption /\ Init => IInv
<1> SUFFICES ASSUME WatchAssumption, Init PROVE IInv
  OBVIOUS
<1>1. TypeOK
  BY IdleIsTask DEF Init, TypeOK, At, Page, EmptyPage, NoPrice, Stamp, WatchAssumption
<1>2. Recorded = {}
  BY DEF Init, Recorded, EmptyPage
<1>3. \A q \in Search : Sound(q)
  BY <1>2 DEF Init, Sound, Idle, OnPage, EmptyPage, NoPrice, Committed, ToldBy
<1>4. OneCommits
  BY DEF Init, OneCommits, Idle
<1> QED
  BY <1>1, <1>2, <1>3, <1>4, IInvBySearch DEF NothingHalfRecorded

\* Every step preserves IInv.
LEMMA NextIsInductive == WatchAssumption /\ IInv /\ [Next]_vars => IInv'
<1> SUFFICES ASSUME WatchAssumption, IInv, [Next]_vars PROVE IInv'
  OBVIOUS
<1>1. ASSUME NEW q \in Search, Check(q) PROVE IInv'
  <2>1. TypeOK'
    BY <1>1, TypeStepCheck DEF IInv
  <2> QED
    BY <1>1, <2>1, FetchStep, GatesStep, ReadKnownStep, ReadPricesStep, WriteDropsStep,
       DecideStep, RecordItemsStep, RecordAlertsStep, SucceedStep DEF Check
<1>2. ASSUME NEW q \in Search, Start(q) \/ Cancel(q) \/ Pause(q) \/ Resume(q) PROVE IInv'
  <2>1. TypeOK'
    BY <1>2, TypeStepOther DEF IInv
  <2>2. CASE Pause(q) \/ Resume(q)
    BY <2>1, <2>2, OutsideStep DEF Pause, Resume
  <2> QED
    BY <1>2, <2>1, <2>2, StartStep, CancelStep
<1>3. ASSUME NEW d \in Destination, DeleteDestination(d) PROVE IInv'
  <2>1. TypeOK'
    BY <1>3, TypeStepOther DEF IInv
  <2> QED
    BY <1>3, <2>1, OutsideStep DEF DeleteDestination
<1>4. ASSUME NEW i \in Item, Prune(i) \/ Reprice(i) \/ Age(i) PROVE IInv'
  <2>1. TypeOK'
    BY <1>4, TypeStepOther DEF IInv
  <2>2. CASE Reprice(i) \/ Age(i)
    BY <2>1, <2>2, OutsideStep DEF Reprice, Age, tables
  <2> QED
    BY <1>4, <2>1, <2>2, PruneStep
<1>5. CASE Crash
  BY <1>5, TypeStepOther, CrashStep DEF IInv
<1>6. CASE Boot
  <2>1. TypeOK'
    BY <1>6, TypeStepOther DEF IInv
  <2> QED
    BY <1>6, <2>1, OutsideStep DEF Boot, tables
<1>7. CASE UNCHANGED vars
  <2>1. TypeOK'
    BY <1>7 DEF IInv, TypeOK, vars, tables, history
  <2> QED
    BY <1>7, <2>1, OutsideStep DEF vars, tables, history
<1> QED
  BY <1>1, <1>2, <1>3, <1>4, <1>5, <1>6, <1>7 DEF Next

\* The inductive invariant of the checks, the supervisor and the tables they share.
THEOREM WatchInvariant == Spec => []IInv
<1>1. Init => IInv
  BY InitIsInductive, WatchAssumption
<1>2. IInv /\ [Next]_vars => IInv'
  BY NextIsInductive, WatchAssumption
<1> QED
  BY <1>1, <1>2, PTL DEF Spec

\* Every column, task and history variable keeps its type.
THEOREM WatchTypes == Spec => []TypeOK
<1>1. IInv => TypeOK
  BY DEF IInv
<1> QED
  BY <1>1, WatchInvariant, PTL

\* A listing is recorded with its notifications or not at all, wherever a check is cancelled,
\* fails or dies.
THEOREM Atomicity == Spec => []NothingHalfRecorded
<1>1. IInv => NothingHalfRecorded
  BY DEF IInv
<1> QED
  BY <1>1, WatchInvariant, PTL

\* With FIRST_RUN_MODE=silent, what a search has recorded without a word it never announces
\* as new later.
THEOREM Silence == ASSUME FirstRunMode = "silent" PROVE Spec => []SilentStaysSilent
<1>1. IInv => SilentStaysSilent
  BY DEF IInv
<1> QED
  BY <1>1, WatchInvariant, PTL

\* A step that is not a check's own leaves its task or ends it.
LEMMA OthersLeaveTask ==
  ASSUME IInv, [Next]_vars, NEW q \in Search
  PROVE  Check(q) \/ task'[q] \in {task[q], Idle("off")} \/ Start(q)
<1>1. ASSUME NEW p \in Search, Check(p) PROVE p = q \/ task'[q] = task[q]
  <2>1. CASE Fetch(p) \/ Gates(p) \/ ReadKnown(p) \/ ReadPrices(p)
    BY <2>1, StepIsLocal DEF IInv, Fetch, Gates, ReadKnown, ReadPrices
  <2>2. CASE WriteDrops(p)
    BY <2>2, StepIsLocal DEF IInv, WriteDrops
  <2>3. CASE Decide(p)
    BY <2>3, StepIsLocal DEF IInv, Decide
  <2>4. CASE RecordItems(p)
    BY <2>4, StepIsLocal DEF IInv, RecordItems
  <2>5. CASE RecordAlerts(p)
    BY <2>5, StepIsLocal DEF IInv, RecordAlerts
  <2>6. CASE Succeed(p)
    BY <2>6, StepIsLocal DEF IInv, Succeed
  <2> QED
    BY <1>1, <2>1, <2>2, <2>3, <2>4, <2>5, <2>6 DEF Check
<1>2. ASSUME NEW p \in Search, Start(p) PROVE p = q \/ task'[q] = task[q]
  BY <1>2, StepIsLocal DEF IInv, Start
<1>3. ASSUME NEW p \in Search, Cancel(p) PROVE task'[q] \in {task[q], Idle("off")}
  BY <1>3, StepIsLocal DEF IInv, Cancel
<1>4. ASSUME NEW p \in Search, Pause(p) \/ Resume(p) PROVE task'[q] = task[q]
  BY <1>4 DEF Pause, Resume
<1>5. ASSUME NEW d \in Destination, DeleteDestination(d) PROVE task'[q] = task[q]
  BY <1>5 DEF DeleteDestination
<1>6. ASSUME NEW i \in Item, Prune(i) \/ Reprice(i) \/ Age(i) PROVE task'[q] = task[q]
  BY <1>6 DEF Prune, Reprice, Age
<1>7. CASE Crash
  BY <1>7 DEF Crash
<1>8. CASE Boot \/ UNCHANGED vars
  BY <1>8 DEF Boot, vars
<1> QED
  BY <1>1, <1>2, <1>3, <1>4, <1>5, <1>6, <1>7, <1>8 DEF Next

\* The step that completes a check is Succeed.
LEMMA OnlySucceedCompletes ==
  ASSUME IInv, [Next]_vars, NEW q \in Search, task[q].at = "success", task'[q].at = "wait"
  PROVE  Succeed(q)
<1>1. task'[q] # task[q] /\ task'[q] # Idle("off") /\ ~Start(q)
  BY DEF Idle, Start
<1>2. Check(q)
  BY <1>1, OthersLeaveTask
<1> QED
  BY <1>2 DEF Check, Fetch, Gates, ReadKnown, ReadPrices, WriteDrops, Decide, RecordItems,
              RecordAlerts, Succeed

\* A completed check leaves none of its candidates behind.
THEOREM CompletedChecksSettle == Spec => CheckSettlesPage
<1> DEFINE Left(q) == Recorded \cup task[q].known \cup aged
                        \cup {i \in Item : Ts[i] # 0 /\ Ts[i] <= mark[q]}
           Settles == \A q \in Search : task[q].at = "success" /\ task'[q].at = "wait" =>
                        task[q].candidates \subseteq Left(q)
<1>1. IInv /\ [Next]_vars => Settles
  <2> SUFFICES ASSUME IInv, [Next]_vars, NEW q \in Search, task[q].at = "success"
               PROVE  task[q].candidates \subseteq Left(q)
    OBVIOUS
  <2>1. task[q].candidates \subseteq Accounted(q) /\ task[q].record \subseteq Recorded
    BY DEF IInv, CandidatesAccounted, RecordedStays, Committed
  <2> QED
    BY <2>1 DEF Accounted
<1> QED
  BY <1>1, WatchInvariant, PTL DEF CheckSettlesPage, Spec

\* The high-water mark never moves back.
THEOREM MarksRise == Spec => MarkOnlyRises
<1> DEFINE Rises == \A q \in Search : mark'[q] >= mark[q]
<1>0. IInv => \A q \in Search : mark[q] \in Nat
  BY WatchAssumption DEF IInv, TypeOK, Stamp, WatchAssumption
<1>1. IInv /\ [Next]_vars => Rises
  <2> SUFFICES ASSUME IInv, [Next]_vars, NEW q \in Search PROVE mark'[q] >= mark[q]
    OBVIOUS
  <2>1. CASE UNCHANGED mark
    BY <1>0, <2>1
  <2>2. ASSUME NEW p \in Search, Succeed(p) PROVE mark'[q] >= mark[q]
    <3>1. task[p].newest = 0 \/ task[p].newest >= mark[p]
      BY <2>2 DEF IInv, MarkIsOld, Succeed
    <3>2. mark'[q] = mark[q] \/ (q = p /\ mark'[q] = MarkAfter(q))
      BY <2>2 DEF Succeed, IInv, TypeOK
    <3> QED
      BY <1>0, <3>1, <3>2 DEF MarkAfter
  <2>3. UNCHANGED mark \/ \E p \in Search : Succeed(p)
    <3>1. ASSUME NEW p \in Search, Check(p), ~Succeed(p) PROVE UNCHANGED mark
      <4>1. CASE Fetch(p) \/ Gates(p) \/ ReadKnown(p) \/ ReadPrices(p)
        BY <4>1 DEF Fetch, Gates, ReadKnown, ReadPrices, tables
      <4>2. CASE WriteDrops(p)
        BY <4>2 DEF WriteDrops
      <4>3. CASE Decide(p)
        BY <4>3 DEF Decide, tables
      <4>4. CASE RecordItems(p) \/ RecordAlerts(p)
        BY <4>4 DEF RecordItems, RecordAlerts
      <4> QED
        BY <3>1, <4>1, <4>2, <4>3, <4>4 DEF Check
    <3>2. ASSUME NEW p \in Search, Start(p) \/ Cancel(p) \/ Pause(p) \/ Resume(p)
          PROVE  UNCHANGED mark
      BY <3>2 DEF Start, Cancel, Pause, Resume, tables
    <3>3. ASSUME NEW d \in Destination, DeleteDestination(d) PROVE UNCHANGED mark
      BY <3>3 DEF DeleteDestination
    <3>4. ASSUME NEW i \in Item, Prune(i) \/ Reprice(i) \/ Age(i) PROVE UNCHANGED mark
      BY <3>4 DEF Prune, Reprice, Age, tables
    <3>5. CASE Crash \/ Boot \/ UNCHANGED vars
      BY <3>5 DEF Crash, Boot, vars, tables
    <3> QED
      BY <3>1, <3>2, <3>3, <3>4, <3>5 DEF Next
  <2> QED
    BY <2>1, <2>2, <2>3
<1> QED
  BY <1>1, WatchInvariant, PTL DEF MarkOnlyRises, Spec

-----------------------------------------------------------------------------
(* Watching keeps what Findings promises.                                  *)

\* What a check means to write, another one's step leaves alone.
LEMMA PlanFrame ==
  ASSUME NEW p \in Search, PlanHolds(p),
         task'[p] = task[p], p \in succeeded' <=> p \in succeeded,
         destinations' \subseteq destinations,
         \A i \in task[p].inserted : price'[i] = price[i]
  PROVE  PlanHolds(p)'
BY DEF PlanHolds

\* A task that has nothing in hand.
LEMMA IdlePlanHolds ==
  ASSUME WatchAssumption, NEW p \in Search, NEW at \in {"off", "dead", "wait"}, task'[p] = Idle(at)
  PROVE  PlanHolds(p)'
BY DEF PlanHolds, Idle, EmptyPage, NoPrice

\* So a step of q that leaves destinations to others keeps the plans if it keeps that of q.
LEMMA PlanLocalStep ==
  ASSUME PlansHold, NEW q \in Search,
         \A p \in Search \ {q} :
           /\ task'[p] = task[p] /\ (p \in succeeded' <=> p \in succeeded)
           /\ \A i \in task[p].inserted : price'[i] = price[i],
         destinations' = destinations, PlanHolds(q)'
  PROVE  PlansHold'
BY PlanFrame DEF PlansHold

LEMMA CheckKeepsPlans ==
  ASSUME WatchAssumption, IInv, PlansHold, NEW q \in Search, Check(q) PROVE PlansHold'
<1> DEFINE t == task[q]
<1>0. t \in Task /\ Sound(q) /\ PlanHolds(q) /\ OneCommits /\ TypeOK
  BY IInvBySearch DEF IInv, TypeOK, PlansHold
<1>1. \A p \in Search : ~Locked => task[p].inserted = {}
  BY IInvBySearch DEF Sound, Locked
<1>2. CASE Fetch(q)
  <2>1. PICK page : Step(q, [t EXCEPT !.at = "gates", !.page = page])
    BY <1>2 DEF Fetch
  <2>2. t.at = "wait" /\ OnPage(q) = {}
    BY <1>0, <1>2 DEF Sound, Fetch
  <2>3. t.inserted = {} /\ \A i \in Item : t.before[i] = NoPrice
    BY <1>0, <2>2 DEF Sound
  <2>4. task'[q] = [t EXCEPT !.at = "gates", !.page = page]
        /\ \A p \in Search \ {q} : task'[p] = task[p]
    BY <1>0, <2>1, StepIsLocal
  <2>5. PlanHolds(q)'
    BY <1>0, <1>2, <2>3, <2>4 DEF Fetch, PlanHolds, Task, tables
  <2> QED
    BY <1>2, <2>4, <2>5, PlanLocalStep DEF Fetch, tables
<1>3. CASE Gates(q)
  <2>1. PICK candidates : Step(q, [t EXCEPT !.at = "known", !.candidates = candidates])
    BY <1>3 DEF Gates
  <2>2. task'[q] = [t EXCEPT !.at = "known", !.candidates = candidates]
        /\ \A p \in Search \ {q} : task'[p] = task[p]
    BY <1>0, <2>1, StepIsLocal
  <2>3. PlanHolds(q)'
    BY <1>0, <1>3, <2>2 DEF Gates, PlanHolds, Task, tables
  <2> QED
    BY <1>3, <2>2, <2>3, PlanLocalStep DEF Gates, tables
<1>4. CASE ReadKnown(q)
  <2> DEFINE known == t.candidates \cap Recorded
  <2>1. PICK at \in {"prices", "decide"} :
           /\ Step(q, [t EXCEPT !.at = at, !.known = known])
           /\ at = "prices" => q \in succeeded
    BY <1>4 DEF ReadKnown
  <2> HIDE DEF known
  <2>2. task'[q] = [t EXCEPT !.at = at, !.known = known]
        /\ \A p \in Search \ {q} : task'[p] = task[p]
    BY <1>0, <2>1, StepIsLocal
  <2>3. PlanHolds(q)'
    BY <1>0, <1>4, <2>1, <2>2 DEF ReadKnown, PlanHolds, Task, tables
  <2> QED
    BY <1>4, <2>2, <2>3, PlanLocalStep DEF ReadKnown, tables
<1>5. CASE ReadPrices(q)
  <2> DEFINE fell == {i \in t.known : <<price[i], t.page[i]>> \in Drop}
             before == [i \in Item |-> IF i \in fell THEN price[i] ELSE NoPrice]
  <2>1. /\ \/ task'[q] = [t EXCEPT !.at = "decide"]
           \/ task'[q] = [t EXCEPT !.at = "drops", !.before = before,
                                          !.dests = Routes[q] \cap destinations]
        /\ \A p \in Search \ {q} : task'[p] = task[p]
    BY <1>0, <1>5, StepIsLocal DEF ReadPrices
  <2>2. \A i \in Item : before[i] # NoPrice => <<before[i], t.page[i]>> \in Drop
    OBVIOUS
  <2>3. q \in succeeded
    BY <1>0, <1>5 DEF ReadPrices, PlanHolds
  <2> HIDE DEF before
  <2>4. UNCHANGED <<price, destinations, succeeded>> /\ t.at = "prices"
    BY <1>5 DEF ReadPrices, tables
  <2>5. CASE task'[q] = [t EXCEPT !.at = "decide"]
    <3>1. PlanHolds(q)'
      BY <1>0, <2>4, <2>5 DEF PlanHolds, Task
    <3> QED
      BY <2>1, <2>4, <3>1, PlanLocalStep
  <2>6. CASE task'[q] = [t EXCEPT !.at = "drops", !.before = before,
                                  !.dests = Routes[q] \cap destinations]
    <3>1. /\ task'[q].at = "drops" /\ task'[q].before = before /\ task'[q].page = t.page
          /\ task'[q].dests = Routes[q] \cap destinations /\ task'[q].inserted = t.inserted
      BY <1>0, <2>6 DEF Task
    <3>2. PlanHolds(q)'
      BY <1>0, <2>2, <2>3, <2>4, <3>1 DEF PlanHolds
    <3> QED
      BY <2>1, <2>4, <3>2, PlanLocalStep
  <2> QED
    BY <2>1, <2>5, <2>6
<1>6. CASE WriteDrops(q)
  <2>1. /\ \/ task'[q] = [t EXCEPT !.at = "decide", !.before = EmptyPage, !.dests = {}]
           \/ task'[q] = Idle("dead")
        /\ \A p \in Search \ {q} : task'[p] = task[p]
    BY <1>0, <1>6, StepIsLocal DEF WriteDrops
  <2>2. \A p \in Search : task[p].inserted = {}
    BY <1>1, <1>6 DEF WriteDrops
  <2>3. CASE task'[q] = [t EXCEPT !.at = "decide", !.before = EmptyPage, !.dests = {}]
    <3>1. PlanHolds(q)'
      BY <1>0, <2>2, <2>3 DEF PlanHolds, Task, EmptyPage, NoPrice
    <3> QED
      BY <1>6, <2>1, <2>2, <3>1, PlanLocalStep DEF WriteDrops
  <2>4. CASE task'[q] = Idle("dead")
    BY <1>6, <2>1, <2>2, <2>4, IdlePlanHolds, PlanLocalStep DEF WriteDrops
  <2> QED
    BY <2>1, <2>3, <2>4
<1>7. CASE Decide(q)
  <2> DEFINE unseen == t.candidates \ t.known
  <2>1. PICK notify \in SUBSET unseen, record \in SUBSET unseen, newest \in Stamp :
         LET selection == [record |-> record, notify |-> notify, newest |-> newest] IN
         /\ IF q \in succeeded THEN Select(unseen, mark[q], selection)
            ELSE FirstRun(unseen, t.page, selection)
         /\ Step(q, [t EXCEPT !.at = IF record = {} THEN "success" ELSE "record",
                              !.record = record, !.notify = notify, !.newest = newest,
                              !.dests = IF record = {} THEN {} ELSE Routes[q] \cap destinations])
    BY <1>7 DEF Decide
  <2>2. AreNewest(notify, record, IF q \in succeeded THEN MaxNotify ELSE FirstCap)
    BY <2>1 DEF Select, FirstRun, FirstCap
  <2>3. /\ task'[q] = [t EXCEPT !.at = IF record = {} THEN "success" ELSE "record",
                              !.record = record, !.notify = notify, !.newest = newest,
                              !.dests = IF record = {} THEN {} ELSE Routes[q] \cap destinations]
        /\ \A p \in Search \ {q} : task'[p] = task[p]
    BY <1>0, <2>1, StepIsLocal
  <2>4. PlanHolds(q)'
    <3>1. UNCHANGED <<price, destinations, succeeded>> /\ t.at = "decide"
      BY <1>7 DEF Decide, tables
    <3>2. AreNewest(notify, record, IF q \in succeeded THEN MaxNotify ELSE FirstCap)'
      BY <2>2, <3>1 DEF AreNewest, FirstCap
    <3>3. /\ task'[q].record = record /\ task'[q].notify = notify
          /\ task'[q].at \in {"success", "record"}
          /\ task'[q].at = "record" => task'[q].dests = Routes[q] \cap destinations
          /\ task'[q].dests \subseteq Routes[q]
          /\ task'[q].before = t.before /\ task'[q].page = t.page /\ task'[q].inserted = t.inserted
      BY <1>0, <2>3 DEF Task
    <3> QED
      BY <1>0, <2>2, <3>1, <3>3 DEF PlanHolds, AreNewest, FirstCap
  <2> QED
    BY <1>7, <2>3, <2>4, PlanLocalStep DEF Decide, tables
<1>8. CASE RecordItems(q)
  <2> DEFINE mine == t.record \ Recorded
  <2>1. /\ task'[q] = [t EXCEPT !.at = "commit", !.inserted = mine]
        /\ \A p \in Search \ {q} : task'[p] = task[p]
    BY <1>0, <1>8, StepIsLocal DEF RecordItems
  <2>2. \A p \in Search : task[p].inserted = {}
    BY <1>1, <1>8 DEF RecordItems
  <2>3. \A i \in mine : i \in Item /\ price'[i] = t.page[i]
    BY <1>0, <1>8 DEF RecordItems, Task
  <2> HIDE DEF mine
  <2>4. PlanHolds(q)'
    BY <1>0, <1>8, <2>1, <2>3 DEF RecordItems, PlanHolds, Task
  <2> QED
    BY <1>8, <2>1, <2>2, <2>4, PlanLocalStep DEF RecordItems
<1>9. CASE RecordAlerts(q)
  <2>1. \A p \in Search \ {q} : task'[p] = task[p] /\ task[p].inserted = {}
    BY <1>0, <1>9, IInvBySearch, StepIsLocal DEF RecordAlerts, Sound, OneCommits
  <2>2. \/ task'[q] = [t EXCEPT !.at = "success", !.inserted = {}]
        \/ task'[q] = Idle("dead")
    BY <1>0, <1>9, StepIsLocal DEF RecordAlerts
  <2>3. CASE task'[q] = [t EXCEPT !.at = "success", !.inserted = {}]
    <3>1. PlanHolds(q)'
      BY <1>0, <2>3 DEF PlanHolds, Task
    <3> QED
      BY <1>9, <2>1, <3>1, PlanLocalStep DEF RecordAlerts
  <2>4. CASE task'[q] = Idle("dead")
    BY <1>9, <2>1, <2>4, IdlePlanHolds, PlanLocalStep DEF RecordAlerts
  <2> QED
    BY <2>2, <2>3, <2>4
<1>10. CASE Succeed(q)
  <2>1. task'[q] = Idle("wait") /\ \A p \in Search \ {q} : task'[p] = task[p]
    BY <1>0, <1>10, StepIsLocal DEF Succeed
  <2> QED
    BY <1>10, <2>1, IdlePlanHolds, PlanLocalStep DEF Succeed
<1> QED
  BY <1>2, <1>3, <1>4, <1>5, <1>6, <1>7, <1>8, <1>9, <1>10 DEF Check

\* The owner's, the supervisor's and the machine's steps write nothing a plan rests on.
LEMMA OthersKeepPlans ==
  ASSUME WatchAssumption, IInv, PlansHold,
         \/ \E q \in Search : Start(q) \/ Cancel(q) \/ Pause(q) \/ Resume(q)
         \/ \E d \in Destination : DeleteDestination(d)
         \/ \E i \in Item : Prune(i) \/ Reprice(i) \/ Age(i)
         \/ Crash \/ Boot \/ UNCHANGED vars
  PROVE  PlansHold'
<1>0. TypeOK /\ OneCommits /\ \A q \in Search : Sound(q) /\ PlanHolds(q)
  BY IInvBySearch DEF IInv, PlansHold
<1>1. ASSUME UNCHANGED <<task, succeeded>>, destinations' \subseteq destinations,
             \A p \in Search : \A i \in task[p].inserted : price'[i] = price[i]
      PROVE  PlansHold'
  BY <1>0, <1>1, PlanFrame DEF PlansHold
<1>2. ASSUME NEW q \in Search, Start(q) \/ Cancel(q) PROVE PlansHold'
  <2>1. /\ task'[q] \in {Idle("wait"), Idle("off")} /\ \A p \in Search \ {q} : task'[p] = task[p]
        /\ UNCHANGED <<destinations, succeeded>>
    BY <1>0, <1>2, StepIsLocal DEF Start, Cancel, tables
  <2>2. ASSUME NEW p \in Search \ {q}, NEW i \in task[p].inserted PROVE price'[i] = price[i]
    <3>1. CASE Start(q)
      BY <3>1 DEF Start, tables
    <3>2. CASE Cancel(q)
      <4>1. task[p].at = "commit" /\ task[p] \in Task
        BY <1>0 DEF Sound, TypeOK
      <4>2. i \in Item /\ i \notin task[q].inserted
        BY <1>0, <4>1 DEF Sound, OneCommits, Task
      <4> QED
        BY <3>2, <4>2 DEF Cancel, RolledBack
    <3> QED
      BY <1>2, <3>1, <3>2
  <2>3. PlanHolds(q)'
    BY <2>1, IdlePlanHolds
  <2> QED
    BY <2>1, <2>2, <2>3, PlanLocalStep
<1>3. ASSUME NEW q \in Search, Pause(q) \/ Resume(q) PROVE PlansHold'
  BY <1>1, <1>3 DEF Pause, Resume
<1>4. ASSUME NEW d \in Destination, DeleteDestination(d) PROVE PlansHold'
  BY <1>1, <1>4 DEF DeleteDestination
<1>5. ASSUME NEW i \in Item, Prune(i) PROVE PlansHold'
  <2>1. \A p \in Search : task[p].inserted = {}
    BY <1>0, <1>5 DEF Prune, Locked, Sound
  <2> QED
    BY <1>1, <1>5, <2>1 DEF Prune
<1>6. ASSUME NEW i \in Item, Reprice(i) \/ Age(i) PROVE PlansHold'
  BY <1>1, <1>6 DEF Reprice, Age, tables
<1>7. CASE Crash
  <2>1. \A q \in Search : task'[q] = Idle("off")
    BY <1>7 DEF Crash
  <2> QED
    BY <2>1, IdlePlanHolds DEF PlansHold
<1>8. CASE Boot \/ UNCHANGED vars
  BY <1>1, <1>8 DEF Boot, vars, tables
<1> QED
  BY <1>2, <1>3, <1>4, <1>5, <1>6, <1>7, <1>8

\* The plans hold throughout.
LEMMA PlansAlwaysHold == Spec => [](IInv /\ PlansHold)
<1>1. Init => PlansHold
  <2> SUFFICES ASSUME Init, NEW q \in Search PROVE PlanHolds(q)
    BY DEF PlansHold
  <2> QED
    BY DEF Init, PlanHolds, Idle, EmptyPage, NoPrice
<1>2. IInv /\ PlansHold /\ [Next]_vars => PlansHold'
  <2> SUFFICES ASSUME IInv, PlansHold, [Next]_vars PROVE PlansHold'
    OBVIOUS
  <2>1. ASSUME NEW q \in Search, Check(q) PROVE PlansHold'
    BY <2>1, CheckKeepsPlans, WatchAssumption
  <2> QED
    BY <2>1, OthersKeepPlans, WatchAssumption DEF Next
<1> QED
  BY <1>1, <1>2, WatchInvariant, PTL DEF Spec

-----------------------------------------------------------------------------
(* So watching refines Findings, step by step. *)

\* A step that leaves the tables alone, as committed, is none of Findings.
LEMMA HiddenStep ==
  ASSUME UNCHANGED <<outbox, destinations, succeeded>>, KnownPrice' = KnownPrice
  PROVE  UNCHANGED Finds!findings
BY DEF Finds!findings

\* What is committed is what the table holds while nobody writes.
LEMMA KnownWhenIdle ==
  ASSUME TypeOK, Uncommitted = {} PROVE KnownPrice = price
BY DEF KnownPrice, TypeOK, Page

LEMMA KnownWhenIdleNext ==
  ASSUME TypeOK', Uncommitted' = {} PROVE KnownPrice' = price'
BY DEF KnownPrice, TypeOK, Page

\* Transactions, of the next state.
LEMMA TransactionsNext ==
  ASSUME IInv'
  PROVE  /\ ~Locked' => Uncommitted' = {}
         /\ \A q \in Search : task'[q].at = "commit" => Uncommitted' = task'[q].inserted
<1>1. /\ \A q, p \in Search : task'[q].at = "commit" /\ task'[p].at = "commit" => q = p
      /\ \A q \in Search : task'[q].inserted # {} => task'[q].at = "commit"
  BY DEF IInv, OneTransaction
<1> QED
  BY <1>1 DEF Locked, Uncommitted

\* A step of a check that neither inserts nor commits.
LEMMA SilentStep ==
  ASSUME IInv, NEW q \in Search, NEW now \in Task, Step(q, now), now.inserted = task[q].inserted,
         UNCHANGED <<price, outbox, destinations, succeeded>>
  PROVE  UNCHANGED Finds!findings
<1>1. \A p \in Search : task'[p].inserted = task[p].inserted
  BY StepIsLocal DEF IInv
<1>2. Uncommitted' = Uncommitted
  BY <1>1 DEF Uncommitted
<1> QED
  BY <1>2, HiddenStep DEF KnownPrice

\* A rollback takes back what was never known.
LEMMA RollbackStep ==
  ASSUME IInv, NEW Q \in SUBSET Search, price' = RolledBack(Q),
         \A p \in Q : task'[p].inserted = {},
         \A p \in Search \ Q : task'[p].inserted = task[p].inserted,
         UNCHANGED <<outbox, destinations, succeeded>>
  PROVE  UNCHANGED Finds!findings
<1>1. \A i \in Item : i \in Uncommitted <=> i \in Uncommitted' \/ \E p \in Q : i \in task[p].inserted
  BY DEF Uncommitted
<1>2. ASSUME NEW i \in Item
      PROVE  (IF i \in Uncommitted' THEN NoPrice ELSE price'[i]) =
             (IF i \in Uncommitted THEN NoPrice ELSE price[i])
  BY <1>1 DEF RolledBack
<1>3. KnownPrice' = KnownPrice
  BY <1>2 DEF KnownPrice
<1> QED
  BY <1>3, HiddenStep

\* INSERT OR IGNORE tells what has not been told.
LEMMA QueueTells ==
  ASSUME NEW rows, Queue(rows) PROVE Finds!Tell(rows)
BY DEF Queue, Finds!Tell

\* Findings counts as Watch does.
LEMMA SameCount == \A S : Finds!Cardinality(S) = Cardinality(S)
BY DEF Finds!Cardinality, Cardinality

\* The newest of a list are the newest of a finite set, and as many.
LEMMA NewestMayBeTold ==
  ASSUME WatchAssumption, NEW q \in Search, NEW S \in SUBSET Item, NEW N,
         AreNewest(N, S, IF q \in succeeded THEN MaxNotify ELSE FirstCap)
  PROVE  N \in SUBSET S /\ Finds!MayBeTold(q, N, S)
<1> DEFINE cap == IF q \in succeeded THEN MaxNotify ELSE FirstCap
<1>1. Cardinality(S) \in Nat
  BY FS_Subset, FS_CardinalityType DEF WatchAssumption
<1>2. cap \in Nat
  BY DEF WatchAssumption, FirstCap
<1>3. /\ N \in SUBSET S
      /\ Cardinality(N) = IF Cardinality(S) < cap THEN Cardinality(S) ELSE cap
      /\ \A i \in N, j \in S \ N : Ts[j] <= Ts[i]
  BY DEF AreNewest
<1>4. \A i \in N, j \in S \ N : Ts[i] >= Ts[j]
  BY <1>3 DEF WatchAssumption
<1> HIDE DEF cap
<1>5. Cardinality(N) = IF Cardinality(S) <= cap THEN Cardinality(S) ELSE cap
  BY <1>1, <1>2, <1>3
<1> QED
  BY <1>3, <1>4, <1>5, SameCount DEF Finds!MayBeTold, cap

\* The listings are inserted, and nobody knows it.
LEMMA RecordItemsHides ==
  ASSUME WatchAssumption, IInv, IInv', NEW q \in Search, RecordItems(q)
  PROVE  UNCHANGED Finds!findings
<1> DEFINE t == task[q]
           mine == t.record \ Recorded
<1>0. t \in Task /\ Uncommitted = {} /\ price \in Page
  BY Transactions DEF IInv, TypeOK, RecordItems
<1>1. task'[q] = [t EXCEPT !.at = "commit", !.inserted = mine]
  BY StepIsLocal DEF IInv, RecordItems
<1>2. Uncommitted' = mine
  BY <1>0, <1>1, TransactionsNext DEF Task
<1>3. KnownPrice = price
  BY <1>0, KnownWhenIdle DEF IInv
<1>4. \A i \in Item : (IF i \in mine THEN NoPrice ELSE price'[i]) = price[i]
  BY <1>0 DEF RecordItems, Recorded, Task
<1> HIDE DEF mine
<1>5. KnownPrice' = [i \in Item |-> price[i]]
  BY <1>2, <1>4 DEF KnownPrice
<1>6. KnownPrice' = KnownPrice
  BY <1>0, <1>3, <1>5 DEF Page
<1> QED
  BY <1>6, HiddenStep DEF RecordItems

\* The alerts are in, the transaction commits, and Findings announces.
LEMMA CommitAnnounces ==
  ASSUME WatchAssumption, IInv, IInv', PlansHold, NEW q \in Search, RecordAlerts(q),
         task'[q].at = "success"
  PROVE  Finds!FindingsNext
<1> DEFINE t == task[q]
           cost == [i \in t.record |-> t.page[i]]
           none == [i \in t.notify |-> 0]
           rows == {[search |-> q, item |-> i, dest |-> d, from |-> NoPrice, to |-> t.page[i]] :
                      i \in t.notify, d \in t.dests}
<1>0. /\ t \in Task /\ price \in Page /\ price' \in Page /\ Sound(q) /\ PlanHolds(q)
      /\ t.at = "commit"
  BY IInvBySearch DEF IInv, TypeOK, PlansHold, RecordAlerts
<1>1. /\ t.notify = {} \/ AllExist(t.dests)
      /\ Queue(rows)
      /\ task'[q] = [t EXCEPT !.at = "success", !.inserted = {}]
      /\ UNCHANGED <<price, destinations, succeeded>>
  BY <1>0, StepIsLocal DEF RecordAlerts, Idle, IInv
<1>2. Uncommitted = t.inserted /\ Uncommitted' = {}
  <2>1. \A p \in Search \ {q} : task'[p] = task[p] /\ task[p].at # "commit"
    BY <1>0, IInvBySearch, StepIsLocal DEF OneCommits, RecordAlerts, IInv
  <2>2. task'[q].at # "commit"
    OBVIOUS
  <2>3. ~Locked'
    BY <2>1, <2>2 DEF Locked
  <2> QED
    BY <1>0, <2>3, Transactions, TransactionsNext
<1>3. t.notify \in SUBSET t.record /\ Finds!MayBeTold(q, t.notify, t.record)
  BY <1>0, NewestMayBeTold DEF PlanHolds, Task
<1>4. \A i \in t.record : i \in Item /\ t.page[i] \in Price
  BY <1>0 DEF Sound, OnPage, Task, Page
<1>5. cost \in [t.record -> Price]
  BY <1>4
<1>6. KnownPrice' = Finds!Seen({i \in t.record : KnownPrice[i] = 0}, cost)
  <2>1. \A i \in Item : price[i] = IF i \in {j \in t.record : KnownPrice[j] = 0} THEN cost[i]
                                  ELSE KnownPrice[i]
    BY <1>0, <1>2 DEF KnownPrice, Sound, PlanHolds, Recorded, NoPrice
  <2>2. KnownPrice' = price' /\ price' = [i \in Item |-> price[i]]
    BY <1>0, <1>1, <1>2, KnownWhenIdleNext DEF IInv, Page
  <2> HIDE DEF cost
  <2> QED
    BY <2>1, <2>2 DEF Finds!Seen
<1>7. rows = Finds!News(q, t.notify, none, cost)
  <2>1. t.notify = {} \/ t.dests = Finds!Audience(q)
    BY <1>0, <1>1 DEF AllExist, PlanHolds, Finds!Audience
  <2>2. \A i \in t.notify : cost[i] = t.page[i] /\ none[i] = NoPrice
    BY <1>3 DEF NoPrice
  <2> HIDE DEF cost, none
  <2>3. ASSUME NEW r PROVE r \in rows <=> r \in Finds!News(q, t.notify, none, cost)
    BY <2>1, <2>2 DEF Finds!News
  <2> HIDE DEF rows
  <2> QED
    BY <2>3 DEF Finds!News
<1>8. Finds!Tell(Finds!News(q, t.notify, none, cost))
  <2> HIDE DEF rows, cost, none
  <2> QED
    BY <1>1, <1>7, QueueTells
<1>9. Finds!Announce(q, t.record, t.notify)
  <2> HIDE DEF cost
  <2> QED
    BY <1>1, <1>3, <1>5, <1>6, <1>8 DEF Finds!Announce
<1> QED
  BY <1>0, <1>3, <1>9 DEF Finds!FindingsNext, Task

\* The drops are written, and Findings reports the fall.
LEMMA DropsReport ==
  ASSUME WatchAssumption, IInv, IInv', PlansHold, NEW q \in Search, WriteDrops(q),
         task'[q].at = "decide"
  PROVE  Finds!FindingsNext
<1> DEFINE t == task[q]
           fell == {i \in Item : t.before[i] # NoPrice}
           cost == [i \in fell |-> t.page[i]]
           before == [i \in fell |-> t.before[i]]
           rows == {[search |-> q, item |-> i, dest |-> d, from |-> t.before[i], to |-> t.page[i]] :
                      i \in fell, d \in t.dests}
<1>0. /\ t \in Task /\ price \in Page /\ price' \in Page /\ Sound(q) /\ PlanHolds(q)
      /\ t.at = "drops" /\ ~Locked
  BY IInvBySearch DEF IInv, TypeOK, PlansHold, WriteDrops
<1>1. /\ AllExist(t.dests)
      /\ price' = [i \in Item |-> IF i \in fell \cap Recorded THEN t.page[i] ELSE price[i]]
      /\ Queue(rows)
      /\ task'[q] = [t EXCEPT !.at = "decide", !.before = EmptyPage, !.dests = {}]
      /\ UNCHANGED <<destinations, succeeded>>
  BY <1>0, StepIsLocal DEF WriteDrops, Idle, IInv
<1>2. KnownPrice = price /\ KnownPrice' = price'
  <2>1. \A p \in Search \ {q} : task'[p] = task[p]
    BY StepIsLocal DEF WriteDrops, IInv
  <2>2. ~Locked'
    BY <1>0, <2>1 DEF Locked
  <2> QED
    BY <1>0, <2>2, Transactions, TransactionsNext, KnownWhenIdle, KnownWhenIdleNext DEF IInv
<1>3. \A i \in fell : t.page[i] \in Price /\ t.before[i] \in Price
                      /\ <<t.before[i], t.page[i]>> \in Drop
  BY <1>0 DEF Sound, OnPage, Task, Page, PlanHolds
<1>4. q \in succeeded /\ t.dests = Finds!Audience(q)
  BY <1>0, <1>1 DEF AllExist, PlanHolds, Finds!Audience
<1>5. /\ before \in [fell -> Price] /\ cost \in [fell -> Price]
      /\ \A i \in fell : <<before[i], cost[i]>> \in Drop
  BY <1>3
<1>6. KnownPrice' = Finds!Seen({i \in fell : KnownPrice[i] # 0}, cost)
  BY <1>1, <1>2 DEF Recorded, NoPrice, Finds!Seen
<1>7. Finds!Tell(Finds!News(q, fell, before, cost))
  <2>1. \A i \in fell : cost[i] = t.page[i] /\ before[i] = t.before[i]
    OBVIOUS
  <2> HIDE DEF cost, before, fell
  <2>2. rows = Finds!News(q, fell, before, cost)
    <3>1. ASSUME NEW r PROVE r \in rows <=> r \in Finds!News(q, fell, before, cost)
      BY <1>4, <2>1 DEF Finds!News
    <3> HIDE DEF rows
    <3> QED
      BY <3>1 DEF Finds!News
  <2> HIDE DEF rows
  <2> QED
    BY <1>1, <2>2, QueueTells
<1>8. Finds!ReportFall(q, fell)
  <2> HIDE DEF before, cost, fell
  <2> QED
    BY <1>1, <1>4, <1>5, <1>6, <1>7 DEF Finds!ReportFall
<1> QED
  BY <1>8 DEF Finds!FindingsNext

\* A step of a check is one of Findings, or hidden.
LEMMA CheckKeepsFindings ==
  ASSUME WatchAssumption, IInv, IInv', PlansHold, NEW q \in Search, Check(q)
  PROVE  [Finds!FindingsNext]_(Finds!findings)
<1>0. task[q] \in Task /\ task'[q] \in Task /\ Sound(q) /\ OneCommits /\ TypeOK
  BY IInvBySearch DEF IInv, TypeOK
<1>1. CASE Fetch(q) \/ Gates(q) \/ ReadKnown(q) \/ ReadPrices(q) \/ Decide(q)
  <2>1. /\ task' = [task EXCEPT ![q] = task'[q]]
        /\ UNCHANGED <<price, outbox, destinations, succeeded>>
    BY <1>0, <1>1 DEF Fetch, Gates, ReadKnown, ReadPrices, Decide, Step, tables, TypeOK
  <2>2. task'[q].inserted = task[q].inserted
    <3>1. CASE Fetch(q)
      <4>1. PICK page : Step(q, [task[q] EXCEPT !.at = "gates", !.page = page])
        BY <3>1 DEF Fetch
      <4> QED
        BY <1>0, <4>1 DEF Step, Task, TypeOK
    <3>2. CASE Gates(q)
      BY <1>0, <3>2 DEF Gates, Step, Task, TypeOK
    <3>3. CASE ReadKnown(q)
      BY <1>0, <3>3 DEF ReadKnown, Step, Task, TypeOK
    <3>4. CASE ReadPrices(q)
      BY <1>0, <3>4 DEF ReadPrices, Step, Task, TypeOK
    <3>5. CASE Decide(q)
      <4>1. PICK at, record, notify, newest, dests :
              Step(q, [task[q] EXCEPT !.at = at, !.record = record, !.notify = notify,
                                      !.newest = newest, !.dests = dests])
        BY <3>5 DEF Decide
      <4> QED
        BY <1>0, <4>1 DEF Step, Task, TypeOK
    <3> QED
      BY <1>1, <3>1, <3>2, <3>3, <3>4, <3>5
  <2> QED
    BY <1>0, <2>1, <2>2, SilentStep DEF Step
<1>2. CASE WriteDrops(q)
  <2>1. CASE Step(q, Idle("dead")) /\ UNCHANGED <<price, outbox, destinations, succeeded>>
    <3>1. Idle("dead") \in Task /\ Idle("dead").inserted = task[q].inserted
      BY <1>0, <1>2, IdleIsTask DEF WriteDrops, Sound, Idle, At
    <3> QED
      BY <2>1, <3>1, SilentStep
  <2>2. CASE Step(q, [task[q] EXCEPT !.at = "decide", !.before = EmptyPage, !.dests = {}])
    <3>1. task'[q].at = "decide"
      BY <1>0, <2>2 DEF Step, Task, TypeOK
    <3> QED
      BY <1>2, <3>1, DropsReport
  <2> QED
    BY <1>2, <2>1, <2>2 DEF WriteDrops
<1>3. CASE RecordItems(q)
  BY <1>3, RecordItemsHides
<1>4. CASE RecordAlerts(q)
  <2>1. CASE Step(q, Idle("dead")) /\ price' = RolledBack({q}) /\ UNCHANGED outbox
    <3>1. task'[q].inserted = {} /\ \A p \in Search \ {q} : task'[p] = task[p]
      BY <1>0, <2>1, StepIsLocal DEF Idle
    <3> QED
      BY <1>4, <2>1, <3>1, RollbackStep DEF RecordAlerts
  <2>2. CASE Step(q, [task[q] EXCEPT !.at = "success", !.inserted = {}])
    <3>1. task'[q].at = "success"
      BY <1>0, <2>2 DEF Step, Task, TypeOK
    <3> QED
      BY <1>4, <3>1, CommitAnnounces
  <2> QED
    BY <1>4, <2>1, <2>2 DEF RecordAlerts
<1>5. CASE Succeed(q)
  <2>1. /\ \A p \in Search : task'[p].inserted = task[p].inserted
        /\ UNCHANGED <<price, outbox, destinations>> /\ succeeded' = succeeded \cup {q}
    <3>1. task'[q] = Idle("wait") /\ \A p \in Search \ {q} : task'[p] = task[p]
      BY <1>0, <1>5, StepIsLocal DEF Succeed
    <3>2. task'[q].inserted = task[q].inserted
      BY <1>0, <1>5, <3>1 DEF Succeed, Sound, Idle
    <3> QED
      BY <1>5, <3>1, <3>2 DEF Succeed
  <2>2. Uncommitted' = Uncommitted
    BY <2>1 DEF Uncommitted
  <2>3. Finds!EndFirst(q)
    BY <2>1, <2>2 DEF Finds!EndFirst, KnownPrice
  <2> QED
    BY <2>3 DEF Finds!FindingsNext
<1> QED
  BY <1>1, <1>2, <1>3, <1>4, <1>5 DEF Check

\* So is everybody else's.
LEMMA NextKeepsFindings ==
  WatchAssumption /\ IInv /\ IInv' /\ PlansHold /\ [Next]_vars
    => [Finds!FindingsNext]_(Finds!findings)
<1> SUFFICES ASSUME WatchAssumption, IInv, IInv', PlansHold, [Next]_vars
             PROVE  [Finds!FindingsNext]_(Finds!findings)
  OBVIOUS
<1>0. TypeOK /\ \A q \in Search : Sound(q)
  BY IInvBySearch DEF IInv
<1>1. ASSUME UNCHANGED <<price, outbox, destinations, succeeded, task>>
      PROVE  UNCHANGED Finds!findings
  BY <1>1, HiddenStep DEF KnownPrice, Uncommitted
<1>2. ASSUME NEW q \in Search, Check(q) PROVE [Finds!FindingsNext]_(Finds!findings)
  BY <1>2, CheckKeepsFindings
<1>3. ASSUME NEW q \in Search, Start(q) PROVE UNCHANGED Finds!findings
  <2>1. Idle("wait") \in Task /\ Idle("wait").inserted = task[q].inserted
    BY <1>0, <1>3, IdleIsTask DEF Start, Sound, Idle, At
  <2> QED
    BY <1>3, <2>1, SilentStep DEF Start, tables
<1>4. ASSUME NEW q \in Search, Cancel(q) PROVE UNCHANGED Finds!findings
  <2>1. task'[q].inserted = {} /\ \A p \in Search \ {q} : task'[p] = task[p]
    BY <1>0, <1>4, StepIsLocal DEF Cancel, Idle
  <2> QED
    BY <1>4, <2>1, RollbackStep DEF Cancel
<1>5. ASSUME NEW q \in Search, Pause(q) \/ Resume(q) PROVE UNCHANGED Finds!findings
  BY <1>1, <1>5 DEF Pause, Resume
<1>6. ASSUME NEW d \in Destination, DeleteDestination(d) PROVE Finds!FindingsNext
  <2>1. Finds!Leave(d)
    BY <1>6 DEF DeleteDestination, Finds!Leave, KnownPrice, Uncommitted
  <2> QED
    BY <2>1 DEF Finds!FindingsNext
<1>7. ASSUME NEW i \in Item, Prune(i) PROVE Finds!FindingsNext
  <2>1. ~Locked /\ ~Locked' /\ price' = [price EXCEPT ![i] = NoPrice]
        /\ UNCHANGED <<outbox, destinations, succeeded>>
    BY <1>7 DEF Prune, Locked
  <2>2. KnownPrice = price /\ KnownPrice' = price'
    BY <1>0, <2>1, Transactions, TransactionsNext, KnownWhenIdle, KnownWhenIdleNext DEF IInv
  <2>3. Finds!Forget(i)
    BY <2>1, <2>2 DEF Finds!Forget, NoPrice
  <2> QED
    BY <2>3 DEF Finds!FindingsNext
<1>8. ASSUME NEW i \in Item, Reprice(i) \/ Age(i) PROVE UNCHANGED Finds!findings
  BY <1>1, <1>8 DEF Reprice, Age, tables
<1>9. CASE Crash
  BY <1>9, RollbackStep DEF Crash, Idle
<1>10. CASE Boot \/ UNCHANGED vars
  BY <1>1, <1>10 DEF Boot, vars, tables
<1> QED
  BY <1>2, <1>3, <1>4, <1>5, <1>6, <1>7, <1>8, <1>9, <1>10 DEF Next

\* An empty database has found nothing.
LEMMA InitFindsNothing == Init => Finds!FindingsInit
<1> SUFFICES ASSUME Init PROVE Finds!FindingsInit
  OBVIOUS
<1>1. Uncommitted = {}
  BY DEF Init, Uncommitted, Idle
<1> QED
  BY <1>1 DEF Init, Finds!FindingsInit, KnownPrice, EmptyPage, NoPrice

\* Watching, its transactions, cancellations and crashes included, keeps what Findings promises.
THEOREM FindingsAreKept == Spec => FindingsKept
<1>1. Init => Finds!FindingsInit
  BY InitFindsNothing
<1>2. (IInv /\ PlansHold) /\ (IInv /\ PlansHold)' /\ [Next]_vars
        => [Finds!FindingsNext]_(Finds!findings)
  BY NextKeepsFindings, WatchAssumption
<1> QED
  BY <1>1, <1>2, PlansAlwaysHold, PTL DEF Spec, FindingsKept, Finds!FindingsSpec
=============================================================================
