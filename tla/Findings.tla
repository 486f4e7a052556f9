------------------------------- MODULE Findings -------------------------------
(***************************************************************************)
(* What watching promises of what it finds, whatever checks, transactions, *)
(* cancellations and crashes are behind it.  The listings a check finds    *)
(* become known at once, together with alerts of the newest of them to     *)
(* every reader of the search; a fall that is told is a real one; no alert *)
(* comes about otherwise, and none is taken back while its reader stays.   *)
(***************************************************************************)
EXTENDS Naturals, FiniteSets

CONSTANTS
  Search, Item, Reader,
  Routes,     \* whom each search tells
  Ts,         \* when each listing was put up, 0 if that is not known
  Price,
  Drop,       \* <<before, now>>: a fall worth telling
  FirstCap,   \* how many the first check of a search may announce
  LaterCap    \* how many the others may

VARIABLES
  known,      \* what each listing cost when last seen, 0 if it is not known
  alerts,
  readers,    \* who is still there
  begun       \* searches whose first check is over

findings == <<known, alerts, readers, begun>>

FindingsInit ==
  /\ known = [i \in Item |-> 0]
  /\ alerts = {}
  /\ readers = Reader
  /\ begun = {}

Audience(q) == Routes[q] \cap readers

\* The alerts of N to the readers of a search.
News(q, N, before, cost) ==
  {[search |-> q, item |-> i, dest |-> d, from |-> before[i], to |-> cost[i]] :
     i \in N, d \in Audience(q)}

\* What is known once S has been seen at a cost.
Seen(S, cost) == [i \in Item |-> IF i \in S THEN cost[i] ELSE known[i]]

\* No reader hears the same news of a listing twice.
Tell(news) ==
  alerts' = alerts \cup
    {a \in news : ~ \E b \in alerts : b.item = a.item /\ b.dest = a.dest /\ b.from = a.from}

\* All of S, if the cap allows, or that many, and none older than one left out.
MayBeTold(q, N, S) ==
  LET cap == IF q \in begun THEN LaterCap ELSE FirstCap IN
  /\ Cardinality(N) = IF Cardinality(S) <= cap THEN Cardinality(S) ELSE cap
  /\ \A i \in N, j \in S \ N : Ts[i] >= Ts[j]

\* A check that found S announces N of it.
Announce(q, S, N) ==
  /\ UNCHANGED <<readers, begun>>
  /\ MayBeTold(q, N, S)
  /\ \E cost \in [S -> Price] :
       /\ known' = Seen({i \in S : known[i] = 0}, cost)
       /\ Tell(News(q, N, [i \in N |-> 0], cost))

\* One that is not the first reports that the listings of F have become cheaper.
ReportFall(q, F) ==
  /\ UNCHANGED <<readers, begun>>
  /\ q \in begun
  /\ \E before, cost \in [F -> Price] :
       /\ \A i \in F : <<before[i], cost[i]>> \in Drop
       /\ known' = Seen({i \in F : known[i] # 0}, cost)
       /\ Tell(News(q, F, before, cost))

EndFirst(q) ==
  /\ begun' = begun \cup {q}
  /\ UNCHANGED <<known, alerts, readers>>

Forget(i) ==
  /\ known' = [known EXCEPT ![i] = 0]
  /\ UNCHANGED <<alerts, readers, begun>>

Leave(d) ==
  /\ readers' = readers \ {d}
  /\ alerts' = {a \in alerts : a.dest # d}
  /\ UNCHANGED <<known, begun>>

FindingsNext ==
  \/ \E d \in Reader : Leave(d)
  \/ \E i \in Item : Forget(i)
  \/ \E q \in Search :
       \/ EndFirst(q)
       \/ \E S \in SUBSET Item : ReportFall(q, S) \/ \E N \in SUBSET S : Announce(q, S, N)

FindingsSpec == FindingsInit /\ [][FindingsNext]_findings
=============================================================================
