------------------------------ MODULE ChoresProofs ------------------------------
(***************************************************************************)
(* Of the chores behind the alerts, for all values of the constants: the   *)
(* rate of requests, the recorded schema version, that no notice is        *)
(* repeated without a cause, and that what stays on sale is kept.          *)
(***************************************************************************)
EXTENDS Integers, MCChores, FiniteSetTheorems, TLAPS

-----------------------------------------------------------------------------
(* The token bucket. *)

\* What was let through since request i, and what could be let through at once, fit in one
\* burst and the refill since then.
Allowance(i) ==
  (Len(grants) - i + 1) * Spacing + level <= Burst * Spacing + (updated - grants[i])

PacingIInv ==
  /\ PacingTypeOK
  /\ \A i \in 1 .. Len(grants) : Allowance(i)
  /\ RateHeld

LEMMA FullIsNat == Burst * Spacing \in Nat /\ Burst * Spacing >= Spacing
  BY PacingAssumption

\* What a refill leaves.
LEMMA RefilledBounds ==
  ASSUME PacingTypeOK
  PROVE  /\ Refilled \in 0 .. Burst * Spacing
         /\ Refilled <= level + (clock - updated)
  BY PacingAssumption, FullIsNat DEF PacingTypeOK, Refilled

\* What a refill adds, the clock adds to the allowance.
LEMMA RefillFits ==
  ASSUME NEW all \in Int, NEW held \in Int, NEW old \in Int, NEW full \in Int,
         NEW before \in Int, NEW then \in Int, NEW given \in Int,
         all + old <= full + (before - given), held <= old + (then - before)
  PROVE  all + held <= full + (then - given)
OBVIOUS

LEMMA LookKeeps ==
  ASSUME PacingIInv, LookForToken
  PROVE  PacingIInv'
<1> DEFINE n == Len(grants)
           Full == Burst * Spacing
<1> USE PacingAssumption DEF PacingIInv
<1>0. Full \in Nat /\ Full >= Spacing /\ Spacing \in Nat
  BY FullIsNat
<1>1. /\ Refilled \in 0 .. Full
      /\ Refilled <= level + (clock - updated)
  BY RefilledBounds
<1>2. /\ clock \in 0 .. MaxTime /\ level \in 0 .. Full /\ updated \in 0 .. clock
      /\ line \in Seq(Asker) /\ grants \in Seq(0 .. MaxTime) /\ n \in Nat
      /\ wakeAt \in 0 .. MaxTime + Spacing
      /\ \A i \in 1 .. n : grants[i] \in 0 .. MaxTime
  BY DEF PacingTypeOK
<1>3. clock' = clock /\ updated' = clock
  BY DEF LookForToken
<1>4. CASE Refilled >= Spacing
  <2>1. /\ level' = Refilled - Spacing /\ grants' = Append(grants, clock)
        /\ line' = Tail(line) /\ wakeAt' = 0 /\ line # <<>>
    BY <1>4 DEF LookForToken
  <2>2. /\ Len(grants') = n + 1
        /\ grants'[n + 1] = clock
        /\ \A i \in 1 .. n : grants'[i] = grants[i]
    BY <1>2, <2>1
  <2>3. PacingTypeOK'
    <3>1. level' \in 0 .. Full
      BY <1>1, <1>4, <2>1
    <3>2. line' \in Seq(Asker) /\ grants' \in Seq(0 .. MaxTime)
      BY <1>2, <2>1
    <3>3. QED
      BY <1>2, <1>3, <2>1, <3>1, <3>2 DEF PacingTypeOK
  <2>4. ASSUME NEW i \in 1 .. n + 1
        PROVE  (n + 2 - i) * Spacing + level' <= Full + (clock - grants'[i])
    <3>1. CASE i \in 1 .. n
      <4>1. (n - i + 1) * Spacing + level <= Full + (updated - grants[i])
        BY <3>1 DEF Allowance
      <4>2. (n + 2 - i) * Spacing = (n - i + 1) * Spacing + Spacing
        BY <1>2, <3>1
      <4>3. /\ grants'[i] = grants[i] /\ grants[i] \in Int /\ (n - i + 1) * Spacing \in Int
            /\ level \in Int /\ updated \in Int /\ clock \in Int /\ Refilled \in Int
        BY <1>0, <1>1, <1>2, <2>2, <3>1
      <4> DEFINE before == (n - i + 1) * Spacing
                 after == (n + 2 - i) * Spacing
                 held == Refilled
      <4>4. /\ before + level <= Full + (updated - grants[i])
            /\ after = before + Spacing /\ before \in Int
            /\ held <= level + (clock - updated) /\ level' = held - Spacing /\ held \in Int
        BY <1>1, <2>1, <4>1, <4>2, <4>3
      <4> HIDE DEF Full, n, before, after, held
      <4>5. after + level' <= Full + (clock - grants'[i])
        BY <1>0, <4>3, <4>4
      <4>6. QED
        BY <4>5 DEF after
    <3>2. CASE i = n + 1
      <4>1. (n + 2 - i) * Spacing = Spacing
        BY <1>2, <3>2
      <4>2. QED
        BY <1>0, <1>1, <1>2, <2>1, <2>2, <3>2, <4>1
    <3>3. QED
      BY <1>2, <3>1, <3>2
  <2>5. (\A i \in 1 .. n : Allowance(i))' /\ (\A i \in 1 .. Len(grants) : Allowance(i))'
    BY <1>2, <1>3, <2>2, <2>4 DEF Allowance
  <2>6. RateHeld'
    <3> SUFFICES ASSUME NEW i \in 1 .. n + 1, NEW j \in 1 .. n + 1, i <= j
                 PROVE  (j - i + 1) * Spacing <= Full + (grants'[j] - grants'[i])
      BY <2>2 DEF RateHeld
    <3>1. CASE j = n + 1
      <4>1. (j - i + 1) * Spacing = (n + 2 - i) * Spacing
        BY <1>2, <3>1
      <4>2. (n + 2 - i) * Spacing \in Int /\ level' \in Nat /\ grants'[i] \in Int
        BY <1>2, <2>2, <2>3 DEF PacingTypeOK
      <4>3. (n + 2 - i) * Spacing + level' <= Full + (clock - grants'[i])
        BY <2>4
      <4>4. grants'[j] = clock
        BY <2>2, <3>1
      <4> DEFINE all == (j - i + 1) * Spacing
      <4>5. all \in Int /\ all + level' <= Full + (clock - grants'[i])
        BY <4>1, <4>2, <4>3
      <4> HIDE DEF Full, n, all
      <4>6. all <= Full + (clock - grants'[i])
        BY <1>0, <1>2, <4>2, <4>5
      <4>7. QED
        BY <4>4, <4>6 DEF all
    <3>2. CASE j \in 1 .. n
      <4>1. i \in 1 .. n /\ j \in 1 .. n
        BY <1>2, <3>2
      <4>2. (j - i + 1) * Spacing <= Full + (grants[j] - grants[i])
        BY <4>1 DEF RateHeld
      <4>3. grants'[i] = grants[i] /\ grants'[j] = grants[j]
        BY <2>2, <4>1
      <4>4. QED
        BY <4>2, <4>3, Zenon
    <3>3. QED
      BY <1>2, <3>1, <3>2
  <2>7. QED
    BY <2>3, <2>5, <2>6
<1>5. CASE ~(Refilled >= Spacing)
  <2>1. /\ level' = Refilled /\ wakeAt' = clock + (Spacing - Refilled)
        /\ line' = line /\ grants' = grants
    BY <1>5 DEF LookForToken
  <2>2. PacingTypeOK'
    BY <1>1, <1>2, <1>3, <1>5, <2>1 DEF PacingTypeOK
  <2>3. (\A i \in 1 .. Len(grants) : Allowance(i))'
    <3> SUFFICES ASSUME NEW i \in 1 .. n
                 PROVE  (n - i + 1) * Spacing + Refilled <= Full + (clock - grants[i])
      BY <1>3, <2>1 DEF Allowance
    <3>1. (n - i + 1) * Spacing + level <= Full + (updated - grants[i])
      BY DEF Allowance
    <3>2. (n - i + 1) * Spacing \in Int /\ grants[i] \in Int
      BY <1>0, <1>2
    <3> DEFINE all == (n - i + 1) * Spacing
               held == Refilled
    <3>3. /\ all \in Int /\ all + level <= Full + (updated - grants[i])
          /\ held \in Int /\ held <= level + (clock - updated)
      BY <1>0, <1>1, <3>1, <3>2
    <3> HIDE DEF Full, n, all, held
    <3>4. /\ level \in Int /\ updated \in Int /\ clock \in Int /\ Full \in Int
          /\ grants[i] \in Int
      BY <1>0, <1>2, <3>2
    <3>5. all + held <= Full + (clock - grants[i])
      BY <3>3, <3>4, RefillFits
    <3>6. QED
      BY <3>5 DEF all, held
  <2>4. RateHeld'
    BY <2>1 DEF RateHeld
  <2>5. QED
    BY <2>2, <2>3, <2>4
<1>6. QED
  BY <1>4, <1>5

LEMMA OthersKeep ==
  ASSUME PacingIInv,
         \/ PaceTick \/ UNCHANGED pacingVars
         \/ \E a \in Asker : AskBudget(a) \/ CancelAsk(a)
  PROVE  PacingIInv'
<1> USE PacingAssumption DEF PacingIInv
<1>1. CASE PaceTick
  BY <1>1 DEF PaceTick, PacingTypeOK, Allowance, RateHeld
<1>2. CASE UNCHANGED pacingVars
  BY <1>2 DEF pacingVars, PacingTypeOK, Allowance, RateHeld
<1>3. ASSUME NEW a \in Asker, AskBudget(a)
      PROVE  PacingIInv'
  BY <1>3 DEF AskBudget, PacingTypeOK, Allowance, RateHeld
<1>4. ASSUME NEW a \in Asker, CancelAsk(a)
      PROVE  PacingIInv'
  <2>1. PICK i \in 1 .. Len(line) :
          /\ line' = SubSeq(line, 1, i - 1) \o SubSeq(line, i + 1, Len(line))
          /\ wakeAt' = IF i = 1 THEN 0 ELSE wakeAt
          /\ UNCHANGED <<clock, level, updated, grants>>
    BY <1>4 DEF CancelAsk
  <2>2. line' \in Seq(Asker)
    BY <2>1 DEF PacingTypeOK
  <2>3. wakeAt' \in 0 .. MaxTime + Spacing
    BY <2>1 DEF PacingTypeOK
  <2>4. QED
    BY <2>1, <2>2, <2>3 DEF PacingTypeOK, Allowance, RateHeld
<1>5. QED
  BY <1>1, <1>2, <1>3, <1>4

\* The inductive invariant: what was let through and what is still allowed balance.
THEOREM PacingInvariance == PacingSpec => []PacingIInv
<1>1. PacingInit => PacingIInv
  BY PacingAssumption, FullIsNat DEF PacingInit, PacingIInv, PacingTypeOK, Allowance, RateHeld
<1>2. PacingIInv /\ [PacingNext]_pacingVars => PacingIInv'
  BY LookKeeps, OthersKeep DEF PacingNext
<1>3. QED
  BY <1>1, <1>2, PTL DEF PacingSpec

\* RateHeld, of LimiterBucket.acquire and RequestBudget: no stretch of time sees more requests
\* than its refill and one burst.
THEOREM RateIsHeld == PacingSpec => []RateHeld
<1>1. PacingIInv => RateHeld
  BY DEF PacingIInv
<1>2. QED
  BY <1>1, PacingInvariance, PTL

-----------------------------------------------------------------------------
(* The schema. *)

\* Wherever a process is in a script, it passed all earlier ones whole, and it is not
\* past its last statement.
MigratorPlaced(p) ==
  LET v == migrator[p].version
      n == migrator[p].next
  IN  /\ migrator[p].at \in {"script", "stamp"}
           => /\ v \in Version
              /\ \A w \in (1 .. v - 1) \ Rebuilds : Whole(w)
      /\ migrator[p].at = "script" => n \in 1 .. Statements[v]
      /\ migrator[p].at = "stamp" /\ v \notin Rebuilds => Whole(v)

MigrationsIInv ==
  /\ MigrationsTypeOK
  /\ VersionIsHonest
  /\ \A p \in Process : MigratorPlaced(p)

\* A script that is whole and no rebuild stays whole.
LEMMA WholeStays ==
  ASSUME MigrationsIInv, NEW p \in Process, RunStatement(p)
  PROVE  /\ \A w \in Version \ Rebuilds : Whole(w) => Whole(w)'
         /\ applied' \in [Version -> Nat]
<1> DEFINE v == migrator[p].version
           n == migrator[p].next
<1>1. v \in Version /\ n \in 1 .. Statements[v] /\ Statements[v] \in Nat /\ CanRun(v, n)
  BY MigrationsAssumption DEF MigrationsIInv, MigratorPlaced, RunStatement, Version
<1>2. applied' = [applied EXCEPT ![v] = n] /\ applied \in [Version -> Nat]
  BY DEF RunStatement, MigrationsIInv, MigrationsTypeOK
<1>3. ASSUME NEW w \in Version \ Rebuilds, Whole(w)
      PROVE  Whole(w)'
  BY <1>1, <1>2, <1>3, MigrationsAssumption DEF Whole, CanRun
<1>4. QED
  BY <1>1, <1>2, <1>3

LEMMA PendingIsPlaced ==
  ASSUME NEW v \in 0 .. Latest, MigrationsTypeOK
  PROVE  /\ Pending(v) \in Migrator
         /\ v < Latest => Pending(v) = [at |-> "script", version |-> v + 1, next |-> 1]
         /\ v = Latest => Pending(v) = NoMigrator("ready")
  BY MigrationsAssumption DEF Pending, NoMigrator, Migrator, MigratorAt

LEMMA StatementKeeps ==
  ASSUME MigrationsIInv, NEW p \in Process, RunStatement(p)
  PROVE  MigrationsIInv'
<1> DEFINE v == migrator[p].version
           n == migrator[p].next
<1> USE MigrationsAssumption
<1>1. /\ v \in Version /\ n \in 1 .. Statements[v] /\ Statements[v] \in Nat \ {0}
      /\ applied \in [Version -> Nat] /\ migrator \in [Process -> Migrator]
      /\ migrator[p].at = "script"
  BY DEF MigrationsIInv, MigratorPlaced, RunStatement, Version, MigrationsTypeOK
<1>2. /\ applied' = [applied EXCEPT ![v] = n]
      /\ migrator' = [migrator EXCEPT ![p].next = n + 1, ![p].at = AfterStatement(v, n)]
      /\ userVersion' = userVersion /\ kills' = kills
  BY DEF RunStatement
<1>3. \A w \in Version \ Rebuilds : Whole(w) => Whole(w)'
  BY WholeStays
<1>4. AfterStatement(v, n) \in {"script", "stamp"}
  BY DEF AfterStatement
<1>5. MigrationsTypeOK'
  <2> DEFINE where == AfterStatement(v, n)
  <2>1. /\ where \in MigratorAt /\ n + 1 \in Nat
        /\ migrator' = [migrator EXCEPT ![p].next = n + 1, ![p].at = where]
    BY <1>1, <1>2, <1>4 DEF MigratorAt
  <2> HIDE DEF where, n
  <2>2. migrator \in [Process -> Migrator]
    BY <1>1
  <2>3. migrator' \in [Process -> Migrator]
    BY <2>1, <2>2 DEF Migrator
  <2>4. QED
    BY <1>2, <2>3, WholeStays DEF MigrationsIInv, MigrationsTypeOK
<1>6. VersionIsHonest'
  <2>1. \A w \in (1 .. userVersion) \ Rebuilds : Whole(w)'
    BY <1>3 DEF MigrationsIInv, VersionIsHonest, MigrationsTypeOK, Version
  <2>2. ASSUME NEW q \in Process, migrator'[q].at = "ready"
        PROVE  migrator[q].at = "ready"
    BY <1>1, <1>2, <1>4, <2>2
  <2>3. QED
    BY <1>2, <1>3, <2>1, <2>2 DEF MigrationsIInv, VersionIsHonest
<1>7. ASSUME NEW q \in Process
      PROVE  MigratorPlaced(q)'
  <2>1. MigratorPlaced(q)
    BY DEF MigrationsIInv
  <2>2. CASE q # p
    <3>1. migrator'[q] = migrator[q]
      BY <1>1, <1>2, <2>2
    <3>2. QED
      BY <1>3, <2>1, <3>1 DEF MigratorPlaced, Version
  <2>3. CASE q = p
    <3>1. /\ migrator'[p].version = v /\ migrator'[p].next = n + 1
          /\ migrator'[p].at = AfterStatement(v, n)
      BY <1>1, <1>2 DEF Migrator
    <3>2. \A w \in (1 .. v - 1) \ Rebuilds : Whole(w)'
      BY <1>1, <1>3, <2>1, <2>3 DEF MigratorPlaced, Version
    <3>3. n # Statements[v] => n + 1 \in 1 .. Statements[v]
      BY <1>1
    <3>4. n = Statements[v] => Whole(v)'
      BY <1>1, <1>2 DEF Whole
    <3>5. QED
      BY <1>1, <2>3, <3>1, <3>2, <3>3, <3>4 DEF MigratorPlaced, AfterStatement
  <2>4. QED
    BY <2>2, <2>3
<1>8. QED
  BY <1>5, <1>6, <1>7 DEF MigrationsIInv

\* A process that moves on to what is pending after version v, all before being whole.
LEMMA MovesOn ==
  ASSUME MigrationsIInv, NEW p \in Process, NEW v \in 0 .. Latest,
         \A w \in (1 .. v) \ Rebuilds : Whole(w),
         applied' = applied, kills' = kills,
         userVersion' \in {userVersion, v},
         migrator' = [migrator EXCEPT ![p] = Pending(v)]
  PROVE  MigrationsIInv'
<1> USE MigrationsAssumption
<1>1. /\ migrator \in [Process -> Migrator] /\ MigrationsTypeOK
      /\ userVersion \in 0 .. Latest
  BY DEF MigrationsIInv, MigrationsTypeOK
<1>2. \A w : Whole(w)' <=> Whole(w)
  BY DEF Whole
<1>3. MigrationsTypeOK'
  BY <1>1, PendingIsPlaced DEF MigrationsTypeOK
<1>4. /\ migrator'[p] = Pending(v)
      /\ \A q \in Process \ {p} : migrator'[q] = migrator[q]
  BY <1>1
<1>5. /\ v < Latest => Pending(v) = [at |-> "script", version |-> v + 1, next |-> 1]
      /\ v = Latest => Pending(v) = NoMigrator("ready")
      /\ v < Latest \/ v = Latest
  BY <1>1, PendingIsPlaced
<1>6. VersionIsHonest'
  <2>1. \A w \in (1 .. userVersion') \ Rebuilds : Whole(w)
    BY DEF MigrationsIInv, VersionIsHonest
  <2>2. Pending(v).at = "ready" => \A w \in Version \ Rebuilds : Whole(w)
    BY <1>5 DEF Version
  <2>3. QED
    BY <1>2, <1>4, <2>1, <2>2 DEF MigrationsIInv, VersionIsHonest
<1>7. MigratorPlaced(p)'
  <2>1. CASE v < Latest
    <3>1. Statements[v + 1] \in Nat \ {0}
      BY <2>1
    <3>2. v + 1 \in Version /\ (v + 1) - 1 = v
      BY <2>1 DEF Version
    <3>3. QED
      BY <1>2, <1>4, <1>5, <2>1, <3>1, <3>2 DEF MigratorPlaced
  <2>2. CASE v = Latest
    BY <1>4, <1>5, <2>2 DEF MigratorPlaced, NoMigrator
  <2>3. QED
    BY <1>5, <2>1, <2>2
<1>8. \A q \in Process \ {p} : MigratorPlaced(q)'
  BY <1>2, <1>4 DEF MigrationsIInv, MigratorPlaced
<1>9. QED
  BY <1>3, <1>6, <1>7, <1>8 DEF MigrationsIInv

\* A process that stops, or is started again.
LEMMA StandsAside ==
  ASSUME MigrationsIInv, NEW p \in Process, NEW at \in {"off", "failed"},
         applied' = applied, userVersion' = userVersion, kills' \in 0 .. MaxKills,
         migrator' = [migrator EXCEPT ![p] = NoMigrator(at)]
  PROVE  MigrationsIInv'
<1> USE MigrationsAssumption
<1>1. migrator \in [Process -> Migrator]
  BY DEF MigrationsIInv, MigrationsTypeOK
<1>2. NoMigrator(at) \in Migrator /\ NoMigrator(at).at = at
  BY DEF NoMigrator, Migrator, MigratorAt
<1>3. /\ migrator'[p].at = at
      /\ \A q \in Process \ {p} : migrator'[q] = migrator[q]
  BY <1>1, <1>2
<1>4. \A w : Whole(w)' <=> Whole(w)
  BY DEF Whole
<1>5. MigrationsTypeOK'
  BY <1>1, <1>2 DEF MigrationsIInv, MigrationsTypeOK
<1>6. VersionIsHonest'
  BY <1>3, <1>4 DEF MigrationsIInv, VersionIsHonest
<1>7. \A q \in Process : MigratorPlaced(q)'
  BY <1>3, <1>4 DEF MigrationsIInv, MigratorPlaced
<1>8. QED
  BY <1>5, <1>6, <1>7 DEF MigrationsIInv

\* The inductive invariant: every process is past whole scripts only.
THEOREM MigrationsInvariance == MigrationsSpec => []MigrationsIInv
<1> USE MigrationsAssumption
<1>1. MigrationsInit => MigrationsIInv
  BY DEF MigrationsInit, MigrationsIInv, MigrationsTypeOK, VersionIsHonest, MigratorPlaced,
         NoMigrator, Migrator, MigratorAt, Version
<1>2. ASSUME MigrationsIInv, [MigrationsNext]_migrationVars
      PROVE  MigrationsIInv'
  <2>1. ASSUME NEW p \in Process, BeginUpgrade(p)
        PROVE  MigrationsIInv'
    <3>1. userVersion \in 0 .. Latest /\ \A w \in (1 .. userVersion) \ Rebuilds : Whole(w)
      BY <1>2 DEF MigrationsIInv, MigrationsTypeOK, VersionIsHonest
    <3>2. QED
      BY <1>2, <2>1, <3>1, MovesOn DEF BeginUpgrade
  <2>2. ASSUME NEW p \in Process, RunStatement(p)
        PROVE  MigrationsIInv'
    BY <1>2, <2>2, StatementKeeps
  <2>3. ASSUME NEW p \in Process, StatementFails(p)
        PROVE  MigrationsIInv'
    BY <1>2, <2>3, StandsAside DEF StatementFails, MigrationsIInv, MigrationsTypeOK
  <2>4. ASSUME NEW p \in Process, StampVersion(p)
        PROVE  MigrationsIInv'
    <3> DEFINE v == migrator[p].version
    <3>1. v \in 0 .. Latest /\ \A w \in (1 .. v) \ Rebuilds : Whole(w)
      BY <1>2, <2>4 DEF MigrationsIInv, MigratorPlaced, StampVersion, Version
    <3>2. /\ migrator' = [migrator EXCEPT ![p] = Pending(v)]
          /\ applied' = applied /\ kills' = kills /\ userVersion' = v
      BY <2>4 DEF StampVersion
    <3> HIDE DEF v
    <3>3. QED
      BY <1>2, <3>1, <3>2, MovesOn
  <2>5. ASSUME NEW p \in Process, KillMigrator(p)
        PROVE  MigrationsIInv'
    <3>1. kills' \in 0 .. MaxKills
      BY <1>2, <2>5 DEF KillMigrator, MigrationsIInv, MigrationsTypeOK
    <3>2. QED
      BY <1>2, <2>5, <3>1, StandsAside DEF KillMigrator
  <2>6. ASSUME NEW p \in Process, StartProcess(p)
        PROVE  MigrationsIInv'
    BY <1>2, <2>6, StandsAside DEF StartProcess, MigrationsIInv, MigrationsTypeOK
  <2>7. CASE UNCHANGED migrationVars
    BY <1>2, <2>7 DEF migrationVars, MigrationsIInv, MigrationsTypeOK, VersionIsHonest,
                      MigratorPlaced, Whole
  <2>8. QED
    BY <1>2, <2>1, <2>2, <2>3, <2>4, <2>5, <2>6, <2>7 DEF MigrationsNext
<1>3. QED
  BY <1>1, <1>2, PTL DEF MigrationsSpec

\* VersionIsHonest, of apply_pending: the recorded version, and a process that goes on to use
\* the schema, promise no script that is not whole, rebuilds apart.
THEOREM VersionsAreHonest == MigrationsSpec => []VersionIsHonest
<1>1. MigrationsIInv => VersionIsHonest
  BY DEF MigrationsIInv
<1>2. QED
  BY <1>1, MigrationsInvariance, PTL

-----------------------------------------------------------------------------
(* The notices. *)

\* Since the last notice the outage has gone on, and the flag stands; what was reported and
\* not cut off is written down, or about to be.
NoticesIInv ==
  /\ NoticesTypeOK
  /\ \A i, j \in 1 .. Len(asked) : asked[i] = asked[j] => i = j
  /\ \A l \in forgotten : \E i \in 1 .. settled : asked[i] = l
  /\ ~excused => silence.warned /\ IsOutage
  /\ report.at # "idle" => sentSlot < report.slot
  /\ \A s \in reported \ cutOff : s <= sentSlot \/ (report.at = "write" /\ s = report.slot)

LEMMA AgentKeeps ==
  ASSUME NoticesIInv,
         \/ \E l \in Asked : WebhookLeaves(l) \/ AgentAnswers(l) \/ ForgetListing(l)
         \/ WaitIsOver \/ EnrichmentCheck \/ TellSilence
  PROVE  NoticesIInv'
<1> USE NoticesAssumption DEF NoticesIInv
<1>1. /\ asked \in Seq(Asked) /\ settled \in 0 .. Len(asked) /\ Len(asked) \in Nat
      /\ answered \subseteq Asked /\ forgotten \subseteq Asked
      /\ silence \in Silence /\ excused \in BOOLEAN
      /\ Streak \in Nat \ {0}
  BY DEF NoticesTypeOK
<1>2. ASSUME NEW l \in Asked, WebhookLeaves(l)
      PROVE  NoticesIInv'
  <2>1. /\ asked' = Append(asked, l) /\ settled' = settled /\ forgotten' = forgotten
        /\ answered' = answered /\ excused' = excused /\ silence' = silence
        /\ UNCHANGED weekVars /\ upsets' = upsets /\ ~Sent(l)
    BY <1>2 DEF WebhookLeaves
  <2>2. /\ asked' \in Seq(Asked) /\ Len(asked') = Len(asked) + 1
        /\ asked'[Len(asked) + 1] = l
        /\ \A i \in 1 .. Len(asked) : asked'[i] = asked[i] /\ asked'[i] # l
    BY <1>1, <2>1 DEF Sent
  <2>3. IsOutage => IsOutage'
    BY <1>1, <2>1, <2>2 DEF IsOutage, LastStreak
  <2>4. \A i, j \in 1 .. Len(asked') : asked'[i] = asked'[j] => i = j
    BY <1>1, <2>2
  <2>5. \A m \in forgotten : \E i \in 1 .. settled : asked'[i] = m
    BY <1>1, <2>2
  <2>6. NoticesTypeOK'
    BY <1>1, <2>1, <2>2 DEF NoticesTypeOK, weekVars
  <2>7. QED
    BY <2>1, <2>3, <2>4, <2>5, <2>6 DEF weekVars
<1>3. ASSUME NEW l \in Asked, AgentAnswers(l)
      PROVE  NoticesIInv'
  BY <1>1, <1>3 DEF AgentAnswers, NoticesTypeOK, weekVars
<1>4. ASSUME NEW l \in Asked, ForgetListing(l)
      PROVE  NoticesIInv'
  BY <1>1, <1>4 DEF ForgetListing, NoticesTypeOK, weekVars
<1>5. CASE WaitIsOver
  <2>1. /\ settled' = settled + 1 /\ settled < Len(asked)
        /\ excused' = (excused \/ asked[settled + 1] \in answered)
        /\ asked' = asked /\ answered' = answered /\ forgotten' = forgotten
        /\ silence' = silence /\ UNCHANGED weekVars /\ upsets' = upsets
    BY <1>5 DEF WaitIsOver
  <2>2. NoticesTypeOK'
    BY <1>1, <2>1 DEF NoticesTypeOK, weekVars
  <2>3. asked[settled + 1] \notin forgotten
    BY <1>1, <2>1
  <2>4. ASSUME IsOutage, asked[settled + 1] \notin answered
        PROVE  IsOutage'
    BY <1>1, <2>1, <2>3, <2>4 DEF IsOutage, LastStreak
  <2>5. \A l \in forgotten : \E i \in 1 .. settled + 1 : asked[i] = l
    BY <1>1
  <2>6. ~excused' => silence'.warned /\ IsOutage'
    BY <2>1, <2>4
  <2>7. QED
    BY <2>1, <2>2, <2>5, <2>6 DEF weekVars
<1>6. CASE EnrichmentCheck
  <2>1. /\ silence' = [telling |-> SpeakUp, warned |-> IsOutage]
        /\ excused' = (excused /\ ~SpeakUp)
        /\ asked' = asked /\ answered' = answered /\ forgotten' = forgotten
        /\ settled' = settled /\ UNCHANGED weekVars /\ upsets' = upsets
    BY <1>6 DEF EnrichmentCheck
  <2>2. SpeakUp \in BOOLEAN /\ IsOutage \in BOOLEAN /\ IsOutage' = IsOutage
    BY <2>1 DEF SpeakUp, IsOutage, LastStreak
  <2>3. silence' \in Silence /\ excused' \in BOOLEAN /\ silence'.warned = IsOutage
    BY <1>1, <2>1, <2>2 DEF Silence
  <2>4. ~excused' => IsOutage
    BY <2>1 DEF SpeakUp
  <2>5. NoticesTypeOK'
    BY <1>1, <2>1, <2>3 DEF NoticesTypeOK, weekVars
  <2>6. QED
    BY <2>1, <2>2, <2>3, <2>4, <2>5 DEF weekVars
<1>7. CASE TellSilence
  <2>1. silence' \in Silence /\ silence'.warned = silence.warned
    BY <1>1, <1>7 DEF TellSilence, Silence
  <2>2. IsOutage' = IsOutage
    BY <1>7 DEF TellSilence, IsOutage, LastStreak
  <2>3. QED
    BY <1>1, <1>7, <2>1, <2>2 DEF TellSilence, NoticesTypeOK, weekVars
<1>8. QED
  BY <1>2, <1>3, <1>4, <1>5, <1>6, <1>7

\* A report that ends early is either not announced yet or cut off.
LEMMA CutOffKeeps ==
  ASSUME NoticesIInv, report' = NoReport, cutOff' = cutOff \cup CutOff,
         UNCHANGED <<slot, sentSlot, reported>>
  PROVE  /\ report' \in Report /\ report'.at = "idle" /\ cutOff' \subseteq Slot
         /\ \A s \in reported' \ cutOff' : s <= sentSlot'
<1>1. NoReport \in Report /\ NoReport.at = "idle"
  BY NoticesAssumption DEF NoReport, Report
<1>2. report \in Report /\ sentSlot \in Nat /\ cutOff \subseteq Slot
  BY DEF NoticesIInv, NoticesTypeOK
<1>3. report.at = "write" => report.slot \in Slot
  BY <1>2 DEF NoticesIInv, Report, Slot
<1>4. CutOff \subseteq Slot
  BY <1>3 DEF CutOff
<1>5. report.at = "write" => report.slot \in CutOff
  BY DEF CutOff
<1>6. \A s \in reported \ (cutOff \cup CutOff) : s <= sentSlot
  BY <1>5 DEF NoticesIInv
<1>7. QED
  BY <1>1, <1>2, <1>4, <1>6

LEMMA WeekKeeps ==
  ASSUME NoticesIInv,
         \/ MondayComes \/ StartReport \/ AnnounceReport \/ WriteReportDown \/ ReportRaises
         \/ RestartChores \/ UNCHANGED noticesVars
  PROVE  NoticesIInv'
<1> USE NoticesAssumption DEF NoticesIInv
<1>1. CASE RestartChores
  <2>1. [telling |-> FALSE, warned |-> FALSE] \in Silence
    BY DEF Silence
  <2>2. /\ report' \in Report /\ report'.at = "idle" /\ cutOff' \subseteq Slot
        /\ \A s \in reported' \ cutOff' : s <= sentSlot'
    BY <1>1, CutOffKeeps DEF RestartChores
  <2>3. NoticesTypeOK'
    BY <1>1, <2>1, <2>2 DEF RestartChores, NoticesTypeOK
  <2>4. QED
    BY <1>1, <2>2, <2>3 DEF RestartChores
<1>2. CASE MondayComes \/ StartReport \/ AnnounceReport \/ WriteReportDown \/ ReportRaises
           \/ UNCHANGED noticesVars
  <2>1. UNCHANGED agentVars
    BY <1>2 DEF MondayComes, StartReport, AnnounceReport, WriteReportDown, ReportRaises,
                noticesVars, agentVars
  <2>2. IsOutage' = IsOutage
    BY <2>1 DEF agentVars, IsOutage, LastStreak
  <2>3. report \in Report /\ slot \in Slot /\ sentSlot \in 0 .. MaxSlots
        /\ reported \subseteq Slot /\ cutOff \subseteq Slot /\ upsets \in 0 .. MaxUpsets
    BY DEF NoticesTypeOK
  <2> DEFINE Week ==
        /\ report \in Report /\ slot \in Slot /\ sentSlot \in 0 .. MaxSlots
        /\ reported \subseteq Slot /\ cutOff \subseteq Slot /\ upsets \in 0 .. MaxUpsets
        /\ report.at # "idle" => sentSlot < report.slot
        /\ \A s \in reported \ cutOff :
             s <= sentSlot \/ (report.at = "write" /\ s = report.slot)
  <2>4. Week'
    <3>1. CASE MondayComes
      BY <2>3, <3>1 DEF MondayComes, Slot
    <3>2. CASE StartReport
      BY <2>3, <3>2 DEF StartReport, ReportIsDue, Report, Slot
    <3>3. CASE AnnounceReport
      <4>1. /\ report'.at = "write" /\ report'.slot = report.slot /\ report' \in Report
            /\ report.slot \in Slot /\ reported' = reported \cup {report.slot}
            /\ report.at = "announce"
            /\ slot' = slot /\ sentSlot' = sentSlot /\ cutOff' = cutOff /\ upsets' = upsets
        BY <2>3, <3>3 DEF AnnounceReport, Report, Slot
      <4>2. QED
        BY <2>3, <4>1
    <3>4. CASE WriteReportDown
      <4>1. /\ report' = NoReport /\ sentSlot' = report.slot /\ report.at = "write"
            /\ slot' = slot /\ reported' = reported /\ cutOff' = cutOff /\ upsets' = upsets
        BY <3>4 DEF WriteReportDown
      <4>2. report.slot \in 0 .. MaxSlots /\ NoReport \in Report /\ NoReport.at = "idle"
        BY <2>3 DEF Report, NoReport
      <4>3. \A s \in Slot : s \in Int
        BY DEF Slot
      <4>4. QED
        BY <2>3, <4>1, <4>2, <4>3
    <3>5. CASE ReportRaises
      <4>1. /\ report' \in Report /\ report'.at = "idle" /\ cutOff' \subseteq Slot
            /\ \A s \in reported' \ cutOff' : s <= sentSlot'
        BY <3>5, CutOffKeeps DEF ReportRaises, weekVars
      <4>2. QED
        BY <2>3, <3>5, <4>1 DEF ReportRaises
    <3>6. CASE UNCHANGED noticesVars
      BY <2>3, <3>6 DEF noticesVars
    <3>7. QED
      BY <1>2, <3>1, <3>2, <3>3, <3>4, <3>5, <3>6
  <2>5. QED
    BY <2>1, <2>2, <2>4 DEF agentVars, NoticesTypeOK
<1>3. QED
  BY <1>1, <1>2

\* The inductive invariant of both notices.
THEOREM NoticesInvariance == NoticesSpec => []NoticesIInv
<1>1. NoticesInit => NoticesIInv
  BY NoticesAssumption DEF NoticesInit, NoticesIInv, NoticesTypeOK, Silence, Slot, NoReport, Report
<1>2. NoticesIInv /\ [NoticesNext]_noticesVars => NoticesIInv'
  BY AgentKeeps, WeekKeeps DEF NoticesNext
<1>3. QED
  BY <1>1, <1>2, PTL DEF NoticesSpec

\* NothingRepeated, of EnrichmentWatch._react and WeeklyReport.tick: a second notice of an
\* outage, and a second report of a Monday, have a cause.
THEOREM NoticesHaveACause == NoticesSpec => NothingRepeated
<1>1. ASSUME NoticesIInv, [NoticesNext]_noticesVars
      PROVE  [/\ silence'.telling /\ ~silence.telling => excused
              /\ AnnounceReport => report.slot \notin reported \ cutOff]_noticesVars
  <2>1. CASE UNCHANGED noticesVars
    BY <2>1
  <2>2. ASSUME NoticesNext, silence'.telling, ~silence.telling
        PROVE  excused
    <3>1. EnrichmentCheck
      BY <1>1, <2>2 DEF NoticesNext, WebhookLeaves, AgentAnswers, ForgetListing, WaitIsOver,
         TellSilence, MondayComes, StartReport, AnnounceReport, WriteReportDown, ReportRaises,
         RestartChores, agentVars, NoticesIInv, NoticesTypeOK, Silence
    <3>2. SpeakUp
      BY <2>2, <3>1 DEF EnrichmentCheck
    <3>3. QED
      BY <1>1, <3>2 DEF SpeakUp, NoticesIInv
  <2>3. ASSUME AnnounceReport
        PROVE  report.slot \notin reported \ cutOff
    <3>1. report.at = "announce" /\ report.slot \in Int /\ sentSlot \in Int
      BY <1>1, <2>3 DEF AnnounceReport, NoticesIInv, NoticesTypeOK, Report
    <3>2. QED
      BY <1>1, <3>1 DEF NoticesIInv
  <2>4. QED
    BY <1>1, <2>1, <2>2, <2>3
<1>2. QED
  BY <1>1, NoticesInvariance, PTL DEF NothingRepeated, NoticesSpec

-----------------------------------------------------------------------------
(* The wardrobes. *)

\* Whatever was on sale all along and is not read yet stands on a page yet to be read.
WardrobeIInv ==
  /\ WardrobeTypeOK
  /\ reader.at = "idle" => steady = {}
  /\ reader.at # "idle" => reader.due # <<>> /\ steady \subseteq OnSale(Head(reader.due))
  /\ steady \cap reader.closed = {}
  /\ steady \cap reader.gone = {}
  /\ reader.at = "page" => \A l \in steady : l \in reader.seen \/ PageOf(l) >= reader.page
  /\ reader.at = "look" /\ reader.complete => steady \subseteq reader.seen

LEMMA DivMonotone ==
  ASSUME NEW a \in Nat, NEW b \in Nat, NEW p \in Nat \ {0}, a <= b
  PROVE  a \div p <= b \div p
<1> DEFINE q == a \div p
           r == b \div p
<1>1. q \in Nat /\ r \in Nat /\ q * p <= a /\ b < r * p + p
  OBVIOUS
<1>2. q * p < (r + 1) * p
  BY <1>1
<1>3. q < r + 1
  BY <1>1, <1>2
<1>4. QED
  BY <1>1, <1>3

LEMMA DivNext ==
  ASSUME NEW a \in Nat, NEW p \in Nat \ {0}
  PROVE  (a + p) \div p = a \div p + 1 /\ a \div p \in Nat
OBVIOUS

LEMMA WardrobeIsFinite ==
  ASSUME NEW s \in Seller
  PROVE  /\ IsFiniteSet(InWardrobe(s))
         /\ \A S \in SUBSET InWardrobe(s) :
              IsFiniteSet(S) /\ Cardinality(S) \in Nat
              /\ Cardinality(S) <= Cardinality(InWardrobe(s))
<1>1. InWardrobe(s) \subseteq Piece
  BY DEF InWardrobe, OfSeller
<1>2. QED
  BY <1>1, WardrobeAssumption, FS_Subset, FS_CardinalityType

\* Every listing of a wardrobe stands on one of its pages.
LEMMA PageExists ==
  ASSUME NEW s \in Seller, NEW l \in InWardrobe(s)
  PROVE  PageOf(l) \in Nat /\ PageOf(l) >= 1 /\ PageOf(l) <= TotalPages(s)
<1> DEFINE W == InWardrobe(s)
           S == {k \in W : Newness[k] > Newness[l]}
           p == PiecesPerPage
<1>1. SellerOf[l] = s /\ l \in Piece
  BY DEF InWardrobe, OfSeller
<1>2. p \in Nat \ {0} /\ Newness[l] \in Nat
  BY <1>1, WardrobeAssumption
<1>3. IsFiniteSet(W) /\ Cardinality(W) \in Nat
  BY WardrobeIsFinite
<1>4. /\ IsFiniteSet(W \ {l}) /\ Cardinality(W \ {l}) = Cardinality(W) - 1
      /\ Cardinality(W \ {l}) \in Nat
  BY <1>3, FS_RemoveElement, FS_CardinalityType
<1>5. S \subseteq W \ {l}
  BY <1>2
<1>6. Cardinality(S) \in Nat /\ Cardinality(S) <= Cardinality(W) - 1
  BY <1>4, <1>5, FS_Subset, FS_CardinalityType
<1>7. PageOf(l) = Cardinality(S) \div p + 1
  BY <1>1 DEF PageOf
<1>8. TotalPages(s) = (Cardinality(W) + p - 1) \div p
  BY DEF TotalPages
<1> DEFINE a == Cardinality(S)
           w == Cardinality(W)
<1>9. a \in Nat /\ w \in Nat /\ a + p <= w + p - 1 /\ w + p - 1 \in Nat /\ a + p \in Nat
  BY <1>2, <1>3, <1>6
<1> HIDE DEF S, W, p, a, w
<1>10. (a + p) \div p <= (w + p - 1) \div p
  BY <1>2, <1>9, DivMonotone
<1>11. (a + p) \div p = a \div p + 1 /\ a \div p \in Nat
  BY <1>2, <1>9, DivNext
<1>12. QED
  BY <1>7, <1>8, <1>10, <1>11 DEF a, w

\* A listing moves to a later page as long as nothing leaves its wardrobe.
LEMMA PageOnlyRises ==
  ASSUME NEW s \in Seller, NEW l \in InWardrobe(s), InWardrobe(s) \subseteq InWardrobe(s)'
  PROVE  PageOf(l) <= PageOf(l)'
<1> DEFINE S == {k \in InWardrobe(s) : Newness[k] > Newness[l]}
           T == {k \in InWardrobe(s)' : Newness[k] > Newness[l]}
<1>1. SellerOf[l] = s
  BY DEF InWardrobe, OfSeller
<1>2. InWardrobe(s)' \subseteq Piece
  BY DEF InWardrobe, OfSeller
<1>3. IsFiniteSet(T) /\ Cardinality(T) \in Nat
  BY <1>2, WardrobeAssumption, FS_Subset, FS_CardinalityType
<1>4. S \subseteq T
  OBVIOUS
<1>5. Cardinality(S) \in Nat /\ Cardinality(S) <= Cardinality(T)
  BY <1>3, <1>4, FS_Subset, FS_CardinalityType
<1>6. /\ PageOf(l) = Cardinality(S) \div PiecesPerPage + 1
      /\ PageOf(l)' = Cardinality(T) \div PiecesPerPage + 1
  BY <1>1 DEF PageOf
<1> HIDE DEF S, T
<1>7. Cardinality(S) \div PiecesPerPage <= Cardinality(T) \div PiecesPerPage
  BY <1>3, <1>5, DivMonotone, WardrobeAssumption
<1>8. /\ Cardinality(S) \div PiecesPerPage \in Int
      /\ Cardinality(T) \div PiecesPerPage \in Int
  BY <1>3, <1>5, WardrobeAssumption
<1>9. QED
  BY <1>6, <1>7, <1>8

LEMMA PageIsPositive ==
  ASSUME NEW l \in Piece
  PROVE  PageOf(l)' \in Nat /\ PageOf(l)' >= 1
<1> DEFINE T == {k \in InWardrobe(SellerOf[l])' : Newness[k] > Newness[l]}
<1>1. InWardrobe(SellerOf[l])' \subseteq Piece
  BY DEF InWardrobe, OfSeller
<1>2. IsFiniteSet(T) /\ Cardinality(T) \in Nat
  BY <1>1, WardrobeAssumption, FS_Subset, FS_CardinalityType
<1>3. PageOf(l)' = Cardinality(T) \div PiecesPerPage + 1
  BY DEF PageOf
<1> HIDE DEF T
<1>4. Cardinality(T) \div PiecesPerPage \in Nat
  BY <1>2, DivNext, WardrobeAssumption
<1>5. QED
  BY <1>3, <1>4

LEMMA ReadingTyped ==
  ASSUME NEW due \in Seq(Seller)
  PROVE  /\ Reading(due) \in Reader
         /\ Reading(due).at = (IF due = <<>> THEN "idle" ELSE "page")
         /\ Reading(due).due = due /\ Reading(due).page = 1 /\ Reading(due).closed = {}
         /\ Reading(due).seen = {} /\ Reading(due).gone = {}
BY WardrobeAssumption DEF Reading, Reader, ReaderAt

\* A read begins: the wardrobe of the first seller is all ahead.
LEMMA BeginsSteady ==
  ASSUME WardrobeTypeOK', NEW due \in Seq(Seller), reader' = Reading(due),
         steady' = (IF due = <<>> THEN {} ELSE OnSale(Head(due))'),
         WardrobeAssumption
  PROVE  WardrobeIInv'
<1>1. /\ reader'.at = (IF due = <<>> THEN "idle" ELSE "page") /\ reader'.due = due
      /\ reader'.page = 1 /\ reader'.closed = {} /\ reader'.gone = {}
  BY ReadingTyped
<1>2. ASSUME due # <<>>, NEW l \in steady'
      PROVE  PageOf(l)' >= 1
  <2>1. Head(due) \in Seller
    BY <1>2
  <2>2. l \in Piece
    BY <1>2 DEF OnSale, OfSeller
  <2>3. QED
    BY <2>1, <2>2, PageIsPositive
<1>3. QED
  BY <1>1, <1>2 DEF WardrobeIInv

\* The site and the rest of the program.
LEMMA OutsideKeeps ==
  ASSUME WardrobeIInv,
         \/ \E l \in Piece : \/ UploadPiece(l) \/ ClosePiece(l) \/ TakeDown(l)
                            \/ RecordPiece(l) \/ PrunePiece(l)
         \/ ClockTicks \/ UNCHANGED wardrobeVars
  PROVE  WardrobeIInv'
<1> DEFINE s == Head(reader.due)
<1>1. WardrobeTypeOK
  BY DEF WardrobeIInv
<1>2. reader' = reader
  BY DEF UploadPiece, ClosePiece, TakeDown, RecordPiece, PrunePiece, ClockTicks, wardrobeVars
<1>3. WardrobeTypeOK'
  BY <1>1, <1>2, WardrobeAssumption DEF WardrobeTypeOK, UploadPiece, ClosePiece, TakeDown,
     RecordPiece, PrunePiece, ClockTicks, wardrobeVars
<1>4. steady' \subseteq steady
  BY DEF UploadPiece, ClosePiece, TakeDown, RecordPiece, PrunePiece, ClockTicks, wardrobeVars
<1>5. ASSUME reader.at # "idle", NEW l \in steady'
      PROVE  /\ l \in InWardrobe(s) /\ l \in OnSale(s)'
             /\ InWardrobe(s) \subseteq InWardrobe(s)'
  <2>1. l \in OnSale(s) /\ offer \in [Piece -> {"ahead", "up", "closed", "away"}]
    BY <1>1, <1>4, <1>5 DEF WardrobeIInv, WardrobeTypeOK
  <2>2. CASE offer' = offer
    BY <1>2, <2>1, <2>2 DEF OnSale, InWardrobe
  <2>3. ASSUME NEW k \in Piece, UploadPiece(k)
        PROVE  l \in OnSale(s)' /\ InWardrobe(s) \subseteq InWardrobe(s)'
    BY <1>2, <2>1, <2>3 DEF UploadPiece, OnSale, InWardrobe, OfSeller
  <2>4. ASSUME NEW k \in Piece, ClosePiece(k)
        PROVE  l \in OnSale(s)' /\ InWardrobe(s) \subseteq InWardrobe(s)'
    BY <1>2, <1>5, <2>1, <2>4 DEF ClosePiece, OnSale, InWardrobe, OfSeller
  <2>5. ASSUME NEW k \in Piece, TakeDown(k)
        PROVE  l \in OnSale(s)' /\ InWardrobe(s) \subseteq InWardrobe(s)'
    <3>1. SellerOf[k] # s
      BY <1>5, <2>1, <2>5 DEF TakeDown, OnSale, OfSeller
    <3>2. QED
      BY <1>2, <2>1, <2>5, <3>1 DEF TakeDown, OnSale, InWardrobe, OfSeller
  <2>6. l \in InWardrobe(s)
    BY <2>1 DEF OnSale, InWardrobe
  <2>7. QED
    BY <2>2, <2>3, <2>4, <2>5, <2>6 DEF RecordPiece, PrunePiece, ClockTicks, wardrobeVars
<1>6. ASSUME reader.at = "page", NEW l \in steady'
      PROVE  l \in reader.seen \/ PageOf(l)' >= reader.page
  <2>1. /\ l \in reader.seen \/ PageOf(l) >= reader.page
        /\ s \in Seller /\ reader.page \in Nat /\ l \in Piece
    BY <1>1, <1>4, <1>6, WardrobeAssumption
       DEF WardrobeIInv, WardrobeTypeOK, Reader, OnSale, OfSeller
  <2>2. l \in InWardrobe(s) /\ InWardrobe(s) \subseteq InWardrobe(s)'
    BY <1>5, <1>6
  <2>3. PICK t \in Seller : t = s
    BY <2>1
  <2>4. l \in InWardrobe(t) /\ InWardrobe(t) \subseteq InWardrobe(t)'
    BY <1>2, <2>2, <2>3 DEF InWardrobe, OfSeller
  <2>5. PageOf(l) <= PageOf(l)'
    BY <2>4, PageOnlyRises
  <2>6. PageOf(l) \in Nat
    BY <2>4, PageExists
  <2>7. PageOf(l)' \in Nat
    BY <2>1, PageIsPositive
  <2> HIDE DEF s
  <2>8. QED
    BY <2>1, <2>5, <2>6, <2>7
<1>7. QED
  BY <1>2, <1>3, <1>4, <1>5, <1>6 DEF WardrobeIInv

LEMMA StartKeeps ==
  ASSUME WardrobeIInv, StartCycle
  PROVE  WardrobeIInv'
<1>1. PICK n \in 1 .. SellersPerCycle : \E due \in [1 .. n -> Seller] :
        reader' = Reading(due) /\ steady' = OnSale(Head(due))
  BY DEF StartCycle
<1>2. PICK due \in [1 .. n -> Seller] :
        reader' = Reading(due) /\ steady' = OnSale(Head(due))
  BY <1>1
<1>3. n \in Nat \ {0} /\ due \in Seq(Seller) /\ Len(due) = n /\ due # <<>>
  BY WardrobeAssumption
<1>4. UNCHANGED <<offer, rowed, unlooked, soldAt, turn, recent, troubles>>
  BY DEF StartCycle
<1>5. WardrobeTypeOK'
  <2>1. reader' \in Reader
    BY <1>2, <1>3, ReadingTyped
  <2>2. steady' \subseteq Piece
    BY <1>2 DEF OnSale, OfSeller
  <2>3. QED
    BY <1>4, <2>1, <2>2 DEF WardrobeIInv, WardrobeTypeOK
<1>6. OnSale(Head(due))' = OnSale(Head(due))
  BY <1>4 DEF OnSale
<1>7. QED
  BY <1>2, <1>3, <1>5, <1>6, BeginsSteady, WardrobeAssumption

LEMMA PageKeeps ==
  ASSUME WardrobeIInv, ReadWardrobePage
  PROVE  WardrobeIInv'
<1> DEFINE s == Head(reader.due)
           shown == {l \in InWardrobe(s) : PageOf(l) = reader.page}
<1>0. PICK counted \in SUBSET shown, named \in BOOLEAN :
        LET seen == reader.seen \cup counted
            last == ~named \/ reader.page >= TotalPages(s)
        IN  /\ reader' = [reader EXCEPT
                 !.at = IF last \/ AtCap(reader.page) THEN "look" ELSE "page",
                 !.page = IF last \/ AtCap(@) THEN @ ELSE @ + 1,
                 !.seen = seen,
                 !.closed = (@ \ counted) \cup {l \in counted : offer[l] = "closed"},
                 !.complete = last]
            /\ steady' = IF named THEN steady \ (shown \ seen) ELSE steady \cap seen
  BY DEF ReadWardrobePage
<1> DEFINE last == ~named \/ reader.page >= TotalPages(s)
           end == last \/ reader.page = PageCap
           at == IF end THEN "look" ELSE "page"
           page == IF end THEN reader.page ELSE reader.page + 1
           seen == reader.seen \cup counted
           closed == (reader.closed \ counted) \cup {l \in counted : offer[l] = "closed"}
<1>1. /\ reader.at = "page" /\ reader \in Reader /\ reader.due # <<>>
      /\ steady \subseteq OnSale(s) /\ reader.page \in 1 .. PageCap
      /\ steady \subseteq Piece
  BY DEF WardrobeIInv, WardrobeTypeOK, Reader, ReadWardrobePage
<1>2. /\ reader' = [reader EXCEPT !.at = at, !.page = page, !.seen = seen,
                                  !.closed = closed, !.complete = last]
      /\ steady' = IF named THEN steady \ (shown \ seen) ELSE steady \cap seen
      /\ UNCHANGED <<offer, rowed, unlooked, soldAt, turn, recent, troubles>>
  BY <1>0 DEF ReadWardrobePage, AtCap
<1>3. /\ reader'.at = at /\ reader'.page = page /\ reader'.seen = seen
      /\ reader'.closed = closed /\ reader'.complete = last
      /\ reader'.gone = reader.gone /\ reader'.due = reader.due
      /\ steady' \subseteq steady
  BY <1>1, <1>2 DEF Reader
<1>4. s \in Seller
  BY <1>1 DEF Reader
<1>5. /\ page \in 1 .. PageCap /\ seen \in SUBSET Piece /\ closed \in SUBSET Piece
      /\ at \in ReaderAt /\ last \in BOOLEAN
  <2>1. PageCap \in Nat \ {0} /\ shown \subseteq Piece
    BY WardrobeAssumption DEF InWardrobe, OfSeller
  <2>2. reader.seen \in SUBSET Piece /\ reader.closed \in SUBSET Piece
    BY <1>1 DEF Reader
  <2>3. page \in 1 .. PageCap
    BY <1>1, <2>1
  <2>4. last \in BOOLEAN
    OBVIOUS
  <2>5. QED
    BY <2>1, <2>2, <2>3, <2>4 DEF ReaderAt
<1>6. WardrobeTypeOK'
  <2> HIDE DEF page, seen, closed, at, last
  <2>1. reader' \in Reader
    BY <1>1, <1>2, <1>5 DEF Reader
  <2>2. QED
    BY <1>2, <2>1 DEF WardrobeIInv, WardrobeTypeOK
<1>7. OnSale(s)' = OnSale(s) /\ (\A l : PageOf(l)' = PageOf(l))
  BY <1>2 DEF OnSale, PageOf, InWardrobe
<1>8. ASSUME NEW l \in steady'
      PROVE  /\ l \notin closed
             /\ l \in seen \/ (named /\ PageOf(l) > reader.page)
             /\ PageOf(l) \in Nat /\ PageOf(l) <= TotalPages(s)
  <2>0. l \in steady
    BY <1>3
  <2>1. l \in InWardrobe(s) /\ offer[l] = "up"
    BY <1>1, <2>0 DEF OnSale, InWardrobe
  <2>2. PageOf(l) \in Nat /\ PageOf(l) <= TotalPages(s)
    BY <1>4, <2>1, PageExists
  <2>3. l \in reader.seen \/ PageOf(l) >= reader.page
    BY <1>1, <2>0 DEF WardrobeIInv
  <2>4. l \in shown => l \in seen
    BY <1>2
  <2>5. ~named => l \in seen
    BY <1>2
  <2>6. PageOf(l) = reader.page => l \in shown
    BY <2>1
  <2>7. l \notin closed
    BY <2>0, <2>1 DEF WardrobeIInv
  <2> HIDE DEF shown
  <2>8. QED
    BY <1>1, <2>2, <2>3, <2>4, <2>5, <2>6, <2>7
<1>9. TotalPages(s) \in Int
  <2>1. Cardinality(InWardrobe(s)) \in Nat
    BY <1>4, WardrobeIsFinite
  <2>2. QED
    BY <2>1, WardrobeAssumption DEF TotalPages
<1>10. at = "page" => \A l \in steady' : l \in seen \/ PageOf(l) >= page
  BY <1>1, <1>8
<1>11. last => steady' \subseteq seen
  BY <1>1, <1>8, <1>9
<1>12. steady' \cap closed = {}
  BY <1>8
<1>13. at # "idle"
  OBVIOUS
<1> HIDE DEF page, seen, closed, at, last
<1>14. QED
  BY <1>1, <1>2, <1>3, <1>6, <1>7, <1>10, <1>11, <1>12, <1>13 DEF WardrobeIInv

LEMMA HiddenKeeps ==
  ASSUME WardrobeIInv, WardrobeHidden
  PROVE  WardrobeIInv'
<1>1. reader.due \in Seq(Seller) /\ reader.at = "page" /\ reader.due # <<>>
  BY DEF WardrobeIInv, WardrobeTypeOK, Reader, WardrobeHidden
<1>2. /\ reader' = [Reading(reader.due) EXCEPT !.at = "mark"]
      /\ UNCHANGED <<offer, rowed, unlooked, soldAt, turn, recent, steady>>
      /\ troubles < MaxTroubles /\ troubles' = troubles + 1
  BY DEF WardrobeHidden
<1>3. troubles' \in 0 .. MaxTroubles
  BY <1>2, WardrobeAssumption DEF WardrobeIInv, WardrobeTypeOK
<1>4. /\ reader' \in Reader /\ reader'.at = "mark" /\ reader'.due = reader.due
      /\ reader'.closed = {} /\ reader'.gone = {}
  BY <1>1, <1>2, ReadingTyped DEF Reader, ReaderAt
<1>5. QED
  BY <1>1, <1>2, <1>4, <1>3 DEF WardrobeIInv, WardrobeTypeOK, OnSale

LEMMA CycleEndKeeps ==
  ASSUME WardrobeIInv, CycleEnds
  PROVE  WardrobeIInv'
<1>1. /\ reader' = Reading(<<>>) /\ steady' = {}
      /\ UNCHANGED <<offer, rowed, unlooked, soldAt, turn, recent>>
      /\ troubles < MaxTroubles /\ troubles' = troubles + 1
  BY DEF CycleEnds
<1>3. troubles' \in 0 .. MaxTroubles
  BY <1>1, WardrobeAssumption DEF WardrobeIInv, WardrobeTypeOK
<1>2. <<>> \in Seq(Seller)
  OBVIOUS
<1>4. WardrobeTypeOK'
  BY <1>1, <1>2, <1>3, ReadingTyped DEF WardrobeIInv, WardrobeTypeOK
<1>5. QED
  BY <1>1, <1>2, <1>4, BeginsSteady, WardrobeAssumption

\* What is about to be marked was not there all along.
LEMMA CompareKeeps ==
  ASSUME WardrobeIInv, CompareRows
  PROVE  WardrobeIInv'
<1> DEFINE gone == Missing(LiveRows(Head(reader.due)))
<1>1. reader \in Reader /\ reader.at = "look" /\ reader.due # <<>>
      /\ reader.due \in Seq(Seller)
  BY DEF WardrobeIInv, WardrobeTypeOK, Reader, CompareRows
<1>2. /\ reader' = [Reading(reader.due) EXCEPT !.at = "mark", !.gone = gone]
      /\ UNCHANGED <<offer, rowed, unlooked, soldAt, turn, recent, steady, troubles>>
  BY DEF CompareRows
<1>3. gone \subseteq Piece /\ steady \cap gone = {}
  BY <1>1 DEF Missing, LiveRows, OfSeller, WardrobeIInv
<1> HIDE DEF gone
<1>4. /\ reader' \in Reader /\ reader'.at = "mark" /\ reader'.due = reader.due
      /\ reader'.closed = {} /\ reader'.gone = gone
  BY <1>1, <1>2, <1>3, ReadingTyped DEF Reader, ReaderAt
<1>5. QED
  BY <1>1, <1>2, <1>3, <1>4 DEF WardrobeIInv, WardrobeTypeOK, OnSale

LEMMA RecordKeeps ==
  ASSUME WardrobeIInv, RecordLiveness
  PROVE  WardrobeIInv'
<1> DEFINE s == Head(reader.due)
           rest == Tail(reader.due)
<1>1. WardrobeTypeOK /\ reader.due \in Seq(Seller) /\ reader.due # <<>>
  BY DEF WardrobeIInv, WardrobeTypeOK, Reader, RecordLiveness
<1>2. s \in Seller /\ rest \in Seq(Seller)
  BY <1>1
<1>3. /\ reader' = Reading(rest)
      /\ steady' = (IF rest = <<>> THEN {} ELSE OnSale(Head(rest)))
      /\ offer' = offer /\ rowed' = rowed /\ troubles' = troubles
      /\ unlooked' = unlooked \ LiveRows(s) /\ recent' = recent \cup {s}
      /\ soldAt' = soldAt \cup (reader.gone \cap rowed)
      /\ turn' = [t \in Seller |-> IF t = s THEN 0
                                   ELSE IF turn[t] < turn[s] THEN turn[t] + 1 ELSE turn[t]]
  BY DEF RecordLiveness
<1>4. turn' \in [Seller -> Nat]
  BY <1>1, <1>2, <1>3 DEF WardrobeTypeOK
<1>5. steady' \subseteq Piece /\ reader' \in Reader
  BY <1>2, <1>3, ReadingTyped DEF OnSale, OfSeller
<1>6. WardrobeTypeOK'
  BY <1>1, <1>2, <1>3, <1>4, <1>5 DEF WardrobeTypeOK
<1>7. PICK due \in Seq(Seller) : due = rest
  BY <1>2
<1>8. reader' = Reading(due) /\ steady' = (IF due = <<>> THEN {} ELSE OnSale(Head(due)))
  BY <1>3, <1>7
<1>9. OnSale(Head(due))' = OnSale(Head(due))
  BY <1>3 DEF OnSale, OfSeller
<1>10. steady' = (IF due = <<>> THEN {} ELSE OnSale(Head(due))')
  BY <1>8, <1>9
<1>11. QED
  BY <1>6, <1>8, <1>10, BeginsSteady, WardrobeAssumption

\* Fairness has no part in it.
LEMMA WardrobeSafe == WardrobeInit /\ [][WardrobeNext]_wardrobeVars => []WardrobeIInv
<1>1. WardrobeInit => WardrobeIInv
  <2> SUFFICES ASSUME WardrobeInit
               PROVE  WardrobeIInv
    OBVIOUS
  <2>1. <<>> \in Seq(Seller)
    OBVIOUS
  <2>2. /\ reader \in Reader /\ reader.at = "idle" /\ reader.closed = {} /\ reader.gone = {}
    BY <2>1, ReadingTyped DEF WardrobeInit
  <2>3. turn \in [Seller -> Nat]
    <3>1. turn \in [Seller -> 0 .. Cardinality(Seller) - 1] /\ Cardinality(Seller) \in Nat
      BY WardrobeAssumption, FS_CardinalityType DEF WardrobeInit
    <3>2. QED
      BY <3>1
  <2>4. WardrobeTypeOK
    BY <2>2, <2>3, WardrobeAssumption DEF WardrobeInit, WardrobeTypeOK
  <2>5. QED
    BY <2>2, <2>4 DEF WardrobeInit, WardrobeIInv
<1>2. WardrobeIInv /\ [WardrobeNext]_wardrobeVars => WardrobeIInv'
  BY OutsideKeeps, StartKeeps, PageKeeps, HiddenKeeps, CycleEndKeeps, CompareKeeps, RecordKeeps
     DEF WardrobeNext, CheckerStep
<1>3. QED
  BY <1>1, <1>2, PTL

\* The inductive invariant: what stays in a wardrobe is seen by a read that ends.
THEOREM WardrobeInvariance == WardrobeSpec => []WardrobeIInv
BY WardrobeSafe, PTL DEF WardrobeSpec

\* SteadyIsKept, of check_due and seller_wardrobe: a listing on sale from the first page read to
\* the last, in a wardrobe nothing leaves, is not marked gone unless an answer of the read left it
\* out (an entry without an integer id, or no total of pages before its page).
THEOREM SteadyStays == WardrobeSpec => SteadyIsKept
<1>1. ASSUME WardrobeIInv, [WardrobeNext]_wardrobeVars
      PROVE  [(soldAt' \ soldAt) \cap steady = {}]_wardrobeVars
  <2>1. soldAt' \ soldAt \subseteq reader.gone
    BY <1>1 DEF WardrobeNext, CheckerStep, UploadPiece, ClosePiece, TakeDown, RecordPiece,
       PrunePiece, ClockTicks, StartCycle, ReadWardrobePage, WardrobeHidden, CycleEnds,
       CompareRows, RecordLiveness, wardrobeVars
  <2>2. QED
    BY <1>1, <2>1 DEF WardrobeIInv
<1>2. QED
  BY <1>1, WardrobeInvariance, PTL DEF SteadyIsKept, WardrobeSpec

-----------------------------------------------------------------------------
(* The table of searches and the supervisor. *)

LEMMA RowsApart == NoQuery \notin QueryRow /\ NoPoller \notin Poller
BY DEF NoQuery, QueryRow, NoPoller, Poller

LEMMA OwnerTyped ==
  ASSUME SearchesTypeOK, OwnerStep \/ SecondPasses
  PROVE  SearchesTypeOK'
<1>1. /\ queries \in [QueryId -> QueryRow \cup {NoQuery}] /\ second \in 0 .. MaxSecond
      /\ MaxRevision \in Nat /\ MaxSecond \in Nat
  BY SearchesAssumption DEF SearchesTypeOK
<1>2. \A id \in QueryId : Saved(id) => queries[id] \in QueryRow
  BY <1>1 DEF Saved
<1>3. ASSUME NEW id \in QueryId, NEW row \in QueryRow, Touch(id, row), UNCHANGED <<pollers, second>>
      PROVE  SearchesTypeOK'
  <2>1. [row EXCEPT !.updated = second] \in QueryRow
    BY <1>1 DEF QueryRow
  <2>2. QED
    BY <1>3, <2>1 DEF Touch, SearchesTypeOK
<1>4. ASSUME NEW row \in QueryRow, row.revision < MaxRevision
      PROVE  [row EXCEPT !.revision = @ + 1] \in QueryRow
  BY <1>1, <1>4 DEF QueryRow
<1>5. CASE SetAllIntervals
  <2>1. \A id \in QueryId : Saved(id) => queries[id].revision < MaxRevision
    BY <1>5 DEF SetAllIntervals, SavedIds
  <2>2. ASSUME NEW id \in QueryId, Saved(id)
        PROVE  [queries[id] EXCEPT !.revision = @ + 1, !.updated = second] \in QueryRow
    <3>1. queries[id] \in QueryRow /\ queries[id].revision < MaxRevision
      BY <1>2, <2>1, <2>2
    <3>2. [queries[id] EXCEPT !.revision = @ + 1] \in QueryRow
      BY <1>4, <3>1
    <3>3. [queries[id] EXCEPT !.revision = @ + 1, !.updated = second]
            = [[queries[id] EXCEPT !.revision = @ + 1] EXCEPT !.updated = second]
      BY <3>1 DEF QueryRow
    <3>4. QED
      BY <1>1, <3>2, <3>3 DEF QueryRow
  <2>3. QED
    BY <1>5, <2>2 DEF SetAllIntervals, SearchesTypeOK
<1>6. ASSUME NEW url \in Url, AddQuery(url)
      PROVE  SearchesTypeOK'
  <2>1. [url |-> url, revision |-> 0, paused |-> FALSE, updated |-> second] \in QueryRow
    BY <1>1 DEF QueryRow
  <2>2. QED
    BY <1>6, <2>1 DEF AddQuery, SearchesTypeOK
<1>7. ASSUME NEW id \in QueryId, UpdateQuery(id)
      PROVE  SearchesTypeOK'
  <2>1. queries[id] \in QueryRow /\ queries[id].revision < MaxRevision
    BY <1>2, <1>7 DEF UpdateQuery
  <2>2. QED
    BY <1>3, <1>4, <1>7, <2>1 DEF UpdateQuery
<1>8. ASSUME NEW id \in QueryId, SetPaused(id)
      PROVE  SearchesTypeOK'
  <2>1. PICK paused \in BOOLEAN : Touch(id, [queries[id] EXCEPT !.paused = paused])
    BY <1>8 DEF SetPaused
  <2>2. [queries[id] EXCEPT !.paused = paused] \in QueryRow
    <3>1. queries[id] \in QueryRow
      BY <1>2, <1>8 DEF SetPaused
    <3>2. QED
      BY <3>1 DEF QueryRow
  <2>3. QED
    BY <1>3, <1>8, <2>1, <2>2 DEF SetPaused
<1>9. ASSUME NEW id \in QueryId, DeleteQuery(id)
      PROVE  SearchesTypeOK'
  BY <1>9 DEF DeleteQuery, SearchesTypeOK
<1>10. CASE SecondPasses
  BY <1>1, <1>10 DEF SecondPasses, SearchesTypeOK
<1>11. QED
  BY <1>5, <1>6, <1>7, <1>8, <1>9, <1>10 DEF OwnerStep

LEMMA SupervisorTyped ==
  ASSUME SearchesTypeOK,
         Reconcile \/ \E id \in QueryId : BeginCheck(id) \/ EndCheck(id) \/ PollerCrashes(id)
  PROVE  SearchesTypeOK'
<1>1. pollers \in [QueryId -> Poller \cup {NoPoller}]
  BY DEF SearchesTypeOK
<1>2. CASE Reconcile
  <2>1. ASSUME NEW id \in QueryId, ActiveQuery(id)
        PROVE  [from |-> queries[id], at |-> "wait"] \in Poller
    BY <2>1 DEF ActiveQuery, Saved, SearchesTypeOK, Poller
  <2>2. QED
    BY <1>1, <1>2, <2>1 DEF Reconcile, SearchesTypeOK
<1>3. ASSUME NEW id \in QueryId, pollers[id].at \in {"wait", "check"},
             NEW at \in {"wait", "check", "dead"},
             pollers' = [pollers EXCEPT ![id].at = at], UNCHANGED <<queries, second>>
      PROVE  SearchesTypeOK'
  <2>1. pollers[id] \in Poller
    BY <1>1, <1>3 DEF NoPoller
  <2>2. [pollers[id] EXCEPT !.at = at] \in Poller
    BY <2>1 DEF Poller
  <2>3. QED
    BY <1>1, <1>3, <2>2 DEF SearchesTypeOK
<1>4. ASSUME NEW id \in QueryId, BeginCheck(id)
      PROVE  SearchesTypeOK'
  BY <1>3, <1>4 DEF BeginCheck
<1>5. ASSUME NEW id \in QueryId, EndCheck(id)
      PROVE  SearchesTypeOK'
  BY <1>3, <1>5 DEF EndCheck
<1>6. ASSUME NEW id \in QueryId, PollerCrashes(id)
      PROVE  SearchesTypeOK'
  BY <1>3, <1>6 DEF PollerCrashes
<1>7. QED
  BY <1>2, <1>4, <1>5, <1>6

LEMMA SearchesSafe == SearchesInit /\ [][SearchesNext]_searchesVars => []SearchesTypeOK
<1>1. SearchesInit => SearchesTypeOK
  BY SearchesAssumption DEF SearchesInit, SearchesTypeOK
<1>2. SearchesTypeOK /\ [SearchesNext]_searchesVars => SearchesTypeOK'
  <2>1. CASE UNCHANGED searchesVars
    BY <2>1 DEF searchesVars, SearchesTypeOK
  <2>2. QED
    BY <2>1, OwnerTyped, SupervisorTyped DEF SearchesNext
<1>3. QED
  BY <1>1, <1>2, PTL

-----------------------------------------------------------------------------
(* The watchdog. *)

LEMMA FeedsKeep ==
  ASSUME WatchdogIInv, NEW q \in Search, EndsCheck(q) \/ TimePasses(q)
  PROVE  WatchdogIInv'
<1>1. feed \in [Search -> Feed] /\ Patience \in Nat
  BY WatchdogAssumption DEF WatchdogIInv, WatchdogTypeOK
<1>2. UNCHANGED <<warned, round, told, lost, restarts>>
  BY DEF EndsCheck, TimePasses
<1>3. feed[q] \in Feed /\ Upto(feed[q].cycles) \in 0 .. Patience
  BY <1>1 DEF Feed, Upto
<1>4. ASSUME NEW f \in Feed, feed' = [feed EXCEPT ![q] = f]
      PROVE  feed' \in [Search -> Feed]
  BY <1>1, <1>4
<1>5. feed' \in [Search -> Feed]
  <2>1. CASE EndsCheck(q)
    <3>1. PICK full \in BOOLEAN :
            \/ feed' = [feed EXCEPT ![q] = [cycles |-> 0, recent |-> TRUE, full |-> full,
                                            quiet |-> FALSE]]
            \/ feed' = [feed EXCEPT ![q].cycles = Upto(@), ![q].recent = TRUE, ![q].full = full]
            \/ /\ ~full
               /\ feed' = [feed EXCEPT ![q] = [cycles |-> 0, recent |-> TRUE, full |-> FALSE,
                                               quiet |-> TRUE]]
      BY <2>1 DEF EndsCheck
    <3>2. /\ [cycles |-> 0, recent |-> TRUE, full |-> full, quiet |-> FALSE] \in Feed
          /\ [cycles |-> 0, recent |-> TRUE, full |-> FALSE, quiet |-> TRUE] \in Feed
      BY <1>1 DEF Feed
    <3>3. [feed[q] EXCEPT !.cycles = Upto(@), !.recent = TRUE, !.full = full] \in Feed
      BY <1>3 DEF Feed
    <3>4. [feed EXCEPT ![q].cycles = Upto(@), ![q].recent = TRUE, ![q].full = full]
            = [feed EXCEPT ![q] = [feed[q] EXCEPT !.cycles = Upto(@), !.recent = TRUE,
                                                  !.full = full]]
      BY <1>1 DEF Feed
    <3>5. QED
      BY <1>4, <3>1, <3>2, <3>3, <3>4
  <2>2. CASE TimePasses(q)
    <3>1. /\ [feed[q] EXCEPT !.recent = FALSE] \in Feed
          /\ [feed[q] EXCEPT !.quiet = ~@] \in Feed
      BY <1>3 DEF Feed
    <3>2. QED
      BY <1>4, <2>2, <3>1 DEF TimePasses
  <2>3. QED
    BY <2>1, <2>2
<1>6. QED
  BY <1>2, <1>5 DEF WatchdogIInv, WatchdogTypeOK

\* A warning is taken back only when the stretch is over.
LEMMA PassKeeps ==
  ASSUME WatchdogIInv, FindStale
  PROVE  WatchdogIInv'
<1>1. ASSUME NEW q \in told \cup lost, StillFrozen(q)
      PROVE  ~Eased(q)
  <2>1. feed[q] \in Feed /\ Patience \in Nat
    BY WatchdogAssumption DEF WatchdogIInv, WatchdogTypeOK
  <2>2. QED
    BY <1>1, <2>1 DEF StillFrozen, Eased, Feed
<1>2. WatchdogTypeOK'
  BY DEF FindStale, WatchdogIInv, WatchdogTypeOK, Round
<1>3. told' \cup lost' \subseteq warned'
  BY <1>1 DEF FindStale, WatchdogIInv
<1>4. round'.on = {}
  BY DEF FindStale
<1>5. QED
  BY <1>2, <1>3, <1>4 DEF WatchdogIInv

LEMMA RoundKeeps ==
  ASSUME WatchdogIInv, NEW q \in Search,
         React(q) \/ TellStale(q) \/ RoundRaises(q)
  PROVE  WatchdogIInv'
<1>1. CASE React(q)
  BY <1>1 DEF React, WatchdogIInv, WatchdogTypeOK, Round
<1>2. CASE TellStale(q)
  BY <1>2 DEF TellStale, WatchdogIInv, WatchdogTypeOK, Round
<1>3. CASE RoundRaises(q)
  BY <1>3 DEF RoundRaises, NoRound, WatchdogIInv, WatchdogTypeOK, Round
<1>4. QED
  BY <1>1, <1>2, <1>3

LEMMA WatchdogStepKeeps ==
  ASSUME WatchdogIInv, [WatchdogNext]_watchdogVars
  PROVE  WatchdogIInv'
<1>1. CASE RestartWatchdog
  BY <1>1, WatchdogAssumption
     DEF RestartWatchdog, NoRound, WatchdogIInv, WatchdogTypeOK, Round
<1>2. CASE UNCHANGED watchdogVars
  BY <1>2 DEF watchdogVars, WatchdogIInv, WatchdogTypeOK
<1>3. CASE EndRound
  BY <1>3 DEF EndRound, NoRound, WatchdogIInv, WatchdogTypeOK, Round
<1>4. CASE RotateSession
  BY <1>4 DEF RotateSession, WatchdogIInv, WatchdogTypeOK, Round
<1>5. QED
  BY <1>1, <1>2, <1>3, <1>4, FeedsKeep, PassKeeps, RoundKeeps DEF WatchdogNext, WatchdogStep

\* The inductive invariant: the flag stands as long as the stretch it was told of.
LEMMA WatchdogSafe == WatchdogInit /\ [][WatchdogNext]_watchdogVars => []WatchdogIInv
<1>1. WatchdogInit => WatchdogIInv
  BY WatchdogAssumption DEF WatchdogInit, NoRound, WatchdogIInv, WatchdogTypeOK, Round, Feed
<1>2. WatchdogIInv /\ [WatchdogNext]_watchdogVars => WatchdogIInv'
  BY WatchdogStepKeeps
<1>3. QED
  BY <1>1, <1>2, PTL

\* The inductive invariant of the watchdog.
THEOREM WatchdogInvariance == WatchdogSpec => []WatchdogIInv
BY WatchdogSafe, PTL DEF WatchdogSpec

\* WarnedOnce, of Watchdog._react and check: one stretch of silence is announced once.
THEOREM WarnsOnce == WatchdogSpec => WarnedOnce
<1>1. ASSUME WatchdogIInv
      PROVE  [\A q \in Search : TellStale(q) => q \notin told \cup lost]_watchdogVars
  BY <1>1 DEF WatchdogIInv, TellStale
<1>2. QED
  BY <1>1, WatchdogInvariance, PTL DEF WarnedOnce

-----------------------------------------------------------------------------
(* The chores beside each other. *)

\* A component moves as its own specification says, or not at all.
LEMMA PartsMove ==
  ASSUME [Next]_choresVars
  PROVE  /\ [SearchesNext]_searchesVars /\ [WardrobeNext]_wardrobeVars
         /\ [WatchdogNext]_watchdogVars /\ [NoticesNext]_noticesVars
         /\ [PacingNext]_pacingVars /\ [MigrationsNext]_migrationVars
<1>1. CASE UNCHANGED choresVars
  BY <1>1 DEF choresVars
<1>2. CASE Next
  BY <1>2 DEF Next, Rest
<1>3. QED
  BY <1>1, <1>2

\* What one run checks of the chores is a behaviour of each: what is proved of a component
\* holds there.
THEOREM PartsAreComponents ==
  ChoresSpec => /\ SearchesInit /\ [][SearchesNext]_searchesVars
                /\ WardrobeInit /\ [][WardrobeNext]_wardrobeVars
                /\ WatchdogInit /\ [][WatchdogNext]_watchdogVars
                /\ NoticesSpec /\ PacingSpec /\ MigrationsSpec
<1>1. Init => /\ SearchesInit /\ WardrobeInit /\ WatchdogInit
              /\ NoticesInit /\ PacingInit /\ MigrationsInit
  BY DEF Init
<1>2. QED
  BY <1>1, PartsMove, PTL DEF ChoresSpec, NoticesSpec, PacingSpec, MigrationsSpec

\* ChoresTypeOK, of all six.
THEOREM ChoresTypes == ChoresSpec => []ChoresTypeOK
<1>1. /\ WardrobeIInv => WardrobeTypeOK
      /\ WatchdogIInv => WatchdogTypeOK
      /\ NoticesIInv => NoticesTypeOK
      /\ PacingIInv => PacingTypeOK
      /\ MigrationsIInv => MigrationsTypeOK
  BY DEF WardrobeIInv, WatchdogIInv, NoticesIInv, PacingIInv, MigrationsIInv
<1>2. QED
  BY <1>1, PartsAreComponents, SearchesSafe, WardrobeSafe, WatchdogSafe, NoticesInvariance,
     PacingInvariance, MigrationsInvariance, PTL DEF ChoresTypeOK
=============================================================================
