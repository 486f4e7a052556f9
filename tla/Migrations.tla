------------------------------ MODULE Migrations ------------------------------
(***************************************************************************)
(* Bringing the schema up to date (db/migrations.py).  The app and every   *)
(* command of the command line do it before anything else, so two          *)
(* processes can be at it; SQLite's user_version says how far the schema   *)
(* is.  executescript commits first and then runs a script statement by    *)
(* statement, each one durable at once: the transaction opened around it   *)
(* covers none of them.                                                    *)
(***************************************************************************)
EXTENDS Naturals, FiniteSets

CONSTANTS
  Process,
  Latest,         \* number of scripts: discover() refuses gaps and duplicates
  Statements,     \* statements of each script
  Rebuilds,       \* scripts that copy a table, drop it and rename the copy (0006, 0008)
  MaxKills        \* bound: processes that die

ASSUME MigrationsAssumption ==
  /\ Latest \in Nat
  /\ Statements \in [1 .. Latest -> Nat \ {0}]
  /\ Rebuilds \subseteq 1 .. Latest
  /\ MaxKills \in Nat

VARIABLES
  userVersion,    \* PRAGMA user_version
  applied,        \* statements of each script that took effect
  migrator,       \* apply_pending of each process: where it is, in which script and where
  kills

migrationVars == <<userVersion, applied, migrator, kills>>

Version == 1 .. Latest

\* "ready": apply_pending returned and the process goes on to use the schema.
MigratorAt == {"off", "script", "stamp", "ready", "failed"}
Migrator == [at : MigratorAt, version : 0 .. Latest + 1, next : Nat]
NoMigrator(at) == [at |-> at, version |-> 0, next |-> 0]

MigrationsTypeOK ==
  /\ userVersion \in 0 .. Latest
  /\ applied \in [Version -> Nat]
  /\ migrator \in [Process -> Migrator]
  /\ kills \in 0 .. MaxKills

MigrationsInit ==
  /\ userVersion = 0
  /\ applied = [v \in Version |-> 0]
  /\ migrator = [p \in Process |-> NoMigrator("off")]
  /\ kills = 0

-----------------------------------------------------------------------------

\* The next script, or none left.
Pending(v) ==
  IF v >= Latest THEN NoMigrator("ready") ELSE [at |-> "script", version |-> v + 1, next |-> 1]

\* Connect and read the version: what is pending is decided here, once.
BeginUpgrade(p) ==
  /\ migrator[p].at = "off"
  /\ migrator' = [migrator EXCEPT ![p] = Pending(userVersion)]
  /\ UNCHANGED <<userVersion, applied, kills>>

Whole(v) == applied[v] = Statements[v]

\* CREATE and ADD COLUMN refuse to run a second time; a rebuild leaves nothing behind its
\* RENAME that would refuse its CREATE.
CanRun(v, n) == applied[v] = n - 1 \/ (v \in Rebuilds /\ n = 1 /\ Whole(v))

\* Mutant: a script counts as run before its last statement.
AfterAllButOne(v, n) == IF n + 1 >= Statements[v] THEN "stamp" ELSE "script"

AfterStatement(v, n) == IF n = Statements[v] THEN "stamp" ELSE "script"

RunStatement(p) ==
  LET v == migrator[p].version
      n == migrator[p].next
  IN  /\ migrator[p].at = "script" /\ CanRun(v, n)
      /\ applied' = [applied EXCEPT ![v] = n]
      /\ migrator' = [migrator EXCEPT ![p].next = n + 1, ![p].at = AfterStatement(v, n)]
      /\ UNCHANGED <<userVersion, kills>>

\* The exception leaves apply_pending and ends the process; the rollback finds nothing to
\* take back.
StatementFails(p) ==
  /\ migrator[p].at = "script" /\ ~CanRun(migrator[p].version, migrator[p].next)
  /\ migrator' = [migrator EXCEPT ![p] = NoMigrator("failed")]
  /\ UNCHANGED <<userVersion, applied, kills>>

\* PRAGMA user_version, after the script.
StampVersion(p) ==
  /\ migrator[p].at = "stamp"
  /\ userVersion' = migrator[p].version
  /\ migrator' = [migrator EXCEPT ![p] = Pending(@.version)]
  /\ UNCHANGED <<applied, kills>>

\* A full disk or a kill, anywhere before the process is ready; it is started again.
KillMigrator(p) ==
  /\ migrator[p].at \in {"script", "stamp"} /\ kills < MaxKills
  /\ migrator' = [migrator EXCEPT ![p] = NoMigrator("off")]
  /\ kills' = kills + 1
  /\ UNCHANGED <<userVersion, applied>>

\* Somebody starts a process that failed, or that was done, again.
StartProcess(p) ==
  /\ migrator[p].at \in {"ready", "failed"}
  /\ migrator' = [migrator EXCEPT ![p] = NoMigrator("off")]
  /\ UNCHANGED <<userVersion, applied, kills>>

MigrationsNext ==
  \E p \in Process : \/ BeginUpgrade(p) \/ RunStatement(p) \/ StatementFails(p)
                     \/ StampVersion(p) \/ KillMigrator(p) \/ StartProcess(p)

MigrationsSpec == MigrationsInit /\ [][MigrationsNext]_migrationVars

-----------------------------------------------------------------------------
(* Properties. *)

\* The recorded version is never ahead of what took effect, and no process goes on to use a
\* schema that lacks a table or a column, however many upgrade at once and wherever they
\* die (apply_pending).  A rebuild is left out: a second process may begin it anew.
VersionIsHonest ==
  /\ \A v \in (1 .. userVersion) \ Rebuilds : Whole(v)
  /\ \A p \in Process : migrator[p].at = "ready" => \A v \in Version \ Rebuilds : Whole(v)

\* "A failure leaves the database at the last version that fully applied": with nobody at
\* work, no script past the recorded version left anything behind.
LastWholeVersion ==
  (\A p \in Process : migrator[p].at \in {"off", "ready", "failed"})
    => \A v \in Version : v > userVersion => applied[v] = 0
=============================================================================
