------------------------------ MODULE Migrate ------------------------------
(***************************************************************************)
(* Starting up on a shared database file: app.Open, database.Migrate call  *)
(* by call, and the readiness check behind the health endpoint.  Several   *)
(* processes, whose binaries embed more or fewer migrations or another     *)
(* text of the same one, start, fail, die and start again on one file.     *)
(*                                                                         *)
(* A migration's text is its checksum; what it does is to create tables    *)
(* that must not exist yet (0001_foundation.sql, 0002_metadata.sql), one   *)
(* table per version here.                                                 *)
(***************************************************************************)
EXTENDS Integers, Sequences, FiniteSets

CONSTANTS
  Proc, Nobody,
  Text,   \* the texts (checksums) a migration may have
  Known   \* per process: the migrations its binary embeds, version 1 first

ASSUME ProcAssumption == Nobody \notin Proc
ASSUME KnownAssumption ==
  \A p \in Proc : Known[p] \in Seq(Text) /\ Known[p] # << >>

VARIABLES
  file,     \* committed: is there a version table, the versions recorded in it
            \* with their texts, the tables made
  writer,   \* who holds SQLite's write lock
  backups,  \* the complete snapshots: by whom, of which recorded versions
  pc,       \* where each process is in app.Open
  pending,  \* the versions each process found unrecorded and has yet to apply
  tx,       \* the file as the open transaction of each process sees it
  expected  \* Store.expected of each process

vars == <<file, writer, backups, pc, pending, tx, expected>>

SH == INSTANCE SchemaHistory WITH
        applied <- file.applied, up <- {p \in Proc : pc[p] = "ready"}, saved <- backups

Highest(p) == Len(Known[p])
Version == UNION {DOMAIN Known[p] : p \in Proc}
Recorded == UNION {[V -> Text] : V \in SUBSET Version}
File == [versionTable : BOOLEAN, applied : Recorded, tables : SUBSET Version]
NoFile == [versionTable |-> FALSE, applied |-> << >>, tables |-> {}]
Migrating == {"table", "read", "inspect", "backup", "begin", "exec", "record", "commit"}

(* Transactions are open exactly where Migrate has one. *)
TypeOK ==
  /\ file \in File
  /\ backups \subseteq [by : Proc, applied : Recorded]
  /\ pc \in [Proc -> Migrating \cup {"off", "ready"}]
  /\ pending \in [Proc -> SUBSET Version]
  /\ tx \in [Proc -> File]
  /\ expected \in [Proc -> Version \cup {0}]
  /\ \A p \in Proc : pc[p] \in {"exec", "record", "commit"} <=> writer = p
  /\ writer \in Proc \cup {Nobody}

Init ==
  /\ file = NoFile
  /\ writer = Nobody
  /\ backups = {}
  /\ pc = [p \in Proc |-> "off"]
  /\ pending = [p \in Proc |-> {}]
  /\ tx = [p \in Proc |-> NoFile]
  /\ expected = [p \in Proc |-> 0]

-----------------------------------------------------------------------------
Goto(p, l) == pc' = [pc EXCEPT ![p] = l]

(* Migrate returns an error, app.Open closes the store and the program     *)
(* exits; a transaction that was open is rolled back.                      *)
GiveUp(p) ==
  /\ Goto(p, "off")
  /\ writer' = IF writer = p THEN Nobody ELSE writer
  /\ tx' = [tx EXCEPT ![p] = NoFile]
  /\ pending' = [pending EXCEPT ![p] = {}]
  /\ expected' = [expected EXCEPT ![p] = 0]

Start(p) ==
  /\ pc[p] = "off"
  /\ Goto(p, "table")
  /\ UNCHANGED <<file, writer, backups, pending, tx, expected>>

(* CREATE TABLE IF NOT EXISTS; while there is none, nobody migrates yet.   *)
EnsureVersionTable(p) ==
  /\ pc[p] = "table"
  /\ file' = [file EXCEPT !.versionTable = TRUE]
  /\ Goto(p, "read")
  /\ UNCHANGED <<writer, backups, pending, tx, expected>>

SetExpected(p) == expected' = [expected EXCEPT ![p] = Highest(p)]

(* Mutant: the recorded checksums are not compared. *)
RefusedNewer(p, applied) == \E v \in DOMAIN applied : v \notin DOMAIN Known[p]

(* A version this binary does not know, or whose text is another. *)
Refused(p, applied) ==
  \E v \in DOMAIN applied : v \notin DOMAIN Known[p] \/ Known[p][v] # applied[v]

(* appliedVersions; nothing pending is a start. *)
ReadApplied(p) ==
  LET applied == file.applied IN
  /\ pc[p] = "read"
  /\ IF Refused(p, applied) THEN GiveUp(p)
     ELSE /\ pending' = [pending EXCEPT ![p] = DOMAIN Known[p] \ DOMAIN applied]
          /\ IF pending'[p] = {}
             THEN SetExpected(p) /\ Goto(p, "ready")
             ELSE Goto(p, "inspect") /\ UNCHANGED expected
          /\ UNCHANGED <<writer, tx>>
  /\ UNCHANGED <<file, backups>>

(* nonEmptyDB: are there tables besides the version table? *)
Inspect(p) ==
  /\ pc[p] = "inspect"
  /\ Goto(p, IF file.tables = {} THEN "begin" ELSE "backup")
  /\ UNCHANGED <<file, writer, backups, pending, tx, expected>>

(* Mutant: a failed backup does not stop the migration. *)
BackupBestEffort(p) ==
  /\ pc[p] = "backup"
  /\ backups' \in {backups, backups \cup {[by |-> p, applied |-> file.applied]}}
  /\ Goto(p, "begin")
  /\ UNCHANGED <<file, writer, pending, tx, expected>>

(* VACUUM INTO a file of its own, outside any transaction. *)
Backup(p) ==
  /\ pc[p] = "backup"
  /\ backups' = backups \cup {[by |-> p, applied |-> file.applied]}
  /\ Goto(p, "begin")
  /\ UNCHANGED <<file, writer, pending, tx, expected>>

(* BEGIN IMMEDIATE takes the write lock. *)
Begin(p) ==
  /\ pc[p] = "begin" /\ writer = Nobody
  /\ writer' = p
  /\ tx' = [tx EXCEPT ![p] = file]
  /\ Goto(p, "exec")
  /\ UNCHANGED <<file, backups, pending, expected>>

(* Mutant: waiting for the lock has no limit. *)
WaitForever(p) ==
  /\ pc[p] = "begin" /\ writer # Nobody
  /\ UNCHANGED vars

(* busy_timeout has passed. *)
Busy(p) ==
  /\ pc[p] = "begin" /\ writer # Nobody
  /\ GiveUp(p)
  /\ UNCHANGED <<file, backups>>

NextPending(p) == CHOOSE v \in pending[p] : \A u \in pending[p] : v <= u

(* Mutant: the statement is executed outside the transaction. *)
ExecAutocommit(p) ==
  LET v == NextPending(p) IN
  /\ pc[p] = "exec"
  /\ IF v \in tx[p].tables
     THEN GiveUp(p) /\ UNCHANGED file
     ELSE /\ tx' = [tx EXCEPT ![p].tables = @ \cup {v}]
          /\ file' = [file EXCEPT !.tables = @ \cup {v}]
          /\ Goto(p, "record")
          /\ UNCHANGED <<writer, pending, expected>>
  /\ UNCHANGED backups

(* The migration's text: its tables must not exist. *)
Exec(p) ==
  LET v == NextPending(p) IN
  /\ pc[p] = "exec"
  /\ IF v \in tx[p].tables
     THEN GiveUp(p)
     ELSE /\ tx' = [tx EXCEPT ![p].tables = @ \cup {v}]
          /\ Goto(p, "record")
          /\ UNCHANGED <<writer, pending, expected>>
  /\ UNCHANGED <<file, backups>>

(* INSERT INTO schema_migrations: the version is the primary key. *)
Record(p) ==
  LET v == NextPending(p) IN
  /\ pc[p] = "record"
  /\ IF v \in DOMAIN tx[p].applied
     THEN GiveUp(p)
     ELSE /\ tx' = [tx EXCEPT ![p].applied =
                      [u \in DOMAIN @ \cup {v} |-> IF u = v THEN Known[p][v] ELSE @[u]]]
          /\ pending' = [pending EXCEPT ![p] = @ \ {v}]
          /\ Goto(p, IF pending'[p] = {} THEN "commit" ELSE "exec")
          /\ UNCHANGED <<writer, expected>>
  /\ UNCHANGED <<file, backups>>

Commit(p) ==
  /\ pc[p] = "commit"
  /\ file' = tx[p]
  /\ writer' = Nobody
  /\ tx' = [tx EXCEPT ![p] = NoFile]
  /\ SetExpected(p)
  /\ Goto(p, "ready")
  /\ UNCHANGED <<backups, pending>>

(* A call fails, the context is cancelled, or the process dies: whether by *)
(* Migrate or by SQLite's recovery, the transaction is rolled back.        *)
Fail(p) ==
  /\ pc[p] \in Migrating
  /\ GiveUp(p)
  /\ UNCHANGED <<file, backups>>

(* App.Close at the end of runServe, or the death of the process. *)
Stop(p) ==
  /\ pc[p] = "ready"
  /\ GiveUp(p)
  /\ UNCHANGED <<file, backups>>

Step(p) ==
  \/ EnsureVersionTable(p) \/ ReadApplied(p) \/ Inspect(p) \/ Backup(p)
  \/ Begin(p) \/ Busy(p) \/ Exec(p) \/ Record(p) \/ Commit(p)

Next == \E p \in Proc : Start(p) \/ Step(p) \/ Fail(p) \/ Stop(p)

(* A start that is under way goes on; nobody need ever start or stop. *)
Spec == Init /\ [][Next]_vars /\ \A p \in Proc : WF_vars(Step(p))

-----------------------------------------------------------------------------
(* Mutant: any schema at least as new will do. *)
ReadyAtLeast(p) == \E v \in DOMAIN file.applied : v >= expected[p]

(* Readiness: MAX(version) is what Migrate brought the file to. *)
Readiness(p) ==
  \E v \in DOMAIN file.applied :
    v = expected[p] /\ \A u \in DOMAIN file.applied : u <= v

(* The health endpoint answers 200. *)
Healthy(p) == pc[p] = "ready" /\ Readiness(p)

(* All pending migrations or none: whatever fails or dies, and whoever     *)
(* else is starting, the tables in the file are those of the recorded      *)
(* versions, which are consecutive from 1.                                 *)
SchemaWhole ==
  /\ file.tables = DOMAIN file.applied
  /\ \A v \in DOMAIN file.applied : \A u \in 1..v : u \in DOMAIN file.applied

(* A nonempty schema is only ever replaced by a process that has taken a   *)
(* snapshot of that very schema, although whether a backup is needed was   *)
(* decided, and the backup taken, before the transaction.                  *)
BackedUp ==
  [][file'.applied # file.applied /\ file.tables # {} =>
       \E b \in backups : b.by = writer /\ b.applied = file.applied]_vars

(* What a process was started on holds its migrations with its own texts,  *)
(* and goes on holding them while other processes migrate further.         *)
ReadyIsMigrated ==
  \A p \in Proc : pc[p] = "ready" =>
    \A v \in DOMAIN Known[p] : v \in DOMAIN file.applied /\ file.applied[v] = Known[p][v]

(* A healthy answer is never given on a schema that another binary has     *)
(* changed since: the file holds exactly what this binary knows.           *)
HealthyMeansCurrent == \A p \in Proc : Healthy(p) => file.applied = Known[p]

(* Starts are atomic, although each reads, saves and writes in steps and   *)
(* others do so at the same time: a process is ready on the file brought   *)
(* from migrations it continues to exactly its own, or has changed nothing.*)
Implements == SH!Spec

(* At most so many calls has a start still to make. *)
CallsLeft(p) ==
  LET n == Cardinality(pending[p]) IN
  CASE pc[p] = "table"   -> 2 * Highest(p) + 6
    [] pc[p] = "read"    -> 2 * Highest(p) + 5
    [] pc[p] = "inspect" -> 2 * n + 4
    [] pc[p] = "backup"  -> 2 * n + 3
    [] pc[p] = "begin"   -> 2 * n + 2
    [] pc[p] = "exec"    -> 2 * n + 1
    [] pc[p] = "record"  -> 2 * n
    [] pc[p] = "commit"  -> 1
    [] OTHER             -> 0

(* Whatever other processes do to the file meanwhile, no start goes back:  *)
(* each of its calls brings its end nearer, by two for each migration.     *)
EveryStepCounts ==
  [][\A p \in Proc : pc[p] \in Migrating =>
       \/ CallsLeft(p)' \in 0..CallsLeft(p) - 1
       \/ UNCHANGED <<pc[p], pending[p]>>]_vars

(* Every start comes to an end, ready or refused, even among others that   *)
(* keep taking the write lock.                                             *)
StartSettles == \A p \in Proc : pc[p] = "table" ~> pc[p] \in {"ready", "off"}
=============================================================================
