-------------------------------- MODULE Jobs --------------------------------
(***************************************************************************)
(* The job records (internal/database/repositories.go): workers of one or  *)
(* more processes insert jobs and report milestones with UpdateJob, which  *)
(* compares the stored state, and nothing else that moves, with the one    *)
(* the worker expects.  No worker is written yet; a worker here is any     *)
(* caller of GetJob, InsertJob and UpdateJob in transactions of WithTx.    *)
(***************************************************************************)
EXTENDS Integers

CONSTANTS
  JobId, Worker,
  Nobody,        \* no worker
  NoJob,         \* a worker holds no job record
  NoEntry,       \* the job of no entry: entry_id is NULL
  Vault, Entry,  \* what is stored when the workers run
  EntryVault,    \* the vault of each entry
  Identity,      \* bound: the identities that workers give to jobs
  Progress,      \* bound: the progress that workers report
  JobState,      \* bound: the states that workers name
  ReadInside     \* the jobs that workers read in the transaction that updates them

ASSUME WorkerAssumption == Nobody \notin Worker
ASSUME EntryAssumption == EntryVault \in [Entry -> Vault]
ASSUME ProgressAssumption == Progress \subseteq [total : Int, completed : Int]
ASSUME JobAssumption ==
  NoJob \notin [id : JobId, identity : Identity, state : JobState,
                bytes : [total : Int, completed : Int], items : [total : Int, completed : Int]]

VARIABLES
  rows,    \* the committed jobs table
  writer,  \* who holds SQLite's write lock
  pc,      \* where each worker is
  tx,      \* the table as each open transaction sees it
  job      \* the domain.Job each worker holds

vars == <<rows, writer, pc, tx, job>>

States == {"queued", "running", "paused", "interrupted", "completed", "failed",
           "cancelled", "source_changed", "remote_state_unknown"}
ASSUME StateAssumption == JobState \subseteq States

Terminal == {"completed", "cancelled"}

(* The columns that the code compares or checks; identity is type, vault   *)
(* and entry.  Error and timestamps are written unseen, with the progress. *)
AnyProgress == [total : Int, completed : Int]
Job == [id : JobId, identity : Identity, state : JobState,
        bytes : AnyProgress, items : AnyProgress]

Valid(p) == 0 <= p.completed /\ p.completed <= p.total
ValidProgress(j) == Valid(j.bytes) /\ Valid(j.items)

IsTable(T) == DOMAIN T \subseteq JobId /\ \A i \in DOMAIN T : T[i] \in Job /\ T[i].id = i

(* Every stored job has its own key, a state of its type and a progress    *)
(* that the CHECKs of the jobs table allow.                                *)
TypeOK ==
  /\ IsTable(rows)
  /\ \A i \in DOMAIN rows : Valid(rows[i].bytes) /\ Valid(rows[i].items)
  /\ writer \in Worker \cup {Nobody}
  /\ pc \in [Worker -> {"idle", "inside", "written"}]
  /\ \A w \in Worker : IsTable(tx[w])
  /\ job \in [Worker -> Job \cup {NoJob}]

Init ==
  /\ rows = << >>
  /\ writer = Nobody
  /\ pc = [w \in Worker |-> "idle"]
  /\ tx = [w \in Worker |-> << >>]
  /\ job = [w \in Worker |-> NoJob]

-----------------------------------------------------------------------------
(* The repository calls as pure functions of the table they see. *)

InsertCode(T, j) ==
  IF \/ j.identity.vault \notin Vault
     \/ j.identity.entry \notin Entry \cup {NoEntry}
  THEN "NOT_FOUND"
  ELSE IF j.identity.entry # NoEntry /\ EntryVault[j.identity.entry] # j.identity.vault
  THEN "INVALID_PARENT"
  ELSE IF ~ValidProgress(j) THEN "INVALID_STATE"
  ELSE IF j.id \in DOMAIN T THEN "FILE_CONFLICT"
  ELSE "OK"

(* Mutant: a terminal job is a job like any other. *)
NeverFrozen(cur) == FALSE
Frozen(cur) == cur.state \in Terminal

UpdateCode(T, j, expected) ==
  IF j.id \notin DOMAIN T THEN "NOT_FOUND"
  ELSE IF \/ Frozen(T[j.id])
          \/ T[j.id].state # expected
          \/ T[j.id].identity # j.identity
          \/ ~ValidProgress(j)
          \/ T[j.id].state # j.state
  THEN "INVALID_STATE"
  ELSE "OK"

(* Mutant: the statement leaves the item counts as they are. *)
RewriteBytes(cur, j) == [cur EXCEPT !.bytes = j.bytes]
Rewrite(cur, j) == [cur EXCEPT !.bytes = j.bytes, !.items = j.items]

-----------------------------------------------------------------------------
(* Store.GetJob, outside any transaction. *)
GetJob(w, i) ==
  /\ pc[w] = "idle"
  /\ i \in DOMAIN rows \ ReadInside
  /\ job' = [job EXCEPT ![w] = rows[i]]
  /\ UNCHANGED <<rows, writer, pc, tx>>

(* Mutant: nobody waits for SQLite's write lock. *)
NoWriteLock == TRUE
WriteLockFree == writer = Nobody

Begin(w) ==
  /\ pc[w] = "idle"
  /\ WriteLockFree
  /\ writer' = w
  /\ pc' = [pc EXCEPT ![w] = "inside"]
  /\ tx' = [tx EXCEPT ![w] = rows]
  /\ UNCHANGED <<rows, job>>

(* Tx.GetJob. *)
TxGetJob(w, i) ==
  /\ pc[w] = "inside"
  /\ i \in DOMAIN tx[w]
  /\ job' = [job EXCEPT ![w] = tx[w][i]]
  /\ UNCHANGED <<rows, writer, pc, tx>>

(* WithTx returns, and the worker forgets the record. *)
Leave(w) ==
  /\ writer' = IF writer = w THEN Nobody ELSE writer
  /\ pc' = [pc EXCEPT ![w] = "idle"]
  /\ tx' = [tx EXCEPT ![w] = << >>]
  /\ job' = [job EXCEPT ![w] = NoJob]

Rollback(w) == Leave(w) /\ UNCHANGED rows

(* The callback of WithTx makes its one write, or returns the error. *)
Write(w, code, j, T) ==
  IF code # "OK" THEN Rollback(w)
  ELSE /\ pc' = [pc EXCEPT ![w] = "written"]
       /\ tx' = [tx EXCEPT ![w] = T]
       /\ job' = [job EXCEPT ![w] = j]
       /\ UNCHANGED <<rows, writer>>

InsertJob(w, j) ==
  /\ pc[w] = "inside"
  /\ Write(w, InsertCode(tx[w], j), j,
           [i \in DOMAIN tx[w] \cup {j.id} |-> IF i = j.id THEN j ELSE tx[w][i]])

UpdateJob(w, j, expected) ==
  Write(w, UpdateCode(tx[w], j, expected), j,
        IF j.id \in DOMAIN tx[w] THEN [tx[w] EXCEPT ![j.id] = Rewrite(@, j)] ELSE tx[w])

(* A worker that changes what it likes in the record it holds. *)
Report(w, identity, state, bytes, items, expected) ==
  /\ pc[w] = "inside"
  /\ job[w] # NoJob
  /\ job[w].id \notin ReadInside
  /\ UpdateJob(w, [job[w] EXCEPT !.identity = identity, !.state = state,
                                 !.bytes = bytes, !.items = items], expected)

(* A worker that adds one item of one byte to the record it has read. *)
OneMore(j) == [j EXCEPT !.bytes.completed = @ + 1, !.items.completed = @ + 1]

Advance(w) ==
  /\ pc[w] = "inside"
  /\ job[w] # NoJob
  /\ job[w].id \in ReadInside
  /\ UpdateJob(w, OneMore(job[w]), job[w].state)

Commit(w) ==
  /\ pc[w] = "written"
  /\ rows' = tx[w]
  /\ Leave(w)

(* A statement or the commit fails, the caller's context is cancelled, or  *)
(* the process dies.                                                       *)
Fail(w) == pc[w] # "idle" /\ Rollback(w)

Next ==
  \E w \in Worker :
    \/ \E i \in JobId : GetJob(w, i) \/ TxGetJob(w, i)
    \/ Begin(w) \/ Advance(w) \/ Commit(w) \/ Fail(w)
    \/ \E i \in JobId, identity \in Identity, state \in JobState, bytes, items \in Progress :
         InsertJob(w, [id |-> i, identity |-> identity, state |-> state,
                       bytes |-> bytes, items |-> items])
    \/ \E identity \in Identity, state, expected \in JobState, bytes, items \in Progress :
         Report(w, identity, state, bytes, items, expected)

Spec == Init /\ [][Next]_vars

-----------------------------------------------------------------------------
(* Properties. *)

(* UpdateJob reports milestones only: whatever stale or altered records    *)
(* workers send, a stored job keeps its identity and its state, and a      *)
(* terminal job is not written at all.                                     *)
MilestonesOnly ==
  [][\A i \in DOMAIN rows :
       /\ i \in DOMAIN rows'
       /\ rows'[i].identity = rows[i].identity
       /\ rows'[i].state = rows[i].state
       /\ rows[i].state \in Terminal => rows'[i] = rows[i]]_vars

(* Two workers that update one job may overwrite each other, for only the  *)
(* state is compared, but never in part: a commit stores the whole record  *)
(* of one worker and touches no other job.                                 *)
WholeRecords ==
  [][rows' # rows =>
       \E w \in Worker :
         /\ job[w] # NoJob
         /\ rows'[job[w].id] = job[w]
         /\ \A i \in DOMAIN rows \ {job[w].id} : rows'[i] = rows[i]]_vars

(* Workers that read the job in the transaction that updates it never lose *)
(* each other's progress: every commit that changes such a job adds its    *)
(* worker's one item of one byte to what is stored, and nothing else.      *)
ProgressIsKept ==
  [][\A i \in DOMAIN rows \cap ReadInside :
       /\ i \in DOMAIN rows'
       /\ rows'[i] \in {rows[i], OneMore(rows[i])}]_vars
=============================================================================
