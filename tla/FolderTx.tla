------------------------------ MODULE FolderTx ------------------------------
(***************************************************************************)
(* The folder operations as they run: goroutines of one or more processes  *)
(* that share a database file.  Each operation takes its store's txMu,     *)
(* opens an immediate transaction on the single connection, reads and      *)
(* writes one repository call at a time, and commits or rolls back         *)
(* (Store.WithTx; service.go).  A statement may fail, a context may be     *)
(* cancelled, a store may be closed and a process may crash on the way.    *)
(* Implements: every behaviour is one of Namespace, an operation's step    *)
(* being its commit or its rollback.                                       *)
(***************************************************************************)
EXTENDS Schema, Sequences

CONSTANTS
  Client,      \* goroutines, each serving one call
  Store,       \* processes, each with one Store on the same file
  Placements,  \* bound: which client may run in which process
  Nobody,      \* no client
  Menu,        \* the requests clients choose from
  Seeds,       \* the committed databases the processes may find
  Disturbances \* bound: what else may happen in this instance

ASSUME ClientAssumption == Placements \subseteq [Client -> Store] /\ Nobody \notin Client
ASSUME DisturbanceAssumption ==
  Disturbances \subseteq {"writers", "failures", "closes", "crashes"}

VARIABLES
  db,          \* committed: vaults, entries and the identifiers not used yet
  files, jobs, \* committed rows that only other writers add
  proc,        \* the store, and with it the process, of each client
  open,        \* the stores whose handle is not closed
  txMu,        \* who holds the transaction mutex of each store
  writer,      \* who holds SQLite's write lock (BEGIN IMMEDIATE)
  pc, req,     \* where each client is, and what it was asked
  tx,          \* what each open transaction sees: db with its own writes
  loc,         \* the locals of rejectCycle and deleteSubtree
  reply        \* the last answer given

vars == <<db, files, jobs, proc, open, txMu, writer, pc, req, tx, loc, reply>>
committed == <<db, files, jobs>>

NS == INSTANCE Namespace WITH
        vaults <- db.vaults, entries <- db.entries, unused <- db.unused, chunks <- {}

ASSUME MenuAssumption == Menu \subseteq NS!Request
ASSUME FiniteAssumption == IsFiniteSet(EntryId)

NoTx == [vaults |-> {}, entries |-> << >>, unused |-> {}]
NoLoc == [cur |-> Root, visited |-> {}, order |-> << >>, head |-> 1, pos |-> 1, rows |-> {}]
NoReq == [op |-> "none"]

InTx == {"insertVault", "getVault", "checkParent", "insertEntry", "getEntry",
         "renameEntry", "walk", "moveEntry", "children", "expand", "validate",
         "jobs", "deleteRows", "listVaults", "listEntries", "commit"}
PC == {"idle", "lock", "begin", "done", "gone"} \cup InTx

IsDb(t) == /\ t = [vaults |-> t.vaults, entries |-> t.entries, unused |-> t.unused]
           /\ t.vaults \subseteq VaultId /\ t.unused \subseteq EntryId
           /\ IsTable(t.entries, EntryId, EntryRow)
ASSUME SeedAssumption == \A d \in Seeds : IsDb(d)

(* Rows, locks and locals hold what their columns and variables can hold. *)
TypeOK ==
  /\ IsDb(db)
  /\ files \subseteq EntryId
  /\ IsTable(jobs, JobId, JobRow)
  /\ proc \in [Client -> Store]
  /\ open \in SUBSET Store
  /\ txMu \in [Store -> Client \cup {Nobody}]
  /\ writer \in Client \cup {Nobody}
  /\ pc \in [Client -> PC]
  /\ \A c \in Client :
       /\ req[c] \in Menu \cup {NoReq}
       /\ IsDb(tx[c])
       /\ loc[c].cur \in Parent /\ loc[c].visited \subseteq EntryId
       /\ pc[c] = "walk" => loc[c].cur \in EntryId
       /\ loc[c].order \in Seq(EntryId) /\ loc[c].head \in Nat /\ loc[c].pos \in Nat
       /\ loc[c].rows \subseteq VaultId \cup NS!Listed

(* What earlier runs have left behind is consistent (NamespaceProofs). *)
Init ==
  /\ db \in Seeds
  /\ files = {}
  /\ jobs = << >>
  /\ proc \in Placements
  /\ open = Store
  /\ txMu = [s \in Store |-> Nobody]
  /\ writer = Nobody
  /\ pc = [c \in Client |-> "idle"]
  /\ req = [c \in Client |-> NoReq]
  /\ tx = [c \in Client |-> NoTx]
  /\ loc = [c \in Client |-> NoLoc]
  /\ reply = NS!NoReply
  /\ NS!Consistent

-----------------------------------------------------------------------------
(* How calls end and transactions proceed. *)

(* Which call has failed for want of a database is not recorded. *)
Answer(c, code) ==
  reply' = IF code = "DATABASE_UNAVAILABLE" THEN NS!NoDatabase
           ELSE NS!Reply(req[c], code, IF code = "OK" THEN loc[c].rows ELSE {})
Goto(c, p) == pc' = [pc EXCEPT ![c] = p]

(* Mutants: the transaction is left open when WithTx returns; the error    *)
(* path keeps the mutex.                                                   *)
KeepWriter(c) == writer
KeepMutexOnError(c) == IF pc[c] = "commit" THEN [txMu EXCEPT ![proc[c]] = Nobody] ELSE txMu

WriterAfter(c) == IF writer = c THEN Nobody ELSE writer
MutexAfter(c) == [txMu EXCEPT ![proc[c]] = Nobody]

(* WithTx returns: the transaction is over and both locks are free. *)
Leave(c) ==
  /\ Goto(c, "done")
  /\ tx' = [tx EXCEPT ![c] = NoTx]
  /\ loc' = [loc EXCEPT ![c] = NoLoc]
  /\ txMu' = MutexAfter(c)
  /\ writer' = WriterAfter(c)
  /\ UNCHANGED <<files, jobs, proc, open, req>>

Rollback(c, code) == Leave(c) /\ Answer(c, code) /\ UNCHANGED db

Commit(c) ==
  /\ pc[c] = "commit"
  /\ db' = tx[c]
  /\ Leave(c)
  /\ Answer(c, "OK")

(* A step inside the transaction: on to p with the rows t and the locals l. *)
Proceed(c, p, t, l) ==
  /\ Goto(c, p)
  /\ tx' = [tx EXCEPT ![c] = t]
  /\ loc' = [loc EXCEPT ![c] = l]
  /\ UNCHANGED <<committed, proc, open, txMu, writer, req, reply>>

Read(c, code, p) ==
  IF code = "OK" THEN Proceed(c, p, tx[c], loc[c]) ELSE Rollback(c, code)
Write(c, code, E) ==
  IF code = "OK" THEN Proceed(c, "commit", [tx[c] EXCEPT !.entries = E], loc[c])
  ELSE Rollback(c, code)
Fetch(c, rows) == Proceed(c, "commit", tx[c], [loc[c] EXCEPT !.rows = rows])

-----------------------------------------------------------------------------
(* The call, before and at the start of WithTx. *)

(* NormalizeName and the self-move check answer before any transaction. *)
EarlyCode(r) ==
  IF r.op \in {"CreateLocalVault", "CreateFolder", "RenameEntry"} /\ Rejected(r.name)
  THEN "INVALID_NAME"
  ELSE IF r.op = "MoveEntry" /\ r.to = r.id THEN "INVALID_PARENT"
  ELSE "OK"

Call(c, r) ==
  /\ pc[c] = "idle"
  /\ req' = [req EXCEPT ![c] = r]
  /\ IF EarlyCode(r) = "OK"
     THEN Goto(c, "lock") /\ UNCHANGED reply
     ELSE Goto(c, "done") /\ reply' = NS!Reply(r, EarlyCode(r), {})
  /\ UNCHANGED <<committed, proc, open, txMu, writer, tx, loc>>

Lock(c) ==
  /\ pc[c] = "lock"
  /\ txMu[proc[c]] = Nobody
  /\ txMu' = [txMu EXCEPT ![proc[c]] = c]
  /\ Goto(c, "begin")
  /\ UNCHANGED <<committed, proc, open, writer, req, tx, loc, reply>>

FirstCall ==
  [op \in {"CreateLocalVault", "CreateFolder", "RenameEntry", "MoveEntry", "DeleteFolder",
           "ListVaults", "GetVault", "ListEntries"} |->
     CASE op = "CreateLocalVault" -> "insertVault"
       [] op = "ListVaults" -> "listVaults"
       [] op \in {"CreateFolder", "GetVault", "ListEntries"} -> "getVault"
       [] OTHER -> "getEntry"]

AfterParent == [op \in {"CreateFolder", "ListEntries"} |->
                  IF op = "CreateFolder" THEN "insertEntry" ELSE "listEntries"]

(* Mutant: nobody waits for SQLite's write lock. *)
NoWriteLock == TRUE
WriteLockFree == writer = Nobody

Begin(c) ==
  /\ pc[c] = "begin"
  /\ proc[c] \in open
  /\ WriteLockFree
  /\ writer' = c
  /\ tx' = [tx EXCEPT ![c] = db]
  /\ Goto(c, FirstCall[req[c].op])
  /\ UNCHANGED <<committed, proc, open, txMu, req, loc, reply>>

(* The handle is gone, or another process keeps the write lock for longer  *)
(* than busy_timeout.                                                      *)
NoBegin(c) ==
  /\ pc[c] = "begin"
  /\ proc[c] \notin open \/ writer # Nobody
  /\ Rollback(c, "DATABASE_UNAVAILABLE")

(* A statement or the commit fails, or the caller's context is cancelled:  *)
(* the mutex wait is the one place that does not notice.                   *)
Fail(c) ==
  /\ "failures" \in Disturbances
  /\ pc[c] \in InTx \cup {"begin"}
  /\ Rollback(c, "DATABASE_UNAVAILABLE")

-----------------------------------------------------------------------------
(* The repository calls of the operations. *)

InsertVault(c) ==
  /\ pc[c] = "insertVault"
  /\ \E v \in VaultId \ tx[c].vaults :
       Proceed(c, "commit", [tx[c] EXCEPT !.vaults = @ \cup {v}], loc[c])

GetVault(c) ==
  LET r == req[c] IN
  /\ pc[c] = "getVault"
  /\ IF r.vault \notin tx[c].vaults THEN Rollback(c, "NOT_FOUND")
     ELSE IF r.op = "GetVault" THEN Fetch(c, {r.vault})
     ELSE Proceed(c, IF r.parent # Root THEN "checkParent" ELSE AfterParent[r.op], tx[c], loc[c])

(* checkFolderParent, for the parent named or the destination of a move. *)
CheckParent(c) ==
  LET r == req[c]
      E == tx[c].entries IN
  /\ pc[c] = "checkParent"
  /\ IF r.op = "MoveEntry"
     THEN IF ~GoodParent(E, E[r.id].vault, r.to) THEN Rollback(c, "INVALID_PARENT")
          ELSE Proceed(c, "walk", tx[c], [loc[c] EXCEPT !.cur = r.to])
     ELSE Read(c, IF GoodParent(E, r.vault, r.parent) THEN "OK" ELSE "INVALID_PARENT",
               AfterParent[r.op])

ListVaults(c) == pc[c] = "listVaults" /\ Fetch(c, tx[c].vaults)

ListEntries(c) ==
  /\ pc[c] = "listEntries"
  /\ Fetch(c, NS!Rows(tx[c].entries, req[c].vault, req[c].parent))

InsertEntry(c) ==
  LET r == req[c]
      row == [vault |-> r.vault, parent |-> r.parent, kind |-> "folder",
              name |-> Display[r.name], key |-> LookupKey(r.name),
              status |-> "available"] IN
  /\ pc[c] = "insertEntry"
  /\ IF ~KeyFree(tx[c].entries, row.vault, row.parent, row.key, Root)
     THEN Rollback(c, "FILE_CONFLICT")
     ELSE \E id \in tx[c].unused :
            Proceed(c, "commit",
                    [tx[c] EXCEPT !.entries = Put(@, id, row), !.unused = @ \ {id}], loc[c])

(* The checks that follow tx.GetEntry, and the no-ops that end there. *)
GetEntry(c) ==
  LET r == req[c]
      E == tx[c].entries
      same == CASE r.op = "RenameEntry" -> E[r.id].name = Display[r.name]
                [] r.op = "MoveEntry" -> E[r.id].parent = r.to
                [] OTHER -> FALSE
      next == IF same THEN "commit"
              ELSE CASE r.op = "RenameEntry" -> "renameEntry"
                     [] r.op = "MoveEntry" -> IF r.to = Root THEN "moveEntry" ELSE "checkParent"
                     [] OTHER -> IF r.recursive THEN "expand" ELSE "children" IN
  /\ pc[c] = "getEntry"
  /\ IF r.id \notin DOMAIN E THEN Rollback(c, "NOT_FOUND")
     ELSE IF IF r.op = "DeleteFolder" THEN E[r.id].kind # "folder"
             ELSE E[r.id].status # "available"
     THEN Rollback(c, "INVALID_STATE")
     ELSE IF next = "expand" THEN Proceed(c, next, tx[c], [loc[c] EXCEPT !.order = <<r.id>>])
     ELSE Proceed(c, next, tx[c], loc[c])

RenameEntry(c) ==
  LET r == req[c]
      E == tx[c].entries
      key == LookupKey(r.name) IN
  /\ pc[c] = "renameEntry"
  /\ Write(c, IF KeyFree(E, E[r.id].vault, E[r.id].parent, key, r.id) THEN "OK"
              ELSE "FILE_CONFLICT",
           [E EXCEPT ![r.id].name = Display[r.name], ![r.id].key = key])

(* One turn of rejectCycle. *)
Walk(c) ==
  LET l == loc[c]
      E == tx[c].entries
      verdict == WalkVerdict(E, req[c].id, l.cur, l.visited) IN
  /\ pc[c] = "walk"
  /\ CASE verdict = "walking" ->
            Proceed(c, "walk", tx[c], [l EXCEPT !.cur = E[l.cur].parent,
                                                !.visited = @ \cup {l.cur}])
       [] OTHER -> Read(c, verdict, "moveEntry")

MoveEntry(c) ==
  LET r == req[c]
      E == tx[c].entries IN
  /\ pc[c] = "moveEntry"
  /\ Write(c, IF ~FolderParent(E, E[r.id].vault, r.to) THEN "INVALID_PARENT"
              ELSE IF ~KeyFree(E, E[r.id].vault, r.to, E[r.id].key, r.id) THEN "FILE_CONFLICT"
              ELSE "OK",
           [E EXCEPT ![r.id].parent = r.to])

(* The non-recursive delete goes on to delete the folder alone. *)
ListChildren(c) ==
  LET id == req[c].id
      E == tx[c].entries IN
  /\ pc[c] = "children"
  /\ IF Children(E, E[id].vault, id) # {} THEN Rollback(c, "FOLDER_NOT_EMPTY")
     ELSE Proceed(c, "deleteRows", tx[c], [loc[c] EXCEPT !.order = <<id>>, !.pos = 1])

(* deleteSubtree, as in SubtreeDelete. *)
Listings(S) == Bijection(1..Cardinality(S), S)

Expand(c) ==
  LET l == loc[c]
      E == tx[c].entries
      below == Children(E, E[req[c].id].vault, l.order[l.head]) IN
  /\ pc[c] = "expand"
  /\ IF l.head > Len(l.order) THEN Proceed(c, "validate", tx[c], l)
     ELSE IF below \cap Range(l.order) # {} THEN Rollback(c, "INVALID_HIERARCHY")
     ELSE \E s \in Listings(below) :
            Proceed(c, "expand", tx[c], [l EXCEPT !.order = @ \o s, !.head = @ + 1])

Validate(c) ==
  LET l == loc[c]
      E == tx[c].entries
      n == l.order[l.pos] IN
  /\ pc[c] = "validate"
  /\ IF l.pos > Len(l.order) THEN Proceed(c, "jobs", tx[c], l)
     ELSE IF E[n].kind # "folder" \/ E[n].status # "available" \/ n \in files
     THEN Rollback(c, "OPERATION_UNAVAILABLE")
     ELSE Proceed(c, "validate", tx[c], [l EXCEPT !.pos = @ + 1])

(* Mutant: the jobs are left to the foreign keys. *)
SkipJobs(c) ==
  /\ pc[c] = "jobs"
  /\ Proceed(c, "deleteRows", tx[c], [loc[c] EXCEPT !.pos = Len(loc[c].order)])

CheckJobs(c) ==
  LET l == loc[c] IN
  /\ pc[c] = "jobs"
  /\ IF \E j \in DOMAIN jobs : jobs[j].entry \in Range(l.order)
     THEN Rollback(c, "OPERATION_UNAVAILABLE")
     ELSE Proceed(c, "deleteRows", tx[c], [l EXCEPT !.pos = Len(l.order)])

DeleteRow(c) ==
  LET l == loc[c]
      E == tx[c].entries
      id == l.order[l.pos] IN
  /\ pc[c] = "deleteRows"
  /\ IF l.pos = 0 THEN Proceed(c, "commit", tx[c], l)
     ELSE IF id \notin DOMAIN E THEN Rollback(c, "NOT_FOUND")
     ELSE IF Dependents(E, files, jobs, id) # {} THEN Rollback(c, "OPERATION_UNAVAILABLE")
     ELSE Proceed(c, "deleteRows", [tx[c] EXCEPT !.entries = Remove(E, {id})],
                  [l EXCEPT !.pos = @ - 1])

-----------------------------------------------------------------------------
(* The other writers: transactions of other programs or of the workers to  *)
(* come, each one step here, that find the write lock free.                *)

OtherInsertEntry(v, p, kind, status, n) ==
  /\ WriteLockFree
  /\ v \in db.vaults
  /\ FolderParent(db.entries, v, p)
  /\ KeyFree(db.entries, v, p, Fold[n], Root)
  /\ \E id \in db.unused :
       db' = [db EXCEPT !.unused = @ \ {id},
                        !.entries = Put(@, id, [vault |-> v, parent |-> p, kind |-> kind,
                                                name |-> n, key |-> Fold[n], status |-> status])]
  /\ UNCHANGED <<files, jobs, proc, open, txMu, writer, pc, req, tx, loc, reply>>

OtherInsertFile(id) ==
  /\ WriteLockFree
  /\ id \in DOMAIN db.entries \ files
  /\ db.entries[id].kind = "file"
  /\ files' = files \cup {id}
  /\ UNCHANGED <<db, jobs, proc, open, txMu, writer, pc, req, tx, loc, reply>>

OtherInsertJob(j, id) ==
  /\ WriteLockFree
  /\ j \notin DOMAIN jobs
  /\ id \in DOMAIN db.entries
  /\ jobs' = Put(jobs, j, [vault |-> db.entries[id].vault, entry |-> id])
  /\ UNCHANGED <<db, files, proc, open, txMu, writer, pc, req, tx, loc, reply>>

(* Store.Close does not wait for txMu: an open transaction goes on. *)
Close(s) ==
  /\ "closes" \in Disturbances
  /\ s \in open
  /\ open' = open \ {s}
  /\ UNCHANGED <<committed, proc, txMu, writer, pc, req, tx, loc, reply>>

(* A process dies with its goroutines and its locks, uncommitted writes    *)
(* are lost, and a new process opens the file.                             *)
Crash(s) ==
  LET dead == {c \in Client : proc[c] = s /\ pc[c] \notin {"idle", "done", "gone"}} IN
  /\ "crashes" \in Disturbances
  /\ dead # {}
  /\ pc' = [c \in Client |-> IF c \in dead THEN "gone" ELSE pc[c]]
  /\ tx' = [c \in Client |-> IF c \in dead THEN NoTx ELSE tx[c]]
  /\ loc' = [c \in Client |-> IF c \in dead THEN NoLoc ELSE loc[c]]
  /\ txMu' = [txMu EXCEPT ![s] = Nobody]
  /\ writer' = IF writer \in dead THEN Nobody ELSE writer
  /\ open' = open \cup {s}
  /\ UNCHANGED <<committed, proc, req, reply>>

Step(c) ==
  \/ Lock(c) \/ Begin(c) \/ NoBegin(c) \/ Commit(c)
  \/ ListVaults(c) \/ ListEntries(c)
  \/ InsertVault(c) \/ GetVault(c) \/ CheckParent(c) \/ InsertEntry(c)
  \/ GetEntry(c) \/ RenameEntry(c) \/ Walk(c) \/ MoveEntry(c)
  \/ ListChildren(c) \/ Expand(c) \/ Validate(c) \/ CheckJobs(c) \/ DeleteRow(c)

Others ==
  /\ "writers" \in Disturbances
  /\ \/ \E v \in VaultId, p \in Parent, kind \in Kind, status \in Status, n \in Name :
          OtherInsertEntry(v, p, kind, status, n)
     \/ \E id \in EntryId : OtherInsertFile(id)
     \/ \E j \in JobId, id \in EntryId : OtherInsertJob(j, id)

Next ==
  \/ \E c \in Client, r \in Menu : Call(c, r)
  \/ \E c \in Client : Step(c) \/ Fail(c)
  \/ Others
  \/ \E s \in Store : Close(s) \/ Crash(s)

(* Running goroutines are scheduled; nobody has to call, fail or crash.    *)
(* Clients are finitely many and call once, so weak fairness is enough for *)
(* the mutex: a client that waits is overtaken finitely often.             *)
Spec == Init /\ [][Next]_vars /\ \A c \in Client : WF_vars(Step(c))

-----------------------------------------------------------------------------
(* Properties. *)

(* Every operation is atomic, takes effect at its commit, and answers with *)
(* the code the committed state calls for at that moment.                  *)
Implements == NS!Resumed

(* What a transaction has checked is still so in the committed database    *)
(* when it comes to write: no other transaction has slipped in between.    *)
ChecksStillHold ==
  \A c \in Client :
    /\ pc[c] = "moveEntry" /\ req[c].to # Root =>
         /\ GoodParent(db.entries, db.entries[req[c].id].vault, req[c].to)
         /\ ~OnChain(db.entries, req[c].id, req[c].to)
    /\ pc[c] = "deleteRows" /\ req[c].recursive =>
         Range(loc[c].order) = Subtree(db.entries, req[c].id)

(* RESTRICT is a backstop only: a recursive delete that has come to its    *)
(* deletes has no row left that a foreign key would protect.               *)
BackstopUnused ==
  \A c \in Client :
    pc[c] = "deleteRows" /\ loc[c].pos > 0 /\ req[c].recursive =>
      /\ loc[c].order[loc[c].pos] \in DOMAIN tx[c].entries
      /\ Dependents(tx[c].entries, files, jobs, loc[c].order[loc[c].pos]) = {}

(* However a call ends, no lock stays behind. *)
LocksAreFreed ==
  /\ \A s \in Store : txMu[s] # Nobody => pc[txMu[s]] \in InTx \cup {"begin"}
  /\ writer # Nobody => pc[writer] \in InTx

(* How many steps a call has left, at most.  A move climbs past each entry *)
(* once; a recursive delete expands, validates and deletes each once.      *)
CallsLeft(c) ==
  LET n == Cardinality(EntryId)
      l == loc[c] IN
  CASE pc[c] = "lock"        -> 3 * n + 8
    [] pc[c] = "begin"       -> 3 * n + 7
    [] pc[c] = "getEntry"    -> 3 * n + 6
    [] pc[c] = "expand"      -> 3 * n + 6 - l.head
    [] pc[c] = "validate"    -> n + 5 + Len(l.order) - l.pos
    [] pc[c] = "jobs"        -> n + 3
    [] pc[c] = "deleteRows"  -> l.pos + 2
    [] pc[c] = "getVault"    -> n + 5
    [] pc[c] = "checkParent" -> n + 4
    [] pc[c] = "walk"        -> Cardinality(EntryId \ l.visited) + 3
    [] pc[c] = "children"    -> 4
    [] pc[c] = "commit"      -> 1
    [] pc[c] \in {"idle", "done", "gone"} -> 0
    [] OTHER                 -> 2

(* Whatever a call does next, and whatever the others do, it gets nearer   *)
(* to its end: how long it keeps the locks depends on the entries alone.   *)
EveryStepCounts ==
  [][\A c \in Client :
       pc[c] # "idle" /\ <<pc[c], loc[c]>>' # <<pc[c], loc[c]>> =>
         CallsLeft(c)' \in 0..CallsLeft(c) - 1]_vars

(* Every call is answered, unless its process dies. *)
EveryCallReturns ==
  \A c \in Client : pc[c] = "lock" ~> pc[c] \in {"done", "gone"}
=============================================================================
