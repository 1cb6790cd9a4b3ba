------------------------------ MODULE Namespace ------------------------------
(***************************************************************************)
(* What the folder service promises (internal/filesystem/service.go): each *)
(* operation is one atomic step on the committed metadata that either      *)
(* takes its whole effect or none, and answers with the code the state it  *)
(* saw calls for.  How transactions, locks and statement-by-statement      *)
(* execution achieve this is the subject of FolderTx, which implements     *)
(* this specification.                                                     *)
(***************************************************************************)
EXTENDS Schema

VARIABLES
  vaults,   \* vaults: the identifiers stored
  entries,  \* entries: a table of EntryRow
  files,    \* files: the entries that have a file record
  chunks,   \* chunks: <<file entry, index>> pairs
  jobs,     \* jobs: a table of JobRow
  unused,   \* entry identifiers NewID has not returned yet
  reply     \* the last request answered, with its code

vars == <<vaults, entries, files, chunks, jobs, unused, reply>>
refs == <<files, chunks, jobs>>

Request ==
  [op : {"CreateLocalVault"}, name : RawName]
    \cup [op : {"CreateFolder"}, vault : VaultId, parent : Parent, name : RawName]
    \cup [op : {"RenameEntry"}, id : EntryId, name : RawName]
    \cup [op : {"MoveEntry"}, id : EntryId, to : Parent]
    \cup [op : {"DeleteFolder"}, id : EntryId, recursive : BOOLEAN]
    \cup [op : {"ListVaults"}]
    \cup [op : {"GetVault"}, vault : VaultId]
    \cup [op : {"ListEntries"}, vault : VaultId, parent : Parent]

(* A listing answers with vault identifiers, or with entries and their rows. *)
Listed == [id : EntryId, row : EntryRow]
Reply(req, code, rows) == [req |-> req, code |-> code, rows |-> rows]
NoReply == Reply([op |-> "none"], "OK", {})
NoDatabase == Reply([op |-> "none"], "DATABASE_UNAVAILABLE", {})
AnyReply == {NoReply, NoDatabase}
              \cup [req : Request, code : Code, rows : SUBSET (VaultId \cup Listed)]
Answer(req, code) == reply' = Reply(req, code, {})

(* Every row has the columns its table declares, every reply is a code of  *)
(* internal/domain/errors.go.                                              *)
TypeOK ==
  /\ vaults \subseteq VaultId
  /\ IsTable(entries, EntryId, EntryRow)
  /\ files \subseteq EntryId
  /\ chunks \subseteq EntryId \X ChunkIndex
  /\ IsTable(jobs, JobId, JobRow)
  /\ unused \subseteq EntryId
  /\ reply \in AnyReply

Init ==
  /\ vaults = {}
  /\ entries = << >>
  /\ files = {}
  /\ chunks = {}
  /\ jobs = << >>
  /\ unused = EntryId
  /\ reply = NoReply

-----------------------------------------------------------------------------
(* The code each operation answers with, in the order of its checks. *)

CreateFolderCode(v, p, raw) ==
  IF Rejected(raw) THEN "INVALID_NAME"
  ELSE IF v \notin vaults THEN "NOT_FOUND"
  ELSE IF ~GoodParent(entries, v, p) THEN "INVALID_PARENT"
  ELSE IF ~KeyFree(entries, v, p, LookupKey(raw), Root) THEN "FILE_CONFLICT"
  ELSE "OK"

(* Mutant: entries are renamed and moved in any status. *)
AnyStatus(id) == TRUE
Available(id) == entries[id].status = "available"

RenameEntryCode(id, raw) ==
  IF Rejected(raw) THEN "INVALID_NAME"
  ELSE IF id \notin DOMAIN entries THEN "NOT_FOUND"
  ELSE IF ~Available(id) THEN "INVALID_STATE"
  ELSE IF ~KeyFree(entries, entries[id].vault, entries[id].parent,
                   LookupKey(raw), id)
       THEN "FILE_CONFLICT"
  ELSE "OK"

(* Mutant: the destination is checked, its ancestors are not. *)
NoWalk(id, p) == FALSE
(* What rejectCycle decides on an intact hierarchy (AncestorWalkProofs). *)
ClosesCycle(id, p) == p # Root /\ OnChain(entries, id, p)

MoveEntryCode(id, p) ==
  IF p = id THEN "INVALID_PARENT"
  ELSE IF id \notin DOMAIN entries THEN "NOT_FOUND"
  ELSE IF ~Available(id) THEN "INVALID_STATE"
  ELSE IF entries[id].parent = p THEN "OK"
  ELSE IF ~GoodParent(entries, entries[id].vault, p) THEN "INVALID_PARENT"
  ELSE IF ClosesCycle(id, p) THEN "INVALID_HIERARCHY"
  ELSE IF ~KeyFree(entries, entries[id].vault, p, entries[id].key, id)
       THEN "FILE_CONFLICT"
  ELSE "OK"

(* Mutant: the job check of the recursive delete is missing. *)
NoJob(x) == FALSE
HasJob(x) == \E j \in DOMAIN jobs : jobs[j].entry = x

(* An entry that stops a recursive delete of a folder above it. *)
Blocks(x) ==
  \/ entries[x].kind # "folder"
  \/ ~Available(x)
  \/ x \in files
  \/ \E i \in ChunkIndex : <<x, i>> \in chunks
  \/ HasJob(x)

DeleteFolderCode(id, recursive) ==
  IF id \notin DOMAIN entries THEN "NOT_FOUND"
  ELSE IF entries[id].kind # "folder" THEN "INVALID_STATE"
  ELSE IF recursive
       THEN IF \E x \in Subtree(entries, id) : Blocks(x)
            THEN "OPERATION_UNAVAILABLE" ELSE "OK"
  ELSE IF Children(entries, entries[id].vault, id) # {} THEN "FOLDER_NOT_EMPTY"
  ELSE IF Dependents(entries, files, jobs, id) # {} THEN "OPERATION_UNAVAILABLE"
  ELSE "OK"

-----------------------------------------------------------------------------
(* The operations of the service. *)

CreateLocalVault(raw) ==
  /\ IF Rejected(raw)
     THEN UNCHANGED vaults
     ELSE \E v \in VaultId \ vaults : vaults' = vaults \cup {v}
  /\ Answer([op |-> "CreateLocalVault", name |-> raw],
            IF Rejected(raw) THEN "INVALID_NAME" ELSE "OK")
  /\ UNCHANGED <<entries, refs, unused>>

CreateFolder(v, p, raw) ==
  LET code == CreateFolderCode(v, p, raw)
      row == [vault |-> v, parent |-> p, kind |-> "folder", name |-> Display[raw],
              key |-> LookupKey(raw), status |-> "available"] IN
  /\ IF code = "OK"
     THEN \E id \in unused : /\ entries' = Put(entries, id, row)
                             /\ unused' = unused \ {id}
     ELSE UNCHANGED <<entries, unused>>
  /\ Answer([op |-> "CreateFolder", vault |-> v, parent |-> p, name |-> raw], code)
  /\ UNCHANGED <<vaults, refs>>

RenameEntry(id, raw) ==
  LET code == RenameEntryCode(id, raw) IN
  /\ entries' = IF code = "OK"
                THEN [entries EXCEPT ![id].name = Display[raw],
                                     ![id].key = LookupKey(raw)]
                ELSE entries
  /\ Answer([op |-> "RenameEntry", id |-> id, name |-> raw], code)
  /\ UNCHANGED <<vaults, refs, unused>>

MoveEntry(id, p) ==
  LET code == MoveEntryCode(id, p) IN
  /\ entries' = IF code = "OK" THEN [entries EXCEPT ![id].parent = p] ELSE entries
  /\ Answer([op |-> "MoveEntry", id |-> id, to |-> p], code)
  /\ UNCHANGED <<vaults, refs, unused>>

DeleteFolder(id, recursive) ==
  LET code == DeleteFolderCode(id, recursive)
      doomed == IF recursive THEN Subtree(entries, id) ELSE {id} IN
  /\ entries' = IF code = "OK" THEN Remove(entries, doomed) ELSE entries
  /\ Answer([op |-> "DeleteFolder", id |-> id, recursive |-> recursive], code)
  /\ UNCHANGED <<vaults, refs, unused>>

(* The listings only read.  Their order, folders first and then by key, is *)
(* a function of the rows.                                                 *)
ListVaults ==
  /\ reply' = Reply([op |-> "ListVaults"], "OK", vaults)
  /\ UNCHANGED <<vaults, entries, refs, unused>>

GetVault(v) ==
  /\ IF v \in vaults THEN reply' = Reply([op |-> "GetVault", vault |-> v], "OK", {v})
     ELSE Answer([op |-> "GetVault", vault |-> v], "NOT_FOUND")
  /\ UNCHANGED <<vaults, entries, refs, unused>>

Rows(E, v, p) == {[id |-> x, row |-> E[x]] : x \in Children(E, v, p)}

ListEntries(v, p) ==
  LET req == [op |-> "ListEntries", vault |-> v, parent |-> p] IN
  /\ IF v \notin vaults THEN Answer(req, "NOT_FOUND")
     ELSE IF ~GoodParent(entries, v, p) THEN Answer(req, "INVALID_PARENT")
     ELSE reply' = Reply(req, "OK", Rows(entries, v, p))
  /\ UNCHANGED <<vaults, entries, refs, unused>>

(* Any operation may fail for want of a database (a closed store, a busy   *)
(* timeout, a cancelled context, a failed statement or commit); it then    *)
(* changes nothing.                                                        *)
Unavailable ==
  /\ reply' = NoDatabase
  /\ UNCHANGED <<vaults, entries, refs, unused>>

-----------------------------------------------------------------------------
(* The writes of the repository layer that the folder service only ever    *)
(* meets as rows: entries of any kind and status, file records, chunks and *)
(* jobs.  A write that one of its checks refuses changes nothing and is    *)
(* left out; job progress is the subject of module Jobs.                   *)

InsertEntry(v, p, kind, status, n) ==
  /\ v \in vaults
  /\ FolderParent(entries, v, p)
  /\ KeyFree(entries, v, p, Fold[n], Root)
  /\ \E id \in unused :
       /\ entries' = Put(entries, id, [vault |-> v, parent |-> p, kind |-> kind,
                                       name |-> n, key |-> Fold[n], status |-> status])
       /\ unused' = unused \ {id}
  /\ UNCHANGED <<vaults, refs, reply>>

InsertFile(id) ==
  /\ id \in DOMAIN entries
  /\ entries[id].kind = "file"
  /\ files' = files \cup {id}
  /\ UNCHANGED <<vaults, entries, chunks, jobs, unused, reply>>

InsertChunk(id, i) ==
  /\ id \in files
  /\ chunks' = chunks \cup {<<id, i>>}
  /\ UNCHANGED <<vaults, entries, files, jobs, unused, reply>>

InsertJob(j, v, id) ==
  /\ j \notin DOMAIN jobs
  /\ v \in vaults
  /\ id # NoEntry => id \in DOMAIN entries /\ entries[id].vault = v
  /\ jobs' = Put(jobs, j, [vault |-> v, entry |-> id])
  /\ UNCHANGED <<vaults, entries, files, chunks, unused, reply>>

-----------------------------------------------------------------------------
Service ==
  \/ \E raw \in RawName : CreateLocalVault(raw)
  \/ \E v \in VaultId, p \in Parent, raw \in RawName : CreateFolder(v, p, raw)
  \/ \E id \in EntryId, raw \in RawName : RenameEntry(id, raw)
  \/ \E id \in EntryId, p \in Parent : MoveEntry(id, p)
  \/ \E id \in EntryId, recursive \in BOOLEAN : DeleteFolder(id, recursive)
  \/ ListVaults
  \/ \E v \in VaultId : GetVault(v)
  \/ \E v \in VaultId, p \in Parent : ListEntries(v, p)
  \/ Unavailable

Repositories ==
  \/ \E v \in VaultId, p \in Parent, kind \in Kind, status \in Status, n \in Name :
       InsertEntry(v, p, kind, status, n)
  \/ \E id \in EntryId : InsertFile(id)
  \/ \E id \in EntryId, i \in ChunkIndex : InsertChunk(id, i)
  \/ \E j \in JobId, v \in VaultId, id \in EntryId \cup {NoEntry} : InsertJob(j, v, id)

Next == Service \/ Repositories

Spec == Init /\ [][Next]_vars

-----------------------------------------------------------------------------
(* Properties. *)

(* The hierarchy rules of service.go and of the entries table: a parent is *)
(* a stored folder of the same vault, and no entry is its own ancestor.    *)
Tree ==
  /\ \A x \in DOMAIN entries : FolderParent(entries, entries[x].vault, entries[x].parent)
  /\ Acyclic(entries)

(* Collision prevention: the stored lookup key is the fold of the stored   *)
(* display name, and no two siblings share a key, whatever sequence of     *)
(* creates, renames and moves brought them together.                       *)
UniqueKeys ==
  /\ \A x \in DOMAIN entries : entries[x].key = Fold[entries[x].name]
  /\ \A x, y \in DOMAIN entries :
       /\ entries[x].vault = entries[y].vault
       /\ entries[x].parent = entries[y].parent
       /\ entries[x].key = entries[y].key
       => x = y

(* No row refers to a row that is gone: vaults of entries, entries of file *)
(* records and of jobs, file records of chunks; a job stays in one vault.  *)
References ==
  /\ \A x \in DOMAIN entries : entries[x].vault \in vaults
  /\ \A f \in files : f \in DOMAIN entries /\ entries[f].kind = "file"
  /\ \A c \in chunks : c[1] \in files
  /\ \A j \in DOMAIN jobs :
       /\ jobs[j].vault \in vaults
       /\ jobs[j].entry # NoEntry =>
            /\ jobs[j].entry \in DOMAIN entries
            /\ entries[jobs[j].entry].vault = jobs[j].vault

(* What a store holds between two runs of the program: everything above,   *)
(* and no stored entry whose identifier NewID could still return.          *)
Consistent ==
  /\ TypeOK
  /\ Tree
  /\ UniqueKeys
  /\ References
  /\ unused \cap DOMAIN entries = {}

(* The service started on a database that earlier runs have left behind. *)
Resumed == Consistent /\ [][Next]_vars

(* Entries that carry remote references or work in progress: file entries, *)
(* and entries a job refers to.                                            *)
Precious(x) == entries[x].kind = "file" \/ \E j \in DOMAIN jobs : jobs[j].entry = x

(* A delete never erases remote-reference metadata on its way through a    *)
(* subtree (DeleteFolder: any blocker means zero mutation).                *)
PreciousSurvives ==
  [][\A x \in DOMAIN entries : Precious(x) => x \in DOMAIN entries']_vars

(* An entry that is not available is never renamed, moved or swept away    *)
(* with a subtree; only a delete that names it, of a childless folder, may *)
(* remove it (the non-recursive path of DeleteFolder reads no status).     *)
HeldInPlace ==
  [][\A x \in DOMAIN entries : entries[x].status # "available" =>
       IF x \in DOMAIN entries' THEN entries'[x] = entries[x]
       ELSE reply'.req = [op |-> "DeleteFolder", id |-> x, recursive |-> FALSE]]_vars
=============================================================================
