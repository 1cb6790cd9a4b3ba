------------------------------- MODULE Schema -------------------------------
(***************************************************************************)
(* The metadata rows of migrations/0002_metadata.sql and the questions the *)
(* service and the repositories ask of them.  Every operator takes the     *)
(* rows it reads as arguments, so that the committed state and the copy an *)
(* open transaction works on are examined by the same definitions.         *)
(*                                                                         *)
(* Timestamps, sizes, MIME types, keys and hashes are left out: no guard   *)
(* of the service reads them.  deleted_at is left out too: no code sets    *)
(* it.  The six entry statuses are two here, because every guard compares  *)
(* a status with "available" and with nothing else.                        *)
(***************************************************************************)
EXTENDS Integers, FiniteSets, Functions

CONSTANTS
  VaultId, EntryId, JobId,  \* identifiers NewID may ever return
  ChunkIndex,               \* chunk positions in a file
  Root,                     \* parent_id IS NULL: the vault root
  NoEntry,                  \* entry_id IS NULL: a job about the whole vault
  RawName,                  \* what a caller types
  Name, Key,                \* display names (NFC) and their lookup keys
  Display, Fold,            \* NormalizeName, split into its two results
  Invalid                   \* Display of a name NormalizeName rejects

ASSUME RootAssumption == Root \notin EntryId
ASSUME NoEntryAssumption == NoEntry \notin EntryId
ASSUME NameAssumption ==
  /\ Invalid \notin Name
  /\ Display \in [RawName -> Name \cup {Invalid}]
  /\ Fold \in [Name -> Key]

Kind == {"file", "folder"}
Status == {"available", "unavailable"}
Parent == EntryId \cup {Root}

EntryRow == [vault : VaultId, parent : Parent, kind : Kind,
             name : Name, key : Key, status : Status]
JobRow == [vault : VaultId, entry : EntryId \cup {NoEntry}]

Code == {"OK", "NOT_FOUND", "INVALID_NAME", "INVALID_PARENT", "INVALID_STATE",
         "INVALID_HIERARCHY", "FILE_CONFLICT", "FOLDER_NOT_EMPTY",
         "OPERATION_UNAVAILABLE", "DATABASE_UNAVAILABLE"}

(* Mutant: the display name is stored as the key. *)
UnfoldedKey(raw) == Display[raw]

(* NormalizeName: a name is rejected, or has a display name and a lookup   *)
(* key, the fold of the display name.                                      *)
Rejected(raw) == Display[raw] = Invalid
LookupKey(raw) == Fold[Display[raw]]

(* A table: a function from the identifiers stored to their rows. *)
IsTable(T, Id, Row) == DOMAIN T \subseteq Id /\ T \in [DOMAIN T -> Row]
Put(T, id, row) == [x \in DOMAIN T \cup {id} |-> IF x = id THEN row ELSE T[x]]
Remove(T, S) == Restrict(T, DOMAIN T \ S)

(* queryEntries: the rows of one listing, in one vault under one parent. *)
Children(E, v, p) == {x \in DOMAIN E : E[x].vault = v /\ E[x].parent = p}

(* checkFolderParent: every rejection of a destination is INVALID_PARENT,  *)
(* so only acceptance is told apart.                                       *)
GoodParent(E, v, p) ==
  \/ p = Root
  \/ /\ p \in DOMAIN E
     /\ E[p].vault = v
     /\ E[p].kind = "folder"
     /\ E[p].status = "available"

(* checkEntryParent: the repository's own check, blind to the status. *)
FolderParent(E, v, p) ==
  p = Root \/ (p \in DOMAIN E /\ E[p].vault = v /\ E[p].kind = "folder")

(* Mutant: a single UNIQUE(vault_id, parent_id, name_key), in which SQLite *)
(* takes NULL parents for distinct.                                        *)
KeyFreeNullsDistinct(E, v, p, k, x) ==
  p = Root \/ \A s \in Children(E, v, p) \ {x} : E[s].key # k

(* The two partial unique indexes: no row other than x may hold key k      *)
(* under parent p of vault v; an insert gives Root for x, which is no row. *)
KeyFree(E, v, p, k, x) == \A s \in Children(E, v, p) \ {x} : E[s].key # k

(* Mutant: jobs.entry_id without ON DELETE RESTRICT. *)
DependentsWithoutJobs(E, F, J, x) == {y \in DOMAIN E : E[y].parent = x} \cup {f \in F : f = x}

(* ON DELETE RESTRICT: the rows that keep entry x from being deleted. *)
Dependents(E, F, J, x) ==
  {y \in DOMAIN E : E[y].parent = x} \cup {f \in F : f = x}
    \cup {j \in DOMAIN J : J[j].entry = x}

-----------------------------------------------------------------------------
(* Ancestry without recursion: a set is closed when it holds the parent of *)
(* each of its members, and a is on the ancestor chain of x (or is x) when *)
(* every closed set that holds x holds a.                                  *)
ParentClosed(E, A) == \A x \in A : E[x].parent = Root \/ E[x].parent \in A
OnChain(E, a, x) ==
  \A A \in SUBSET DOMAIN E : x \in A /\ ParentClosed(E, A) => a \in A
Subtree(E, a) == {x \in DOMAIN E : OnChain(E, a, x)}

(* A forest: no set of entries in which every parent is again in the set. *)
Acyclic(E) == \A S \in SUBSET DOMAIN E : S # {} => \E x \in S : E[x].parent \notin S

-----------------------------------------------------------------------------
(* Mutants of the loop: no visited set; no comparison with the source; the *)
(* source's parent compared instead.                                       *)
WalkWithoutVisited(E, src, cur, visited) ==
  IF cur = src \/ cur \notin DOMAIN E THEN "INVALID_HIERARCHY"
  ELSE IF E[cur].parent = Root THEN "OK" ELSE "walking"
WalkPastSource(E, src, cur, visited) ==
  IF cur \in visited \/ cur \notin DOMAIN E THEN "INVALID_HIERARCHY"
  ELSE IF E[cur].parent = Root THEN "OK" ELSE "walking"
WalkToSourceParent(E, src, cur, visited) ==
  IF cur = E[src].parent \/ cur \in visited \/ cur \notin DOMAIN E THEN "INVALID_HIERARCHY"
  ELSE IF E[cur].parent = Root THEN "OK" ELSE "walking"

(* One turn of the loop of rejectCycle, standing at entry cur after the    *)
(* entries of visited: it stops at the entry being moved, at an entry seen *)
(* before, at an entry that is not stored, and at the vault root.          *)
WalkVerdict(E, src, cur, visited) ==
  IF cur = src \/ cur \in visited \/ cur \notin DOMAIN E THEN "INVALID_HIERARCHY"
  ELSE IF E[cur].parent = Root THEN "OK"
  ELSE "walking"
=============================================================================
