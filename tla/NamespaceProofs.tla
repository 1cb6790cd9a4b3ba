--------------------------- MODULE NamespaceProofs ---------------------------
(***************************************************************************)
(* Theorems about Namespace, for every set of identifiers and names.  Each *)
(* conjunct of the inductive invariant is proved preserved on its own,     *)
(* from the typing lemma and from the other conjuncts it needs.            *)
(***************************************************************************)
EXTENDS Namespace, TLAPS

USE DEF Rejected, LookupKey, Available, ClosesCycle, HasJob

(* Adding a row to a table gives a table with that row and the old ones. *)
LEMMA PutLemma ==
  ASSUME NEW T, NEW Id, NEW Row, IsTable(T, Id, Row), NEW id \in Id, NEW row \in Row
  PROVE  /\ IsTable(Put(T, id, row), Id, Row)
         /\ DOMAIN Put(T, id, row) = DOMAIN T \cup {id}
         /\ Put(T, id, row)[id] = row
         /\ \A x \in DOMAIN T : x # id => Put(T, id, row)[x] = T[x]
BY DEF IsTable, Put

(* Removing rows from a table leaves the other rows as they were. *)
LEMMA RemoveLemma ==
  ASSUME NEW T, NEW Id, NEW Row, IsTable(T, Id, Row), NEW S
  PROVE  /\ IsTable(Remove(T, S), Id, Row)
         /\ DOMAIN Remove(T, S) = DOMAIN T \ S
         /\ \A x \in DOMAIN T \ S : Remove(T, S)[x] = T[x]
BY DEF IsTable, Remove, Restrict

(* Re-parenting and renaming keep the table a table. *)
LEMMA UpdateLemma ==
  ASSUME NEW E, IsTable(E, EntryId, EntryRow), NEW id \in DOMAIN E,
         NEW p \in Parent, NEW n \in Name, NEW k \in Key
  PROVE  /\ IsTable([E EXCEPT ![id].parent = p], EntryId, EntryRow)
         /\ IsTable([E EXCEPT ![id].name = n, ![id].key = k], EntryId, EntryRow)
<1>1. [E[id] EXCEPT !.parent = p] \in EntryRow
  BY DEF IsTable, EntryRow
<1>2. [[E[id] EXCEPT !.name = n] EXCEPT !.key = k] \in EntryRow
  BY DEF IsTable, EntryRow
<1>3. IsTable([E EXCEPT ![id].parent = p], EntryId, EntryRow)
  BY <1>1 DEF IsTable
<1>4. IsTable([E EXCEPT ![id].name = n, ![id].key = k], EntryId, EntryRow)
  BY <1>2 DEF IsTable
<1> QED BY <1>3, <1>4

(* What the result of NormalizeName is when it accepts. *)
LEMMA NameLemma ==
  ASSUME NEW raw \in RawName, Display[raw] # Invalid
  PROVE  Display[raw] \in Name /\ Fold[Display[raw]] \in Key
BY NameAssumption

(* What an operation answers is a reply. *)
LEMMA AnswerLemma ==
  ASSUME NEW req \in Request, NEW code \in Code, Answer(req, code)
  PROVE  reply' \in AnyReply
BY DEF Answer, Reply, AnyReply

-----------------------------------------------------------------------------
LEMMA TypingInit == Init => TypeOK
BY DEF Init, TypeOK, IsTable, AnyReply

LEMMA TypingStep == TypeOK /\ [Next]_vars => TypeOK'
<1> SUFFICES ASSUME TypeOK, [Next]_vars PROVE TypeOK'
  OBVIOUS
<1> USE DEF TypeOK
<1>1. ASSUME NEW raw \in RawName, CreateLocalVault(raw) PROVE TypeOK'
  <2>1. vaults' \subseteq VaultId
    BY <1>1 DEF CreateLocalVault
  <2>2. reply' \in AnyReply
    BY <1>1, AnswerLemma DEF CreateLocalVault, Request, Code
  <2> QED BY <1>1, <2>1, <2>2 DEF CreateLocalVault, refs
<1>2. ASSUME NEW v \in VaultId, NEW p \in Parent, NEW raw \in RawName, CreateFolder(v, p, raw)
      PROVE  TypeOK'
  <2>1. IsTable(entries', EntryId, EntryRow) /\ unused' \subseteq EntryId
    <3>1. CASE CreateFolderCode(v, p, raw) # "OK"
      BY <1>2, <3>1 DEF CreateFolder
    <3>2. CASE CreateFolderCode(v, p, raw) = "OK"
      <4> DEFINE row == [vault |-> v, parent |-> p, kind |-> "folder", name |-> Display[raw],
                         key |-> Fold[Display[raw]], status |-> "available"]
      <4>1. Display[raw] # Invalid
        BY <3>2 DEF CreateFolderCode
      <4>2. row \in EntryRow
        BY <4>1, NameLemma DEF EntryRow, Kind, Status
      <4>3. PICK id \in unused : entries' = Put(entries, id, row) /\ unused' = unused \ {id}
        BY <1>2, <3>2 DEF CreateFolder
      <4>4. id \in EntryId
        OBVIOUS
      <4>5. IsTable(Put(entries, id, row), EntryId, EntryRow)
        BY <4>2, <4>4, PutLemma
      <4> QED BY <4>3, <4>5
    <3> QED BY <3>1, <3>2
  <2>2. reply' \in AnyReply
    <3>1. CreateFolderCode(v, p, raw) \in Code
      BY DEF CreateFolderCode, Code
    <3>2. [op |-> "CreateFolder", vault |-> v, parent |-> p, name |-> raw] \in Request
      BY DEF Request
    <3> QED BY <1>2, <3>1, <3>2, AnswerLemma DEF CreateFolder
  <2> QED BY <1>2, <2>1, <2>2 DEF CreateFolder, refs
<1>3. ASSUME NEW id \in EntryId, NEW raw \in RawName, RenameEntry(id, raw) PROVE TypeOK'
  <2>1. IsTable(entries', EntryId, EntryRow)
    <3>1. CASE RenameEntryCode(id, raw) # "OK"
      BY <1>3, <3>1 DEF RenameEntry
    <3>2. CASE RenameEntryCode(id, raw) = "OK"
      <4>1. Display[raw] # Invalid /\ id \in DOMAIN entries
        BY <3>2 DEF RenameEntryCode
      <4>2. entries' = [entries EXCEPT ![id].name = Display[raw],
                                       ![id].key = Fold[Display[raw]]]
        BY <1>3, <3>2 DEF RenameEntry
      <4>3. PICK q \in Parent : TRUE
        BY DEF Parent
      <4>4. Display[raw] \in Name /\ Fold[Display[raw]] \in Key
        BY <4>1, NameLemma
      <4> QED BY <4>1, <4>2, <4>3, <4>4, UpdateLemma
    <3> QED BY <3>1, <3>2
  <2>2. reply' \in AnyReply
    <3>1. RenameEntryCode(id, raw) \in Code
      BY DEF RenameEntryCode, Code
    <3>2. [op |-> "RenameEntry", id |-> id, name |-> raw] \in Request
      BY DEF Request
    <3> QED BY <1>3, <3>1, <3>2, AnswerLemma DEF RenameEntry
  <2> QED BY <1>3, <2>1, <2>2 DEF RenameEntry, refs
<1>4. ASSUME NEW id \in EntryId, NEW p \in Parent, MoveEntry(id, p) PROVE TypeOK'
  <2>1. IsTable(entries', EntryId, EntryRow)
    <3>1. CASE MoveEntryCode(id, p) # "OK"
      BY <1>4, <3>1 DEF MoveEntry
    <3>2. CASE MoveEntryCode(id, p) = "OK"
      <4>1. id \in DOMAIN entries
        BY <3>2 DEF MoveEntryCode
      <4>2. entries' = [entries EXCEPT ![id].parent = p]
        BY <1>4, <3>2 DEF MoveEntry
      <4>3. entries[id].name \in Name /\ entries[id].key \in Key
        BY <4>1 DEF IsTable, EntryRow
      <4> QED BY <4>1, <4>2, <4>3, UpdateLemma
    <3> QED BY <3>1, <3>2
  <2>2. reply' \in AnyReply
    <3>1. MoveEntryCode(id, p) \in Code
      BY DEF MoveEntryCode, Code
    <3>2. [op |-> "MoveEntry", id |-> id, to |-> p] \in Request
      BY DEF Request
    <3> QED BY <1>4, <3>1, <3>2, AnswerLemma DEF MoveEntry
  <2> QED BY <1>4, <2>1, <2>2 DEF MoveEntry, refs
<1>5. ASSUME NEW id \in EntryId, NEW recursive \in BOOLEAN, DeleteFolder(id, recursive)
      PROVE  TypeOK'
  <2>1. IsTable(entries', EntryId, EntryRow)
    BY <1>5, RemoveLemma DEF DeleteFolder
  <2>2. reply' \in AnyReply
    <3>1. DeleteFolderCode(id, recursive) \in Code
      BY DEF DeleteFolderCode, Code
    <3>2. [op |-> "DeleteFolder", id |-> id, recursive |-> recursive] \in Request
      BY DEF Request
    <3> QED BY <1>5, <3>1, <3>2, AnswerLemma DEF DeleteFolder
  <2> QED BY <1>5, <2>1, <2>2 DEF DeleteFolder, refs
<1>6. CASE Unavailable
  BY <1>6 DEF Unavailable, AnyReply, refs
<1>6a. CASE ListVaults
  <2>1. [op |-> "ListVaults"] \in Request /\ "OK" \in Code
    BY DEF Request, Code
  <2>2. reply' \in AnyReply
    BY <1>6a, <2>1 DEF ListVaults, Reply, AnyReply
  <2> QED BY <1>6a, <2>2 DEF ListVaults, refs
<1>6b. ASSUME NEW v \in VaultId, GetVault(v) PROVE TypeOK'
  <2>1. [op |-> "GetVault", vault |-> v] \in Request /\ {"OK", "NOT_FOUND"} \subseteq Code
    BY DEF Request, Code
  <2>2. reply' \in AnyReply
    BY <1>6b, <2>1 DEF GetVault, Answer, Reply, AnyReply
  <2> QED BY <1>6b, <2>2 DEF GetVault, refs
<1>6c. ASSUME NEW v \in VaultId, NEW p \in Parent, ListEntries(v, p) PROVE TypeOK'
  <2> DEFINE req == [op |-> "ListEntries", vault |-> v, parent |-> p]
  <2>1. req \in Request /\ {"OK", "NOT_FOUND", "INVALID_PARENT"} \subseteq Code
    BY DEF Request, Code
  <2>2. Rows(entries, v, p) \subseteq Listed
    BY DEF Rows, Children, Listed, IsTable
  <2> HIDE DEF req
  <2>3. reply' \in AnyReply
    BY <1>6c, <2>1, <2>2 DEF ListEntries, Answer, Reply, AnyReply, req
  <2> QED BY <1>6c, <2>3 DEF ListEntries, refs
<1>7. ASSUME NEW v \in VaultId, NEW p \in Parent, NEW kind \in Kind, NEW status \in Status,
             NEW n \in Name, InsertEntry(v, p, kind, status, n)
      PROVE  TypeOK'
  <2> DEFINE row == [vault |-> v, parent |-> p, kind |-> kind, name |-> n,
                     key |-> Fold[n], status |-> status]
  <2>1. row \in EntryRow
    BY NameAssumption DEF EntryRow
  <2>2. PICK id \in unused : entries' = Put(entries, id, row) /\ unused' = unused \ {id}
    BY <1>7 DEF InsertEntry
  <2>3. id \in EntryId
    OBVIOUS
  <2>4. IsTable(Put(entries, id, row), EntryId, EntryRow)
    BY <2>1, <2>3, PutLemma
  <2> QED BY <1>7, <2>2, <2>4 DEF InsertEntry, refs
<1>8. ASSUME NEW id \in EntryId, InsertFile(id) PROVE TypeOK'
  BY <1>8 DEF InsertFile
<1>9. ASSUME NEW id \in EntryId, NEW i \in ChunkIndex, InsertChunk(id, i) PROVE TypeOK'
  BY <1>9 DEF InsertChunk
<1>10. ASSUME NEW j \in JobId, NEW v \in VaultId, NEW id \in EntryId \cup {NoEntry},
              InsertJob(j, v, id)
       PROVE  TypeOK'
  <2>1. [vault |-> v, entry |-> id] \in JobRow
    BY DEF JobRow
  <2>2. IsTable(Put(jobs, j, [vault |-> v, entry |-> id]), JobId, JobRow)
    BY <2>1, PutLemma
  <2> QED BY <1>10, <2>2 DEF InsertJob
<1>11. CASE UNCHANGED vars
  BY <1>11 DEF vars, refs
<1> QED BY <1>1, <1>2, <1>3, <1>4, <1>5, <1>6, <1>7, <1>8, <1>9, <1>10, <1>11,
           <1>6a, <1>6b, <1>6c
        DEF Next, Service, Repositories

(* Every reachable state is well typed: every row the service stores has   *)
(* the columns its table declares, and every reply is a code of the API.   *)
THEOREM Typing == Spec => []TypeOK
BY TypingInit, TypingStep, PTL DEF Spec

-----------------------------------------------------------------------------
(* The hierarchy, as facts about any table of entries E. *)

FolderParents(E) ==
  \A x \in DOMAIN E : FolderParent(E, E[x].vault, E[x].parent)

(* A new entry under a stored folder, or under the root, closes no cycle. *)
LEMMA PutKeepsTree ==
  ASSUME NEW E, IsTable(E, EntryId, EntryRow), FolderParents(E), Acyclic(E),
         NEW id \in EntryId \ DOMAIN E, NEW row \in EntryRow,
         FolderParent(E, row.vault, row.parent)
  PROVE  FolderParents(Put(E, id, row)) /\ Acyclic(Put(E, id, row))
<1> DEFINE F == Put(E, id, row)
<1>1. /\ DOMAIN F = DOMAIN E \cup {id} /\ F[id] = row
      /\ \A x \in DOMAIN E : F[x] = E[x]
  BY DEF Put
<1>2. FolderParents(F)
  BY <1>1 DEF FolderParents, FolderParent
<1>3. ASSUME NEW S \in SUBSET DOMAIN F, S # {} PROVE \E x \in S : F[x].parent \notin S
  <2>1. row.parent # id
    BY RootAssumption DEF FolderParent
  <2>2. CASE S \ {id} = {}
    BY <1>1, <1>3, <2>1, <2>2
  <2>3. CASE S \ {id} # {}
    <3>1. S \ {id} \in SUBSET DOMAIN E
      BY <1>1
    <3>2. PICK x \in S \ {id} : E[x].parent \notin S \ {id}
      BY <2>3, <3>1 DEF Acyclic
    <3>3. E[x].parent # id
      BY <3>1, RootAssumption DEF FolderParents, FolderParent
    <3> QED BY <1>1, <3>1, <3>2, <3>3
  <2> QED BY <2>2, <2>3
<1> HIDE DEF F
<1>4. Acyclic(F)
  BY <1>3 DEF Acyclic
<1> QED BY <1>2, <1>4 DEF F

(* Removing a set of entries that holds every child of its members leaves  *)
(* no entry without its parent.                                            *)
LEMMA RemoveKeepsTree ==
  ASSUME NEW E, IsTable(E, EntryId, EntryRow), FolderParents(E), Acyclic(E), NEW S,
         \A x \in DOMAIN E \ S : E[x].parent \notin S
  PROVE  FolderParents(Remove(E, S)) /\ Acyclic(Remove(E, S))
<1> DEFINE F == Remove(E, S)
<1>1. DOMAIN F = DOMAIN E \ S /\ \A x \in DOMAIN F : F[x] = E[x]
  BY RemoveLemma
<1> HIDE DEF F
<1>2. FolderParents(F)
  BY <1>1 DEF FolderParents, FolderParent
<1>3. Acyclic(F)
  BY <1>1 DEF Acyclic
<1> QED BY <1>2, <1>3 DEF F

(* The rows outside a subtree have their parents outside it. *)
LEMMA SubtreeHoldsItsChildren ==
  ASSUME NEW E, NEW a, FolderParents(E)
  PROVE  \A x \in DOMAIN E \ Subtree(E, a) :
           E[x].parent = Root \/ E[x].parent \in DOMAIN E \ Subtree(E, a)
<1> SUFFICES ASSUME NEW x \in DOMAIN E, x \notin Subtree(E, a), E[x].parent # Root
             PROVE  E[x].parent \in DOMAIN E \ Subtree(E, a)
  OBVIOUS
<1>1. PICK A \in SUBSET DOMAIN E : x \in A /\ ParentClosed(E, A) /\ a \notin A
  BY DEF Subtree, OnChain
<1>2. E[x].parent \in A
  BY <1>1 DEF ParentClosed
<1> QED BY <1>1, <1>2 DEF Subtree, OnChain

(* Writing only names and keys moves nothing. *)
LEMMA SameParentsSameTree ==
  ASSUME NEW E, NEW F, DOMAIN F = DOMAIN E, FolderParents(E), Acyclic(E),
         \A x \in DOMAIN E : /\ F[x].parent = E[x].parent
                             /\ F[x].vault = E[x].vault /\ F[x].kind = E[x].kind
  PROVE  FolderParents(F) /\ Acyclic(F)
<1>1. FolderParents(F)
  BY DEF FolderParents, FolderParent
<1>2. Acyclic(F)
  BY DEF Acyclic
<1> QED BY <1>1, <1>2

(* The ancestor check of MoveEntry is enough: when src is not on the chain *)
(* of the destination, a closed set holds the destination without src, and *)
(* any cycle the move could close would lie in that set already.           *)
LEMMA MoveKeepsTree ==
  ASSUME NEW E, IsTable(E, EntryId, EntryRow), FolderParents(E), Acyclic(E),
         NEW src \in DOMAIN E, NEW p \in Parent, FolderParent(E, E[src].vault, p),
         p # Root => ~OnChain(E, src, p)
  PROVE  LET F == [E EXCEPT ![src].parent = p] IN FolderParents(F) /\ Acyclic(F)
<1> DEFINE F == [E EXCEPT ![src].parent = p]
<1>1. /\ DOMAIN F = DOMAIN E
      /\ F[src].parent = p
      /\ \A x \in DOMAIN E : F[x].vault = E[x].vault /\ F[x].kind = E[x].kind
      /\ \A x \in DOMAIN E \ {src} : F[x].parent = E[x].parent
  BY DEF IsTable, EntryRow
<1> HIDE DEF F
<1>2. FolderParents(F)
  BY <1>1 DEF FolderParents, FolderParent
<1>3. ASSUME NEW S \in SUBSET DOMAIN E, S # {}, \A x \in S : F[x].parent \in S
      PROVE  FALSE
  <2>1. src \in S
    <3>1. PICK x \in S : E[x].parent \notin S
      BY <1>3 DEF Acyclic
    <3> QED BY <1>1, <1>3, <3>1
  <2>2. p \in S /\ p # Root
    BY <1>1, <1>3, <2>1, RootAssumption DEF IsTable
  <2>3. PICK A \in SUBSET DOMAIN E : p \in A /\ ParentClosed(E, A) /\ src \notin A
    BY <2>2 DEF OnChain
  <2>4. S \cap A # {} /\ S \cap A \in SUBSET DOMAIN E
    BY <2>2, <2>3
  <2>5. PICK x \in S \cap A : E[x].parent \notin S \cap A
    BY <2>4 DEF Acyclic
  <2>6. E[x].parent \in S
    BY <1>1, <1>3, <2>3, <2>5
  <2>7. E[x].parent \in A
    BY <2>3, <2>5, <2>6, RootAssumption DEF ParentClosed, IsTable
  <2> QED BY <2>5, <2>6, <2>7
<1>4. Acyclic(F)
  BY <1>1, <1>3 DEF Acyclic
<1> QED BY <1>2, <1>4 DEF F

-----------------------------------------------------------------------------
(* The five ways a step may treat the entries table, each with what the    *)
(* code has checked by the time it writes.                                 *)
Kept ==
  /\ entries' = entries
  /\ vaults \subseteq vaults'
  /\ \A f \in files' : f \in files \/ (f \in DOMAIN entries /\ entries[f].kind = "file")
  /\ files \subseteq files'
  /\ \A c \in chunks' : c \in chunks \/ c[1] \in files
  /\ \A j \in DOMAIN jobs' :
       \/ j \in DOMAIN jobs /\ jobs'[j] = jobs[j]
       \/ /\ jobs'[j].vault \in vaults
          /\ jobs'[j].entry # NoEntry => /\ jobs'[j].entry \in DOMAIN entries
                                         /\ entries[jobs'[j].entry].vault = jobs'[j].vault
  /\ unused' = unused

Inserted ==
  \E id \in unused, row \in EntryRow :
    /\ entries' = Put(entries, id, row)
    /\ row.vault \in vaults
    /\ FolderParent(entries, row.vault, row.parent)
    /\ KeyFree(entries, row.vault, row.parent, row.key, Root)
    /\ row.key = Fold[row.name]
    /\ unused' = unused \ {id}
    /\ UNCHANGED <<vaults, refs>>

Renamed ==
  \E id \in DOMAIN entries, n \in Name :
    /\ entries' = [entries EXCEPT ![id].name = n, ![id].key = Fold[n]]
    /\ entries[id].status = "available"
    /\ KeyFree(entries, entries[id].vault, entries[id].parent, Fold[n], id)
    /\ UNCHANGED <<vaults, refs, unused>>

Moved ==
  \E id \in DOMAIN entries, p \in Parent :
    /\ entries' = [entries EXCEPT ![id].parent = p]
    /\ entries[id].status = "available"
    /\ FolderParent(entries, entries[id].vault, p)
    /\ p # Root => ~OnChain(entries, id, p)
    /\ KeyFree(entries, entries[id].vault, p, entries[id].key, id)
    /\ UNCHANGED <<vaults, refs, unused>>

Removed ==
  \E S :
    /\ entries' = Remove(entries, S)
    /\ \A x \in DOMAIN entries \ S : entries[x].parent \notin S
    /\ \A x \in S : x \in DOMAIN entries /\ ~Precious(x)
    /\ \/ \A x \in S : entries[x].status = "available"
       \/ \E x : S = {x} /\ reply'.req = [op |-> "DeleteFolder", id |-> x, recursive |-> FALSE]
    /\ UNCHANGED <<vaults, refs, unused>>

LEMMA StepKinds ==
  ASSUME Consistent, [Next]_vars
  PROVE  Kept \/ Inserted \/ Renamed \/ Moved \/ Removed
<1> USE DEF Consistent
<1>1. ASSUME NEW raw \in RawName, CreateLocalVault(raw) PROVE Kept
  BY <1>1 DEF CreateLocalVault, Kept, refs
<1>2. ASSUME NEW v \in VaultId, NEW p \in Parent, NEW raw \in RawName, CreateFolder(v, p, raw)
      PROVE  Kept \/ Inserted
  <2> DEFINE row == [vault |-> v, parent |-> p, kind |-> "folder", name |-> Display[raw],
                     key |-> Fold[Display[raw]], status |-> "available"]
  <2>1. CASE CreateFolderCode(v, p, raw) # "OK"
    BY <1>2, <2>1 DEF CreateFolder, Kept, refs
  <2>2. CASE CreateFolderCode(v, p, raw) = "OK"
    <3>1. /\ Display[raw] # Invalid
          /\ v \in vaults
          /\ GoodParent(entries, v, p)
          /\ KeyFree(entries, v, p, Fold[Display[raw]], Root)
      BY <2>2 DEF CreateFolderCode
    <3>2. row \in EntryRow
      BY <3>1, NameLemma DEF EntryRow, Kind, Status
    <3>3. FolderParent(entries, v, p)
      BY <3>1 DEF GoodParent, FolderParent
    <3>4. PICK id \in unused : entries' = Put(entries, id, row) /\ unused' = unused \ {id}
      BY <1>2, <2>2 DEF CreateFolder
    <3>5. UNCHANGED <<vaults, refs>>
      BY <1>2 DEF CreateFolder
    <3>6. Inserted
      BY <3>1, <3>2, <3>3, <3>4, <3>5 DEF Inserted
    <3> QED BY <3>6
  <2> QED BY <2>1, <2>2
<1>3. ASSUME NEW id \in EntryId, NEW raw \in RawName, RenameEntry(id, raw)
      PROVE  Kept \/ Renamed
  <2>1. CASE RenameEntryCode(id, raw) # "OK"
    BY <1>3, <2>1 DEF RenameEntry, Kept, refs
  <2>2. CASE RenameEntryCode(id, raw) = "OK"
    <3>1. /\ Display[raw] # Invalid
          /\ id \in DOMAIN entries
          /\ entries[id].status = "available"
          /\ KeyFree(entries, entries[id].vault, entries[id].parent, Fold[Display[raw]], id)
      BY <2>2 DEF RenameEntryCode
    <3>2. Display[raw] \in Name
      BY <3>1, NameLemma
    <3>3. entries' = [entries EXCEPT ![id].name = Display[raw],
                                     ![id].key = Fold[Display[raw]]]
      BY <1>3, <2>2 DEF RenameEntry
    <3>4. UNCHANGED <<vaults, refs, unused>>
      BY <1>3 DEF RenameEntry
    <3> QED BY <3>1, <3>2, <3>3, <3>4 DEF Renamed
  <2> QED BY <2>1, <2>2
<1>4. ASSUME NEW id \in EntryId, NEW p \in Parent, MoveEntry(id, p) PROVE Kept \/ Moved
  <2>1. CASE MoveEntryCode(id, p) # "OK"
    BY <1>4, <2>1 DEF MoveEntry, Kept, refs
  <2>2. CASE MoveEntryCode(id, p) = "OK"
    <3>1. id \in DOMAIN entries /\ entries[id].status = "available"
      BY <2>2 DEF MoveEntryCode
    <3>2. entries' = [entries EXCEPT ![id].parent = p] /\ UNCHANGED <<vaults, refs, unused>>
      BY <1>4, <2>2 DEF MoveEntry
    <3>3. CASE entries[id].parent = p
      <4>1. entries' = entries
        BY <3>1, <3>2, <3>3 DEF TypeOK, IsTable, EntryRow
      <4> QED BY <3>2, <4>1 DEF Kept, refs
    <3>4. CASE entries[id].parent # p
      <4>1. /\ GoodParent(entries, entries[id].vault, p)
            /\ p # Root => ~OnChain(entries, id, p)
            /\ KeyFree(entries, entries[id].vault, p, entries[id].key, id)
        BY <2>2, <3>4 DEF MoveEntryCode
      <4>2. FolderParent(entries, entries[id].vault, p)
        BY <4>1 DEF GoodParent, FolderParent
      <4> QED BY <3>1, <3>2, <4>1, <4>2 DEF Moved
    <3> QED BY <3>3, <3>4
  <2> QED BY <2>1, <2>2
<1>5. ASSUME NEW id \in EntryId, NEW recursive \in BOOLEAN, DeleteFolder(id, recursive)
      PROVE  Kept \/ Removed
  <2>1. CASE DeleteFolderCode(id, recursive) # "OK"
    BY <1>5, <2>1 DEF DeleteFolder, Kept, refs
  <2>2. CASE DeleteFolderCode(id, recursive) = "OK" /\ recursive
    <3>1. \A x \in Subtree(entries, id) : ~Blocks(x)
      BY <2>2 DEF DeleteFolderCode
    <3>2. entries' = Remove(entries, Subtree(entries, id)) /\ UNCHANGED <<vaults, refs, unused>>
      BY <1>5, <2>2 DEF DeleteFolder
    <3>3. \A x \in DOMAIN entries \ Subtree(entries, id) :
            entries[x].parent \notin Subtree(entries, id)
      <4>1. FolderParents(entries)
        BY DEF Tree, FolderParents
      <4>2. Root \notin Subtree(entries, id)
        BY RootAssumption DEF Subtree, TypeOK, IsTable
      <4> QED BY <4>1, <4>2, SubtreeHoldsItsChildren
    <3>4. \A x \in Subtree(entries, id) :
            x \in DOMAIN entries /\ ~Precious(x) /\ entries[x].status = "available"
      BY <3>1 DEF Subtree, Blocks, Precious
    <3> QED BY <3>2, <3>3, <3>4 DEF Removed
  <2>3. CASE DeleteFolderCode(id, recursive) = "OK" /\ ~recursive
    <3>1. /\ id \in DOMAIN entries /\ entries[id].kind = "folder"
          /\ Dependents(entries, files, jobs, id) = {}
      BY <2>3 DEF DeleteFolderCode
    <3>2. /\ \A y \in DOMAIN entries : entries[y].parent # id
          /\ \A j \in DOMAIN jobs : jobs[j].entry # id
      BY <3>1 DEF Dependents
    <3>3. ~Precious(id)
      BY <3>1, <3>2 DEF Precious
    <3>4. entries' = Remove(entries, {id}) /\ UNCHANGED <<vaults, refs, unused>>
      BY <1>5, <2>3 DEF DeleteFolder
    <3>5. reply'.req = [op |-> "DeleteFolder", id |-> id, recursive |-> FALSE]
      BY <1>5, <2>3 DEF DeleteFolder, Answer, Reply
    <3> QED BY <3>1, <3>2, <3>3, <3>4, <3>5 DEF Removed
  <2> QED BY <2>1, <2>2, <2>3
<1>6. CASE Unavailable
  BY <1>6 DEF Unavailable, Kept, refs
<1>6a. CASE ListVaults
  BY <1>6a DEF ListVaults, Kept, refs
<1>6b. ASSUME NEW v \in VaultId, GetVault(v) PROVE Kept
  BY <1>6b DEF GetVault, Kept, refs
<1>6c. ASSUME NEW v \in VaultId, NEW p \in Parent, ListEntries(v, p) PROVE Kept
  BY <1>6c DEF ListEntries, Kept, refs
<1>7. ASSUME NEW v \in VaultId, NEW p \in Parent, NEW kind \in Kind, NEW status \in Status,
             NEW n \in Name, InsertEntry(v, p, kind, status, n)
      PROVE  Inserted
  <2> DEFINE row == [vault |-> v, parent |-> p, kind |-> kind, name |-> n,
                     key |-> Fold[n], status |-> status]
  <2>1. row \in EntryRow
    BY NameAssumption DEF EntryRow
  <2>2. PICK id \in unused : entries' = Put(entries, id, row) /\ unused' = unused \ {id}
    BY <1>7 DEF InsertEntry
  <2>3. /\ v \in vaults /\ FolderParent(entries, v, p)
        /\ KeyFree(entries, v, p, Fold[n], Root)
        /\ UNCHANGED <<vaults, refs>>
    BY <1>7 DEF InsertEntry
  <2> QED BY <2>1, <2>2, <2>3 DEF Inserted
<1>8. ASSUME NEW id \in EntryId, InsertFile(id) PROVE Kept
  BY <1>8 DEF InsertFile, Kept
<1>9. ASSUME NEW id \in EntryId, NEW i \in ChunkIndex, InsertChunk(id, i) PROVE Kept
  BY <1>9 DEF InsertChunk, Kept
<1>10. ASSUME NEW j \in JobId, NEW v \in VaultId, NEW id \in EntryId \cup {NoEntry},
              InsertJob(j, v, id)
       PROVE  Kept
  BY <1>10 DEF InsertJob, Kept, Put
<1>11. CASE UNCHANGED vars
  BY <1>11 DEF vars, refs, Kept
<1> QED BY <1>1, <1>2, <1>3, <1>4, <1>5, <1>6, <1>7, <1>8, <1>9, <1>10, <1>11,
           <1>6a, <1>6b, <1>6c
        DEF Next, Service, Repositories

-----------------------------------------------------------------------------
LEMMA TreeStep ==
  ASSUME Consistent, Kept \/ Inserted \/ Renamed \/ Moved \/ Removed
  PROVE  Tree'
<1>1. IsTable(entries, EntryId, EntryRow) /\ FolderParents(entries) /\ Acyclic(entries)
  BY DEF Consistent, TypeOK, Tree, FolderParents
<1>2. SUFFICES FolderParents(entries') /\ Acyclic(entries')
  BY DEF Tree, FolderParents
<1>3. CASE Kept
  BY <1>1, <1>3 DEF Kept
<1>4. CASE Inserted
  <2>1. PICK id \in unused, row \in EntryRow :
          entries' = Put(entries, id, row) /\ FolderParent(entries, row.vault, row.parent)
    BY <1>4 DEF Inserted
  <2>2. id \in EntryId \ DOMAIN entries
    BY DEF Consistent, TypeOK
  <2> QED BY <1>1, <2>1, <2>2, PutKeepsTree
<1>5. CASE Renamed
  <2>1. PICK id \in DOMAIN entries, n \in Name :
          entries' = [entries EXCEPT ![id].name = n, ![id].key = Fold[n]]
    BY <1>5 DEF Renamed
  <2>2. /\ DOMAIN entries' = DOMAIN entries
        /\ \A x \in DOMAIN entries : /\ entries'[x].parent = entries[x].parent
                                     /\ entries'[x].vault = entries[x].vault
                                     /\ entries'[x].kind = entries[x].kind
    BY <1>1, <2>1 DEF IsTable, EntryRow
  <2> QED BY <1>1, <2>2, SameParentsSameTree
<1>6. CASE Moved
  <2>1. PICK id \in DOMAIN entries, p \in Parent :
          /\ entries' = [entries EXCEPT ![id].parent = p]
          /\ FolderParent(entries, entries[id].vault, p)
          /\ p # Root => ~OnChain(entries, id, p)
    BY <1>6 DEF Moved
  <2> QED BY <1>1, <2>1, MoveKeepsTree
<1>7. CASE Removed
  <2>1. PICK S : /\ entries' = Remove(entries, S)
                 /\ \A x \in DOMAIN entries \ S : entries[x].parent \notin S
    BY <1>7 DEF Removed
  <2> QED BY <1>1, <2>1, RemoveKeepsTree
<1> QED BY <1>3, <1>4, <1>5, <1>6, <1>7

LEMMA UniqueKeysStep ==
  ASSUME Consistent, Kept \/ Inserted \/ Renamed \/ Moved \/ Removed
  PROVE  UniqueKeys'
<1> USE DEF Consistent
<1>1. IsTable(entries, EntryId, EntryRow)
  BY DEF TypeOK
<1>2. CASE Kept
  BY <1>2 DEF Kept, UniqueKeys
<1>3. CASE Inserted
  <2>1. PICK id \in unused, row \in EntryRow :
          /\ entries' = Put(entries, id, row)
          /\ KeyFree(entries, row.vault, row.parent, row.key, Root)
          /\ row.key = Fold[row.name]
    BY <1>3 DEF Inserted
  <2>2. /\ DOMAIN entries' = DOMAIN entries \cup {id} /\ entries'[id] = row
        /\ \A x \in DOMAIN entries : entries'[x] = entries[x]
    BY <2>1 DEF Put
  <2>3. \A x \in DOMAIN entries :
          entries[x].vault = row.vault /\ entries[x].parent = row.parent
            => entries[x].key # row.key
    BY <1>1, <2>1, RootAssumption DEF KeyFree, Children, IsTable
  <2> QED BY <2>1, <2>2, <2>3 DEF UniqueKeys
<1>4. CASE Renamed
  <2>1. PICK id \in DOMAIN entries, n \in Name :
          /\ entries' = [entries EXCEPT ![id].name = n, ![id].key = Fold[n]]
          /\ KeyFree(entries, entries[id].vault, entries[id].parent, Fold[n], id)
    BY <1>4 DEF Renamed
  <2>2. /\ DOMAIN entries' = DOMAIN entries
        /\ entries'[id].name = n /\ entries'[id].key = Fold[n]
        /\ \A x \in DOMAIN entries : /\ entries'[x].parent = entries[x].parent
                                     /\ entries'[x].vault = entries[x].vault
        /\ \A x \in DOMAIN entries \ {id} : entries'[x] = entries[x]
    BY <1>1, <2>1 DEF IsTable, EntryRow
  <2>3. \A x \in DOMAIN entries \ {id} :
          entries[x].vault = entries[id].vault /\ entries[x].parent = entries[id].parent
            => entries[x].key # Fold[n]
    BY <2>1 DEF KeyFree, Children
  <2> QED BY <2>2, <2>3 DEF UniqueKeys
<1>5. CASE Moved
  <2>1. PICK id \in DOMAIN entries, p \in Parent :
          /\ entries' = [entries EXCEPT ![id].parent = p]
          /\ KeyFree(entries, entries[id].vault, p, entries[id].key, id)
    BY <1>5 DEF Moved
  <2>2. /\ DOMAIN entries' = DOMAIN entries
        /\ entries'[id].parent = p
        /\ \A x \in DOMAIN entries : /\ entries'[x].key = entries[x].key
                                     /\ entries'[x].name = entries[x].name
                                     /\ entries'[x].vault = entries[x].vault
        /\ \A x \in DOMAIN entries \ {id} : entries'[x] = entries[x]
    BY <1>1, <2>1 DEF IsTable, EntryRow
  <2>3. \A x \in DOMAIN entries \ {id} :
          entries[x].vault = entries[id].vault /\ entries[x].parent = p
            => entries[x].key # entries[id].key
    BY <2>1 DEF KeyFree, Children
  <2> QED BY <2>2, <2>3 DEF UniqueKeys
<1>6. CASE Removed
  <2>1. PICK S : entries' = Remove(entries, S)
    BY <1>6 DEF Removed
  <2>2. DOMAIN entries' = DOMAIN entries \ S /\ \A x \in DOMAIN entries' : entries'[x] = entries[x]
    BY <2>1 DEF Remove, Restrict
  <2> QED BY <2>2 DEF UniqueKeys
<1> QED BY <1>2, <1>3, <1>4, <1>5, <1>6

LEMMA ReferencesStep ==
  ASSUME Consistent, Kept \/ Inserted \/ Renamed \/ Moved \/ Removed
  PROVE  References'
<1> USE DEF Consistent
<1>1. IsTable(entries, EntryId, EntryRow)
  BY DEF TypeOK
<1>2. CASE Kept
  BY <1>2 DEF Kept, References
<1>3. ASSUME UNCHANGED <<vaults, refs>>,
             \A x \in DOMAIN entries' : entries'[x].vault \in vaults,
             \A x \in DOMAIN entries : x \in DOMAIN entries' \/ ~Precious(x),
             \A x \in DOMAIN entries : x \in DOMAIN entries' =>
               entries'[x].vault = entries[x].vault /\ entries'[x].kind = entries[x].kind
      PROVE  References'
  <2>1. vaults' = vaults /\ files' = files /\ chunks' = chunks /\ jobs' = jobs
    BY <1>3 DEF refs
  <2>2. \A f \in files : f \in DOMAIN entries' /\ entries'[f].kind = "file"
    BY <1>3 DEF References, Precious
  <2>3. \A j \in DOMAIN jobs :
          jobs[j].entry # NoEntry => /\ jobs[j].entry \in DOMAIN entries'
                                     /\ entries'[jobs[j].entry].vault = jobs[j].vault
    BY <1>3 DEF References, Precious
  <2> QED BY <1>3, <2>1, <2>2, <2>3 DEF References
<1>4. CASE Inserted
  <2>1. PICK id \in unused, row \in EntryRow :
          entries' = Put(entries, id, row) /\ row.vault \in vaults
    BY <1>4 DEF Inserted
  <2>2. /\ DOMAIN entries' = DOMAIN entries \cup {id} /\ entries'[id] = row
        /\ \A x \in DOMAIN entries : x # id => entries'[x] = entries[x]
    BY <2>1 DEF Put
  <2>3. id \notin DOMAIN entries
    OBVIOUS
  <2>4. UNCHANGED <<vaults, refs>>
    BY <1>4 DEF Inserted
  <2> QED BY <1>3, <2>1, <2>2, <2>3, <2>4 DEF References
<1>5. CASE Renamed
  <2>1. PICK id \in DOMAIN entries, n \in Name :
          entries' = [entries EXCEPT ![id].name = n, ![id].key = Fold[n]]
    BY <1>5 DEF Renamed
  <2>2. /\ DOMAIN entries' = DOMAIN entries
        /\ \A x \in DOMAIN entries : /\ entries'[x].vault = entries[x].vault
                                     /\ entries'[x].kind = entries[x].kind
    BY <1>1, <2>1 DEF IsTable, EntryRow
  <2>3. UNCHANGED <<vaults, refs>>
    BY <1>5 DEF Renamed
  <2> QED BY <1>3, <2>2, <2>3 DEF References
<1>6. CASE Moved
  <2>1. PICK id \in DOMAIN entries, p \in Parent : entries' = [entries EXCEPT ![id].parent = p]
    BY <1>6 DEF Moved
  <2>2. /\ DOMAIN entries' = DOMAIN entries
        /\ \A x \in DOMAIN entries : /\ entries'[x].vault = entries[x].vault
                                     /\ entries'[x].kind = entries[x].kind
    BY <1>1, <2>1 DEF IsTable, EntryRow
  <2>3. UNCHANGED <<vaults, refs>>
    BY <1>6 DEF Moved
  <2> QED BY <1>3, <2>2, <2>3 DEF References
<1>7. CASE Removed
  <2>1. PICK S : /\ entries' = Remove(entries, S)
                 /\ \A x \in S : x \in DOMAIN entries /\ ~Precious(x)
    BY <1>7 DEF Removed
  <2>2. DOMAIN entries' = DOMAIN entries \ S /\ \A x \in DOMAIN entries' : entries'[x] = entries[x]
    BY <2>1 DEF Remove, Restrict
  <2>3. UNCHANGED <<vaults, refs>>
    BY <1>7 DEF Removed
  <2> QED BY <1>3, <2>1, <2>2, <2>3 DEF References
<1> QED BY <1>2, <1>4, <1>5, <1>6, <1>7

LEMMA UnusedStep ==
  ASSUME Consistent, Kept \/ Inserted \/ Renamed \/ Moved \/ Removed
  PROVE  unused' \cap DOMAIN entries' = {}
<1> USE DEF Consistent
<1>1. CASE Kept
  BY <1>1 DEF Kept
<1>2. CASE Inserted
  BY <1>2 DEF Inserted, Put
<1>3. CASE Renamed
  BY <1>3 DEF Renamed
<1>4. CASE Moved
  BY <1>4 DEF Moved
<1>5. CASE Removed
  BY <1>5 DEF Removed, Remove, Restrict
<1> QED BY <1>1, <1>2, <1>3, <1>4, <1>5

-----------------------------------------------------------------------------
LEMMA ConsistentInit == Init => Consistent
<1>1. ASSUME Init PROVE TypeOK
  BY <1>1, TypingInit
<1>2. ASSUME Init PROVE Tree /\ UniqueKeys /\ References /\ unused \cap DOMAIN entries = {}
  BY <1>2 DEF Init, Tree, Acyclic, UniqueKeys, References
<1> QED BY <1>1, <1>2 DEF Consistent

LEMMA ConsistentStep == Consistent /\ [Next]_vars => Consistent'
<1> SUFFICES ASSUME Consistent, [Next]_vars PROVE Consistent'
  OBVIOUS
<1>1. TypeOK'
  BY TypingStep DEF Consistent
<1>2. Kept \/ Inserted \/ Renamed \/ Moved \/ Removed
  BY StepKinds
<1> QED BY <1>1, <1>2, TreeStep, UniqueKeysStep, ReferencesStep, UnusedStep DEF Consistent

(* Consistent is the inductive invariant of a fresh database and of one   *)
(* that is opened again.                                                   *)
THEOREM Consistency == (Spec => []Consistent) /\ (Resumed => []Consistent)
BY ConsistentInit, ConsistentStep, PTL DEF Spec, Resumed

(* In every reachable state the entries of each vault form a forest of     *)
(* folders: this is what the ancestor walk of MoveEntry is for.            *)
THEOREM HierarchyIsATree == Spec => []Tree
<1>1. Consistent => Tree
  BY DEF Consistent
<1> QED BY <1>1, Consistency, PTL

(* Two siblings never share a lookup key.                                  *)
THEOREM NoCollisions == Spec => []UniqueKeys
<1>1. Consistent => UniqueKeys
  BY DEF Consistent
<1> QED BY <1>1, Consistency, PTL

(* No row ever refers to a row that a delete has taken away.               *)
THEOREM NoDanglingReferences == Spec => []References
<1>1. Consistent => References
  BY DEF Consistent
<1> QED BY <1>1, Consistency, PTL

(* No step removes a file entry or an entry that a job refers to.          *)
THEOREM RemoteReferencesSurvive == Spec => PreciousSurvives
<1>1. Consistent /\ [Next]_vars => [\A x \in DOMAIN entries : Precious(x) => x \in DOMAIN entries']_vars
  <2> SUFFICES ASSUME Consistent, [Next]_vars, NEW x \in DOMAIN entries, Precious(x)
               PROVE  x \in DOMAIN entries'
    OBVIOUS
  <2>1. IsTable(entries, EntryId, EntryRow)
    BY DEF Consistent, TypeOK
  <2>2. CASE Kept \/ Renamed \/ Moved
    BY <2>2 DEF Kept, Renamed, Moved
  <2>3. CASE Inserted
    BY <2>3 DEF Inserted, Put
  <2>4. CASE Removed
    BY <2>4 DEF Removed, Remove, Restrict
  <2> QED BY <2>2, <2>3, <2>4, StepKinds
<1> QED BY <1>1, Consistency, PTL DEF Spec, PreciousSurvives

(* An entry that is not available stays as it is, unless a non-recursive   *)
(* delete names it.                                                        *)
THEOREM UnavailableEntriesStay == Spec => HeldInPlace
<1> DEFINE Held ==
      \A x \in DOMAIN entries : entries[x].status # "available" =>
        IF x \in DOMAIN entries' THEN entries'[x] = entries[x]
        ELSE reply'.req = [op |-> "DeleteFolder", id |-> x, recursive |-> FALSE]
<1>1. Consistent /\ [Next]_vars => [Held]_vars
  <2> SUFFICES ASSUME Consistent, [Next]_vars,
                      NEW x \in DOMAIN entries, entries[x].status # "available"
               PROVE  IF x \in DOMAIN entries' THEN entries'[x] = entries[x]
                      ELSE reply'.req = [op |-> "DeleteFolder", id |-> x, recursive |-> FALSE]
    OBVIOUS
  <2>1. IsTable(entries, EntryId, EntryRow)
    BY DEF Consistent, TypeOK
  <2>2. CASE Kept
    BY <2>2 DEF Kept
  <2>3. CASE Inserted
    BY <2>3 DEF Inserted, Put, Consistent
  <2>4. CASE Renamed
    BY <2>1, <2>4 DEF Renamed, IsTable
  <2>5. CASE Moved
    BY <2>1, <2>5 DEF Moved, IsTable
  <2>6. CASE Removed
    BY <2>6 DEF Removed, Remove, Restrict
  <2> QED BY <2>2, <2>3, <2>4, <2>5, <2>6, StepKinds
<1> QED BY <1>1, Consistency, PTL DEF Spec, HeldInPlace
=============================================================================
