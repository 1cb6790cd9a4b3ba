--------------------------- MODULE FolderTxProofs ---------------------------
(***************************************************************************)
(* Proofs about FolderTx, for any clients, processes, requests, databases  *)
(* and disturbances: the locks keep transactions apart, what an operation  *)
(* has checked holds until it commits, and every behaviour is one of       *)
(* Namespace.                                                              *)
(***************************************************************************)
EXTENDS FolderTx, FiniteSetTheorems, SequenceTheorems, TLAPS

NSP == INSTANCE NamespaceProofs WITH
         vaults <- db.vaults, entries <- db.entries, unused <- db.unused, chunks <- {}

(***************************************************************************)
(* What the operations have found out so far.  d, F and J are the database *)
(* committed, t is what the transaction sees, l are the locals.            *)
(***************************************************************************)
Local == [cur : Parent, visited : SUBSET EntryId, order : Seq(EntryId), head : Nat, pos : Nat,
          rows : SUBSET (VaultId \cup NS!Listed)]

Parented(r, d) == r.vault \in d.vaults /\ GoodParent(d.entries, r.vault, r.parent)
Renamable(r, d) ==
  r.op = "RenameEntry" /\ r.id \in DOMAIN d.entries /\ d.entries[r.id].status = "available"
Movable(r, d) ==
  /\ r.op = "MoveEntry" /\ r.id \in DOMAIN d.entries /\ d.entries[r.id].status = "available"
  /\ d.entries[r.id].parent # r.to
Deletable(r, d) ==
  r.op = "DeleteFolder" /\ r.id \in DOMAIN d.entries /\ d.entries[r.id].kind = "folder"

(* The walk is at cur, on the chain of dest; it has passed visited.        *)
Climbing(E, src, dest, cur, visited) ==
  /\ cur \in DOMAIN E /\ visited \subseteq DOMAIN E
  /\ dest \in visited \cup {cur} /\ src \notin visited
  /\ OnChain(E, cur, dest)
  /\ \A x \in visited : E[x].parent # Root /\ E[x].parent \in visited \cup {cur}

(* The breadth-first order from a: folders come after their parents, and   *)
(* those before head have all their children in it.                        *)
Enumerating(E, a, order, head) ==
  /\ order \in Seq(EntryId) /\ head \in 1..Len(order) + 1
  /\ Len(order) >= 1 /\ order[1] = a
  /\ \A i \in 1..Len(order) : order[i] \in Subtree(E, a) /\ E[order[i]].vault = E[a].vault
  /\ \A i, j \in 1..Len(order) : order[i] = order[j] => i = j
  /\ \A i \in 2..Len(order) : \E j \in 1..head - 1 : j < i /\ E[order[i]].parent = order[j]
  /\ \A j \in 1..head - 1 : \A y \in Children(E, E[a].vault, order[j]) :
       \E i \in 1..Len(order) : order[i] = y

Enumerated(E, a, order) == Enumerating(E, a, order, Len(order) + 1)

Clean(E, F, x) == E[x].kind = "folder" /\ E[x].status = "available" /\ x \notin F
Jobless(J, order) == ~\E j \in DOMAIN J : J[j].entry \in Range(order)

Deleting(r, t, l, d, F, J) ==
  /\ Deletable(r, d)
  /\ l.pos <= Len(l.order)
  /\ t = [d EXCEPT !.entries =
            Remove(d.entries, {l.order[i] : i \in l.pos + 1..Len(l.order)})]
  /\ IF r.recursive
     THEN /\ Enumerated(d.entries, r.id, l.order)
          /\ \A i \in 1..Len(l.order) : Clean(d.entries, F, l.order[i])
          /\ Jobless(J, l.order)
     ELSE /\ l.order = <<r.id>>
          /\ Children(d.entries, d.entries[r.id].vault, r.id) = {}
          /\ l.pos = 0 => Dependents(d.entries, F, J, r.id) = {}

(* The codes of Namespace, of the database as values. *)
CreateCode(r, d) ==
  IF Rejected(r.name) THEN "INVALID_NAME"
  ELSE IF r.vault \notin d.vaults THEN "NOT_FOUND"
  ELSE IF ~GoodParent(d.entries, r.vault, r.parent) THEN "INVALID_PARENT"
  ELSE IF ~KeyFree(d.entries, r.vault, r.parent, LookupKey(r.name), Root) THEN "FILE_CONFLICT"
  ELSE "OK"

RenameCode(r, d) ==
  LET E == d.entries IN
  IF Rejected(r.name) THEN "INVALID_NAME"
  ELSE IF r.id \notin DOMAIN E THEN "NOT_FOUND"
  ELSE IF E[r.id].status # "available" THEN "INVALID_STATE"
  ELSE IF ~KeyFree(E, E[r.id].vault, E[r.id].parent, LookupKey(r.name), r.id) THEN "FILE_CONFLICT"
  ELSE "OK"

MoveCode(r, d) ==
  LET E == d.entries IN
  IF r.to = r.id THEN "INVALID_PARENT"
  ELSE IF r.id \notin DOMAIN E THEN "NOT_FOUND"
  ELSE IF E[r.id].status # "available" THEN "INVALID_STATE"
  ELSE IF E[r.id].parent = r.to THEN "OK"
  ELSE IF ~GoodParent(E, E[r.id].vault, r.to) THEN "INVALID_PARENT"
  ELSE IF r.to # Root /\ OnChain(E, r.id, r.to) THEN "INVALID_HIERARCHY"
  ELSE IF ~KeyFree(E, E[r.id].vault, r.to, E[r.id].key, r.id) THEN "FILE_CONFLICT"
  ELSE "OK"

Blocks(E, F, J, x) ==
  ~Clean(E, F, x) \/ \E j \in DOMAIN J : J[j].entry = x

DeleteCode(r, d, F, J) ==
  LET E == d.entries IN
  IF r.id \notin DOMAIN E THEN "NOT_FOUND"
  ELSE IF E[r.id].kind # "folder" THEN "INVALID_STATE"
  ELSE IF r.recursive
       THEN IF \E x \in Subtree(E, r.id) : Blocks(E, F, J, x) THEN "OPERATION_UNAVAILABLE" ELSE "OK"
  ELSE IF Children(E, E[r.id].vault, r.id) # {} THEN "FOLDER_NOT_EMPTY"
  ELSE IF Dependents(E, F, J, r.id) # {} THEN "OPERATION_UNAVAILABLE"
  ELSE "OK"

ListCode(r, d) ==
  IF r.vault \notin d.vaults THEN "NOT_FOUND"
  ELSE IF ~GoodParent(d.entries, r.vault, r.parent) THEN "INVALID_PARENT"
  ELSE "OK"

(* Namespace answers r with the code, on this database. *)
Answers(r, code, d, F, J) ==
  /\ r.op = "CreateLocalVault" => code = IF Rejected(r.name) THEN "INVALID_NAME" ELSE "OK"
  /\ r.op = "CreateFolder" => code = CreateCode(r, d)
  /\ r.op = "RenameEntry" => code = RenameCode(r, d)
  /\ r.op = "MoveEntry" => code = MoveCode(r, d)
  /\ r.op = "DeleteFolder" => code = DeleteCode(r, d, F, J)
  /\ r.op = "ListVaults" => code = "OK"
  /\ r.op = "GetVault" => code = IF r.vault \in d.vaults THEN "OK" ELSE "NOT_FOUND"
  /\ r.op = "ListEntries" => code = ListCode(r, d)

FolderRow(r) == [vault |-> r.vault, parent |-> r.parent, kind |-> "folder",
                 name |-> Display[r.name], key |-> LookupKey(r.name), status |-> "available"]

(* What a transaction commits that Namespace answers "OK". *)
Result(r, t, rows, d) ==
  LET E == d.entries IN
  /\ r.op = "CreateLocalVault" =>
       rows = {} /\ \E v \in VaultId \ d.vaults : t = [d EXCEPT !.vaults = @ \cup {v}]
  /\ r.op = "CreateFolder" =>
       /\ rows = {}
       /\ \E id \in d.unused : t = [d EXCEPT !.entries = Put(@, id, FolderRow(r)),
                                             !.unused = @ \ {id}]
  /\ r.op = "RenameEntry" =>
       /\ rows = {}
       /\ t = [d EXCEPT !.entries = [E EXCEPT ![r.id].name = Display[r.name],
                                              ![r.id].key = LookupKey(r.name)]]
  /\ r.op = "MoveEntry" =>
       rows = {} /\ t = [d EXCEPT !.entries = [E EXCEPT ![r.id].parent = r.to]]
  /\ r.op = "DeleteFolder" =>
       /\ rows = {}
       /\ t = [d EXCEPT !.entries = Remove(E, IF r.recursive THEN Subtree(E, r.id) ELSE {r.id})]
  /\ r.op = "ListVaults" => rows = d.vaults /\ t = d
  /\ r.op = "GetVault" => rows = {r.vault} /\ t = d
  /\ r.op = "ListEntries" => rows = NS!Rows(E, r.vault, r.parent) /\ t = d

(* Where an operation may be, and what it knows there. *)
At(p, r, t, l, d, F, J) ==
  LET E == d.entries IN
  /\ r \in Menu /\ EarlyCode(r) = "OK"
  /\ p # "commit" => l.rows = {}
  /\ p \notin {"walk", "moveEntry", "expand", "validate", "jobs", "deleteRows", "commit"} => l = NoLoc
  /\ p \notin {"deleteRows", "commit"} => t = d
  /\ p = "insertVault" => r.op = "CreateLocalVault"
  /\ p = "getVault" => r.op \in {"CreateFolder", "GetVault", "ListEntries"}
  /\ p = "checkParent" =>
       \/ Movable(r, d) /\ r.to # Root
       \/ r.op \in {"CreateFolder", "ListEntries"} /\ r.vault \in d.vaults
  /\ p = "insertEntry" => r.op = "CreateFolder" /\ Parented(r, d)
  /\ p = "listEntries" => r.op = "ListEntries" /\ Parented(r, d)
  /\ p = "listVaults" => r.op = "ListVaults"
  /\ p = "getEntry" => r.op \in {"RenameEntry", "MoveEntry", "DeleteFolder"}
  /\ p = "renameEntry" => Renamable(r, d)
  /\ p = "walk" =>
       /\ Movable(r, d) /\ r.to # Root /\ GoodParent(E, E[r.id].vault, r.to)
       /\ Climbing(E, r.id, r.to, l.cur, l.visited)
  /\ p = "moveEntry" =>
       /\ Movable(r, d)
       /\ r.to # Root => GoodParent(E, E[r.id].vault, r.to) /\ ~OnChain(E, r.id, r.to)
  /\ p = "children" => Deletable(r, d) /\ ~r.recursive
  /\ p = "expand" =>
       /\ Deletable(r, d) /\ r.recursive /\ l.pos = 1
       /\ Enumerating(E, r.id, l.order, l.head)
  /\ p = "validate" =>
       /\ Deletable(r, d) /\ r.recursive /\ Enumerated(E, r.id, l.order)
       /\ l.pos \in 1..Len(l.order) + 1
       /\ \A i \in 1..l.pos - 1 : Clean(E, F, l.order[i])
  /\ p = "jobs" =>
       /\ Deletable(r, d) /\ r.recursive /\ Enumerated(E, r.id, l.order)
       /\ \A i \in 1..Len(l.order) : Clean(E, F, l.order[i])
  /\ p = "deleteRows" => Deleting(r, t, l, d, F, J)
  /\ p = "commit" => Answers(r, "OK", d, F, J) /\ Result(r, t, l.rows, d)

-----------------------------------------------------------------------------
Shape ==
  /\ IsDb(db) /\ files \subseteq EntryId /\ IsTable(jobs, JobId, JobRow)
  /\ proc \in [Client -> Store] /\ open \in SUBSET Store
  /\ txMu \in [Store -> Client \cup {Nobody}] /\ writer \in Client \cup {Nobody}
  /\ pc \in [Client -> PC] /\ req \in [Client -> Menu \cup {NoReq}]
  /\ DOMAIN tx = Client /\ \A c \in Client : IsDb(tx[c])
  /\ loc \in [Client -> Local]

(* Who is in a transaction holds both locks, and nobody else does. *)
Locking ==
  /\ \A c \in Client :
       /\ pc[c] \in InTx \cup {"begin"} => txMu[proc[c]] = c
       /\ pc[c] \in InTx <=> writer = c
  /\ \A s \in Store : txMu[s] # Nobody =>
       proc[txMu[s]] = s /\ pc[txMu[s]] \in InTx \cup {"begin"}

(* Before and after its transaction a call has no locals; the requests     *)
(* that wait for it have passed the checks that come first.                *)
Outside ==
  \A c \in Client :
    /\ pc[c] \notin InTx => loc[c] = NoLoc
    /\ pc[c] \in {"lock", "begin"} => req[c] \in Menu /\ EarlyCode(req[c]) = "OK"

Inside ==
  \A c \in Client : pc[c] \in InTx => At(pc[c], req[c], tx[c], loc[c], db, files, jobs)

(* The inductive invariant. *)
IInv == Shape /\ Locking /\ Outside /\ Inside /\ NS!Consistent

-----------------------------------------------------------------------------
(* Values. *)

LEMMA DbFacts ==
  ASSUME NEW t, IsDb(t)
  PROVE  /\ \A E : /\ [t EXCEPT !.entries = E] = [vaults |-> t.vaults, entries |-> E, unused |-> t.unused]
                   /\ IsTable(E, EntryId, EntryRow) => IsDb([t EXCEPT !.entries = E])
         /\ \A V : /\ [t EXCEPT !.vaults = V] = [vaults |-> V, entries |-> t.entries, unused |-> t.unused]
                   /\ V \subseteq VaultId => IsDb([t EXCEPT !.vaults = V])
<1>1. t = [vaults |-> t.vaults, entries |-> t.entries, unused |-> t.unused]
  BY DEF IsDb
<1>2. ASSUME NEW E PROVE [t EXCEPT !.entries = E] = [vaults |-> t.vaults, entries |-> E, unused |-> t.unused]
  BY <1>1
<1>3. ASSUME NEW V PROVE [t EXCEPT !.vaults = V] = [vaults |-> V, entries |-> t.entries, unused |-> t.unused]
  BY <1>1
<1> QED
  BY <1>2, <1>3 DEF IsDb

LEMMA NewEntryFacts ==
  ASSUME NEW t, IsDb(t), NEW E, NEW U
  PROVE  /\ [t EXCEPT !.entries = E, !.unused = U] = [vaults |-> t.vaults, entries |-> E, unused |-> U]
         /\ [t EXCEPT !.unused = U, !.entries = E] = [vaults |-> t.vaults, entries |-> E, unused |-> U]
         /\ IsTable(E, EntryId, EntryRow) /\ U \subseteq EntryId =>
              IsDb([vaults |-> t.vaults, entries |-> E, unused |-> U])
<1> DEFINE x == [t EXCEPT !.entries = E]
           y == [t EXCEPT !.entries = E, !.unused = U]
           z == [t EXCEPT !.unused = U, !.entries = E]
<1>1. t = [vaults |-> t.vaults, entries |-> t.entries, unused |-> t.unused]
  BY DEF IsDb
<1>2. x = [vaults |-> t.vaults, entries |-> E, unused |-> t.unused]
  BY <1>1
<1>3. y = [x EXCEPT !.unused = U]
  BY <1>1
<1>4. z = y
  BY <1>1
<1> HIDE DEF x, y
<1>5. y = [vaults |-> t.vaults, entries |-> E, unused |-> U]
  BY <1>2, <1>3
<1> QED
  BY <1>4, <1>5 DEF y, IsDb

(* The fields a request has. *)
LEMMA RequestFacts ==
  ASSUME NEW r \in Menu
  PROVE  /\ r \in NS!Request
         /\ r.op \in {"CreateLocalVault", "CreateFolder", "RenameEntry", "MoveEntry", "DeleteFolder",
                      "ListVaults", "GetVault", "ListEntries"}
         /\ r.op = "CreateLocalVault" => r.name \in RawName /\ r = [op |-> "CreateLocalVault", name |-> r.name]
         /\ r.op = "CreateFolder" =>
              /\ r.vault \in VaultId /\ r.parent \in Parent /\ r.name \in RawName
              /\ r = [op |-> "CreateFolder", vault |-> r.vault, parent |-> r.parent, name |-> r.name]
         /\ r.op = "RenameEntry" =>
              /\ r.id \in EntryId /\ r.name \in RawName
              /\ r = [op |-> "RenameEntry", id |-> r.id, name |-> r.name]
         /\ r.op = "MoveEntry" =>
              r.id \in EntryId /\ r.to \in Parent /\ r = [op |-> "MoveEntry", id |-> r.id, to |-> r.to]
         /\ r.op = "DeleteFolder" =>
              /\ r.id \in EntryId /\ r.recursive \in BOOLEAN
              /\ r = [op |-> "DeleteFolder", id |-> r.id, recursive |-> r.recursive]
         /\ r.op = "ListVaults" => r = [op |-> "ListVaults"]
         /\ r.op = "GetVault" => r.vault \in VaultId /\ r = [op |-> "GetVault", vault |-> r.vault]
         /\ r.op = "ListEntries" =>
              /\ r.vault \in VaultId /\ r.parent \in Parent
              /\ r = [op |-> "ListEntries", vault |-> r.vault, parent |-> r.parent]
BY MenuAssumption DEF NS!Request, NS!Parent, Parent

(* A forest, and the keys of its entries. *)
Intact(E) ==
  /\ \A x \in DOMAIN E : FolderParent(E, E[x].vault, E[x].parent)
  /\ Acyclic(E)
  /\ \A x \in DOMAIN E : E[x].key = Fold[E[x].name]
  /\ \A x, y \in DOMAIN E :
       E[x].vault = E[y].vault /\ E[x].parent = E[y].parent /\ E[x].key = E[y].key => x = y

LEMMA IntactStore ==
  ASSUME NS!Consistent
  PROVE  /\ Intact(db.entries)
         /\ \A x \in DOMAIN db.entries : db.entries[x].vault \in db.vaults
         /\ db.unused \cap DOMAIN db.entries = {}
BY DEF NS!Consistent, NS!Tree, NS!UniqueKeys, NS!References, NS!FolderParent, FolderParent,
       NS!Acyclic, Acyclic, Intact

-----------------------------------------------------------------------------
(* Namespace's own invariant, through the instance that its proofs are of. *)

LEMMA SameConsistent == NS!Consistent <=> NSP!Consistent
BY DEF NS!Consistent, NSP!Consistent, NS!TypeOK, NSP!TypeOK, NS!Tree, NSP!Tree,
       NS!UniqueKeys, NSP!UniqueKeys, NS!References, NSP!References, NS!IsTable, NSP!IsTable,
       NS!EntryRow, NSP!EntryRow, NS!JobRow, NSP!JobRow, NS!Parent, NSP!Parent, NS!Kind, NSP!Kind,
       NS!Status, NSP!Status, NS!AnyReply, NSP!AnyReply, NS!NoReply, NSP!NoReply,
       NS!NoDatabase, NSP!NoDatabase, NS!Reply, NSP!Reply, NS!Request, NSP!Request, NS!Code, NSP!Code,
       NS!Listed, NSP!Listed, NS!FolderParent, NSP!FolderParent, NS!Acyclic, NSP!Acyclic

LEMMA SameCreations ==
  /\ \A raw : NS!CreateLocalVault(raw) => NSP!CreateLocalVault(raw)
  /\ \A v, p, raw : NS!CreateFolder(v, p, raw) => NSP!CreateFolder(v, p, raw)
<1>1. ASSUME NEW raw, NS!CreateLocalVault(raw) PROVE NSP!CreateLocalVault(raw)
  BY <1>1 DEF NS!CreateLocalVault, NSP!CreateLocalVault, NS!Answer, NSP!Answer, NS!Reply, NSP!Reply,
              NS!Rejected, NSP!Rejected, NS!refs, NSP!refs
<1>2. ASSUME NEW v, NEW p, NEW raw, NS!CreateFolder(v, p, raw) PROVE NSP!CreateFolder(v, p, raw)
  BY <1>2 DEF NS!CreateFolder, NSP!CreateFolder, NS!CreateFolderCode, NSP!CreateFolderCode,
              NS!Answer, NSP!Answer, NS!Reply, NSP!Reply, NS!Rejected, NSP!Rejected,
              NS!LookupKey, NSP!LookupKey, NS!GoodParent, NSP!GoodParent, NS!KeyFree, NSP!KeyFree,
              NS!Children, NSP!Children, NS!Put, NSP!Put, NS!refs, NSP!refs
<1> QED
  BY <1>1, <1>2

LEMMA SameChanges ==
  /\ \A id, raw : NS!RenameEntry(id, raw) => NSP!RenameEntry(id, raw)
  /\ \A id, p : NS!MoveEntry(id, p) => NSP!MoveEntry(id, p)
<1>1. ASSUME NEW id, NEW raw, NS!RenameEntry(id, raw) PROVE NSP!RenameEntry(id, raw)
  BY <1>1 DEF NS!RenameEntry, NSP!RenameEntry, NS!RenameEntryCode, NSP!RenameEntryCode,
              NS!Answer, NSP!Answer, NS!Reply, NSP!Reply, NS!Rejected, NSP!Rejected,
              NS!LookupKey, NSP!LookupKey, NS!KeyFree, NSP!KeyFree, NS!Children, NSP!Children,
              NS!Available, NSP!Available, NS!refs, NSP!refs
<1>2. ASSUME NEW id, NEW p, NS!MoveEntry(id, p) PROVE NSP!MoveEntry(id, p)
  BY <1>2 DEF NS!MoveEntry, NSP!MoveEntry, NS!MoveEntryCode, NSP!MoveEntryCode, NS!Answer, NSP!Answer,
              NS!Reply, NSP!Reply, NS!GoodParent, NSP!GoodParent, NS!ClosesCycle, NSP!ClosesCycle,
              NS!OnChain, NSP!OnChain, NS!ParentClosed, NSP!ParentClosed, NS!KeyFree, NSP!KeyFree,
              NS!Children, NSP!Children, NS!Available, NSP!Available, NS!refs, NSP!refs
<1> QED
  BY <1>1, <1>2

LEMMA SameDeletes == \A id, flag : NS!DeleteFolder(id, flag) => NSP!DeleteFolder(id, flag)
<1> SUFFICES ASSUME NEW id, NEW flag, NS!DeleteFolder(id, flag) PROVE NSP!DeleteFolder(id, flag)
  OBVIOUS
<1>1. \A E, a : NS!Subtree(E, a) = NSP!Subtree(E, a)
  BY DEF NS!Subtree, NSP!Subtree, NS!OnChain, NSP!OnChain, NS!ParentClosed, NSP!ParentClosed
<1>2. \A x : NS!Blocks(x) <=> NSP!Blocks(x)
  BY DEF NS!Blocks, NSP!Blocks, NS!HasJob, NSP!HasJob, NS!Available, NSP!Available
<1>3. NS!DeleteFolderCode(id, flag) = NSP!DeleteFolderCode(id, flag)
  BY <1>1, <1>2 DEF NS!DeleteFolderCode, NSP!DeleteFolderCode, NS!Children, NSP!Children,
                    NS!Dependents, NSP!Dependents
<1>4. \A E, S : NS!Remove(E, S) = NSP!Remove(E, S)
  BY DEF NS!Remove, NSP!Remove, NS!Restrict, NSP!Restrict
<1> QED
  BY <1>1, <1>3, <1>4 DEF NS!DeleteFolder, NSP!DeleteFolder, NS!Answer, NSP!Answer, NS!Reply, NSP!Reply,
                          NS!refs, NSP!refs

LEMMA SameListings ==
  /\ NS!ListVaults => NSP!ListVaults
  /\ \A v : NS!GetVault(v) => NSP!GetVault(v)
  /\ \A v, p : NS!ListEntries(v, p) => NSP!ListEntries(v, p)
  /\ NS!Unavailable => NSP!Unavailable
<1>1. ASSUME NEW v, NEW p, NS!ListEntries(v, p) PROVE NSP!ListEntries(v, p)
  BY <1>1 DEF NS!ListEntries, NSP!ListEntries, NS!Answer, NSP!Answer, NS!Reply, NSP!Reply,
              NS!GoodParent, NSP!GoodParent, NS!Rows, NSP!Rows, NS!Children, NSP!Children, NS!refs, NSP!refs
<1>2. ASSUME NEW v, NS!GetVault(v) PROVE NSP!GetVault(v)
  BY <1>2 DEF NS!GetVault, NSP!GetVault, NS!Answer, NSP!Answer, NS!Reply, NSP!Reply, NS!refs, NSP!refs
<1>3. (NS!ListVaults => NSP!ListVaults) /\ (NS!Unavailable => NSP!Unavailable)
  BY DEF NS!ListVaults, NSP!ListVaults, NS!Unavailable, NSP!Unavailable, NS!NoDatabase, NSP!NoDatabase,
         NS!Reply, NSP!Reply, NS!refs, NSP!refs
<1> QED
  BY <1>1, <1>2, <1>3

LEMMA SameWrites ==
  /\ \A v, p, kind, status, n : NS!InsertEntry(v, p, kind, status, n) => NSP!InsertEntry(v, p, kind, status, n)
  /\ \A id : NS!InsertFile(id) => NSP!InsertFile(id)
  /\ \A id, i : NS!InsertChunk(id, i) => NSP!InsertChunk(id, i)
  /\ \A j, v, id : NS!InsertJob(j, v, id) => NSP!InsertJob(j, v, id)
<1>1. ASSUME NEW v, NEW p, NEW kind, NEW status, NEW n, NS!InsertEntry(v, p, kind, status, n)
      PROVE  NSP!InsertEntry(v, p, kind, status, n)
  BY <1>1 DEF NS!InsertEntry, NSP!InsertEntry, NS!FolderParent, NSP!FolderParent, NS!KeyFree, NSP!KeyFree,
              NS!Children, NSP!Children, NS!Put, NSP!Put, NS!refs, NSP!refs
<1>2. \A id : NS!InsertFile(id) => NSP!InsertFile(id)
  BY DEF NS!InsertFile, NSP!InsertFile
<1>3. \A id, i : NS!InsertChunk(id, i) => NSP!InsertChunk(id, i)
  BY DEF NS!InsertChunk, NSP!InsertChunk
<1>4. \A j, v, id : NS!InsertJob(j, v, id) => NSP!InsertJob(j, v, id)
  BY DEF NS!InsertJob, NSP!InsertJob, NS!Put, NSP!Put
<1> QED
  BY <1>1, <1>2, <1>3, <1>4

LEMMA StaysConsistent ==
  ASSUME NS!Consistent, [NS!Next]_(NS!vars)
  PROVE  NS!Consistent'
<1>1. [NSP!Next]_(NSP!vars)
  <2>1. CASE NS!Next
    <3>1. (NS!Service => NSP!Service) /\ (NS!Repositories => NSP!Repositories)
      BY SameCreations, SameChanges, SameDeletes, SameListings, SameWrites
         DEF NS!Service, NSP!Service, NS!Repositories, NSP!Repositories, NS!Parent, NSP!Parent,
             NS!Kind, NSP!Kind, NS!Status, NSP!Status
    <3> QED
      BY <2>1, <3>1 DEF NS!Next, NSP!Next
  <2>2. CASE UNCHANGED NS!vars
    BY <2>2 DEF NS!vars, NSP!vars
  <2> QED
    BY <2>1, <2>2
<1>2. NSP!Consistent'
  BY <1>1, SameConsistent, NSP!ConsistentStep, RootAssumption, NoEntryAssumption, NameAssumption,
     NSP!RootAssumption, NSP!NoEntryAssumption, NSP!NameAssumption
<1> QED
  BY <1>2, SameConsistent, PTL

-----------------------------------------------------------------------------
(* How calls that end are steps of Namespace. *)

LEMMA CodesAgree ==
  \A r : /\ NS!CreateFolderCode(r.vault, r.parent, r.name) = CreateCode(r, db)
         /\ NS!RenameEntryCode(r.id, r.name) = RenameCode(r, db)
         /\ NS!MoveEntryCode(r.id, r.to) = MoveCode(r, db)
         /\ NS!DeleteFolderCode(r.id, r.recursive) = DeleteCode(r, db, files, jobs)
         /\ NS!Subtree(db.entries, r.id) = Subtree(db.entries, r.id)
<1>1. \A E, v, p : NS!Children(E, v, p) = Children(E, v, p) /\ (NS!GoodParent(E, v, p) <=> GoodParent(E, v, p))
  BY DEF NS!Children, Children, NS!GoodParent, GoodParent
<1>2. \A E, v, p, k, x : NS!KeyFree(E, v, p, k, x) <=> KeyFree(E, v, p, k, x)
  BY <1>1 DEF NS!KeyFree, KeyFree
<1>3. \A E, a, x : NS!OnChain(E, a, x) <=> OnChain(E, a, x)
  BY DEF NS!OnChain, OnChain, NS!ParentClosed, ParentClosed
<1>4. \A E, a : NS!Subtree(E, a) = Subtree(E, a)
  BY <1>3 DEF NS!Subtree, Subtree
<1>5. \A x : NS!Blocks(x) <=> Blocks(db.entries, files, jobs, x)
  BY DEF NS!Blocks, Blocks, Clean, NS!HasJob, NS!Available
<1>6. \A raw : (NS!Rejected(raw) <=> Rejected(raw)) /\ NS!LookupKey(raw) = LookupKey(raw)
  BY DEF NS!Rejected, Rejected, NS!LookupKey, LookupKey
<1>7. \A E, F, J, x : NS!Dependents(E, F, J, x) = Dependents(E, F, J, x)
  BY DEF NS!Dependents, Dependents
<1> TAKE r
<1>8. NS!CreateFolderCode(r.vault, r.parent, r.name) = CreateCode(r, db)
  BY <1>1, <1>2, <1>6 DEF NS!CreateFolderCode, CreateCode
<1>9. NS!RenameEntryCode(r.id, r.name) = RenameCode(r, db)
  BY <1>2, <1>6 DEF NS!RenameEntryCode, RenameCode, NS!Available
<1>10. NS!MoveEntryCode(r.id, r.to) = MoveCode(r, db)
  BY <1>1, <1>2, <1>3 DEF NS!MoveEntryCode, MoveCode, NS!Available, NS!ClosesCycle
<1>11. NS!DeleteFolderCode(r.id, r.recursive) = DeleteCode(r, db, files, jobs)
  BY <1>1, <1>4, <1>5, <1>7 DEF NS!DeleteFolderCode, DeleteCode
<1> QED
  BY <1>4, <1>8, <1>9, <1>10, <1>11

(* A refusal changes nothing. *)
LEMMA Refuses ==
  ASSUME NEW r \in Menu, NEW code, code # "OK", Answers(r, code, db, files, jobs),
         UNCHANGED committed, reply' = NS!Reply(r, code, {})
  PROVE  NS!Next
<1> USE RequestFacts, CodesAgree DEF committed, Answers, NS!Answer, NS!refs
<1>1. CASE r.op = "CreateLocalVault"
  <2>1. NS!CreateLocalVault(r.name)
    BY <1>1 DEF NS!CreateLocalVault, NS!Rejected, Rejected
  <2> QED
    BY <1>1, <2>1 DEF NS!Next, NS!Service
<1>2. CASE r.op = "CreateFolder"
  <2>1. NS!CreateFolder(r.vault, r.parent, r.name)
    BY <1>2 DEF NS!CreateFolder
  <2> QED
    BY <1>2, <2>1 DEF NS!Next, NS!Service, NS!Parent, Parent
<1>3. CASE r.op = "RenameEntry"
  <2>1. NS!RenameEntry(r.id, r.name)
    BY <1>3 DEF NS!RenameEntry
  <2> QED
    BY <1>3, <2>1 DEF NS!Next, NS!Service
<1>4. CASE r.op = "MoveEntry"
  <2>1. NS!MoveEntry(r.id, r.to)
    BY <1>4 DEF NS!MoveEntry
  <2> QED
    BY <1>4, <2>1 DEF NS!Next, NS!Service, NS!Parent, Parent
<1>5. CASE r.op = "DeleteFolder"
  <2>1. NS!DeleteFolder(r.id, r.recursive)
    BY <1>5 DEF NS!DeleteFolder
  <2> QED
    BY <1>5, <2>1 DEF NS!Next, NS!Service
<1>6. CASE r.op = "GetVault"
  <2>1. NS!GetVault(r.vault)
    BY <1>6 DEF NS!GetVault
  <2> QED
    BY <1>6, <2>1 DEF NS!Next, NS!Service
<1>7. CASE r.op = "ListEntries"
  <2>1. NS!ListEntries(r.vault, r.parent)
    BY <1>7 DEF NS!ListEntries, ListCode, NS!GoodParent, GoodParent
  <2> QED
    BY <1>7, <2>1 DEF NS!Next, NS!Service, NS!Parent, Parent
<1> QED
  BY <1>1, <1>2, <1>3, <1>4, <1>5, <1>6, <1>7

(* A commit takes the whole effect. *)
LEMMA Accepts ==
  ASSUME IsDb(db), NEW r \in Menu, NEW rows, Answers(r, "OK", db, files, jobs),
         Result(r, db', rows, db), UNCHANGED <<files, jobs>>, reply' = NS!Reply(r, "OK", rows)
  PROVE  NS!Next
<1>1. CASE r.op = "CreateLocalVault"
  <2>0. r.name \in RawName /\ r = [op |-> "CreateLocalVault", name |-> r.name]
    BY <1>1, RequestFacts
  <2>1. PICK v \in VaultId \ db.vaults : db' = [db EXCEPT !.vaults = db.vaults \cup {v}]
    BY <1>1 DEF Result
  <2>2. db' = [vaults |-> db.vaults \cup {v}, entries |-> db.entries, unused |-> db.unused]
    BY <2>1, DbFacts
  <2>3. NS!CreateLocalVault(r.name)
    BY <1>1, <2>0, <2>2 DEF Answers, Result, NS!Answer, NS!refs, NS!CreateLocalVault, NS!Rejected, Rejected
  <2> QED
    BY <2>0, <2>3 DEF NS!Next, NS!Service
<1>2. CASE r.op = "CreateFolder"
  <2>0. /\ r.vault \in VaultId /\ r.parent \in Parent /\ r.name \in RawName
        /\ r = [op |-> "CreateFolder", vault |-> r.vault, parent |-> r.parent, name |-> r.name]
    BY <1>2, RequestFacts
  <2>1. PICK id \in db.unused : db' = [db EXCEPT !.entries = Put(db.entries, id, FolderRow(r)),
                                                 !.unused = db.unused \ {id}]
    BY <1>2 DEF Result
  <2>2. db' = [vaults |-> db.vaults, entries |-> Put(db.entries, id, FolderRow(r)), unused |-> db.unused \ {id}]
    <3> DEFINE E2 == Put(db.entries, id, FolderRow(r))
               U2 == db.unused \ {id}
    <3>1. db' = [db EXCEPT !.entries = E2, !.unused = U2]
      BY <2>1
    <3> HIDE DEF E2, U2
    <3>2. db' = [vaults |-> db.vaults, entries |-> E2, unused |-> U2]
      BY <3>1, NewEntryFacts
    <3> QED
      BY <3>2 DEF E2, U2
  <2>3. db'.vaults = db.vaults /\ db'.unused = db.unused \ {id}
        /\ db'.entries = NS!Put(db.entries, id, FolderRow(r))
    BY <2>2 DEF NS!Put, Put
  <2>4. NS!CreateFolderCode(r.vault, r.parent, r.name) = "OK"
    BY <1>2, CodesAgree DEF Answers
  <2>5. FolderRow(r) = [vault |-> r.vault, parent |-> r.parent, kind |-> "folder", name |-> Display[r.name],
                        key |-> NS!LookupKey(r.name), status |-> "available"]
    BY DEF FolderRow, NS!LookupKey, LookupKey
  <2>6. rows = {}
    BY <1>2 DEF Result
  <2>7. NS!CreateFolder(r.vault, r.parent, r.name)
    BY <2>0, <2>3, <2>4, <2>5, <2>6 DEF NS!Answer, NS!refs, NS!CreateFolder
  <2> QED
    BY <2>0, <2>7 DEF NS!Next, NS!Service, NS!Parent, Parent
<1>3. CASE r.op = "RenameEntry"
  <2>0. r.id \in EntryId /\ r.name \in RawName /\ r = [op |-> "RenameEntry", id |-> r.id, name |-> r.name]
    BY <1>3, RequestFacts
  <2> DEFINE E2 == [db.entries EXCEPT ![r.id].name = Display[r.name], ![r.id].key = LookupKey(r.name)]
  <2>1. db' = [db EXCEPT !.entries = E2] /\ rows = {}
    BY <1>3 DEF Result
  <2> HIDE DEF E2
  <2>2. db' = [vaults |-> db.vaults, unused |-> db.unused, entries |-> E2]
    BY <2>1, DbFacts
  <2>3. E2 = [db.entries EXCEPT ![r.id].name = Display[r.name], ![r.id].key = NS!LookupKey(r.name)]
    BY DEF E2, NS!LookupKey, LookupKey
  <2>4. db'.vaults = db.vaults /\ db'.unused = db.unused /\ db'.entries = E2
    BY <2>2
  <2>5. NS!RenameEntryCode(r.id, r.name) = "OK"
    BY <1>3, CodesAgree DEF Answers
  <2>6. NS!RenameEntry(r.id, r.name)
    BY <2>0, <2>1, <2>3, <2>4, <2>5 DEF NS!Answer, NS!refs, NS!RenameEntry
  <2> QED
    BY <2>0, <2>6 DEF NS!Next, NS!Service
<1>4. CASE r.op = "MoveEntry"
  <2>0. r.id \in EntryId /\ r.to \in Parent /\ r = [op |-> "MoveEntry", id |-> r.id, to |-> r.to]
    BY <1>4, RequestFacts
  <2> DEFINE E2 == [db.entries EXCEPT ![r.id].parent = r.to]
  <2>1. db' = [db EXCEPT !.entries = E2] /\ rows = {}
    BY <1>4 DEF Result
  <2> HIDE DEF E2
  <2>2. db' = [vaults |-> db.vaults, unused |-> db.unused, entries |-> E2]
    BY <2>1, DbFacts
  <2>3. db'.vaults = db.vaults /\ db'.unused = db.unused /\ db'.entries = E2
    BY <2>2
  <2>4. NS!MoveEntryCode(r.id, r.to) = "OK"
    BY <1>4, CodesAgree DEF Answers
  <2>5. NS!MoveEntry(r.id, r.to)
    BY <2>0, <2>1, <2>3, <2>4 DEF NS!Answer, NS!refs, NS!MoveEntry, E2
  <2> QED
    BY <2>0, <2>5 DEF NS!Next, NS!Service, NS!Parent, Parent
<1>5. CASE r.op = "DeleteFolder"
  <2>0. r.id \in EntryId /\ r.recursive \in BOOLEAN
        /\ r = [op |-> "DeleteFolder", id |-> r.id, recursive |-> r.recursive]
    BY <1>5, RequestFacts
  <2> DEFINE S == IF r.recursive THEN Subtree(db.entries, r.id) ELSE {r.id}
             E2 == Remove(db.entries, S)
  <2>1. db' = [db EXCEPT !.entries = E2] /\ rows = {}
    BY <1>5 DEF Result
  <2>3. E2 = NS!Remove(db.entries, S)
    BY DEF NS!Remove, Remove, NS!Restrict, Restrict
  <2> HIDE DEF E2
  <2>2. db' = [vaults |-> db.vaults, unused |-> db.unused, entries |-> E2]
    BY <2>1, DbFacts
  <2>4. db'.vaults = db.vaults /\ db'.unused = db.unused /\ db'.entries = E2
    BY <2>2
  <2>5. NS!DeleteFolderCode(r.id, r.recursive) = "OK" /\ NS!Subtree(db.entries, r.id) = Subtree(db.entries, r.id)
    BY <1>5, CodesAgree DEF Answers
  <2>6. NS!DeleteFolder(r.id, r.recursive)
    BY <2>0, <2>1, <2>3, <2>4, <2>5 DEF NS!Answer, NS!refs, NS!DeleteFolder
  <2> QED
    BY <2>0, <2>6 DEF NS!Next, NS!Service
<1>6. CASE r.op \in {"ListVaults", "GetVault", "ListEntries"}
  <2>0. db' = db
    BY <1>6 DEF Result
  <2>1. CASE r.op = "ListVaults"
    <3>1. NS!ListVaults
      BY <2>0, <2>1, RequestFacts DEF Result, NS!refs, NS!ListVaults
    <3> QED
      BY <3>1 DEF NS!Next, NS!Service
  <2>2. CASE r.op = "GetVault"
    <3>1. NS!GetVault(r.vault) /\ r.vault \in VaultId
      BY <2>0, <2>2, RequestFacts DEF Answers, Result, NS!refs, NS!GetVault
    <3> QED
      BY <3>1 DEF NS!Next, NS!Service
  <2>3. CASE r.op = "ListEntries"
    <3>0. r.vault \in VaultId /\ r.parent \in Parent
          /\ r = [op |-> "ListEntries", vault |-> r.vault, parent |-> r.parent]
      BY <2>3, RequestFacts
    <3>1. r.vault \in db.vaults /\ NS!GoodParent(db.entries, r.vault, r.parent)
      BY <2>3 DEF Answers, ListCode, NS!GoodParent, GoodParent
    <3>2. NS!ListEntries(r.vault, r.parent)
      BY <2>0, <2>3, <3>0, <3>1 DEF Result, NS!refs, NS!ListEntries
    <3> QED
      BY <3>0, <3>2 DEF NS!Next, NS!Service, NS!Parent, Parent
  <2> QED
    BY <1>6, <2>1, <2>2, <2>3
<1> QED
  BY <1>1, <1>2, <1>3, <1>4, <1>5, <1>6, RequestFacts

-----------------------------------------------------------------------------
(* How a transaction goes on and ends. *)

LEMMA TxFacts ==
  ASSUME IInv, NEW c \in Client, pc[c] \in InTx
  PROVE  /\ req[c] \in Menu /\ At(pc[c], req[c], tx[c], loc[c], db, files, jobs)
         /\ IsDb(tx[c]) /\ IsDb(db) /\ loc[c] \in Local
         /\ Intact(db.entries) /\ IsTable(db.entries, EntryId, EntryRow)
BY IntactStore DEF IInv, Inside, Shape, At, IsDb

LEMMA ProceedStep ==
  ASSUME IInv, NEW c \in Client, pc[c] \in InTx, NEW p \in InTx, NEW t, NEW l, Proceed(c, p, t, l),
         IsDb(t), l \in Local, At(p, req[c], t, l, db, files, jobs)
  PROVE  IInv' /\ [NS!Next]_(NS!vars)
<1> USE DEF Proceed, committed, Goto
<1>0. p \in PC /\ p \notin {"lock", "begin"}
  BY DEF PC, InTx
<1>1. Shape'
  BY <1>0 DEF IInv, Shape
<1>2. /\ pc'[c] = p /\ tx'[c] = t /\ loc'[c] = l
      /\ \A d \in Client \ {c} : pc'[d] = pc[d] /\ tx'[d] = tx[d] /\ loc'[d] = loc[d]
  BY DEF IInv, Shape
<1>3. Locking'
  BY <1>2 DEF IInv, Locking, Shape
<1>4. Outside'
  BY <1>2, <1>0 DEF IInv, Outside
<1>5. Inside'
  BY <1>2 DEF IInv, Inside
<1>6. UNCHANGED NS!vars
  BY DEF NS!vars
<1> QED
  BY <1>1, <1>3, <1>4, <1>5, <1>6, StaysConsistent DEF IInv

(* WithTx returns, and nobody is in a transaction that sees the old rows. *)
LEMMA LeaveStep ==
  ASSUME IInv, NEW c \in Client, pc[c] \in InTx \cup {"begin"}, Leave(c),
         IsDb(db'), db' # db => pc[c] \in InTx, NS!Consistent'
  PROVE  IInv'
<1> USE DEF Leave, Goto, MutexAfter, WriterAfter
<1>0. NoLoc \in Local /\ IsDb(NoTx)
  BY EmptySeq DEF NoLoc, Local, NoTx, IsDb, IsTable, Parent
<1>1. /\ pc'[c] = "done" /\ loc'[c] = NoLoc /\ tx'[c] = NoTx
      /\ \A d \in Client \ {c} : pc'[d] = pc[d] /\ tx'[d] = tx[d] /\ loc'[d] = loc[d]
  BY DEF IInv, Shape
<1>2. Shape'
  BY <1>0, <1>1 DEF IInv, Shape, PC
<1>3. "done" \notin InTx \cup {"begin"}
  BY DEF InTx
<1>4. ASSUME NEW d \in Client, pc'[d] \in InTx
      PROVE  d # c /\ pc[d] \in InTx /\ writer = d /\ pc[c] \notin InTx
  BY <1>1, <1>3, <1>4 DEF IInv, Locking
<1>5. Locking'
  <2>1. ASSUME NEW d \in Client, pc'[d] \in InTx \cup {"begin"} PROVE txMu'[proc'[d]] = d
    <3>1. d # c /\ pc[d] \in InTx \cup {"begin"}
      BY <1>1, <1>3, <2>1
    <3>2. txMu[proc[c]] = c /\ txMu[proc[d]] = d
      BY <3>1 DEF IInv, Locking
    <3> QED
      BY <3>1, <3>2 DEF IInv, Shape
  <2>2. ASSUME NEW d \in Client PROVE pc'[d] \in InTx <=> writer' = d
    BY <1>1, <1>3, ClientAssumption DEF IInv, Locking
  <2>3. ASSUME NEW s \in Store, txMu'[s] # Nobody
        PROVE  proc'[txMu'[s]] = s /\ pc'[txMu'[s]] \in InTx \cup {"begin"}
    <3>1. s # proc[c] /\ txMu'[s] = txMu[s]
      BY <2>3 DEF IInv, Shape
    <3>2. txMu[s] \in Client \ {c} /\ proc[txMu[s]] = s /\ pc[txMu[s]] \in InTx \cup {"begin"}
      BY <2>3, <3>1 DEF IInv, Shape, Locking
    <3> QED
      BY <3>1, <3>2, <1>1
  <2> QED
    BY <2>1, <2>2, <2>3 DEF Locking
<1>6. Outside'
  BY <1>1, <1>3 DEF IInv, Outside
<1>7. Inside'
  BY <1>1, <1>4 DEF IInv, Inside
<1> QED
  BY <1>2, <1>5, <1>6, <1>7 DEF IInv

LEMMA RollbackStep ==
  ASSUME IInv, NEW c \in Client, pc[c] \in InTx \cup {"begin"}, NEW code, Rollback(c, code),
         \/ code = "DATABASE_UNAVAILABLE"
         \/ code # "OK" /\ Answers(req[c], code, db, files, jobs)
  PROVE  IInv' /\ [NS!Next]_(NS!vars)
<1>0. UNCHANGED committed /\ req[c] \in Menu
  BY TxFacts DEF Rollback, Leave, committed, IInv, Outside
<1>1. NS!Next
  <2>1. CASE code = "DATABASE_UNAVAILABLE"
    BY <2>1, <1>0 DEF Rollback, Answer, committed, NS!Next, NS!Service, NS!Unavailable, NS!refs
  <2>2. CASE code # "DATABASE_UNAVAILABLE"
    BY <2>2, <1>0, Refuses DEF Rollback, Answer
  <2> QED
    BY <2>1, <2>2
<1>2. IInv'
  BY <1>0, <1>1, StaysConsistent, LeaveStep DEF Rollback, IInv, Shape, committed
<1> QED
  BY <1>1, <1>2

LEMMA CommitStep ==
  ASSUME IInv, NEW c \in Client, Commit(c)
  PROVE  IInv' /\ [NS!Next]_(NS!vars)
<1>0. pc[c] = "commit" /\ pc[c] \in InTx
  BY DEF Commit, InTx
<1>1. At("commit", req[c], tx[c], loc[c], db, files, jobs) /\ req[c] \in Menu /\ IsDb(tx[c])
  BY <1>0, TxFacts
<1>2. NS!Next
  <2>1. db' = tx[c] /\ UNCHANGED <<files, jobs>> /\ reply' = NS!Reply(req[c], "OK", loc[c].rows)
    BY DEF Commit, Leave, Answer
  <2> QED
    BY <1>1, <2>1, Accepts DEF At, IInv, Shape
<1> QED
  BY <1>0, <1>1, <1>2, StaysConsistent, LeaveStep DEF Commit, IInv

-----------------------------------------------------------------------------
(* The start of a call. *)

LEMMA CallStep ==
  ASSUME IInv, NEW c \in Client, NEW r \in Menu, Call(c, r)
  PROVE  IInv' /\ [NS!Next]_(NS!vars)
<1> USE DEF Call, committed, Goto
<1>0. /\ pc[c] = "idle" /\ pc'[c] \in {"lock", "done"} /\ pc'[c] = "lock" => EarlyCode(r) = "OK"
      /\ req'[c] = r
      /\ \A d \in Client \ {c} : pc'[d] = pc[d] /\ req'[d] = req[d]
      /\ pc[c] \notin InTx \cup {"begin"} /\ pc'[c] \notin InTx \cup {"begin"} /\ pc'[c] \in PC
  BY DEF IInv, Shape, InTx, PC
<1>1. Shape'
  BY <1>0 DEF IInv, Shape
<1>2. Locking'
  BY <1>0 DEF IInv, Locking, Shape
<1>3. Outside'
  BY <1>0 DEF IInv, Outside
<1>4. Inside'
  BY <1>0 DEF IInv, Inside
<1>5. [NS!Next]_(NS!vars)
  <2>1. CASE EarlyCode(r) = "OK"
    BY <2>1 DEF NS!vars
  <2>2. CASE EarlyCode(r) # "OK"
    <3>1. Answers(r, EarlyCode(r), db, files, jobs)
      BY <2>2 DEF EarlyCode, Answers, CreateCode, RenameCode, MoveCode
    <3> QED
      BY <2>2, <3>1, Refuses
  <2> QED
    BY <2>1, <2>2
<1> QED
  BY <1>1, <1>2, <1>3, <1>4, <1>5, StaysConsistent DEF IInv

LEMMA LockStep ==
  ASSUME IInv, NEW c \in Client, Lock(c)
  PROVE  IInv' /\ [NS!Next]_(NS!vars)
<1> USE DEF Lock, committed, Goto
<1>0. /\ pc[c] = "lock" /\ pc'[c] = "begin" /\ txMu[proc[c]] = Nobody
      /\ \A d \in Client \ {c} : pc'[d] = pc[d]
      /\ \A p \in {"lock", "begin"} : p \notin InTx /\ p \in PC
  BY DEF IInv, Shape, InTx, PC
<1>1. Shape'
  BY <1>0 DEF IInv, Shape
<1>2. Locking'
  <2>1. ASSUME NEW d \in Client, pc'[d] \in InTx \cup {"begin"} PROVE txMu'[proc'[d]] = d
    <3>1. CASE d = c
      BY <3>1 DEF IInv, Shape
    <3>2. CASE d # c
      BY <3>2, <2>1, <1>0, ClientAssumption DEF IInv, Shape, Locking
    <3> QED
      BY <3>1, <3>2
  <2>2. ASSUME NEW d \in Client PROVE pc'[d] \in InTx <=> writer' = d
    BY <1>0 DEF IInv, Locking
  <2>3. ASSUME NEW s \in Store, txMu'[s] # Nobody
        PROVE  proc'[txMu'[s]] = s /\ pc'[txMu'[s]] \in InTx \cup {"begin"}
    BY <2>3, <1>0 DEF IInv, Shape, Locking
  <2> QED
    BY <2>1, <2>2, <2>3 DEF Locking
<1>3. Outside'
  BY <1>0 DEF IInv, Outside
<1>4. Inside'
  BY <1>0 DEF IInv, Inside
<1>5. UNCHANGED NS!vars
  BY DEF NS!vars
<1> QED
  BY <1>1, <1>2, <1>3, <1>4, <1>5, StaysConsistent DEF IInv

LEMMA BeginStep ==
  ASSUME IInv, NEW c \in Client, Begin(c)
  PROVE  IInv' /\ [NS!Next]_(NS!vars)
<1> USE DEF Begin, committed, Goto, WriteLockFree
<1> DEFINE p == FirstCall[req[c].op]
<1>0. pc[c] = "begin" /\ req[c] \in Menu /\ EarlyCode(req[c]) = "OK" /\ loc[c] = NoLoc /\ "begin" \notin InTx
  BY DEF IInv, Outside, InTx
<1>1. /\ p \in {"insertVault", "listVaults", "getVault", "getEntry"}
      /\ p = "insertVault" => req[c].op = "CreateLocalVault"
      /\ p = "listVaults" => req[c].op = "ListVaults"
      /\ p = "getVault" => req[c].op \in {"CreateFolder", "GetVault", "ListEntries"}
      /\ p = "getEntry" => req[c].op \in {"RenameEntry", "MoveEntry", "DeleteFolder"}
  BY <1>0, RequestFacts DEF FirstCall
<1> HIDE DEF p
<1>2. p \in InTx /\ p \in PC
  BY <1>1 DEF InTx, PC
<1>3. /\ pc'[c] = p /\ tx'[c] = db
      /\ \A d \in Client \ {c} : pc'[d] = pc[d] /\ tx'[d] = tx[d]
  BY DEF IInv, Shape, p
<1>4. Shape'
  BY <1>2, <1>3 DEF IInv, Shape, p
<1>5. Locking'
  <2>1. \A d \in Client : pc[d] \notin InTx
    BY ClientAssumption DEF IInv, Locking
  <2> QED
    BY <1>0, <1>2, <1>3, <2>1 DEF IInv, Locking, Shape
<1>6. Outside'
  BY <1>1, <1>2, <1>3 DEF IInv, Outside
<1>7. Inside'
  <2>1. At(p, req[c], db, NoLoc, db, files, jobs)
    BY <1>0, <1>1 DEF At, NoLoc
  <2> QED
    BY <1>0, <1>3, <2>1 DEF IInv, Inside
<1>8. UNCHANGED NS!vars
  BY DEF NS!vars
<1> QED
  BY <1>4, <1>5, <1>6, <1>7, <1>8, StaysConsistent DEF IInv

LEMMA NoBeginStep ==
  ASSUME IInv, NEW c \in Client, NoBegin(c) \/ Fail(c)
  PROVE  IInv' /\ [NS!Next]_(NS!vars)
BY RollbackStep DEF NoBegin, Fail

-----------------------------------------------------------------------------
(* The walk of a move up a forest. *)

LEMMA WalkStarts ==
  ASSUME NEW E, NEW src, NEW dest \in DOMAIN E
  PROVE  Climbing(E, src, dest, dest, {})
BY DEF Climbing, OnChain

(* Each turn decides as Namespace does, or goes one entry up. *)
LEMMA WalkTurn ==
  ASSUME NEW E, Intact(E), NEW src, NEW dest, NEW cur, NEW visited,
         Climbing(E, src, dest, cur, visited)
  PROVE  LET verdict == WalkVerdict(E, src, cur, visited) IN
         /\ verdict \in {"OK", "INVALID_HIERARCHY", "walking"}
         /\ verdict = "OK" => ~OnChain(E, src, dest)
         /\ verdict = "INVALID_HIERARCHY" => OnChain(E, src, dest)
         /\ verdict = "walking" =>
              E[cur].parent \in DOMAIN E /\ Climbing(E, src, dest, E[cur].parent, visited \cup {cur})
<1>1. cur \notin visited
  <2> SUFFICES ASSUME cur \in visited PROVE FALSE
    OBVIOUS
  <2>1. visited \in SUBSET DOMAIN E /\ visited # {} /\ \A x \in visited : E[x].parent \in visited
    BY DEF Climbing
  <2> QED
    BY <2>1 DEF Intact, Acyclic
<1>2. CASE cur = src
  BY <1>1, <1>2 DEF WalkVerdict, Climbing
<1>3. CASE cur # src /\ E[cur].parent = Root
  <2> DEFINE A == visited \cup {cur}
  <2>1. A \in SUBSET DOMAIN E /\ dest \in A /\ src \notin A /\ ParentClosed(E, A)
    BY <1>3 DEF Climbing, ParentClosed
  <2>2. ~OnChain(E, src, dest)
    BY <2>1 DEF OnChain
  <2> QED
    BY <1>1, <1>3, <2>2 DEF WalkVerdict, Climbing
<1>4. CASE cur # src /\ E[cur].parent # Root
  <2>1. E[cur].parent \in DOMAIN E
    BY <1>4 DEF Climbing, Intact, FolderParent
  <2>2. OnChain(E, E[cur].parent, dest)
    BY <1>4 DEF Climbing, OnChain, ParentClosed
  <2>3. Climbing(E, src, dest, E[cur].parent, visited \cup {cur})
    BY <1>4, <2>1, <2>2 DEF Climbing
  <2> QED
    BY <1>1, <1>4, <2>1, <2>3 DEF WalkVerdict, Climbing
<1> QED
  BY <1>2, <1>3, <1>4

-----------------------------------------------------------------------------
(* The enumeration of a subtree of a forest. *)

LEMMA EnumerationStarts ==
  ASSUME NEW E, NEW a \in DOMAIN E, DOMAIN E \subseteq EntryId
  PROVE  Enumerating(E, a, <<a>>, 1)
BY DEF Enumerating, Subtree, OnChain

LEMMA ListingFacts ==
  ASSUME NEW S \in SUBSET EntryId, NEW s \in Listings(S)
  PROVE  /\ s \in Seq(EntryId) /\ Len(s) \in Nat
         /\ \A i \in 1..Len(s) : s[i] \in S
         /\ \A y \in S : \E i \in 1..Len(s) : s[i] = y
         /\ \A i, j \in 1..Len(s) : s[i] = s[j] => i = j
<1>1. Cardinality(S) \in Nat
  BY FiniteAssumption, FS_Subset, FS_CardinalityType
<1>2. /\ s \in [1..Cardinality(S) -> S]
      /\ \A y \in S : \E i \in 1..Cardinality(S) : s[i] = y
      /\ \A i, j \in 1..Cardinality(S) : s[i] = s[j] => i = j
  BY DEF Listings, Bijection, Surjection, Injection, IsInjective
<1>3. s \in Seq(S) /\ Len(s) = Cardinality(S)
  BY <1>1, <1>2
<1>4. s \in Seq(EntryId)
  BY <1>3, SeqMonotonic
<1> QED
  BY <1>1, <1>2, <1>3, <1>4

LEMMA ChildIsBelow ==
  ASSUME NEW E, NEW a, NEW x \in Subtree(E, a), NEW y \in DOMAIN E, E[y].parent = x, x # Root
  PROVE  y \in Subtree(E, a)
BY DEF Subtree, OnChain, ParentClosed

(* The entry at the top is below none of the others. *)
LEMMA TopIsBelowNone ==
  ASSUME NEW E, Intact(E), NEW a, NEW order, NEW head, Enumerating(E, a, order, head)
  PROVE  \A i \in 1..Len(order) : E[a].parent # order[i]
<1> SUFFICES ASSUME NEW i \in 1..Len(order), E[a].parent = order[i] PROVE FALSE
  OBVIOUS
<1> DEFINE S == {order[k] : k \in 1..Len(order)}
<1>0. Len(order) \in Nat /\ order[1] = a
  BY DEF Enumerating
<1>1. S \in SUBSET DOMAIN E /\ S # {}
  BY <1>0 DEF Enumerating, Subtree
<1>2. ASSUME NEW x \in S PROVE E[x].parent \in S
  <2>1. PICK k \in 1..Len(order) : x = order[k]
    OBVIOUS
  <2>2. CASE k = 1
    BY <1>0, <2>1, <2>2
  <2>3. CASE k # 1
    <3>1. k \in 2..Len(order)
      BY <1>0, <2>3
    <3>2. PICK j \in 1..head - 1 : j < k /\ E[order[k]].parent = order[j]
      BY <3>1 DEF Enumerating
    <3>3. j \in 1..Len(order)
      BY <1>0, <3>2
    <3> QED
      BY <2>1, <3>2, <3>3
  <2> QED
    BY <2>2, <2>3
<1> QED
  BY <1>1, <1>2 DEF Intact, Acyclic

(* No entry below is met twice. *)
LEMMA NothingTwice ==
  ASSUME NEW E, Intact(E), DOMAIN E \subseteq EntryId, NEW a, NEW order, NEW head,
         Enumerating(E, a, order, head), head \in 1..Len(order)
  PROVE  \A i \in 1..Len(order) : order[i] \notin Children(E, E[a].vault, order[head])
<1> SUFFICES ASSUME NEW i \in 1..Len(order), E[order[i]].parent = order[head] PROVE FALSE
  BY DEF Children
<1>0. Len(order) \in Nat
  BY DEF Enumerating
<1>1. CASE i = 1
  <2>1. \A k \in 1..Len(order) : E[a].parent # order[k]
    BY TopIsBelowNone
  <2> QED
    BY <1>1, <2>1 DEF Enumerating
<1>2. CASE i # 1
  <2>1. i \in 2..Len(order)
    BY <1>0, <1>2
  <2>2. PICK j \in 1..head - 1 : j < i /\ E[order[i]].parent = order[j]
    BY <2>1 DEF Enumerating
  <2>3. j \in 1..Len(order) /\ j # head
    BY <1>0, <2>2
  <2> QED
    BY <2>2, <2>3 DEF Enumerating
<1> QED
  BY <1>1, <1>2

LEMMA EnumerationGoesOn ==
  ASSUME NEW E, Intact(E), DOMAIN E \subseteq EntryId, Root \notin DOMAIN E, NEW a, NEW order, NEW head,
         Enumerating(E, a, order, head), head \in 1..Len(order),
         NEW s \in Listings(Children(E, E[a].vault, order[head]))
  PROVE  Enumerating(E, a, order \o s, head + 1)
<1> DEFINE new == order \o s
           n == Len(order)
           below == Children(E, E[a].vault, order[head])
<1>0. n \in Nat /\ order \in Seq(EntryId)
  BY DEF Enumerating
<1>1. /\ s \in Seq(EntryId) /\ Len(s) \in Nat
      /\ \A i \in 1..Len(s) : s[i] \in below
      /\ \A y \in below : \E i \in 1..Len(s) : s[i] = y
      /\ \A i, j \in 1..Len(s) : s[i] = s[j] => i = j
  <2>1. below \in SUBSET EntryId
    BY DEF Children
  <2> QED
    BY <2>1, ListingFacts
<1>2. /\ new \in Seq(EntryId) /\ Len(new) = n + Len(s)
      /\ \A i \in 1..n : new[i] = order[i]
      /\ \A i \in 1..Len(s) : new[n + i] = s[i]
  BY <1>0, <1>1, ConcatProperties
<1> HIDE DEF new
<1>3. ASSUME NEW i \in 1..Len(new)
      PROVE  \/ i \in 1..n /\ new[i] = order[i]
             \/ i - n \in 1..Len(s) /\ new[i] = s[i - n] /\ new[i] \in below
  <2>1. CASE i <= n
    BY <2>1, <1>0, <1>2
  <2>2. CASE i > n
    <3>1. i - n \in 1..Len(s) /\ i = n + (i - n)
      BY <2>2, <1>0, <1>1, <1>2
    <3>2. new[n + (i - n)] = s[i - n]
      BY <3>1, <1>2
    <3>3. new[i] = s[i - n]
      BY <3>1, <3>2
    <3>4. s[i - n] \in below
      BY <3>1, <1>1
    <3> QED
      BY <3>1, <3>3, <3>4
  <2> QED
    BY <2>1, <2>2, <1>0, <1>2
<1>4. \A x \in below : x \in DOMAIN E /\ E[x].vault = E[a].vault /\ E[x].parent = order[head] /\ x \in Subtree(E, a)
  <2>1. order[head] \in Subtree(E, a) /\ order[head] # Root
    BY DEF Enumerating, Subtree
  <2> QED
    BY <2>1, ChildIsBelow DEF Children
<1>5. \A i \in 1..Len(new) : new[i] \in Subtree(E, a) /\ E[new[i]].vault = E[a].vault
  BY <1>3, <1>4 DEF Enumerating
<1>6. ASSUME NEW i \in 1..Len(new), NEW j \in 1..Len(new), new[i] = new[j] PROVE i = j
  <2>1. \A k \in 1..n : order[k] \notin below
    BY NothingTwice
  <2>2. CASE i \in 1..n /\ j \in 1..n
    BY <2>2, <1>2, <1>6 DEF Enumerating
  <2>3. CASE i \notin 1..n /\ j \notin 1..n
    <3>1. i - n \in 1..Len(s) /\ j - n \in 1..Len(s) /\ s[i - n] = s[j - n]
      BY <2>3, <1>3, <1>6
    <3>2. i - n = j - n
      BY <3>1, <1>1
    <3> QED
      BY <3>2, <1>0
  <2>4. CASE i \in 1..n /\ j \notin 1..n
    <3>1. new[i] = order[i] /\ new[j] \in below
      BY <2>4, <1>2, <1>3
    <3> QED
      BY <2>1, <2>4, <3>1, <1>6
  <2>5. CASE i \notin 1..n /\ j \in 1..n
    <3>1. new[j] = order[j] /\ new[i] \in below
      BY <2>5, <1>2, <1>3
    <3> QED
      BY <2>1, <2>5, <3>1, <1>6
  <2> QED
    BY <2>2, <2>3, <2>4, <2>5
<1>7. ASSUME NEW i \in 2..Len(new)
      PROVE  \E j \in 1..head : j < i /\ E[new[i]].parent = new[j]
  <2>0. i \in 1..Len(new) /\ head \in 1..n
    BY <1>2, <1>0, <1>1
  <2>1. CASE i \in 1..n
    <3>1. i \in 2..n /\ new[i] = order[i]
      BY <2>1, <1>0, <1>2
    <3>2. PICK j \in 1..head - 1 : j < i /\ E[order[i]].parent = order[j]
      BY <3>1 DEF Enumerating
    <3>3. j \in 1..head /\ j \in 1..n
      BY <3>2, <1>0
    <3> QED
      BY <3>1, <3>2, <3>3, <1>2
  <2>2. CASE i \notin 1..n
    <3>1. head < i /\ new[i] \in below /\ head \in 1..head
      BY <2>0, <2>2, <1>0, <1>3
    <3> QED
      BY <3>1, <2>0, <1>2, <1>4
  <2> QED
    BY <2>1, <2>2
<1>8. ASSUME NEW j \in 1..head, NEW y \in Children(E, E[a].vault, new[j])
      PROVE  \E i \in 1..Len(new) : new[i] = y
  <2>0. j \in 1..n /\ new[j] = order[j]
    BY <1>0, <1>2
  <2>1. CASE j = head
    <3>1. PICK i \in 1..Len(s) : s[i] = y
      BY <2>0, <2>1, <1>1, <1>8
    <3>2. n + i \in 1..Len(new) /\ n + i - n = i /\ ~(n + i <= n)
      BY <1>0, <1>1, <1>2
    <3>3. new[n + i] = y
      BY <3>1, <3>2, <1>2
    <3> QED
      BY <3>2, <3>3
  <2>2. CASE j # head
    <3>1. j \in 1..head - 1
      BY <2>2, <1>0
    <3>2. PICK i \in 1..n : order[i] = y
      BY <3>1, <2>0 DEF Enumerating
    <3>3. i \in 1..Len(new)
      BY <1>0, <1>1, <1>2
    <3> QED
      BY <3>2, <3>3, <1>2
  <2> QED
    BY <2>1, <2>2
<1>9. Len(new) >= 1 /\ new[1] = a /\ head + 1 \in 1..Len(new) + 1 /\ (head + 1) - 1 = head
  BY <1>0, <1>1, <1>2 DEF Enumerating
<1> QED
  BY <1>2, <1>5, <1>6, <1>7, <1>8, <1>9 DEF Enumerating, new

(* When the order is complete it is the subtree. *)
LEMMA EnumeratedIsSubtree ==
  ASSUME NEW E, Intact(E), NEW a, NEW order, Enumerated(E, a, order)
  PROVE  /\ \A x : x \in Subtree(E, a) <=> \E i \in 1..Len(order) : order[i] = x
         /\ Range(order) = Subtree(E, a)
<1> DEFINE R == {order[i] : i \in 1..Len(order)}
<1>0. Len(order) \in Nat /\ DOMAIN order = 1..Len(order)
  BY LenProperties DEF Enumerated, Enumerating
<1>1. R \subseteq Subtree(E, a) /\ a \in R
  BY <1>0 DEF Enumerated, Enumerating
<1>2. ASSUME NEW x \in Subtree(E, a) PROVE x \in R
  <2> SUFFICES ASSUME x \notin R PROVE FALSE
    OBVIOUS
  <2> DEFINE A == DOMAIN E \ R
  <2>1. ASSUME NEW z \in A, E[z].parent # Root PROVE E[z].parent \in A
    <3>1. E[z].parent \in DOMAIN E /\ E[E[z].parent].vault = E[z].vault
      BY <2>1 DEF Intact, FolderParent
    <3>2. ASSUME E[z].parent \in R PROVE FALSE
      <4>1. PICK j \in 1..Len(order) : order[j] = E[z].parent
        BY <3>2
      <4>2. E[z].vault = E[a].vault /\ j \in 1..(Len(order) + 1) - 1
        BY <3>1, <4>1, <1>0 DEF Enumerated, Enumerating
      <4>3. z \in Children(E, E[a].vault, order[j])
        BY <4>1, <4>2 DEF Children
      <4>4. \E i \in 1..Len(order) : order[i] = z
        BY <4>2, <4>3 DEF Enumerated, Enumerating
      <4> QED
        BY <4>4
    <3> QED
      BY <3>1, <3>2
  <2>2. ParentClosed(E, A) /\ x \in A /\ A \in SUBSET DOMAIN E
    BY <2>1 DEF ParentClosed, Subtree
  <2> QED
    BY <1>1, <2>2 DEF Subtree, OnChain
<1> QED
  BY <1>0, <1>1, <1>2 DEF Range

(* From the last folder to the first, each delete finds its row, and no    *)
(* row that refers to it.                                                  *)
LEMMA LastIsFree ==
  ASSUME NEW E, Intact(E), NEW F, NEW J, NEW a, NEW order, Enumerated(E, a, order), Root \notin DOMAIN E,
         \A i \in 1..Len(order) : Clean(E, F, order[i]), Jobless(J, order),
         NEW pos \in 1..Len(order)
  PROVE  LET left == Remove(E, {order[i] : i \in pos + 1..Len(order)}) IN
         order[pos] \in DOMAIN left /\ Dependents(left, F, J, order[pos]) = {}
<1> DEFINE gone == {order[i] : i \in pos + 1..Len(order)}
           left == Remove(E, gone)
<1>0. /\ Len(order) \in Nat /\ DOMAIN order = 1..Len(order)
      /\ \A i, j \in 1..Len(order) : order[i] = order[j] => i = j
      /\ \A i \in 1..Len(order) : order[i] \in DOMAIN E
  BY LenProperties DEF Enumerated, Enumerating, Subtree
<1>1. DOMAIN left = DOMAIN E \ gone /\ \A x \in DOMAIN left : left[x] = E[x]
  BY DEF Remove, Restrict
<1>2. order[pos] \notin gone
  BY <1>0
<1> HIDE DEF left
<1>3. ASSUME NEW y \in DOMAIN left, left[y].parent = order[pos] PROVE FALSE
  <2>1. y \in DOMAIN E /\ E[y].parent = order[pos] /\ order[pos] \in Subtree(E, a) /\ order[pos] # Root
    BY <1>0, <1>1, <1>3 DEF Enumerated, Enumerating
  <2>2. y \in Subtree(E, a)
    BY <2>1, ChildIsBelow
  <2>3. PICK k \in 1..Len(order) : order[k] = y
    BY <2>2, EnumeratedIsSubtree
  <2>4. k <= pos
    <3>1. k \notin pos + 1..Len(order)
      BY <1>1, <1>3, <2>3
    <3> QED
      BY <3>1, <1>0
  <2>5. CASE k = 1
    <3>1. \A i \in 1..Len(order) : E[a].parent # order[i]
      BY TopIsBelowNone DEF Enumerated
    <3>2. order[1] = a
      BY DEF Enumerated, Enumerating
    <3> QED
      BY <2>1, <2>3, <2>5, <3>1, <3>2
  <2>6. CASE k # 1
    <3>1. k \in 2..Len(order)
      BY <1>0, <2>6
    <3>2. PICK j \in 1..(Len(order) + 1) - 1 : j < k /\ E[order[k]].parent = order[j]
      BY <3>1 DEF Enumerated, Enumerating
    <3>3. j \in 1..Len(order) /\ j # pos
      BY <1>0, <2>4, <3>2
    <3> QED
      BY <1>0, <2>1, <2>3, <3>2, <3>3
  <2> QED
    BY <2>5, <2>6
<1>4. order[pos] \notin F /\ \A j \in DOMAIN J : J[j].entry # order[pos]
  BY <1>0 DEF Clean, Jobless, Range
<1> QED
  BY <1>0, <1>1, <1>2, <1>3, <1>4 DEF Dependents, left

LEMMA RemoveTable ==
  ASSUME NEW E, IsTable(E, EntryId, EntryRow), NEW S
  PROVE  IsTable(Remove(E, S), EntryId, EntryRow) /\ Remove(E, {}) = E
<1>1. IsTable(Remove(E, S), EntryId, EntryRow)
  BY DEF IsTable, Remove, Restrict
<1>2. Remove(E, {}) = E
  BY DEF IsTable, Remove, Restrict
<1> QED
  BY <1>1, <1>2

-----------------------------------------------------------------------------
(* The steps inside a transaction. *)

LEMMA InsertVaultStep ==
  ASSUME IInv, NEW c \in Client, InsertVault(c)
  PROVE  IInv' /\ [NS!Next]_(NS!vars)
<1>0. pc[c] = "insertVault" /\ pc[c] \in InTx /\ "commit" \in InTx
  BY DEF InsertVault, InTx
<1>1. PICK v \in VaultId \ tx[c].vaults :
        Proceed(c, "commit", [tx[c] EXCEPT !.vaults = tx[c].vaults \cup {v}], loc[c])
  BY DEF InsertVault
<1> DEFINE t == [tx[c] EXCEPT !.vaults = tx[c].vaults \cup {v}]
<1>2. /\ req[c].op = "CreateLocalVault" /\ tx[c] = db /\ loc[c] \in Local /\ loc[c].rows = {}
      /\ IsDb(db) /\ EarlyCode(req[c]) = "OK" /\ req[c] \in Menu
  BY <1>0, TxFacts DEF At
<1>3. IsDb(t)
  BY <1>2, DbFacts DEF IsDb
<1>4. At("commit", req[c], t, loc[c], db, files, jobs)
  <2>1. Answers(req[c], "OK", db, files, jobs)
    BY <1>2 DEF Answers, EarlyCode
  <2>2. Result(req[c], t, loc[c].rows, db)
    BY <1>2 DEF Result
  <2> QED
    BY <1>2, <2>1, <2>2 DEF At
<1> QED
  BY <1>0, <1>1, <1>2, <1>3, <1>4, ProceedStep

(* A listing fetches its rows and commits nothing. *)
LEMMA FetchStep ==
  ASSUME IInv, NEW c \in Client, pc[c] \in InTx, tx[c] = db, NEW rows, Fetch(c, rows),
         rows \subseteq VaultId \cup NS!Listed,
         Answers(req[c], "OK", db, files, jobs), Result(req[c], db, rows, db)
  PROVE  IInv' /\ [NS!Next]_(NS!vars)
<1> DEFINE l == [loc[c] EXCEPT !.rows = rows]
<1>1. loc[c] \in Local /\ IsDb(db) /\ req[c] \in Menu /\ EarlyCode(req[c]) = "OK"
  BY TxFacts DEF At
<1>2. l \in Local /\ l.rows = rows
  BY <1>1 DEF Local
<1>3. At("commit", req[c], tx[c], l, db, files, jobs)
  BY <1>1, <1>2 DEF At
<1> QED
  BY <1>1, <1>2, <1>3, ProceedStep DEF Fetch, InTx

LEMMA ListVaultsStep ==
  ASSUME IInv, NEW c \in Client, ListVaults(c)
  PROVE  IInv' /\ [NS!Next]_(NS!vars)
<1>0. pc[c] = "listVaults" /\ pc[c] \in InTx
  BY DEF ListVaults, InTx
<1>1. req[c].op = "ListVaults" /\ tx[c] = db /\ IsDb(db)
  BY <1>0, TxFacts DEF At
<1>2. Answers(req[c], "OK", db, files, jobs) /\ Result(req[c], db, db.vaults, db)
  BY <1>1 DEF Answers, Result
<1> QED
  BY <1>0, <1>1, <1>2, FetchStep DEF ListVaults, IsDb

LEMMA ListEntriesStep ==
  ASSUME IInv, NEW c \in Client, ListEntries(c)
  PROVE  IInv' /\ [NS!Next]_(NS!vars)
<1> DEFINE r == req[c]
           rows == NS!Rows(db.entries, r.vault, r.parent)
<1>0. pc[c] = "listEntries" /\ pc[c] \in InTx
  BY DEF ListEntries, InTx
<1>1. r.op = "ListEntries" /\ tx[c] = db /\ IsDb(db) /\ Parented(r, db)
  BY <1>0, TxFacts DEF At
<1>2. Answers(r, "OK", db, files, jobs) /\ Result(r, db, rows, db)
  BY <1>1 DEF Answers, Result, ListCode, Parented
<1>3. rows \subseteq NS!Listed
  BY <1>1 DEF IsDb, IsTable, NS!Rows, NS!Children, NS!Listed, NS!EntryRow, EntryRow, NS!Parent, Parent,
              NS!Kind, Kind, NS!Status, Status
<1> QED
  BY <1>0, <1>1, <1>2, <1>3, FetchStep DEF ListEntries

LEMMA GetVaultStep ==
  ASSUME IInv, NEW c \in Client, GetVault(c)
  PROVE  IInv' /\ [NS!Next]_(NS!vars)
<1> DEFINE r == req[c]
<1>0. pc[c] = "getVault" /\ pc[c] \in InTx
  BY DEF GetVault, InTx
<1>1. /\ r.op \in {"CreateFolder", "GetVault", "ListEntries"} /\ tx[c] = db /\ IsDb(db)
      /\ loc[c] = NoLoc /\ loc[c] \in Local /\ r \in Menu /\ EarlyCode(r) = "OK"
  BY <1>0, TxFacts DEF At
<1>2. CASE r.vault \notin db.vaults
  <2>1. Answers(r, "NOT_FOUND", db, files, jobs)
    BY <1>1, <1>2 DEF Answers, EarlyCode, CreateCode, ListCode
  <2> QED
    BY <1>0, <1>1, <1>2, <2>1, RollbackStep DEF GetVault
<1>3. CASE r.vault \in db.vaults /\ r.op = "GetVault"
  <2>1. Answers(r, "OK", db, files, jobs) /\ Result(r, db, {r.vault}, db)
    BY <1>3 DEF Answers, Result
  <2> QED
    BY <1>0, <1>1, <1>3, <2>1, FetchStep, RequestFacts DEF GetVault
<1>4. CASE r.vault \in db.vaults /\ r.op # "GetVault"
  <2> DEFINE p == IF r.parent # Root THEN "checkParent" ELSE AfterParent[r.op]
  <2>1. Proceed(c, p, tx[c], loc[c])
    BY <1>1, <1>4 DEF GetVault
  <2>2. AfterParent[r.op] = IF r.op = "CreateFolder" THEN "insertEntry" ELSE "listEntries"
    BY <1>1, <1>4 DEF AfterParent
  <2>3. p \in InTx
    BY <2>2 DEF InTx
  <2>4. At(p, r, tx[c], loc[c], db, files, jobs)
    BY <1>1, <1>4, <2>2 DEF At, Parented, GoodParent, NoLoc
  <2> QED
    BY <1>0, <1>1, <2>1, <2>3, <2>4, ProceedStep
<1> QED
  BY <1>2, <1>3, <1>4

LEMMA CheckParentStep ==
  ASSUME IInv, NEW c \in Client, CheckParent(c)
  PROVE  IInv' /\ [NS!Next]_(NS!vars)
<1> DEFINE r == req[c]
           E == db.entries
<1>0. pc[c] = "checkParent" /\ pc[c] \in InTx
  BY DEF CheckParent, InTx
<1>1. /\ tx[c] = db /\ IsDb(db) /\ loc[c] = NoLoc /\ loc[c] \in Local
      /\ r \in Menu /\ EarlyCode(r) = "OK" /\ DOMAIN E \subseteq EntryId
      /\ \/ Movable(r, db) /\ r.to # Root
         \/ r.op \in {"CreateFolder", "ListEntries"} /\ r.vault \in db.vaults
  BY <1>0, TxFacts DEF At, IsTable
<1>2. CASE r.op = "MoveEntry" /\ ~GoodParent(E, E[r.id].vault, r.to)
  <2>1. Answers(r, "INVALID_PARENT", db, files, jobs)
    BY <1>1, <1>2 DEF Answers, EarlyCode, MoveCode, Movable
  <2> QED
    BY <1>0, <1>1, <1>2, <2>1, RollbackStep DEF CheckParent
<1>3. CASE r.op = "MoveEntry" /\ GoodParent(E, E[r.id].vault, r.to)
  <2> DEFINE l == [loc[c] EXCEPT !.cur = r.to]
  <2>1. Proceed(c, "walk", db, l) /\ "walk" \in InTx
    BY <1>1, <1>3 DEF CheckParent, InTx
  <2>2. r.to \in DOMAIN E
    BY <1>1, <1>3 DEF GoodParent
  <2>3. l \in Local /\ l.cur = r.to /\ l.visited = {} /\ l.rows = {}
    <3>1. r.to \in Parent
      BY <1>1, <2>2 DEF Parent
    <3>2. l \in Local
      BY <1>1, <3>1 DEF Local
    <3>3. l.cur = r.to /\ l.visited = {} /\ l.rows = {}
      BY <1>1 DEF NoLoc
    <3> QED
      BY <3>2, <3>3
  <2>4. At("walk", r, db, l, db, files, jobs)
    BY <1>1, <1>3, <2>2, <2>3, WalkStarts DEF At
  <2> QED
    BY <1>0, <1>1, <2>1, <2>3, <2>4, ProceedStep
<1>4. CASE r.op # "MoveEntry" /\ ~GoodParent(E, r.vault, r.parent)
  <2>1. r.op \in {"CreateFolder", "ListEntries"} /\ r.vault \in db.vaults
    BY <1>1, <1>4 DEF Movable
  <2>2. Answers(r, "INVALID_PARENT", db, files, jobs)
    BY <1>1, <1>4, <2>1 DEF Answers, EarlyCode, CreateCode, ListCode
  <2> QED
    BY <1>0, <1>1, <1>4, <2>2, RollbackStep DEF CheckParent, Read
<1>5. CASE r.op # "MoveEntry" /\ GoodParent(E, r.vault, r.parent)
  <2>1. r.op \in {"CreateFolder", "ListEntries"} /\ r.vault \in db.vaults
    BY <1>1, <1>5 DEF Movable
  <2> DEFINE p == IF r.op = "CreateFolder" THEN "insertEntry" ELSE "listEntries"
  <2>2. Proceed(c, p, db, loc[c]) /\ p \in InTx
    BY <1>1, <1>5, <2>1 DEF CheckParent, Read, AfterParent, InTx
  <2>3. At(p, r, db, loc[c], db, files, jobs)
    BY <1>1, <1>5, <2>1 DEF At, Parented, NoLoc
  <2> QED
    BY <1>0, <1>1, <2>2, <2>3, ProceedStep
<1> QED
  BY <1>2, <1>3, <1>4, <1>5

LEMMA PutTable ==
  ASSUME NEW E, IsTable(E, EntryId, EntryRow), NEW id \in EntryId, NEW row \in EntryRow
  PROVE  IsTable(Put(E, id, row), EntryId, EntryRow)
BY DEF IsTable, Put

LEMMA InsertEntryStep ==
  ASSUME IInv, NEW c \in Client, InsertEntry(c)
  PROVE  IInv' /\ [NS!Next]_(NS!vars)
<1> DEFINE r == req[c]
           E == db.entries
           row == FolderRow(r)
<1>0. pc[c] = "insertEntry" /\ pc[c] \in InTx /\ "commit" \in InTx
  BY DEF InsertEntry, InTx
<1>1. /\ tx[c] = db /\ IsDb(db) /\ loc[c] = NoLoc /\ loc[c] \in Local
      /\ r \in Menu /\ EarlyCode(r) = "OK" /\ IsTable(E, EntryId, EntryRow)
      /\ r.op = "CreateFolder" /\ Parented(r, db) /\ ~Rejected(r.name)
  BY <1>0, TxFacts DEF At, EarlyCode
<1>2. row.vault = r.vault /\ row.parent = r.parent /\ row.key = LookupKey(r.name)
  BY DEF FolderRow
<1>3. CASE ~KeyFree(E, r.vault, r.parent, LookupKey(r.name), Root)
  <2>1. Answers(r, "FILE_CONFLICT", db, files, jobs)
    BY <1>1, <1>3 DEF Answers, CreateCode, Parented
  <2> QED
    BY <1>0, <1>1, <1>3, <2>1, RollbackStep DEF InsertEntry
<1>4. CASE KeyFree(E, r.vault, r.parent, LookupKey(r.name), Root)
  <2>1. PICK id \in db.unused :
          Proceed(c, "commit", [db EXCEPT !.entries = Put(E, id, row), !.unused = db.unused \ {id}], loc[c])
    BY <1>1, <1>4 DEF InsertEntry, FolderRow
  <2> DEFINE E2 == Put(E, id, row)
             U2 == db.unused \ {id}
             t == [db EXCEPT !.entries = E2, !.unused = U2]
  <2>2. row \in EntryRow
    BY <1>1, RequestFacts, NameAssumption DEF FolderRow, EntryRow, Kind, Status, Rejected, LookupKey
  <2>3. IsTable(E2, EntryId, EntryRow) /\ U2 \subseteq EntryId
    BY <1>1, <2>2, PutTable DEF IsDb
  <2> HIDE DEF E2, U2
  <2>4. IsDb(t)
    <3>0. IsDb(db)
      BY <1>1
    <3>1. t = [vaults |-> db.vaults, entries |-> E2, unused |-> U2]
      BY <3>0, NewEntryFacts
    <3>2. IsDb([vaults |-> db.vaults, entries |-> E2, unused |-> U2])
      BY <1>1, <2>3, NewEntryFacts
    <3> QED
      BY <3>1, <3>2
  <2>5. Answers(r, "OK", db, files, jobs)
    BY <1>1, <1>4 DEF Answers, CreateCode, Parented
  <2>6. Result(r, t, {}, db)
    BY <1>1 DEF Result, E2, U2
  <2>7. Proceed(c, "commit", t, loc[c])
    BY <2>1 DEF E2, U2
  <2> HIDE DEF t
  <2>8. At("commit", r, t, loc[c], db, files, jobs)
    BY <1>1, <2>5, <2>6 DEF At, NoLoc
  <2> QED
    BY <1>0, <1>1, <2>4, <2>7, <2>8, ProceedStep
<1> QED
  BY <1>3, <1>4

(* A rename to the name it has, and a move to where it is, change nothing. *)
LEMMA NoOps ==
  ASSUME NEW E, Intact(E), IsTable(E, EntryId, EntryRow), NEW id \in DOMAIN E
  PROVE  /\ \A raw : E[id].name = Display[raw] =>
              /\ [E EXCEPT ![id].name = Display[raw], ![id].key = LookupKey(raw)] = E
              /\ KeyFree(E, E[id].vault, E[id].parent, LookupKey(raw), id)
         /\ \A p : E[id].parent = p => [E EXCEPT ![id].parent = p] = E
<1>0. E[id].key = Fold[E[id].name] /\ E[id] \in EntryRow
  BY DEF Intact, IsTable
<1>1. ASSUME NEW raw, E[id].name = Display[raw]
      PROVE  [E EXCEPT ![id].name = Display[raw], ![id].key = LookupKey(raw)] = E
  <2>1. LookupKey(raw) = E[id].key
    BY <1>0, <1>1 DEF LookupKey
  <2>2. [E[id] EXCEPT !.name = E[id].name, !.key = E[id].key] = E[id]
    BY <1>0 DEF EntryRow
  <2>3. E = [x \in DOMAIN E |-> E[x]]
    BY DEF IsTable
  <2> QED
    BY <1>1, <2>1, <2>2, <2>3
<1>2. ASSUME NEW raw, E[id].name = Display[raw]
      PROVE  KeyFree(E, E[id].vault, E[id].parent, LookupKey(raw), id)
  BY <1>0, <1>2 DEF Intact, KeyFree, Children, LookupKey
<1>3. ASSUME NEW p, E[id].parent = p PROVE [E EXCEPT ![id].parent = p] = E
  <2>1. [E[id] EXCEPT !.parent = E[id].parent] = E[id]
    BY <1>0 DEF EntryRow
  <2>2. E = [x \in DOMAIN E |-> E[x]]
    BY DEF IsTable
  <2> QED
    BY <1>3, <2>1, <2>2
<1> QED
  BY <1>1, <1>2, <1>3

(* A step that only reads: the locals stay as they were at the start. *)
LEMMA OnStep ==
  ASSUME IInv, NEW c \in Client, pc[c] \in InTx, tx[c] = db, loc[c] = NoLoc, NEW p \in InTx,
         Proceed(c, p, tx[c], loc[c]), At(p, req[c], db, NoLoc, db, files, jobs)
  PROVE  IInv' /\ [NS!Next]_(NS!vars)
BY TxFacts, ProceedStep

LEMMA GetEntryStep ==
  ASSUME IInv, NEW c \in Client, GetEntry(c)
  PROVE  IInv' /\ [NS!Next]_(NS!vars)
<1> DEFINE r == req[c]
           E == db.entries
<1>0. pc[c] = "getEntry" /\ pc[c] \in InTx
      /\ {"commit", "renameEntry", "moveEntry", "checkParent", "expand", "children"} \subseteq InTx
  BY DEF GetEntry, InTx
<1>1. /\ tx[c] = db /\ IsDb(db) /\ loc[c] = NoLoc /\ loc[c] \in Local
      /\ r \in Menu /\ EarlyCode(r) = "OK" /\ IsTable(E, EntryId, EntryRow) /\ Intact(E)
      /\ r.op \in {"RenameEntry", "MoveEntry", "DeleteFolder"}
      /\ r.op = "RenameEntry" => ~Rejected(r.name)
      /\ r.op = "MoveEntry" => r.to # r.id
      /\ NoLoc.rows = {}
  BY <1>0, TxFacts DEF At, EarlyCode, NoLoc
<1>2. CASE r.id \notin DOMAIN E
  <2>1. Answers(r, "NOT_FOUND", db, files, jobs)
    BY <1>1, <1>2 DEF Answers, RenameCode, MoveCode, DeleteCode
  <2> QED
    BY <1>0, <1>1, <1>2, <2>1, RollbackStep DEF GetEntry
<1>3. CASE r.id \in DOMAIN E /\ IF r.op = "DeleteFolder" THEN E[r.id].kind # "folder"
                                ELSE E[r.id].status # "available"
  <2>1. Answers(r, "INVALID_STATE", db, files, jobs)
    BY <1>1, <1>3 DEF Answers, RenameCode, MoveCode, DeleteCode
  <2> QED
    BY <1>0, <1>1, <1>3, <2>1, RollbackStep DEF GetEntry
<1>4. CASE r.op = "RenameEntry" /\ r.id \in DOMAIN E /\ E[r.id].status = "available"
  <2>1. CASE E[r.id].name = Display[r.name]
    <3>1. Proceed(c, "commit", tx[c], loc[c])
      BY <1>1, <1>4, <2>1 DEF GetEntry
    <3>2. Answers(r, "OK", db, files, jobs)
      BY <1>1, <1>4, <2>1, NoOps DEF Answers, RenameCode
    <3>3. db = [db EXCEPT !.entries = E]
      BY <1>1, DbFacts DEF IsDb
    <3>4. [E EXCEPT ![r.id].name = Display[r.name], ![r.id].key = LookupKey(r.name)] = E
      <4>1. IsTable(E, EntryId, EntryRow) /\ Intact(E) /\ r.id \in DOMAIN E
        BY <1>1, <1>4
      <4> QED
        BY <4>1, <2>1, NoOps
    <3>5. Result(r, db, {}, db)
      BY <1>4, <3>3, <3>4 DEF Result
    <3>6. At("commit", r, db, NoLoc, db, files, jobs)
      BY <1>1, <3>2, <3>5 DEF At
    <3> QED
      BY <1>0, <1>1, <3>1, <3>6, OnStep
  <2>2. CASE E[r.id].name # Display[r.name]
    <3>1. Proceed(c, "renameEntry", tx[c], loc[c])
      BY <1>1, <1>4, <2>2 DEF GetEntry
    <3>2. At("renameEntry", r, db, NoLoc, db, files, jobs)
      BY <1>1, <1>4 DEF At, Renamable
    <3> QED
      BY <1>0, <1>1, <3>1, <3>2, OnStep
  <2> QED
    BY <2>1, <2>2
<1>5. CASE r.op = "MoveEntry" /\ r.id \in DOMAIN E /\ E[r.id].status = "available"
  <2>1. CASE E[r.id].parent = r.to
    <3>1. Proceed(c, "commit", tx[c], loc[c])
      BY <1>1, <1>5, <2>1 DEF GetEntry
    <3>2. Answers(r, "OK", db, files, jobs)
      BY <1>1, <1>5, <2>1 DEF Answers, MoveCode
    <3>3. db = [db EXCEPT !.entries = E]
      BY <1>1, DbFacts DEF IsDb
    <3>4. [E EXCEPT ![r.id].parent = r.to] = E
      <4>1. IsTable(E, EntryId, EntryRow) /\ Intact(E) /\ r.id \in DOMAIN E
        BY <1>1, <1>5
      <4> QED
        BY <4>1, <2>1, NoOps
    <3>5. Result(r, db, {}, db)
      BY <1>5, <3>3, <3>4 DEF Result
    <3>6. At("commit", r, db, NoLoc, db, files, jobs)
      BY <1>1, <3>2, <3>5 DEF At
    <3> QED
      BY <1>0, <1>1, <3>1, <3>6, OnStep
  <2>2. CASE E[r.id].parent # r.to /\ r.to = Root
    <3>1. Proceed(c, "moveEntry", tx[c], loc[c])
      BY <1>1, <1>5, <2>2 DEF GetEntry
    <3>2. At("moveEntry", r, db, NoLoc, db, files, jobs)
      BY <1>1, <1>5, <2>2 DEF At, Movable
    <3> QED
      BY <1>0, <1>1, <3>1, <3>2, OnStep
  <2>3. CASE E[r.id].parent # r.to /\ r.to # Root
    <3>1. Proceed(c, "checkParent", tx[c], loc[c])
      BY <1>1, <1>5, <2>3 DEF GetEntry
    <3>2. At("checkParent", r, db, NoLoc, db, files, jobs)
      BY <1>1, <1>5, <2>3 DEF At, Movable
    <3> QED
      BY <1>0, <1>1, <3>1, <3>2, OnStep
  <2> QED
    BY <2>1, <2>2, <2>3
<1>6. CASE r.op = "DeleteFolder" /\ r.id \in DOMAIN E /\ E[r.id].kind = "folder"
  <2>1. CASE r.recursive
    <3> DEFINE l == [loc[c] EXCEPT !.order = <<r.id>>]
    <3>1. Proceed(c, "expand", db, l)
      BY <1>1, <1>6, <2>1 DEF GetEntry
    <3>2. DOMAIN E \subseteq EntryId /\ <<r.id>> \in Seq(EntryId)
      BY <1>1, <1>6 DEF IsTable
    <3>3. l \in Local
      BY <1>1, <3>2 DEF Local
    <3>4. l.order = <<r.id>> /\ l.head = 1 /\ l.pos = 1 /\ l.rows = {}
      BY <1>1 DEF NoLoc
    <3>5. Enumerating(E, r.id, l.order, l.head)
      BY <1>6, <3>2, <3>4, EnumerationStarts
    <3>6. At("expand", r, db, l, db, files, jobs)
      BY <1>1, <1>6, <2>1, <3>4, <3>5 DEF At, Deletable
    <3> QED
      BY <1>0, <1>1, <3>1, <3>3, <3>6, ProceedStep
  <2>2. CASE ~r.recursive
    <3>1. Proceed(c, "children", tx[c], loc[c])
      BY <1>1, <1>6, <2>2 DEF GetEntry
    <3>2. At("children", r, db, NoLoc, db, files, jobs)
      BY <1>1, <1>6, <2>2 DEF At, Deletable
    <3> QED
      BY <1>0, <1>1, <3>1, <3>2, OnStep
  <2> QED
    BY <2>1, <2>2
<1> QED
  BY <1>1, <1>2, <1>3, <1>4, <1>5, <1>6

(* An update of one table: committed as it stands, or refused. *)
LEMMA WriteStep ==
  ASSUME IInv, NEW c \in Client, pc[c] \in InTx, tx[c] = db, loc[c] \in Local, loc[c].rows = {}, NEW code, NEW E,
         Write(c, code, E), Answers(req[c], code, db, files, jobs),
         code = "OK" => IsTable(E, EntryId, EntryRow) /\ Result(req[c], [db EXCEPT !.entries = E], {}, db)
  PROVE  IInv' /\ [NS!Next]_(NS!vars)
<1>1. CASE code # "OK"
  BY <1>1, RollbackStep DEF Write
<1>2. CASE code = "OK"
  <2> DEFINE t == [db EXCEPT !.entries = E]
  <2>1. Proceed(c, "commit", t, loc[c]) /\ "commit" \in InTx
    BY <1>2 DEF Write, InTx
  <2>2. IsDb(t)
    BY <1>2, TxFacts, DbFacts
  <2>3. At("commit", req[c], t, loc[c], db, files, jobs)
    BY <1>2, TxFacts DEF At
  <2> QED
    BY <2>1, <2>2, <2>3, ProceedStep
<1> QED
  BY <1>1, <1>2

LEMMA RenameEntryStep ==
  ASSUME IInv, NEW c \in Client, RenameEntry(c)
  PROVE  IInv' /\ [NS!Next]_(NS!vars)
<1> DEFINE r == req[c]
           E == db.entries
           E2 == [E EXCEPT ![r.id].name = Display[r.name], ![r.id].key = LookupKey(r.name)]
           code == IF KeyFree(E, E[r.id].vault, E[r.id].parent, LookupKey(r.name), r.id) THEN "OK"
                   ELSE "FILE_CONFLICT"
<1>0. pc[c] = "renameEntry" /\ pc[c] \in InTx
  BY DEF RenameEntry, InTx
<1>1. /\ tx[c] = db /\ IsDb(db) /\ loc[c] = NoLoc /\ loc[c] \in Local /\ loc[c].rows = {}
      /\ r \in Menu /\ EarlyCode(r) = "OK" /\ IsTable(E, EntryId, EntryRow)
      /\ Renamable(r, db)
  BY <1>0, TxFacts DEF At
<1>2. ~Rejected(r.name) /\ r.name \in RawName
  BY <1>1, RequestFacts DEF EarlyCode, Renamable
<1>3. Answers(r, code, db, files, jobs)
  BY <1>1, <1>2 DEF Answers, RenameCode, Renamable
<1>4. IsTable(E2, EntryId, EntryRow)
  <2>1. Display[r.name] \in Name /\ LookupKey(r.name) \in Key
    BY <1>2, NameAssumption DEF Rejected, LookupKey
  <2>2. r.id \in DOMAIN E /\ E[r.id] \in EntryRow
    BY <1>1 DEF Renamable, IsTable
  <2>3. [E[r.id] EXCEPT !.name = Display[r.name], !.key = LookupKey(r.name)] \in EntryRow
    BY <2>1, <2>2 DEF EntryRow
  <2> QED
    BY <1>1, <2>2, <2>3 DEF IsTable
<1>5. Result(r, [db EXCEPT !.entries = E2], {}, db)
  BY <1>1 DEF Result, Renamable
<1>6. Write(c, code, E2)
  BY <1>1 DEF RenameEntry
<1> HIDE DEF code, E2
<1> QED
  BY <1>0, <1>1, <1>3, <1>4, <1>5, <1>6, WriteStep

LEMMA WalkStep ==
  ASSUME IInv, NEW c \in Client, Walk(c)
  PROVE  IInv' /\ [NS!Next]_(NS!vars)
<1> DEFINE r == req[c]
           l == loc[c]
           E == db.entries
           verdict == WalkVerdict(E, r.id, l.cur, l.visited)
<1>0. pc[c] = "walk" /\ pc[c] \in InTx /\ {"walk", "moveEntry"} \subseteq InTx
  BY DEF Walk, InTx
<1>1. /\ tx[c] = db /\ IsDb(db) /\ l \in Local /\ l.rows = {}
      /\ r \in Menu /\ EarlyCode(r) = "OK" /\ IsTable(E, EntryId, EntryRow) /\ Intact(E)
      /\ Movable(r, db) /\ r.to # Root /\ GoodParent(E, E[r.id].vault, r.to)
      /\ Climbing(E, r.id, r.to, l.cur, l.visited)
  BY <1>0, TxFacts DEF At
<1>2. /\ verdict \in {"OK", "INVALID_HIERARCHY", "walking"}
      /\ verdict = "OK" => ~OnChain(E, r.id, r.to)
      /\ verdict = "INVALID_HIERARCHY" => OnChain(E, r.id, r.to)
      /\ verdict = "walking" =>
           E[l.cur].parent \in DOMAIN E /\ Climbing(E, r.id, r.to, E[l.cur].parent, l.visited \cup {l.cur})
  BY <1>1, WalkTurn
<1>3. \/ verdict = "walking" /\ Proceed(c, "walk", db, [l EXCEPT !.cur = E[l.cur].parent,
                                                             !.visited = l.visited \cup {l.cur}])
      \/ verdict # "walking" /\ Read(c, verdict, "moveEntry")
  BY <1>1 DEF Walk
<1> HIDE DEF verdict
<1>4. CASE verdict = "walking"
  <2> DEFINE up == E[l.cur].parent
             seen == l.visited \cup {l.cur}
             l2 == [l EXCEPT !.cur = up, !.visited = seen]
  <2>1. Climbing(E, r.id, r.to, up, seen) /\ up \in Parent /\ seen \subseteq EntryId
    BY <1>1, <1>2, <1>4 DEF Climbing, IsTable, Parent
  <2>2. Proceed(c, "walk", db, l2)
    BY <1>3, <1>4
  <2> HIDE DEF up, seen
  <2>3. l2 \in Local /\ l2.cur = up /\ l2.visited = seen /\ l2.rows = {}
    BY <1>1, <2>1 DEF Local
  <2>4. At("walk", r, db, l2, db, files, jobs)
    BY <1>1, <2>1, <2>3 DEF At
  <2> QED
    BY <1>0, <1>1, <2>2, <2>3, <2>4, ProceedStep
<1>5. CASE verdict = "OK"
  <2>1. Proceed(c, "moveEntry", db, l)
    BY <1>1, <1>3, <1>5 DEF Read
  <2>2. At("moveEntry", r, db, l, db, files, jobs)
    BY <1>1, <1>2, <1>5 DEF At
  <2> QED
    BY <1>0, <1>1, <2>1, <2>2, ProceedStep
<1>6. CASE verdict = "INVALID_HIERARCHY"
  <2>1. Rollback(c, "INVALID_HIERARCHY")
    BY <1>3, <1>6 DEF Read
  <2>2. Answers(r, "INVALID_HIERARCHY", db, files, jobs)
    BY <1>1, <1>2, <1>6 DEF Answers, MoveCode, Movable, EarlyCode
  <2> QED
    BY <1>0, <2>1, <2>2, RollbackStep
<1> QED
  BY <1>2, <1>4, <1>5, <1>6

LEMMA MoveEntryStep ==
  ASSUME IInv, NEW c \in Client, MoveEntry(c)
  PROVE  IInv' /\ [NS!Next]_(NS!vars)
<1> DEFINE r == req[c]
           E == db.entries
           E2 == [E EXCEPT ![r.id].parent = r.to]
           code == IF KeyFree(E, E[r.id].vault, r.to, E[r.id].key, r.id) THEN "OK" ELSE "FILE_CONFLICT"
<1>0. pc[c] = "moveEntry" /\ pc[c] \in InTx
  BY DEF MoveEntry, InTx
<1>1. /\ tx[c] = db /\ IsDb(db) /\ loc[c] \in Local /\ loc[c].rows = {}
      /\ r \in Menu /\ EarlyCode(r) = "OK" /\ IsTable(E, EntryId, EntryRow)
      /\ Movable(r, db)
      /\ r.to # Root => GoodParent(E, E[r.id].vault, r.to) /\ ~OnChain(E, r.id, r.to)
  BY <1>0, TxFacts DEF At
<1>2. Answers(r, code, db, files, jobs)
  BY <1>1 DEF Answers, MoveCode, Movable, EarlyCode, GoodParent
<1>3. IsTable(E2, EntryId, EntryRow)
  <2>1. r.to \in Parent
    BY <1>1, RequestFacts DEF Movable
  <2>2. r.id \in DOMAIN E /\ E[r.id] \in EntryRow
    BY <1>1 DEF Movable, IsTable
  <2>3. [E[r.id] EXCEPT !.parent = r.to] \in EntryRow
    BY <2>1, <2>2 DEF EntryRow
  <2> QED
    BY <1>1, <2>2, <2>3 DEF IsTable
<1>4. Result(r, [db EXCEPT !.entries = E2], {}, db)
  BY <1>1 DEF Result, Movable
<1>5. FolderParent(E, E[r.id].vault, r.to)
  BY <1>1 DEF FolderParent, GoodParent
<1>6. Write(c, code, E2)
  BY <1>1, <1>5 DEF MoveEntry
<1> HIDE DEF code, E2
<1> QED
  BY <1>0, <1>1, <1>2, <1>3, <1>4, <1>6, WriteStep

LEMMA ListChildrenStep ==
  ASSUME IInv, NEW c \in Client, ListChildren(c)
  PROVE  IInv' /\ [NS!Next]_(NS!vars)
<1> DEFINE r == req[c]
           E == db.entries
<1>0. pc[c] = "children" /\ pc[c] \in InTx /\ "deleteRows" \in InTx
  BY DEF ListChildren, InTx
<1>1. /\ tx[c] = db /\ IsDb(db) /\ loc[c] = NoLoc /\ loc[c] \in Local
      /\ r \in Menu /\ EarlyCode(r) = "OK" /\ IsTable(E, EntryId, EntryRow)
      /\ Deletable(r, db) /\ ~r.recursive
  BY <1>0, TxFacts DEF At
<1>2. CASE Children(E, E[r.id].vault, r.id) # {}
  <2>1. Answers(r, "FOLDER_NOT_EMPTY", db, files, jobs)
    BY <1>1, <1>2 DEF Answers, DeleteCode, Deletable
  <2> QED
    BY <1>0, <1>1, <1>2, <2>1, RollbackStep DEF ListChildren
<1>3. CASE Children(E, E[r.id].vault, r.id) = {}
  <2> DEFINE l == [loc[c] EXCEPT !.order = <<r.id>>, !.pos = 1]
  <2>1. Proceed(c, "deleteRows", db, l)
    BY <1>1, <1>3 DEF ListChildren
  <2>2. r.id \in EntryId
    BY <1>1 DEF Deletable, IsTable
  <2>3. l \in Local
    <3>1. <<r.id>> \in Seq(EntryId) /\ 1 \in Nat
      BY <2>2
    <3> DEFINE order == <<r.id>>
    <3> HIDE DEF order
    <3>2. [loc[c] EXCEPT !.order = order, !.pos = 1] \in Local
      BY <1>1, <3>1 DEF Local, order
    <3> QED
      BY <3>2 DEF order
  <2>4. l.order = <<r.id>> /\ l.pos = 1 /\ l.rows = {} /\ Len(l.order) = 1
    BY <1>1 DEF NoLoc
  <2>5. Remove(E, {l.order[i] : i \in l.pos + 1..Len(l.order)}) = E
    <3>1. {l.order[i] : i \in l.pos + 1..Len(l.order)} = {}
      BY <2>4
    <3> QED
      BY <1>1, <3>1, RemoveTable
  <2>6. [db EXCEPT !.entries = E] = db
    BY <1>1, DbFacts DEF IsDb
  <2> HIDE DEF l
  <2>7. Deleting(r, db, l, db, files, jobs)
    BY <1>1, <1>3, <2>4, <2>5, <2>6 DEF Deleting
  <2>8. At("deleteRows", r, db, l, db, files, jobs)
    BY <1>1, <2>4, <2>7 DEF At
  <2> QED
    BY <1>0, <1>1, <2>1, <2>3, <2>8, ProceedStep DEF l
<1> QED
  BY <1>2, <1>3

LEMMA ExpandStep ==
  ASSUME IInv, NEW c \in Client, Expand(c)
  PROVE  IInv' /\ [NS!Next]_(NS!vars)
<1> DEFINE r == req[c]
           l == loc[c]
           E == db.entries
           below == Children(E, E[r.id].vault, l.order[l.head])
<1>0. pc[c] = "expand" /\ pc[c] \in InTx /\ {"expand", "validate"} \subseteq InTx
  BY DEF Expand, InTx
<1>1. /\ tx[c] = db /\ IsDb(db) /\ l \in Local /\ l.rows = {}
      /\ r \in Menu /\ EarlyCode(r) = "OK" /\ IsTable(E, EntryId, EntryRow) /\ Intact(E)
      /\ Deletable(r, db) /\ r.recursive /\ l.pos = 1
      /\ Enumerating(E, r.id, l.order, l.head)
  BY <1>0, TxFacts DEF At
<1>2. /\ Len(l.order) \in Nat /\ l.head \in 1..Len(l.order) + 1 /\ Len(l.order) >= 1
      /\ DOMAIN l.order = 1..Len(l.order)
  BY <1>1, LenProperties DEF Enumerating
<1>3. CASE l.head > Len(l.order)
  <2>1. Proceed(c, "validate", db, l)
    BY <1>1, <1>3 DEF Expand
  <2>2. l.head = Len(l.order) + 1
    BY <1>2, <1>3
  <2>3. Enumerated(E, r.id, l.order)
    BY <1>1, <2>2 DEF Enumerated
  <2>4. At("validate", r, db, l, db, files, jobs)
    BY <1>1, <1>2, <2>3 DEF At
  <2> QED
    BY <1>0, <1>1, <2>1, <2>4, ProceedStep
<1>4. CASE ~(l.head > Len(l.order))
  <2>0. l.head \in 1..Len(l.order) /\ DOMAIN E \subseteq EntryId /\ Root \notin DOMAIN E
    BY <1>1, <1>2, <1>4, RootAssumption DEF IsTable
  <2>1. below \cap Range(l.order) = {}
    BY <1>1, <1>2, <2>0, NothingTwice DEF Range
  <2>2. PICK s \in Listings(below) :
          Proceed(c, "expand", db, [l EXCEPT !.order = l.order \o s, !.head = l.head + 1])
    BY <1>1, <1>4, <2>1 DEF Expand
  <2> DEFINE order == l.order \o s
             head == l.head + 1
             l2 == [l EXCEPT !.order = order, !.head = head]
  <2>3. Enumerating(E, r.id, order, head)
    <3>1. Intact(E) /\ Enumerating(E, r.id, l.order, l.head)
      BY <1>1
    <3>2. s \in Listings(Children(E, E[r.id].vault, l.order[l.head]))
      OBVIOUS
    <3> QED
      BY <2>0, <3>1, <3>2, EnumerationGoesOn
  <2>5. Proceed(c, "expand", db, l2)
    BY <2>2
  <2> HIDE DEF order
  <2>4. order \in Seq(EntryId) /\ head \in Nat
    <3>1. order \in Seq(EntryId)
      BY <2>3 DEF Enumerating
    <3>2. head \in Nat
      BY <1>2, <2>0
    <3> QED
      BY <3>1, <3>2
  <2> HIDE DEF head
  <2>6. l2 \in Local /\ l2.order = order /\ l2.head = head /\ l2.pos = 1 /\ l2.rows = {}
    BY <1>1, <2>4 DEF Local
  <2>7. At("expand", r, db, l2, db, files, jobs)
    BY <1>1, <2>3, <2>6 DEF At
  <2> QED
    BY <1>0, <1>1, <2>5, <2>6, <2>7, ProceedStep
<1> QED
  BY <1>3, <1>4

LEMMA ValidateStep ==
  ASSUME IInv, NEW c \in Client, Validate(c)
  PROVE  IInv' /\ [NS!Next]_(NS!vars)
<1> DEFINE r == req[c]
           l == loc[c]
           E == db.entries
           n == l.order[l.pos]
<1>0. pc[c] = "validate" /\ pc[c] \in InTx /\ {"validate", "jobs"} \subseteq InTx
  BY DEF Validate, InTx
<1>1. /\ tx[c] = db /\ IsDb(db) /\ l \in Local /\ l.rows = {}
      /\ r \in Menu /\ EarlyCode(r) = "OK" /\ Intact(E)
      /\ Deletable(r, db) /\ r.recursive /\ Enumerated(E, r.id, l.order)
      /\ l.pos \in 1..Len(l.order) + 1
      /\ \A i \in 1..l.pos - 1 : Clean(E, files, l.order[i])
  BY <1>0, TxFacts DEF At
<1>2. Len(l.order) \in Nat /\ l.pos \in Nat
  BY <1>1 DEF Local
<1>3. CASE l.pos > Len(l.order)
  <2>1. Proceed(c, "jobs", db, l)
    BY <1>1, <1>3 DEF Validate
  <2>2. l.pos - 1 = Len(l.order)
    BY <1>1, <1>2, <1>3
  <2>3. At("jobs", r, db, l, db, files, jobs)
    BY <1>1, <2>2 DEF At
  <2> QED
    BY <1>0, <1>1, <2>1, <2>3, ProceedStep
<1>4. CASE ~(l.pos > Len(l.order)) /\ ~Clean(E, files, n)
  <2>1. n \in Subtree(E, r.id)
    <3>1. l.pos \in 1..Len(l.order)
      BY <1>1, <1>2, <1>4
    <3> QED
      BY <1>1, <3>1, EnumeratedIsSubtree
  <2>2. Answers(r, "OPERATION_UNAVAILABLE", db, files, jobs)
    BY <1>1, <1>4, <2>1 DEF Answers, DeleteCode, Deletable, Blocks
  <2>3. Rollback(c, "OPERATION_UNAVAILABLE")
    BY <1>1, <1>4 DEF Validate, Clean
  <2> QED
    BY <1>0, <2>2, <2>3, RollbackStep
<1>5. CASE ~(l.pos > Len(l.order)) /\ Clean(E, files, n)
  <2> DEFINE next == l.pos + 1
             l2 == [l EXCEPT !.pos = next]
  <2>1. Proceed(c, "validate", db, l2)
    BY <1>1, <1>5 DEF Validate, Clean
  <2>2. next \in Nat /\ next \in 1..Len(l.order) + 1 /\ next - 1 = l.pos
    BY <1>1, <1>2, <1>5
  <2>3. \A i \in 1..next - 1 : Clean(E, files, l.order[i])
    <3>1. \A i \in 1..next - 1 : i \in 1..l.pos - 1 \/ i = l.pos
      BY <1>2, <2>2
    <3> QED
      BY <1>1, <1>5, <3>1
  <2> HIDE DEF next
  <2>4. l2 \in Local /\ l2.pos = next /\ l2.order = l.order /\ l2.rows = {}
    BY <1>1, <2>2 DEF Local
  <2>5. At("validate", r, db, l2, db, files, jobs)
    BY <1>1, <2>2, <2>3, <2>4 DEF At
  <2> QED
    BY <1>0, <1>1, <2>1, <2>4, <2>5, ProceedStep
<1> QED
  BY <1>3, <1>4, <1>5

LEMMA CheckJobsStep ==
  ASSUME IInv, NEW c \in Client, CheckJobs(c)
  PROVE  IInv' /\ [NS!Next]_(NS!vars)
<1> DEFINE r == req[c]
           l == loc[c]
           E == db.entries
<1>0. pc[c] = "jobs" /\ pc[c] \in InTx /\ "deleteRows" \in InTx
  BY DEF CheckJobs, InTx
<1>1. /\ tx[c] = db /\ IsDb(db) /\ l \in Local /\ l.rows = {}
      /\ r \in Menu /\ EarlyCode(r) = "OK" /\ Intact(E) /\ IsTable(E, EntryId, EntryRow)
      /\ Deletable(r, db) /\ r.recursive /\ Enumerated(E, r.id, l.order)
      /\ \A i \in 1..Len(l.order) : Clean(E, files, l.order[i])
  BY <1>0, TxFacts DEF At
<1>2. Len(l.order) \in Nat
  BY <1>1 DEF Local
<1>3. CASE \E j \in DOMAIN jobs : jobs[j].entry \in Range(l.order)
  <2>1. PICK j \in DOMAIN jobs : jobs[j].entry \in Subtree(E, r.id)
    BY <1>1, <1>3, EnumeratedIsSubtree
  <2>2. Answers(r, "OPERATION_UNAVAILABLE", db, files, jobs)
    BY <1>1, <2>1 DEF Answers, DeleteCode, Deletable, Blocks
  <2> QED
    BY <1>0, <1>3, <2>2, RollbackStep DEF CheckJobs
<1>4. CASE ~\E j \in DOMAIN jobs : jobs[j].entry \in Range(l.order)
  <2> DEFINE pos == Len(l.order)
             l2 == [l EXCEPT !.pos = pos]
  <2>1. Proceed(c, "deleteRows", db, l2)
    BY <1>1, <1>4 DEF CheckJobs
  <2>2. l2 \in Local /\ l2.pos = pos /\ l2.order = l.order /\ l2.rows = {}
    BY <1>1, <1>2 DEF Local
  <2>3. Remove(E, {l2.order[i] : i \in l2.pos + 1..Len(l2.order)}) = E
    <3>1. {l2.order[i] : i \in l2.pos + 1..Len(l2.order)} = {}
      BY <1>2, <2>2
    <3> QED
      BY <1>1, <3>1, RemoveTable
  <2>4. [db EXCEPT !.entries = E] = db
    BY <1>1, DbFacts DEF IsDb
  <2>5. Jobless(jobs, l.order)
    BY <1>4 DEF Jobless
  <2>6. l2.pos <= Len(l2.order)
    BY <1>2, <2>2
  <2> HIDE DEF l2
  <2>7. Deleting(r, db, l2, db, files, jobs)
    BY <1>1, <2>2, <2>3, <2>4, <2>5, <2>6 DEF Deleting
  <2>8. At("deleteRows", r, db, l2, db, files, jobs)
    BY <1>1, <2>2, <2>7 DEF At
  <2> QED
    BY <1>0, <1>1, <2>1, <2>2, <2>8, ProceedStep DEF l2
<1> QED
  BY <1>3, <1>4

(* A delete that has come to its rows may delete them all. *)
LEMMA DeleteIsDue ==
  ASSUME Intact(db.entries), NEW r, NEW t, NEW l, Deleting(r, t, l, db, files, jobs), l.pos = 0,
         IsDb(db), Len(l.order) \in Nat
  PROVE  Answers(r, "OK", db, files, jobs) /\ Result(r, t, {}, db)
<1> DEFINE E == db.entries
           gone == {l.order[i] : i \in l.pos + 1..Len(l.order)}
<1>0. Deletable(r, db) /\ t = [db EXCEPT !.entries = Remove(E, gone)] /\ l.pos + 1 = 1
  BY DEF Deleting
<1>1. CASE r.recursive
  <2>1. Enumerated(E, r.id, l.order) /\ (\A i \in 1..Len(l.order) : Clean(E, files, l.order[i]))
        /\ Jobless(jobs, l.order)
    BY <1>1 DEF Deleting
  <2>2. /\ \A x : x \in Subtree(E, r.id) <=> \E i \in 1..Len(l.order) : l.order[i] = x
        /\ Range(l.order) = Subtree(E, r.id)
    BY <2>1, EnumeratedIsSubtree
  <2>3. gone = Subtree(E, r.id)
    BY <1>0, <2>2
  <2>4. \A x \in Subtree(E, r.id) : ~Blocks(E, files, jobs, x)
    BY <2>1, <2>2 DEF Blocks, Jobless
  <2>5. DeleteCode(r, db, files, jobs) = "OK"
    BY <1>0, <1>1, <2>4 DEF DeleteCode, Deletable
  <2> QED
    BY <1>0, <1>1, <2>3, <2>5 DEF Answers, Result, Deletable
<1>2. CASE ~r.recursive
  <2>1. l.order = <<r.id>> /\ Children(E, E[r.id].vault, r.id) = {} /\ Dependents(E, files, jobs, r.id) = {}
    BY <1>2 DEF Deleting
  <2>2. gone = {r.id}
    <3>1. Len(l.order) = 1 /\ l.order[1] = r.id
      BY <2>1
    <3>2. l.pos + 1..Len(l.order) = {1}
      BY <1>0, <3>1
    <3> QED
      BY <3>1, <3>2
  <2>3. DeleteCode(r, db, files, jobs) = "OK"
    BY <1>0, <1>2, <2>1 DEF DeleteCode, Deletable
  <2> QED
    BY <1>0, <1>2, <2>2, <2>3 DEF Answers, Result, Deletable
<1> QED
  BY <1>1, <1>2

(* The next row is stored; in a recursive delete nothing refers to it. *)
LEMMA NextRow ==
  ASSUME Intact(db.entries), IsDb(db), NEW r, NEW t, NEW l, Deleting(r, t, l, db, files, jobs),
         l.pos \in Nat \ {0}, Len(l.order) \in Nat
  PROVE  /\ l.order[l.pos] \in DOMAIN t.entries
         /\ r.recursive => Dependents(t.entries, files, jobs, l.order[l.pos]) = {}
         /\ ~r.recursive => l.order[l.pos] = r.id /\ l.pos = 1 /\ t = db
<1> DEFINE E == db.entries
           gone == {l.order[i] : i \in l.pos + 1..Len(l.order)}
<1>0. /\ Deletable(r, db) /\ t = [db EXCEPT !.entries = Remove(E, gone)]
      /\ l.pos \in 1..Len(l.order) /\ IsTable(E, EntryId, EntryRow)
  BY DEF Deleting, IsDb
<1>1. t.entries = Remove(E, gone)
  <2> DEFINE X == Remove(E, gone)
  <2>1. t = [db EXCEPT !.entries = X]
    BY <1>0
  <2> HIDE DEF X
  <2>2. t = [vaults |-> db.vaults, entries |-> X, unused |-> db.unused]
    BY <2>1, DbFacts
  <2>3. t.entries = X
    BY <2>2
  <2> QED
    BY <2>3 DEF X
<1>2. CASE r.recursive
  <2>1. Enumerated(E, r.id, l.order) /\ (\A i \in 1..Len(l.order) : Clean(E, files, l.order[i]))
        /\ Jobless(jobs, l.order)
    BY <1>2 DEF Deleting
  <2>2. Root \notin DOMAIN E
    BY <1>0, RootAssumption DEF IsTable
  <2>3. LET left == Remove(E, gone) IN
        l.order[l.pos] \in DOMAIN left /\ Dependents(left, files, jobs, l.order[l.pos]) = {}
    BY <1>0, <2>1, <2>2, LastIsFree
  <2> QED
    BY <1>1, <1>2, <2>3
<1>3. CASE ~r.recursive
  <2>1. l.order = <<r.id>>
    BY <1>3 DEF Deleting
  <2>2. Len(l.order) = 1 /\ l.order[1] = r.id
    BY <2>1
  <2>3. l.pos = 1
    BY <1>0, <2>2
  <2>4. gone = {}
    BY <2>2, <2>3
  <2>5. Remove(E, gone) = E
    BY <1>0, <2>4, RemoveTable
  <2>6. t = db
    BY <1>0, <2>5, DbFacts DEF IsDb
  <2> QED
    BY <1>0, <1>3, <2>2, <2>3, <2>6 DEF Deletable
<1> QED
  BY <1>2, <1>3

LEMMA DeletingGoesOn ==
  ASSUME Intact(db.entries), IsDb(db), NEW r, NEW t, NEW l \in Local, Deleting(r, t, l, db, files, jobs),
         l.pos \in Nat \ {0}, Len(l.order) \in Nat,
         Dependents(t.entries, files, jobs, l.order[l.pos]) = {}
  PROVE  Deleting(r, [t EXCEPT !.entries = Remove(t.entries, {l.order[l.pos]})],
                  [l EXCEPT !.pos = l.pos - 1], db, files, jobs)
<1> DEFINE E == db.entries
           G == {l.order[i] : i \in l.pos + 1..Len(l.order)}
           H == {l.order[i] : i \in (l.pos - 1) + 1..Len(l.order)}
           t2 == [t EXCEPT !.entries = Remove(t.entries, {l.order[l.pos]})]
           l2 == [l EXCEPT !.pos = l.pos - 1]
<1>0. /\ Deletable(r, db) /\ t = [db EXCEPT !.entries = Remove(E, G)] /\ l.pos <= Len(l.order)
      /\ IF r.recursive
         THEN /\ Enumerated(E, r.id, l.order)
              /\ \A i \in 1..Len(l.order) : Clean(E, files, l.order[i])
              /\ Jobless(jobs, l.order)
         ELSE /\ l.order = <<r.id>>
              /\ Children(E, E[r.id].vault, r.id) = {}
  BY DEF Deleting
<1>1. t = [vaults |-> db.vaults, entries |-> Remove(E, G), unused |-> db.unused]
  BY <1>0, DbFacts
<1>2. Remove(t.entries, {l.order[l.pos]}) = Remove(E, H)
  <2>1. t.entries = Remove(E, G)
    BY <1>1
  <2>2. Remove(Remove(E, G), {l.order[l.pos]}) = Remove(E, H)
    <3>1. (l.pos - 1) + 1..Len(l.order) = (l.pos + 1..Len(l.order)) \cup {l.pos}
      BY <1>0
    <3>2. H = G \cup {l.order[l.pos]}
      BY <3>1
    <3>3. Remove(Remove(E, G), {l.order[l.pos]}) = Remove(E, G \cup {l.order[l.pos]})
      <4> HIDE DEF E, G
      <4> QED
        BY DEF Remove, Restrict
    <3> HIDE DEF E, G, H
    <3> QED
      BY <3>2, <3>3
  <2> QED
    BY <2>1, <2>2
<1>3. t2 = [db EXCEPT !.entries = Remove(E, H)]
  <2>1. t2 = [vaults |-> db.vaults, entries |-> Remove(E, H), unused |-> db.unused]
    BY <1>1, <1>2
  <2> QED
    BY <2>1, DbFacts
<1>4. l2.pos = l.pos - 1 /\ l2.order = l.order
  BY DEF Local
<1>5. ~r.recursive => t = db /\ l.order[l.pos] = r.id
  BY NextRow
<1>6. l2.pos <= Len(l2.order)
  BY <1>0, <1>4
<1> HIDE DEF t2, l2, G
<1>7. {l2.order[i] : i \in l2.pos + 1..Len(l2.order)} = H
  BY <1>4
<1> HIDE DEF H
<1>8. Deleting(r, t2, l2, db, files, jobs)
  BY <1>0, <1>3, <1>4, <1>5, <1>6, <1>7 DEF Deleting
<1> QED
  BY <1>8 DEF t2, l2

LEMMA DeleteRowStep ==
  ASSUME IInv, NEW c \in Client, DeleteRow(c)
  PROVE  IInv' /\ [NS!Next]_(NS!vars)
<1> DEFINE r == req[c]
           l == loc[c]
           t == tx[c]
           id == l.order[l.pos]
<1>0. pc[c] = "deleteRows" /\ pc[c] \in InTx /\ {"deleteRows", "commit"} \subseteq InTx
  BY DEF DeleteRow, InTx
<1>1. /\ IsDb(t) /\ IsDb(db) /\ l \in Local /\ l.rows = {}
      /\ r \in Menu /\ EarlyCode(r) = "OK" /\ Intact(db.entries)
      /\ Deleting(r, t, l, db, files, jobs)
  BY <1>0, TxFacts DEF At
<1>2. Len(l.order) \in Nat /\ l.pos \in Nat
  BY <1>1 DEF Local
<1>3. CASE l.pos = 0
  <2>1. Proceed(c, "commit", t, l)
    BY <1>3 DEF DeleteRow
  <2>2. Answers(r, "OK", db, files, jobs) /\ Result(r, t, {}, db)
    BY <1>1, <1>2, <1>3, DeleteIsDue
  <2>3. At("commit", r, t, l, db, files, jobs)
    BY <1>1, <2>2 DEF At
  <2> QED
    BY <1>0, <1>1, <2>1, <2>3, ProceedStep
<1>4. CASE l.pos # 0 /\ Dependents(t.entries, files, jobs, id) # {}
  <2>1. /\ id \in DOMAIN t.entries
        /\ ~r.recursive /\ id = r.id /\ t = db
    BY <1>1, <1>2, <1>4, NextRow
  <2>2. Children(db.entries, db.entries[r.id].vault, r.id) = {} /\ Deletable(r, db)
    BY <1>1, <2>1 DEF Deleting
  <2>3. Answers(r, "OPERATION_UNAVAILABLE", db, files, jobs)
    BY <1>4, <2>1, <2>2 DEF Answers, DeleteCode, Deletable
  <2> QED
    BY <1>0, <1>4, <2>1, <2>3, RollbackStep DEF DeleteRow
<1>5. CASE l.pos # 0 /\ Dependents(t.entries, files, jobs, id) = {}
  <2> DEFINE t2 == [t EXCEPT !.entries = Remove(t.entries, {id})]
             l2 == [l EXCEPT !.pos = l.pos - 1]
  <2>1. id \in DOMAIN t.entries
    BY <1>1, <1>2, <1>5, NextRow
  <2>2. Proceed(c, "deleteRows", t2, l2)
    BY <1>5, <2>1 DEF DeleteRow
  <2>3. IsDb(t2)
    BY <1>1, DbFacts, RemoveTable DEF IsDb
  <2>4. l2 \in Local /\ l2.rows = {}
    <3>1. l.pos - 1 \in Nat
      BY <1>2, <1>5
    <3> QED
      BY <1>1, <3>1 DEF Local
  <2>5. Deleting(r, t2, l2, db, files, jobs)
    BY <1>1, <1>2, <1>5, DeletingGoesOn
  <2> HIDE DEF t2, l2
  <2>6. At("deleteRows", r, t2, l2, db, files, jobs)
    BY <1>1, <2>4, <2>5 DEF At
  <2> QED
    BY <1>0, <2>2, <2>3, <2>4, <2>6, ProceedStep
<1> QED
  BY <1>3, <1>4, <1>5

-----------------------------------------------------------------------------
(* The other writers, closes and crashes. *)

(* Another writer finds no transaction open, so none sees its rows change. *)
LEMMA WriterStep ==
  ASSUME IInv, WriteLockFree, NS!Next, UNCHANGED <<proc, open, txMu, writer, pc, req, tx, loc>>,
         IsDb(db'), files' \subseteq EntryId, IsTable(jobs', JobId, JobRow)
  PROVE  IInv' /\ [NS!Next]_(NS!vars)
<1>1. Shape'
  BY DEF IInv, Shape
<1>2. Locking'
  BY DEF IInv, Locking
<1>3. Outside'
  BY DEF IInv, Outside
<1>4. \A c \in Client : pc[c] \notin InTx
  BY ClientAssumption DEF WriteLockFree, IInv, Locking
<1>5. Inside'
  BY <1>4 DEF Inside
<1> QED
  BY <1>1, <1>2, <1>3, <1>5, StaysConsistent DEF IInv

LEMMA OthersStep ==
  ASSUME IInv, Others
  PROVE  IInv' /\ [NS!Next]_(NS!vars)
<1>0. IsDb(db) /\ files \subseteq EntryId /\ IsTable(jobs, JobId, JobRow)
  BY DEF IInv, Shape
<1>1. ASSUME NEW v \in VaultId, NEW p \in Parent, NEW kind \in Kind, NEW status \in Status, NEW n \in Name,
             OtherInsertEntry(v, p, kind, status, n)
      PROVE  IInv' /\ [NS!Next]_(NS!vars)
  <2> DEFINE row == [vault |-> v, parent |-> p, kind |-> kind, name |-> n, key |-> Fold[n], status |-> status]
  <2>1. PICK id \in db.unused : db' = [db EXCEPT !.unused = db.unused \ {id}, !.entries = Put(db.entries, id, row)]
    BY <1>1 DEF OtherInsertEntry
  <2> DEFINE E2 == Put(db.entries, id, row)
             U2 == db.unused \ {id}
  <2>2. db' = [db EXCEPT !.unused = U2, !.entries = E2]
    BY <2>1
  <2>3. row \in EntryRow
    BY NameAssumption DEF EntryRow
  <2>4. IsTable(E2, EntryId, EntryRow) /\ U2 \subseteq EntryId
    BY <1>0, <2>3, PutTable DEF IsDb
  <2> HIDE DEF E2, U2
  <2>5. db' = [vaults |-> db.vaults, entries |-> E2, unused |-> U2]
    BY <1>0, <2>2, NewEntryFacts
  <2>6. IsDb(db')
    <3>1. IsDb([vaults |-> db.vaults, entries |-> E2, unused |-> U2])
      BY <1>0, <2>4, NewEntryFacts
    <3> QED
      BY <2>5, <3>1
  <2>7. db'.vaults = db.vaults /\ db'.entries = E2 /\ db'.unused = U2
    BY <2>5
  <2>8. NS!InsertEntry(v, p, kind, status, n)
    <3>1. v \in db.vaults /\ NS!FolderParent(db.entries, v, p) /\ NS!KeyFree(db.entries, v, p, Fold[n], Root)
      BY <1>1 DEF OtherInsertEntry, NS!FolderParent, FolderParent, NS!KeyFree, KeyFree, NS!Children, Children
    <3>2. db'.entries = NS!Put(db.entries, id, row)
      BY <2>7 DEF E2, NS!Put, Put
    <3>3. UNCHANGED <<db.vaults, files, jobs, reply>>
      BY <1>1, <2>7 DEF OtherInsertEntry
    <3> QED
      BY <2>7, <3>1, <3>2, <3>3 DEF NS!InsertEntry, NS!refs, U2
  <2>9. NS!Next
    BY <2>8 DEF NS!Next, NS!Repositories, NS!Parent, Parent, NS!Kind, Kind, NS!Status, Status
  <2> QED
    BY <1>0, <1>1, <2>6, <2>9, WriterStep DEF OtherInsertEntry
<1>2. ASSUME NEW id \in EntryId, OtherInsertFile(id)
      PROVE  IInv' /\ [NS!Next]_(NS!vars)
  <2>1. NS!InsertFile(id)
    BY <1>2 DEF OtherInsertFile, NS!InsertFile
  <2>2. NS!Next
    BY <2>1 DEF NS!Next, NS!Repositories
  <2> QED
    BY <1>0, <1>2, <2>2, WriterStep DEF OtherInsertFile
<1>3. ASSUME NEW j \in JobId, NEW id \in EntryId, OtherInsertJob(j, id)
      PROVE  IInv' /\ [NS!Next]_(NS!vars)
  <2> DEFINE v == db.entries[id].vault
             row == [vault |-> v, entry |-> id]
  <2>1. id \in DOMAIN db.entries /\ v \in db.vaults /\ v \in VaultId
    BY <1>0, <1>3, IntactStore DEF OtherInsertJob, IInv, IsDb
  <2>2. IsTable(jobs', JobId, JobRow)
    <3>1. row \in JobRow /\ jobs' = Put(jobs, j, row)
      BY <1>3, <2>1 DEF OtherInsertJob, JobRow
    <3> HIDE DEF row
    <3> QED
      BY <1>0, <3>1 DEF IsTable, Put
  <2>3. NS!InsertJob(j, v, id)
    BY <1>3, <2>1 DEF OtherInsertJob, NS!InsertJob, NS!Put, Put
  <2>4. NS!Next
    BY <2>1, <2>3 DEF NS!Next, NS!Repositories
  <2> QED
    BY <1>0, <1>3, <2>2, <2>4, WriterStep DEF OtherInsertJob
<1> QED
  BY <1>1, <1>2, <1>3 DEF Others

LEMMA CloseStep ==
  ASSUME IInv, NEW s \in Store, Close(s)
  PROVE  IInv' /\ [NS!Next]_(NS!vars)
<1> USE DEF Close, committed
<1>1. Shape'
  BY DEF IInv, Shape
<1>2. Locking' /\ Outside'
  BY DEF IInv, Locking, Outside
<1>3. Inside'
  BY DEF IInv, Inside
<1>4. UNCHANGED NS!vars
  BY DEF NS!vars
<1> QED
  BY <1>1, <1>2, <1>3, <1>4, StaysConsistent DEF IInv

LEMMA CrashStep ==
  ASSUME IInv, NEW s \in Store, Crash(s)
  PROVE  IInv' /\ [NS!Next]_(NS!vars)
<1> DEFINE dead == {c \in Client : proc[c] = s /\ pc[c] \notin {"idle", "done", "gone"}}
<1>0. /\ pc' = [c \in Client |-> IF c \in dead THEN "gone" ELSE pc[c]]
      /\ tx' = [c \in Client |-> IF c \in dead THEN NoTx ELSE tx[c]]
      /\ loc' = [c \in Client |-> IF c \in dead THEN NoLoc ELSE loc[c]]
      /\ txMu' = [txMu EXCEPT ![s] = Nobody]
      /\ writer' = IF writer \in dead THEN Nobody ELSE writer
      /\ open' = open \cup {s}
      /\ UNCHANGED <<db, files, jobs, proc, req, reply>>
  BY DEF Crash, committed
<1>1. {"idle", "done", "gone"} \cap (InTx \cup {"lock", "begin"}) = {} /\ "gone" \in PC
  BY DEF InTx, PC
<1>2. NoLoc \in Local /\ IsDb(NoTx)
  BY EmptySeq DEF NoLoc, Local, NoTx, IsDb, IsTable, Parent
<1>3. \A c \in Client : pc[c] \in InTx \cup {"begin"} /\ proc[c] = s => c \in dead
  BY <1>1
<1>4. \A c \in Client : c \in dead => pc'[c] = "gone" /\ tx'[c] = NoTx /\ loc'[c] = NoLoc /\ proc[c] = s
  BY <1>0
<1>5. \A c \in Client : c \notin dead => pc'[c] = pc[c] /\ tx'[c] = tx[c] /\ loc'[c] = loc[c]
  BY <1>0
<1>6. \A c \in dead : c \in Client
  OBVIOUS
<1> HIDE DEF dead
<1>7. Shape'
  <2>1. pc' \in [Client -> PC]
    BY <1>0, <1>1 DEF IInv, Shape
  <2>2. loc' \in [Client -> Local]
    BY <1>0, <1>2 DEF IInv, Shape
  <2>3. DOMAIN tx' = Client /\ \A c \in Client : IsDb(tx'[c])
    BY <1>0, <1>2, <1>4, <1>5 DEF IInv, Shape
  <2>4. /\ txMu' \in [Store -> Client \cup {Nobody}] /\ writer' \in Client \cup {Nobody}
        /\ open' \in SUBSET Store
    BY <1>0 DEF IInv, Shape
  <2> QED
    BY <1>0, <2>1, <2>2, <2>3, <2>4 DEF IInv, Shape
<1>8. Locking'
  <2>1. ASSUME NEW d \in Client, pc'[d] \in InTx \cup {"begin"} PROVE txMu'[proc'[d]] = d
    <3>1. d \notin dead /\ pc[d] \in InTx \cup {"begin"}
      BY <1>1, <1>4, <1>5, <2>1
    <3>2. proc[d] # s /\ txMu[proc[d]] = d
      BY <1>3, <3>1 DEF IInv, Locking
    <3> QED
      BY <1>0, <3>2 DEF IInv, Shape
  <2>2. ASSUME NEW d \in Client PROVE pc'[d] \in InTx <=> writer' = d
    <3>1. pc[d] \in InTx <=> writer = d
      BY DEF IInv, Locking
    <3>2. CASE d \in dead
      BY <1>0, <1>1, <1>4, <3>2, ClientAssumption
    <3>3. CASE d \notin dead
      BY <1>0, <1>5, <3>1, <3>3, ClientAssumption
    <3> QED
      BY <3>2, <3>3
  <2>3. ASSUME NEW u \in Store, txMu'[u] # Nobody
        PROVE  proc'[txMu'[u]] = u /\ pc'[txMu'[u]] \in InTx \cup {"begin"}
    <3>1. u # s /\ txMu'[u] = txMu[u]
      BY <1>0, <2>3 DEF IInv, Shape
    <3>2. txMu[u] \in Client /\ proc[txMu[u]] = u /\ pc[txMu[u]] \in InTx \cup {"begin"}
      BY <2>3, <3>1 DEF IInv, Shape, Locking
    <3> QED
      BY <1>0, <1>4, <1>5, <3>1, <3>2
  <2> QED
    BY <2>1, <2>2, <2>3 DEF Locking
<1>9. Outside'
  <2> SUFFICES ASSUME NEW c \in Client
               PROVE  /\ pc'[c] \notin InTx => loc'[c] = NoLoc
                      /\ pc'[c] \in {"lock", "begin"} => req[c] \in Menu /\ EarlyCode(req[c]) = "OK"
    BY <1>0 DEF Outside
  <2> QED
    BY <1>1, <1>4, <1>5 DEF IInv, Outside
<1>10. Inside'
  <2> SUFFICES ASSUME NEW c \in Client, pc'[c] \in InTx
               PROVE  At(pc'[c], req[c], tx'[c], loc'[c], db, files, jobs)
    BY <1>0 DEF Inside
  <2> QED
    BY <1>1, <1>4, <1>5 DEF IInv, Inside
<1>11. UNCHANGED NS!vars
  BY <1>0 DEF NS!vars
<1> QED
  BY <1>7, <1>8, <1>9, <1>10, <1>11, StaysConsistent DEF IInv

-----------------------------------------------------------------------------
(* The invariant is inductive, and every step is one of Namespace. *)

LEMMA Initially == Init => IInv
<1> SUFFICES ASSUME Init PROVE IInv
  OBVIOUS
<1> USE DEF Init
<1>0. "idle" \notin InTx \cup {"lock", "begin"} /\ "idle" \in PC
  BY DEF InTx, PC
<1>1. NoLoc \in Local /\ IsDb(NoTx) /\ IsTable(<< >>, JobId, JobRow)
  BY EmptySeq DEF NoLoc, Local, NoTx, IsDb, IsTable, Parent
<1>2. Shape
  BY <1>0, <1>1, SeedAssumption, ClientAssumption DEF Shape
<1>3. Locking /\ Outside /\ Inside
  BY <1>0, ClientAssumption DEF Locking, Outside, Inside
<1> QED
  BY <1>2, <1>3 DEF IInv

LEMMA ClientStep ==
  ASSUME IInv, NEW c \in Client, Step(c)
  PROVE  IInv' /\ [NS!Next]_(NS!vars)
BY LockStep, BeginStep, NoBeginStep, CommitStep, ListVaultsStep, ListEntriesStep, InsertVaultStep, GetVaultStep,
   CheckParentStep, InsertEntryStep, GetEntryStep, RenameEntryStep, WalkStep, MoveEntryStep, ListChildrenStep,
   ExpandStep, ValidateStep, CheckJobsStep, DeleteRowStep
   DEF Step

LEMMA Inductive ==
  ASSUME IInv, [Next]_vars
  PROVE  IInv' /\ [NS!Next]_(NS!vars)
<1>1. CASE \E c \in Client, r \in Menu : Call(c, r)
  BY <1>1, CallStep
<1>2. CASE \E c \in Client : Step(c) \/ Fail(c)
  BY <1>2, ClientStep, NoBeginStep
<1>3. CASE Others
  BY <1>3, OthersStep
<1>4. CASE \E s \in Store : Close(s) \/ Crash(s)
  BY <1>4, CloseStep, CrashStep
<1>5. CASE UNCHANGED vars
  <2> USE <1>5 DEF vars
  <2>1. Shape' /\ Locking' /\ Outside'
    BY DEF IInv, Shape, Locking, Outside
  <2>2. Inside'
    BY DEF IInv, Inside
  <2>3. UNCHANGED NS!vars
    BY DEF NS!vars
  <2> QED
    BY <2>1, <2>2, <2>3, StaysConsistent DEF IInv
<1> QED
  BY <1>1, <1>2, <1>3, <1>4, <1>5 DEF Next

LEMMA Invariant == Spec => []IInv
<1>1. Init => IInv
  BY Initially
<1>2. IInv /\ [Next]_vars => IInv'
  BY Inductive
<1> QED
  BY <1>1, <1>2, PTL DEF Spec

(* Rows, locks and locals hold what their columns and variables can hold,  *)
(* whatever fails, is cancelled, closed or crashes.                        *)
THEOREM TypeCorrect == Spec => []TypeOK
<1>1. IInv => TypeOK
  <2> SUFFICES ASSUME IInv PROVE TypeOK
    OBVIOUS
  <2>1. ASSUME NEW c \in Client, pc[c] = "walk" PROVE loc[c].cur \in EntryId
    <3>1. pc[c] \in InTx
      BY <2>1 DEF InTx
    <3>2. At("walk", req[c], tx[c], loc[c], db, files, jobs) /\ IsDb(db)
      BY <2>1, <3>1, TxFacts
    <3> QED
      BY <3>2 DEF At, Climbing, IsDb, IsTable
  <2>2. \A c \in Client :
          /\ loc[c].cur \in Parent /\ loc[c].visited \subseteq EntryId
          /\ loc[c].order \in Seq(EntryId) /\ loc[c].head \in Nat /\ loc[c].pos \in Nat
          /\ loc[c].rows \subseteq VaultId \cup NS!Listed
    BY DEF IInv, Shape, Local
  <2> QED
    BY <2>1, <2>2 DEF IInv, Shape, TypeOK
<1> QED
  BY <1>1, Invariant, PTL

(* WithTx: however a call ends - an answer, a refusal, a failed statement, *)
(* a cancelled context, a closed store, a dead process - neither the       *)
(* mutex nor SQLite's write lock stays behind.                             *)
THEOREM LocksFree == Spec => []LocksAreFreed
<1>1. IInv => LocksAreFreed
  BY DEF IInv, Shape, Locking, LocksAreFreed
<1> QED
  BY <1>1, Invariant, PTL

(* MoveEntry and DeleteFolder check first and write later, one repository  *)
(* call at a time: when they write, what they have found out is still true *)
(* of the committed database.                                              *)
THEOREM ChecksHold == Spec => []ChecksStillHold
<1>1. IInv => ChecksStillHold
  <2> SUFFICES ASSUME IInv, NEW c \in Client
               PROVE  /\ pc[c] = "moveEntry" /\ req[c].to # Root =>
                           /\ GoodParent(db.entries, db.entries[req[c].id].vault, req[c].to)
                           /\ ~OnChain(db.entries, req[c].id, req[c].to)
                      /\ pc[c] = "deleteRows" /\ req[c].recursive =>
                           Range(loc[c].order) = Subtree(db.entries, req[c].id)
    BY DEF ChecksStillHold
  <2>1. CASE pc[c] = "moveEntry"
    <3>1. pc[c] \in InTx
      BY <2>1 DEF InTx
    <3> QED
      BY <2>1, <3>1, TxFacts DEF At
  <2>2. CASE pc[c] = "deleteRows"
    <3>1. pc[c] \in InTx
      BY <2>2 DEF InTx
    <3>2. Deleting(req[c], tx[c], loc[c], db, files, jobs) /\ Intact(db.entries)
      BY <2>2, <3>1, TxFacts DEF At
    <3> QED
      BY <2>2, <3>2, EnumeratedIsSubtree DEF Deleting
  <2> QED
    BY <2>1, <2>2
<1> QED
  BY <1>1, Invariant, PTL

(* DeleteFolder: deleting in reverse breadth-first order after the checks, *)
(* no delete meets a row that ON DELETE RESTRICT protects, nor misses one. *)
THEOREM Backstop == Spec => []BackstopUnused
<1>1. IInv => BackstopUnused
  <2> SUFFICES ASSUME IInv, NEW c \in Client, pc[c] = "deleteRows", loc[c].pos > 0, req[c].recursive
               PROVE  /\ loc[c].order[loc[c].pos] \in DOMAIN tx[c].entries
                      /\ Dependents(tx[c].entries, files, jobs, loc[c].order[loc[c].pos]) = {}
    BY DEF BackstopUnused
  <2>1. pc[c] \in InTx
    BY DEF InTx
  <2>2. Deleting(req[c], tx[c], loc[c], db, files, jobs) /\ Intact(db.entries) /\ IsDb(db) /\ loc[c] \in Local
    BY <2>1, TxFacts DEF At
  <2>3. loc[c].pos \in Nat \ {0} /\ Len(loc[c].order) \in Nat
    BY <2>2 DEF Local
  <2> QED
    BY <2>2, <2>3, NextRow
<1> QED
  BY <1>1, Invariant, PTL

(* The folder service is atomic: whatever interleaving of calls, other     *)
(* writers, failures, closes and crashes, every behaviour is one of        *)
(* Namespace, and every answer the one the committed rows call for.        *)
THEOREM Refinement == Spec => Implements
<1>1. Init => NS!Consistent
  BY DEF Init
<1>2. IInv /\ [Next]_vars => [NS!Next]_(NS!vars)
  BY Inductive
<1> QED
  BY <1>1, <1>2, Invariant, PTL DEF Spec, Implements, NS!Resumed

-----------------------------------------------------------------------------
(* How long a call can last: every step of it brings it nearer to its end. *)

Size == Cardinality(EntryId)

LEMMA SizeIsANumber == Size \in Nat
BY FiniteAssumption, FS_CardinalityType DEF Size

(* An order in which no entry comes twice is no longer than the entries.   *)
LEMMA NoLongerThanSize ==
  ASSUME NEW order \in Seq(EntryId),
         \A i, j \in 1..Len(order) : order[i] = order[j] => i = j
  PROVE  Len(order) \in 0..Size
<1>1. Len(order) \in Nat /\ order \in [1..Len(order) -> EntryId]
  BY LenProperties
<1>2. order \in Injection(1..Len(order), EntryId)
  BY <1>1 DEF Injection, IsInjective
<1>3. Cardinality(1..Len(order)) <= Cardinality(EntryId)
  BY <1>2, FiniteAssumption, FS_Injection
<1>4. Cardinality(1..Len(order)) = Len(order)
  BY <1>1, FS_Interval
<1> QED
  BY <1>1, <1>3, <1>4, SizeIsANumber DEF Size

(* The positions a call keeps are positions in such an order. *)
Measured(c) ==
  LET l == loc[c] IN
  /\ Len(l.order) \in Nat /\ l.head \in Nat /\ l.pos \in Nat
  /\ pc[c] \in {"getVault", "getEntry", "checkParent", "children"} => l = NoLoc
  /\ pc[c] = "walk" => Cardinality(EntryId \ l.visited) \in 0..Size
  /\ pc[c] = "expand" => l.head \in 1..Len(l.order) + 1 /\ Len(l.order) <= Size /\ l.pos = 1
  /\ pc[c] = "validate" => l.pos \in 1..Len(l.order) + 1 /\ Len(l.order) <= Size
  /\ pc[c] = "jobs" => Len(l.order) <= Size
  /\ pc[c] = "deleteRows" => l.pos <= Size

(* What is left of the store when some entries have been visited. *)
LEMMA Unvisited ==
  ASSUME NEW V
  PROVE  Cardinality(EntryId \ V) \in 0..Size
<1>1. IsFiniteSet(EntryId \ V) /\ Cardinality(EntryId \ V) <= Cardinality(EntryId)
  BY FiniteAssumption, FS_Subset
<1> QED
  BY <1>1, FS_CardinalityType, SizeIsANumber DEF Size

LEMMA AllMeasured == IInv => \A c \in Client : Measured(c)
<1> SUFFICES ASSUME IInv, NEW c \in Client PROVE Measured(c)
  OBVIOUS
<1> DEFINE l == loc[c]
<1>1. l.order \in Seq(EntryId) /\ Len(l.order) \in Nat /\ l.head \in Nat /\ l.pos \in Nat
  BY LenProperties DEF IInv, Shape, Local
<1>2. CASE pc[c] \notin {"getVault", "getEntry", "checkParent", "children", "walk", "expand", "validate",
                         "jobs", "deleteRows"}
  BY <1>1, <1>2 DEF Measured
<1>3. CASE pc[c] \in {"getVault", "getEntry", "checkParent", "children", "walk", "expand", "validate",
                      "jobs", "deleteRows"}
  <2>1. At(pc[c], req[c], tx[c], l, db, files, jobs)
    BY <1>3, TxFacts DEF InTx
  <2>2. CASE pc[c] \in {"getVault", "getEntry", "checkParent", "children"}
    BY <1>1, <2>1, <2>2 DEF Measured, At
  <2>3. CASE pc[c] = "walk"
    BY <1>1, <2>3, Unvisited DEF Measured
  <2>4. CASE pc[c] = "expand"
    <3>1. l.pos = 1 /\ Enumerating(db.entries, req[c].id, l.order, l.head)
      BY <2>1, <2>4 DEF At
    <3>2. l.head \in 1..Len(l.order) + 1 /\ Len(l.order) \in 0..Size
      BY <3>1, NoLongerThanSize DEF Enumerating
    <3> QED
      BY <1>1, <2>4, <3>1, <3>2 DEF Measured
  <2>5. CASE pc[c] \in {"validate", "jobs"}
    <3>1. /\ Enumerating(db.entries, req[c].id, l.order, Len(l.order) + 1)
          /\ pc[c] = "validate" => l.pos \in 1..Len(l.order) + 1
      BY <2>1, <2>5 DEF At, Enumerated
    <3>2. Len(l.order) \in 0..Size
      BY <3>1, NoLongerThanSize DEF Enumerating
    <3> QED
      BY <1>1, <2>5, <3>1, <3>2 DEF Measured
  <2>6. CASE pc[c] = "deleteRows"
    <3>1. Deleting(req[c], tx[c], l, db, files, jobs)
      BY <2>1, <2>6 DEF At
    <3>2. l.pos <= Len(l.order)
      BY <3>1 DEF Deleting
    <3>3. Len(l.order) \in 0..Size
      <4>1. CASE req[c].recursive
        <5>1. Enumerating(db.entries, req[c].id, l.order, Len(l.order) + 1)
          BY <3>1, <4>1 DEF Deleting, Enumerated
        <5> QED
          BY <5>1, NoLongerThanSize DEF Enumerating
      <4>2. CASE ~req[c].recursive
        <5>1. l.order = <<req[c].id>>
          BY <3>1, <4>2 DEF Deleting
        <5>2. Len(l.order) = 1
          BY <5>1
        <5>3. \A i, j \in 1..Len(l.order) : l.order[i] = l.order[j] => i = j
          BY <5>2
        <5> QED
          BY <1>1, <5>3, NoLongerThanSize
      <4> QED
        BY <4>1, <4>2
    <3> QED
      BY <1>1, <2>6, <3>2, <3>3, SizeIsANumber DEF Measured
  <2> QED
    BY <1>3, <2>2, <2>3, <2>4, <2>5, <2>6
<1> QED
  BY <1>2, <1>3

(* The bound is a number; it is not zero before the call is over, nor one  *)
(* before its commit.                                                      *)
LEMMA SomethingLeft ==
  ASSUME NEW c \in Client, Measured(c), pc[c] \in PC
  PROVE  /\ CallsLeft(c) \in Nat
         /\ pc[c] \notin {"idle", "done", "gone"} => CallsLeft(c) >= 1
         /\ pc[c] \in InTx \ {"commit"} => CallsLeft(c) >= 2
<1> DEFINE l == loc[c]
           n == Len(l.order)
<1>1. CASE pc[c] = "walk"
  <2>1. CallsLeft(c) = Cardinality(EntryId \ l.visited) + 3 /\ Cardinality(EntryId \ l.visited) \in Nat
    BY <1>1, Unvisited, SizeIsANumber DEF CallsLeft
  <2> QED
    BY <2>1
<1>2. CASE pc[c] = "expand"
  <2> DEFINE h == l.head
  <2>1. CallsLeft(c) = 3 * Size + 6 - h /\ h \in 1..n + 1 /\ n \in Nat /\ n <= Size
    BY <1>2 DEF CallsLeft, Size, Measured
  <2> HIDE DEF h, n
  <2>2. 3 * Size + 6 - h \in Nat /\ 3 * Size + 6 - h >= 2
    BY <2>1, SizeIsANumber
  <2>3. pc[c] \notin {"idle", "done", "gone"}
    BY <1>2
  <2> QED
    BY <2>1, <2>2, <2>3
<1>3. CASE pc[c] = "validate"
  <2>1. /\ CallsLeft(c) = Size + 5 + n - l.pos
        /\ l.pos \in 1..n + 1 /\ n \in Nat
    BY <1>3 DEF CallsLeft, Size, Measured
  <2> DEFINE p == l.pos
  <2>2. CallsLeft(c) = Size + 5 + n - p /\ n \in Nat /\ p \in Nat /\ p <= n + 1
    BY <2>1
  <2> HIDE DEF n, p
  <2>3. CallsLeft(c) \in Nat /\ CallsLeft(c) >= 2
    BY <2>2, SizeIsANumber
  <2> QED
    BY <2>3
<1>4. CASE pc[c] = "deleteRows"
  <2>1. CallsLeft(c) = l.pos + 2 /\ l.pos \in Nat
    BY <1>4 DEF CallsLeft, Measured
  <2> QED
    BY <2>1
<1>5. CASE pc[c] \in {"idle", "done", "gone"}
  BY <1>5 DEF CallsLeft, InTx
<1>6. CASE pc[c] = "commit"
  BY <1>6 DEF CallsLeft
<1>7. CASE pc[c] \in PC \ {"walk", "expand", "validate", "deleteRows", "idle", "done", "gone", "commit"}
  <2>1. CallsLeft(c) \in {3 * Size + 8, 3 * Size + 7, 3 * Size + 6, Size + 3, Size + 5, Size + 4, 4, 2}
    BY <1>7 DEF CallsLeft, Size, PC, InTx
  <2> QED
    BY <2>1, SizeIsANumber
<1> QED
  BY <1>1, <1>2, <1>3, <1>4, <1>5, <1>6, <1>7

(* A step of c that ends its call, or goes on to p with the locals l. *)
Ended(c) == pc'[c] \in {"done", "gone"}
Onward(c, p, l) == pc'[c] = p /\ loc'[c] = l

LEMMA LeavingEnds ==
  ASSUME IInv, NEW c \in Client, Leave(c)
  PROVE  Ended(c)
BY DEF IInv, Shape, Leave, Goto, Ended

LEMMA ProceedingGoesOn ==
  ASSUME IInv, NEW c \in Client, NEW p, NEW t, NEW l, Proceed(c, p, t, l)
  PROVE  Onward(c, p, l)
BY DEF IInv, Shape, Proceed, Goto, Onward

Nearer(c) == CallsLeft(c)' \in 0..CallsLeft(c) - 1

LEMMA EndIsNearer ==
  ASSUME NEW c \in Client, Measured(c), pc[c] \in PC \ {"idle", "done", "gone"}, Ended(c)
  PROVE  Nearer(c)
<1>1. CallsLeft(c)' = 0
  BY DEF Ended, CallsLeft
<1> QED
  BY <1>1, SomethingLeft DEF Nearer

(* The last call of an operation but for the commit. *)
LEMMA CommitIsNearer ==
  ASSUME NEW c \in Client, Measured(c), NEW l, Onward(c, "commit", l),
         pc[c] \in InTx \ {"commit"}
  PROVE  Nearer(c)
<1>1. CallsLeft(c)' = 1
  BY DEF Onward, CallsLeft
<1>2. CallsLeft(c) \in Nat /\ CallsLeft(c) >= 2
  BY SomethingLeft DEF PC
<1> QED
  BY <1>1, <1>2 DEF Nearer

LEMMA EntryIsNearer ==
  ASSUME IInv, NEW c \in Client, Measured(c), Lock(c) \/ Begin(c)
  PROVE  Nearer(c)
<1>1. CASE Lock(c)
  <2>1. pc[c] = "lock" /\ pc'[c] = "begin"
    BY <1>1 DEF Lock, Goto, IInv, Shape
  <2>2. CallsLeft(c) = 3 * Size + 8 /\ CallsLeft(c)' = 3 * Size + 7
    BY <2>1 DEF CallsLeft, Size
  <2> QED
    BY <2>2, SizeIsANumber DEF Nearer
<1>2. CASE Begin(c)
  <2>1. pc[c] = "begin" /\ pc'[c] = FirstCall[req[c].op] /\ req[c] \in Menu
    BY <1>2 DEF Begin, Goto, IInv, Shape, Outside
  <2>2. pc'[c] \in {"insertVault", "listVaults", "getVault", "getEntry"}
    BY <2>1, RequestFacts DEF FirstCall
  <2>3. CallsLeft(c) = 3 * Size + 7
    BY <2>1 DEF CallsLeft, Size
  <2>4. CallsLeft(c)' \in {2, Size + 5, 3 * Size + 6}
    BY <2>2 DEF CallsLeft, Size
  <2> QED
    BY <2>3, <2>4, SizeIsANumber DEF Nearer
<1> QED
  BY <1>1, <1>2

(* The calls that the commit follows. *)
LEMMA LastIsNearer ==
  ASSUME IInv, NEW c \in Client, Measured(c),
         ListVaults(c) \/ ListEntries(c) \/ InsertVault(c) \/ InsertEntry(c) \/ RenameEntry(c) \/ MoveEntry(c)
  PROVE  Nearer(c)
<1>1. pc[c] \in InTx \ {"commit"} /\ pc[c] \in PC \ {"idle", "done", "gone"}
  BY DEF ListVaults, ListEntries, InsertVault, InsertEntry, RenameEntry, MoveEntry, InTx, PC
<1>2. Ended(c) \/ \E l : Onward(c, "commit", l)
  BY LeavingEnds, ProceedingGoesOn
     DEF ListVaults, ListEntries, InsertVault, InsertEntry, RenameEntry, MoveEntry, Fetch, Write, Rollback
<1> QED
  BY <1>1, <1>2, EndIsNearer, CommitIsNearer

LEMMA ParentIsNearer ==
  ASSUME IInv, NEW c \in Client, Measured(c), GetVault(c) \/ CheckParent(c)
  PROVE  Nearer(c)
<1>0. pc[c] \in {"getVault", "checkParent"} /\ pc[c] \in InTx \ {"commit"}
      /\ pc[c] \in PC \ {"idle", "done", "gone"} /\ loc[c] = NoLoc
  BY DEF GetVault, CheckParent, InTx, PC, Measured
<1>1. At(pc[c], req[c], tx[c], loc[c], db, files, jobs)
  BY <1>0, TxFacts
<1>2. CASE GetVault(c)
  <2>1. pc[c] = "getVault" /\ req[c].op \in {"CreateFolder", "GetVault", "ListEntries"}
    BY <1>1, <1>2 DEF GetVault, At
  <2>2. \/ Ended(c)
        \/ \E l : Onward(c, "commit", l)
        \/ \E p \in {"checkParent", "insertEntry", "listEntries"} : \E l : Onward(c, p, l)
    <3>1. req[c].op # "GetVault" => AfterParent[req[c].op] \in {"insertEntry", "listEntries"}
      BY <2>1 DEF AfterParent
    <3> QED
      BY <1>2, <3>1, LeavingEnds, ProceedingGoesOn DEF GetVault, Fetch, Rollback
  <2>3. ASSUME NEW p \in {"checkParent", "insertEntry", "listEntries"}, NEW l, Onward(c, p, l) PROVE Nearer(c)
    <3>1. CallsLeft(c) = Size + 5 /\ CallsLeft(c)' \in {Size + 4, 2}
      BY <2>1, <2>3 DEF CallsLeft, Size, Onward
    <3> QED
      BY <3>1, SizeIsANumber DEF Nearer
  <2> QED
    BY <1>0, <2>2, <2>3, EndIsNearer, CommitIsNearer
<1>3. CASE CheckParent(c)
  <2>1. pc[c] = "checkParent" /\ req[c].op \in {"MoveEntry", "CreateFolder", "ListEntries"}
    BY <1>1, <1>3 DEF CheckParent, At, Movable
  <2>2. \/ Ended(c)
        \/ Onward(c, "walk", [loc[c] EXCEPT !.cur = req[c].to])
        \/ \E p \in {"insertEntry", "listEntries"} : \E l : Onward(c, p, l)
    <3>1. req[c].op # "MoveEntry" => AfterParent[req[c].op] \in {"insertEntry", "listEntries"}
      BY <2>1 DEF AfterParent
    <3> QED
      BY <1>3, <3>1, LeavingEnds, ProceedingGoesOn DEF CheckParent, Read, Rollback
  <2>3. CallsLeft(c) = Size + 4
    BY <2>1 DEF CallsLeft, Size
  <2>4. CASE Onward(c, "walk", [loc[c] EXCEPT !.cur = req[c].to])
    <3>1. loc'[c].visited = {}
      BY <1>0, <2>4 DEF Onward, NoLoc
    <3>2. CallsLeft(c)' = Cardinality(EntryId \ {}) + 3
      BY <2>4, <3>1 DEF Onward, CallsLeft
    <3>3. Cardinality(EntryId \ {}) \in 0..Size
      BY Unvisited
    <3> QED
      BY <2>3, <3>2, <3>3, SizeIsANumber DEF Nearer
  <2>5. ASSUME NEW p \in {"insertEntry", "listEntries"}, NEW l, Onward(c, p, l) PROVE Nearer(c)
    <3>1. CallsLeft(c)' = 2
      BY <2>5 DEF CallsLeft, Onward
    <3> QED
      BY <2>3, <3>1, SizeIsANumber DEF Nearer
  <2> QED
    BY <1>0, <2>2, <2>4, <2>5, EndIsNearer
<1> QED
  BY <1>2, <1>3

LEMMA EntryReadIsNearer ==
  ASSUME IInv, NEW c \in Client, Measured(c), GetEntry(c)
  PROVE  Nearer(c)
<1>0. pc[c] = "getEntry" /\ pc[c] \in PC \ {"idle", "done", "gone"} /\ loc[c] = NoLoc
  BY DEF GetEntry, PC, InTx, Measured
<1>1. \/ Ended(c)
      \/ \E p \in {"commit", "renameEntry", "moveEntry", "checkParent", "children"} : Onward(c, p, loc[c])
      \/ Onward(c, "expand", [loc[c] EXCEPT !.order = <<req[c].id>>])
  BY LeavingEnds, ProceedingGoesOn DEF GetEntry, Rollback
<1>2. CallsLeft(c) = 3 * Size + 6
  BY <1>0 DEF CallsLeft, Size
<1>3. ASSUME NEW p \in {"commit", "renameEntry", "moveEntry", "checkParent", "children"}, Onward(c, p, loc[c])
      PROVE  Nearer(c)
  <2>1. CallsLeft(c)' \in {1, 2, Size + 4, 4}
    BY <1>3 DEF CallsLeft, Size, Onward
  <2> QED
    BY <1>2, <2>1, SizeIsANumber DEF Nearer
<1>4. CASE Onward(c, "expand", [loc[c] EXCEPT !.order = <<req[c].id>>])
  <2>1. loc'[c].head = 1
    BY <1>0, <1>4 DEF Onward, NoLoc
  <2>2. CallsLeft(c)' = 3 * Size + 6 - 1
    BY <1>4, <2>1 DEF CallsLeft, Size, Onward
  <2> QED
    BY <1>2, <2>2, SizeIsANumber DEF Nearer
<1> QED
  BY <1>0, <1>1, <1>3, <1>4, EndIsNearer

(* A turn of the walk that goes on has visited one more entry. *)
LEMMA TurnIsNearer ==
  ASSUME IInv, NEW c \in Client, Measured(c), Walk(c)
  PROVE  Nearer(c)
<1> DEFINE l == loc[c]
           E == tx[c].entries
           verdict == WalkVerdict(E, req[c].id, l.cur, l.visited)
           left == EntryId \ l.visited
           l2 == [l EXCEPT !.cur = E[l.cur].parent, !.visited = l.visited \cup {l.cur}]
<1>0. pc[c] = "walk" /\ pc[c] \in PC \ {"idle", "done", "gone"} /\ l \in Local
  BY DEF Walk, PC, InTx, IInv, Shape
<1>1. CallsLeft(c) = Cardinality(left) + 3 /\ Cardinality(left) \in Nat
  BY <1>0, Unvisited, SizeIsANumber DEF CallsLeft
<1>2. \/ Ended(c)
      \/ Onward(c, "moveEntry", l)
      \/ verdict = "walking" /\ Onward(c, "walk", l2)
  BY LeavingEnds, ProceedingGoesOn DEF Walk, Read, Rollback
<1>3. CASE Onward(c, "moveEntry", l)
  <2>1. CallsLeft(c)' = 2
    BY <1>3 DEF Onward, CallsLeft
  <2> QED
    BY <1>1, <2>1 DEF Nearer
<1>4. CASE verdict = "walking" /\ Onward(c, "walk", l2)
  <2>1. l.cur \in left
    <3>1. l.cur \in DOMAIN E /\ l.cur \notin l.visited
      BY <1>4 DEF WalkVerdict
    <3>2. DOMAIN E \subseteq EntryId
      BY DEF IInv, Shape, IsDb, IsTable
    <3> QED
      BY <3>1, <3>2
  <2>2. loc'[c].visited = l.visited \cup {l.cur}
    BY <1>0, <1>4 DEF Onward, Local
  <2>3. EntryId \ loc'[c].visited = left \ {l.cur}
    BY <2>2
  <2>4. CallsLeft(c)' = Cardinality(left \ {l.cur}) + 3
    BY <1>4, <2>3 DEF Onward, CallsLeft
  <2>5. IsFiniteSet(left)
    BY FiniteAssumption, FS_Subset
  <2>6. Cardinality(left \ {l.cur}) = Cardinality(left) - 1
    BY <2>1, <2>5, FS_RemoveElement
  <2>7. Cardinality(left \ {l.cur}) \in Nat
    BY <2>5, FS_RemoveElement, FS_CardinalityType
  <2> HIDE DEF left
  <2> QED
    BY <1>1, <2>4, <2>6, <2>7 DEF Nearer
<1> QED
  BY <1>0, <1>2, <1>3, <1>4, EndIsNearer

LEMMA DeletionIsNearer ==
  ASSUME IInv, NEW c \in Client, Measured(c), Measured(c)',
         ListChildren(c) \/ Expand(c) \/ Validate(c) \/ CheckJobs(c) \/ DeleteRow(c)
  PROVE  Nearer(c)
<1> DEFINE l == loc[c]
           n == Len(l.order)
<1>0. pc[c] \in PC \ {"idle", "done", "gone"} /\ l \in Local
  BY DEF ListChildren, Expand, Validate, CheckJobs, DeleteRow, PC, InTx, IInv, Shape
<1>1. CASE ListChildren(c)
  <2>1. pc[c] = "children" /\ CallsLeft(c) = 4
    BY <1>1 DEF ListChildren, CallsLeft
  <2>2. Ended(c) \/ Onward(c, "deleteRows", [l EXCEPT !.order = <<req[c].id>>, !.pos = 1])
    BY <1>1, LeavingEnds, ProceedingGoesOn DEF ListChildren, Rollback
  <2>3. CASE Onward(c, "deleteRows", [l EXCEPT !.order = <<req[c].id>>, !.pos = 1])
    <3>1. loc'[c].pos = 1
      BY <1>0, <2>3 DEF Onward, Local
    <3>2. CallsLeft(c)' = 1 + 2
      BY <2>3, <3>1 DEF Onward, CallsLeft
    <3> QED
      BY <2>1, <3>2 DEF Nearer
  <2> QED
    BY <1>0, <2>2, <2>3, EndIsNearer
<1>2. CASE Expand(c)
  <2>1. pc[c] = "expand" /\ CallsLeft(c) = 3 * Size + 6 - l.head
        /\ l.head \in 1..n + 1 /\ n \in Nat /\ n <= Size /\ l.pos = 1
    BY <1>2 DEF Expand, CallsLeft, Size, Measured
  <2>2. \/ Ended(c)
        \/ l.head > n /\ Onward(c, "validate", l)
        \/ \E s : Onward(c, "expand", [l EXCEPT !.order = l.order \o s, !.head = l.head + 1])
    BY <1>2, LeavingEnds, ProceedingGoesOn DEF Expand, Rollback
  <2>3. CASE l.head > n /\ Onward(c, "validate", l)
    <3> DEFINE h == l.head
    <3>1. CallsLeft(c)' = Size + 5 + n - 1
      BY <2>1, <2>3 DEF Onward, CallsLeft, Size
    <3>2. CallsLeft(c) = 3 * Size + 6 - h /\ h \in 1..n + 1 /\ n \in Nat /\ n <= Size
      BY <2>1
    <3> HIDE DEF h, n
    <3>3. Size + 5 + n - 1 \in 0..3 * Size + 6 - h - 1
      BY <3>2, SizeIsANumber
    <3>4. /\ CallsLeft(c) \in Int /\ CallsLeft(c)' \in Int
          /\ 0 <= CallsLeft(c)' /\ CallsLeft(c)' <= CallsLeft(c) - 1
      BY <3>1, <3>2, <3>3, SizeIsANumber
    <3> QED
      BY <3>4 DEF Nearer
  <2>4. ASSUME NEW s, Onward(c, "expand", [l EXCEPT !.order = l.order \o s, !.head = l.head + 1])
        PROVE  Nearer(c)
    <3>1. pc'[c] = "expand" /\ loc'[c].head = l.head + 1
      BY <1>0, <2>4 DEF Onward, Local
    <3>2. CallsLeft(c)' = 3 * Size + 6 - (l.head + 1)
      BY <3>1 DEF CallsLeft, Size
    <3>3. l.head + 1 <= Size + 1
      BY <3>1, SizeIsANumber DEF Measured
    <3> QED
      BY <2>1, <3>2, <3>3, SizeIsANumber DEF Nearer
  <2> QED
    BY <1>0, <2>2, <2>3, <2>4, EndIsNearer
<1>3. CASE Validate(c)
  <2>1. pc[c] = "validate" /\ CallsLeft(c) = Size + 5 + n - l.pos
        /\ l.pos \in 1..n + 1 /\ n \in Nat /\ n <= Size
    BY <1>3 DEF Validate, CallsLeft, Size, Measured
  <2>2. \/ Ended(c)
        \/ l.pos > n /\ Onward(c, "jobs", l)
        \/ l.pos <= n /\ Onward(c, "validate", [l EXCEPT !.pos = l.pos + 1])
    <3>1. l.pos > n \/ l.pos <= n
      BY <2>1
    <3>2. \/ Rollback(c, "OPERATION_UNAVAILABLE")
          \/ l.pos > n /\ Proceed(c, "jobs", tx[c], l)
          \/ l.pos <= n /\ Proceed(c, "validate", tx[c], [l EXCEPT !.pos = l.pos + 1])
      BY <1>3, <3>1, Zenon DEF Validate
    <3> QED
      BY <3>2, LeavingEnds, ProceedingGoesOn DEF Rollback
  <2>3. CASE l.pos > n /\ Onward(c, "jobs", l)
    <3>1. CallsLeft(c)' = Size + 3
      BY <2>3 DEF Onward, CallsLeft, Size
    <3> QED
      BY <2>1, <2>3, <3>1, SizeIsANumber DEF Nearer
  <2>4. CASE l.pos <= n /\ Onward(c, "validate", [l EXCEPT !.pos = l.pos + 1])
    <3>1. loc'[c].pos = l.pos + 1 /\ loc'[c].order = l.order
      BY <1>0, <2>4 DEF Onward, Local
    <3> DEFINE p == l.pos
    <3>2. CallsLeft(c)' = Size + 5 + n - (p + 1)
      BY <2>4, <3>1 DEF Onward, CallsLeft, Size
    <3>3. CallsLeft(c) = Size + 5 + n - p /\ p \in 1..n + 1 /\ n \in Nat /\ p <= n
      BY <2>1, <2>4
    <3> HIDE DEF p, n
    <3>4. Size + 5 + n - (p + 1) \in 0..Size + 5 + n - p - 1
      BY <3>3, SizeIsANumber
    <3>5. /\ CallsLeft(c) \in Int /\ CallsLeft(c)' \in Int
          /\ 0 <= CallsLeft(c)' /\ CallsLeft(c)' <= CallsLeft(c) - 1
      BY <3>2, <3>3, <3>4, SizeIsANumber
    <3> QED
      BY <3>5 DEF Nearer
  <2> QED
    BY <1>0, <2>2, <2>3, <2>4, EndIsNearer
<1>4. CASE CheckJobs(c)
  <2>1. pc[c] = "jobs" /\ CallsLeft(c) = Size + 3 /\ n \in Nat /\ n <= Size
    BY <1>4 DEF CheckJobs, CallsLeft, Size, Measured
  <2>2. Ended(c) \/ Onward(c, "deleteRows", [l EXCEPT !.pos = n])
    BY <1>4, LeavingEnds, ProceedingGoesOn DEF CheckJobs, Rollback
  <2>3. CASE Onward(c, "deleteRows", [l EXCEPT !.pos = n])
    <3>1. loc'[c].pos = n
      BY <1>0, <2>3 DEF Onward, Local
    <3>2. CallsLeft(c)' = n + 2
      BY <2>3, <3>1 DEF Onward, CallsLeft
    <3> QED
      BY <2>1, <3>2, SizeIsANumber DEF Nearer
  <2> QED
    BY <1>0, <2>2, <2>3, EndIsNearer
<1>5. CASE DeleteRow(c)
  <2>1. pc[c] = "deleteRows" /\ CallsLeft(c) = l.pos + 2 /\ l.pos \in Nat /\ pc[c] \in InTx \ {"commit"}
    BY <1>5 DEF DeleteRow, CallsLeft, Measured, InTx
  <2>2. \/ Ended(c)
        \/ Onward(c, "commit", l)
        \/ l.pos # 0 /\ Onward(c, "deleteRows", [l EXCEPT !.pos = l.pos - 1])
    BY <1>5, LeavingEnds, ProceedingGoesOn DEF DeleteRow, Rollback
  <2>3. CASE l.pos # 0 /\ Onward(c, "deleteRows", [l EXCEPT !.pos = l.pos - 1])
    <3>1. loc'[c].pos = l.pos - 1
      BY <1>0, <2>3 DEF Onward, Local
    <3>2. CallsLeft(c)' = l.pos - 1 + 2
      BY <2>3, <3>1 DEF Onward, CallsLeft
    <3> QED
      BY <2>1, <2>3, <3>2 DEF Nearer
  <2> QED
    BY <1>0, <2>1, <2>2, <2>3, EndIsNearer, CommitIsNearer
<1> QED
  BY <1>1, <1>2, <1>3, <1>4, <1>5

(* What a client does to another one is nothing, or its crash. *)
LEMMA OthersLeaveAlone ==
  ASSUME IInv, [Next]_vars, NEW c \in Client
  PROVE  \/ \E r \in Menu : Call(c, r)
         \/ Step(c) \/ Fail(c)
         \/ Ended(c) /\ pc[c] \notin {"idle", "done", "gone"}
         \/ pc'[c] = pc[c] /\ loc'[c] = loc[c]
<1>1. CASE \E d \in Client, r \in Menu : Call(d, r)
  <2>1. PICK d \in Client, r \in Menu : Call(d, r)
    BY <1>1
  <2>2. loc' = loc /\ (d # c => pc'[c] = pc[c])
    BY <2>1 DEF Call, Goto, IInv, Shape
  <2> QED
    BY <2>1, <2>2
<1>2. ASSUME NEW d \in Client, d # c, Step(d) \/ Fail(d)
      PROVE  pc'[c] = pc[c] /\ loc'[c] = loc[c]
  <2>1. ASSUME Leave(d) PROVE pc'[c] = pc[c] /\ loc'[c] = loc[c]
    BY <1>2, <2>1 DEF Leave, Goto, IInv, Shape
  <2>2. ASSUME NEW p, NEW t, NEW l, Proceed(d, p, t, l) PROVE pc'[c] = pc[c] /\ loc'[c] = loc[c]
    BY <1>2, <2>2 DEF Proceed, Goto, IInv, Shape
  <2>3. ASSUME Lock(d) \/ Begin(d) PROVE pc'[c] = pc[c] /\ loc'[c] = loc[c]
    BY <1>2, <2>3 DEF Lock, Begin, Goto, IInv, Shape
  <2>4. Leave(d) \/ (Lock(d) \/ Begin(d)) \/ \E p, t, l : Proceed(d, p, t, l)
    <3>1. CASE Lock(d) \/ Begin(d) \/ NoBegin(d) \/ Fail(d) \/ Commit(d)
      BY <3>1 DEF NoBegin, Fail, Commit, Rollback
    <3>2. CASE \/ ListVaults(d) \/ ListEntries(d) \/ InsertVault(d) \/ GetVault(d) \/ CheckParent(d)
               \/ InsertEntry(d)
      BY <3>2 DEF ListVaults, ListEntries, InsertVault, GetVault, CheckParent, InsertEntry, Fetch, Read, Rollback
    <3>3. CASE GetEntry(d) \/ RenameEntry(d) \/ Walk(d) \/ MoveEntry(d)
      BY <3>3 DEF GetEntry, RenameEntry, Walk, MoveEntry, Read, Write, Rollback
    <3>4. CASE ListChildren(d) \/ Expand(d) \/ Validate(d) \/ CheckJobs(d) \/ DeleteRow(d)
      BY <3>4 DEF ListChildren, Expand, Validate, CheckJobs, DeleteRow, Rollback
    <3> QED
      BY <1>2, <3>1, <3>2, <3>3, <3>4 DEF Step
  <2> QED
    BY <2>1, <2>2, <2>3, <2>4
<1>3. CASE \E d \in Client : Step(d) \/ Fail(d)
  BY <1>2, <1>3
<1>4. CASE Others
  BY <1>4 DEF Others, OtherInsertEntry, OtherInsertFile, OtherInsertJob
<1>5. CASE \E s \in Store : Close(s)
  BY <1>5 DEF Close
<1>6. CASE \E s \in Store : Crash(s)
  BY <1>6 DEF Crash, Ended
<1>7. CASE UNCHANGED vars
  BY <1>7 DEF vars
<1> QED
  BY <1>1, <1>3, <1>4, <1>5, <1>6, <1>7 DEF Next

LEMMA OwnStepIsNearer ==
  ASSUME IInv, NEW c \in Client, Measured(c), Measured(c)', Step(c) \/ Fail(c)
  PROVE  Nearer(c)
<1>1. CASE NoBegin(c) \/ Fail(c) \/ Commit(c)
  <2>1. pc[c] \in PC \ {"idle", "done", "gone"}
    BY <1>1 DEF NoBegin, Fail, Commit, PC, InTx
  <2>2. Ended(c)
    BY <1>1, LeavingEnds DEF NoBegin, Fail, Commit, Rollback
  <2> QED
    BY <2>1, <2>2, EndIsNearer
<1>2. CASE ~(NoBegin(c) \/ Fail(c) \/ Commit(c))
  BY <1>2, EntryIsNearer, LastIsNearer, ParentIsNearer, EntryReadIsNearer, TurnIsNearer, DeletionIsNearer
     DEF Step
<1> QED
  BY <1>1, <1>2

(* WithTx keeps the store locked for a number of repository calls that the *)
(* number of entries bounds, whatever other calls, writers and failures    *)
(* come in between: nobody can keep a call from getting to its end.        *)
THEOREM Bounded == Spec => EveryStepCounts
<1>1. ASSUME IInv, [Next]_vars, \A c \in Client : Measured(c), \A c \in Client : Measured(c)'
      PROVE  \A c \in Client :
               pc[c] # "idle" /\ <<pc[c], loc[c]>>' # <<pc[c], loc[c]>> => CallsLeft(c)' \in 0..CallsLeft(c) - 1
  <2> SUFFICES ASSUME NEW c \in Client, pc[c] # "idle", ~(pc'[c] = pc[c] /\ loc'[c] = loc[c])
               PROVE  Nearer(c)
    BY DEF Nearer
  <2>1. Measured(c) /\ Measured(c)' /\ pc[c] \in PC
    BY <1>1 DEF IInv, Shape
  <2>2. CASE Step(c) \/ Fail(c)
    BY <1>1, <2>1, <2>2, OwnStepIsNearer
  <2>3. CASE Ended(c) /\ pc[c] \notin {"idle", "done", "gone"}
    BY <2>1, <2>3, EndIsNearer
  <2> QED
    BY <1>1, <2>2, <2>3, OthersLeaveAlone DEF Call
<1>2. IInv /\ [Next]_vars /\ (\A c \in Client : Measured(c)) /\ (\A c \in Client : Measured(c))'
        => [\A c \in Client :
              pc[c] # "idle" /\ <<pc[c], loc[c]>>' # <<pc[c], loc[c]>> => CallsLeft(c)' \in 0..CallsLeft(c) - 1]_vars
  BY <1>1
<1> QED
  BY <1>2, AllMeasured, Invariant, PTL DEF Spec, EveryStepCounts
=============================================================================
