------------------------------ MODULE MCFolderTx ------------------------------
(* Small instances of FolderTx: two processes and a tree of three entries   *)
(* on which the operations get in each other's way.                        *)
EXTENDS FolderTx, TLC

CONSTANTS v1, v2, v3, a, b, c, d, p1, p2, k1, k2

MCDisplay == [r \in RawName |-> IF r = ".." THEN "invalid" ELSE r]
MCFold == [n \in Name |-> n]

Folder(v, p, n) == [vault |-> v, parent |-> p, kind |-> "folder", name |-> n,
                    key |-> n, status |-> "available"]
Seed(E) == [vaults |-> {v1}, entries |-> E, unused |-> EntryId \ DOMAIN E]

(* A folder with a folder in it, and one beside them.                      *)
Nested == Seed(a :> Folder(v1, Root, "docs") @@ b :> Folder(v1, a, "docs")
                 @@ c :> Folder(v1, Root, "pics"))

Apart == {k1 :> p1 @@ k2 :> p2}
TogetherOrApart == Apart \cup {k1 :> p1 @@ k2 :> p1}

Deletes(Ids) == [op : {"DeleteFolder"}, id : Ids, recursive : BOOLEAN]

OneSeed == {Nested}

(* The operations whose checks another writer could undo. *)
DeleteMenu == Deletes({a}) \cup [op : {"DeleteFolder"}, id : {c}, recursive : {FALSE}]
                \cup [op : {"MoveEntry"}, id : {b}, to : {Root, c}]
                \cup [op : {"MoveEntry"}, id : {a}, to : {c}]
(* Operations that get in each other's way, for calls that fail, stores    *)
(* that close and processes that die.                                      *)
MCMenu ==
  {[op |-> "MoveEntry", id |-> a, to |-> c], [op |-> "MoveEntry", id |-> c, to |-> b],
   [op |-> "MoveEntry", id |-> b, to |-> Root], [op |-> "MoveEntry", id |-> a, to |-> b],
   [op |-> "DeleteFolder", id |-> a, recursive |-> TRUE],
   [op |-> "DeleteFolder", id |-> c, recursive |-> FALSE],
   [op |-> "RenameEntry", id |-> b, name |-> "pics"],
   [op |-> "CreateFolder", vault |-> v1, parent |-> Root, name |-> "docs"],
   [op |-> "CreateFolder", vault |-> v1, parent |-> a, name |-> "pics"],
   [op |-> "CreateLocalVault", name |-> ".."], [op |-> "CreateLocalVault", name |-> "docs"],
   [op |-> "ListEntries", vault |-> v1, parent |-> a],
   [op |-> "ListEntries", vault |-> v1, parent |-> Root]}
  \cup [op : {"ListVaults"}] \cup [op : {"GetVault"}, vault : {v1, v2}]
=============================================================================
