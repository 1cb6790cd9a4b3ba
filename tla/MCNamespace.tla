----------------------------- MODULE MCNamespace -----------------------------
(* Small values for Namespace: display names that differ only in case and  *)
(* share a key, one more name, and one that is rejected.                   *)
EXTENDS Namespace, TLC

MCDisplay == [r \in RawName |-> IF r = ".." THEN "invalid" ELSE r]
MCFold == [n \in Name |-> IF n = "DOCS" THEN "docs" ELSE n]
MCSymmetry == Permutations(EntryId) \cup Permutations(VaultId)

(* The last reply is written and never read: states that differ only in it *)
(* have the same successors.                                               *)
MCView == <<vaults, entries, files, chunks, jobs, unused>>

(* One complication at a time: a second vault, a name that folds to the    *)
(* key of another, or file records with their chunks.                      *)
Folding == \E x \in DOMAIN entries : entries[x].name = "DOCS"
MCInstance ==
  /\ Cardinality(vaults) = 2 => files = {} /\ ~Folding
  /\ files # {} => ~Folding
=============================================================================
