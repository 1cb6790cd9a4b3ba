---------------------------- MODULE AncestorWalk ----------------------------
(***************************************************************************)
(* rejectCycle of service.go, turn by turn, on whatever hierarchy the      *)
(* store holds: sound, or corrupted by a cycle or a dangling parent link   *)
(* (the repository's own MoveEntry has no cycle check, and the file can be *)
(* changed by other programs).  The transaction keeps the rows fixed while *)
(* the walk runs, and the walk reads no column but parent_id.              *)
(***************************************************************************)
EXTENDS Schema

ASSUME FiniteAssumption == IsFiniteSet(EntryId)

VARIABLES
  E,         \* the entries of the store
  src, dest, \* the entry being moved and its destination
  cur, visited, \* the locals of rejectCycle
  verdict    \* "walking", or the code returned

vars == <<E, src, dest, cur, visited, verdict>>

Hierarchies == UNION {[D -> [parent : Parent]] : D \in SUBSET EntryId}

(* The walk never stands on anything but an identifier. *)
TypeOK ==
  /\ E \in Hierarchies
  /\ src \in EntryId
  /\ dest \in EntryId
  /\ cur \in EntryId
  /\ visited \subseteq EntryId
  /\ verdict \in {"walking", "OK", "INVALID_HIERARCHY"}

(* MoveEntry has read the source and the destination, and has refused to   *)
(* move an entry beneath itself.                                           *)
Init ==
  /\ E \in Hierarchies
  /\ \A x \in DOMAIN E : E[x].parent # x   \* a CHECK of the entries table
  /\ src \in DOMAIN E
  /\ dest \in DOMAIN E \ {src}
  /\ cur = dest
  /\ visited = {}
  /\ verdict = "walking"

Turn ==
  /\ verdict = "walking"
  /\ verdict' = WalkVerdict(E, src, cur, visited)
  /\ visited' = IF cur = src THEN visited ELSE visited \cup {cur}
  /\ cur' = IF verdict' = "walking" THEN E[cur].parent ELSE cur
  /\ UNCHANGED <<E, src, dest>>

Next == Turn

Spec == Init /\ [][Next]_vars /\ WF_vars(Next)

-----------------------------------------------------------------------------
(* Properties. *)

Intact ==
  /\ \A x \in DOMAIN E : E[x].parent \in DOMAIN E \cup {Root}
  /\ Acyclic(E)

(* A move that the walk lets through leaves the source off the chain of    *)
(* its destination, even on a corrupted store, and the chain ends at the   *)
(* vault root: the move closes no cycle.                                   *)
Sound ==
  verdict = "OK" =>
    \E A \in SUBSET DOMAIN E : /\ dest \in A /\ src \notin A /\ ParentClosed(E, A)
                               /\ \A S \in SUBSET A : S # {} => \E x \in S : E[x].parent \notin S

(* On a sound hierarchy the walk refuses nothing but cycles: the verdict   *)
(* is the one Namespace gives without walking.                             *)
Complete ==
  verdict = "INVALID_HIERARCHY" /\ Intact => OnChain(E, src, dest)

(* How many turns the walk has left, at most. *)
TurnsLeft == IF verdict = "walking" THEN 1 + Cardinality(DOMAIN E \ visited) ELSE 0

(* Every turn uses up an entry of the store or gives the verdict: round a  *)
(* cycle of parent links, too, the walk goes once at most.                 *)
EveryTurnCounts == [][TurnsLeft' \in 0..TurnsLeft - 1]_vars

(* Every walk ends, whatever the hierarchy (never a hang). *)
Terminates == <>(verdict # "walking")
=============================================================================
