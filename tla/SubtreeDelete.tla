---------------------------- MODULE SubtreeDelete ----------------------------
(***************************************************************************)
(* deleteSubtree of service.go, one repository call at a time: the         *)
(* breadth-first enumeration, the validation of every node, the job check  *)
(* and the deletes in reverse order.  The store it starts from is          *)
(* arbitrary: parent links may form cycles or lead nowhere.                *)
(*                                                                         *)
(* A row keeps its parent and what the validation finds at it: an entry    *)
(* that is a file, or is not available, or has a file record, chunks, or a *)
(* job referring to it, is flawed.  The queue of the code is the part of   *)
(* order from position head on, and its visited set is the range of order. *)
(***************************************************************************)
EXTENDS Integers, Sequences, FiniteSets, Functions

CONSTANTS
  EntryId, Root,
  MaxFlawed   \* bound: how many entries of the store may be flawed

ASSUME EntryAssumption == Root \notin EntryId /\ IsFiniteSet(EntryId)
ASSUME MaxFlawedAssumption == MaxFlawed \in Nat

Flaw == {"none", "file", "unavailable", "file record", "chunks", "job"}
Row == [parent : EntryId \cup {Root}, flaw : Flaw]

VARIABLES
  E,       \* the entries before the call
  rows,    \* the entries as the transaction has left them
  root,    \* the folder to delete
  order, head, \* the nodes enumerated, and the first one not expanded yet
  pos,     \* the node to validate or to delete next
  phase    \* "expand", "validate", "jobs", "delete", or the code returned

vars == <<E, rows, root, order, head, pos, phase>>

Codes == {"OK", "INVALID_HIERARCHY", "OPERATION_UNAVAILABLE", "NOT_FOUND"}
Phases == {"expand", "validate", "jobs", "delete"}
Stores == UNION {[D -> Row] : D \in SUBSET EntryId}

(* The positions stay in range and every return is a code of the service. *)
TypeOK ==
  /\ E \in Stores
  /\ rows \in Stores
  /\ root \in DOMAIN E
  /\ order \in Seq(DOMAIN E)
  /\ head \in Nat
  /\ pos \in Nat
  /\ phase \in Phases \cup Codes

Seen == Range(order)
Nodes(T, x) == {y \in DOMAIN T : T[y].parent = x}

(* tx.ListEntries: the children of x, each once, in some order. *)
Listings(x) == Bijection(1..Cardinality(Nodes(E, x)), Nodes(E, x))

Init ==
  /\ E \in Stores
  /\ \A x \in DOMAIN E : E[x].parent # x   \* a CHECK of the entries table
  /\ Cardinality({x \in DOMAIN E : E[x].flaw # "none"}) <= MaxFlawed
  /\ rows = E
  /\ root \in {x \in DOMAIN E : E[x].flaw # "file"}
  /\ order = <<root>>
  /\ head = 1
  /\ pos = 1
  /\ phase = "expand"

(* Mutants: the queue is never popped; the dequeued node is looked up in   *)
(* the visited set in place of its children.                               *)
NotPopped == head
NodeRevisited == order[head] \in Seen

Popped == head + 1
Revisited == Nodes(E, order[head]) \cap Seen # {}

(* One turn of the enumeration loop. *)
Expand ==
  /\ phase = "expand"
  /\ head <= Len(order)
  /\ IF Revisited
     THEN /\ phase' = "INVALID_HIERARCHY"
          /\ UNCHANGED <<order, head>>
     ELSE /\ \E s \in Listings(order[head]) : order' = order \o s
          /\ head' = Popped
          /\ UNCHANGED phase
  /\ UNCHANGED <<E, rows, root, pos>>

Enumerated ==
  /\ phase = "expand"
  /\ head > Len(order)
  /\ phase' = "validate"
  /\ UNCHANGED <<E, rows, root, order, head, pos>>

(* Mutant: the status is not looked at. *)
RefusedAnyStatus(x) == E[x].flaw \in {"file", "file record", "chunks"}
Refused(x) == E[x].flaw \in {"file", "unavailable", "file record", "chunks"}

(* One turn of the validation loop: kind, status, file record, chunks. *)
Validate ==
  /\ phase = "validate"
  /\ pos <= Len(order)
  /\ IF Refused(order[pos]) THEN phase' = "OPERATION_UNAVAILABLE" /\ UNCHANGED pos
     ELSE pos' = pos + 1 /\ UNCHANGED phase
  /\ UNCHANGED <<E, rows, root, order, head>>

Validated ==
  /\ phase = "validate"
  /\ pos > Len(order)
  /\ phase' = "jobs"
  /\ UNCHANGED <<E, rows, root, order, head, pos>>

(* Mutants: no job check, so that RESTRICT has to do it; the deletes run   *)
(* from the root down.                                                     *)
NoJob == FALSE
FromTheRoot == 1

HasJob == \E x \in Seen : E[x].flaw = "job"
FromTheLeaves == Len(order)

CheckJobs ==
  /\ phase = "jobs"
  /\ IF HasJob THEN phase' = "OPERATION_UNAVAILABLE" /\ UNCHANGED pos
     ELSE phase' = "delete" /\ pos' = FromTheLeaves
  /\ UNCHANGED <<E, rows, root, order, head>>

(* tx.DeleteEntry: RESTRICT refuses a row that a child, a file record or a *)
(* job still refers to.                                                    *)
Restricted(x) == Nodes(rows, x) # {} \/ rows[x].flaw \in {"file record", "chunks", "job"}

Delete ==
  /\ phase = "delete"
  /\ pos >= 1
  /\ IF order[pos] \notin DOMAIN rows
     THEN phase' = "NOT_FOUND" /\ UNCHANGED <<rows, pos>>
     ELSE IF Restricted(order[pos])
     THEN phase' = "OPERATION_UNAVAILABLE" /\ UNCHANGED <<rows, pos>>
     ELSE /\ rows' = Restrict(rows, DOMAIN rows \ {order[pos]})
          /\ pos' = pos - 1
          /\ UNCHANGED phase
  /\ UNCHANGED <<E, root, order, head>>

Deleted ==
  /\ phase = "delete"
  /\ pos = 0
  /\ phase' = "OK"
  /\ UNCHANGED <<E, rows, root, order, head, pos>>

Next == Expand \/ Enumerated \/ Validate \/ Validated \/ CheckJobs \/ Delete \/ Deleted

Spec == Init /\ [][Next]_vars /\ WF_vars(Next)

-----------------------------------------------------------------------------
(* Properties. *)

(* The reference definition: what lies at or below the root, as the least  *)
(* set that holds the root and the children of its members.                *)
Below ==
  {x \in DOMAIN E :
     \A S \in SUBSET DOMAIN E : root \in S /\ (\A y \in S : Nodes(E, y) \subseteq S) => x \in S}

(* Validation precedes every delete: a call that refuses has not deleted a *)
(* single row, so the RESTRICT backstop never fires halfway.               *)
ZeroMutation == phase \in Codes \ {"OK"} => rows = E

(* A call that succeeds has deleted the subtree, all of it and nothing     *)
(* else, and nothing flawed was in it.                                     *)
WholeSubtree ==
  phase = "OK" => /\ rows = Restrict(E, DOMAIN E \ Below)
                  /\ \A x \in Below : E[x].flaw = "none"

(* INVALID_HIERARCHY is said of a corrupted hierarchy only: the folder is  *)
(* its own ancestor.                                                       *)
OnlyCorrupted ==
  phase = "INVALID_HIERARCHY" => \E x \in Below : E[root].parent = x

(* A refusal with OPERATION_UNAVAILABLE has a blocker in the subtree.      *)
RefusedForCause ==
  phase = "OPERATION_UNAVAILABLE" => \E x \in Below : E[x].flaw # "none"

(* How many steps the call has left, at most: an expansion, a validation   *)
(* and a delete for every entry of the store, and the steps in between.    *)
StepsLeft ==
  LET n == Cardinality(DOMAIN E) IN
  CASE phase = "expand"   -> 3 * n + 5 - head
    [] phase = "validate" -> n + 4 + Len(order) - pos
    [] phase = "jobs"     -> n + 2
    [] phase = "delete"   -> pos + 1
    [] OTHER              -> 0

(* Every step brings the end of the call nearer: the work done while the   *)
(* store is locked is linear in its entries, on a corrupted cycle too.     *)
EveryStepCounts == [][StepsLeft' \in 0..StepsLeft - 1]_vars

(* Every call ends, on a corrupted cycle too. *)
Terminates == <>(phase \in Codes)
=============================================================================
