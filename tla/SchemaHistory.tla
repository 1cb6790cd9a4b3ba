---------------------------- MODULE SchemaHistory ----------------------------
(***************************************************************************)
(* What app.Open promises to the processes on one database file: a start   *)
(* is atomic.  A process is up with the file brought, in one step, from    *)
(* migrations that its binary continues to exactly those of its binary, or *)
(* it is not up and has left nothing behind but snapshots.                 *)
(***************************************************************************)
CONSTANTS
  Proc,
  Known   \* per process: the texts of its migrations, version 1 first

VARIABLES
  applied, \* the versions recorded in the file, with their texts
  up,      \* the processes that app.Open has started
  saved    \* the snapshots: by whom, of which recorded versions

vars == <<applied, up, saved>>

Init ==
  /\ applied = << >>
  /\ up = {}
  /\ saved = {}

(* The binary of p knows all that is recorded, by the same texts. *)
Continues(p) == \A v \in DOMAIN applied : v \in DOMAIN Known[p] /\ Known[p][v] = applied[v]

Snapshot(p) == [by |-> p, applied |-> applied]

Save(p) ==
  /\ p \notin up
  /\ saved' = saved \cup {Snapshot(p)}
  /\ UNCHANGED <<applied, up>>

(* What is replaced has been saved first, by the process that replaces it. *)
Start(p) ==
  /\ p \notin up
  /\ Continues(p)
  /\ applied \in {<< >>, Known[p]} \/ Snapshot(p) \in saved
  /\ applied' = Known[p]
  /\ up' = up \cup {p}
  /\ UNCHANGED saved

Stop(p) ==
  /\ p \in up
  /\ up' = up \ {p}
  /\ UNCHANGED <<applied, saved>>

Next == \E p \in Proc : Save(p) \/ Start(p) \/ Stop(p)

Spec == Init /\ [][Next]_vars
=============================================================================
