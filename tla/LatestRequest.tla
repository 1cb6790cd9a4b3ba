---------------------------- MODULE LatestRequest ----------------------------
(***************************************************************************)
(* What the sequence guard of the frontend's listings promises: the view   *)
(* behaves as if a new request cancelled the one before it.  There is at   *)
(* most one answer to come, of the place asked for last, and nothing but   *)
(* this answer changes what is shown or ends the loading.                  *)
(***************************************************************************)
CONSTANTS
  Place,  \* what can be asked for
  Nothing \* what is shown before the first answer

VARIABLES
  wanted,  \* the place whose answer is awaited, if there is one
  shown,   \* the place whose rows are held
  loading, error

vars == <<wanted, shown, loading, error>>

Init ==
  /\ wanted \in {{}} \cup {{p} : p \in Place}
  /\ shown = Nothing
  /\ loading = (wanted # {})
  /\ error = FALSE

Ask(p) ==
  /\ wanted' = {p}
  /\ loading' = TRUE
  /\ error' = FALSE
  /\ UNCHANGED shown

Answered ==
  /\ wanted # {}
  /\ wanted' = {}
  /\ loading' = FALSE
  /\ \/ shown' \in wanted /\ UNCHANGED error
     \/ error' = TRUE /\ UNCHANGED shown

Next == Answered \/ \E p \in Place : Ask(p)

Spec == Init /\ [][Next]_vars
=============================================================================
