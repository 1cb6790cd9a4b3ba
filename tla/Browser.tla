------------------------------ MODULE Browser ------------------------------
(***************************************************************************)
(* The folder view of the desktop frontend (Browser.tsx, FolderView.tsx)   *)
(* with its dialogs: what is shown, the listing and mutation calls in      *)
(* flight, and the answers to them in any order.  An event handler with    *)
(* the render and the effects it causes is one step.                       *)
(*                                                                         *)
(* Modal.tsx covers the page with an overlay that stops the pointer, but   *)
(* keeps no focus inside and leaves the page's controls enabled: Tab       *)
(* reaches them.  Keyboard says whether the user does that.                *)
(*                                                                         *)
(* Every entry is a folder here: the one thing a file row allows is to be  *)
(* selected and renamed.                                                   *)
(***************************************************************************)
EXTENDS Integers, Sequences, SequencesExt

CONSTANTS
  Vault, Folder,  \* identifiers
  VaultOf, Up,    \* the vault and the parent of each folder
  Root, None,     \* folderId null; no vault, entry or dialog
  Keyboard,       \* are the controls behind an open dialog used?
  MaxLoads, MaxMounts \* bounds: listing requests made and dialogs mounted

ASSUME TreeAssumption ==
  /\ Root \notin Folder /\ None \notin Vault \cup Folder
  /\ VaultOf \in [Folder -> Vault] /\ Up \in [Folder -> Folder \cup {Root}]
ASSUME BoundAssumption == Keyboard \in BOOLEAN /\ MaxLoads \in Nat /\ MaxMounts \in Nat

VARIABLES
  vault, folder, trail, \* the vault selected in Shell, folderId and trail
  entries,              \* the rows held: of which listing, and which of them
  loading, error, selected,
  seq, requests,        \* seq.current and the listEntries calls in flight
  naming,               \* the sidebar's own dialog, "Create local vault"
  dialog,               \* the dialog mounted, with its local state
  mounts,               \* how many dialogs have been mounted
  mutations,            \* the mutating calls in flight
  refusals              \* history: the folders refused as FOLDER_NOT_EMPTY

view == <<vault, folder, trail, entries, loading, error, selected, seq, requests>>
vars == <<view, naming, dialog, mounts, mutations, refusals>>

Place == {None} \cup (Vault \X (Folder \cup {Root}))
Kids(v, f) == {x \in Folder : VaultOf[x] = v /\ Up[x] = f}
DialogKind == {"new-folder", "rename", "move", "delete"}
NoDialog == [kind |-> None]
ASSUME KindAssumption == None \notin DialogKind

LR == INSTANCE LatestRequest WITH
        Place <- Vault \X (Folder \cup {Root}), Nothing <- None, shown <- entries.at,
        wanted <- {r.at : r \in {q \in requests : q.my = seq}}

(* Answers refer to calls that were made, positions to folders. *)
TypeOK ==
  /\ vault \in Vault \cup {None}
  /\ folder \in Folder \cup {Root}
  /\ trail \in Seq(Folder)
  /\ entries.at \in Place /\ entries.ids \subseteq Folder
  /\ loading \in BOOLEAN /\ error \in BOOLEAN
  /\ selected \in Folder \cup {None}
  /\ seq \in 0..MaxLoads + 1
  /\ \A r \in requests : r.my \in 1..seq /\ r.at \in Vault \X (Folder \cup {Root})
  /\ naming \in {"closed", "open", "busy"}
  /\ dialog # NoDialog =>
       /\ dialog.kind \in DialogKind /\ dialog.entry \in Folder \cup {None}
       /\ dialog.entry = None <=> dialog.kind = "new-folder"
       /\ dialog.busy \in BOOLEAN /\ dialog.refused \in BOOLEAN
       /\ dialog.mount \in 1..mounts
  /\ \A m \in mutations : m.mount \in 1..mounts
  /\ refusals \subseteq Folder

(* Shell has listed the vaults and selects the first, if there is one; the *)
(* vault effect of the first render has run.                               *)
Init ==
  /\ vault \in Vault \cup {None}
  /\ folder = Root /\ trail = << >> /\ selected = None
  /\ entries = [at |-> None, ids |-> {}]
  /\ seq = 1
  /\ requests = IF vault = None THEN {} ELSE {[my |-> 1, at |-> <<vault, Root>>]}
  /\ loading = (vault # None)
  /\ error = FALSE
  /\ naming = "closed" /\ dialog = NoDialog /\ mounts = 0
  /\ mutations = {} /\ refusals = {}

-----------------------------------------------------------------------------
(* Mutant: every listing request has the same sequence number. *)
LoadUnnumbered(v, f) ==
  /\ seq <= MaxLoads
  /\ seq' = seq
  /\ requests' = requests \cup {[my |-> seq, at |-> <<v, f>>]}
  /\ loading' = TRUE
  /\ error' = FALSE
  /\ UNCHANGED entries

(* load: the rows held stay until the answer is here. *)
Load(v, f) ==
  /\ seq <= MaxLoads
  /\ seq' = seq + 1
  /\ requests' = requests \cup {[my |-> seq + 1, at |-> <<v, f>>]}
  /\ loading' = TRUE
  /\ error' = FALSE
  /\ UNCHANGED entries

(* Mutant: dialogs without an overlay. *)
ReachableAlways == TRUE

(* Controls of the page itself: behind the overlay when a dialog is open. *)
Clickable == dialog = NoDialog /\ naming = "closed"
Reachable == Clickable \/ Keyboard
TableShown == vault # None /\ ~loading /\ ~error

DialogsStay == UNCHANGED <<dialog, mounts, mutations, refusals>>
Stay == DialogsStay /\ UNCHANGED naming

(* The vault effect: another vault is shown from its root. *)
VaultChanged(v) ==
  /\ v # vault
  /\ vault' = v
  /\ folder' = Root /\ trail' = << >> /\ selected' = None
  /\ Load(v, Root)

(* The sidebar: the list of vaults, and the dialog that creates one.  Its  *)
(* answer selects a vault that nothing is in, or leaves the dialog open.   *)
SelectVault(v) == Reachable /\ VaultChanged(v) /\ Stay

NameVault ==
  /\ Reachable /\ naming = "closed"
  /\ naming' = "open"
  /\ UNCHANGED view /\ DialogsStay

EndNaming ==
  /\ naming = "open"
  /\ naming' \in {"closed", "busy"}
  /\ UNCHANGED view /\ DialogsStay

VaultCreated(v) ==
  /\ naming = "busy" /\ \A f \in Folder : VaultOf[f] # v
  /\ naming' = "closed"
  /\ VaultChanged(v)
  /\ DialogsStay

VaultRefused ==
  /\ naming = "busy"
  /\ naming' = "open"
  /\ UNCHANGED view /\ DialogsStay

GoTo(f, t, s) ==
  /\ folder' = f /\ trail' = t /\ selected' = s
  /\ Load(vault, f)
  /\ UNCHANGED vault
  /\ Stay

(* The folder's name is a button in a row that selects when clicked: the   *)
(* click opens the folder and then goes on to the row.  A double click on  *)
(* the row selects, deselects and opens.                                   *)
OpenByName(f) ==
  /\ Reachable /\ TableShown /\ f \in entries.ids
  /\ GoTo(f, Append(trail, f), IF f = selected THEN None ELSE f)
OpenByRow(f) ==
  /\ Clickable /\ TableShown /\ f \in entries.ids
  /\ GoTo(f, Append(trail, f), None)

(* navigateTo from the breadcrumb: the trail up to the first such segment. *)
Breadcrumb(f) ==
  /\ Reachable /\ vault # None
  /\ f \in Range(trail) \cup {Root}
  /\ GoTo(f, IF f = Root THEN << >>
             ELSE SubSeq(trail, 1, CHOOSE i \in DOMAIN trail :
                                     trail[i] = f /\ \A j \in 1..i - 1 : trail[j] # f),
          None)

(* Mutant: the trail is cut, the folder stays. *)
GoBackInPlace ==
  /\ Reachable /\ vault # None
  /\ trail # << >>
  /\ GoTo(folder, Front(trail), None)

(* Mutant: the way back keeps the selection. *)
GoBackSelected ==
  LET up == Front(trail) IN
  /\ Reachable /\ vault # None
  /\ trail # << >>
  /\ GoTo(IF up = << >> THEN Root ELSE Last(up), up, selected)

GoBack ==
  LET up == Front(trail) IN
  /\ Reachable /\ vault # None
  /\ trail # << >>
  /\ GoTo(IF up = << >> THEN Root ELSE Last(up), up, None)

Retry ==
  /\ Reachable /\ vault # None /\ error /\ ~loading
  /\ GoTo(folder, trail, None)

SelectRow(f) ==
  /\ Clickable /\ TableShown /\ f \in entries.ids
  /\ selected' = IF f = selected THEN None ELSE f
  /\ UNCHANGED <<vault, folder, trail, entries, loading, error, seq, requests>>
  /\ Stay

(* Mutant: a failed listing leaves the view loading. *)
ListedErrorHangs(r) ==
  /\ r \in requests
  /\ requests' = requests \ {r}
  /\ \/ /\ r.my = seq
        /\ entries' = [at |-> r.at, ids |-> Kids(r.at[1], r.at[2])]
        /\ loading' = FALSE
        /\ UNCHANGED error
     \/ /\ error' = (error \/ r.my = seq)
        /\ UNCHANGED <<entries, loading>>
  /\ UNCHANGED <<vault, folder, trail, selected, seq>>
  /\ Stay

(* An answer to listEntries, of the newest request or of an earlier one. *)
Listed(r) ==
  /\ r \in requests
  /\ requests' = requests \ {r}
  /\ IF r.my # seq THEN UNCHANGED <<entries, loading, error>>
     ELSE /\ loading' = FALSE
          /\ \/ /\ entries' = [at |-> r.at, ids |-> Kids(r.at[1], r.at[2])]
                /\ UNCHANGED error
             \/ /\ error' = TRUE
                /\ UNCHANGED entries
  /\ UNCHANGED <<vault, folder, trail, selected, seq>>
  /\ Stay

-----------------------------------------------------------------------------
(* The dialogs. *)

selectedEntry == IF selected \in entries.ids THEN selected ELSE None

(* A toolbar button: React keeps the instance, and with it its local state,*)
(* when the dialog it asks for is of the kind that is open.                *)
OpenDialog(kind) ==
  LET entry == IF kind = "new-folder" THEN None ELSE selectedEntry IN
  /\ Reachable /\ vault # None
  /\ kind = "new-folder" \/ selectedEntry # None
  /\ IF dialog.kind = kind
     THEN dialog' = [dialog EXCEPT !.entry = entry] /\ UNCHANGED mounts
     ELSE /\ mounts < MaxMounts
          /\ mounts' = mounts + 1
          /\ dialog' = [kind |-> kind, entry |-> entry, mount |-> mounts + 1,
                        busy |-> FALSE, refused |-> FALSE]
  /\ UNCHANGED <<view, naming, mutations, refusals>>

(* Cancel and Escape. *)
CloseDialog ==
  /\ dialog # NoDialog /\ ~dialog.busy
  /\ dialog' = NoDialog
  /\ UNCHANGED <<view, naming, mounts, mutations, refusals>>

(* A confirming button: the call goes out, and what its success will do is *)
(* fixed by the render whose button was pressed.                           *)
Send(kinds, recursive) ==
  /\ dialog.kind \in kinds /\ ~dialog.busy
  /\ dialog' = [dialog EXCEPT !.busy = TRUE]
  /\ mutations' = mutations \cup
       {[kind |-> dialog.kind, entry |-> dialog.entry, vault |-> vault,
         recursive |-> recursive, mount |-> dialog.mount,
         refresh |-> <<vault, folder>>]}
  /\ UNCHANGED <<view, naming, mounts, refusals>>

SubmitNewFolder == Send({"new-folder"}, FALSE)
SubmitRename == Send({"rename"}, FALSE)

(* "Move here": the picker has listed a destination, of the vault it has.  *)
ConfirmMove == Send({"move"}, FALSE)

(* Mutant: the dialog asks once, and deletes recursively. *)
ConfirmDeleteAtOnce == Send({"delete"}, TRUE)

(* The first confirmation is not recursive, the one after a refusal is. *)
ConfirmDelete == Send({"delete"}, dialog.refused)

(* setDialog(null) and the refresh of that render. *)
Succeeded(m) ==
  /\ m \in mutations
  /\ mutations' = mutations \ {m}
  /\ dialog' = NoDialog
  /\ selected' = None
  /\ Load(m.refresh[1], m.refresh[2])
  /\ UNCHANGED <<vault, folder, trail, naming, mounts, refusals>>

(* Mutant: the dialog that goes on to the recursive confirmation is still  *)
(* busy with the first.                                                    *)
FailedStuck(m) ==
  /\ m \in mutations
  /\ mutations' = mutations \ {m}
  /\ \E nonEmpty \in BOOLEAN :
       /\ nonEmpty => m.kind = "delete" /\ ~m.recursive
       /\ refusals' = IF nonEmpty THEN refusals \cup {m.entry} ELSE refusals
       /\ dialog' = IF dialog = NoDialog \/ dialog.mount # m.mount THEN dialog
                    ELSE [dialog EXCEPT !.busy = nonEmpty, !.refused = @ \/ nonEmpty]
  /\ UNCHANGED <<view, naming, mounts>>

(* The local state of a dialog that is gone takes no update. *)
Failed(m) ==
  /\ m \in mutations
  /\ mutations' = mutations \ {m}
  /\ \E nonEmpty \in BOOLEAN :
       /\ nonEmpty => m.kind = "delete" /\ ~m.recursive
       /\ refusals' = IF nonEmpty THEN refusals \cup {m.entry} ELSE refusals
       /\ dialog' = IF dialog = NoDialog \/ dialog.mount # m.mount THEN dialog
                    ELSE [dialog EXCEPT !.busy = FALSE, !.refused = @ \/ nonEmpty]
  /\ UNCHANGED <<view, naming, mounts>>

Next ==
  \/ \E v \in Vault : SelectVault(v) \/ VaultCreated(v)
  \/ NameVault \/ EndNaming \/ VaultRefused
  \/ \E f \in Folder : OpenByName(f) \/ OpenByRow(f) \/ SelectRow(f)
  \/ \E f \in Folder \cup {Root} : Breadcrumb(f)
  \/ GoBack \/ Retry
  \/ \E r \in requests : Listed(r)
  \/ \E kind \in DialogKind : OpenDialog(kind)
  \/ CloseDialog \/ SubmitNewFolder \/ SubmitRename \/ ConfirmMove \/ ConfirmDelete
  \/ \E m \in mutations : Succeeded(m) \/ Failed(m)

(* The backend answers every call; the user does whatever comes to mind. *)
Spec ==
  /\ Init /\ [][Next]_vars
  /\ WF_vars(\E r \in requests : Listed(r))
  /\ WF_vars(\E m \in mutations : Succeeded(m) \/ Failed(m))

-----------------------------------------------------------------------------
(* Properties. *)

(* The sequence guard works, whatever the user does and in whatever order  *)
(* answers come: the view is one in which only the newest request exists.  *)
Implements == LR!Spec

(* Rows that are shown are those of the folder the path says: no answer to *)
(* a request for another folder overwrites them.                           *)
ListingIsCurrent == TableShown => entries.at = <<vault, folder>>

(* The path shown is a path of the vault, and ends at the current folder.  *)
TrailLeadsHere ==
  /\ folder = IF trail = << >> THEN Root ELSE Last(trail)
  /\ \A i \in DOMAIN trail :
       trail[i] \in Kids(vault, IF i = 1 THEN Root ELSE trail[i - 1])

(* Recursion is never silent: a recursive delete goes out only for a folder*)
(* that the backend has refused to delete as not empty.                    *)
RecursionConfirmed == \A m \in mutations : m.recursive => m.entry \in refusals

(* The move dialog never attempts a cross-vault move: the folder it moves  *)
(* is of the vault whose folders it offers as destinations.                *)
NoCrossVaultMove == \A m \in mutations : m.kind = "move" => VaultOf[m.entry] = m.vault

(* What a dialog acts on is in the folder that the path names, or is this  *)
(* folder: although the rows of the folder before it are held until its    *)
(* listing is there, and are what the toolbar takes its entry from.        *)
ActsOnWhatIsHere ==
  dialog # NoDialog /\ dialog.entry # None =>
    dialog.entry \in Kids(vault, folder) \cup {folder}

(* A dialog sends one call at a time, and can be used again when that is   *)
(* answered: no answer to the call of an earlier dialog frees the one that *)
(* is open, and none leaves it waiting for nothing.                        *)
OneCallPerDialog ==
  /\ \A m, n \in mutations : m.mount = n.mount => m = n
  /\ dialog # NoDialog => (dialog.busy <=> \E m \in mutations : m.mount = dialog.mount)

(* No answer is waited for in vain: the view stops loading. *)
LoadingEnds == loading ~> ~loading
=============================================================================
