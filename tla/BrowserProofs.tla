--------------------------- MODULE BrowserProofs ---------------------------
(***************************************************************************)
(* Proofs about Browser, for any vaults and folders.  Whatever the user    *)
(* does, only the answer asked for last is shown and a dialog has one call *)
(* in flight at a time.  With the pointer (Keyboard = FALSE), the rows,    *)
(* the path and the calls that go out belong together.                     *)
(***************************************************************************)
EXTENDS Browser, SequenceTheorems, WellFoundedInduction, TLAPS

Request == [my : 1..seq, at : Vault \X (Folder \cup {Root})]
Dialog == [kind : DialogKind, entry : Folder \cup {None}, mount : 1..mounts,
           busy : BOOLEAN, refused : BOOLEAN]
Mutation == [kind : DialogKind, entry : Folder \cup {None}, vault : Vault,
             recursive : BOOLEAN, mount : 1..mounts, refresh : Vault \X (Folder \cup {Root})]

Shape ==
  /\ vault \in Vault \cup {None} /\ folder \in Folder \cup {Root} /\ trail \in Seq(Folder)
  /\ entries \in [at : Place, ids : SUBSET Folder]
  /\ loading \in BOOLEAN /\ error \in BOOLEAN
  /\ selected \in Folder \cup {None}
  /\ seq \in 0..MaxLoads + 1 /\ requests \subseteq Request
  /\ naming \in {"closed", "open", "busy"}
  /\ mounts \in Nat
  /\ dialog # NoDialog => dialog \in Dialog
  /\ mutations \subseteq Mutation
  /\ refusals \subseteq Folder

(* The path t is one of the vault v, and ends at f. *)
LeadsTo(v, f, t) ==
  /\ f = IF t = << >> THEN Root ELSE Last(t)
  /\ \A i \in DOMAIN t : t[i] \in Kids(v, IF i = 1 THEN Root ELSE t[i - 1])

(* The newest request is for the folder the path says. *)
NewestIsHere == \A r \in requests : r.my = seq => r.at = <<vault, folder>>
RowsBelong == \A x \in entries.ids : entries.at = <<VaultOf[x], Up[x]>>
SelectionBelongs == selected # None => VaultOf[selected] = vault

(* What is open was opened on the vault shown, and no two dialogs are. *)
DialogBelongs ==
  dialog # NoDialog =>
    /\ vault # None /\ naming = "closed"
    /\ dialog.kind = "new-folder" <=> dialog.entry = None
    /\ dialog.entry # None => VaultOf[dialog.entry] = vault
    /\ dialog.refused => dialog.entry \in refusals

(* The one call in flight is that of the dialog open. *)
CallBelongs ==
  \A m \in mutations :
    /\ mutations = {m}
    /\ dialog # NoDialog /\ dialog.busy /\ dialog.mount = m.mount
    /\ m.kind = dialog.kind /\ m.entry = dialog.entry
    /\ m.vault = vault /\ m.refresh = <<vault, folder>>
    /\ m.recursive => dialog.refused

(* The inductive invariant. *)
IInv ==
  /\ Shape
  /\ NewestIsHere /\ ListingIsCurrent /\ RowsBelong
  /\ LeadsTo(vault, folder, trail)
  /\ SelectionBelongs /\ DialogBelongs /\ CallBelongs

-----------------------------------------------------------------------------
(* Paths. *)

LEMMA TheRootLeads ==
  ASSUME NEW v PROVE LeadsTo(v, Root, << >>)
BY DEF LeadsTo

(* What the path is before its i-th segment is a path to that segment. *)
LEMMA PrefixLeads ==
  ASSUME NEW v, NEW f, NEW t \in Seq(Folder), LeadsTo(v, f, t), NEW i \in 1..Len(t)
  PROVE  SubSeq(t, 1, i) \in Seq(Folder) /\ SubSeq(t, 1, i) # << >> /\ LeadsTo(v, t[i], SubSeq(t, 1, i))
<1> DEFINE s == SubSeq(t, 1, i)
<1>1. s \in Seq(Folder) /\ Len(s) = i /\ \A j \in 1..i : s[j] = t[j]
  BY SubSeqProperties
<1>2. DOMAIN s = 1..i /\ s # << >> /\ Last(s) = t[i]
  BY <1>1, LenProperties DEF Last
<1> HIDE DEF s
<1>3. ASSUME NEW j \in DOMAIN s
      PROVE  s[j] \in Kids(v, IF j = 1 THEN Root ELSE s[j - 1])
  <2>1. j \in 1..i /\ j \in DOMAIN t /\ s[j] = t[j]
    BY <1>1, <1>2, LenProperties
  <2>2. t[j] \in Kids(v, IF j = 1 THEN Root ELSE t[j - 1])
    BY <2>1 DEF LeadsTo
  <2>3. j # 1 => j - 1 \in 1..i
    BY <2>1
  <2> QED
    BY <1>1, <2>1, <2>2, <2>3
<1> QED
  BY <1>1, <1>2, <1>3 DEF LeadsTo, s

LEMMA LongerLeads ==
  ASSUME NEW v, NEW f, NEW t \in Seq(Folder), LeadsTo(v, f, t), NEW x \in Kids(v, f)
  PROVE  Append(t, x) \in Seq(Folder) /\ LeadsTo(v, x, Append(t, x))
<1> DEFINE s == Append(t, x)
<1>0. x \in Folder
  BY DEF Kids
<1>1. s \in Seq(Folder) /\ s # << >> /\ Len(s) = Len(t) + 1 /\ s[Len(t) + 1] = x
  BY <1>0, AppendProperties
<1>2. \A j \in 1..Len(t) : s[j] = t[j]
  BY <1>0, AppendProperties
<1>3. Last(s) = x
  BY <1>1 DEF Last
<1> HIDE DEF s
<1>4. ASSUME NEW j \in DOMAIN s
      PROVE  s[j] \in Kids(v, IF j = 1 THEN Root ELSE s[j - 1])
  <2>1. j \in 1..Len(t) + 1 /\ Len(t) \in Nat
    BY <1>1, LenProperties
  <2>2. CASE j \in 1..Len(t)
    <3>1. t[j] \in Kids(v, IF j = 1 THEN Root ELSE t[j - 1])
      BY <2>2, LenProperties DEF LeadsTo
    <3>2. s[j] = t[j] /\ (j # 1 => s[j - 1] = t[j - 1])
      BY <2>1, <2>2, <1>2
    <3> QED
      BY <3>1, <3>2
  <2>3. CASE j = Len(t) + 1
    <3>1. CASE t = << >>
      BY <2>3, <3>1, <1>1, EmptySeq DEF LeadsTo
    <3>2. CASE t # << >>
      <4>1. Len(t) >= 1
        BY <3>2, EmptySeq
      <4>2. s[j - 1] = Last(t)
        BY <4>1, <2>1, <2>3, <1>2 DEF Last
      <4> QED
        BY <4>1, <4>2, <2>1, <2>3, <3>2, <1>1 DEF LeadsTo
    <3> QED
      BY <3>1, <3>2
  <2> QED
    BY <2>1, <2>2, <2>3
<1> QED
  BY <1>1, <1>3, <1>4 DEF LeadsTo, s

(* A folder of the path has a first place in it. *)
LEMMA FirstPlace ==
  ASSUME NEW t \in Seq(Folder), NEW f \in Range(t)
  PROVE  \E i \in DOMAIN t : t[i] = f /\ \A j \in 1..i - 1 : t[j] # f
<1> DEFINE P == {i \in DOMAIN t : t[i] = f}
<1>1. P # {} /\ P \subseteq Nat
  BY LenProperties DEF Range
<1>2. PICK i \in P : \A j \in P : <<j, i>> \notin OpToRel(<, Nat)
  BY <1>1, WFMin, NatLessThanWellFounded
<1>3. ASSUME NEW j \in 1..i - 1 PROVE t[j] # f
  <2>1. j \in DOMAIN t /\ j \in Nat /\ i \in Nat /\ j < i
    BY <1>1, LenProperties
  <2>2. <<j, i>> \in OpToRel(<, Nat)
    BY <2>1 DEF OpToRel
  <2> QED
    BY <1>2, <2>1, <2>2
<1> QED
  BY <1>2, <1>3

-----------------------------------------------------------------------------
LEMMA StartsRight == ASSUME Init PROVE IInv
<1> USE DEF Init
<1>1. Shape
  <2>1. << >> \in Seq(Folder)
    BY EmptySeq
  <2>2. requests \subseteq Request
    BY TreeAssumption DEF Request
  <2> QED
    <3>1. entries \in [at : Place, ids : SUBSET Folder]
      BY DEF Place
    <3>2. seq \in 0..MaxLoads + 1
      BY BoundAssumption
    <3>4. mounts \in Nat /\ loading \in BOOLEAN /\ error \in BOOLEAN
      OBVIOUS
    <3>3. mutations \subseteq Mutation /\ refusals \subseteq Folder /\ naming \in {"closed", "open", "busy"}
      OBVIOUS
    <3> QED
      BY <2>1, <2>2, <3>1, <3>2, <3>3, <3>4 DEF Shape
<1>2. NewestIsHere
  BY DEF NewestIsHere
<1>5. ListingIsCurrent
  BY DEF ListingIsCurrent, TableShown
<1>6. RowsBelong
  BY DEF RowsBelong
<1>3. LeadsTo(vault, folder, trail)
  BY TheRootLeads
<1>4. SelectionBelongs /\ DialogBelongs /\ CallBelongs
  BY DEF SelectionBelongs, DialogBelongs, CallBelongs
<1> QED
  BY <1>1, <1>2, <1>3, <1>4, <1>5, <1>6 DEF IInv

(* A new request is the newest, and none of those before it is. *)
LEMMA Requested ==
  ASSUME IInv, NEW v \in Vault, NEW f \in Folder \cup {Root}, Load(v, f),
         vault' = v, folder' = f
  PROVE  /\ seq' \in 0..MaxLoads + 1 /\ requests' \subseteq Request'
         /\ NewestIsHere' /\ ListingIsCurrent' /\ RowsBelong'
<1> USE DEF IInv, Shape, Load
<1>1. seq' \in 0..MaxLoads + 1 /\ seq' = seq + 1
  BY BoundAssumption
<1>2. requests' \subseteq Request'
  BY <1>1, BoundAssumption DEF Request
<1>3. NewestIsHere'
  <2>1. ASSUME NEW r \in requests', r.my = seq' PROVE r.at = <<v, f>>
    <3>1. r \notin requests
      BY <2>1, <1>1, BoundAssumption DEF Request
    <3> QED
      BY <3>1
  <2> QED
    BY <2>1 DEF NewestIsHere
<1>4. ListingIsCurrent' /\ RowsBelong'
  BY DEF ListingIsCurrent, TableShown, RowsBelong
<1> QED
  BY <1>1, <1>2, <1>3, <1>4

(* A step to another place, with no dialog open before or after. *)
LEMMA Navigated ==
  ASSUME IInv, NEW v \in Vault, NEW f \in Folder \cup {Root},
         NEW t \in Seq(Folder), NEW s \in Folder \cup {None},
         vault' = v, folder' = f, trail' = t, selected' = s, Load(v, f),
         LeadsTo(v, f, t), s # None => VaultOf[s] = v,
         dialog = NoDialog, DialogsStay, naming' \in {"closed", "open", "busy"}
  PROVE  IInv'
<1>1. /\ seq' \in 0..MaxLoads + 1 /\ requests' \subseteq Request'
      /\ NewestIsHere' /\ ListingIsCurrent' /\ RowsBelong'
  BY Requested
<1>2. Shape'
  BY <1>1 DEF IInv, Shape, Load, DialogsStay, Mutation
<1>3. SelectionBelongs' /\ DialogBelongs' /\ CallBelongs'
  BY DEF IInv, SelectionBelongs, DialogBelongs, CallBelongs, DialogsStay
<1> QED
  BY <1>1, <1>2, <1>3 DEF IInv

(* A step that leaves the view alone. *)
LEMMA ViewStays ==
  ASSUME IInv, UNCHANGED view
  PROVE  NewestIsHere' /\ ListingIsCurrent' /\ RowsBelong' /\ LeadsTo(vault, folder, trail)' /\ SelectionBelongs'
BY DEF IInv, view, NewestIsHere, ListingIsCurrent, RowsBelong, TableShown, SelectionBelongs, LeadsTo

LEMMA Pointed == ASSUME ~Keyboard, Reachable PROVE Clickable
BY DEF Reachable

LEMMA VaultStep ==
  ASSUME ~Keyboard, IInv, NEW v \in Vault, SelectVault(v) \/ VaultCreated(v)
  PROVE  IInv'
<1>1. dialog = NoDialog /\ naming' \in {"closed", "open", "busy"} /\ DialogsStay /\ VaultChanged(v)
  BY Pointed DEF SelectVault, VaultCreated, Clickable, Stay, IInv, Shape, DialogBelongs
<1>2. << >> \in Seq(Folder)
  BY EmptySeq
<1> QED
  BY <1>1, <1>2, Navigated, TheRootLeads DEF VaultChanged

LEMMA NamingStep ==
  ASSUME ~Keyboard, IInv, NameVault \/ EndNaming \/ VaultRefused
  PROVE  IInv'
<1>1. dialog = NoDialog /\ naming' \in {"closed", "open", "busy"} /\ DialogsStay /\ UNCHANGED view
  BY Pointed DEF NameVault, EndNaming, VaultRefused, Clickable, IInv, Shape, DialogBelongs
<1>2. Shape' /\ DialogBelongs' /\ CallBelongs'
  BY <1>1 DEF IInv, Shape, DialogBelongs, CallBelongs, DialogsStay, view, Request, Mutation
<1> QED
  BY <1>1, <1>2, ViewStays DEF IInv

(* A row that can be clicked is of a folder inside the one shown. *)
LEMMA RowIsInside ==
  ASSUME IInv, TableShown, NEW x \in entries.ids
  PROVE  x \in Folder /\ x \in Kids(vault, folder) /\ VaultOf[x] = vault
<1>1. x \in Folder /\ <<VaultOf[x], Up[x]>> = <<vault, folder>>
  BY DEF IInv, Shape, ListingIsCurrent, RowsBelong
<1> QED
  BY <1>1 DEF Kids

LEMMA OpenStep ==
  ASSUME ~Keyboard, IInv, NEW f \in Folder, OpenByName(f) \/ OpenByRow(f)
  PROVE  IInv'
<1> DEFINE t == Append(trail, f)
<1>1. PICK s \in {None, f} : GoTo(f, t, s)
  BY DEF OpenByName, OpenByRow
<1>2. Clickable /\ TableShown /\ f \in entries.ids
  BY Pointed DEF OpenByName, OpenByRow
<1>3. f \in Kids(vault, folder) /\ VaultOf[f] = vault /\ vault \in Vault
  BY <1>2, RowIsInside DEF TableShown, IInv, Shape
<1>4. t \in Seq(Folder) /\ LeadsTo(vault, f, t)
  BY <1>3, LongerLeads DEF IInv, Shape
<1> QED
  BY <1>1, <1>2, <1>3, <1>4, Navigated DEF GoTo, Stay, Clickable, IInv, Shape

(* Going to another place of the same vault, with nothing selected. *)
LEMMA GoToStep ==
  ASSUME ~Keyboard, IInv, Reachable, vault # None, NEW f \in Folder \cup {Root}, NEW t \in Seq(Folder),
         LeadsTo(vault, f, t), GoTo(f, t, None)
  PROVE  IInv'
<1>1. Clickable /\ vault \in Vault
  BY Pointed DEF IInv, Shape
<1> QED
  BY <1>1, Navigated DEF GoTo, Stay, Clickable, IInv, Shape

LEMMA BreadcrumbStep ==
  ASSUME ~Keyboard, IInv, NEW f \in Folder \cup {Root}, Breadcrumb(f)
  PROVE  IInv'
<1>0. trail \in Seq(Folder) /\ LeadsTo(vault, folder, trail)
  BY DEF IInv, Shape
<1>1. CASE f = Root
  <2>1. GoTo(Root, << >>, None) /\ Reachable /\ vault # None
    BY <1>1 DEF Breadcrumb
  <2>2. << >> \in Seq(Folder)
    BY EmptySeq
  <2> QED
    BY <2>1, <2>2, GoToStep, TheRootLeads
<1>2. CASE f # Root
  <2> DEFINE First(i) == trail[i] = f /\ \A j \in 1..i - 1 : trail[j] # f
             n == CHOOSE i \in DOMAIN trail : First(i)
             t == SubSeq(trail, 1, n)
  <2>1. GoTo(f, t, None) /\ Reachable /\ vault # None /\ f \in Range(trail)
    BY <1>2 DEF Breadcrumb
  <2>2. \E i \in DOMAIN trail : First(i)
    BY <1>0, <2>1, FirstPlace
  <2>3. n \in DOMAIN trail /\ trail[n] = f
    BY <2>2
  <2>4. n \in 1..Len(trail)
    <3>1. DOMAIN trail = 1..Len(trail)
      BY <1>0, LenProperties
    <3> HIDE DEF n
    <3> QED
      BY <2>3, <3>1
  <2>5. t \in Seq(Folder) /\ LeadsTo(vault, f, t)
    BY <2>3, <2>4, <1>0, PrefixLeads
  <2> QED
    BY <2>1, <2>5, GoToStep
<1> QED
  BY <1>1, <1>2

LEMMA BackStep ==
  ASSUME ~Keyboard, IInv, GoBack
  PROVE  IInv'
<1> DEFINE t == Front(trail)
<1>0. trail \in Seq(Folder) /\ LeadsTo(vault, folder, trail) /\ trail # << >> /\ Reachable /\ vault # None
  BY DEF IInv, Shape, GoBack
<1>1. Len(trail) \in Nat \ {0}
  BY <1>0, EmptySeq
<1>2. CASE Len(trail) = 1
  <2>1. t = << >>
    BY <1>0, <1>2, SubSeqEmpty DEF Front
  <2>2. GoTo(Root, << >>, None) /\ << >> \in Seq(Folder)
    BY <2>1, EmptySeq DEF GoBack
  <2> QED
    BY <2>2, <1>0, GoToStep, TheRootLeads
<1>3. CASE Len(trail) # 1
  <2> DEFINE n == Len(trail) - 1
  <2>0. PICK k \in Nat \ {0} : k = Len(trail)
    BY <1>1
  <2>1. n \in 1..Len(trail)
    BY <2>0, <1>3
  <2>2. t \in Seq(Folder) /\ t # << >> /\ LeadsTo(vault, trail[n], t) /\ trail[n] \in Folder
    BY <2>1, <1>0, PrefixLeads, ElementOfSeq DEF Front
  <2>3. Last(t) = trail[n]
    BY <2>2 DEF LeadsTo
  <2>4. GoTo(trail[n], t, None)
    BY <2>2, <2>3 DEF GoBack
  <2> QED
    BY <2>2, <2>4, <1>0, GoToStep
<1> QED
  BY <1>2, <1>3

LEMMA RetryStep ==
  ASSUME ~Keyboard, IInv, Retry
  PROVE  IInv'
BY GoToStep DEF Retry, IInv, Shape

LEMMA SelectStep ==
  ASSUME ~Keyboard, IInv, NEW f \in Folder, SelectRow(f)
  PROVE  IInv'
<1>1. VaultOf[f] = vault /\ TableShown
  BY RowIsInside DEF SelectRow
<1>2. Shape'
  BY DEF SelectRow, Stay, DialogsStay, IInv, Shape, Request, Dialog, Mutation
<1>4. SelectionBelongs' /\ DialogBelongs' /\ CallBelongs'
  BY <1>1 DEF SelectRow, Stay, DialogsStay, IInv, SelectionBelongs, DialogBelongs, CallBelongs
<1>3. NewestIsHere' /\ ListingIsCurrent' /\ RowsBelong' /\ LeadsTo(vault, folder, trail)'
  BY DEF SelectRow, IInv, NewestIsHere, ListingIsCurrent, RowsBelong, TableShown, LeadsTo
<1> QED
  BY <1>2, <1>3, <1>4 DEF IInv

LEMMA ListedStep ==
  ASSUME IInv, NEW r \in requests, Listed(r)
  PROVE  IInv'
<1> USE DEF Listed, Stay, DialogsStay, IInv
<1>0. r.at \in Vault \X (Folder \cup {Root}) /\ Kids(r.at[1], r.at[2]) \subseteq Folder
  BY DEF Shape, Request, Kids
<1>1. entries' = entries \/ (entries' = [at |-> r.at, ids |-> Kids(r.at[1], r.at[2])] /\ r.my = seq)
  OBVIOUS
<1>2. entries' \in [at : Place, ids : SUBSET Folder]
  BY <1>0, <1>1 DEF Shape, Place
<1>3. Shape'
  BY <1>2 DEF Shape, Request, Dialog, Mutation
<1>4. NewestIsHere' /\ LeadsTo(vault, folder, trail)'
  BY DEF NewestIsHere, LeadsTo
<1>5. ListingIsCurrent'
  BY <1>1 DEF ListingIsCurrent, TableShown, NewestIsHere, Shape
<1>6. RowsBelong'
  BY <1>0, <1>1 DEF RowsBelong, Kids
<1>7. SelectionBelongs' /\ DialogBelongs' /\ CallBelongs'
  BY DEF SelectionBelongs, DialogBelongs, CallBelongs
<1> QED
  BY <1>3, <1>4, <1>5, <1>6, <1>7

LEMMA DialogStep ==
  ASSUME ~Keyboard, IInv, NEW kind \in DialogKind, OpenDialog(kind)
  PROVE  IInv'
<1> DEFINE entry == IF kind = "new-folder" THEN None ELSE selectedEntry
<1>1. dialog = NoDialog /\ naming = "closed" /\ vault # None /\ mutations = {}
  BY Pointed DEF OpenDialog, Clickable, IInv, CallBelongs
<1>2. dialog.kind # kind
  BY <1>1, KindAssumption DEF NoDialog
<1>3. /\ mounts' = mounts + 1
      /\ dialog' = [kind |-> kind, entry |-> entry, mount |-> mounts + 1, busy |-> FALSE, refused |-> FALSE]
      /\ UNCHANGED <<view, naming, mutations, refusals>>
  BY <1>2 DEF OpenDialog
<1>4. /\ entry \in Folder \cup {None} /\ (kind = "new-folder" <=> entry = None)
      /\ entry # None => VaultOf[entry] = vault
  BY TreeAssumption DEF OpenDialog, selectedEntry, IInv, Shape, SelectionBelongs
<1> HIDE DEF entry
<1>5. Shape'
  <2>1. mounts' \in Nat /\ mounts + 1 \in 1..mounts'
    BY <1>3 DEF IInv, Shape
  <2>2. dialog' \in Dialog'
    BY <2>1, <1>3, <1>4 DEF Dialog
  <2> QED
    BY <1>1, <1>3, <2>1, <2>2 DEF IInv, Shape, view, Request
<1>6. DialogBelongs' /\ CallBelongs'
  BY <1>1, <1>3, <1>4 DEF DialogBelongs, CallBelongs, view
<1> QED
  BY <1>3, <1>5, <1>6, ViewStays DEF IInv

LEMMA CloseStep ==
  ASSUME IInv, CloseDialog
  PROVE  IInv'
<1>1. UNCHANGED <<view, naming, mounts, mutations, refusals>> /\ dialog' = NoDialog /\ mutations = {}
  BY DEF CloseDialog, IInv, CallBelongs
<1>2. Shape' /\ DialogBelongs' /\ CallBelongs'
  BY <1>1 DEF IInv, Shape, view, Request, Mutation, DialogBelongs, CallBelongs
<1> QED
  BY <1>1, <1>2, ViewStays DEF IInv

LEMMA SendStep ==
  ASSUME IInv, NEW kinds \in SUBSET DialogKind, NEW recursive \in BOOLEAN,
         Send(kinds, recursive), recursive => dialog.refused
  PROVE  IInv'
<1> DEFINE m == [kind |-> dialog.kind, entry |-> dialog.entry, vault |-> vault,
                 recursive |-> recursive, mount |-> dialog.mount, refresh |-> <<vault, folder>>]
<1>1. /\ dialog # NoDialog /\ dialog \in Dialog /\ ~dialog.busy /\ mutations = {}
      /\ dialog' = [dialog EXCEPT !.busy = TRUE] /\ mutations' = {m}
      /\ UNCHANGED <<view, naming, mounts, refusals>>
  BY KindAssumption DEF Send, NoDialog, IInv, Shape, CallBelongs
<1>2. dialog' \in Dialog /\ dialog' # NoDialog /\ dialog'.busy
      /\ \A i \in {"kind", "entry", "mount", "refused"} : dialog'[i] = dialog[i]
  <2>1. dialog'.kind \in DialogKind /\ dialog' \in Dialog
    BY <1>1 DEF Dialog
  <2> QED
    BY <1>1, <2>1, KindAssumption DEF Dialog, NoDialog
<1>3. m \in Mutation
  BY <1>1 DEF Mutation, Dialog, IInv, Shape, DialogBelongs
<1>4. Shape'
  BY <1>1, <1>2, <1>3 DEF IInv, Shape, view, Request, Dialog, Mutation
<1>5. DialogBelongs'
  BY <1>1, <1>2 DEF IInv, DialogBelongs, view
<1>6. CallBelongs'
  BY <1>1, <1>2 DEF CallBelongs, view
<1> QED
  BY <1>1, <1>4, <1>5, <1>6, ViewStays DEF IInv

LEMMA ConfirmStep ==
  ASSUME IInv, SubmitNewFolder \/ SubmitRename \/ ConfirmMove \/ ConfirmDelete
  PROVE  IInv'
<1>1. CASE SubmitNewFolder \/ SubmitRename \/ ConfirmMove
  BY <1>1, SendStep DEF SubmitNewFolder, SubmitRename, ConfirmMove, DialogKind
<1>2. CASE ConfirmDelete
  <2>1. dialog # NoDialog
    BY <1>2, KindAssumption DEF ConfirmDelete, Send, NoDialog, DialogKind
  <2>2. dialog.refused \in BOOLEAN
    BY <2>1 DEF IInv, Shape, Dialog
  <2> QED
    BY <1>2, <2>2, SendStep DEF ConfirmDelete, DialogKind
<1> QED
  BY <1>1, <1>2

LEMMA SucceededStep ==
  ASSUME IInv, NEW m \in mutations, Succeeded(m)
  PROVE  IInv'
<1>1. /\ vault \in Vault /\ folder \in Folder \cup {Root} /\ m.refresh = <<vault, folder>>
      /\ mutations = {m} /\ dialog # NoDialog /\ naming = "closed"
  BY DEF IInv, Shape, CallBelongs, DialogBelongs
<1>2. mutations' = {} /\ Load(vault, folder)
  BY <1>1 DEF Succeeded
<1>3. /\ seq' \in 0..MaxLoads + 1 /\ requests' \subseteq Request'
      /\ NewestIsHere' /\ ListingIsCurrent' /\ RowsBelong'
  BY <1>1, <1>2, Requested DEF Succeeded
<1>4. Shape'
  BY <1>2, <1>3 DEF Succeeded, Load, IInv, Shape
<1>5. LeadsTo(vault, folder, trail)' /\ SelectionBelongs' /\ DialogBelongs' /\ CallBelongs'
  BY <1>2 DEF Succeeded, IInv, LeadsTo, SelectionBelongs, DialogBelongs, CallBelongs
<1> QED
  BY <1>3, <1>4, <1>5 DEF IInv

LEMMA FailedStep ==
  ASSUME IInv, NEW m \in mutations, Failed(m)
  PROVE  IInv'
<1>1. PICK nonEmpty \in BOOLEAN :
        /\ nonEmpty => m.kind = "delete" /\ ~m.recursive
        /\ refusals' = IF nonEmpty THEN refusals \cup {m.entry} ELSE refusals
        /\ dialog' = IF dialog = NoDialog \/ dialog.mount # m.mount THEN dialog
                     ELSE [dialog EXCEPT !.busy = FALSE, !.refused = @ \/ nonEmpty]
  BY DEF Failed
<1>2. /\ mutations = {m} /\ dialog # NoDialog /\ dialog \in Dialog /\ dialog.mount = m.mount
      /\ m.kind = dialog.kind /\ m.entry = dialog.entry
  BY DEF IInv, Shape, CallBelongs
<1>3. mutations' = {} /\ UNCHANGED <<view, naming, mounts>>
  BY <1>2 DEF Failed
<1>4. dialog' = [dialog EXCEPT !.busy = FALSE, !.refused = dialog.refused \/ nonEmpty]
  BY <1>1, <1>2
<1>5. /\ dialog' \in Dialog /\ dialog' # NoDialog
      /\ \A i \in {"kind", "entry", "mount"} : dialog'[i] = dialog[i]
      /\ dialog'.refused = (dialog.refused \/ nonEmpty)
  <2>1. dialog'.kind \in DialogKind /\ dialog' \in Dialog
    BY <1>2, <1>4 DEF Dialog
  <2> QED
    BY <1>2, <1>4, <2>1, KindAssumption DEF Dialog, NoDialog
<1>6. refusals' \subseteq Folder
  BY <1>1, <1>2, <1>3, TreeAssumption DEF IInv, Shape, Dialog, DialogBelongs
<1>7. Shape'
  BY <1>3, <1>5, <1>6 DEF IInv, Shape, view, Request, Dialog
<1>8. DialogBelongs'
  BY <1>1, <1>2, <1>3, <1>5 DEF IInv, DialogBelongs, view
<1>9. CallBelongs'
  BY <1>3 DEF CallBelongs
<1> QED
  BY <1>3, <1>7, <1>8, <1>9, ViewStays DEF IInv

LEMMA StutterStep == ASSUME IInv, UNCHANGED vars PROVE IInv'
<1>1. Shape' /\ DialogBelongs' /\ CallBelongs'
  BY DEF vars, view, IInv, Shape, Request, Dialog, Mutation, DialogBelongs, CallBelongs
<1> QED
  BY <1>1, ViewStays DEF IInv, vars

LEMMA Inductive == ASSUME ~Keyboard, IInv, [Next]_vars PROVE IInv'
<1>1. CASE \E v \in Vault : SelectVault(v) \/ VaultCreated(v)
  BY <1>1, VaultStep
<1>2. CASE NameVault \/ EndNaming \/ VaultRefused
  BY <1>2, NamingStep
<1>3. CASE \E f \in Folder : OpenByName(f) \/ OpenByRow(f) \/ SelectRow(f)
  BY <1>3, OpenStep, SelectStep
<1>4. CASE (\E f \in Folder \cup {Root} : Breadcrumb(f)) \/ GoBack \/ Retry
  BY <1>4, BreadcrumbStep, BackStep, RetryStep
<1>5. CASE \E r \in requests : Listed(r)
  BY <1>5, ListedStep
<1>6. CASE \E kind \in DialogKind : OpenDialog(kind)
  BY <1>6, DialogStep
<1>7. CASE CloseDialog \/ SubmitNewFolder \/ SubmitRename \/ ConfirmMove \/ ConfirmDelete
  BY <1>7, CloseStep, ConfirmStep
<1>8. CASE \E m \in mutations : Succeeded(m) \/ Failed(m)
  BY <1>8, SucceededStep, FailedStep
<1>9. CASE UNCHANGED vars
  BY <1>9, StutterStep
<1> QED
  BY <1>1, <1>2, <1>3, <1>4, <1>5, <1>6, <1>7, <1>8, <1>9 DEF Next

-----------------------------------------------------------------------------
(* What holds whatever is used, the controls behind a dialog included:     *)
(* listing requests are told apart by their numbers, dialogs by theirs.    *)

Numbered ==
  /\ \A q, r \in requests : q.my = r.my => q = r
  /\ loading <=> \E r \in requests : r.my = seq

(* An open dialog, like a call, is for an entry iff it is not about a new one. *)
AboutEntries ==
  /\ dialog # NoDialog => vault # None /\ (dialog.kind = "new-folder" <=> dialog.entry = None)
  /\ \A m \in mutations : m.kind = "new-folder" <=> m.entry = None

(* The inductive invariant of every use. *)
AnyUse == Shape /\ Numbered /\ AboutEntries /\ OneCallPerDialog

LEMMA AnyUseStarts == ASSUME Init PROVE AnyUse
<1>1. Shape
  BY StartsRight DEF IInv
<1>2. Numbered
  <2>1. \A q, r \in requests : q = r
    BY DEF Init
  <2>2. loading <=> \E r \in requests : r.my = seq
    BY DEF Init
  <2> QED
    BY <2>1, <2>2 DEF Numbered
<1>3. AboutEntries /\ OneCallPerDialog
  BY DEF Init, AboutEntries, OneCallPerDialog
<1> QED
  BY <1>1, <1>2, <1>3 DEF AnyUse

(* A new request has a number of its own, and is the one awaited. *)
LEMMA NumberedAnew ==
  ASSUME AnyUse, NEW v \in Vault, NEW f \in Folder \cup {Root}, Load(v, f)
  PROVE  /\ seq' \in 0..MaxLoads + 1 /\ requests' \subseteq Request'
         /\ entries' = entries /\ loading' /\ loading' \in BOOLEAN /\ error' \in BOOLEAN
         /\ Numbered'
         /\ \A r \in requests' : r.my = seq' <=> r = [my |-> seq', at |-> <<v, f>>]
         /\ [my |-> seq', at |-> <<v, f>>] \in requests'
<1> DEFINE new == [my |-> seq + 1, at |-> <<v, f>>]
<1>1. seq' \in 0..MaxLoads + 1 /\ seq' = seq + 1 /\ seq \in Nat
  BY BoundAssumption DEF AnyUse, Shape, Load
<1>2. requests' = requests \cup {new} /\ \A r \in requests : r.my \in 1..seq /\ r \in Request
  BY DEF Load, AnyUse, Shape, Request
<1>3. requests' \subseteq Request'
  <2>1. new \in Request'
    BY <1>1 DEF Request
  <2>2. \A r \in requests : r \in Request'
    BY <1>1, <1>2 DEF Request
  <2> QED
    BY <1>2, <2>1, <2>2
<1>4. new.my = seq' /\ \A r \in requests : r.my # seq'
  BY <1>1, <1>2
<1>5. Numbered'
  <2>1. \A q, r \in requests' : q.my = r.my => q = r
    BY <1>1, <1>2, <1>4 DEF AnyUse, Numbered
  <2>2. loading' /\ new \in requests'
    BY <1>2 DEF Load
  <2> QED
    BY <2>1, <2>2, <1>4 DEF Numbered
<1> QED
  BY <1>1, <1>2, <1>3, <1>4, <1>5 DEF Load

LEMMA CallsStay ==
  ASSUME AnyUse, DialogsStay, vault # None => vault' # None
  PROVE  AboutEntries' /\ OneCallPerDialog' /\ mounts' = mounts
         /\ (dialog # NoDialog => dialog \in Dialog)' /\ mutations' \subseteq Mutation' /\ refusals' \subseteq Folder
BY DEF AnyUse, Shape, DialogsStay, AboutEntries, OneCallPerDialog, Dialog, Mutation

(* A step to another place, whatever dialog is open. *)
LEMMA AnyMove ==
  ASSUME AnyUse, NEW v \in Vault, NEW f \in Folder \cup {Root},
         NEW t \in Seq(Folder), NEW s \in Folder \cup {None},
         vault' = v, folder' = f, trail' = t, selected' = s, Load(v, f),
         DialogsStay, naming' \in {"closed", "open", "busy"}
  PROVE  AnyUse'
<1>1. v # None
  BY TreeAssumption
<1>2. /\ seq' \in 0..MaxLoads + 1 /\ requests' \subseteq Request' /\ Numbered'
      /\ entries' = entries /\ loading' \in BOOLEAN /\ error' \in BOOLEAN
  BY NumberedAnew
<1>3. /\ AboutEntries' /\ OneCallPerDialog' /\ mounts' = mounts
      /\ (dialog # NoDialog => dialog \in Dialog)' /\ mutations' \subseteq Mutation' /\ refusals' \subseteq Folder
  BY <1>1, CallsStay
<1>4. Shape'
  BY <1>2, <1>3 DEF AnyUse, Shape
<1> QED
  BY <1>2, <1>3, <1>4 DEF AnyUse

(* A step of the dialogs that leaves the view alone. *)
LEMMA AnyViewStays ==
  ASSUME AnyUse, UNCHANGED view
  PROVE  /\ Numbered'
         /\ /\ vault' \in Vault \cup {None} /\ folder' \in Folder \cup {Root} /\ trail' \in Seq(Folder)
            /\ entries' \in [at : Place, ids : SUBSET Folder]
            /\ loading' \in BOOLEAN /\ error' \in BOOLEAN
            /\ selected' \in Folder \cup {None}
            /\ seq' \in 0..MaxLoads + 1 /\ requests' \subseteq Request'
BY DEF AnyUse, view, Shape, Numbered, Request

(* The places the user goes to are folders, reached by a path of folders. *)
LEMMA PlacesAreFolders ==
  ASSUME AnyUse,
         \/ \E w \in Vault : SelectVault(w) \/ VaultCreated(w)
         \/ \E x \in Folder : OpenByName(x) \/ OpenByRow(x)
         \/ \E x \in Folder \cup {Root} : Breadcrumb(x)
         \/ GoBack \/ Retry
  PROVE  \E v \in Vault, f \in Folder \cup {Root}, t \in Seq(Folder), s \in Folder \cup {None} :
           /\ vault' = v /\ folder' = f /\ trail' = t /\ selected' = s /\ Load(v, f)
           /\ DialogsStay /\ naming' \in {"closed", "open", "busy"}
<1>0. trail \in Seq(Folder) /\ << >> \in Seq(Folder)
  BY EmptySeq DEF AnyUse, Shape
<1>1. CASE \E w \in Vault : SelectVault(w) \/ VaultCreated(w)
  BY <1>1, <1>0 DEF SelectVault, VaultCreated, VaultChanged, Stay, AnyUse, Shape
<1>2. ASSUME NEW f \in Folder \cup {Root}, NEW t \in Seq(Folder), NEW s \in Folder \cup {None},
             vault # None, GoTo(f, t, s)
      PROVE  \E v \in Vault, g \in Folder \cup {Root}, u \in Seq(Folder), e \in Folder \cup {None} :
               /\ vault' = v /\ folder' = g /\ trail' = u /\ selected' = e /\ Load(v, g)
               /\ DialogsStay /\ naming' \in {"closed", "open", "busy"}
  BY <1>2 DEF GoTo, Stay, AnyUse, Shape
<1>3. CASE \E x \in Folder : OpenByName(x) \/ OpenByRow(x)
  <2>1. PICK x \in Folder : OpenByName(x) \/ OpenByRow(x)
    BY <1>3
  <2>2. Append(trail, x) \in Seq(Folder) /\ vault # None
    BY <2>1, <1>0, AppendProperties DEF OpenByName, OpenByRow, TableShown
  <2>3. PICK s \in {None, x} : GoTo(x, Append(trail, x), s)
    BY <2>1 DEF OpenByName, OpenByRow
  <2> QED
    BY <1>2, <2>2, <2>3
<1>4. CASE \E x \in Folder \cup {Root} : Breadcrumb(x)
  <2>1. PICK x \in Folder \cup {Root} : Breadcrumb(x)
    BY <1>4
  <2>2. CASE x = Root
    BY <2>1, <2>2, <1>0, <1>2 DEF Breadcrumb
  <2>3. CASE x # Root
    <3> DEFINE First(i) == trail[i] = x /\ \A j \in 1..i - 1 : trail[j] # x
               n == CHOOSE i \in DOMAIN trail : First(i)
               t == SubSeq(trail, 1, n)
    <3>1. GoTo(x, t, None) /\ vault # None /\ x \in Range(trail)
      BY <2>1, <2>3 DEF Breadcrumb
    <3>2. n \in DOMAIN trail
      BY <1>0, <3>1, FirstPlace
    <3>3. n \in 1..Len(trail)
      <4>1. DOMAIN trail = 1..Len(trail)
        BY <1>0, LenProperties
      <4> HIDE DEF n
      <4> QED
        BY <3>2, <4>1
    <3> HIDE DEF n
    <3>4. t \in Seq(Folder)
      <4>1. n \in Int /\ \A i \in 1..n : trail[i] \in Folder
        BY <1>0, <3>3, LenProperties, ElementOfSeq
      <4> QED
        BY <4>1, SubSeqProperties
    <3> QED
      BY <1>2, <3>1, <3>4
  <2> QED
    BY <2>2, <2>3
<1>5. CASE GoBack
  <2> DEFINE up == Front(trail)
             f == IF up = << >> THEN Root ELSE Last(up)
  <2>1. GoTo(f, up, None) /\ vault # None /\ trail # << >>
    BY <1>5 DEF GoBack
  <2>2. up \in Seq(Folder)
    <3>1. Len(trail) \in Nat /\ \A i \in 1..Len(trail) - 1 : trail[i] \in Folder
      BY <1>0, LenProperties, ElementOfSeq
    <3> QED
      BY <3>1, SubSeqProperties DEF Front
  <2>3. f \in Folder \cup {Root}
    <3> HIDE DEF up
    <3>1. CASE up # << >>
      <4>1. Len(up) \in 1..Len(up)
        BY <2>2, <3>1, EmptySeq
      <4> QED
        BY <2>2, <3>1, <4>1, ElementOfSeq DEF Last
    <3> QED
      BY <3>1
  <2> HIDE DEF up, f
  <2> QED
    BY <1>2, <2>1, <2>2, <2>3
<1>6. CASE Retry
  BY <1>6, <1>0, <1>2 DEF Retry, AnyUse, Shape
<1> QED
  BY <1>1, <1>3, <1>4, <1>5, <1>6

LEMMA AnyGoing ==
  ASSUME AnyUse,
         \/ \E w \in Vault : SelectVault(w) \/ VaultCreated(w)
         \/ \E x \in Folder : OpenByName(x) \/ OpenByRow(x)
         \/ \E x \in Folder \cup {Root} : Breadcrumb(x)
         \/ GoBack \/ Retry
  PROVE  AnyUse'
<1>1. PICK v \in Vault, f \in Folder \cup {Root}, t \in Seq(Folder), s \in Folder \cup {None} :
           /\ vault' = v /\ folder' = f /\ trail' = t /\ selected' = s /\ Load(v, f)
           /\ DialogsStay /\ naming' \in {"closed", "open", "busy"}
  BY PlacesAreFolders
<1> QED
  BY <1>1, AnyMove

LEMMA AnyNaming ==
  ASSUME AnyUse, NameVault \/ EndNaming \/ VaultRefused
  PROVE  AnyUse'
<1>1. naming' \in {"closed", "open", "busy"} /\ DialogsStay /\ UNCHANGED view /\ vault' = vault
  BY DEF NameVault, EndNaming, VaultRefused, view
<1>2. /\ AboutEntries' /\ OneCallPerDialog' /\ mounts' = mounts
      /\ (dialog # NoDialog => dialog \in Dialog)' /\ mutations' \subseteq Mutation' /\ refusals' \subseteq Folder
  BY <1>1, CallsStay
<1>3. Shape'
  BY <1>1, <1>2, AnyViewStays DEF AnyUse, Shape
<1> QED
  BY <1>1, <1>2, <1>3, AnyViewStays DEF AnyUse

LEMMA AnySelection ==
  ASSUME AnyUse, NEW f \in Folder, SelectRow(f)
  PROVE  AnyUse'
<1>1. DialogsStay /\ vault' = vault /\ selected' \in Folder \cup {None}
  BY DEF SelectRow, Stay
<1>2. /\ AboutEntries' /\ OneCallPerDialog' /\ mounts' = mounts
      /\ (dialog # NoDialog => dialog \in Dialog)' /\ mutations' \subseteq Mutation' /\ refusals' \subseteq Folder
  BY <1>1, CallsStay
<1>3. Shape' /\ Numbered'
  BY <1>1, <1>2 DEF SelectRow, Stay, AnyUse, Shape, Numbered, Request
<1> QED
  BY <1>2, <1>3 DEF AnyUse

(* An answer is that of the newest request iff the view was waiting for it.*)
LEMMA AnyAnswer ==
  ASSUME AnyUse, NEW r \in requests, Listed(r)
  PROVE  AnyUse'
<1>1. DialogsStay /\ UNCHANGED <<vault, naming>>
  BY DEF Listed, Stay
<1>2. /\ AboutEntries' /\ OneCallPerDialog' /\ mounts' = mounts
      /\ (dialog # NoDialog => dialog \in Dialog)' /\ mutations' \subseteq Mutation' /\ refusals' \subseteq Folder
  BY <1>1, CallsStay
<1>3. entries' \in [at : Place, ids : SUBSET Folder]
  <2>1. r.at \in Vault \X (Folder \cup {Root}) /\ Kids(r.at[1], r.at[2]) \subseteq Folder
    BY DEF AnyUse, Shape, Request, Kids
  <2>2. entries' = entries \/ entries' = [at |-> r.at, ids |-> Kids(r.at[1], r.at[2])]
    BY DEF Listed
  <2> QED
    BY <2>1, <2>2 DEF AnyUse, Shape, Place
<1>4. Shape'
  BY <1>1, <1>2, <1>3 DEF Listed, AnyUse, Shape, Request
<1>5. Numbered'
  <2>1. requests' = requests \ {r} /\ seq' = seq /\ loading' = (IF r.my = seq THEN FALSE ELSE loading)
    BY DEF Listed
  <2>2. \A q \in requests : q.my = r.my => q = r
    BY DEF AnyUse, Numbered
  <2>3. CASE r.my = seq
    BY <2>1, <2>2, <2>3 DEF AnyUse, Numbered
  <2>4. CASE r.my # seq
    <3>1. (\E q \in requests' : q.my = seq) <=> \E q \in requests : q.my = seq
      BY <2>1, <2>4
    <3>2. \A p, q \in requests' : p.my = q.my => p = q
      BY <2>1 DEF AnyUse, Numbered
    <3> QED
      BY <2>1, <2>4, <3>1, <3>2 DEF AnyUse, Numbered
  <2> QED
    BY <2>3, <2>4
<1> QED
  BY <1>2, <1>4, <1>5 DEF AnyUse

LEMMA AnyDialog ==
  ASSUME AnyUse, NEW kind \in DialogKind, OpenDialog(kind)
  PROVE  AnyUse'
<1> DEFINE entry == IF kind = "new-folder" THEN None ELSE selectedEntry
<1>1. /\ entry \in Folder \cup {None} /\ (kind = "new-folder" <=> entry = None) /\ vault # None
      /\ UNCHANGED <<view, naming, mutations, refusals>> /\ vault' = vault
  BY TreeAssumption DEF OpenDialog, selectedEntry, AnyUse, Shape, view
<1> HIDE DEF entry
<1>2. CASE dialog.kind = kind
  <2>1. dialog # NoDialog /\ dialog \in Dialog
    BY <1>2, KindAssumption DEF NoDialog, AnyUse, Shape
  <2>2. dialog' = [dialog EXCEPT !.entry = entry] /\ mounts' = mounts
    BY <1>2 DEF OpenDialog, entry
  <2>3. /\ dialog' \in Dialog' /\ dialog'.kind = kind /\ dialog'.entry = entry
        /\ dialog'.mount = dialog.mount /\ dialog'.busy = dialog.busy
    BY <1>1, <1>2, <2>1, <2>2 DEF Dialog
  <2>4. Shape'
    BY <1>1, <2>2, <2>3, AnyViewStays DEF AnyUse, Shape, Mutation
  <2>5. AboutEntries' /\ OneCallPerDialog'
    BY <1>1, <2>1, <2>3 DEF AnyUse, AboutEntries, OneCallPerDialog
  <2> QED
    BY <1>1, <2>4, <2>5, AnyViewStays DEF AnyUse
<1>3. CASE dialog.kind # kind
  <2>1. /\ mounts' = mounts + 1 /\ mounts \in Nat
        /\ dialog' = [kind |-> kind, entry |-> entry, mount |-> mounts + 1, busy |-> FALSE, refused |-> FALSE]
    BY <1>3 DEF OpenDialog, entry, AnyUse, Shape
  <2>2. dialog' \in Dialog'
    BY <1>1, <2>1 DEF Dialog
  <2>3. mutations' \subseteq Mutation' /\ \A m \in mutations : m.mount \in 1..mounts
    BY <1>1, <2>1 DEF AnyUse, Shape, Mutation
  <2>4. Shape'
    BY <1>1, <2>1, <2>2, <2>3, AnyViewStays DEF AnyUse, Shape
  <2>5. AboutEntries'
    BY <1>1, <2>1 DEF AnyUse, AboutEntries
  <2>6. OneCallPerDialog'
    <3>1. \A m \in mutations : m.mount # mounts + 1
      BY <2>1, <2>3
    <3> QED
      BY <1>1, <2>1, <3>1 DEF AnyUse, OneCallPerDialog
  <2> QED
    BY <1>1, <2>4, <2>5, <2>6, AnyViewStays DEF AnyUse
<1> QED
  BY <1>2, <1>3

LEMMA AnyClosing ==
  ASSUME AnyUse, CloseDialog
  PROVE  AnyUse'
<1>1. UNCHANGED <<view, naming, mounts, mutations, refusals>> /\ dialog' = NoDialog
  BY DEF CloseDialog
<1>2. Shape' /\ AboutEntries' /\ OneCallPerDialog'
  BY <1>1, AnyViewStays DEF AnyUse, Shape, Mutation, AboutEntries, OneCallPerDialog
<1> QED
  BY <1>1, <1>2, AnyViewStays DEF AnyUse

(* A dialog that is not busy has no call in flight, so its new one is the  *)
(* only one of its number.                                                 *)
LEMMA AnySending ==
  ASSUME AnyUse, NEW kinds \in SUBSET DialogKind, NEW recursive \in BOOLEAN, Send(kinds, recursive)
  PROVE  AnyUse'
<1> DEFINE new == [kind |-> dialog.kind, entry |-> dialog.entry, vault |-> vault,
                   recursive |-> recursive, mount |-> dialog.mount, refresh |-> <<vault, folder>>]
<1>1. /\ dialog # NoDialog /\ dialog \in Dialog /\ ~dialog.busy
      /\ dialog' = [dialog EXCEPT !.busy = TRUE] /\ mutations' = mutations \cup {new}
      /\ UNCHANGED <<view, naming, mounts, refusals>> /\ vault' = vault
  BY KindAssumption DEF Send, NoDialog, AnyUse, Shape, view
<1>2. dialog' \in Dialog /\ dialog'.busy
      /\ dialog'.kind = dialog.kind /\ dialog'.entry = dialog.entry /\ dialog'.mount = dialog.mount
  BY <1>1 DEF Dialog
<1>3. new \in Mutation
  BY <1>1 DEF Mutation, Dialog, AnyUse, Shape, AboutEntries
<1>4. Shape'
  BY <1>1, <1>2, <1>3, AnyViewStays DEF AnyUse, Shape, Dialog, Mutation
<1>5. AboutEntries'
  BY <1>1, <1>2 DEF AnyUse, AboutEntries
<1>6. OneCallPerDialog'
  <2>1. new.mount = dialog.mount /\ \A m \in mutations : m.mount # dialog.mount
    BY <1>1 DEF AnyUse, OneCallPerDialog
  <2> HIDE DEF new
  <2> QED
    BY <1>1, <1>2, <2>1 DEF AnyUse, OneCallPerDialog
<1> QED
  BY <1>1, <1>4, <1>5, <1>6, AnyViewStays DEF AnyUse

LEMMA AnyConfirming ==
  ASSUME AnyUse, SubmitNewFolder \/ SubmitRename \/ ConfirmMove \/ ConfirmDelete
  PROVE  AnyUse'
<1>1. CASE SubmitNewFolder \/ SubmitRename \/ ConfirmMove
  BY <1>1, AnySending DEF SubmitNewFolder, SubmitRename, ConfirmMove, DialogKind
<1>2. CASE ConfirmDelete
  <2>1. dialog # NoDialog
    BY <1>2, KindAssumption DEF ConfirmDelete, Send, NoDialog, DialogKind
  <2>2. dialog.refused \in BOOLEAN
    BY <2>1 DEF AnyUse, Shape, Dialog
  <2> QED
    BY <1>2, <2>2, AnySending DEF ConfirmDelete, DialogKind
<1> QED
  BY <1>1, <1>2

LEMMA AnySuccess ==
  ASSUME AnyUse, NEW m \in mutations, Succeeded(m)
  PROVE  AnyUse'
<1>1. /\ mutations' = mutations \ {m} /\ dialog' = NoDialog /\ selected' = None
      /\ Load(m.refresh[1], m.refresh[2])
      /\ UNCHANGED <<vault, folder, trail, naming, mounts, refusals>>
  BY DEF Succeeded
<1>2. m.refresh[1] \in Vault /\ m.refresh[2] \in Folder \cup {Root}
  BY DEF AnyUse, Shape, Mutation
<1>3. /\ seq' \in 0..MaxLoads + 1 /\ requests' \subseteq Request' /\ Numbered'
      /\ entries' = entries /\ loading' \in BOOLEAN /\ error' \in BOOLEAN
  BY <1>1, <1>2, NumberedAnew
<1>4. Shape'
  BY <1>1, <1>3 DEF AnyUse, Shape, Mutation
<1>5. AboutEntries' /\ OneCallPerDialog'
  BY <1>1 DEF AnyUse, AboutEntries, OneCallPerDialog
<1> QED
  BY <1>3, <1>4, <1>5 DEF AnyUse

(* A refusal frees the dialog that asked, if it is still the one open. *)
LEMMA AnyFailure ==
  ASSUME AnyUse, NEW m \in mutations, Failed(m)
  PROVE  AnyUse'
<1>1. PICK nonEmpty \in BOOLEAN :
        /\ nonEmpty => m.kind = "delete" /\ ~m.recursive
        /\ refusals' = IF nonEmpty THEN refusals \cup {m.entry} ELSE refusals
        /\ dialog' = IF dialog = NoDialog \/ dialog.mount # m.mount THEN dialog
                     ELSE [dialog EXCEPT !.busy = FALSE, !.refused = @ \/ nonEmpty]
  BY DEF Failed
<1>2. mutations' = mutations \ {m} /\ UNCHANGED <<view, naming, mounts>> /\ vault' = vault
  BY DEF Failed, view
<1>3. m \in Mutation /\ (m.kind = "new-folder" <=> m.entry = None)
  BY DEF AnyUse, Shape, AboutEntries
<1>4. refusals' \subseteq Folder
  BY <1>1, <1>3 DEF AnyUse, Shape, Mutation
<1>5. \A n \in mutations' : n \in mutations /\ n.mount # m.mount
  BY <1>2 DEF AnyUse, OneCallPerDialog
<1>6. CASE dialog = NoDialog \/ dialog.mount # m.mount
  <2>1. dialog' = dialog
    BY <1>1, <1>6
  <2>2. Shape' /\ AboutEntries'
    BY <1>2, <1>4, <2>1, AnyViewStays DEF AnyUse, Shape, Dialog, Mutation, AboutEntries
  <2>3. OneCallPerDialog'
    BY <1>2, <1>6, <2>1 DEF AnyUse, OneCallPerDialog
  <2> QED
    BY <1>2, <2>2, <2>3, AnyViewStays DEF AnyUse
<1>7. CASE dialog # NoDialog /\ dialog.mount = m.mount
  <2>1. dialog \in Dialog /\ dialog' = [dialog EXCEPT !.busy = FALSE, !.refused = dialog.refused \/ nonEmpty]
    BY <1>1, <1>7 DEF AnyUse, Shape
  <2>2. dialog' \in Dialog /\ ~dialog'.busy
        /\ dialog'.kind = dialog.kind /\ dialog'.entry = dialog.entry /\ dialog'.mount = dialog.mount
    BY <2>1 DEF Dialog
  <2>3. Shape' /\ AboutEntries'
    BY <1>2, <1>4, <1>7, <2>2, AnyViewStays DEF AnyUse, Shape, Dialog, Mutation, AboutEntries
  <2>4. OneCallPerDialog'
    BY <1>2, <1>5, <1>7, <2>2 DEF AnyUse, OneCallPerDialog
  <2> QED
    BY <1>2, <2>3, <2>4, AnyViewStays DEF AnyUse
<1> QED
  BY <1>6, <1>7

LEMMA AnyInductive == ASSUME AnyUse, [Next]_vars PROVE AnyUse'
<1>1. CASE \/ \E w \in Vault : SelectVault(w) \/ VaultCreated(w)
           \/ \E x \in Folder : OpenByName(x) \/ OpenByRow(x)
           \/ \E x \in Folder \cup {Root} : Breadcrumb(x)
           \/ GoBack \/ Retry
  BY <1>1, AnyGoing
<1>2. CASE NameVault \/ EndNaming \/ VaultRefused
  BY <1>2, AnyNaming
<1>3. CASE \E f \in Folder : SelectRow(f)
  BY <1>3, AnySelection
<1>4. CASE \E r \in requests : Listed(r)
  BY <1>4, AnyAnswer
<1>5. CASE \E kind \in DialogKind : OpenDialog(kind)
  BY <1>5, AnyDialog
<1>6. CASE CloseDialog
  BY <1>6, AnyClosing
<1>7. CASE SubmitNewFolder \/ SubmitRename \/ ConfirmMove \/ ConfirmDelete
  BY <1>7, AnyConfirming
<1>8. CASE \E m \in mutations : Succeeded(m) \/ Failed(m)
  BY <1>8, AnySuccess, AnyFailure
<1>9. CASE UNCHANGED vars
  <2>1. Shape' /\ AboutEntries' /\ OneCallPerDialog'
    BY <1>9 DEF vars, view, AnyUse, Shape, Request, Dialog, Mutation, AboutEntries, OneCallPerDialog
  <2> QED
    BY <1>9, <2>1, AnyViewStays DEF AnyUse, vars
<1> QED
  BY <1>1, <1>2, <1>3, <1>4, <1>5, <1>6, <1>7, <1>8, <1>9 DEF Next

LEMMA AlwaysAnyUse == Spec => []AnyUse
<1>1. Init => AnyUse
  BY AnyUseStarts
<1>2. AnyUse /\ [Next]_vars => AnyUse'
  BY AnyInductive
<1> QED
  BY <1>1, <1>2, PTL DEF Spec

(* A dialog has one call in flight while it is busy, and none else: what   *)
(* it has asked for is never asked for twice, and it is never left waiting.*)
THEOREM OneCall == Spec => []OneCallPerDialog
<1>1. AnyUse => OneCallPerDialog
  BY DEF AnyUse
<1> QED
  BY <1>1, AlwaysAnyUse, PTL

-----------------------------------------------------------------------------
(* The view is one in which a new request cancels the one before it. *)

Wanted == {r.at : r \in {q \in requests : q.my = seq}}

LEMMA ViewIsOfOne == UNCHANGED view => UNCHANGED LR!vars
BY DEF view, LR!vars

LEMMA OneStarts == Init => LR!Init
<1> SUFFICES ASSUME Init PROVE LR!Init
  OBVIOUS
<1>1. CASE vault = None
  <2>1. Wanted = {}
    BY <1>1 DEF Init, Wanted
  <2> QED
    BY <1>1, <2>1 DEF Init, LR!Init, Wanted
<1>2. CASE vault # None
  <2>1. Wanted = {<<vault, Root>>}
    <3> DEFINE first == [my |-> 1, at |-> <<vault, Root>>]
    <3>1. requests = {first} /\ first.my = seq /\ first.at = <<vault, Root>>
      BY <1>2 DEF Init
    <3> HIDE DEF first
    <3> QED
      BY <3>1 DEF Wanted
  <2>2. <<vault, Root>> \in Vault \X (Folder \cup {Root})
    BY <1>2 DEF Init
  <2> QED
    BY <1>2, <2>1, <2>2 DEF Init, LR!Init, Wanted
<1> QED
  BY <1>1, <1>2

(* A request is the only one awaited from then on. *)
LEMMA LoadAsks ==
  ASSUME AnyUse, NEW v \in Vault, NEW f \in Folder \cup {Root}, Load(v, f)
  PROVE  LR!Next
<1>1. \A r \in requests' : r.my = seq' <=> r = [my |-> seq', at |-> <<v, f>>]
  BY NumberedAnew
<1>2. [my |-> seq', at |-> <<v, f>>] \in requests'
  BY NumberedAnew
<1>3. Wanted' = {<<v, f>>}
  BY <1>1, <1>2 DEF Wanted
<1>4. LR!Ask(<<v, f>>)
  BY <1>3 DEF Load, LR!Ask, Wanted
<1>5. <<v, f>> \in Vault \X (Folder \cup {Root})
  OBVIOUS
<1> QED
  BY <1>4, <1>5 DEF LR!Next

(* The answer to the newest request is the one awaited; the others are     *)
(* nothing the view can see.                                               *)
LEMMA ListedAnswers ==
  ASSUME AnyUse, NEW r \in requests, Listed(r)
  PROVE  [LR!Next]_LR!vars
<1>1. requests' = requests \ {r} /\ seq' = seq
  BY DEF Listed
<1>2. CASE r.my # seq
  <2>1. Wanted' = Wanted
    BY <1>1, <1>2 DEF Wanted
  <2> QED
    BY <1>2, <2>1 DEF Listed, LR!vars, Wanted
<1>3. CASE r.my = seq
  <2>1. \A q \in requests : q.my = seq => q = r
    BY <1>3 DEF AnyUse, Numbered
  <2>2. Wanted = {r.at} /\ Wanted' = {}
    BY <1>1, <1>3, <2>1 DEF Wanted
  <2>3. loading' = FALSE
        /\ \/ entries'.at = r.at /\ UNCHANGED error
           \/ error' = TRUE /\ UNCHANGED entries
    BY <1>3 DEF Listed
  <2>4. LR!Answered
    BY <2>2, <2>3 DEF LR!Answered, Wanted
  <2> QED
    BY <2>4 DEF LR!Next
<1> QED
  BY <1>2, <1>3

LEMMA OneSteps == ASSUME AnyUse, [Next]_vars PROVE [LR!Next]_LR!vars
<1>1. CASE \/ \E w \in Vault : SelectVault(w) \/ VaultCreated(w)
           \/ \E x \in Folder : OpenByName(x) \/ OpenByRow(x)
           \/ \E x \in Folder \cup {Root} : Breadcrumb(x)
           \/ GoBack \/ Retry
  BY <1>1, PlacesAreFolders, LoadAsks
<1>2. CASE \E m \in mutations : Succeeded(m)
  <2>1. PICK m \in mutations : Succeeded(m)
    BY <1>2
  <2>2. m.refresh[1] \in Vault /\ m.refresh[2] \in Folder \cup {Root}
    BY DEF AnyUse, Shape, Mutation
  <2> QED
    BY <2>1, <2>2, LoadAsks DEF Succeeded
<1>3. CASE \E r \in requests : Listed(r)
  BY <1>3, ListedAnswers
<1>4. CASE \E f \in Folder : SelectRow(f)
  BY <1>4 DEF SelectRow, LR!vars
<1>5. CASE \/ NameVault \/ EndNaming \/ VaultRefused
           \/ \E kind \in DialogKind : OpenDialog(kind)
           \/ CloseDialog \/ SubmitNewFolder \/ SubmitRename \/ ConfirmMove \/ ConfirmDelete
           \/ \E m \in mutations : Failed(m)
  <2>1. UNCHANGED view
    BY <1>5 DEF NameVault, EndNaming, VaultRefused, OpenDialog, CloseDialog, SubmitNewFolder,
                SubmitRename, ConfirmMove, ConfirmDelete, Send, Failed
  <2> QED
    BY <2>1, ViewIsOfOne
<1>6. CASE UNCHANGED vars
  BY <1>6, ViewIsOfOne DEF vars
<1> QED
  BY <1>1, <1>2, <1>3, <1>4, <1>5, <1>6 DEF Next

(* Whatever the user does, the keyboard's ways behind a dialog included,   *)
(* and in whatever order answers come, what is shown is the answer to the  *)
(* request that was newest when it came.                                   *)
THEOREM LatestOnly == Spec => Implements
<1>1. Init => LR!Init
  BY OneStarts
<1>2. AnyUse /\ [Next]_vars => [LR!Next]_LR!vars
  BY OneSteps
<1> QED
  BY <1>1, <1>2, AlwaysAnyUse, PTL DEF Spec, Implements, LR!Spec

(* Answers refer to calls that were made, dialogs and calls to folders that *)
(* exist, whatever is used. *)
THEOREM TypeCorrect == Spec => []TypeOK
<1>1. AnyUse => TypeOK
  BY DEF AnyUse, Shape, TypeOK, Request, Dialog, Mutation, AboutEntries
<1> QED
  BY <1>1, AlwaysAnyUse, PTL

-----------------------------------------------------------------------------
(* With the pointer only. *)

LEMMA Invariance == ASSUME ~Keyboard PROVE Spec => []IInv
<1>1. Init => IInv
  BY StartsRight
<1>2. IInv /\ [Next]_vars => IInv'
  BY Inductive
<1> QED
  BY <1>1, <1>2, PTL DEF Spec

(* Rows that are shown are those of the folder the path says, in whatever  *)
(* order the listings answer.                                              *)
THEOREM Current == ASSUME ~Keyboard PROVE Spec => []ListingIsCurrent
<1>1. IInv => ListingIsCurrent
  BY DEF IInv
<1> QED
  BY <1>1, Invariance, PTL

(* The path shown is a path of the vault, and ends at the current folder,  *)
(* even where folders are opened, left and gone back to while their        *)
(* listings are under way.                                                 *)
THEOREM Trail == ASSUME ~Keyboard PROVE Spec => []TrailLeadsHere
<1>1. IInv => TrailLeadsHere
  BY DEF IInv, LeadsTo, TrailLeadsHere
<1> QED
  BY <1>1, Invariance, PTL

(* A recursive delete goes out only for a folder that was refused as not   *)
(* empty: the dialog that offers it is still the one that was refused.     *)
THEOREM NeverSilent == ASSUME ~Keyboard PROVE Spec => []RecursionConfirmed
<1>1. IInv => RecursionConfirmed
  BY DEF IInv, RecursionConfirmed, CallBelongs, DialogBelongs
<1> QED
  BY <1>1, Invariance, PTL

(* A move stays within the vault of the folder that is moved. *)
THEOREM WithinVault == ASSUME ~Keyboard PROVE Spec => []NoCrossVaultMove
<1>1. IInv => NoCrossVaultMove
  BY DEF IInv, NoCrossVaultMove, CallBelongs, DialogBelongs
<1> QED
  BY <1>1, Invariance, PTL

(* What is selected is in the folder that the path names, or is the folder *)
(* that was opened by its name; so a dialog, for which the view waits, is  *)
(* about one of these.                                                     *)
Selected == selected # None => selected \in Kids(vault, folder) \cup {folder}

LEMMA SelectedStarts == Init => Selected /\ ActsOnWhatIsHere
BY DEF Init, Selected, ActsOnWhatIsHere

LEMMA SelectedStep ==
  ASSUME ~Keyboard, IInv, Selected, ActsOnWhatIsHere, [Next]_vars
  PROVE  Selected' /\ ActsOnWhatIsHere'
<1> USE DEF Selected, ActsOnWhatIsHere, Kids
<1>1. ASSUME NEW v \in Vault, SelectVault(v) \/ VaultCreated(v) PROVE Selected' /\ ActsOnWhatIsHere'
  BY <1>1, Pointed
     DEF SelectVault, VaultCreated, VaultChanged, Clickable, Stay, DialogsStay, IInv, DialogBelongs
<1>2. CASE UNCHANGED view /\ DialogsStay
  BY <1>2 DEF view, DialogsStay
<1>3. ASSUME NEW f, NEW t, NEW s \in {None, f}, Reachable, GoTo(f, t, s)
      PROVE  Selected' /\ ActsOnWhatIsHere'
  BY <1>3, Pointed DEF GoTo, Clickable, Stay, DialogsStay
<1>4. ASSUME NEW f \in Folder, OpenByName(f) \/ OpenByRow(f) PROVE Selected' /\ ActsOnWhatIsHere'
  BY <1>3, <1>4 DEF OpenByName, OpenByRow, Reachable
<1>5. ASSUME NEW f \in Folder, SelectRow(f) PROVE Selected' /\ ActsOnWhatIsHere'
  <2>1. f \in Kids(vault, folder)
    BY <1>5, RowIsInside DEF SelectRow
  <2> QED
    BY <1>5, <2>1 DEF SelectRow, Clickable, Stay, DialogsStay
<1>6. CASE (\E f \in Folder \cup {Root} : Breadcrumb(f)) \/ GoBack \/ Retry
  BY <1>3, <1>6 DEF Breadcrumb, GoBack, Retry
<1>7. ASSUME NEW r \in requests, Listed(r) PROVE Selected' /\ ActsOnWhatIsHere'
  BY <1>7 DEF Listed, Stay, DialogsStay
<1>8. ASSUME NEW kind \in DialogKind, OpenDialog(kind) PROVE Selected' /\ ActsOnWhatIsHere'
  <2>1. dialog = NoDialog /\ dialog.kind # kind
    BY <1>8, Pointed, KindAssumption DEF OpenDialog, Clickable, NoDialog
  <2>2. dialog'.entry \in {None, selected} /\ UNCHANGED view
    BY <1>8, <2>1 DEF OpenDialog, selectedEntry
  <2> QED
    BY <2>2 DEF view
<1>9. CASE CloseDialog
  BY <1>9 DEF CloseDialog, view
<1>10. CASE SubmitNewFolder \/ SubmitRename \/ ConfirmMove \/ ConfirmDelete
  <2>1. dialog # NoDialog /\ UNCHANGED view /\ dialog' = [dialog EXCEPT !.busy = TRUE]
    BY <1>10, KindAssumption
       DEF SubmitNewFolder, SubmitRename, ConfirmMove, ConfirmDelete, Send, NoDialog, DialogKind
  <2>2. dialog'.entry = dialog.entry
    BY <2>1 DEF IInv, Shape, Dialog
  <2> QED
    BY <2>1, <2>2 DEF view
<1>11. ASSUME NEW m \in mutations, Succeeded(m) PROVE Selected' /\ ActsOnWhatIsHere'
  BY <1>11 DEF Succeeded
<1>12. ASSUME NEW m \in mutations, Failed(m) PROVE Selected' /\ ActsOnWhatIsHere'
  <2>1. dialog # NoDialog /\ dialog \in Dialog
    BY DEF IInv, Shape, CallBelongs
  <2>2. dialog'.entry = dialog.entry /\ UNCHANGED view
    BY <1>12, <2>1 DEF Failed, Dialog
  <2> QED
    BY <2>1, <2>2 DEF view
<1>13. CASE UNCHANGED vars
  BY <1>13 DEF vars, view
<1>14. CASE NameVault \/ EndNaming \/ VaultRefused
  BY <1>2, <1>14 DEF NameVault, EndNaming, VaultRefused
<1> QED
  BY <1>1, <1>4, <1>5, <1>6, <1>7, <1>8, <1>9, <1>10, <1>11, <1>12, <1>13, <1>14 DEF Next

(* A dialog is about an entry of the folder that the path names, or about  *)
(* that folder, although the toolbar takes its entry from rows that may    *)
(* still be those of another.                                              *)
THEOREM ActsHere == ASSUME ~Keyboard PROVE Spec => []ActsOnWhatIsHere
<1>1. IInv /\ Selected /\ ActsOnWhatIsHere /\ [Next]_vars => Selected' /\ ActsOnWhatIsHere'
  BY SelectedStep
<1> QED
  BY <1>1, SelectedStarts, Invariance, PTL DEF Spec
=============================================================================
