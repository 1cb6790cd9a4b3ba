---------------------------- MODULE MigrateProofs ----------------------------
(***************************************************************************)
(* Proofs about Migrate, for any number of processes and any binaries: the *)
(* schema is whole, replaced under a backup only, and what a process was   *)
(* started on.                                                             *)
(***************************************************************************)
EXTENDS Migrate, FiniteSetTheorems, TLAPS

Extends(f, g) == DOMAIN g \subseteq DOMAIN f /\ \A v \in DOMAIN g : f[v] = g[v]
Same(f, g) == Extends(f, g) /\ Extends(g, f)

(* Recorded are at least the first k migrations of p, with its texts. *)
Agrees(p, k, applied) == \A v \in 1..k : v \in DOMAIN applied /\ applied[v] = Known[p][v]

(* All but the first k migrations of p are pending. *)
Left(p, k) == k <= Highest(p) /\ pending[p] = (k + 1)..Highest(p)

(* Process p holds a snapshot in which s is recorded, or needs none. *)
Snapped(p, s) == s = << >> \/ \E b \in backups : b.by = p /\ b.applied = s

SnappedSince(p, k) == \E s : Snapped(p, s) /\ 1..k \subseteq DOMAIN s /\ Extends(file.applied, s)
SnappedNow(p) == \E s : Snapped(p, s) /\ Same(file.applied, s)

FileWhole == \E n \in Nat : DOMAIN file.applied = 1..n /\ file.tables = 1..n

Preparing(p) ==
  pc[p] \in {"inspect", "backup", "begin"} =>
    \E k \in Nat : /\ k < Highest(p) /\ Left(p, k)
                   /\ Agrees(p, k, file.applied)
                   /\ pc[p] = "begin" => SnappedSince(p, k)

(* In a transaction: m versions are recorded in it. *)
Applying(p) ==
  pc[p] \in {"exec", "record", "commit"} =>
    \E k, m \in Nat :
      /\ Left(p, k) /\ Agrees(p, k, tx[p].applied)
      /\ DOMAIN tx[p].applied = 1..m
      /\ Extends(tx[p].applied, file.applied)
      /\ pc[p] = "exec" => /\ k < Highest(p) /\ tx[p].tables = 1..m
                           /\ \/ tx[p].applied = file.applied /\ SnappedSince(p, k)
                              \/ SnappedNow(p)
      /\ pc[p] = "record" => k < Highest(p) /\ m = k /\ tx[p].tables = 1..(k + 1) /\ SnappedNow(p)
      /\ pc[p] = "commit" => k = Highest(p) /\ m = k /\ tx[p].tables = 1..k /\ SnappedNow(p)

Started(p) == pc[p] = "ready" => expected[p] = Highest(p) /\ Agrees(p, Highest(p), file.applied)

(* The inductive invariant. *)
IInv == TypeOK /\ FileWhole /\ \A p \in Proc : Preparing(p) /\ Applying(p) /\ Started(p)

-----------------------------------------------------------------------------
LEMMA KnownFacts ==
  ASSUME NEW p \in Proc
  PROVE  /\ Highest(p) \in Nat /\ Highest(p) >= 1
         /\ DOMAIN Known[p] = 1..Highest(p)
         /\ \A v \in 1..Highest(p) : Known[p][v] \in Text /\ v \in Version
<1>1. Known[p] \in Seq(Text) /\ Known[p] # << >>
  BY KnownAssumption
<1>2. DOMAIN Known[p] = 1..Highest(p) /\ Highest(p) \in Nat /\ Highest(p) # 0
  BY <1>1 DEF Highest
<1>3. \A v \in DOMAIN Known[p] : Known[p][v] \in Text
  BY <1>1
<1> QED
  BY <1>2, <1>3 DEF Version

LEMMA VersionsAreNumbers == \A v \in Version : v \in Nat
  BY KnownFacts DEF Version

LEMMA NoFileIsFile == NoFile \in File
<1>1. << >> \in [{} -> Text]
  OBVIOUS
<1>2. << >> \in Recorded
  BY <1>1 DEF Recorded
<1> QED
  BY <1>2 DEF NoFile, File

LEMMA RecordedFacts ==
  \A f : f \in Recorded <=> DOMAIN f \in SUBSET Version /\ f \in [DOMAIN f -> Text]
  BY DEF Recorded

LEMMA ExtendsIsAPreorder ==
  /\ \A f : Extends(f, f)
  /\ \A f, g, h : Extends(f, g) /\ Extends(g, h) => Extends(f, h)
  BY DEF Extends

LEMMA FirstPending ==
  ASSUME NEW p \in Proc, NEW k \in Nat, k < Highest(p), Left(p, k)
  PROVE  NextPending(p) = k + 1
<1>1. k + 1 \in pending[p] /\ \A u \in pending[p] : u \in Int /\ k + 1 <= u
  BY KnownFacts DEF Left
<1>2. NextPending(p) \in pending[p] /\ \A u \in pending[p] : NextPending(p) <= u
  BY <1>1 DEF NextPending
<1> QED
  BY <1>1, <1>2

-----------------------------------------------------------------------------
LEMMA Initially == Init => IInv
<1> SUFFICES ASSUME Init PROVE IInv
  OBVIOUS
<1>1. TypeOK
  BY NoFileIsFile, ProcAssumption DEF Init, TypeOK
<1>2. FileWhole
  <2>1. DOMAIN file.applied = 1..0 /\ file.tables = 1..0
    BY DEF Init, NoFile
  <2> QED
    BY <2>1 DEF FileWhole
<1> QED
  BY <1>1, <1>2 DEF Init, IInv, Preparing, Applying, Started

(* What a process relies on survives steps of others, which only extend    *)
(* what is recorded, and only under the write lock.                        *)
LEMMA OthersKeep ==
  ASSUME IInv, NEW p \in Proc,
         pc'[p] = pc[p], pending'[p] = pending[p], tx'[p] = tx[p], expected'[p] = expected[p],
         backups \subseteq backups', Extends(file'.applied, file.applied),
         pc[p] \in {"exec", "record", "commit"} => file'.applied = file.applied
  PROVE  (Preparing(p) /\ Applying(p) /\ Started(p))'
<1>1. \A s : Snapped(p, s) => Snapped(p, s)'
  BY DEF Snapped
<1>2. \A k : SnappedSince(p, k) => SnappedSince(p, k)'
  BY <1>1, ExtendsIsAPreorder DEF SnappedSince
<1>3. \A k : Left(p, k) => Left(p, k)'
  BY DEF Left, Highest
<1>4. \A k : Agrees(p, k, file.applied) => Agrees(p, k, file'.applied)
  BY DEF Agrees, Extends
<1>5. Preparing(p)'
  BY <1>2, <1>3, <1>4 DEF IInv, Preparing
<1>6. Applying(p)'
  <2> SUFFICES ASSUME pc[p] \in {"exec", "record", "commit"} PROVE Applying(p)'
    BY DEF Applying
  <2>1. SnappedNow(p) => SnappedNow(p)'
    BY <1>1 DEF SnappedNow
  <2>2. PICK k \in Nat, m \in Nat :
      /\ Left(p, k) /\ Agrees(p, k, tx[p].applied)
      /\ DOMAIN tx[p].applied = 1..m
      /\ Extends(tx[p].applied, file.applied)
      /\ pc[p] = "exec" => /\ k < Highest(p) /\ tx[p].tables = 1..m
                           /\ \/ tx[p].applied = file.applied /\ SnappedSince(p, k)
                              \/ SnappedNow(p)
      /\ pc[p] = "record" => k < Highest(p) /\ m = k /\ tx[p].tables = 1..(k + 1) /\ SnappedNow(p)
      /\ pc[p] = "commit" => k = Highest(p) /\ m = k /\ tx[p].tables = 1..k /\ SnappedNow(p)
    BY DEF IInv, Applying
  <2> QED
    BY <1>2, <1>3, <2>1, <2>2 DEF Applying
<1>7. Started(p)'
  BY <1>4 DEF IInv, Started
<1> QED
  BY <1>5, <1>6, <1>7

LEMMA GivingUpKeeps ==
  ASSUME IInv, NEW p \in Proc, GiveUp(p), UNCHANGED <<file, backups>>
  PROVE  IInv'
<1> USE DEF GiveUp, Goto
<1>1. TypeOK'
  BY NoFileIsFile, ProcAssumption DEF IInv, TypeOK
<1>2. FileWhole'
  BY DEF IInv, FileWhole
<1>3. ASSUME NEW q \in Proc PROVE (Preparing(q) /\ Applying(q) /\ Started(q))'
  <2>1. CASE q = p
    BY <2>1 DEF IInv, TypeOK, Preparing, Applying, Started
  <2>2. CASE q # p
    <3>1. pc'[q] = pc[q] /\ pending'[q] = pending[q] /\ tx'[q] = tx[q] /\ expected'[q] = expected[q]
      BY <2>2 DEF IInv, TypeOK
    <3> QED
      BY <3>1, OthersKeep, ExtendsIsAPreorder
  <2> QED
    BY <2>1, <2>2
<1> QED
  BY <1>1, <1>2, <1>3 DEF IInv

(* A step of p that is not a commit and does not end it. *)
LEMMA OthersUntouched ==
  ASSUME IInv, NEW p \in Proc, NEW l, Goto(p, l), file'.applied = file.applied,
         backups \subseteq backups',
         \A q \in Proc \ {p} : /\ pending'[q] = pending[q] /\ tx'[q] = tx[q]
                               /\ expected'[q] = expected[q],
         (Preparing(p) /\ Applying(p) /\ Started(p))'
  PROVE  \A q \in Proc : (Preparing(q) /\ Applying(q) /\ Started(q))'
<1> SUFFICES ASSUME NEW q \in Proc \ {p} PROVE (Preparing(q) /\ Applying(q) /\ Started(q))'
  OBVIOUS
<1>1. pc'[q] = pc[q]
  BY DEF Goto, IInv, TypeOK
<1> QED
  BY <1>1, OthersKeep, ExtendsIsAPreorder

-----------------------------------------------------------------------------
LEMMA StartKeeps == ASSUME IInv, NEW p \in Proc, Start(p) PROVE IInv'
<1> USE DEF Start
<1>1. TypeOK'
  BY DEF Goto, IInv, TypeOK, Migrating
<1>2. FileWhole'
  BY DEF IInv, FileWhole
<1>3. (Preparing(p) /\ Applying(p) /\ Started(p))'
  BY DEF Goto, IInv, TypeOK, Preparing, Applying, Started
<1>4. \A q \in Proc : (Preparing(q) /\ Applying(q) /\ Started(q))'
  BY <1>3, OthersUntouched
<1> QED
  BY <1>1, <1>2, <1>4 DEF IInv

LEMMA EnsureVersionTableKeeps ==
  ASSUME IInv, NEW p \in Proc, EnsureVersionTable(p)
  PROVE  IInv'
<1> USE DEF EnsureVersionTable
<1>1. file' \in File /\ file'.applied = file.applied /\ file'.tables = file.tables
  BY DEF IInv, TypeOK, File
<1>2. TypeOK'
  BY <1>1 DEF Goto, IInv, TypeOK, Migrating
<1>3. FileWhole'
  BY <1>1 DEF IInv, FileWhole
<1>4. (Preparing(p) /\ Applying(p) /\ Started(p))'
  BY DEF Goto, IInv, TypeOK, Preparing, Applying, Started
<1>5. \A q \in Proc : (Preparing(q) /\ Applying(q) /\ Started(q))'
  BY <1>1, <1>4, OthersUntouched
<1> QED
  BY <1>2, <1>3, <1>5 DEF IInv

(* What is recorded and not refused are the first k migrations of p. *)
LEMMA ReadFacts ==
  ASSUME IInv, NEW p \in Proc, ~Refused(p, file.applied)
  PROVE  \E k \in Nat : /\ k <= Highest(p)
                        /\ DOMAIN Known[p] \ DOMAIN file.applied = (k + 1)..Highest(p)
                        /\ Agrees(p, k, file.applied)
<1>1. PICK k \in Nat : DOMAIN file.applied = 1..k
  BY DEF IInv, FileWhole
<1>2. \A v \in 1..k : v \in 1..Highest(p) /\ Known[p][v] = file.applied[v]
  BY <1>1, KnownFacts DEF Refused
<1>3. k <= Highest(p)
  BY <1>2, KnownFacts
<1>4. DOMAIN Known[p] \ DOMAIN file.applied = (k + 1)..Highest(p)
  BY <1>1, <1>3, KnownFacts
<1> QED
  BY <1>1, <1>2, <1>3, <1>4 DEF Agrees

LEMMA ReadAppliedKeeps == ASSUME IInv, NEW p \in Proc, ReadApplied(p) PROVE IInv'
<1>1. CASE Refused(p, file.applied)
  BY <1>1, GivingUpKeeps DEF ReadApplied
<1>2. CASE ~Refused(p, file.applied)
  <2>1. PICK k \in Nat : /\ k <= Highest(p)
                         /\ DOMAIN Known[p] \ DOMAIN file.applied = (k + 1)..Highest(p)
                         /\ Agrees(p, k, file.applied)
    BY <1>2, ReadFacts
  <2>2. /\ pc[p] = "read"
        /\ pending' = [pending EXCEPT ![p] = (k + 1)..Highest(p)]
        /\ UNCHANGED <<file, backups, writer, tx>>
        /\ IF pending'[p] = {} THEN SetExpected(p) /\ Goto(p, "ready")
           ELSE Goto(p, "inspect") /\ UNCHANGED expected
    BY <1>2, <2>1 DEF ReadApplied
  <2>3. pending'[p] = (k + 1)..Highest(p)
    BY <2>2 DEF IInv, TypeOK
  <2>4. (k + 1)..Highest(p) \subseteq Version
    BY KnownFacts
  <2>5. FileWhole'
    BY <2>2 DEF IInv, FileWhole
  <2>6. CASE k = Highest(p)
    <3>1. SetExpected(p) /\ Goto(p, "ready")
      BY <2>2, <2>3, <2>6, KnownFacts
    <3>2. TypeOK'
      BY <2>2, <2>4, <3>1, KnownFacts DEF SetExpected, Goto, IInv, TypeOK, Migrating
    <3>3. pc'[p] = "ready" /\ expected'[p] = Highest(p) /\ \A q \in Proc \ {p} : expected'[q] = expected[q]
      BY <3>1 DEF SetExpected, Goto, IInv, TypeOK
    <3>4. (Preparing(p) /\ Applying(p) /\ Started(p))'
      BY <2>1, <2>2, <2>6, <3>3 DEF Preparing, Applying, Started, Highest
    <3>5. \A q \in Proc \ {p} : pending'[q] = pending[q]
      BY <2>2 DEF IInv, TypeOK
    <3>6. \A q \in Proc : (Preparing(q) /\ Applying(q) /\ Started(q))'
      BY <2>2, <3>1, <3>3, <3>4, <3>5, OthersUntouched
    <3> QED
      BY <2>5, <3>2, <3>6 DEF IInv
  <2>7. CASE k < Highest(p)
    <3>1. Goto(p, "inspect") /\ UNCHANGED expected
      BY <2>2, <2>3, <2>7, KnownFacts
    <3>2. TypeOK'
      BY <2>2, <2>4, <3>1 DEF Goto, IInv, TypeOK, Migrating
    <3>3. pc'[p] = "inspect"
      BY <3>1 DEF Goto, IInv, TypeOK
    <3>4. (Preparing(p) /\ Applying(p) /\ Started(p))'
      BY <2>1, <2>2, <2>3, <2>7, <3>3 DEF Preparing, Applying, Started, Left, Highest
    <3>5. \A q \in Proc \ {p} : pending'[q] = pending[q]
      BY <2>2 DEF IInv, TypeOK
    <3>6. \A q \in Proc : (Preparing(q) /\ Applying(q) /\ Started(q))'
      BY <2>2, <3>1, <3>4, <3>5, OthersUntouched
    <3> QED
      BY <2>5, <3>2, <3>6 DEF IInv
  <2> QED
    BY <2>1, <2>6, <2>7, KnownFacts
<1> QED
  BY <1>1, <1>2

(* An empty file needs no snapshot, for nothing of p was recorded in it.   *)
LEMMA InspectKeeps == ASSUME IInv, NEW p \in Proc, Inspect(p) PROVE IInv'
<1> USE DEF Inspect
<1>1. TypeOK'
  BY DEF Goto, IInv, TypeOK, Migrating
<1>2. FileWhole'
  BY DEF IInv, FileWhole
<1>3. (Preparing(p) /\ Applying(p) /\ Started(p))'
  <2>1. pc'[p] \in {"begin", "backup"} /\ (pc'[p] = "begin" => file.tables = {})
    BY DEF Goto, IInv, TypeOK
  <2>2. PICK k \in Nat : k < Highest(p) /\ Left(p, k) /\ Agrees(p, k, file.applied)
    BY DEF IInv, Preparing
  <2>3. file.tables = {} => 1..k = {}
    BY <2>2 DEF IInv, FileWhole, Agrees
  <2>4. file.tables = {} => SnappedSince(p, k)'
    <3>1. Snapped(p, << >>)'
      BY DEF Snapped
    <3>2. DOMAIN << >> = {} /\ Extends(file.applied, << >>)'
      BY DEF Extends
    <3> QED
      BY <2>3, <3>1, <3>2 DEF SnappedSince
  <2>5. (Left(p, k) /\ Agrees(p, k, file.applied) /\ k < Highest(p))'
    BY <2>2 DEF Left, Agrees, Highest
  <2> QED
    BY <2>1, <2>4, <2>5 DEF Preparing, Applying, Started
<1>4. \A q \in Proc : (Preparing(q) /\ Applying(q) /\ Started(q))'
  BY <1>3, OthersUntouched
<1> QED
  BY <1>1, <1>2, <1>4 DEF IInv

LEMMA BackupKeeps == ASSUME IInv, NEW p \in Proc, Backup(p) PROVE IInv'
<1> USE DEF Backup
<1> DEFINE b == [by |-> p, applied |-> file.applied]
<1>1. TypeOK'
  BY DEF Goto, IInv, TypeOK, Migrating, File
<1>2. FileWhole'
  BY DEF IInv, FileWhole
<1>3. (Preparing(p) /\ Applying(p) /\ Started(p))'
  <2>1. pc'[p] = "begin" /\ b \in backups'
    BY DEF Goto, IInv, TypeOK
  <2>2. PICK k \in Nat : k < Highest(p) /\ Left(p, k) /\ Agrees(p, k, file.applied)
    BY DEF IInv, Preparing
  <2>3. SnappedSince(p, k)'
    <3>1. Snapped(p, file.applied)'
      BY <2>1 DEF Snapped
    <3>2. 1..k \subseteq DOMAIN file.applied /\ Extends(file.applied, file.applied)
      BY <2>2, ExtendsIsAPreorder DEF Agrees
    <3> QED
      BY <3>1, <3>2 DEF SnappedSince
  <2>4. (Left(p, k) /\ Agrees(p, k, file.applied) /\ k < Highest(p))'
    BY <2>2 DEF Left, Agrees, Highest
  <2> QED
    BY <2>1, <2>3, <2>4 DEF Preparing, Applying, Started
<1>4. \A q \in Proc : (Preparing(q) /\ Applying(q) /\ Started(q))'
  BY <1>3, OthersUntouched
<1> QED
  BY <1>1, <1>2, <1>4 DEF IInv

LEMMA BeginKeeps == ASSUME IInv, NEW p \in Proc, Begin(p) PROVE IInv'
<1> USE DEF Begin
<1>1. TypeOK'
  BY ProcAssumption DEF Goto, IInv, TypeOK, Migrating
<1>2. FileWhole'
  BY DEF IInv, FileWhole
<1>3. (Preparing(p) /\ Applying(p) /\ Started(p))'
  <2>1. pc'[p] = "exec" /\ tx'[p] = file /\ pc[p] = "begin" /\ UNCHANGED <<file, backups, pending>>
    BY DEF Goto, IInv, TypeOK
  <2>2. PICK k \in Nat : /\ k < Highest(p) /\ Left(p, k) /\ Agrees(p, k, file.applied)
                         /\ SnappedSince(p, k)
    BY <2>1 DEF IInv, Preparing
  <2>3. PICK m \in Nat : DOMAIN file.applied = 1..m /\ file.tables = 1..m
    BY DEF IInv, FileWhole
  <2>4. (Left(p, k) /\ SnappedSince(p, k) /\ k < Highest(p))'
    BY <2>1, <2>2 DEF Left, SnappedSince, Snapped, Highest
  <2>5. Agrees(p, k, tx'[p].applied) /\ Extends(tx'[p].applied, file'.applied)
    BY <2>1, <2>2, ExtendsIsAPreorder
  <2>6. Applying(p)'
    BY <2>1, <2>3, <2>4, <2>5 DEF Applying
  <2> QED
    BY <2>1, <2>6 DEF Preparing, Started
<1>4. \A q \in Proc \ {p} : tx'[q] = tx[q]
  BY DEF IInv, TypeOK
<1>5. \A q \in Proc : (Preparing(q) /\ Applying(q) /\ Started(q))'
  BY <1>3, <1>4, OthersUntouched
<1> QED
  BY <1>1, <1>2, <1>5 DEF IInv

(* A migration that somebody has applied since it was found pending stops  *)
(* p; otherwise the snapshot of p is the file it is about to change.       *)
LEMMA ExecKeeps == ASSUME IInv, NEW p \in Proc, Exec(p) PROVE IInv'
<1>1. CASE NextPending(p) \in tx[p].tables
  BY <1>1, GivingUpKeeps DEF Exec
<1>2. CASE NextPending(p) \notin tx[p].tables
  <2>1. /\ pc[p] = "exec" /\ Goto(p, "record")
        /\ tx' = [tx EXCEPT ![p].tables = @ \cup {NextPending(p)}]
        /\ UNCHANGED <<file, writer, backups, pending, expected>>
    BY <1>2 DEF Exec
  <2>2. PICK k \in Nat, m \in Nat :
      /\ Left(p, k) /\ Agrees(p, k, tx[p].applied)
      /\ DOMAIN tx[p].applied = 1..m
      /\ Extends(tx[p].applied, file.applied)
      /\ k < Highest(p) /\ tx[p].tables = 1..m
      /\ \/ tx[p].applied = file.applied /\ SnappedSince(p, k)
         \/ SnappedNow(p)
    BY <2>1 DEF IInv, Applying
  <2>3. NextPending(p) = k + 1
    BY <2>2, FirstPending
  <2>4. m = k
    <3>1. k + 1 \notin 1..m /\ \A v \in 1..k : v \in 1..m
      BY <1>2, <2>2, <2>3 DEF Agrees
    <3> QED
      BY <3>1
  <2>5. /\ tx[p] \in File
        /\ tx'[p].applied = tx[p].applied /\ tx'[p].tables = tx[p].tables \cup {k + 1}
        /\ tx'[p].versionTable = tx[p].versionTable
        /\ \A q \in Proc \ {p} : tx'[q] = tx[q]
        /\ pc'[p] = "record"
    BY <2>1, <2>3 DEF Goto, IInv, TypeOK, File
  <2>6. k + 1 \in Version
    BY <2>2, KnownFacts
  <2>7. TypeOK'
    <3>1. tx' \in [Proc -> File]
      BY <2>1, <2>3, <2>6 DEF IInv, TypeOK, File
    <3> QED
      BY <2>1, <3>1 DEF Goto, IInv, TypeOK, Migrating
  <2>8. SnappedNow(p)'
    <3>1. SnappedNow(p)
      <4>1. CASE tx[p].applied = file.applied /\ SnappedSince(p, k)
        <5>1. PICK s : Snapped(p, s) /\ 1..k \subseteq DOMAIN s /\ Extends(file.applied, s)
          BY <4>1 DEF SnappedSince
        <5>2. Same(file.applied, s)
          BY <2>2, <2>4, <4>1, <5>1 DEF Same, Extends
        <5> QED
          BY <5>1, <5>2 DEF SnappedNow
      <4> QED
        BY <2>2, <4>1
    <3> QED
      BY <2>1, <3>1 DEF SnappedNow, Snapped
  <2>9. (Preparing(p) /\ Applying(p) /\ Started(p))'
    <3>1. (Left(p, k) /\ k < Highest(p))'
      BY <2>1, <2>2 DEF Left, Highest
    <3>2. tx'[p].tables = 1..(k + 1)
      BY <2>2, <2>4, <2>5
    <3>3. Applying(p)'
      BY <2>1, <2>2, <2>4, <2>5, <2>8, <3>1, <3>2 DEF Applying
    <3> QED
      BY <2>5, <3>3 DEF Preparing, Started
  <2>10. \A q \in Proc : (Preparing(q) /\ Applying(q) /\ Started(q))'
    BY <2>1, <2>5, <2>9, OthersUntouched
  <2>11. FileWhole'
    BY <2>1 DEF IInv, FileWhole
  <2> QED
    BY <2>7, <2>10, <2>11 DEF IInv
<1> QED
  BY <1>1, <1>2

LEMMA RecordKeeps == ASSUME IInv, NEW p \in Proc, Record(p) PROVE IInv'
<1> DEFINE v == NextPending(p)
           f == [u \in DOMAIN tx[p].applied \cup {v} |->
                  IF u = v THEN Known[p][v] ELSE tx[p].applied[u]]
<1>1. CASE v \in DOMAIN tx[p].applied
  BY <1>1, GivingUpKeeps DEF Record
<1>2. CASE v \notin DOMAIN tx[p].applied
  <2>1. /\ pc[p] = "record"
        /\ tx' = [tx EXCEPT ![p].applied = f]
        /\ pending' = [pending EXCEPT ![p] = @ \ {v}]
        /\ Goto(p, IF pending'[p] = {} THEN "commit" ELSE "exec")
        /\ UNCHANGED <<file, writer, backups, expected>>
    BY <1>2 DEF Record
  <2>2. PICK k \in Nat, m \in Nat :
      /\ Left(p, k) /\ Agrees(p, k, tx[p].applied)
      /\ DOMAIN tx[p].applied = 1..m
      /\ Extends(tx[p].applied, file.applied)
      /\ k < Highest(p) /\ m = k /\ tx[p].tables = 1..(k + 1) /\ SnappedNow(p)
    BY <2>1 DEF IInv, Applying
  <2>3. v = k + 1
    BY <2>2, FirstPending
  <2>4. k + 1 \in Version /\ Known[p][k + 1] \in Text
    BY <2>2, KnownFacts
  <2>5. /\ DOMAIN f = 1..(k + 1)
        /\ f[k + 1] = Known[p][k + 1]
        /\ \A u \in 1..k : f[u] = tx[p].applied[u]
    BY <2>2, <2>3
  <2>6. f \in Recorded
    <3>1. tx[p].applied \in Recorded
      BY DEF IInv, TypeOK, File
    <3>2. 1..k \subseteq Version /\ \A u \in 1..k : tx[p].applied[u] \in Text
      BY <2>2, <3>1, RecordedFacts
    <3>3. f \in [1..(k + 1) -> Text] /\ 1..(k + 1) \subseteq Version
      BY <2>2, <2>3, <2>4, <3>2
    <3> QED
      BY <2>5, <3>3, RecordedFacts
  <2> HIDE DEF f
  <2>7. /\ tx'[p].applied = f /\ tx'[p].tables = tx[p].tables
        /\ tx' \in [Proc -> File]
        /\ \A q \in Proc \ {p} : tx'[q] = tx[q] /\ pending'[q] = pending[q]
    BY <2>1, <2>6 DEF IInv, TypeOK, File
  <2>8. pending'[p] = (k + 2)..Highest(p)
    <3>1. pending'[p] = ((k + 1)..Highest(p)) \ {k + 1}
      BY <2>1, <2>2, <2>3 DEF Left, IInv, TypeOK
    <3> QED
      BY <3>1, KnownFacts
  <2>9. TypeOK'
    <3>1. pending' \in [Proc -> SUBSET Version]
      BY <2>1 DEF IInv, TypeOK
    <3> QED
      BY <2>1, <2>7, <3>1 DEF Goto, IInv, TypeOK, Migrating
  <2>10. (Preparing(p) /\ Applying(p) /\ Started(p))'
    <3>1. pc'[p] = IF k + 1 = Highest(p) THEN "commit" ELSE "exec"
      <4>1. Highest(p) \in Nat /\ k + 1 <= Highest(p)
        BY <2>2, KnownFacts
      <4>2. (k + 2)..Highest(p) = {} <=> k + 1 = Highest(p)
        BY <4>1
      <4>3. pc'[p] = IF pending'[p] = {} THEN "commit" ELSE "exec"
        BY <2>1 DEF Goto, IInv, TypeOK
      <4> QED
        BY <2>8, <4>2, <4>3
    <3>2. (Left(p, k + 1))'
      BY <2>2, <2>8, KnownFacts DEF Left, Highest
    <3>3. Agrees(p, k + 1, tx'[p].applied)
      BY <2>2, <2>5, <2>7 DEF Agrees
    <3>4. Extends(tx'[p].applied, file'.applied)
      BY <2>1, <2>2, <2>5, <2>7 DEF Extends
    <3>5. SnappedNow(p)'
      BY <2>1, <2>2 DEF SnappedNow, Snapped
    <3>6. k + 1 \in Nat /\ DOMAIN tx'[p].applied = 1..(k + 1) /\ tx'[p].tables = 1..(k + 1)
      BY <2>2, <2>5, <2>7
    <3>7. Highest(p)' = Highest(p) /\ (k + 1 # Highest(p) => k + 1 < Highest(p))
      BY <2>2, KnownFacts DEF Highest
    <3>8. Applying(p)'
      BY <3>1, <3>2, <3>3, <3>4, <3>5, <3>6, <3>7 DEF Applying
    <3> QED
      BY <3>1, <3>8 DEF Preparing, Started
  <2>11. \A q \in Proc : (Preparing(q) /\ Applying(q) /\ Started(q))'
    BY <2>1, <2>7, <2>10, OthersUntouched
  <2>12. FileWhole'
    BY <2>1 DEF IInv, FileWhole
  <2> QED
    BY <2>9, <2>11, <2>12 DEF IInv
<1> QED
  BY <1>1, <1>2

LEMMA CommitKeeps == ASSUME IInv, NEW p \in Proc, Commit(p) PROVE IInv'
<1>1. PICK k \in Nat :
      /\ Agrees(p, k, tx[p].applied) /\ DOMAIN tx[p].applied = 1..k
      /\ Extends(tx[p].applied, file.applied)
      /\ k = Highest(p) /\ tx[p].tables = 1..k
  BY DEF Commit, IInv, Applying
<1>2. /\ pc[p] = "commit" /\ pc'[p] = "ready" /\ expected'[p] = Highest(p)
      /\ file' = tx[p] /\ UNCHANGED <<backups, pending>>
      /\ \A q \in Proc \ {p} : pc'[q] = pc[q] /\ tx'[q] = tx[q] /\ expected'[q] = expected[q]
  BY DEF Commit, Goto, SetExpected, IInv, TypeOK
<1>3. TypeOK'
  BY NoFileIsFile, ProcAssumption, KnownFacts
     DEF Commit, Goto, SetExpected, IInv, TypeOK, Migrating
<1>4. FileWhole'
  BY <1>1, <1>2 DEF FileWhole
<1>5. ASSUME NEW q \in Proc PROVE (Preparing(q) /\ Applying(q) /\ Started(q))'
  <2>1. CASE q = p
    BY <1>1, <1>2, <2>1 DEF Preparing, Applying, Started, Highest
  <2>2. CASE q # p
    <3>1. pc[q] \notin {"exec", "record", "commit"}
      BY <1>2, <2>2 DEF IInv, TypeOK
    <3> QED
      BY <1>1, <1>2, <2>2, <3>1, OthersKeep
  <2> QED
    BY <2>1, <2>2
<1> QED
  BY <1>3, <1>4, <1>5 DEF IInv

LEMMA Inductive == IInv /\ [Next]_vars => IInv'
<1> SUFFICES ASSUME IInv, [Next]_vars PROVE IInv'
  OBVIOUS
<1>1. ASSUME NEW p \in Proc, Busy(p) \/ Fail(p) \/ Stop(p) PROVE IInv'
  BY <1>1, GivingUpKeeps DEF Busy, Fail, Stop
<1>2. CASE UNCHANGED vars
  <2>1. TypeOK' /\ FileWhole'
    BY <1>2 DEF vars, IInv, TypeOK, FileWhole
  <2>2. ASSUME NEW q \in Proc PROVE (Preparing(q) /\ Applying(q) /\ Started(q))'
    BY <1>2, OthersKeep, ExtendsIsAPreorder DEF vars
  <2> QED
    BY <2>1, <2>2 DEF IInv
<1> QED
  BY <1>1, <1>2, StartKeeps, EnsureVersionTableKeeps, ReadAppliedKeeps, InspectKeeps, BackupKeeps,
     BeginKeeps, ExecKeeps, RecordKeeps, CommitKeeps DEF Next, Step

LEMMA Invariance == Spec => []IInv
<1>1. Init => IInv
  BY Initially
<1>2. IInv /\ [Next]_vars => IInv'
  BY Inductive
<1> QED
  BY <1>1, <1>2, PTL DEF Spec

(* Transactions are open exactly where Migrate has one, under the write    *)
(* lock, and everything is of its type.                                    *)
THEOREM TypeCorrect == Spec => []TypeOK
<1>1. IInv => TypeOK
  BY DEF IInv
<1> QED
  BY <1>1, Invariance, PTL

(* All pending migrations or none, whatever fails or dies and however many *)
(* binaries start on the file.                                             *)
THEOREM Wholeness == Spec => []SchemaWhole
<1>1. IInv => SchemaWhole
  BY DEF IInv, FileWhole, SchemaWhole
<1> QED
  BY <1>1, Invariance, PTL

(* What a process was started on holds its migrations with its own texts,  *)
(* for as long as it runs.                                                 *)
THEOREM ReadyMeansMigrated == Spec => []ReadyIsMigrated
<1>1. IInv => ReadyIsMigrated
  BY KnownFacts DEF IInv, Started, Agrees, ReadyIsMigrated
<1> QED
  BY <1>1, Invariance, PTL

(* A healthy answer is given only on exactly the schema of this binary.    *)
THEOREM HealthIsCurrent == Spec => []HealthyMeansCurrent
<1>1. IInv => HealthyMeansCurrent
  <2> SUFFICES ASSUME IInv, NEW p \in Proc, Healthy(p) PROVE file.applied = Known[p]
    BY DEF HealthyMeansCurrent
  <2>1. expected[p] = Highest(p) /\ Agrees(p, Highest(p), file.applied)
    BY DEF Healthy, IInv, Started
  <2>2. PICK n \in Nat : DOMAIN file.applied = 1..n
    BY DEF IInv, FileWhole
  <2>3. Highest(p) \in 1..n /\ \A u \in 1..n : u <= Highest(p)
    BY <2>1, <2>2 DEF Healthy, Readiness
  <2>4. n = Highest(p)
    BY <2>3
  <2>5. file.applied \in [1..n -> Text]
    BY <2>2, RecordedFacts DEF IInv, TypeOK, File
  <2>6. Known[p] \in [1..n -> Text]
    BY <2>4, KnownAssumption DEF Highest
  <2> QED
    BY <2>1, <2>4, <2>5, <2>6 DEF Agrees
<1> QED
  BY <1>1, Invariance, PTL

(* A snapshot that agrees with what is recorded is a snapshot of it.       *)
LEMMA SnappedExactly ==
  ASSUME IInv, NEW p \in Proc, SnappedNow(p)
  PROVE  file.applied = << >> \/ \E b \in backups : b.by = p /\ b.applied = file.applied
<1>1. PICK s : Snapped(p, s) /\ Same(file.applied, s)
  BY DEF SnappedNow
<1>2. DOMAIN s = DOMAIN file.applied /\ \A v \in DOMAIN s : s[v] = file.applied[v]
  BY <1>1 DEF Same, Extends
<1>3. file.applied \in Recorded
  BY DEF IInv, TypeOK, File
<1>4. CASE s = << >>
  <2>1. << >> \in [{} -> Text] /\ DOMAIN << >> = {}
    OBVIOUS
  <2>2. file.applied \in [{} -> Text]
    BY <1>2, <1>3, <1>4, <2>1, RecordedFacts
  <2> QED
    BY <2>1, <2>2
<1>5. ASSUME NEW b \in backups, b.by = p, b.applied = s
      PROVE  b.applied = file.applied
  <2>1. s \in Recorded
    BY <1>5 DEF IInv, TypeOK
  <2> QED
    BY <1>2, <1>3, <1>5, <2>1, RecordedFacts
<1> QED
  BY <1>1, <1>4, <1>5 DEF Snapped

(* A nonempty schema is only ever replaced by a process that has taken a   *)
(* snapshot of that very schema.                                           *)
THEOREM Backups == Spec => BackedUp
<1> DEFINE A == file'.applied # file.applied /\ file.tables # {} =>
                  \E b \in backups : b.by = writer /\ b.applied = file.applied
<1>1. IInv /\ [Next]_vars => [A]_vars
  <2> SUFFICES ASSUME IInv, [Next]_vars, file'.applied # file.applied, file.tables # {}
               PROVE  \E b \in backups : b.by = writer /\ b.applied = file.applied
    OBVIOUS
  <2>1. ASSUME NEW p \in Proc, EnsureVersionTable(p) PROVE FALSE
    BY <2>1 DEF EnsureVersionTable, IInv, TypeOK, File
  <2>2. PICK p \in Proc : Commit(p)
    BY <2>1 DEF Next, Step, vars, Start, ReadApplied, Inspect, Backup, Begin, Busy, Exec, Record,
                Fail, Stop
  <2>3. writer = p
    BY <2>2 DEF Commit, IInv, TypeOK
  <2>4. SnappedNow(p)
    BY <2>2 DEF Commit, IInv, Applying
  <2>5. DOMAIN file.applied # {}
    BY DEF IInv, FileWhole
  <2>6. PICK b \in backups : b.by = p /\ b.applied = file.applied
    BY <2>4, <2>5, SnappedExactly
  <2> QED
    BY <2>3, <2>6
<1> QED
  BY <1>1, Invariance, PTL DEF Spec, BackedUp
-----------------------------------------------------------------------------
(* The refinement: the step that makes a process ready is the atomic start,*)
(* a backup is a snapshot, an end is a stop if the process was up.         *)

Ready == {p \in Proc : pc[p] = "ready"}

LEMMA ReadyAfter ==
  ASSUME IInv, NEW p \in Proc, NEW l, Goto(p, l)
  PROVE  Ready' = IF l = "ready" THEN Ready \cup {p} ELSE Ready \ {p}
BY DEF Ready, Goto, IInv, TypeOK

(* What holds the first migrations of p and no others holds just those.    *)
LEMMA HoldsItsOwn ==
  ASSUME NEW p \in Proc, NEW applied \in Recorded,
         Agrees(p, Highest(p), applied), DOMAIN applied \subseteq 1..Highest(p)
  PROVE  applied = Known[p]
<1>1. DOMAIN applied = 1..Highest(p) /\ DOMAIN Known[p] = 1..Highest(p)
  BY KnownFacts DEF Agrees
<1>2. applied \in [1..Highest(p) -> Text] /\ Known[p] \in [1..Highest(p) -> Text]
  BY <1>1, RecordedFacts, KnownAssumption DEF Highest
<1>3. \A v \in 1..Highest(p) : applied[v] = Known[p][v]
  BY DEF Agrees
<1> DEFINE f == applied
           g == Known[p]
           S == 1..Highest(p)
<1>4. f \in [S -> Text] /\ g \in [S -> Text] /\ \A v \in S : f[v] = g[v]
  BY <1>2, <1>3
<1> HIDE DEF f, g, S
<1>5. f = g
  BY <1>4
<1> QED
  BY <1>5 DEF f, g

LEMMA StepEndsStart ==
  ASSUME IInv, NEW p \in Proc, GiveUp(p), UNCHANGED <<file, backups>>
  PROVE  [SH!Next]_(SH!vars)
<1>1. Ready' = Ready \ {p}
  BY ReadyAfter DEF GiveUp
<1>2. CASE p \in Ready
  BY <1>1, <1>2 DEF SH!Next, SH!Stop, Ready
<1>3. CASE p \notin Ready
  BY <1>1, <1>3 DEF SH!vars, Ready
<1> QED
  BY <1>2, <1>3

LEMMA StepGoesOn ==
  ASSUME IInv, NEW p \in Proc, NEW l, pc[p] # "ready", l # "ready", Goto(p, l),
         file'.applied = file.applied, UNCHANGED backups
  PROVE  [SH!Next]_(SH!vars)
<1>1. Ready' = Ready
  BY ReadyAfter DEF Ready
<1> QED
  BY <1>1 DEF SH!vars, Ready

(* Nothing is pending: the file holds just the migrations of p already.    *)
LEMMA ReadAppliedRefines ==
  ASSUME IInv, NEW p \in Proc, ReadApplied(p)
  PROVE  [SH!Next]_(SH!vars)
<1>1. CASE Refused(p, file.applied)
  BY <1>1, StepEndsStart DEF ReadApplied
<1>2. CASE ~Refused(p, file.applied) /\ pending'[p] # {}
  BY <1>2, StepGoesOn DEF ReadApplied
<1>3. CASE ~Refused(p, file.applied) /\ pending'[p] = {}
  <2>1. pending'[p] = DOMAIN Known[p] \ DOMAIN file.applied
    BY <1>3 DEF ReadApplied, IInv, TypeOK
  <2>2. Agrees(p, Highest(p), file.applied) /\ DOMAIN file.applied \subseteq 1..Highest(p)
    BY <1>3, <2>1, KnownFacts DEF Refused, Agrees
  <2>3. file.applied = Known[p]
    BY <2>2, HoldsItsOwn DEF IInv, TypeOK, File
  <2>4. Ready' = Ready \cup {p} /\ p \notin Ready /\ UNCHANGED <<file, backups>>
    BY <1>3, ReadyAfter DEF ReadApplied, Ready
  <2>5. SH!Start(p)
    BY <2>3, <2>4 DEF SH!Start, SH!Continues, Ready
  <2> QED
    BY <2>5 DEF SH!Next
<1> QED
  BY <1>1, <1>2, <1>3

LEMMA BackupRefines ==
  ASSUME IInv, NEW p \in Proc, Backup(p)
  PROVE  [SH!Next]_(SH!vars)
<1>1. Ready' = Ready /\ p \notin Ready
  BY ReadyAfter DEF Backup, Ready
<1>2. SH!Save(p)
  BY <1>1 DEF SH!Save, SH!Snapshot, Backup, Ready
<1> QED
  BY <1>2 DEF SH!Next

(* The transaction held what is committed and now holds what p knows; p    *)
(* has a snapshot of what is committed, or nothing was.                    *)
LEMMA CommitRefines ==
  ASSUME IInv, NEW p \in Proc, Commit(p)
  PROVE  [SH!Next]_(SH!vars)
<1>1. /\ Agrees(p, Highest(p), tx[p].applied) /\ DOMAIN tx[p].applied = 1..Highest(p)
      /\ Extends(tx[p].applied, file.applied)
      /\ SnappedNow(p)
  BY DEF Commit, IInv, Applying
<1>2. tx[p].applied \in Recorded /\ file.applied \in Recorded
  BY DEF IInv, TypeOK, File
<1>3. tx[p].applied = Known[p]
  BY <1>1, <1>2, HoldsItsOwn
<1>4. file.applied = << >> \/ \E b \in backups : b.by = p /\ b.applied = file.applied
  BY <1>1, SnappedExactly
<1>5. \A b \in backups : b = [by |-> b.by, applied |-> b.applied]
  BY DEF IInv, TypeOK
<1>6. Ready' = Ready \cup {p} /\ p \notin Ready /\ file'.applied = Known[p] /\ UNCHANGED backups
  BY <1>3, ReadyAfter DEF Commit, Ready
<1>7. SH!Start(p)
  BY <1>1, <1>3, <1>4, <1>5, <1>6 DEF SH!Start, SH!Continues, SH!Snapshot, Extends, Ready
<1> QED
  BY <1>7 DEF SH!Next

LEMMA StepRefines == IInv /\ [Next]_vars => [SH!Next]_(SH!vars)
<1> SUFFICES ASSUME IInv, [Next]_vars PROVE [SH!Next]_(SH!vars)
  OBVIOUS
<1>1. ASSUME NEW p \in Proc, Busy(p) \/ Fail(p) \/ Stop(p) PROVE [SH!Next]_(SH!vars)
  BY <1>1, StepEndsStart DEF Busy, Fail, Stop
<1>2. ASSUME NEW p \in Proc, Start(p) \/ Inspect(p) \/ Begin(p) PROVE [SH!Next]_(SH!vars)
  BY <1>2, StepGoesOn DEF Start, Inspect, Begin
<1>3. ASSUME NEW p \in Proc, EnsureVersionTable(p) PROVE [SH!Next]_(SH!vars)
  <2>1. file'.applied = file.applied
    BY <1>3 DEF EnsureVersionTable, IInv, TypeOK, File
  <2> QED
    BY <1>3, <2>1, StepGoesOn DEF EnsureVersionTable
<1>4. ASSUME NEW p \in Proc, Exec(p) PROVE [SH!Next]_(SH!vars)
  BY <1>4, StepEndsStart, StepGoesOn DEF Exec
<1>5. ASSUME NEW p \in Proc, Record(p) PROVE [SH!Next]_(SH!vars)
  BY <1>5, StepEndsStart, StepGoesOn DEF Record
<1>6. CASE UNCHANGED vars
  BY <1>6 DEF vars, SH!vars
<1> QED
  BY <1>1, <1>2, <1>3, <1>4, <1>5, <1>6, ReadAppliedRefines, BackupRefines, CommitRefines
     DEF Next, Step

(* Every behaviour of the starting processes is one in which starts are    *)
(* atomic, for any binaries, processes and failures.                       *)
THEOREM AtomicStarts == Spec => Implements
<1>1. Init => SH!Init
  BY DEF Init, NoFile, SH!Init
<1>2. IInv /\ [Next]_vars => [SH!Next]_(SH!vars)
  BY StepRefines
<1> QED
  BY <1>1, <1>2, Invariance, PTL DEF Spec, Implements, SH!Spec

-----------------------------------------------------------------------------
(* How long a start can last. *)

Few(p) == IsFiniteSet(pending[p]) /\ Cardinality(pending[p]) \in 0..Highest(p)

Counted == \A p \in Proc : pc[p] \in Migrating \ {"table", "read"} => Few(p)

LEMMA PendingIsCounted == IInv => Counted
<1> SUFFICES ASSUME IInv, NEW p \in Proc, pc[p] \in Migrating \ {"table", "read"}
             PROVE  Few(p)
  BY DEF Counted
<1>1. PICK k \in Nat : Left(p, k)
  BY DEF IInv, Preparing, Applying, Migrating
<1> DEFINE H == Highest(p)
           a == k + 1
<1>2. H \in Int /\ a \in Int /\ k <= H /\ pending[p] = a..H
  BY <1>1, KnownFacts DEF Left
<1> HIDE DEF H, a
<1>3. IsFiniteSet(a..H) /\ Cardinality(a..H) = IF a > H THEN 0 ELSE H - a + 1
  BY <1>2, FS_Interval
<1>4. Cardinality(a..H) \in 0..H
  BY <1>2, <1>3 DEF a
<1>5. Few(p) <=> IsFiniteSet(pending[p]) /\ Cardinality(pending[p]) \in 0..H
  BY DEF Few, H
<1> QED
  BY <1>2, <1>3, <1>4, <1>5

(* A process that records has a migration pending. *)
LEMMA RecordIsPending ==
  ASSUME IInv, NEW p \in Proc, pc[p] = "record"
  PROVE  NextPending(p) \in pending[p]
<1>1. PICK k \in Nat : k < Highest(p) /\ Left(p, k)
  BY DEF IInv, Applying
<1>2. NextPending(p) = k + 1
  BY <1>1, FirstPending
<1> QED
  BY <1>1, <1>2, KnownFacts DEF Left

LEMMA RecordUsesUp ==
  ASSUME IInv, Counted, Counted', NEW p \in Proc, Record(p)
  PROVE  CallsLeft(p)' \in 0..CallsLeft(p) - 1
<1> DEFINE v == NextPending(p)
           n == Cardinality(pending[p])
           m == Cardinality(pending'[p])
<1>1. v \in pending[p] /\ pc[p] = "record" /\ IsFiniteSet(pending[p])
  BY RecordIsPending DEF Record, Counted, Few, Migrating
<1>2. n \in Nat /\ n > 0 /\ CallsLeft(p) = 2 * n
  <2>1. n \in Nat /\ n # 0
    BY <1>1, FS_CardinalityType, FS_EmptySet
  <2> QED
    BY <1>1, <2>1 DEF CallsLeft
<1>3. CASE pc'[p] = "off"
  <2>1. CallsLeft(p)' = 0
    BY <1>3 DEF CallsLeft
  <2> HIDE DEF n
  <2> QED
    BY <1>2, <2>1
<1>4. CASE pc'[p] # "off"
  <2>1. pending'[p] = pending[p] \ {v} /\ pc'[p] = IF pending'[p] = {} THEN "commit" ELSE "exec"
    BY <1>4 DEF Record, GiveUp, Goto, IInv, TypeOK
  <2>2. m = n - 1
    BY <1>1, <2>1, FS_RemoveElement
  <2>3. CallsLeft(p)' = IF pending'[p] = {} THEN 1 ELSE 2 * m + 1
    BY <2>1 DEF CallsLeft
  <2> HIDE DEF n, m
  <2> QED
    BY <1>2, <2>2, <2>3
<1> QED
  BY <1>3, <1>4

(* Where a call of p leads, but for the one that records a migration.      *)
Onward(p) ==
  \/ pc[p] = "table" /\ pc'[p] = "read"
  \/ pc[p] = "read" /\ pc'[p] = "inspect"
  \/ /\ \/ pc[p] = "inspect" /\ pc'[p] \in {"backup", "begin"}
        \/ pc[p] = "backup" /\ pc'[p] = "begin"
        \/ pc[p] = "begin" /\ pc'[p] = "exec"
        \/ pc[p] = "exec" /\ pc'[p] = "record"
     /\ pending'[p] = pending[p]
  \/ pc[p] = "commit" /\ pc'[p] = "ready"
  \/ pc[p] = "read" /\ pc'[p] = "ready"
  \/ pc[p] \in Migrating /\ pc'[p] = "off"

LEMMA OnwardUsesUp ==
  ASSUME IInv, Counted, Counted', NEW p \in Proc, Onward(p), pc[p] # "record"
  PROVE  CallsLeft(p)' \in 0..CallsLeft(p) - 1
<1> DEFINE H == Highest(p)
           n == Cardinality(pending[p])
           m == Cardinality(pending'[p])
<1>1. H \in Nat
  BY KnownFacts
<1>2. pc[p] \in Migrating \ {"table", "read"} => n \in Nat
  BY KnownFacts DEF Counted, Few
<1>3. pc'[p] = "inspect" => m \in 0..H
  BY DEF Counted, Few, Migrating, Highest
<1>4. CallsLeft(p) =
        CASE pc[p] = "table"   -> 2 * H + 6
          [] pc[p] = "read"    -> 2 * H + 5
          [] pc[p] = "inspect" -> 2 * n + 4
          [] pc[p] = "backup"  -> 2 * n + 3
          [] pc[p] = "begin"   -> 2 * n + 2
          [] pc[p] = "exec"    -> 2 * n + 1
          [] pc[p] = "record"  -> 2 * n
          [] pc[p] = "commit"  -> 1
          [] OTHER             -> 0
  BY DEF CallsLeft
<1>5. CallsLeft(p)' =
        CASE pc'[p] = "table"   -> 2 * H + 6
          [] pc'[p] = "read"    -> 2 * H + 5
          [] pc'[p] = "inspect" -> 2 * m + 4
          [] pc'[p] = "backup"  -> 2 * m + 3
          [] pc'[p] = "begin"   -> 2 * m + 2
          [] pc'[p] = "exec"    -> 2 * m + 1
          [] pc'[p] = "record"  -> 2 * m
          [] pc'[p] = "commit"  -> 1
          [] OTHER              -> 0
  BY DEF CallsLeft, Highest
<1>6. pending'[p] = pending[p] => m = n
  OBVIOUS
<1> HIDE DEF H, n, m
<1> QED
  BY <1>1, <1>2, <1>3, <1>4, <1>5, <1>6 DEF Onward, Migrating

LEMMA GivesUp ==
  ASSUME IInv, NEW p \in Proc, GiveUp(p), pc[p] \in Migrating
  PROVE  Onward(p)
BY DEF GiveUp, Goto, IInv, TypeOK, Onward

LEMMA StepIsOnward ==
  ASSUME IInv, NEW p \in Proc, Step(p), ~Record(p)
  PROVE  Onward(p) /\ pc[p] # "record"
<1>1. CASE EnsureVersionTable(p) \/ Inspect(p) \/ Backup(p) \/ Begin(p) \/ Commit(p)
  BY <1>1 DEF EnsureVersionTable, Inspect, Backup, Begin, Commit, Goto, IInv, TypeOK, Onward
<1>2. CASE ReadApplied(p)
  BY <1>2, GivesUp DEF ReadApplied, Goto, IInv, TypeOK, Onward, Migrating
<1>3. CASE Busy(p)
  BY <1>3, GivesUp DEF Busy, Migrating
<1>4. CASE Exec(p)
  BY <1>4, GivesUp DEF Exec, Goto, IInv, TypeOK, Onward, Migrating
<1> QED
  BY <1>1, <1>2, <1>3, <1>4 DEF Step

LEMMA OthersDoNotCount ==
  ASSUME IInv, NEW p \in Proc, NEW q \in Proc \ {p},
         Start(p) \/ Step(p) \/ Fail(p) \/ Stop(p)
  PROVE  UNCHANGED <<pc[q], pending[q]>>
<1>1. ASSUME GiveUp(p) PROVE UNCHANGED <<pc[q], pending[q]>>
  BY <1>1 DEF GiveUp, Goto, IInv, TypeOK
<1>2. ASSUME NEW l, Goto(p, l), UNCHANGED pending PROVE UNCHANGED <<pc[q], pending[q]>>
  BY <1>2 DEF Goto, IInv, TypeOK
<1>3. CASE Start(p) \/ EnsureVersionTable(p) \/ Inspect(p) \/ Backup(p) \/ Begin(p) \/ Commit(p)
  BY <1>2, <1>3 DEF Start, EnsureVersionTable, Inspect, Backup, Begin, Commit
<1>4. CASE ReadApplied(p)
  BY <1>1, <1>4 DEF ReadApplied, Goto, IInv, TypeOK
<1>5. CASE Busy(p) \/ Fail(p) \/ Stop(p)
  BY <1>1, <1>5 DEF Busy, Fail, Stop
<1>6. CASE Exec(p)
  BY <1>1, <1>2, <1>6 DEF Exec
<1>7. CASE Record(p)
  BY <1>1, <1>7 DEF Record, Goto, IInv, TypeOK
<1> QED
  BY <1>3, <1>4, <1>5, <1>6, <1>7 DEF Step

(* A start makes six calls and two for each migration its binary embeds,   *)
(* at most, however many other processes start, fail and stop meanwhile.   *)
THEOREM StartIsShort == Spec => EveryStepCounts
<1> DEFINE A == \A p \in Proc : pc[p] \in Migrating =>
                  \/ CallsLeft(p)' \in 0..CallsLeft(p) - 1
                  \/ UNCHANGED <<pc[p], pending[p]>>
<1>1. IInv /\ Counted /\ Counted' /\ [Next]_vars => [A]_vars
  <2> SUFFICES ASSUME IInv, Counted, Counted', [Next]_vars, NEW p \in Proc, pc[p] \in Migrating
               PROVE  \/ CallsLeft(p)' \in 0..CallsLeft(p) - 1
                      \/ UNCHANGED <<pc[p], pending[p]>>
    OBVIOUS
  <2>1. CASE UNCHANGED vars
    BY <2>1 DEF vars
  <2>2. ASSUME NEW q \in Proc, q # p, Start(q) \/ Step(q) \/ Fail(q) \/ Stop(q)
        PROVE  UNCHANGED <<pc[p], pending[p]>>
    BY <2>2, OthersDoNotCount
  <2>3. CASE Step(p)
    BY <2>3, StepIsOnward, OnwardUsesUp, RecordUsesUp
  <2>4. CASE Fail(p)
    <3>1. Onward(p)
      BY <2>4, GivesUp DEF Fail
    <3>2. CASE pc[p] # "record"
      BY <3>1, <3>2, OnwardUsesUp
    <3>3. CASE pc[p] = "record"
      <4>1. CallsLeft(p)' = 0
        BY <2>4, <3>3 DEF CallsLeft, Fail, GiveUp, Goto, IInv, TypeOK
      <4> DEFINE n == Cardinality(pending[p])
      <4>2. n \in Nat /\ n # 0 /\ CallsLeft(p) = 2 * n
        <5>1. IsFiniteSet(pending[p]) /\ pending[p] # {}
          BY <3>3, RecordIsPending DEF Counted, Few, Migrating
        <5> QED
          BY <3>3, <5>1, FS_CardinalityType, FS_EmptySet DEF CallsLeft
      <4> HIDE DEF n
      <4> QED
        BY <4>1, <4>2
    <3> QED
      BY <3>2, <3>3
  <2>5. ~Start(p) /\ ~Stop(p)
    BY DEF Start, Stop, Migrating
  <2> QED
    BY <2>1, <2>2, <2>3, <2>4, <2>5 DEF Next
<1> QED
  BY <1>1, Invariance, PendingIsCounted, PTL DEF Spec, EveryStepCounts
=============================================================================
