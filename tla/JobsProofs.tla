----------------------------- MODULE JobsProofs -----------------------------
(***************************************************************************)
(* Proofs about Jobs, for any workers, jobs and progress: what a stored    *)
(* job may lose to stale reports, and what it may not.                     *)
(***************************************************************************)
EXTENDS Jobs, TLAPS

Whole(T) == IsTable(T) /\ \A i \in DOMAIN T : ValidProgress(T[i])

(* Table U is table T with job j written whole, as a milestone or anew. *)
Writes(T, j, U) ==
  /\ Whole(U)
  /\ DOMAIN U = DOMAIN T \cup {j.id}
  /\ U[j.id] = j
  /\ \A i \in DOMAIN T \ {j.id} : U[i] = T[i]
  /\ j.id \in DOMAIN T => /\ T[j.id].identity = j.identity
                          /\ T[j.id].state = j.state
                          /\ T[j.id].state \notin Terminal

Grows(T, j) == j.id \in DOMAIN T \cap ReadInside => j = OneMore(T[j.id])

Locking == \A w \in Worker : pc[w] # "idle" <=> writer = w

IdleHolds(w) == pc[w] = "idle" /\ job[w] # NoJob => job[w].id \notin ReadInside

InsideSees(w) ==
  pc[w] = "inside" =>
    /\ tx[w] = rows
    /\ job[w] # NoJob /\ job[w].id \in ReadInside =>
         job[w].id \in DOMAIN rows /\ job[w] = rows[job[w].id]

WrittenHolds(w) ==
  pc[w] = "written" => /\ job[w] \in Job
                       /\ Writes(rows, job[w], tx[w])
                       /\ Grows(rows, job[w])

(* The inductive invariant. *)
IInv ==
  /\ TypeOK
  /\ DOMAIN tx = Worker
  /\ Locking
  /\ \A w \in Worker : IdleHolds(w) /\ InsideSees(w) /\ WrittenHolds(w)

-----------------------------------------------------------------------------
(* The write of InsertJob. *)
LEMMA Inserting ==
  ASSUME NEW T, Whole(T), NEW j \in Job, InsertCode(T, j) = "OK"
  PROVE  LET U == [i \in DOMAIN T \cup {j.id} |-> IF i = j.id THEN j ELSE T[i]]
         IN Writes(T, j, U) /\ Grows(T, j)
<1>1. j.id \notin DOMAIN T /\ ValidProgress(j)
  BY DEF InsertCode
<1>2. j.id \in JobId
  BY DEF Job
<1> QED
  BY <1>1, <1>2 DEF Writes, Grows, Whole, IsTable

(* The write of UpdateJob. *)
LEMMA Updating ==
  ASSUME NEW T, Whole(T), NEW j \in Job, NEW e, UpdateCode(T, j, e) = "OK"
  PROVE  /\ j.id \in DOMAIN T
         /\ Writes(T, j, [T EXCEPT ![j.id] = Rewrite(@, j)])
<1>1. /\ j.id \in DOMAIN T /\ T[j.id].state \notin Terminal
      /\ T[j.id].identity = j.identity /\ T[j.id].state = j.state /\ ValidProgress(j)
  BY DEF UpdateCode, Frozen
<1>2. T[j.id] \in Job /\ T[j.id].id = j.id
  BY <1>1 DEF Whole, IsTable
<1>3. Rewrite(T[j.id], j) = j
  BY <1>1, <1>2 DEF Rewrite, Job
<1> DEFINE U == [T EXCEPT ![j.id] = Rewrite(@, j)]
<1>4. DOMAIN U = DOMAIN T /\ U[j.id] = j /\ \A i \in DOMAIN T \ {j.id} : U[i] = T[i]
  BY <1>1, <1>3
<1>5. Whole(U)
  BY <1>1, <1>4 DEF Whole, IsTable
<1> QED
  BY <1>1, <1>4, <1>5 DEF Writes

-----------------------------------------------------------------------------
LEMMA Initially == Init => IInv
  BY WorkerAssumption DEF Init, IInv, TypeOK, IsTable, Locking, IdleHolds, InsideSees,
                          WrittenHolds

LEMMA Leaving ==
  ASSUME IInv, NEW w \in Worker, pc[w] # "idle", Rollback(w)
  PROVE  IInv'
<1>1. writer = w /\ \A v \in Worker \ {w} : pc[v] = "idle"
  BY DEF IInv, Locking
<1> USE <1>1 DEF Rollback, Leave
<1>2. TypeOK' /\ (DOMAIN tx = Worker)'
  BY DEF IInv, TypeOK, IsTable
<1>3. Locking'
  BY WorkerAssumption DEF IInv, Locking, TypeOK
<1>4. ASSUME NEW v \in Worker PROVE (IdleHolds(v) /\ InsideSees(v) /\ WrittenHolds(v))'
  BY <1>1 DEF IInv, TypeOK, IdleHolds, InsideSees, WrittenHolds
<1> QED
  BY <1>2, <1>3, <1>4 DEF IInv

LEMMA Writing ==
  ASSUME IInv, NEW w \in Worker, pc[w] = "inside", NEW code, NEW j \in Job, NEW T,
         Write(w, code, j, T),
         code = "OK" => Writes(tx[w], j, T) /\ Grows(tx[w], j)
  PROVE  IInv'
<1>1. CASE code # "OK"
  BY <1>1, Leaving DEF Write
<1>2. CASE code = "OK"
  <2>1. writer = w /\ \A v \in Worker \ {w} : pc[v] = "idle"
    BY DEF IInv, Locking
  <2>2. tx[w] = rows
    BY DEF IInv, InsideSees
  <2>3. Writes(rows, j, T) /\ Grows(rows, j)
    BY <1>2, <2>2
  <2>4. /\ pc' = [pc EXCEPT ![w] = "written"] /\ tx' = [tx EXCEPT ![w] = T]
        /\ job' = [job EXCEPT ![w] = j] /\ UNCHANGED <<rows, writer>>
    BY <1>2 DEF Write
  <2>5. TypeOK' /\ (DOMAIN tx = Worker)'
    BY <2>3, <2>4 DEF IInv, TypeOK, IsTable, Writes, Whole
  <2>6. Locking'
    BY <2>1, <2>4 DEF IInv, Locking, TypeOK
  <2>7. ASSUME NEW v \in Worker PROVE (IdleHolds(v) /\ InsideSees(v) /\ WrittenHolds(v))'
    <3>1. CASE v = w
      <4>1. pc'[w] = "written" /\ job'[w] = j /\ tx'[w] = T /\ rows' = rows
        BY <2>4 DEF IInv, TypeOK
      <4>2. Writes(rows, j, T)' /\ Grows(rows, j)'
        BY <2>3, <2>4 DEF Writes, Grows
      <4> QED
        BY <3>1, <4>1, <2>3 DEF IdleHolds, InsideSees, WrittenHolds
    <3>2. CASE v # w
      <4>1. pc'[v] = "idle" /\ job'[v] = job[v]
        BY <2>1, <2>4, <3>2 DEF IInv, TypeOK
      <4> QED
        BY <2>1, <3>2, <4>1 DEF IInv, IdleHolds, InsideSees, WrittenHolds
    <3> QED
      BY <3>1, <3>2
  <2> QED
    BY <2>5, <2>6, <2>7 DEF IInv
<1> QED
  BY <1>1, <1>2

LEMMA InsertJobKeeps ==
  ASSUME IInv, NEW w \in Worker, NEW j \in Job, InsertJob(w, j)
  PROVE  IInv'
<1>1. pc[w] = "inside"
  BY DEF InsertJob
<1>2. Whole(tx[w])
  BY <1>1 DEF IInv, TypeOK, InsideSees, Whole, ValidProgress
<1> QED
  BY <1>1, <1>2, Inserting, Writing DEF InsertJob

LEMMA UpdateJobKeeps ==
  ASSUME IInv, NEW w \in Worker, pc[w] = "inside", NEW j \in Job, NEW e,
         UpdateJob(w, j, e), Grows(tx[w], j)
  PROVE  IInv'
<1> DEFINE T == IF j.id \in DOMAIN tx[w] THEN [tx[w] EXCEPT ![j.id] = Rewrite(@, j)] ELSE tx[w]
<1>1. Whole(tx[w])
  BY DEF IInv, TypeOK, InsideSees, Whole, ValidProgress
<1>2. ASSUME UpdateCode(tx[w], j, e) = "OK"
      PROVE  Writes(tx[w], j, T)
  BY <1>1, <1>2, Updating
<1>3. Write(w, UpdateCode(tx[w], j, e), j, T)
  BY DEF UpdateJob
<1> HIDE DEF T
<1> QED
  BY <1>2, <1>3, Writing

LEMMA ReportKeeps ==
  ASSUME IInv, NEW w \in Worker,
         NEW identity \in Identity, NEW state \in JobState, NEW expected \in JobState,
         NEW bytes \in Progress, NEW items \in Progress,
         Report(w, identity, state, bytes, items, expected)
  PROVE  IInv'
<1> DEFINE j == [job[w] EXCEPT !.identity = identity, !.state = state,
                               !.bytes = bytes, !.items = items]
<1>1. pc[w] = "inside" /\ job[w] \in Job /\ job[w].id \notin ReadInside /\ UpdateJob(w, j, expected)
  BY DEF Report, IInv, TypeOK
<1>2. j \in Job /\ j.id = job[w].id
  BY <1>1, ProgressAssumption DEF Job, AnyProgress
<1>3. Grows(tx[w], j)
  BY <1>1, <1>2 DEF Grows
<1> HIDE DEF j
<1> QED
  BY <1>1, <1>2, <1>3, UpdateJobKeeps

LEMMA AdvanceKeeps ==
  ASSUME IInv, NEW w \in Worker, Advance(w)
  PROVE  IInv'
<1> DEFINE j == OneMore(job[w])
<1>1. /\ pc[w] = "inside" /\ job[w] \in Job /\ job[w].id \in ReadInside
      /\ UpdateJob(w, j, job[w].state)
  BY DEF Advance, IInv, TypeOK
<1>2. j \in Job /\ j.id = job[w].id
  <2> DEFINE b == [job[w].bytes EXCEPT !.completed = @ + 1]
             t == [job[w].items EXCEPT !.completed = @ + 1]
  <2>1. b \in AnyProgress /\ t \in AnyProgress
    BY <1>1 DEF Job, AnyProgress
  <2>2. j = [job[w] EXCEPT !.bytes = b, !.items = t]
    BY <1>1, Zenon DEF Job, OneMore
  <2> HIDE DEF b, t, j
  <2>3. job[w] \in [id : JobId, identity : Identity, state : JobState,
                    bytes : AnyProgress, items : AnyProgress]
    BY <1>1 DEF Job
  <2> QED
    BY <2>1, <2>2, <2>3 DEF Job
<1>3. tx[w][job[w].id] = job[w]
  BY <1>1 DEF Advance, IInv, InsideSees
<1>4. Grows(tx[w], j)
  BY <1>2, <1>3 DEF Grows
<1> HIDE DEF j
<1> QED
  BY <1>1, <1>2, <1>4, UpdateJobKeeps

LEMMA ReadingKeeps ==
  ASSUME IInv, NEW w \in Worker, NEW i \in JobId, GetJob(w, i) \/ TxGetJob(w, i)
  PROVE  IInv'
<1>1. CASE GetJob(w, i)
  <2>1. rows[i] \in Job /\ rows[i].id = i
    BY <1>1 DEF GetJob, IInv, TypeOK, IsTable
  <2>2. TypeOK' /\ (DOMAIN tx = Worker)' /\ Locking'
    BY <1>1, <2>1 DEF GetJob, IInv, TypeOK, Locking, IsTable
  <2>3. ASSUME NEW v \in Worker PROVE (IdleHolds(v) /\ InsideSees(v) /\ WrittenHolds(v))'
    <3>1. CASE v = w
      BY <1>1, <2>1, <3>1 DEF GetJob, IInv, TypeOK, IdleHolds, InsideSees, WrittenHolds
    <3>2. CASE v # w
      <4>1. job'[v] = job[v] /\ UNCHANGED <<rows, writer, pc, tx>>
        BY <1>1, <3>2 DEF GetJob, IInv, TypeOK
      <4>2. IdleHolds(v) /\ InsideSees(v) /\ WrittenHolds(v)
        BY DEF IInv
      <4> QED
        BY <4>1, <4>2 DEF IdleHolds, InsideSees, WrittenHolds
    <3> QED
      BY <3>1, <3>2
  <2> QED
    BY <2>2, <2>3 DEF IInv
<1>2. CASE TxGetJob(w, i)
  <2>1. tx[w] = rows /\ rows[i] \in Job /\ rows[i].id = i /\ i \in DOMAIN rows
    BY <1>2 DEF TxGetJob, IInv, TypeOK, IsTable, InsideSees
  <2>2. TypeOK' /\ (DOMAIN tx = Worker)' /\ Locking'
    BY <1>2, <2>1 DEF TxGetJob, IInv, TypeOK, Locking, IsTable
  <2>3. ASSUME NEW v \in Worker PROVE (IdleHolds(v) /\ InsideSees(v) /\ WrittenHolds(v))'
    <3>1. CASE v = w
      BY <1>2, <2>1, <3>1 DEF TxGetJob, IInv, TypeOK, IdleHolds, InsideSees, WrittenHolds
    <3>2. CASE v # w
      <4>1. job'[v] = job[v] /\ UNCHANGED <<rows, writer, pc, tx>>
        BY <1>2, <3>2 DEF TxGetJob, IInv, TypeOK
      <4>2. IdleHolds(v) /\ InsideSees(v) /\ WrittenHolds(v)
        BY DEF IInv
      <4> QED
        BY <4>1, <4>2 DEF IdleHolds, InsideSees, WrittenHolds
    <3> QED
      BY <3>1, <3>2
  <2> QED
    BY <2>2, <2>3 DEF IInv
<1> QED
  BY <1>1, <1>2

LEMMA BeginKeeps ==
  ASSUME IInv, NEW w \in Worker, Begin(w)
  PROVE  IInv'
<1>1. \A v \in Worker : pc[v] = "idle"
  BY WorkerAssumption DEF Begin, WriteLockFree, IInv, Locking
<1>2. TypeOK' /\ (DOMAIN tx = Worker)'
  BY DEF Begin, IInv, TypeOK, IsTable
<1>3. Locking'
  BY <1>1 DEF Begin, IInv, TypeOK, Locking
<1>4. ASSUME NEW v \in Worker PROVE (IdleHolds(v) /\ InsideSees(v) /\ WrittenHolds(v))'
  BY <1>1 DEF Begin, IInv, TypeOK, IdleHolds, InsideSees, WrittenHolds
<1> QED
  BY <1>2, <1>3, <1>4 DEF IInv

LEMMA CommitKeeps ==
  ASSUME IInv, NEW w \in Worker, Commit(w)
  PROVE  IInv'
<1>1. writer = w /\ \A v \in Worker \ {w} : pc[v] = "idle"
  BY DEF Commit, IInv, Locking
<1>2. Whole(tx[w])
  BY DEF Commit, IInv, WrittenHolds, Writes
<1>3. TypeOK' /\ (DOMAIN tx = Worker)'
  BY <1>2 DEF Commit, Leave, IInv, TypeOK, IsTable, Whole, ValidProgress
<1>4. Locking'
  BY <1>1, WorkerAssumption DEF Commit, Leave, IInv, TypeOK, Locking
<1>5. ASSUME NEW v \in Worker PROVE (IdleHolds(v) /\ InsideSees(v) /\ WrittenHolds(v))'
  BY <1>1 DEF Commit, Leave, IInv, TypeOK, IdleHolds, InsideSees, WrittenHolds
<1> QED
  BY <1>3, <1>4, <1>5 DEF IInv

(* A worker may name any state and any identity of the right type. *)
LEMMA Inductive == IInv /\ [Next]_vars => IInv'
<1> SUFFICES ASSUME IInv, [Next]_vars PROVE IInv'
  OBVIOUS
<1>1. ASSUME NEW w \in Worker, NEW i \in JobId, GetJob(w, i) \/ TxGetJob(w, i) PROVE IInv'
  BY <1>1, ReadingKeeps
<1>2. ASSUME NEW w \in Worker, Begin(w) PROVE IInv'
  BY <1>2, BeginKeeps
<1>3. ASSUME NEW w \in Worker, Advance(w) PROVE IInv'
  BY <1>3, AdvanceKeeps
<1>4. ASSUME NEW w \in Worker, Commit(w) PROVE IInv'
  BY <1>4, CommitKeeps
<1>5. ASSUME NEW w \in Worker, Fail(w) PROVE IInv'
  BY <1>5, Leaving DEF Fail
<1>6. ASSUME NEW w \in Worker, NEW i \in JobId, NEW identity \in Identity, NEW state \in JobState,
             NEW bytes \in Progress, NEW items \in Progress,
             InsertJob(w, [id |-> i, identity |-> identity, state |-> state,
                           bytes |-> bytes, items |-> items])
      PROVE  IInv'
  <2>1. [id |-> i, identity |-> identity, state |-> state, bytes |-> bytes, items |-> items] \in Job
    BY ProgressAssumption DEF Job, AnyProgress
  <2> QED
    BY <1>6, <2>1, InsertJobKeeps
<1>7. ASSUME NEW w \in Worker, NEW identity \in Identity, NEW state \in JobState,
             NEW expected \in JobState, NEW bytes \in Progress, NEW items \in Progress,
             Report(w, identity, state, bytes, items, expected)
      PROVE  IInv'
  BY <1>7, ReportKeeps
<1>8. CASE UNCHANGED vars
  BY <1>8 DEF vars, IInv, TypeOK, Locking, IdleHolds, InsideSees, WrittenHolds
<1> QED
  BY <1>1, <1>2, <1>3, <1>4, <1>5, <1>6, <1>7, <1>8 DEF Next

LEMMA Invariance == Spec => []IInv
<1>1. Init => IInv
  BY Initially
<1>2. IInv /\ [Next]_vars => IInv'
  BY Inductive
<1> QED
  BY <1>1, <1>2, PTL DEF Spec

(* Every stored job has its key, a state of its type and a progress that   *)
(* the CHECKs of its table allow.                                          *)
THEOREM TypeCorrect == Spec => []TypeOK
<1>1. IInv => TypeOK
  BY DEF IInv
<1> QED
  BY <1>1, Invariance, PTL

(* The table only changes when a commit writes the job its worker holds. *)
LEMMA OnlyCommit ==
  ASSUME IInv, [Next]_vars, rows' # rows
  PROVE  \E w \in Worker : job[w] \in Job /\ Writes(rows, job[w], rows') /\ Grows(rows, job[w])
<1>1. PICK w \in Worker : Commit(w)
  <2>1. ASSUME NEW w \in Worker, NEW code, NEW j, NEW T, Write(w, code, j, T) PROVE FALSE
    BY <2>1 DEF Write, Rollback
  <2>2. ASSUME NEW w \in Worker, NEW j, NEW e, UpdateJob(w, j, e) PROVE FALSE
    BY <2>1, <2>2, Zenon DEF UpdateJob
  <2>3. ASSUME NEW w \in Worker, NEW j, InsertJob(w, j) PROVE FALSE
    BY <2>1, <2>3, Zenon DEF InsertJob
  <2>4. ASSUME NEW w \in Worker, Advance(w) PROVE FALSE
    BY <2>2, <2>4, Zenon DEF Advance
  <2>5. ASSUME NEW w \in Worker, NEW identity, NEW state, NEW bytes, NEW items, NEW expected,
               Report(w, identity, state, bytes, items, expected)
        PROVE  FALSE
    BY <2>2, <2>5, Zenon DEF Report
  <2>6. ASSUME NEW w \in Worker, NEW i, GetJob(w, i) \/ TxGetJob(w, i) \/ Begin(w) \/ Fail(w)
        PROVE  FALSE
    BY <2>6 DEF GetJob, TxGetJob, Begin, Fail, Rollback
  <2>7. ~ UNCHANGED vars
    BY DEF vars
  <2> QED
    BY <2>3, <2>4, <2>5, <2>6, <2>7, Zenon DEF Next
<1>2. rows' = tx[w] /\ pc[w] = "written"
  BY <1>1 DEF Commit
<1> QED
  BY <1>2 DEF IInv, WrittenHolds

(* UpdateJob reports milestones only: a stored job keeps its identity and  *)
(* its state, and a terminal job is not written at all.                    *)
THEOREM Milestones == Spec => MilestonesOnly
<1> DEFINE A == \A i \in DOMAIN rows :
                  /\ i \in DOMAIN rows'
                  /\ rows'[i].identity = rows[i].identity
                  /\ rows'[i].state = rows[i].state
                  /\ rows[i].state \in Terminal => rows'[i] = rows[i]
<1>1. IInv /\ [Next]_vars => [A]_vars
  <2> SUFFICES ASSUME IInv, [Next]_vars, rows' # rows PROVE A
    BY DEF vars
  <2> QED
    BY OnlyCommit DEF Writes
<1> QED
  BY <1>1, Invariance, PTL DEF Spec, MilestonesOnly

(* Concurrent reports of one job overwrite each other whole, never in part,*)
(* and touch no other job.                                                 *)
THEOREM Wholeness == Spec => WholeRecords
<1> DEFINE A == rows' # rows =>
                  \E w \in Worker :
                    /\ job[w] # NoJob
                    /\ rows'[job[w].id] = job[w]
                    /\ \A i \in DOMAIN rows \ {job[w].id} : rows'[i] = rows[i]
<1>1. IInv /\ [Next]_vars => [A]_vars
  <2> SUFFICES ASSUME IInv, [Next]_vars, rows' # rows PROVE A
    BY DEF vars
  <2>1. NoJob \notin Job
    BY JobAssumption DEF Job, AnyProgress
  <2> QED
    BY <2>1, OnlyCommit DEF Writes
<1> QED
  BY <1>1, Invariance, PTL DEF Spec, WholeRecords

(* A job that its workers read in the transaction that updates it never    *)
(* loses progress, however many of them report: each commit adds its own.  *)
THEOREM Progressing == Spec => ProgressIsKept
<1> DEFINE A == \A i \in DOMAIN rows \cap ReadInside :
                  /\ i \in DOMAIN rows'
                  /\ rows'[i] \in {rows[i], OneMore(rows[i])}
<1>1. IInv /\ [Next]_vars => [A]_vars
  <2> SUFFICES ASSUME IInv, [Next]_vars PROVE A
    BY DEF vars
  <2> SUFFICES ASSUME NEW i \in DOMAIN rows \cap ReadInside
               PROVE  /\ i \in DOMAIN rows'
                      /\ rows'[i] \in {rows[i], OneMore(rows[i])}
    OBVIOUS
  <2>1. CASE rows' = rows
    BY <2>1
  <2>2. CASE rows' # rows
    <3>1. PICK w \in Worker : job[w] \in Job /\ Writes(rows, job[w], rows') /\ Grows(rows, job[w])
      BY <2>2, OnlyCommit
    <3>2. CASE i = job[w].id
      BY <3>1, <3>2 DEF Writes, Grows
    <3>3. CASE i # job[w].id
      BY <3>1, <3>3 DEF Writes
    <3> QED
      BY <3>2, <3>3
  <2> QED
    BY <2>1, <2>2
<1> QED
  BY <1>1, Invariance, PTL DEF Spec, ProgressIsKept
=============================================================================
