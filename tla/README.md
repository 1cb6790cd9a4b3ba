# Wyvern Drive: specification and verification

Wyvern Drive keeps vaults of folders in a SQLite file. At this commit it holds
metadata only: a Go core (`src/internal`), two programs built on it (a headless
daemon, `src/cmd/wyvernd`, and a Wails desktop program, `src/cmd/desktop`) and a
React frontend (`src/frontend`). This directory holds TLA+ modules for the parts
of it that decide something, the TLC configurations that check them on small
instances, and TLAPS proofs for every instance.

- [1 Inventory](#1-inventory)
- [2 Modules and the code they stand for](#2-modules-and-the-code-they-stand-for)
- [3 Model checking](#3-model-checking)
- [4 Fairness](#4-fairness)
- [5 Proofs](#5-proofs)
- [6 Disagreements between the code and its documents](#6-disagreements-between-the-code-and-its-documents)
- [7 Not modelled, and not proved](#7-not-modelled-and-not-proved)
- [8 Plan](#8-plan)

## 1 Inventory

Paths are relative to `src/`.

| Component | State it keeps | Operations | Talks to |
|---|---|---|---|
| Folder service, `internal/filesystem/service.go` | none of its own; the rows of one transaction while a call runs | CreateLocalVault, CreateFolder, RenameEntry, MoveEntry (with `rejectCycle`), DeleteFolder (with `deleteSubtree`), three listings | `Store.WithTx` and the repositories, one call per statement |
| Repositories, `internal/database/repositories.go` | none | insert, get, list, rename, move, delete; `WithTx`; inserts of files, chunks and jobs; `UpdateJob` | SQLite through one connection |
| Schema, `migrations/0002_metadata.sql` | vaults, entries, files, chunks, jobs | keys, two partial unique indexes on names, `ON DELETE RESTRICT`, CHECKs | |
| Store handle, `internal/database/store.go` | `db` (nil when closed), `expected`, `mu`, `txMu` | Open, Close, setExpected, Readiness | every caller of the repositories; the health handler |
| Migrations, `internal/database/migrate.go` | `schema_migrations`, backup files | Migrate | started by `app.Open` of every process on the file |
| Application core, `internal/app/app.go` | store, log file, `closed` | Open, Close | both programs |
| Daemon, `cmd/wyvernd/main.go`, `server/api/health.go` | listener, server goroutine, signal context, `serveErr` | runServe, health | core, Readiness |
| Desktop program, `cmd/desktop`, `internal/app/metadata_service.go`, `dto.go` | none | start, run, release; the facade that Wails binds | core, folder service |
| Name rules, `internal/validation/names.go` | none | NormalizeName: display name and lookup key | folder service |
| Shell and sidebar, `frontend/src/App.tsx`, `VaultSidebar.tsx` | vaults, selected vault, sequence number | list, select, create | client, Browser |
| Browser view, `Browser.tsx`, `FolderView.tsx` | folder, trail, rows, loading, error, selection, dialog, sequence number | navigate, select, refresh, open dialogs | client; dialogs through callbacks |
| Dialogs, `EntryDialogs.tsx`, `MoveDialog.tsx`, `DeleteDialog.tsx`, `Modal.tsx` | busy, error, `refusedNonEmpty`; the picker's folder and trail | confirm, cancel | client; Browser through `onCreated`, `onRenamed`, `onMoved`, `onDeleted` |
| Configuration, `internal/config/config.go` | none | Load: flags over variables over the file of the data directory over defaults | both programs |
| Logging, client seam, DTO facade | none that changes | format, redact, convert | |

What makes each correct:

- *Folder service and schema*: parents are stored folders of the same vault and
  there is no cycle; siblings never share a lookup key; nothing refers to a row
  that is gone; a delete takes a whole subtree or nothing, and never an entry
  that carries a file record or a job; every call is atomic and answers with
  the code the state calls for.
- *Jobs*: a milestone changes progress only; concurrent reports never mix;
  reports made from records read in their own transactions add up.
- *Daemon and desktop*: only the address asked for is bound, and it is a
  loopback one; every way out closes what was opened, the store before the log
  file; Shutdown cuts no handler short that is in time; a signal always ends the daemon.
- *Transactions*: what was checked still holds when the write comes; no error
  path leaves a mutex, a write lock or a partial effect; every call is answered.
- *Migrations and readiness*: all pending migrations or none; never on a
  nonempty database without a snapshot of the schema that is replaced; a healthy
  answer only on the schema the binary knows; every start comes to an end.
- *Browser and dialogs*: the rows shown are those of the folder the path names;
  the path is a path; nothing is loading for ever; a recursive delete is always
  confirmed for the folder it deletes; a move stays in its vault.

What makes it hard to test: `rejectCycle` and `deleteSubtree` read over many
statements what a later one relies on; several processes share a file (nothing
keeps the daemon and the desktop program from running together) and their
transactions interleave; a call can fail at any statement, a store can close
under a call and a process can die; corrupted hierarchies must neither hang nor
be half deleted; migrations decide outside the transaction in which they act;
shutdown races the server's goroutine, handlers and a ten-second limit;
and in the frontend answers arrive in any order, at renders that are gone.
`PROJECT.json` lists these hazards at their lines, with the properties that
would catch each going wrong.

## 2 Modules and the code they stand for

```
Schema ──────────┬─ Namespace ──── NamespaceProofs    Jobs ───── JobsProofs
 rows, indexes,  │   atomic service      ^            Daemon ─── DaemonProofs
 RESTRICT, walk  │                       │            Migrate ── MigrateProofs
                 ├─ FolderTx ───── FolderTxProofs      implements SchemaHistory
                 │   implements Namespace             Browser ── BrowserProofs
                 └─ AncestorWalk ─ AncestorWalkProofs  implements LatestRequest
SubtreeDelete ──── SubtreeDeleteProofs
```

FolderTx is the composition: the goroutines of several processes, the stores, the
file and the other programs that write to it. Each module `MC...` gives one of
them its values for TLC.

**Schema** holds the rows and the questions asked of them. A table is a function
from the identifiers stored to their rows. `KeyFree` is the two unique indexes,
`Dependents` the rows a RESTRICT protects from, `GoodParent` and `FolderParent`
the service's and the repository's check of a parent (the second is blind to the
status), `WalkVerdict` one turn of `rejectCycle`. `OnChain` says without
recursion that one entry is another or an ancestor of it: every set that holds
the second and the parents of its members holds the first. `NormalizeName` is two
functions, `Display` and `Fold`; all a guard can observe is that a name is
rejected and that two display names share a key.

**Namespace** is the abstract specification: each operation of the folder service
is one step on the committed rows. The `...Code` operators are the service's
checks in its order, so that a request which fails two of them gets the code of
the first; the actions take their effect exactly when the code is OK.
`Unavailable` is any operation failing for want of a database. The inserts of
entries of any kind and status, of file records, chunks and jobs are the
repository layer's; the service meets them as rows only. The listings answer with
the rows that their one snapshot holds; the order of the rows is a function of them.

**AncestorWalk** is `rejectCycle` turn by turn on an arbitrary hierarchy, intact or
not, and **SubtreeDelete** is `deleteSubtree` call by call: breadth-first
enumeration (`order` from position `head` on is the code's queue, its range the
visited set), validation, job check, deletes in reverse.

**FolderTx** is the service as it runs. Each client is a goroutine that serves one
call of one process; `pc` is the repository call it will make next, `tx` the rows
its transaction sees, `loc` the locals of the two loops. `txMu` is per process,
the write lock per file. `Lock`, `Begin`, `NoBegin`, `Commit`, `Rollback` are
`Store.WithTx`; the rest is one action per repository call. The transaction is
immediate, so the rows it reads at `Begin` stay the committed ones: the model does
not assume this, it is what `ChecksStillHold` shows. `Disturbances` selects what
else happens: writes of other programs, failing statements (a cancelled context
counts), `Store.Close` at any moment, death and restart of a process. `Implements`
is the refinement of Namespace, the variables of the abstract specification being
the committed rows and the last reply. It refines `Resumed`, the service on any
consistent database, because the processes find one. `Listings` are all orders in
which a query may return the children of a folder.

**Jobs** is `InsertJob`, `GetJob` and `UpdateJob` by several workers. A worker holds
the record it has read (`job`), changes what it likes in it and sends it back
(`Report`); `UpdateJob` compares the stored state with the one expected, and the
identity, and writes the progress. Since it may not change the state either, the
expected state of a running job is always the same: the comparison stops no report
that was made from a stale record, and the later of two such reports takes the
earlier one's progress back. What keeps progress is to read the record in the
transaction that updates it; `ReadInside` are the jobs whose workers do (`Advance`),
and `ProgressIsKept` says of those that no report is lost: every commit adds its own one
item to what is stored.

**Daemon** is one run of either program. `LoadResult`, `Listen` and `LogLevel` are
`config.Load` on sources of a few values each; `Load` to `Drain` is `runServe`, `Assets`
and `RunReturns` are the desktop's `run`; `OpenStore` to `NotMigrated` are `app.Open`, and
`CloseStore` and `CloseLog` are `App.Close`. The server's goroutine (`serve`) and the
connections are net/http's as this code uses it, external to the repository. `conn` is the
`http.ConnState` of each: new until the first header is complete, active while the handler
runs, then idle, for keep-alives are on, until the next header is. `Shutdown` closes the
listeners that `Serve` has registered and waits for `Serve` (`Looking`), closes idle
connections whenever it looks (`CloseIdle`), returns when none is new or active, and gives
up after its grace. A header that is complete only after Shutdown has begun reaches no
handler: the connection is dropped (`HeaderRead`), as in the Go version of `go.mod`; such a
request has no answer, and `InFlightAnswered` promises it none. Time passes in `Tick`,
one second each, and no further than the limits the code sets; `Hung` connections are
those whose query no limit ends. `HeaderTimesOut` stands for `ReadHeaderTimeout` and for
the same five seconds after which Shutdown takes a new connection for an idle one.

**Migrate** is `app.Open` and `database.Migrate` by several processes on one file.
A binary is the sequence of the texts of its migrations; a migration's effect is
a table that must not exist. `pending` is decided before the backup and the
transaction, as in the code. `Readiness` and `Healthy` are the
method and the endpoint that asks it. `Fail` is any error and any
death before the commit: Migrate's deferred rollback and SQLite's recovery come to
the same.

**SchemaHistory** is what `app.Open` promises, and what Migrate implements: a start is one
step, from recorded migrations that the binary continues to exactly the binary's own, and
it needs nothing saved only if nothing is replaced. `up` are the processes at `ready`,
`saved` the backups. The step that counts is the commit, or the reading of the applied
versions when none is pending.

**Browser** is the folder view with its dialogs. A step is an event handler with the
render and effects it causes; `requests` are the listings in flight, each with the
sequence number and the folder it was made for, `mutations` the calls of dialogs,
each with the folder its closure will refresh; `naming` is the sidebar's own dialog. `Keyboard` says whether the user
reaches the page behind an open dialog, which the overlay of `Modal.tsx` prevents
for the pointer only (section 6).

**LatestRequest** is what the sequence guard of `load` promises, and what Browser
implements with every control in reach: the view in which a new request cancels the one
before, so that there is one place whose answer is awaited (`wanted`) or none. In Browser
it is the place of the request in flight that bears the newest number.

The map in `PROJECT.json` gives the lines behind every definition. Definitions
marked *Mutant* are not part of the model: each is a definition of the model as a
plausible mistake would have it, and substituting it makes TLC report the property
that `PROJECT.json` pairs it with.

## 3 Model checking

| Run | Instance | Distinct states | Shows |
|---|---|---|---|
| `namespace` | 2 vaults, 3 entries, 3 names of which two fold together and one is rejected, 1 job, 1 chunk; one complication at a time | 106,998 | TypeOK, Tree, UniqueKeys, References, PreciousSurvives, HeldInPlace |
| `ancestor_walk` | every hierarchy on 4 identifiers | 14,928 | Sound, Complete, Terminates: the walk ends, accepts no cycle, refuses nothing else |
| `subtree_delete` | every hierarchy on 4 identifiers, at most 1 flawed entry of 5 kinds | 255,952 | ZeroMutation, WholeSubtree, OnlyCorrupted, RefusedForCause, Terminates |
| `folder_tx` | 2 calls of 16 requests, in one process or two, on a tree of 3 entries; failures, closes, crashes | 114,556 | LocksAreFreed, Implements, EveryCallReturns |
| `folder_tx_writers` | deletes and moves in 2 processes, with inserts of entries, files and jobs by other programs | 280,667 | ChecksStillHold, BackstopUnused |
| `jobs` | 2 workers, 2 jobs, one of them read inside; 4 values of progress, 2 of them invalid | 20,197 | MilestonesOnly, WholeRecords, ProgressIsKept |
| `daemon` | both programs, every combination of sources for each setting, 3 connections of which one hangs | 76,682 | Released, InFlightAnswered, ServerComesBack, BoundAsAsked, StopsAfterSignal |
| `migrate` | binaries with 1, 2 and 3 migrations, and one with an edited second | 113,573 | SchemaWhole, ReadyIsMigrated, HealthyMeansCurrent, Implements, StartSettles |
| `browser_pointer` | 2 vaults, 3 folders two deep, 4 listings, 3 dialogs | 289,201 | ListingIsCurrent, TrailLeadsHere, RecursionConfirmed, NoCrossVaultMove, ActsOnWhatIsHere, OneCallPerDialog, Implements, LoadingEnds |
| `browser_keyboard_...` (3) | the same, with the keyboard | stops at the violation | the three violations of section 6 |

Some properties are proved and no run repeats them: the type invariants (`TypeCorrect`) of
every module but Namespace, the step counts (`EveryTurnCounts`, `EveryStepCounts`), which
say of every size what the liveness properties of the same runs say of one, and `BackedUp`,
which `Implements` of Migrate contains. `OneCallPerDialog` and `Implements` of Browser are
run with the pointer; that they hold with the keyboard too is proved only.

Why these bounds are enough to be worth something. Entries: a cycle that the code
could close needs two moves and two entries, one that it must not enter from
outside a third, and a walk onto it a fourth; a subtree with a branch and a level
below has four entries, all orders of the two children included. Names: one pair
that folds together and one more is all that `KeyFree` can tell apart. Vaults: a
second one is what every cross-vault rule is about. Clients: a conflict has two
sides, and in one process the second also waits for the mutex of the first.
Binaries: older, newer, newest and edited are the four ways the recorded versions
can relate to the known ones. Sources: `MCGivens` varies one setting at a time, each
over all its sources, since no setting but the data directory decides what another
reads. Connections: when Shutdown begins one can be new or idle, one have its handler
running, and one never end. Listings and dialogs: an answer can be overtaken
once after a navigation, once after a refresh; A to B to A takes three requests, the
fourth is the one that a success sends.

The run of Namespace uses the symmetry of entry and vault identifiers and leaves the
last reply out of the state's fingerprint; both are sound because no guard tells
identifiers apart or reads the reply, action properties are evaluated on every
step, and no liveness property is checked there. `MCInstance` keeps a second vault,
folding names and file records apart, a bound that the proofs do without. Deadlock is not checked where
the system really stops: AncestorWalk and SubtreeDelete end, the clients of FolderTx
make one call each, a program of Daemon exits, and Browser's bounds on listings and
dialogs are reached.

All bounds: `MaxFlawed` (SubtreeDelete), `MaxLoads` and `MaxMounts` (Browser), one call
per client, `Placements`, `Menu`, `Seeds` and `Disturbances` (FolderTx), `Identity`,
`Progress`, `JobState` (Jobs), `Givens` (Daemon), `MCInstance` (Namespace), and the sizes of
the constant sets. Entry identifiers are never used twice (128 random bits); `unused`
holds those left.

## 4 Fairness

AncestorWalk and SubtreeDelete: weak fairness of the next step, a loop that goes on.
FolderTx: weak fairness of each client's `Step`, a goroutine that is scheduled and a
statement that returns; none for calls, failures or crashes. It suffices for `txMu`
because clients are finitely many and call once; `NoBegin`, the end of
`busy_timeout`, is what keeps a client from waiting for the write lock for ever.
Migrate: the same for each process's `Step`; starting, stopping and failing are free.
Daemon: the main goroutine and the server's are scheduled, time passes, a header that is
late is given up and a query that does not hang is answered; nobody has to signal, to
connect, to send a header, to leave or to close the window, and the window's `RunReturns` is not fair.
Jobs claims no liveness and assumes no fairness.
Browser: every call to the backend is eventually answered, with a result or an error
(`EveryCallReturns` is why that may be assumed); the user is under no obligation.

## 5 Proofs

`NamespaceProofs`, for any sets of vaults, entries, jobs, names and keys, finite or
not, under the named assumptions of Schema (`RootAssumption`: NULL is no identifier;
`NoEntryAssumption`; `NameAssumption`: what NormalizeName returns is a name or a
rejection):

- `Typing`: `Spec => []TypeOK`, one step per operation.
- `Consistency`: `Consistent` is inductive, from the empty database and from any
  consistent one. It conjoins TypeOK, Tree, UniqueKeys, References, and that no stored
  identifier is still unused. The conjuncts need each other: without the last an insert
  could overwrite a folder and orphan its children; without References a parent
  checked against its vault could belong to none; without TypeOK nothing else is
  defined.
- `HierarchyIsATree`, `NoCollisions`, `NoDanglingReferences` follow. The heart is
  `MoveKeepsTree`: a set of entries that a move closes into a cycle holds the moved entry
  (else it was one before) and so the destination; the set that shows the moved entry is
  not on the destination's chain meets it in a smaller set, which would have been a cycle
  before the move. `RemoveKeepsTree` and
  `SubtreeHoldsItsChildren` do the same for deletes: what `Subtree` takes leaves no
  entry behind without its parent.
- `RemoteReferencesSurvive`, `UnavailableEntriesStay`: the two action properties, from
  `StepKinds`, which sorts every step by what it may do to the entries.

`AncestorWalkProofs`, for hierarchies of any size: `WalkInv` adds to the two
properties the state of a walk under way (`Climbing`: the visited entries and the
current one are ancestors of the destination, the source is not among those visited,
the visited ones lead on to visited ones or to the current one, and carry no cycle
while the current one is new). `WalkIsSound` is that an accepted move closes no
cycle even on a corrupted store; `WalkIsComplete` that on an intact one nothing but a
cycle is refused. Together they are why Namespace may use `OnChain` where the code
walks. `WalkIsShort` is the reason that the walk ends: a turn that goes on meets an entry
no turn has met, so there are at most as many turns as entries, and one more, on a
corrupted cycle too.

`FolderTxProofs`, for any clients, processes, requests, databases and disturbances. From
the assumptions of Schema, that entry identifiers are finitely many
(`FiniteAssumption`, for the listings), that requests are Namespace's
(`MenuAssumption`), that what is found is a database (`SeedAssumption`, and Init says that
it is `Consistent`, as `Consistency` shows every run leaves it). The invariant `IInv` is:

- `Locking`: whoever is in a transaction holds the write lock and his process's mutex, and
  nobody else holds either. It is why no other commit can fall between a check and a
  write, and why other writers meet no open transaction (`WriterStep`).
- `Inside`, that is `At` of each client: what each repository call may rely on, in terms
  of the *committed* rows. Until the first write `tx` equals `db`; at `walk` the
  destination is a good one and the visited entries are `Climbing` from it; at `expand` the
  order so far is an enumeration (`Enumerating`: no entry twice, parents before children,
  all children of what has been expanded); at `deleteRows` the rows of the transaction are
  the committed ones without those after `pos`; at `commit` the answer is the code of
  Namespace and the rows are its result (`Answers`, `Result`).
- `Outside`, `Shape`, and `Consistent` of the abstract state, which the proof takes from
  `NamespaceProofs` through the refinement itself: a step is one of Namespace, so the
  committed rows stay a forest, so the next walk and the next enumeration are right.

There is one lemma for each action (`...Step`), which proves the invariant after it and
that it is a step or a stutter of Namespace; `Refuses` and `Accepts` are the two ways a
call takes effect. `EnumeratedIsSubtree` is that the breadth-first order, when
complete, is `Subtree`; `LastIsFree` that a delete in reverse order meets no dependent.
`Refinement` (`Spec => Implements`), `ChecksHold`, `Backstop`, `LocksFree` and `TypeCorrect`
follow. `Bounded` counts: `CallsLeft` of a client, linear in the number of entries, falls
with each step of its call and changes with nobody else's, so how long a call keeps the
locks depends on the entries alone.

`SubtreeDeleteProofs`, for finitely many identifiers and any hierarchy on them, with
cycles, dangling parents and flaws of any kind: the invariant has the state of the
enumeration and, while deleting, that exactly the rows after `pos` are gone.
`NoPartialDelete`, `WholeDelete`, `CorruptedOnly`, `RefusalHasACause`, and `WorkIsLinear`:
the calls of a delete are at most five and three for each entry, because the visited set
keeps the order without repetitions and so no longer than the table.

`MigrateProofs`, for any processes and binaries: the file's versions and tables are
those of a prefix; a process that prepares knows a prefix of its own migrations in the
file (`Agrees`) and all others as pending (`Left`); its transaction extends what is
committed and, once it has applied anything, the process holds a snapshot of just
that (`SnappedNow`). `Wholeness`, `ReadyMeansMigrated`, `HealthIsCurrent`, `Backups`,
`TypeCorrect`. `AtomicStarts` is the refinement of SchemaHistory: `HoldsItsOwn` and
`SnappedExactly` turn what the invariant says version by version into equality of what is
recorded, saved and known. `StartIsShort` bounds the calls of a start by six and two for
each migration of its binary.

`JobsProofs`, for any workers, jobs and progress: the writer is the one worker inside;
before its write it sees the committed rows, and holds, of a job of `ReadInside`, the
stored record; after it, that record with its own progress added. `Milestones`,
`Wholeness`, `Progressing`, `TypeCorrect`.

`DaemonProofs`, for any connections, hung ones included, and any sources: `Holding` is what
is open at each point of the main goroutine; `Timely` bounds the seconds since Shutdown by
the age of every handler that can still end, for none begins after Shutdown, so that the
grace outlasts the deadline of the handler. `Releasing`, `Answering`, `Binding`, `TypeCorrect`, and
`ComingBack`: once Shutdown has begun, the goroutine that main waits for at the end has
returned, or has its listener closed, or has not begun to serve and will be told.

`BrowserProofs`, for any vaults, any tree of folders, any number of listings and dialogs,
has two invariants. `AnyUse` holds whatever the user reaches: requests are told apart by
their numbers and dialogs by their mounts (`Numbered`), and each dialog that is busy has
its one call. From it follow `OneCall`, `TypeCorrect` and `LatestOnly`, the refinement of
LatestRequest: the guard `seq.current !== my` lets through the newest answer and no other.
`IInv` needs the hypothesis `~Keyboard`: with the pointer alone a dialog keeps the user from
the page, so that an open dialog, its call in flight and the folder they were made for
belong to what is shown (`DialogBelongs`, `CallBelongs`); the newest request is for the
current folder (`NewestIsHere`). `Current`, `Trail`, `NeverSilent`, `WithinVault`, and
`ActsHere`, for which `Selected` is added: every handler that leaves a folder clears the
selection, but for the one that opens a folder by its name and selects that folder. Without
the hypothesis all five are false: section 6 has three of them; the refresh that puts the
rows of another folder under the path lets the user open one of these rows, which is
appended to a trail it is not on; and a dialog stays open when the folder under it changes.

The theorems that count steps are as much of termination as can be proved here: that no
call can go on for ever once it runs. That it runs at all is fairness, and stays with TLC.

## 6 Disagreements between the code and its documents

All three have one cause: `Modal.tsx` (17-61) declares `aria-modal` and covers the page, but
does not keep the focus inside the panel and does not make the page inert, so Tab and
Enter reach the sidebar, the breadcrumb, the rows and the toolbar behind an open
dialog. With the pointer alone (`browser_pointer`) all three properties hold. What does not
depend on the overlay holds with the keyboard too (`LatestOnly`, `OneCall`): the sequence
guard, and that a dialog's call is its own.

1. `browser_keyboard_listing`: confirm a dialog, go to another folder before the answer.
   The success calls the `refresh` of the old render (`Browser.tsx:104`), whose request is
   the newest: the old folder's rows appear under the new path. The plan says "stale
   list response cannot overwrite a newly selected folder"
   (`WYVERN_FOUNDATION_PLAN.md:204`). The sequence guard works; the wrong request is made.
2. `browser_keyboard_recursion`: let a delete be refused as not empty, then open another
   folder by its name (the click goes on to the row and selects it) and press Delete in
   the toolbar. React keeps the dialog's instance and with it
   `refusedNonEmpty`, so the next confirmation is recursive for a folder the backend never
   refused. `DeleteDialog.tsx:9-12` says "Recursion is never silent".
3. `browser_keyboard_move`: select another vault under an open move dialog. Its
   destinations are those of the new vault, its source is of the old one.
   `MoveDialog.tsx:11-12` says that it "never attempts a cross-vault move".

## 7 Not modelled, and not proved

Every safety property that a run checks is also proved. Liveness stays with TLC
throughout, as it is out of the proof system's reach: `Terminates`, `EveryCallReturns`,
`StartSettles`, `StopsAfterSignal`, `LoadingEnds`. For the first three the bound on the
steps is proved (section 5), for `StopsAfterSignal` that main waits for nobody who will not
come back; what TLC adds is that with the fairness of section 4 the steps are taken.

Not modelled:

- The navigation inside MoveDialog and Shell's own listing of vaults: each repeats the
  sequence guard of Browser on a smaller state.
- The parsing of flags, JSON and addresses in `config.go`, the migration file names in
  `loadMigrations`, the redaction of log attributes, the Unicode tables behind
  NormalizeName: pure functions, of which the models keep the verdict.
- The DTO facade and the client seam: conversions without state.
- Timestamps, sizes, key material, hashes and the sort order of listings: no guard reads
  them. Of the entry statuses only "available" is ever compared with.
- Wails' scheduling of calls and its own reaction to signals; SQLite below the statement;
  net/http beyond the states of a connection and what `runServe` relies on.
- Workers that would call `UpdateJob`: none is written yet. Jobs takes any caller.

Simplifications that a reader should know. The rows the listings of Browser return are
taken from the rows that exist at the answer (`Kids`); its tree does not change, because
its properties are about which folder is shown and not about what it holds. The other
writers of FolderTx commit in one step, as an immediate transaction looks from outside. A
failed call of FolderTx answers `NoDatabase`, without its request. Daemon's `Migrated` is
one step; Migrate has it call by call. A snapshot of Migrate is of the recorded versions:
rows that another process writes between `VACUUM INTO` and `BEGIN` are in the file and not
in the snapshot, and no property speaks of them. The recorded versions are a function, as
`schema_migrations` has a primary key, so that one cannot be recorded twice.

The invariants of Namespace are about atomic operations. That calls which interleave
statement by statement keep them is what `Implements`, `ChecksStillHold` and
`BackstopUnused` of FolderTx add.

## 8 Plan

Done, in this order: Schema, Namespace and its proofs; AncestorWalk and its proofs;
SubtreeDelete; FolderTx with the refinement; Migrate; Browser; the listings; Jobs;
Daemon; the proofs of all of them, then of FolderTx's refinement; SchemaHistory and
LatestRequest with the refinements of Migrate and Browser; the bounds on the steps of every
loop.

Worth adding when the code grows: the workers that move a job from state to state
(Jobs has the table they will write to); the upload and download paths that fill files
and chunks, which Namespace has as inserts only; MoveDialog's navigation, if it gains
state of its own.
