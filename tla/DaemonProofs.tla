---------------------------- MODULE DaemonProofs ----------------------------
(***************************************************************************)
(* Proofs about Daemon, for any connections, any of which may hang, and    *)
(* whatever the sources of the configuration say: who has been released    *)
(* at the exit, what is bound, and that Shutdown cuts no handler short     *)
(* that is in time.                                                        *)
(***************************************************************************)
EXTENDS Daemon, TLAPS

Starting == {"load", "log", "open", "migrate", "noCore"}
Serving == {"listen", "select", "shutdown", "drain"}
Showing == {"assets", "window"}
Leaving == {"closeStore", "closeLog", "exited"}

(* What is open at each point of the main goroutine. *)
Holding ==
  /\ pc \in {"load", "log"} => log = "none" /\ store = "none"
  /\ pc = "open" => log = "open" /\ store = "none"
  /\ pc = "migrate" => log = "open" /\ store = "open"
  /\ pc = "noCore" => log = "open" /\ store # "open"
  /\ pc \in Serving \cup Showing \cup {"closeStore"} => log = "open" /\ store = "open"
  /\ pc = "closeLog" => log = "open" /\ store = "closed"
  /\ pc = "exited" => log # "open" /\ store # "open"

(* What has been decided: the configuration in use is that of the sources. *)
Decided ==
  /\ pc \in {"log", "open", "migrate", "listen"} =>
       /\ LoadResult(given) = "ok"
       /\ cfg.listen = Listen(given)
  /\ pc \in Serving => program = "wyvernd"
  /\ pc \in Showing => program = "desktop"
  /\ code # "none" => pc \in Leaving

(* Only the daemon serves, and it accepts nobody once Shutdown has begun.  *)
Accepting ==
  /\ pc \in Starting \cup {"listen"} => serve = "none"
  /\ program = "desktop" => serve = "none"
  /\ serve = "none" => \A c \in Conn : conn[c] = "none"
  /\ pc \in {"select", "shutdown", "drain"} => serve # "none"
  /\ pc \in {"shutdown", "drain"} => serve # "accepting" \/ listener = "closed"
  /\ code = "0" => serve \in {"none", "returned"}

(* How long a handler that keeps to its deadline can still take, against   *)
(* the time since Shutdown began: none has begun since.                    *)
InTime(c) ==
  conn[c] = "active" =>
    /\ age[c] <= HealthDeadline
    /\ pc = "shutdown" => wait <= age[c]
Timely ==
  /\ pc \in Starting \cup {"listen", "select"} => wait = 0
  /\ \A c \in Conn \ Hung : InTime(c)
  /\ pc = "drain" \/ (program = "wyvernd" /\ code = "0") => InState({"active"}) \subseteq Hung

(* The inductive invariant. *)
IInv == TypeOK /\ Holding /\ Decided /\ Accepting /\ Timely

-----------------------------------------------------------------------------
LEMMA LoadedIsValid ==
  ASSUME NEW g \in AnyGiven, LoadResult(g) = "ok"
  PROVE  Listen(g) \in Loopback /\ LogLevel(g) \in Level
  BY DEF LoadResult, ValidAddress

LEMMA PlainIsGiven == Plain \in AnyGiven
<1>1. NoFile \in AnyFile
  BY DEF NoFile, AnyFile, AnyAddress, AnyLevel
<1> QED
  BY <1>1 DEF Plain, AnyGiven, AnyDir, AnyAddress, AnyLevel, Dir

LEMMA Initially == Init => IInv
<1> SUFFICES ASSUME Init PROVE IInv
  OBVIOUS
<1> USE DEF Init
<1>1. TypeOK /\ Holding /\ Decided
  BY GivensAssumption DEF TypeOK, Holding, Decided, Starting, Serving, Showing, Leaving
<1>2. Accepting /\ Timely
  BY DEF Accepting, Timely, Starting, InTime, InState
<1> QED
  BY <1>1, <1>2 DEF IInv

USE DEF owned, http, Goto, Starting, Serving, Showing, Leaving

LEMMA LoadKeeps == IInv /\ Load => IInv'
<1> SUFFICES ASSUME IInv, Load PROVE IInv'
  OBVIOUS
<1>1. CASE LoadResult(given) = "ok"
  <2>1. Listen(given) \in Loopback /\ LogLevel(given) \in Level
    BY <1>1, LoadedIsValid DEF IInv, TypeOK
  <2>2. /\ pc' = "log" /\ code' = "none" /\ cfg' = [listen |-> Listen(given), level |-> LogLevel(given)]
        /\ UNCHANGED <<program, given, log, store, signalled, listener, serve, conn, age, wait>>
    BY <1>1 DEF Load
  <2>3. given' = given /\ LoadResult(given') = "ok" /\ cfg'.listen = Listen(given')
    BY <1>1, <2>2
  <2>4. Decided'
    BY <2>2, <2>3 DEF IInv, Decided
  <2>5. TypeOK'
    BY <2>1, <2>2 DEF IInv, TypeOK
  <2> QED
    BY <2>2, <2>4, <2>5 DEF Load, IInv, Holding, Accepting, Timely, InTime, InState
<1>2. CASE LoadResult(given) # "ok"
  <2>1. /\ pc' = "exited" /\ code' \in {"0", "1", "2"} /\ cfg' = NoCfg
        /\ UNCHANGED <<program, given, log, store, signalled, listener, serve, conn, age, wait>>
        /\ pc = "load"
    BY <1>2 DEF Load
  <2> QED
    BY <2>1 DEF IInv, TypeOK, Holding, Decided, Accepting, Timely, InTime, InState
<1> QED
  BY <1>1, <1>2

LEMMA StartingKeeps ==
  IInv /\ (OpenLog \/ NoLog \/ OpenStore \/ NoStore \/ Migrated \/ NotMigrated \/ NoCore) => IInv'
<1> SUFFICES ASSUME IInv,
                    OpenLog \/ NoLog \/ OpenStore \/ NoStore \/ Migrated \/ NotMigrated \/ NoCore
             PROVE  IInv'
  OBVIOUS
<1> USE DEF OpenLog, NoLog, OpenStore, NoStore, Migrated, NotMigrated, NoCore, LogAfterNoCore
<1>1. TypeOK' /\ Holding'
  BY DEF IInv, TypeOK, Holding
<1>2. Decided'
  BY DEF IInv, TypeOK, Decided
<1>3. Accepting' /\ Timely'
  BY DEF IInv, TypeOK, Decided, Accepting, Timely, InTime, InState
<1> QED
  BY <1>1, <1>2, <1>3 DEF IInv

LEMMA BindKeeps == IInv /\ (Bind \/ NoBind) => IInv'
<1> SUFFICES ASSUME IInv, Bind \/ NoBind PROVE IInv'
  OBVIOUS
<1> USE DEF Bind, NoBind
<1>1. cfg.listen \in Loopback
  BY LoadedIsValid DEF IInv, TypeOK, Decided
<1>2. TypeOK' /\ Holding'
  BY <1>1, PlainIsGiven DEF IInv, TypeOK, Holding
<1>3. Decided'
  BY DEF IInv, Decided
<1>4. Accepting' /\ Timely'
  BY DEF IInv, TypeOK, Decided, Accepting, Timely, InTime, InState
<1> QED
  BY <1>2, <1>3, <1>4 DEF IInv

(* Shutdown begins the clock, and ends with no handler in time left behind. *)
LEMMA ShutdownKeeps == IInv /\ (Shutdown \/ ShutdownReturns \/ ShutdownGivesUp) => IInv'
<1>1. ASSUME IInv, Shutdown PROVE IInv'
  <2>1. TypeOK' /\ Holding' /\ Decided'
    BY <1>1 DEF Shutdown, IInv, TypeOK, Holding, Decided
  <2>2. Accepting'
    BY <1>1 DEF Shutdown, IInv, TypeOK, Decided, Accepting
  <2>3. Timely'
    BY <1>1 DEF Shutdown, IInv, TypeOK, Decided, Timely, InTime, HealthDeadline
  <2> QED
    BY <2>1, <2>2, <2>3 DEF IInv
<1>2. ASSUME IInv, ShutdownReturns PROVE IInv'
  <2>1. TypeOK' /\ Holding' /\ Decided' /\ Accepting'
    BY <1>2 DEF ShutdownReturns, Looking, IdleClosed, IInv, TypeOK, Holding, Decided, Accepting
  <2>2. \A c \in Conn : conn'[c] # "active"
    BY <1>2 DEF ShutdownReturns, IdleClosed, Held, InState
  <2>3. Timely'
    BY <1>2, <2>2 DEF ShutdownReturns, IInv, Timely, InTime, InState
  <2> QED
    BY <2>1, <2>3 DEF IInv
<1>3. ASSUME IInv, ShutdownGivesUp PROVE IInv'
  <2>1. TypeOK' /\ Holding' /\ Decided' /\ Accepting'
    BY <1>3 DEF ShutdownGivesUp, Looking, IInv, TypeOK, Holding, Decided, Accepting
  <2>2. InState({"active"}) \subseteq Hung
    <3> SUFFICES ASSUME NEW c \in Conn \ Hung, conn[c] = "active" PROVE FALSE
      BY DEF InState
    <3>1. wait >= 10
      BY <1>3 DEF ShutdownGivesUp, GraceOver, ShutdownGrace
    <3>2. wait <= age[c] /\ age[c] <= 2 /\ age[c] \in Nat
      BY <1>3 DEF ShutdownGivesUp, Looking, IInv, TypeOK, Timely, InTime, HealthDeadline
    <3> QED
      BY <1>3, <3>1, <3>2 DEF IInv, TypeOK
  <2>3. Timely'
    BY <1>3, <2>2 DEF ShutdownGivesUp, IInv, Timely, InTime, InState
  <2> QED
    BY <2>1, <2>3 DEF IInv
<1> QED
  BY <1>1, <1>2, <1>3

(* Closing what is idle disturbs no handler. *)
LEMMA CloseIdleKeeps == IInv /\ CloseIdle => IInv'
<1> SUFFICES ASSUME IInv, CloseIdle PROVE IInv'
  OBVIOUS
<1>1. \A c \in Conn : conn'[c] \in {conn[c], "closed"} /\ (conn[c] = "none" => conn'[c] = "none")
  BY DEF CloseIdle, IdleClosed, Idle, InState
<1>2. TypeOK' /\ Holding' /\ Decided'
  BY DEF CloseIdle, IdleClosed, IInv, TypeOK, Holding, Decided
<1>3. Accepting'
  BY <1>1 DEF CloseIdle, IInv, Accepting
<1>4. Timely'
  BY <1>1 DEF CloseIdle, IInv, Timely, InTime, InState
<1> QED
  BY <1>2, <1>3, <1>4 DEF IInv

LEMMA EndingKeeps ==
  IInv /\ (ServeError \/ Drain \/ Assets \/ NoAssets \/ RunReturns \/ CloseStore \/ CloseLog)
    => IInv'
<1> SUFFICES ASSUME IInv,
                    ServeError \/ Drain \/ Assets \/ NoAssets \/ RunReturns \/ CloseStore \/ CloseLog
             PROVE  IInv'
  OBVIOUS
<1> USE DEF ServeError, Drain, Assets, NoAssets, RunReturns, CloseStore, CloseLog
<1>1. TypeOK' /\ Holding'
  BY PlainIsGiven DEF IInv, TypeOK, Holding
<1>2. Decided'
  BY DEF IInv, TypeOK, Decided
<1>3. Accepting'
  BY DEF IInv, TypeOK, Decided, Accepting
<1>4. Timely'
  BY DEF IInv, TypeOK, Decided, Timely, InTime, InState
<1> QED
  BY <1>1, <1>2, <1>3, <1>4 DEF IInv

LEMMA SignalKeeps == IInv /\ Signal => IInv'
<1> SUFFICES ASSUME IInv, Signal PROVE IInv'
  OBVIOUS
<1> USE DEF Signal
<1>1. TypeOK' /\ Holding'
  <2>1. CASE pc \in {"load", "log"}
    BY <2>1 DEF IInv, TypeOK, Holding
  <2>2. CASE pc \notin {"load", "log"}
    BY <2>2 DEF IInv, TypeOK, Holding
  <2> QED
    BY <2>1, <2>2
<1>2. Decided'
  BY DEF IInv, TypeOK, Decided
<1>3. Accepting' /\ Timely'
  BY DEF IInv, TypeOK, Accepting, Timely, InTime, InState
<1> QED
  BY <1>1, <1>2, <1>3 DEF IInv

LEMMA ServerKeeps == IInv /\ (Server \/ ServeFails) => IInv'
<1> SUFFICES ASSUME IInv, Server \/ ServeFails PROVE IInv'
  OBVIOUS
<1> USE DEF Server, ServeBegins, ServeReturns, ServeFails, ShuttingDown, main, Running
<1>1. TypeOK' /\ Holding'
  BY DEF IInv, TypeOK, Holding
<1>2. Decided'
  BY DEF IInv, Decided
<1>3. Accepting'
  BY DEF IInv, TypeOK, Decided, Accepting
<1>4. Timely'
  BY DEF IInv, TypeOK, Timely, InTime, InState
<1> QED
  BY <1>1, <1>2, <1>3, <1>4 DEF IInv

(* A connection moves on: nobody else's time changes, and no handler       *)
(* begins once Shutdown has.                                               *)
LEMMA MovingKeeps ==
  ASSUME IInv, NEW c \in Conn,
         Accept(c) \/ HeaderRead(c) \/ HeaderTimesOut(c) \/ Leave(c) \/ Answer(c)
  PROVE  IInv'
<1> USE DEF Accept, HeaderRead, HeaderTimesOut, Leave, Answer, Move, main, Running
<1>1. TypeOK' /\ Holding'
  BY DEF IInv, TypeOK, Holding
<1>2. Decided'
  BY DEF IInv, Decided
<1>3. Accepting'
  BY DEF IInv, TypeOK, Decided, Accepting
<1>4. /\ UNCHANGED <<pc, code, program, wait>>
      /\ \A d \in Conn \ {c} : conn'[d] = conn[d] /\ age'[d] = age[d]
      /\ age'[c] = 0
      /\ conn'[c] = "active" => ~ShuttingDown
  BY DEF IInv, TypeOK
<1>5. Timely'
  <2>1. (pc \in Starting \cup {"listen", "select"} => wait = 0)'
    BY <1>4 DEF IInv, Timely
  <2>2. ASSUME NEW d \in Conn \ Hung PROVE InTime(d)'
    <3>1. CASE d # c
      BY <1>4, <3>1 DEF IInv, Timely, InTime
    <3>2. CASE d = c
      BY <1>4, <3>2 DEF InTime, ShuttingDown, HealthDeadline
    <3> QED
      BY <3>1, <3>2
  <2>3. (pc = "drain" \/ (program = "wyvernd" /\ code = "0") => InState({"active"}) \subseteq Hung)'
    BY <1>4 DEF IInv, Timely, ShuttingDown, InState
  <2> QED
    BY <2>1, <2>2, <2>3 DEF Timely
<1> QED
  BY <1>1, <1>2, <1>3, <1>5 DEF IInv

LEMMA TickKeeps == IInv /\ Tick => IInv'
<1> SUFFICES ASSUME IInv, Tick PROVE IInv'
  OBVIOUS
<1> USE DEF Tick, main, Running
<1>1. TypeOK' /\ Holding'
  BY DEF IInv, TypeOK, Holding, ShutdownGrace
<1>2. Decided' /\ Accepting'
  BY DEF IInv, TypeOK, Decided, Accepting
<1>3. (pc \in Starting \cup {"listen", "select"} => wait = 0)'
  BY DEF IInv, Timely
<1>4. ASSUME NEW c \in Conn \ Hung PROVE InTime(c)'
  <2> SUFFICES ASSUME conn[c] = "active"
               PROVE  age'[c] <= HealthDeadline /\ (pc = "shutdown" => wait' <= age'[c])
    BY DEF InTime
  <2>1. age[c] < HealthDeadline /\ age[c] \in Nat /\ wait \in Nat
    BY DEF Held, InState, Endless, Limit, IInv, TypeOK
  <2>2. age'[c] = age[c] + 1
    BY <2>1 DEF Held, InState, Limit
  <2>3. wait' = wait \/ wait' = wait + 1
    OBVIOUS
  <2>4. pc = "shutdown" => wait <= age[c]
    BY DEF IInv, Timely, InTime
  <2> QED
    BY <2>1, <2>2, <2>3, <2>4 DEF HealthDeadline
<1>5. (pc = "drain" \/ (program = "wyvernd" /\ code = "0") => InState({"active"}) \subseteq Hung)'
  BY DEF IInv, Timely, InState
<1> QED
  BY <1>1, <1>2, <1>3, <1>4, <1>5 DEF IInv, Timely

LEMMA Inductive == IInv /\ [Next]_vars => IInv'
<1>1. IInv /\ Main => IInv'
  BY LoadKeeps, StartingKeeps, BindKeeps, ShutdownKeeps, CloseIdleKeeps, EndingKeeps DEF Main
<1>2. IInv /\ UNCHANGED vars => IInv'
  BY DEF vars, IInv, TypeOK, Holding, Decided, Accepting, Timely, InTime, InState
<1> QED
  BY <1>1, <1>2, EndingKeeps, SignalKeeps, ServerKeeps, MovingKeeps, TickKeeps DEF Next

LEMMA Invariance == Spec => []IInv
<1>1. Init => IInv
  BY Initially
<1>2. IInv /\ [Next]_vars => IInv'
  BY Inductive
<1> QED
  BY <1>1, <1>2, PTL DEF Spec

(* The configuration in use, the address bound and everything else are     *)
(* where they can be.                                                      *)
THEOREM TypeCorrect == Spec => []TypeOK
<1>1. IInv => TypeOK
  BY DEF IInv
<1> QED
  BY <1>1, Invariance, PTL

(* On every way out of either program what was opened has been closed, and *)
(* the log file outlives the store.                                        *)
THEOREM Releasing == Spec => []Released
<1>1. IInv => Released
  BY DEF IInv, TypeOK, Holding, Released
<1> QED
  BY <1>1, Invariance, PTL

(* Shutdown gives every handler that has begun and keeps to its deadline   *)
(* the time to answer, however many there are, however many others hang    *)
(* and however many connections are new or idle.                           *)
THEOREM Answering == Spec => []InFlightAnswered
<1>1. IInv => InFlightAnswered
  BY DEF IInv, Timely, InFlightAnswered
<1> QED
  BY <1>1, Invariance, PTL

(* After Shutdown main never waits for a goroutine that goes on serving.   *)
THEOREM ComingBack == Spec => []ServerComesBack
<1>1. IInv => ServerComesBack
  BY DEF IInv, TypeOK, Accepting, ServerComesBack
<1> QED
  BY <1>1, Invariance, PTL

(* Whatever the sources say, only the loopback address that the source of  *)
(* highest precedence names is bound.                                      *)
THEOREM Binding == Spec => BoundAsAsked
<1> DEFINE A ==
      listener' \notin {listener, "closed"} =>
       LET f == given.listen.flag
           e == given.listen.env IN
       /\ listener' \in Loopback
       /\ f = "unset" \/ listener' = f
       /\ f = "unset" /\ e \notin {"unset", ""} => listener' = e
       /\ f = "unset" /\ e \in {"unset", ""} =>
            listener' = IF FileOf(given).listen = "unset" THEN "127.0.0.1:9847"
                        ELSE FileOf(given).listen
<1>1. IInv /\ [Next]_vars => [A]_vars
  <2> SUFFICES ASSUME IInv, [Next]_vars, listener' \notin {listener, "closed"} PROVE A
    BY DEF vars
  <2>1. Bind
    BY DEF Next, vars, Main, Server, Load, OpenLog, NoLog, OpenStore, NoStore, Migrated, NotMigrated,
           NoCore, NoBind, ServeError, Shutdown, CloseIdle, ShutdownReturns, ShutdownGivesUp, Drain, Assets, NoAssets, CloseStore, CloseLog, RunReturns, Signal,
           ServeBegins, ServeReturns, ServeFails, Accept, HeaderRead, HeaderTimesOut, Leave, Answer,
           Move, Tick
  <2>2. listener' = Listen(given) /\ given \in AnyGiven /\ LoadResult(given) = "ok"
    BY <2>1 DEF Bind, IInv, TypeOK, Decided
  <2>3. listener' \in Loopback
    BY <2>2, LoadedIsValid
  <2> QED
    BY <2>2, <2>3 DEF Listen, Resolve, Default
<1> QED
  BY <1>1, Invariance, PTL DEF Spec, BoundAsAsked
=============================================================================
