------------------------------- MODULE Daemon -------------------------------
(***************************************************************************)
(* A run of one of the two programs, cmd/wyvernd and cmd/desktop, from the *)
(* configuration to the exit: who opens what in which order, who closes it *)
(* on every path, and how a signal, the connections of the HTTP server and *)
(* its goroutine bring the daemon to an end.  Time is counted in seconds   *)
(* where the code sets limits: ReadHeaderTimeout, the deadline of the      *)
(* health handler and the grace of Shutdown.                               *)
(***************************************************************************)
EXTENDS Naturals

CONSTANTS
  Givens,   \* bound: what flags, environment and files may say
  Conn,     \* the connections that clients may make
  Hung      \* those whose query no deadline ends (a disk that stands still)

ASSUME ConnAssumption == Hung \subseteq Conn

VARIABLES
  program,    \* "wyvernd" or "desktop"
  given,      \* the sources of the configuration, until it has been used
  cfg,        \* config.Config
  pc,         \* where the main goroutine is
  code,       \* the exit code, once it is decided
  log, store, \* the log file and the store: "none", "open" or "closed"
  signalled,  \* the context of signal.NotifyContext is done
  listener,   \* "none", the address it is bound to, or "closed"
  serve,      \* the goroutine of server.Serve
  conn,       \* the http.ConnState of each connection, "none" before there is one
  age,        \* the seconds it has been in that state, where there is a limit
  wait        \* the seconds since Shutdown began

vars == <<program, given, cfg, pc, code, log, store, signalled, listener, serve,
          conn, age, wait>>
owned == <<log, store>>
http == <<listener, serve, conn, age, wait>>

-----------------------------------------------------------------------------
(* config.Load: "unset" is an omitted flag, variable or key, "" an empty   *)
(* one.                                                                    *)

Loopback == {"127.0.0.1:9847", "[::1]:80"}
Level == {"INFO", "DEBUG"}
Dir == {"flag", "env", "platform"}
NoFile == [state |-> "missing", listen |-> "unset", level |-> "unset"]

(* What the command line, the environment and the configuration file say.  *)
AnyAddress == Loopback \cup {"unset", "", "0.0.0.0:80"}
AnyLevel == Level \cup {"unset", "", "LOUD"}
AnyDir == [flag : {"unset", "", "flag"}, env : {"unset", "", "env"}, platform : {"", "platform"}]
AnyFile == [state : {"missing", "malformed", "unreadable", "read"},
            listen : AnyAddress, level : AnyLevel]
AnyGiven ==
  [syntax : {"ok", "help", "usage"}, dir : AnyDir, fileIn : Dir, file : AnyFile,
   listen : [flag : AnyAddress, env : AnyAddress], level : [flag : AnyLevel, env : AnyLevel]]
ASSUME GivensAssumption == Givens \subseteq AnyGiven

(* Mutant: the environment goes before the flag. *)
ResolveEnvFirst(flag, env, below) ==
  IF env \notin {"unset", ""} THEN env ELSE IF flag # "unset" THEN flag ELSE below

(* A flag that was passed counts even when it is empty; an empty variable  *)
(* does not.                                                               *)
Resolve(flag, env, below) ==
  IF flag # "unset" THEN flag ELSE IF env \notin {"unset", ""} THEN env ELSE below

Default(v, default) == IF v = "unset" THEN default ELSE v
DataDir(g) == Resolve(g.dir.flag, g.dir.env, g.dir.platform)
FileOf(g) == IF DataDir(g) = g.fileIn THEN g.file ELSE NoFile
Listen(g) == Resolve(g.listen.flag, g.listen.env, Default(FileOf(g).listen, "127.0.0.1:9847"))
LogLevel(g) == Resolve(g.level.flag, g.level.env, Default(FileOf(g).level, "INFO"))
ValidAddress(a) == a \in Loopback

LoadResult(g) ==
  IF g.syntax # "ok" THEN g.syntax
  ELSE IF /\ DataDir(g) # ""
          /\ FileOf(g).state \in {"missing", "read"}
          /\ ValidAddress(Listen(g))
          /\ LogLevel(g) \in Level
  THEN "ok" ELSE "invalid"

-----------------------------------------------------------------------------
NoCfg == [listen |-> "none", level |-> "none"]
Plain == [syntax |-> "ok", dir |-> [flag |-> "unset", env |-> "unset", platform |-> "platform"],
          listen |-> [flag |-> "unset", env |-> "unset"],
          level |-> [flag |-> "unset", env |-> "unset"],
          fileIn |-> "platform", file |-> NoFile]

(* The configuration in use and the address bound are valid ones, and      *)
(* everything else is where it can be.                                     *)
TypeOK ==
  /\ program \in {"wyvernd", "desktop"}
  /\ given \in AnyGiven
  /\ cfg \in {NoCfg} \cup [listen : Loopback, level : Level]
  /\ pc \in {"load", "log", "open", "migrate", "noCore", "listen", "select", "shutdown",
             "drain", "assets", "window", "closeStore", "closeLog", "exited"}
  /\ code \in {"none", "0", "1", "2", "killed"}
  /\ log \in {"none", "open", "closed"} /\ store \in {"none", "open", "closed"}
  /\ signalled \in BOOLEAN
  /\ listener \in Loopback \cup {"none", "closed"}
  /\ serve \in {"none", "spawned", "accepting", "returned"}
  /\ conn \in [Conn -> {"none", "new", "active", "idle", "closed"}]
  /\ age \in [Conn -> Nat] /\ wait \in Nat

Init ==
  /\ program \in {"wyvernd", "desktop"}
  /\ given \in Givens
  /\ cfg = NoCfg
  /\ pc = "load" /\ code = "none"
  /\ log = "none" /\ store = "none"
  /\ signalled = FALSE
  /\ listener = "none" /\ serve = "none"
  /\ conn = [c \in Conn |-> "none"]
  /\ age = [c \in Conn |-> 0]
  /\ wait = 0

(* The main goroutine goes to p, to return c in the end. *)
Goto(p, c) == pc' = p /\ code' = c /\ UNCHANGED program

-----------------------------------------------------------------------------
(* Starting up. *)

Load ==
  /\ pc = "load"
  /\ CASE LoadResult(given) = "ok" -> Goto("log", "none")
       [] LoadResult(given) = "help" -> Goto("exited", "0")
       [] LoadResult(given) = "usage" -> Goto("exited", IF program = "wyvernd" THEN "2" ELSE "1")
       [] OTHER -> Goto("exited", "1")
  /\ cfg' = IF LoadResult(given) = "ok"
            THEN [listen |-> Listen(given), level |-> LogLevel(given)] ELSE NoCfg
  /\ UNCHANGED <<given, owned, signalled, http>>

(* logging.New, and signal.NotifyContext after it. *)
OpenLog ==
  /\ pc = "log"
  /\ log' = "open"
  /\ Goto("open", "none")
  /\ UNCHANGED <<given, cfg, store, signalled, http>>

NoLog ==
  /\ pc = "log"
  /\ Goto("exited", "1")
  /\ UNCHANGED <<given, cfg, owned, signalled, http>>

(* app.Open: with the context done it does not open the store. *)
OpenStore ==
  /\ pc = "open"
  /\ ~signalled
  /\ store' = "open"
  /\ Goto("migrate", "none")
  /\ UNCHANGED <<given, cfg, log, signalled, http>>

NoStore ==
  /\ pc = "open"
  /\ Goto("noCore", "none")
  /\ UNCHANGED <<given, cfg, owned, signalled, http>>

(* Migrate succeeds, and the core takes over the log file. *)
Migrated ==
  /\ pc = "migrate"
  /\ Goto(IF program = "wyvernd" THEN "listen" ELSE "assets", "none")
  /\ UNCHANGED <<given, cfg, owned, signalled, http>>

NotMigrated ==
  /\ pc = "migrate"
  /\ store' = "closed"
  /\ Goto("noCore", "none")
  /\ UNCHANGED <<given, cfg, log, signalled, http>>

(* Mutant: the log file is left to a core that there is not. *)
LeaveLog == log
LogAfterNoCore == "closed"

(* app.Open has returned an error: the log file is still main's to close.  *)
NoCore ==
  /\ pc = "noCore"
  /\ log' = LogAfterNoCore
  /\ Goto("exited", "1")
  /\ UNCHANGED <<given, cfg, store, signalled, http>>

-----------------------------------------------------------------------------
(* The daemon. *)

Bind ==
  /\ pc = "listen"
  /\ listener' = cfg.listen
  /\ serve' = "spawned"
  /\ given' = Plain
  /\ Goto("select", "none")
  /\ UNCHANGED <<cfg, owned, signalled, conn, age, wait>>

(* net.Listen fails: core.Close, and once more when the function returns.  *)
NoBind ==
  /\ pc = "listen"
  /\ Goto("closeStore", "1")
  /\ UNCHANGED <<given, cfg, owned, signalled, http>>

ServeError ==
  /\ pc = "select"
  /\ serve = "returned"
  /\ Goto("closeStore", "1")
  /\ UNCHANGED <<given, cfg, owned, signalled, http>>

(* Mutant: Shutdown leaves the listeners to whoever opened them. *)
ShutdownDeaf ==
  /\ pc = "select"
  /\ signalled
  /\ Goto("shutdown", "none")
  /\ UNCHANGED <<given, cfg, owned, signalled, http>>

(* Shutdown closes the listeners that Serve has registered. *)
Shutdown ==
  /\ pc = "select"
  /\ signalled
  /\ listener' = IF serve = "accepting" THEN "closed" ELSE listener
  /\ Goto("shutdown", "none")
  /\ UNCHANGED <<given, cfg, owned, signalled, serve, conn, age, wait>>

InState(S) == {c \in Conn : conn[c] \in S}
Held == InState({"new", "active"})
Idle == InState({"idle"})
ReadHeaderTimeout == 5
HealthDeadline == 2

(* Mutants: the grace is no longer than a handler may take; there is no    *)
(* limit.                                                                  *)
ShortGrace == HealthDeadline
NoLimit == FALSE

ShutdownGrace == 10
GraceOver == wait >= ShutdownGrace

(* Shutdown waits for the Serve it has closed the listener of, then looks  *)
(* at the connections again and again and closes those that are idle.      *)
Looking == pc = "shutdown" /\ serve # "accepting"
IdleClosed == conn' = [c \in Conn |-> IF c \in Idle THEN "closed" ELSE conn[c]]

CloseIdle ==
  /\ Looking
  /\ Held # {} /\ Idle # {}
  /\ IdleClosed
  /\ UNCHANGED <<program, given, cfg, pc, code, owned, signalled, listener, serve, age, wait>>

ShutdownReturns ==
  /\ Looking
  /\ Held = {}
  /\ IdleClosed
  /\ Goto("drain", "none")
  /\ UNCHANGED <<given, cfg, owned, signalled, listener, serve, age, wait>>

ShutdownGivesUp ==
  /\ Looking
  /\ GraceOver
  /\ Goto("drain", "none")
  /\ UNCHANGED <<given, cfg, owned, signalled, http>>

(* <-serveErr *)
Drain ==
  /\ pc = "drain"
  /\ serve = "returned"
  /\ Goto("closeStore", "0")
  /\ UNCHANGED <<given, cfg, owned, signalled, http>>

-----------------------------------------------------------------------------
(* The desktop. *)

Assets ==
  /\ pc = "assets"
  /\ given' = Plain
  /\ Goto("window", "none")
  /\ UNCHANGED <<cfg, owned, signalled, http>>

NoAssets ==
  /\ pc = "assets"
  /\ Goto("closeStore", "1")
  /\ UNCHANGED <<given, cfg, owned, signalled, http>>

(* wailsApp.Run returns: the last window was closed, or there was an error. *)
RunReturns ==
  /\ pc = "window"
  /\ \E c \in {"0", "1"} : Goto("closeStore", c)
  /\ UNCHANGED <<given, cfg, owned, signalled, http>>

-----------------------------------------------------------------------------
(* core.Close: the store, then the log file. *)

CloseStore ==
  /\ pc = "closeStore"
  /\ store' = "closed"
  /\ Goto("closeLog", code)
  /\ UNCHANGED <<given, cfg, log, signalled, http>>

CloseLog ==
  /\ pc = "closeLog"
  /\ log' = "closed"
  /\ Goto("exited", code)
  /\ UNCHANGED <<given, cfg, store, signalled, http>>

(* Before NotifyContext a signal ends the process. *)
Signal ==
  /\ pc # "exited"
  /\ ~signalled
  /\ IF pc \in {"load", "log"} THEN Goto("exited", "killed") /\ UNCHANGED signalled
     ELSE signalled' = TRUE /\ UNCHANGED <<program, pc, code>>
  /\ UNCHANGED <<given, cfg, owned, http>>

-----------------------------------------------------------------------------
(* The server's goroutines (net/http), and the passing of time. *)

main == <<program, given, cfg, pc, code, owned, signalled>>
Running == pc # "exited"

ShuttingDown == pc \in {"shutdown", "drain"} \/ code = "0"

(* Serve begins after Shutdown did: it closes the listener and returns. *)
ServeBegins ==
  /\ Running /\ serve = "spawned"
  /\ IF ShuttingDown THEN serve' = "returned" /\ listener' = "closed"
     ELSE serve' = "accepting" /\ UNCHANGED listener
  /\ UNCHANGED <<main, conn, age, wait>>

(* The listener was closed under it, or accepting fails for good. *)
ServeReturns ==
  /\ Running /\ serve = "accepting" /\ listener = "closed"
  /\ serve' = "returned"
  /\ UNCHANGED <<main, listener, conn, age, wait>>

ServeFails ==
  /\ Running /\ serve = "accepting" /\ listener # "closed"
  /\ serve' = "returned" /\ listener' = "closed"
  /\ UNCHANGED <<main, conn, age, wait>>

Move(c, from, to) ==
  /\ Running
  /\ conn[c] \in from
  /\ conn' = [conn EXCEPT ![c] = to]
  /\ age' = [age EXCEPT ![c] = 0]
  /\ UNCHANGED <<main, listener, serve, wait>>

Accept(c) == serve = "accepting" /\ listener # "closed" /\ Move(c, {"none"}, "new")

(* The header of the first request or of a later one is complete: its      *)
(* handler begins, unless Shutdown has; then nobody answers.               *)
HeaderRead(c) == Move(c, {"new", "idle"}, IF ShuttingDown THEN "closed" ELSE "active")

(* Between requests the client may stay as long as IdleTimeout lets it.    *)
HeaderTimesOut(c) == age[c] = ReadHeaderTimeout /\ Move(c, {"new"}, "closed")
Leave(c) == Move(c, {"new", "idle"}, "closed")

(* 200 or 503, and the connection is kept alive; Readiness gives up at the *)
(* deadline, or when the store is closed.                                  *)
Answer(c) == c \notin Hung /\ Move(c, {"active"}, "idle")

Limit(c) == IF conn[c] = "new" THEN ReadHeaderTimeout ELSE HealthDeadline
Endless(c) == c \in Hung /\ conn[c] = "active"

(* A second passes: for connections, none of which is past its limit, and  *)
(* for Shutdown.                                                           *)
Tick ==
  /\ Running
  /\ Held # {}
  /\ \A c \in Held : Endless(c) \/ age[c] < Limit(c)
  /\ age' = [c \in Conn |-> IF c \in Held /\ age[c] < Limit(c) THEN age[c] + 1 ELSE age[c]]
  /\ wait' = IF pc = "shutdown" /\ wait < ShutdownGrace THEN wait + 1 ELSE wait
  /\ UNCHANGED <<main, listener, serve, conn>>

Main ==
  \/ Load \/ OpenLog \/ NoLog \/ OpenStore \/ NoStore \/ Migrated \/ NotMigrated \/ NoCore
  \/ Bind \/ NoBind
  \/ ServeError \/ Shutdown \/ CloseIdle \/ ShutdownReturns \/ ShutdownGivesUp \/ Drain
  \/ Assets \/ NoAssets \/ CloseStore \/ CloseLog
Server == ServeBegins \/ ServeReturns

Next ==
  \/ Main \/ RunReturns \/ Signal
  \/ Server \/ ServeFails
  \/ \E c \in Conn :
       Accept(c) \/ HeaderRead(c) \/ HeaderTimesOut(c) \/ Leave(c) \/ Answer(c)
  \/ Tick

(* Goroutines are scheduled and time passes; nobody has to signal, to      *)
(* connect, to send a header, to leave or to close the window.             *)
Spec == Init /\ [][Next]_vars /\ WF_vars(Main) /\ WF_vars(Server) /\ WF_vars(Tick)
          /\ \A c \in Conn : WF_vars(HeaderTimesOut(c)) /\ WF_vars(Answer(c))

-----------------------------------------------------------------------------
(* Properties. *)

(* On every way out but a kill, what was opened has been closed, and the   *)
(* log file is there for as long as the store is open.                     *)
Released ==
  /\ store = "open" => log = "open"
  /\ pc = "exited" => log # "open" /\ store # "open"

(* The daemon listens on a loopback address only, the one that the source  *)
(* of highest precedence names: flag, variable, file of the data directory *)
(* that flag and variable name, default.                                   *)
BoundAsAsked ==
  [][listener' \notin {listener, "closed"} =>
       LET f == given.listen.flag
           e == given.listen.env IN
       /\ listener' \in Loopback
       /\ f = "unset" \/ listener' = f
       /\ f = "unset" /\ e \notin {"unset", ""} => listener' = e
       /\ f = "unset" /\ e \in {"unset", ""} =>
            listener' = IF FileOf(given).listen = "unset" THEN "127.0.0.1:9847"
                        ELSE FileOf(given).listen]_vars

(* A request whose handler has begun when Shutdown does, and keeps to its  *)
(* deadline, has its answer before the store is closed under it: the grace *)
(* outlasts the handler.  (One whose header is not complete by then has no *)
(* answer.)                                                                *)
InFlightAnswered ==
  program = "wyvernd" /\ code = "0" => InState({"active"}) \subseteq Hung

(* Once Shutdown has begun the server's goroutine will put its error into  *)
(* the channel that main is going to read: it has, or it has not begun to  *)
(* serve and will find the server shut down, or its listener is closed.    *)
ServerComesBack ==
  pc \in {"shutdown", "drain"} =>
    serve \in {"spawned", "returned"} \/ (serve = "accepting" /\ listener = "closed")

(* After a signal the daemon exits, whatever start-up or requests were in  *)
(* progress and even if one of them never ends.                            *)
StopsAfterSignal == program = "wyvernd" /\ signalled ~> pc = "exited"
=============================================================================
