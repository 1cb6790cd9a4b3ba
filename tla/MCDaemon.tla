------------------------------ MODULE MCDaemon ------------------------------
(* Three connections, one of which hangs, and every combination of sources *)
(* for the data directory, the listen address or the log level.            *)
EXTENDS Daemon

CONSTANTS c1, c2, hung

Read == [NoFile EXCEPT !.state = "read"]

MCGivens ==
  {[Plain EXCEPT !.syntax = s] : s \in {"help", "usage"}}
    \cup {[Plain EXCEPT !.dir = d, !.fileIn = in, !.file = [Read EXCEPT !.listen = "[::1]:80"]] :
            d \in AnyDir, in \in Dir}
    \cup {[Plain EXCEPT !.listen = l, !.file = [Read EXCEPT !.listen = a]] :
            l \in [flag : AnyAddress, env : AnyAddress], a \in AnyAddress}
    \cup {[Plain EXCEPT !.level = l, !.file = [Read EXCEPT !.level = v]] :
            l \in [flag : AnyLevel, env : AnyLevel], v \in AnyLevel}
    \cup {[Plain EXCEPT !.file.state = s] : s \in {"missing", "malformed", "unreadable"}}
=============================================================================
