----------------------------- MODULE MCServers -----------------------------
(***************************************************************************)
(* The two TCP servers for TLC.  They share nothing, so a behaviour runs   *)
(* one of them.                                                            *)
(***************************************************************************)
EXTENDS TelnetServer, HttpServer

VARIABLE runs  \* the server of this behaviour

vars == <<telnetVars, httpVars, runs>>

Init == runs \in {"telnet", "http"} /\ HttpInit /\ \E load \in Loads : TelnetInit(load)

Next ==
    \/ runs = "telnet" /\ TelnetNext /\ UNCHANGED <<httpVars, runs>>
    \/ runs = "http" /\ HttpNext /\ UNCHANGED <<telnetVars, runs>>

Spec == Init /\ [][Next]_vars

\* Neither server is freed before the last task that uses it has ended, also
\* when a stop gave up and another stop finished (destroy_server()).
FreedLast == TelnetFreedLast /\ HttpFreedLast
=============================================================================
