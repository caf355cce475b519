---------------------------- MODULE HttpServer ----------------------------
(***************************************************************************)
(* The HTTP server (http_server.c): its workers, which accept a connection *)
(* each and answer it through the response a handler fills in, and the     *)
(* start and stop of the server.  A handler makes any calls in any order;  *)
(* a body is its length.                                                   *)
(***************************************************************************)
EXTENDS Integers, FiniteSets

CONSTANTS
    Workers,    \* config.workers of them
    MaxBody,    \* bound: the length of a body
    MaxCalls,   \* bound: calls of a handler
    MaxConns,   \* bound: connections
    MaxHttpRuns \* bound: starts of the server

ASSUME HttpAssumption == IsFiniteSet(Workers) /\ MaxBody \in Nat

VARIABLES
    http,       \* the server: s_server, its flag, the semaphore, started
    worker,     \* what each worker does
    reply,      \* the response of each worker's connection
    caller      \* http_server_start() and http_server_stop()

httpVars == <<http, worker, reply, caller>>

Unsaid == -1

\* The response of a new connection, and what the client has seen of it.
Fresh == [mode |-> "auto", rem |-> 0, head |-> FALSE, failed |-> FALSE,
          heads |-> 0, said |-> Unsaid, sent |-> 0, calls |-> 0]

HttpInit ==
    /\ http = [up |-> FALSE, heap |-> FALSE, stopping |-> FALSE, exited |-> 0, started |-> 0, runs |-> 0, conns |-> 0]
    /\ worker = [w \in Workers |-> "none"]
    /\ reply = [w \in Workers |-> Fresh]
    /\ caller = "idle"

-----------------------------------------------------------------------------
(* http_server_start() and http_server_stop().                             *)

HttpStart ==
    /\ caller = "idle" /\ ~http.up /\ http.runs < MaxHttpRuns
    /\ http' = [http EXCEPT !.up = TRUE, !.heap = TRUE, !.stopping = FALSE, !.exited = 0, !.started = 0, !.runs = @ + 1]
    /\ caller' = "create"
    /\ UNCHANGED <<worker, reply>>

\* xTaskCreate(); one that fails stops the server again.
CreateWorker ==
    /\ caller = "create"
    /\ \/ \E w \in Workers :
             /\ worker[w] = "none" /\ http.started < Cardinality(Workers)
             /\ worker' = [worker EXCEPT ![w] = "accept"]
             /\ http' = [http EXCEPT !.started = @ + 1]
             /\ UNCHANGED caller
       \/ /\ http.started < Cardinality(Workers)
          /\ http' = [http EXCEPT !.stopping = TRUE]
          /\ caller' = "collect" /\ UNCHANGED worker
       \/ http.started = Cardinality(Workers) /\ caller' = "idle" /\ UNCHANGED <<http, worker>>
    /\ UNCHANGED reply

HttpStop ==
    /\ caller = "idle" /\ http.up
    /\ http' = [http EXCEPT !.stopping = TRUE]
    /\ caller' = "collect"
    /\ UNCHANGED <<worker, reply>>

\* One more worker has given the semaphore.
Collect ==
    /\ caller = "collect" /\ http.started > 0 /\ http.exited > 0
    /\ http' = [http EXCEPT !.started = @ - 1, !.exited = @ - 1]
    /\ UNCHANGED <<worker, reply, caller>>

\* One that does not leaves the server allocated; a later stop goes on from there.
CollectGivesUp ==
    /\ caller = "collect" /\ http.started > 0 /\ http.exited = 0
    /\ caller' = "idle"
    /\ UNCHANGED <<http, worker, reply>>

\* destroy_server().
HttpFree ==
    /\ caller = "collect" /\ http.started = 0
    /\ http' = [http EXCEPT !.up = FALSE, !.heap = FALSE]
    /\ caller' = "idle"
    /\ UNCHANGED <<worker, reply>>

-----------------------------------------------------------------------------
(* The response.                                                           *)

\* send_headers(): Content-Length is there unless the handler left it out.
SendHeaders(r) == [r EXCEPT !.head = TRUE, !.heads = @ + 1, !.said = IF r.mode = "none" THEN Unsaid ELSE r.rem]

\* http_respond_binary() that does not look at what is left of the length.
RespondAny(r, n, stopping) ==
    IF r.failed \/ stopping \/ r.mode = "sealed" THEN {r}
    ELSE LET a == IF r.mode = "auto" THEN [r EXCEPT !.rem = n] ELSE r
             h == IF a.head THEN a ELSE SendHeaders(a)
         IN  {[h EXCEPT !.sent = @ + n, !.mode = IF r.mode = "auto" THEN "sealed" ELSE @]}

\* http_respond_binary(): the outcomes of the call.  A send fails or the server is stopped
\* before the head or between the head and the body.
Respond(r, n, stopping) ==
    LET a == IF r.mode = "auto" THEN [r EXCEPT !.rem = n] ELSE r
    IN  IF r.failed \/ stopping \/ r.mode = "sealed" THEN {r}
        ELSE IF a.mode # "none" /\ n > a.rem THEN {a}
        ELSE LET h     == IF a.head THEN a ELSE SendHeaders(a)
                 taken == [h EXCEPT !.rem = IF h.mode = "none" THEN @ ELSE @ - n,
                                    !.mode = IF h.mode = "auto" THEN "sealed" ELSE @]
             IN  {[taken EXCEPT !.sent = @ + n], [taken EXCEPT !.failed = TRUE]}
                 \cup (IF a.head THEN {} ELSE {[a EXCEPT !.head = TRUE, !.failed = TRUE]})

\* reject(): over whatever the handler had set up, and nothing once a head was sent.
Reject(r, stopping) ==
    IF r.head THEN {r} ELSE Respond([r EXCEPT !.mode = "auto"], 0, stopping)

SetLength(r, n) == IF r.head THEN r ELSE [r EXCEPT !.mode = "fixed", !.rem = n]
OmitLength(r)   == IF r.head THEN r ELSE [r EXCEPT !.mode = "none"]

-----------------------------------------------------------------------------
(* worker_task() and serve().                                              *)

Become(w, pc) == worker' = [worker EXCEPT ![w] = pc]

AcceptConn(w) ==
    /\ worker[w] = "accept" /\ ~http.stopping /\ http.conns < MaxConns
    /\ Become(w, "head")
    /\ reply' = [reply EXCEPT ![w] = Fresh]
    /\ http' = [http EXCEPT !.conns = @ + 1]
    /\ UNCHANGED caller

\* read_head() and parse_request_line(): lost, refused with a status, or handled.
ReadHead(w) ==
    /\ worker[w] = "head"
    /\ \/ Become(w, "lost") /\ UNCHANGED reply
       \/ /\ Become(w, "close")
          /\ \E r \in Reject(reply[w], http.stopping) : reply' = [reply EXCEPT ![w] = r]
       \/ Become(w, "handle") /\ UNCHANGED reply
    /\ UNCHANGED <<http, caller>>

\* A call of the handler.
Call(w) ==
    /\ worker[w] = "handle" /\ reply[w].calls < MaxCalls
    /\ \E n \in 0..MaxBody :
          \E r \in {SetLength(reply[w], n), OmitLength(reply[w])} \cup Respond(reply[w], n, http.stopping) :
             reply' = [reply EXCEPT ![w] = [r EXCEPT !.calls = @ + 1]]
    /\ UNCHANGED <<http, worker, caller>>

\* The handler returns: 500 if it has answered nothing.
HandlerReturns(w) ==
    /\ worker[w] = "handle"
    /\ Become(w, "close")
    /\ \E r \in Reject(reply[w], http.stopping) : reply' = [reply EXCEPT ![w] = r]
    /\ UNCHANGED <<http, caller>>

CloseConn(w) ==
    /\ worker[w] \in {"close", "lost"}
    /\ Become(w, "accept")
    /\ reply' = [reply EXCEPT ![w] = Fresh]
    /\ UNCHANGED <<http, caller>>

\* The last use of the server.
WorkerExit(w) ==
    /\ worker[w] = "accept" /\ http.stopping
    /\ Become(w, "none")
    /\ http' = [http EXCEPT !.exited = @ + 1]
    /\ UNCHANGED <<reply, caller>>

HttpNext ==
    \/ HttpStart \/ CreateWorker \/ HttpStop \/ Collect \/ CollectGivesUp \/ HttpFree
    \/ \E w \in Workers : AcceptConn(w) \/ ReadHead(w) \/ Call(w) \/ HandlerReturns(w) \/ CloseConn(w) \/ WorkerExit(w)

-----------------------------------------------------------------------------

\* Whatever a handler calls and in whatever order: one status line at most and
\* exactly one before the connection closes if nothing failed, no body
\* before it, no more body than the length it announced, and just that much when
\* the length was the body's own.
OneHonestReply ==
    \A w \in Workers :
        LET r == reply[w]
        IN  /\ r.heads <= 1
            /\ r.sent > 0 => r.heads = 1
            /\ r.said # Unsaid => r.sent <= r.said
            /\ (worker[w] = "close" /\ ~r.failed /\ ~http.stopping) =>
                  r.heads = 1 /\ (r.mode = "sealed" => r.sent = r.said)

\* The server is freed after its last worker has ended, also when a worker could
\* not be created or one stop gave up and another finished.
HttpFreedLast == (\E w \in Workers : worker[w] # "none") => http.heap
=============================================================================
