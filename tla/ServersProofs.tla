--------------------------- MODULE ServersProofs ---------------------------
(***************************************************************************)
(* Proofs about the two TCP servers, for every number of workers, every    *)
(* size of the Telnet queue and every bound: neither is freed under a task *)
(* of its own, an HTTP client gets one honest reply, a Telnet client gets  *)
(* what was queued for it, and the shell gets the keys it types.           *)
(***************************************************************************)
EXTENDS MCServers, SequenceTheorems, FiniteSetTheorems, TLAPS

-----------------------------------------------------------------------------
(* HTTP: the response.                                                     *)

Reply == [mode : {"auto", "fixed", "none", "sealed"}, rem : Nat, head : BOOLEAN, failed : BOOLEAN,
          heads : Nat, said : Nat \cup {Unsaid}, sent : Nat, calls : Nat]

\* What every call of a handler keeps true of a response.  Until a head was
\* tried nothing has left; after it, and while no send has failed, there is one
\* head, and the announced length is what was sent and what is left of it.
Honest(r) ==
    /\ r \in Reply
    /\ r.failed => r.head
    /\ ~r.head => r.heads = 0 /\ r.sent = 0 /\ r.said = Unsaid /\ r.mode # "sealed"
    /\ r.heads <= 1
    /\ r.sent > 0 => r.heads = 1
    /\ r.said # Unsaid => r.sent <= r.said
    /\ (r.head /\ ~r.failed) =>
          /\ r.heads = 1 /\ r.mode # "auto"
          /\ r.mode = "none" => r.said = Unsaid
          /\ r.mode # "none" => r.said = r.sent + r.rem
          /\ r.mode = "sealed" => r.rem = 0

\* A new connection has an honest response.
LEMMA FreshHonest == Honest(Fresh)
BY DEF Honest, Fresh, Reply, Unsaid

\* send_headers() on a response that has no head yet.
LEMMA SendHeadersIs ==
    ASSUME NEW r \in Reply
    PROVE  /\ SendHeaders(r) \in Reply
           /\ SendHeaders(r).head /\ SendHeaders(r).heads = r.heads + 1
           /\ SendHeaders(r).said = IF r.mode = "none" THEN Unsaid ELSE r.rem
           /\ SendHeaders(r).mode = r.mode /\ SendHeaders(r).rem = r.rem
           /\ SendHeaders(r).sent = r.sent /\ SendHeaders(r).failed = r.failed
<1> DEFINE said == IF r.mode = "none" THEN Unsaid ELSE r.rem
<1>1. said \in Nat \cup {Unsaid} BY DEF Reply
<1>2. SendHeaders(r) = [r EXCEPT !.head = TRUE, !.heads = @ + 1, !.said = said]
  BY DEF SendHeaders
<1> HIDE DEF said
<1>3. /\ SendHeaders(r).head /\ SendHeaders(r).heads = r.heads + 1 /\ SendHeaders(r).said = said
      /\ SendHeaders(r).mode = r.mode /\ SendHeaders(r).rem = r.rem
      /\ SendHeaders(r).sent = r.sent /\ SendHeaders(r).failed = r.failed
  BY <1>2 DEF Reply
<1>4. SendHeaders(r) \in Reply
  <2> DEFINE heads == r.heads + 1
  <2>1. heads \in Nat BY DEF Reply
  <2>2. SendHeaders(r) = [r EXCEPT !.head = TRUE, !.heads = heads, !.said = said]
    BY <1>2
  <2> HIDE DEF heads
  <2> QED BY <1>1, <2>1, <2>2, Zenon DEF Reply
<1> QED BY <1>3, <1>4 DEF said

\* Every outcome of http_respond_binary() keeps the response honest.
LEMMA RespondHonest ==
    ASSUME NEW r, Honest(r), NEW n \in Nat, NEW stopping \in BOOLEAN,
           NEW s \in Respond(r, n, stopping)
    PROVE  Honest(s)
<1> DEFINE a == IF r.mode = "auto" THEN [r EXCEPT !.rem = n] ELSE r
           h == IF a.head THEN a ELSE SendHeaders(a)
           taken == [h EXCEPT !.rem = IF h.mode = "none" THEN @ ELSE @ - n,
                              !.mode = IF h.mode = "auto" THEN "sealed" ELSE @]
<1>0. r \in Reply BY DEF Honest
<1>1. CASE r.failed \/ stopping \/ r.mode = "sealed"
  BY <1>1 DEF Respond
<1>2. CASE ~(r.failed \/ stopping \/ r.mode = "sealed")
  <2>1. /\ a \in Reply /\ a.mode = r.mode /\ a.head = r.head /\ a.failed = r.failed
        /\ a.heads = r.heads /\ a.said = r.said /\ a.sent = r.sent
        /\ a.rem = IF r.mode = "auto" THEN n ELSE r.rem
    BY <1>0 DEF Reply
  <2>2. Honest(a)
    BY <1>2, <2>1 DEF Honest
  <2>3. CASE a.mode # "none" /\ n > a.rem
    <3>1. s = a BY <1>2, <2>3 DEF Respond
    <3> QED BY <2>2, <3>1
  <2>4. CASE ~(a.mode # "none" /\ n > a.rem)
    <3>1. s \in {[taken EXCEPT !.sent = @ + n], [taken EXCEPT !.failed = TRUE]}
                  \cup (IF a.head THEN {} ELSE {[a EXCEPT !.head = TRUE, !.failed = TRUE]})
      BY <1>2, <2>4 DEF Respond
    <3> HIDE DEF a
    <3>2. /\ h \in Reply /\ h.head /\ h.heads = 1 /\ ~h.failed
          /\ h.mode = a.mode /\ h.rem = a.rem /\ h.sent = a.sent
          /\ h.mode = "none" => h.said = Unsaid
          /\ h.mode # "none" => h.said = h.sent + h.rem
      <4>1. CASE a.head
        BY <1>2, <2>1, <2>2, <4>1 DEF Honest
      <4>2. CASE ~a.head
        BY <1>2, <2>1, <2>2, <4>2, SendHeadersIs DEF Honest, Reply
      <4> QED BY <4>1, <4>2
    <3> HIDE DEF h
    <3>3. /\ taken \in Reply /\ taken.head /\ taken.heads = 1 /\ ~taken.failed
          /\ taken.sent = h.sent /\ taken.said = h.said
          /\ taken.mode = IF h.mode = "auto" THEN "sealed" ELSE h.mode
          /\ taken.rem = IF h.mode = "none" THEN h.rem ELSE h.rem - n
      <4> DEFINE left == IF h.mode = "none" THEN h.rem ELSE h.rem - n
                 mode == IF h.mode = "auto" THEN "sealed" ELSE h.mode
      <4>1. left \in Nat BY <2>1, <2>4, <3>2 DEF Reply
      <4>2. mode \in {"auto", "fixed", "none", "sealed"} BY <3>2 DEF Reply
      <4>3. taken = [h EXCEPT !.rem = left, !.mode = mode] OBVIOUS
      <4> HIDE DEF left, mode, taken
      <4>4. taken \in Reply BY <3>2, <4>1, <4>2, <4>3 DEF Reply
      <4>5. /\ taken.head = h.head /\ taken.heads = h.heads /\ taken.failed = h.failed
            /\ taken.sent = h.sent /\ taken.said = h.said /\ taken.mode = mode /\ taken.rem = left
        BY <3>2, <4>3 DEF Reply
      <4> QED BY <3>2, <4>4, <4>5 DEF left, mode
    <3> HIDE DEF taken
    <3>4. CASE s = [taken EXCEPT !.sent = @ + n]
      <4>1. /\ s \in Reply /\ s.head /\ s.heads = 1 /\ ~s.failed /\ s.sent = taken.sent + n
            /\ s.said = taken.said /\ s.mode = taken.mode /\ s.rem = taken.rem
        BY <3>3, <3>4 DEF Reply
      <4>2. s.mode = "sealed" => s.rem = 0
        BY <1>2, <2>1, <3>2, <3>3, <4>1
      <4> QED BY <3>2, <3>3, <4>1, <4>2 DEF Honest, Reply, Unsaid
    <3>5. CASE s = [taken EXCEPT !.failed = TRUE]
      <4>1. /\ s \in Reply /\ s.head /\ s.heads = 1 /\ s.failed /\ s.sent = taken.sent
            /\ s.said = taken.said
        BY <3>3, <3>5 DEF Reply
      <4> QED BY <3>2, <3>3, <4>1 DEF Honest, Reply, Unsaid
    <3>6. CASE ~a.head /\ s = [a EXCEPT !.head = TRUE, !.failed = TRUE]
      <4>1. /\ s \in Reply /\ s.head /\ s.failed /\ s.heads = 0 /\ s.sent = 0 /\ s.said = Unsaid
        BY <2>2, <3>6 DEF Reply, Honest
      <4> QED BY <4>1 DEF Honest
    <3> QED BY <3>1, <3>4, <3>5, <3>6
  <2> QED BY <2>3, <2>4
<1> QED BY <1>1, <1>2

\* reject() keeps the response honest, and unless a send failed or the server
\* is being stopped the client has a status line afterwards.
LEMMA RejectAnswers ==
    ASSUME NEW r, Honest(r), NEW stopping \in BOOLEAN, NEW s \in Reject(r, stopping)
    PROVE  Honest(s) /\ (~s.failed /\ ~stopping => s.head)
<1>1. CASE r.head
  BY <1>1 DEF Reject
<1>2. CASE ~r.head
  <2> DEFINE b == [r EXCEPT !.mode = "auto"]
  <2>1. b \in Reply /\ Honest(b) /\ b.mode = "auto" /\ ~b.head /\ ~b.failed
    BY <1>2 DEF Honest, Reply
  <2>2. s \in Respond(b, 0, stopping)
    BY <1>2 DEF Reject
  <2> HIDE DEF b
  <2>3. Honest(s)
    BY <2>1, <2>2, RespondHonest
  <2>4. CASE stopping
    BY <2>3, <2>4
  <2>5. CASE ~stopping
    <3> DEFINE c == [b EXCEPT !.rem = 0]
               h == SendHeaders(c)
               taken == [h EXCEPT !.rem = IF h.mode = "none" THEN @ ELSE @ - 0,
                                  !.mode = IF h.mode = "auto" THEN "sealed" ELSE @]
    <3>1. c \in Reply /\ c.mode = "auto" /\ ~c.head /\ c.rem = 0
      BY <2>1 DEF Reply
    <3>2. s \in {[taken EXCEPT !.sent = @ + 0], [taken EXCEPT !.failed = TRUE],
                 [c EXCEPT !.head = TRUE, !.failed = TRUE]}
      BY <2>1, <2>2, <2>5, <3>1 DEF Respond
    <3>3. h \in Reply /\ h.head
      BY <3>1, SendHeadersIs
    <3> HIDE DEF c, h
    <3> QED BY <2>3, <3>1, <3>2, <3>3 DEF Reply
  <2> QED BY <2>4, <2>5
<1> QED BY <1>1, <1>2

-----------------------------------------------------------------------------
(* HTTP: the workers and the server they share.                            *)

Serving == {w \in Workers : worker[w] # "none"}

HttpTypeOK ==
    /\ http \in [up : BOOLEAN, heap : BOOLEAN, stopping : BOOLEAN, exited : Nat, started : Nat, runs : Nat, conns : Nat]
    /\ worker \in [Workers -> {"none", "accept", "head", "handle", "close", "lost"}]
    /\ reply \in [Workers -> Reply]
    /\ caller \in {"idle", "create", "collect"}

\* The tasks that still run and the semaphores given but not taken are together
\* the workers still to be collected, and a server with any is allocated.
Counted ==
    /\ Cardinality(Serving) + http.exited = http.started
    /\ http.up = http.heap
    /\ (http.started > 0 \/ caller # "idle") => http.heap

\* A connection about to be closed has been answered.
Answered(w) == worker[w] = "close" /\ ~reply[w].failed /\ ~http.stopping => reply[w].head

Responses == \A w \in Workers : Honest(reply[w]) /\ Answered(w)

HttpInv == HttpTypeOK /\ Counted /\ Responses

\* Cardinality of the workers that run.
LEMMA ServingFinite ==
    ASSUME HttpTypeOK
    PROVE  IsFiniteSet(Serving) /\ Cardinality(Serving) \in Nat
<1>1. Serving \in SUBSET Workers BY DEF Serving
<1> QED BY <1>1, HttpAssumption, FS_Subset, FS_CardinalityType

\* A worker that is created or ends changes their number by one, and one that
\* goes on serving does not change it.
LEMMA ServingChanges ==
    ASSUME HttpTypeOK, NEW w \in Workers,
           NEW pc \in {"none", "accept", "head", "handle", "close", "lost"},
           worker' = [worker EXCEPT ![w] = pc]
    PROVE  /\ worker' \in [Workers -> {"none", "accept", "head", "handle", "close", "lost"}]
           /\ worker[w] = "none" /\ pc # "none" => Cardinality(Serving') = Cardinality(Serving) + 1
           /\ worker[w] # "none" /\ pc = "none" => Cardinality(Serving') = Cardinality(Serving) - 1
           /\ worker[w] # "none" /\ pc # "none" => Serving' = Serving
           /\ worker'[w] = pc
           /\ \A v \in Workers : v # w => worker'[v] = worker[v]
<1>0. IsFiniteSet(Serving) BY ServingFinite
<1>1. /\ worker' \in [Workers -> {"none", "accept", "head", "handle", "close", "lost"}]
      /\ worker'[w] = pc /\ \A v \in Workers : v # w => worker'[v] = worker[v]
  BY DEF HttpTypeOK
<1>2. CASE worker[w] = "none" /\ pc # "none"
  <2>1. Serving' = Serving \cup {w} /\ w \notin Serving BY <1>1, <1>2 DEF Serving
  <2> QED BY <1>0, <1>1, <1>2, <2>1, FS_AddElement
<1>3. CASE worker[w] # "none" /\ pc = "none"
  <2>1. Serving' = Serving \ {w} /\ w \in Serving BY <1>1, <1>3 DEF Serving
  <2> QED BY <1>0, <1>1, <1>3, <2>1, FS_RemoveElement
<1>4. CASE worker[w] # "none" /\ pc # "none"
  <2>1. Serving' = Serving BY <1>1, <1>4 DEF Serving
  <2> QED BY <1>1, <1>4, <2>1
<1> QED BY <1>1, <1>2, <1>3, <1>4

\* A step of one worker that leaves the number of tasks alone keeps the invariant
\* if its response stays honest and, when it is about to close, answered.
LEMMA ServingStep ==
    ASSUME HttpInv, NEW w \in Workers,
           NEW pc \in {"accept", "head", "handle", "close", "lost"}, NEW r,
           worker[w] # "none", worker' = [worker EXCEPT ![w] = pc],
           reply' = [reply EXCEPT ![w] = r], Honest(r),
           pc = "close" /\ ~r.failed /\ ~http.stopping => r.head,
           \/ http' = http
           \/ http' = [http EXCEPT !.conns = @ + 1],
           caller' = caller
    PROVE  HttpInv'
<1>1. /\ worker' \in [Workers -> {"none", "accept", "head", "handle", "close", "lost"}]
      /\ Serving' = Serving /\ worker'[w] = pc
      /\ \A v \in Workers : v # w => worker'[v] = worker[v]
  BY ServingChanges DEF HttpInv
<1>2. /\ http' \in [up : BOOLEAN, heap : BOOLEAN, stopping : BOOLEAN, exited : Nat, started : Nat, runs : Nat, conns : Nat]
      /\ http'.up = http.up /\ http'.heap = http.heap /\ http'.stopping = http.stopping
      /\ http'.exited = http.exited /\ http'.started = http.started
  BY DEF HttpInv, HttpTypeOK
<1>3. /\ reply' \in [Workers -> Reply] /\ reply'[w] = r
      /\ \A v \in Workers : v # w => reply'[v] = reply[v]
  BY DEF HttpInv, HttpTypeOK, Honest
<1>4. HttpTypeOK' BY <1>1, <1>2, <1>3 DEF HttpInv, HttpTypeOK
<1>5. Counted' BY <1>1, <1>2 DEF HttpInv, Counted
<1>6. ASSUME NEW v \in Workers PROVE Honest(reply'[v]) /\ Answered(v)'
  <2>1. CASE v = w BY <1>1, <1>2, <1>3, <2>1 DEF Answered
  <2>2. CASE v # w BY <1>1, <1>2, <1>3, <2>2 DEF HttpInv, Responses, Answered
  <2> QED BY <2>1, <2>2
<1> QED BY <1>4, <1>5, <1>6 DEF HttpInv, Responses

\* Initially nothing runs.
LEMMA HttpInvInit == HttpInit => HttpInv
<1> SUFFICES ASSUME HttpInit PROVE HttpInv
  OBVIOUS
<1>1. Honest(Fresh) /\ Fresh \in Reply BY FreshHonest DEF Honest
<1>2. HttpTypeOK BY <1>1 DEF HttpInit, HttpTypeOK
<1>3. Serving = {} BY DEF HttpInit, Serving
<1>4. Counted BY <1>3, FS_EmptySet DEF HttpInit, Counted
<1>5. Responses BY <1>1 DEF HttpInit, Responses, Answered
<1> QED BY <1>2, <1>4, <1>5 DEF HttpInv

\* Every step of the server keeps the invariant.
LEMMA HttpInvStep == HttpInv /\ (HttpNext \/ UNCHANGED httpVars) => HttpInv'
<1> SUFFICES ASSUME HttpInv, HttpNext \/ UNCHANGED httpVars PROVE HttpInv'
  OBVIOUS
<1>0. /\ HttpTypeOK /\ Counted /\ Responses
      /\ Cardinality(Serving) \in Nat /\ IsFiniteSet(Serving) /\ Cardinality(Workers) \in Nat
  BY ServingFinite, HttpAssumption, FS_CardinalityType DEF HttpInv
<1>k. ASSUME UNCHANGED worker PROVE Serving' = Serving BY <1>k DEF Serving
<1>1. CASE HttpStart
  <2>1. Serving = {}
    BY <1>0, <1>1, FS_EmptySet DEF HttpStart, Counted, HttpTypeOK
  <2>2. Serving' = Serving BY <1>1, <1>k DEF HttpStart
  <2>a. http' = [up |-> TRUE, heap |-> TRUE, stopping |-> FALSE, exited |-> 0, started |-> 0,
                 runs |-> http.runs + 1, conns |-> http.conns]
    BY <1>0, <1>1 DEF HttpStart, HttpTypeOK
  <2>b. http.runs + 1 \in Nat /\ http.conns \in Nat
    BY <1>0 DEF HttpTypeOK
  <2>c. http' \in [up : BOOLEAN, heap : BOOLEAN, stopping : BOOLEAN, exited : Nat, started : Nat, runs : Nat, conns : Nat]
    BY <2>a, <2>b
  <2>3. HttpTypeOK'
    BY <1>0, <1>1, <2>c DEF HttpStart, HttpTypeOK
  <2>4. Counted' BY <1>0, <1>1, <2>1, <2>2, FS_EmptySet DEF HttpStart, Counted, HttpTypeOK
  <2>5. Responses' BY <1>0, <1>1, <2>1 DEF HttpStart, Responses, Answered, Serving
  <2> QED BY <2>3, <2>4, <2>5 DEF HttpInv
<1>2. CASE CreateWorker
  <2>1. ASSUME NEW w \in Workers, worker[w] = "none", worker' = [worker EXCEPT ![w] = "accept"],
               http' = [http EXCEPT !.started = @ + 1], UNCHANGED <<caller, reply>>
        PROVE  HttpInv'
    <3>1. /\ worker' \in [Workers -> {"none", "accept", "head", "handle", "close", "lost"}]
          /\ Cardinality(Serving') = Cardinality(Serving) + 1 /\ worker'[w] = "accept"
          /\ \A v \in Workers : v # w => worker'[v] = worker[v]
      BY <1>0, <2>1, ServingChanges
    <3>2. HttpTypeOK' BY <1>0, <2>1, <3>1 DEF HttpTypeOK
    <3>3. Counted' BY <1>0, <1>2, <2>1, <3>1 DEF CreateWorker, Counted, HttpTypeOK
    <3>4. Responses' BY <1>0, <2>1, <3>1 DEF Responses, Answered, HttpTypeOK
    <3> QED BY <3>2, <3>3, <3>4 DEF HttpInv
  <2>2. ASSUME http' = [http EXCEPT !.stopping = TRUE] \/ http' = http, caller' \in {"idle", "collect"},
               UNCHANGED <<worker, reply>>
        PROVE  HttpInv'
    <3>1. Serving' = Serving BY <1>k, <2>2
    <3>2. HttpTypeOK' BY <1>0, <2>2 DEF HttpTypeOK
    <3>3. Counted' BY <1>0, <1>2, <2>2, <3>1 DEF CreateWorker, Counted, HttpTypeOK
    <3>4. Responses' BY <1>0, <2>2 DEF Responses, Answered, HttpTypeOK
    <3> QED BY <3>2, <3>3, <3>4 DEF HttpInv
  <2> QED BY <1>2, <2>1, <2>2 DEF CreateWorker
<1>3. CASE HttpStop
  <2>1. Serving' = Serving BY <1>3, <1>k DEF HttpStop
  <2>2. HttpTypeOK' BY <1>0, <1>3 DEF HttpStop, HttpTypeOK
  <2>3. Counted' BY <1>0, <1>3, <2>1 DEF HttpStop, Counted, HttpTypeOK
  <2>4. Responses' BY <1>0, <1>3 DEF HttpStop, Responses, Answered, HttpTypeOK
  <2> QED BY <2>2, <2>3, <2>4 DEF HttpInv
<1>4. CASE Collect
  <2>1. Serving' = Serving BY <1>4, <1>k DEF Collect
  <2>a. http.started - 1 \in Nat /\ http.exited - 1 \in Nat
    BY <1>0, <1>4 DEF Collect, HttpTypeOK
  <2>2. HttpTypeOK' BY <1>0, <1>4, <2>a DEF Collect, HttpTypeOK
  <2>3. Counted' BY <1>0, <1>4, <2>1 DEF Collect, Counted, HttpTypeOK
  <2>4. Responses' BY <1>0, <1>4 DEF Collect, Responses, Answered, HttpTypeOK
  <2> QED BY <2>2, <2>3, <2>4 DEF HttpInv
<1>5. CASE CollectGivesUp
  <2>1. Serving' = Serving BY <1>5, <1>k DEF CollectGivesUp
  <2>2. HttpTypeOK' BY <1>0, <1>5 DEF CollectGivesUp, HttpTypeOK
  <2>3. Counted' BY <1>0, <1>5, <2>1 DEF CollectGivesUp, Counted
  <2>4. Responses' BY <1>0, <1>5 DEF CollectGivesUp, Responses, Answered
  <2> QED BY <2>2, <2>3, <2>4 DEF HttpInv
<1>6. CASE HttpFree
  <2>1. Serving' = Serving BY <1>6, <1>k DEF HttpFree
  <2>2. HttpTypeOK' BY <1>0, <1>6 DEF HttpFree, HttpTypeOK
  <2>3. Counted' BY <1>0, <1>6, <2>1 DEF HttpFree, Counted, HttpTypeOK
  <2>4. Responses' BY <1>0, <1>6 DEF HttpFree, Responses, Answered, HttpTypeOK
  <2> QED BY <2>2, <2>3, <2>4 DEF HttpInv
<1>7. ASSUME NEW w \in Workers, AcceptConn(w) PROVE HttpInv'
  BY <1>7, ServingStep, FreshHonest DEF AcceptConn, Become, Fresh
<1>8. ASSUME NEW w \in Workers, ReadHead(w) PROVE HttpInv'
  <2>0. Honest(reply[w]) /\ http.stopping \in BOOLEAN /\ reply = [reply EXCEPT ![w] = reply[w]]
    BY <1>0 DEF Responses, HttpTypeOK
  <2>1. CASE worker' = [worker EXCEPT ![w] = "lost"] /\ UNCHANGED reply
    BY <1>8, <2>0, <2>1, ServingStep DEF ReadHead
  <2>2. CASE worker' = [worker EXCEPT ![w] = "handle"] /\ UNCHANGED reply
    BY <1>8, <2>0, <2>2, ServingStep DEF ReadHead
  <2>3. ASSUME NEW r \in Reject(reply[w], http.stopping),
               reply' = [reply EXCEPT ![w] = r], worker' = [worker EXCEPT ![w] = "close"]
        PROVE  HttpInv'
    <3>1. Honest(r) /\ (~r.failed /\ ~http.stopping => r.head)
      BY <2>0, <2>3, RejectAnswers
    <3> QED BY <1>8, <2>3, <3>1, ServingStep DEF ReadHead
  <2> QED BY <1>8, <2>1, <2>2, <2>3 DEF ReadHead, Become
<1>9. ASSUME NEW w \in Workers, Call(w) PROVE HttpInv'
  <2>0. /\ Honest(reply[w]) /\ reply[w] \in Reply /\ http.stopping \in BOOLEAN
        /\ worker' = [worker EXCEPT ![w] = "handle"]
    BY <1>0, <1>9 DEF Call, Responses, HttpTypeOK
  <2>a. PICK n \in 0..MaxBody :
           \E r \in {SetLength(reply[w], n), OmitLength(reply[w])} \cup Respond(reply[w], n, http.stopping) :
              reply' = [reply EXCEPT ![w] = [r EXCEPT !.calls = @ + 1]]
    BY <1>9 DEF Call
  <2>1. PICK r \in {SetLength(reply[w], n), OmitLength(reply[w])} \cup Respond(reply[w], n, http.stopping) :
           reply' = [reply EXCEPT ![w] = [r EXCEPT !.calls = @ + 1]]
    BY <2>a
  <2>2. n \in Nat BY HttpAssumption
  <2>3. Honest(r)
    <3>1. CASE r = SetLength(reply[w], n) BY <2>0, <2>2, <3>1 DEF SetLength, Honest, Reply
    <3>2. CASE r = OmitLength(reply[w]) BY <2>0, <3>2 DEF OmitLength, Honest, Reply
    <3>3. CASE r \in Respond(reply[w], n, http.stopping) BY <2>0, <2>2, <3>3, RespondHonest
    <3> QED BY <3>1, <3>2, <3>3
  <2>4. Honest([r EXCEPT !.calls = @ + 1])
    BY <2>3 DEF Honest, Reply
  <2> QED BY <1>9, <2>0, <2>1, <2>4, ServingStep DEF Call
<1>10. ASSUME NEW w \in Workers, HandlerReturns(w) PROVE HttpInv'
  <2>1. PICK r \in Reject(reply[w], http.stopping) : reply' = [reply EXCEPT ![w] = r]
    BY <1>10 DEF HandlerReturns
  <2>2. Honest(reply[w]) /\ http.stopping \in BOOLEAN
    BY <1>0 DEF Responses, HttpTypeOK
  <2>3. Honest(r) /\ (~r.failed /\ ~http.stopping => r.head)
    BY <2>1, <2>2, RejectAnswers
  <2> QED BY <1>10, <2>1, <2>3, ServingStep DEF HandlerReturns, Become
<1>11. ASSUME NEW w \in Workers, CloseConn(w) PROVE HttpInv'
  BY <1>11, ServingStep, FreshHonest DEF CloseConn, Become
<1>12. ASSUME NEW w \in Workers, WorkerExit(w) PROVE HttpInv'
  <2>1. /\ worker' \in [Workers -> {"none", "accept", "head", "handle", "close", "lost"}]
        /\ Cardinality(Serving') = Cardinality(Serving) - 1 /\ worker'[w] = "none"
        /\ \A v \in Workers : v # w => worker'[v] = worker[v]
    BY <1>0, <1>12, ServingChanges DEF WorkerExit, Become
  <2>2. HttpTypeOK' BY <1>0, <1>12, <2>1 DEF WorkerExit, HttpTypeOK
  <2>3. Counted' BY <1>0, <1>12, <2>1 DEF WorkerExit, Counted, HttpTypeOK
  <2>4. Responses' BY <1>0, <1>12, <2>1 DEF WorkerExit, Responses, Answered, HttpTypeOK
  <2> QED BY <2>2, <2>3, <2>4 DEF HttpInv
<1>13. CASE UNCHANGED httpVars
  BY <1>13 DEF httpVars, HttpInv, HttpTypeOK, Counted, Serving, Responses, Answered
<1> QED BY <1>1, <1>2, <1>3, <1>4, <1>5, <1>6, <1>7, <1>8, <1>9, <1>10, <1>11, <1>12, <1>13 DEF HttpNext

\* An invariant response is the property.
LEMMA HttpInvImplies == HttpInv => OneHonestReply /\ HttpFreedLast
<1> SUFFICES ASSUME HttpInv PROVE OneHonestReply /\ HttpFreedLast
  OBVIOUS
<1>1. OneHonestReply
  <2> SUFFICES ASSUME NEW w \in Workers
               PROVE  /\ reply[w].heads <= 1
                      /\ reply[w].sent > 0 => reply[w].heads = 1
                      /\ reply[w].said # Unsaid => reply[w].sent <= reply[w].said
                      /\ (worker[w] = "close" /\ ~reply[w].failed /\ ~http.stopping) =>
                            reply[w].heads = 1 /\ (reply[w].mode = "sealed" => reply[w].sent = reply[w].said)
    BY DEF OneHonestReply
  <2>1. Honest(reply[w]) /\ Answered(w) /\ reply[w] \in Reply BY DEF HttpInv, Responses, Honest
  <2> QED BY <2>1 DEF Honest, Answered, Reply
<1>2. HttpFreedLast
  <2>1. ASSUME NEW w \in Workers, worker[w] # "none" PROVE http.heap
    <3>1. Serving # {} /\ IsFiniteSet(Serving) /\ Cardinality(Serving) \in Nat
      BY <2>1, ServingFinite DEF HttpInv, Serving
    <3>2. Cardinality(Serving) > 0 BY <3>1, FS_EmptySet
    <3> QED BY <3>1, <3>2 DEF HttpInv, Counted, HttpTypeOK
  <2> QED BY <2>1 DEF HttpFreedLast
<1> QED BY <1>1, <1>2

-----------------------------------------------------------------------------
(* Telnet: the output of a session.                                        *)

Output == [tx : Seq(Nat), queued : Seq(Nat), got : Seq(Nat), failed : BOOLEAN]

Elems(s) == {s[i] : i \in 1..Len(s)}

\* The output at each step of the session task.  Once a client is attached the
\* bytes in tx are its own, and until a send fails what it got and what is in tx
\* are together what was queued for it.
Delivered(pc, o) ==
    /\ Elems(o.got) \subseteq Elems(o.queued)
    /\ ~o.failed => IsPrefix(o.got, o.queued)
    /\ pc \in {"greet", "attach"} => o.queued = <<>> /\ o.got = <<>>
    /\ pc \in {"session", "detach", "owed"} =>
          /\ Elems(o.tx) \subseteq Elems(o.queued)
          /\ ~o.failed => o.queued = o.got \o o.tx
    /\ pc = "close" /\ ~o.failed => o.got = o.queued

\* The bytes of a concatenation, and its first part.
LEMMA ConcatElems ==
    ASSUME NEW s \in Seq(Nat), NEW t \in Seq(Nat)
    PROVE  Elems(s \o t) = Elems(s) \cup Elems(t) /\ IsPrefix(s, s \o t) /\ s \o t \in Seq(Nat)
<1>1. /\ s \o t \in Seq(Nat) /\ Len(s \o t) = Len(s) + Len(t) /\ Len(s) \in Nat /\ Len(t) \in Nat
      /\ \A i \in 1..(Len(s) + Len(t)) : (s \o t)[i] = IF i <= Len(s) THEN s[i] ELSE t[i - Len(s)]
  BY ConcatProperties, LenProperties
<1> DEFINE u == s \o t
<1> HIDE DEF u
<1>2. Elems(u) = Elems(s) \cup Elems(t)
  <2>1. ASSUME NEW i \in 1..Len(u) PROVE u[i] \in Elems(s) \cup Elems(t)
    <3>1. CASE i <= Len(s) BY <1>1, <2>1, <3>1 DEF u, Elems
    <3>2. CASE ~(i <= Len(s))
      <4>1. i - Len(s) \in 1..Len(t) /\ u[i] = t[i - Len(s)] BY <1>1, <2>1, <3>2 DEF u
      <4> QED BY <4>1 DEF Elems
    <3> QED BY <3>1, <3>2
  <2>2. ASSUME NEW i \in 1..Len(s) PROVE s[i] \in Elems(u)
    <3>1. i \in 1..Len(u) /\ u[i] = s[i] BY <1>1, <2>2 DEF u
    <3> QED BY <3>1 DEF Elems
  <2>3. ASSUME NEW i \in 1..Len(t) PROVE t[i] \in Elems(u)
    <3>1. Len(s) + i \in 1..Len(u) /\ u[Len(s) + i] = t[i] BY <1>1, <2>3 DEF u
    <3> QED BY <3>1 DEF Elems
  <2> QED BY <2>1, <2>2, <2>3 DEF Elems
<1>3. IsPrefix(s, u)
  <2>1. CASE Len(s) = 0
    <3>1. SubSeq(s, 1, 0) = <<>> /\ SubSeq(u, 1, 0) = <<>> BY SubSeqEmpty
    <3> QED BY <1>1, <2>1, <3>1 DEF IsPrefix, u
  <2>2. CASE Len(s) # 0
    <3>1. 1 \in 1..Len(s) /\ Len(s) \in 1..Len(s) BY <1>1, <2>2
    <3>2. SubSeq(u, 1, Len(s)) = SubSeq(s, 1, Len(s)) BY <3>1, SubSeqOfConcat1 DEF u
    <3> QED BY <1>1, <3>2 DEF IsPrefix, u
  <2> QED BY <2>1, <2>2
<1> QED BY <1>1, <1>2, <1>3 DEF u

\* The bytes of the empty sequence and its place in every sequence.
LEMMA EmptyElems ==
    /\ Elems(<<>>) = {}
    /\ <<>> \in Seq(Nat)
    /\ \A s \in Seq(Nat) : IsPrefix(<<>>, s) /\ s \o <<>> = s /\ IsPrefix(s, s)
<1>1. Elems(<<>>) = {} /\ <<>> \in Seq(Nat) /\ Len(<<>>) = 0 BY DEF Elems
<1>2. ASSUME NEW s \in Seq(Nat) PROVE IsPrefix(<<>>, s) /\ s \o <<>> = s /\ IsPrefix(s, s)
  <2>1. <<>> \o s = s /\ s \o <<>> = s BY ConcatEmptySeq
  <2>2. IsPrefix(<<>>, <<>> \o s) /\ IsPrefix(s, s \o <<>>) BY <1>1, ConcatElems
  <2> QED BY <2>1, <2>2
<1> QED BY <1>1, <1>2

\* Bytes queued one call after another.
LEMMA ConcatBytes == \A x, y, z \in Seq(Nat) : (x \o y) \o z = x \o (y \o z)
BY ConcatAssociative

\* What one send takes from the queue, and what it leaves.
LEMMA CutElems ==
    ASSUME NEW s \in Seq(Nat), NEW k \in 0..Len(s)
    PROVE  /\ SubSeq(s, 1, k) \in Seq(Nat) /\ SubSeq(s, k + 1, Len(s)) \in Seq(Nat)
           /\ SubSeq(s, 1, k) \o SubSeq(s, k + 1, Len(s)) = s
           /\ Elems(SubSeq(s, 1, k)) \subseteq Elems(s) /\ Elems(SubSeq(s, k + 1, Len(s))) \subseteq Elems(s)
<1> DEFINE a == SubSeq(s, 1, k)
           b == SubSeq(s, k + 1, Len(s))
<1>0. Len(s) \in Nat /\ k \in Nat /\ k <= Len(s) BY LenProperties
<1>1. a \in Seq(Nat) /\ Len(a) = k /\ \A i \in 1..k : a[i] = s[i]
  BY <1>0
<1>2. b \in Seq(Nat) /\ Len(b) = Len(s) - k /\ \A i \in 1..(Len(s) - k) : b[i] = s[k + i]
  BY <1>0
<1> HIDE DEF a, b
<1>3. /\ a \o b \in Seq(Nat) /\ Len(a \o b) = k + (Len(s) - k)
      /\ \A i \in 1..(k + (Len(s) - k)) : (a \o b)[i] = IF i <= k THEN a[i] ELSE b[i - k]
  <2>1. /\ a \o b \in Seq(Nat) /\ Len(a \o b) = Len(a) + Len(b)
        /\ \A i \in 1..(Len(a) + Len(b)) : (a \o b)[i] = IF i <= Len(a) THEN a[i] ELSE b[i - Len(a)]
    BY <1>1, <1>2, ConcatProperties
  <2> QED BY <1>1, <1>2, <2>1
<1>4. a \o b = s
  <2>1. Len(a \o b) = Len(s) BY <1>0, <1>3
  <2>2. ASSUME NEW i \in 1..Len(s) PROVE (a \o b)[i] = s[i]
    <3>1. CASE i <= k BY <1>0, <1>1, <1>3, <2>2, <3>1
    <3>2. CASE ~(i <= k)
      <4>1. i - k \in 1..(Len(s) - k) /\ k + (i - k) = i BY <1>0, <2>2, <3>2
      <4> QED BY <1>0, <1>2, <1>3, <2>2, <3>2, <4>1
    <3> QED BY <3>1, <3>2
  <2> QED BY <1>3, <2>1, <2>2, SeqEqual
<1>5. Elems(s) = Elems(a) \cup Elems(b) BY <1>1, <1>2, <1>4, ConcatElems
<1> QED BY <1>1, <1>2, <1>4, <1>5 DEF a, b

\* A send that goes through: the first bytes of tx reach the client.
LEMMA SentDelivered ==
    ASSUME NEW o \in Output, NEW pc \in {"session", "owed"}, Delivered(pc, o), NEW n \in 0..Len(o.tx)
    PROVE  LET p == [o EXCEPT !.tx = SubSeq(@, n + 1, Len(@)), !.got = @ \o SubSeq(o.tx, 1, n)]
           IN  p \in Output /\ Delivered(pc, p)
<1> DEFINE a == SubSeq(o.tx, 1, n)
           b == SubSeq(o.tx, n + 1, Len(o.tx))
           g == o.got \o a
           p == [o EXCEPT !.tx = SubSeq(@, n + 1, Len(@)), !.got = @ \o SubSeq(o.tx, 1, n)]
<1>0. o.tx \in Seq(Nat) /\ o.got \in Seq(Nat) /\ o.queued \in Seq(Nat) BY DEF Output
<1>1. /\ a \in Seq(Nat) /\ b \in Seq(Nat) /\ a \o b = o.tx
      /\ Elems(a) \subseteq Elems(o.tx) /\ Elems(b) \subseteq Elems(o.tx)
  BY <1>0, CutElems
<1>2. p = [o EXCEPT !.tx = b, !.got = g] OBVIOUS
<1> HIDE DEF a, b, p
<1>3. g \in Seq(Nat) /\ Elems(g) = Elems(o.got) \cup Elems(a) BY <1>0, <1>1, ConcatElems
<1>4. g \o b = o.got \o o.tx
  <2>1. (o.got \o a) \o b = o.got \o (a \o b) BY <1>0, <1>1, ConcatBytes, Zenon
  <2> QED BY <1>1, <2>1
<1>5. IsPrefix(g, g \o b) BY <1>1, <1>3, ConcatElems
<1> HIDE DEF g
<1>6. p \in Output /\ p.tx = b /\ p.got = g /\ p.queued = o.queued /\ p.failed = o.failed
  BY <1>1, <1>2, <1>3 DEF Output
<1>7. Elems(p.got) \subseteq Elems(p.queued) /\ Elems(p.tx) \subseteq Elems(p.queued)
  BY <1>1, <1>3, <1>6 DEF Delivered
<1>8. ~p.failed => p.queued = p.got \o p.tx BY <1>4, <1>6 DEF Delivered
<1>9. ~p.failed => IsPrefix(p.got, p.queued) BY <1>5, <1>6, <1>8
<1> QED BY <1>6, <1>7, <1>8, <1>9 DEF Delivered, p

\* A send that fails loses part of what it took, leaves the rest in tx, and the
\* client learns no wrong byte.
LEMMA FailedDelivered ==
    ASSUME NEW o \in Output, NEW from \in {"session", "owed"}, Delivered(from, o),
           NEW to \in {"detach", "close"}, NEW n \in 0..Len(o.tx), NEW k \in 0..n
    PROVE  LET p == [o EXCEPT !.tx = SubSeq(@, n + 1, Len(@)), !.got = @ \o SubSeq(o.tx, 1, k),
                              !.failed = TRUE]
           IN  p \in Output /\ Delivered(to, p)
<1> DEFINE a == SubSeq(o.tx, 1, k)
           b == SubSeq(o.tx, n + 1, Len(o.tx))
           g == o.got \o a
           p == [o EXCEPT !.tx = SubSeq(@, n + 1, Len(@)), !.got = @ \o SubSeq(o.tx, 1, k), !.failed = TRUE]
<1>0. o.tx \in Seq(Nat) /\ o.got \in Seq(Nat) /\ o.queued \in Seq(Nat) BY DEF Output
<1>1. /\ a \in Seq(Nat) /\ Elems(a) \subseteq Elems(o.tx)
      /\ b \in Seq(Nat) /\ Elems(b) \subseteq Elems(o.tx)
  <2>1. k \in 0..Len(o.tx) BY <1>0
  <2> QED BY <1>0, <2>1, CutElems
<1>2. p = [o EXCEPT !.tx = b, !.got = g, !.failed = TRUE] OBVIOUS
<1> HIDE DEF a, b, p
<1>3. g \in Seq(Nat) /\ Elems(g) = Elems(o.got) \cup Elems(a) BY <1>0, <1>1, ConcatElems
<1> HIDE DEF g
<1>4. p \in Output /\ p.tx = b /\ p.got = g /\ p.queued = o.queued /\ p.failed
  BY <1>1, <1>2, <1>3 DEF Output
<1>5. Elems(p.got) \subseteq Elems(p.queued) /\ Elems(p.tx) \subseteq Elems(p.queued)
  BY <1>1, <1>3, <1>4 DEF Delivered
<1> QED BY <1>4, <1>5 DEF Delivered, p

\* flush_output() in the session and after it.
LEMMA SendDelivers ==
    ASSUME out \in Output, NEW ok \in {"session", "owed"}, NEW failed \in {"detach", "close"},
           Delivered(ok, out), Send(ok, failed)
    PROVE  \E pc \in {ok, failed} :
              tn' = [tn EXCEPT !.pc = pc] /\ out' \in Output /\ Delivered(pc, out')
<1> DEFINE n == IF Len(out.tx) < Chunk THEN Len(out.tx) ELSE Chunk
<1>0. out.tx \in Seq(Nat) BY DEF Output
<1>1. n \in 0..Len(out.tx)
  <2>1. Len(out.tx) \in Nat /\ Chunk \in Nat BY <1>0, TelnetAssumption
  <2> QED BY <2>1
<1>2. \/ /\ out' = [out EXCEPT !.tx = SubSeq(@, n + 1, Len(@)), !.got = @ \o SubSeq(out.tx, 1, n)]
         /\ tn' = [tn EXCEPT !.pc = ok]
      \/ /\ \E k \in 0..n :
               out' = [out EXCEPT !.tx = SubSeq(@, n + 1, Len(@)), !.got = @ \o SubSeq(out.tx, 1, k),
                                  !.failed = TRUE]
         /\ tn' = [tn EXCEPT !.pc = failed]
  BY Zenon DEF Send
<1> HIDE DEF n
<1>3. CASE /\ out' = [out EXCEPT !.tx = SubSeq(@, n + 1, Len(@)), !.got = @ \o SubSeq(out.tx, 1, n)]
           /\ tn' = [tn EXCEPT !.pc = ok]
  BY <1>1, <1>3, SentDelivered, Zenon
<1>4. CASE /\ \E k \in 0..n :
                 out' = [out EXCEPT !.tx = SubSeq(@, n + 1, Len(@)), !.got = @ \o SubSeq(out.tx, 1, k),
                                    !.failed = TRUE]
           /\ tn' = [tn EXCEPT !.pc = failed]
  <2>1. PICK k \in 0..n :
          out' = [out EXCEPT !.tx = SubSeq(@, n + 1, Len(@)), !.got = @ \o SubSeq(out.tx, 1, k), !.failed = TRUE]
    BY <1>4
  <2>2. out' \in Output /\ Delivered(failed, out')
    BY <1>1, <2>1, FailedDelivered, Zenon
  <2> QED BY <1>4, <2>2
<1> QED BY <1>2, <1>3, <1>4

\* telnet_server_write() puts bytes behind those already queued.
LEMMA QueuedDelivered ==
    ASSUME NEW o \in Output, NEW pc \in {"session", "detach"}, Delivered(pc, o), NEW b \in Seq(Nat)
    PROVE  LET p == [o EXCEPT !.tx = @ \o b, !.queued = @ \o b] IN p \in Output /\ Delivered(pc, p)
<1> DEFINE p == [o EXCEPT !.tx = @ \o b, !.queued = @ \o b]
           t == o.tx \o b
           q == o.queued \o b
<1>0. o.tx \in Seq(Nat) /\ o.got \in Seq(Nat) /\ o.queued \in Seq(Nat) BY DEF Output
<1>1. /\ t \in Seq(Nat) /\ Elems(t) = Elems(o.tx) \cup Elems(b)
      /\ q \in Seq(Nat) /\ Elems(q) = Elems(o.queued) \cup Elems(b)
  BY <1>0, ConcatElems
<1>2. o.queued = o.got \o o.tx => q = o.got \o t
  <2>1. (o.got \o o.tx) \o b = o.got \o (o.tx \o b) BY <1>0, ConcatBytes, Zenon
  <2> QED BY <2>1
<1>3. IsPrefix(o.got, o.got \o t) BY <1>0, <1>1, ConcatElems
<1>4. p = [o EXCEPT !.tx = t, !.queued = q] OBVIOUS
<1> HIDE DEF p, t, q
<1>5. p \in Output /\ p.tx = t /\ p.got = o.got /\ p.queued = q /\ p.failed = o.failed
  BY <1>1, <1>4 DEF Output
<1>6. Elems(p.got) \subseteq Elems(p.queued) /\ Elems(p.tx) \subseteq Elems(p.queued)
  BY <1>1, <1>5 DEF Delivered
<1>7. ~p.failed => p.queued = p.got \o p.tx BY <1>2, <1>5 DEF Delivered
<1>8. ~p.failed => IsPrefix(p.got, p.queued) BY <1>3, <1>5, <1>7
<1> QED BY <1>5, <1>6, <1>7, <1>8 DEF Delivered, p

-----------------------------------------------------------------------------
(* Telnet: the session task and the server it uses.                        *)

TelnetTypeOK ==
    /\ tn \in [up : BOOLEAN, heap : BOOLEAN, stopping : BOOLEAN, drop : BOOLEAN, exited : BOOLEAN,
               active : BOOLEAN, tap : BOOLEAN,
               pc : {"none", "accept", "greet", "attach", "session", "detach", "owed", "close"},
               runs : Nat, clients : Nat]
    /\ out \in Output
    /\ wr \in [next : Nat, left : Nat, load : [keys : {MaxKeys, 0}, out : {0, MaxOut}]]
    /\ stopper \in {"idle", "publish", "wait"}

\* Who may still use the server: s_server, the task, and the start that is about
\* to publish it.  The semaphore is given by a task that is gone, and output is
\* taken only while a session runs.
Used ==
    /\ (tn.up \/ tn.pc # "none" \/ stopper = "publish") => tn.heap
    /\ tn.exited => tn.pc = "none"
    /\ tn.active => tn.pc \in {"session", "detach"}

TelnetInv == TelnetTypeOK /\ Used /\ Delivered(tn.pc, out)

\* Initially there is no server.
LEMMA TelnetInvInit == ASSUME NEW load \in Loads, TelnetInit(load) PROVE TelnetInv
<1>1. NoOutput \in Output /\ Delivered("none", NoOutput)
  BY EmptyElems DEF NoOutput, Output, Delivered
<1>2. load \in [keys : {MaxKeys, 0}, out : {0, MaxOut}] BY DEF Loads
<1>3. TelnetTypeOK BY <1>1, <1>2 DEF TelnetInit, TelnetTypeOK
<1>4. Used BY DEF TelnetInit, Used
<1> QED BY <1>1, <1>3, <1>4 DEF TelnetInit, TelnetInv

\* Every step of the server keeps the invariant.
LEMMA TelnetInvStep == TelnetInv /\ (TelnetNext \/ UNCHANGED telnetVars) => TelnetInv'
<1> SUFFICES ASSUME TelnetInv, TelnetNext \/ UNCHANGED telnetVars PROVE TelnetInv'
  OBVIOUS
<1>0. TelnetTypeOK /\ Used /\ Delivered(tn.pc, out) /\ out \in Output BY DEF TelnetInv, TelnetTypeOK
<1>1. CASE TelnetCreate
  <2>1. NoOutput \in Output /\ Delivered("accept", NoOutput)
    BY EmptyElems DEF NoOutput, Output, Delivered
  <2>2. tn.runs + 1 \in Nat BY <1>0 DEF TelnetTypeOK
  <2>3. TelnetTypeOK' BY <1>0, <1>1, <2>1, <2>2 DEF TelnetCreate, TelnetTypeOK
  <2>4. Used' BY <1>0, <1>1 DEF TelnetCreate, TelnetTypeOK, Used
  <2>5. tn'.pc = "accept" /\ out' = NoOutput BY <1>0, <1>1 DEF TelnetCreate, TelnetTypeOK
  <2> QED BY <2>1, <2>3, <2>4, <2>5 DEF TelnetInv
<1>2. CASE TelnetPublish
  <2>1. TelnetTypeOK' BY <1>0, <1>2 DEF TelnetPublish, TelnetTypeOK
  <2>2. Used' BY <1>0, <1>2 DEF TelnetPublish, TelnetTypeOK, Used
  <2>3. tn'.pc = tn.pc /\ out' = out BY <1>0, <1>2 DEF TelnetPublish, TelnetTypeOK
  <2> QED BY <1>0, <2>1, <2>2, <2>3 DEF TelnetInv
<1>3. CASE TelnetStop
  <2>1. TelnetTypeOK' BY <1>0, <1>3 DEF TelnetStop, TelnetTypeOK
  <2>2. Used' BY <1>0, <1>3 DEF TelnetStop, TelnetTypeOK, Used
  <2>3. tn'.pc = tn.pc /\ out' = out BY <1>0, <1>3 DEF TelnetStop, TelnetTypeOK
  <2> QED BY <1>0, <2>1, <2>2, <2>3 DEF TelnetInv
<1>4. CASE TelnetGivesUp
  BY <1>0, <1>4 DEF TelnetGivesUp, TelnetTypeOK, Used, TelnetInv
<1>5. CASE TelnetFree
  <2>1. TelnetTypeOK' BY <1>0, <1>5 DEF TelnetFree, TelnetTypeOK
  <2>2. Used' BY <1>0, <1>5 DEF TelnetFree, TelnetTypeOK, Used
  <2>3. tn'.pc = tn.pc /\ out' = out BY <1>0, <1>5 DEF TelnetFree, TelnetTypeOK
  <2> QED BY <1>0, <2>1, <2>2, <2>3 DEF TelnetInv
<1>6. ASSUME NEW n \in 1..(TxSize + 1), WriteCall(n) PROVE TelnetInv'
  <2>1. n \in Nat BY TelnetAssumption
  <2>2. TelnetTypeOK' BY <1>0, <1>6, <2>1 DEF WriteCall, TelnetTypeOK
  <2> QED BY <1>0, <1>6, <2>2 DEF WriteCall, Used, TelnetInv
<1>7. CASE WriteTurn
  <2> DEFINE fit   == IF wr.left < TxSize - Len(out.tx) THEN wr.left ELSE TxSize - Len(out.tx)
             bytes == [i \in 1..fit |-> wr.next + i - 1]
  <2>0. wr.next \in Nat /\ wr.left \in Nat /\ out.tx \in Seq(Nat) /\ Len(out.tx) \in Nat
    BY <1>0 DEF TelnetTypeOK, Output
  <2>1. CASE tn.up /\ tn.active
    <3>a. fit > 0
      BY <1>7, <2>1 DEF WriteTurn
    <3>1. fit \in Nat /\ wr.left - fit \in Nat /\ wr.next + fit \in Nat
      BY <2>0, <3>a, TelnetAssumption
    <3>2. /\ out' = [out EXCEPT !.tx = @ \o bytes, !.queued = @ \o bytes]
          /\ wr' = [wr EXCEPT !.next = wr.next + fit, !.left = wr.left - fit]
      BY <1>7, <2>1 DEF WriteTurn
    <3> HIDE DEF fit
    <3>3. bytes \in Seq(Nat)
      <4>1. \A i \in 1..fit : wr.next + i - 1 \in Nat BY <2>0, <3>1
      <4> QED BY <3>1, <4>1
    <3>4. tn.pc \in {"session", "detach"} BY <1>0, <2>1 DEF Used
    <3> HIDE DEF bytes
    <3>5. out' \in Output /\ Delivered(tn.pc, out') BY <1>0, <3>2, <3>3, <3>4, QueuedDelivered
    <3>6. TelnetTypeOK' BY <1>0, <1>7, <3>1, <3>2, <3>5, ZenonT(60) DEF WriteTurn, TelnetTypeOK
    <3>7. Used' /\ tn' = tn BY <1>0, <1>7 DEF WriteTurn, Used
    <3> QED BY <3>5, <3>6, <3>7 DEF TelnetInv
  <2>2. CASE ~(tn.up /\ tn.active)
    <3>1. out' = out /\ wr' = [wr EXCEPT !.next = wr.next + wr.left, !.left = 0]
      BY <1>7, <2>2 DEF WriteTurn
    <3>2. wr.next + wr.left \in Nat BY <2>0
    <3>3. TelnetTypeOK' BY <1>0, <1>7, <3>1, <3>2, ZenonT(60) DEF WriteTurn, TelnetTypeOK
    <3> QED BY <1>0, <1>7, <3>1, <3>3 DEF WriteTurn, Used, TelnetInv
  <2> QED BY <2>1, <2>2
<1>8. CASE WriteGivesUp
  <2>1. wr.next + wr.left \in Nat BY <1>0 DEF TelnetTypeOK
  <2>2. TelnetTypeOK' BY <1>0, <1>8, <2>1, ZenonT(60) DEF WriteGivesUp, TelnetTypeOK
  <2> QED BY <1>0, <1>8, <2>2 DEF WriteGivesUp, Used, TelnetInv
<1>9. CASE ReadByte \/ Types \/ ParseNext
  <2>1. UNCHANGED <<tn, out, wr, stopper>> BY <1>9 DEF ReadByte, Types, ParseNext
  <2> QED BY <1>0, <2>1 DEF TelnetTypeOK, Used, TelnetInv
<1>10. CASE Disconnect
  <2>1. TelnetTypeOK' BY <1>0, <1>10 DEF Disconnect, TelnetTypeOK
  <2>2. Used' BY <1>0, <1>10 DEF Disconnect, TelnetTypeOK, Used
  <2>3. tn'.pc = tn.pc /\ out' = out BY <1>0, <1>10 DEF Disconnect, TelnetTypeOK
  <2> QED BY <1>0, <2>1, <2>2, <2>3 DEF TelnetInv
<1>11. CASE Accept
  <2>1. /\ out' \in Output /\ out'.got = <<>> /\ out'.queued = <<>>
    BY <1>0, <1>11, EmptyElems DEF Accept, Output
  <2>2. Delivered("greet", out') BY <2>1, EmptyElems DEF Delivered
  <2>3. tn.clients + 1 \in Nat BY <1>0 DEF TelnetTypeOK
  <2>4. TelnetTypeOK' BY <1>0, <1>11, <2>1, <2>3 DEF Accept, TelnetTypeOK
  <2>5. Used' /\ tn'.pc = "greet" BY <1>0, <1>11 DEF Accept, TelnetTypeOK, Used
  <2> QED BY <2>2, <2>4, <2>5 DEF TelnetInv
<1>12. CASE Greet
  <2>1. TelnetTypeOK'
    <3>1. CASE tn' = [tn EXCEPT !.pc = "accept"] BY <1>0, <1>12, <3>1 DEF Greet, TelnetTypeOK
    <3>2. CASE tn' = [tn EXCEPT !.pc = "attach", !.drop = FALSE] BY <1>0, <1>12, <3>2 DEF Greet, TelnetTypeOK
    <3> QED BY <1>12, <3>1, <3>2 DEF Greet
  <2>2. Used' /\ tn'.pc \in {"accept", "attach"} BY <1>0, <1>12 DEF Greet, TelnetTypeOK, Used
  <2>3. Delivered(tn'.pc, out) BY <1>0, <1>12, <2>2 DEF Greet, Delivered
  <2> QED BY <1>12, <2>1, <2>2, <2>3 DEF Greet, TelnetInv
<1>13. CASE Attach
  <2>1. /\ out' \in Output /\ out'.tx = <<>> /\ out'.got = out.got /\ out'.queued = out.queued
        /\ out'.failed = out.failed
    BY <1>0, <1>13, EmptyElems DEF Attach, Output
  <2>2. out.got = <<>> /\ out.queued = <<>> BY <1>0, <1>13 DEF Attach, Delivered
  <2>3. Delivered("session", out') BY <2>1, <2>2, EmptyElems DEF Delivered
  <2>4. TelnetTypeOK' BY <1>0, <1>13, <2>1 DEF Attach, TelnetTypeOK
  <2>5. Used' /\ tn'.pc = "session" BY <1>0, <1>13 DEF Attach, TelnetTypeOK, Used
  <2> QED BY <2>3, <2>4, <2>5 DEF TelnetInv
<1>14. CASE Flush
  <2>1. Delivered("session", out) BY <1>0, <1>14 DEF Flush
  <2>2. PICK pc \in {"session", "detach"} :
          tn' = [tn EXCEPT !.pc = pc] /\ out' \in Output /\ Delivered(pc, out')
    BY <1>0, <1>14, <2>1, SendDelivers, Zenon DEF Flush
  <2>3. TelnetTypeOK' BY <1>0, <1>14, <2>2 DEF Flush, TelnetTypeOK
  <2>4. Used' /\ tn'.pc = pc BY <1>0, <1>14, <2>2 DEF Flush, TelnetTypeOK, Used
  <2> QED BY <2>2, <2>3, <2>4 DEF TelnetInv
<1>15. CASE Leave
  <2>1. /\ out' \in Output /\ out'.tx = out.tx /\ out'.got = out.got /\ out'.queued = out.queued
        /\ out'.failed \in {out.failed, TRUE}
    BY <1>0, <1>15 DEF Leave, Output
  <2>2. Delivered("detach", out') BY <1>0, <1>15, <2>1 DEF Leave, Delivered
  <2>3. TelnetTypeOK' BY <1>0, <1>15, <2>1 DEF Leave, TelnetTypeOK
  <2>4. Used' /\ tn'.pc = "detach" BY <1>0, <1>15 DEF Leave, TelnetTypeOK, Used
  <2> QED BY <2>2, <2>3, <2>4 DEF TelnetInv
<1>16. CASE Detach
  <2>1. TelnetTypeOK' BY <1>0, <1>16 DEF Detach, TelnetTypeOK
  <2>2. Used' /\ tn'.pc = "owed" BY <1>0, <1>16 DEF Detach, TelnetTypeOK, Used
  <2>3. Delivered("owed", out) BY <1>0, <1>16 DEF Detach, Delivered
  <2> QED BY <1>16, <2>1, <2>2, <2>3 DEF Detach, TelnetInv
<1>17. CASE Owed
  <2>0. Delivered("owed", out) BY <1>0, <1>17 DEF Owed
  <2>1. PICK pc \in {"owed", "close"} :
          tn' = [tn EXCEPT !.pc = pc] /\ out' \in Output /\ Delivered(pc, out')
    <3>1. CASE out.tx = <<>> /\ tn' = [tn EXCEPT !.pc = "close"] /\ out' = out
      <4>1. out.got \in Seq(Nat) BY <1>0 DEF Output
      <4>2. out.got \o <<>> = out.got BY <4>1, EmptyElems
      <4>3. Delivered("close", out) BY <2>0, <3>1, <4>2 DEF Delivered
      <4> QED BY <1>0, <3>1, <4>3
    <3>2. CASE Send("owed", "close") BY <1>0, <2>0, <3>2, SendDelivers, Zenon
    <3> QED BY <1>17, <3>1, <3>2 DEF Owed
  <2>2. TelnetTypeOK' BY <1>0, <1>17, <2>1 DEF Owed, TelnetTypeOK
  <2>3. Used' /\ tn'.pc = pc BY <1>0, <1>17, <2>1 DEF Owed, TelnetTypeOK, Used
  <2> QED BY <2>1, <2>2, <2>3 DEF TelnetInv
<1>18. CASE Close
  <2>1. TelnetTypeOK' BY <1>0, <1>18 DEF Close, TelnetTypeOK
  <2>2. Used' /\ tn'.pc = "accept" BY <1>0, <1>18 DEF Close, TelnetTypeOK, Used
  <2>3. Delivered("accept", out) BY <1>0 DEF Delivered
  <2> QED BY <1>18, <2>1, <2>2, <2>3 DEF Close, TelnetInv
<1>19. CASE TelnetExit
  <2>1. TelnetTypeOK' BY <1>0, <1>19 DEF TelnetExit, TelnetTypeOK
  <2>2. Used' /\ tn'.pc = "none" BY <1>0, <1>19 DEF TelnetExit, TelnetTypeOK, Used
  <2>3. Delivered("none", out) BY <1>0 DEF Delivered
  <2> QED BY <1>19, <2>1, <2>2, <2>3 DEF TelnetExit, TelnetInv
<1>20. CASE UNCHANGED telnetVars
  BY <1>0, <1>20 DEF telnetVars, TelnetTypeOK, Used, TelnetInv
<1> QED BY <1>1, <1>2, <1>3, <1>4, <1>5, <1>6, <1>7, <1>8, <1>9, <1>10, <1>11, <1>12, <1>13,
           <1>14, <1>15, <1>16, <1>17, <1>18, <1>19, <1>20 DEF TelnetNext

\* What the invariant says of the bytes and of the server.
LEMMA TelnetInvImplies == TelnetInv => OwedGoesOut /\ TelnetFreedLast
<1> SUFFICES ASSUME TelnetInv PROVE OwedGoesOut /\ TelnetFreedLast
  OBVIOUS
<1>1. ASSUME NEW i \in 1..Len(out.got) PROVE Contains(out.queued, out.got[i])
  <2>1. out.got[i] \in Elems(out.queued) BY <1>1 DEF TelnetInv, Delivered, Elems
  <2> QED BY <2>1 DEF Elems, Contains
<1>2. OwedGoesOut BY <1>1 DEF TelnetInv, Delivered, OwedGoesOut
<1> QED BY <1>2 DEF TelnetInv, Used, TelnetFreedLast

-----------------------------------------------------------------------------
(* Telnet: the input of a session.                                         *)

Bytes  == {"key", "CR", "LF", "NUL", "IAC", "WILL", "SB", "SE", "NOP", "opt"}
States == {"data", "iac", "option", "sub", "subiac"}
Modes  == States \cup {"cr"}

Input == [way : Seq(Bytes), state : States, cr : BOOLEAN, rx : Seq(Bytes), keys : Seq(Bytes),
          sent : Nat, lost : BOOLEAN]

\* The parser's state, with the byte after a CR as one of its own.
Mode(p) == IF p.cr THEN "cr" ELSE p.state

\* How a byte moves the parser, for what a client sends: behind a CR comes LF or NUL.
Turn(m, b) ==
    IF m = "data" THEN (IF b = "IAC" THEN "iac" ELSE IF b = "CR" THEN "cr" ELSE "data")
    ELSE IF m = "iac" THEN (IF b = "WILL" THEN "option" ELSE IF b = "SB" THEN "sub" ELSE "data")
    ELSE IF m = "sub" THEN (IF b = "IAC" THEN "subiac" ELSE "sub")
    ELSE IF m = "subiac" THEN (IF b = "SE" THEN "data" ELSE "sub")
    ELSE "data"

\* Whether the byte is a key.
IsKey(m, b) == (m = "data" /\ b # "IAC") \/ (m = "iac" /\ b = "IAC")

\* One byte takes the parser from a mode and a number of keys to the next.
Goes(m, n, b, m2, n2, keys) ==
    /\ m = "cr" => b \in {"LF", "NUL"}
    /\ m2 = Turn(m, b)
    /\ IF IsKey(m, b) THEN n2 = n + 1 /\ n2 <= Len(keys) /\ keys[n2] = b ELSE n2 = n

\* The course of the parser over all the bytes on their way: its mode and the
\* number of keys at each of them.  It ends outside every frame, with all the keys.
Course(way, keys, mode, at) ==
    /\ mode \in [0..Len(way) -> Modes] /\ at \in [0..Len(way) -> Nat]
    /\ \A i \in 1..Len(way) : Goes(mode[i - 1], at[i - 1], way[i], mode[i], at[i], keys)
    /\ \A i, j \in 0..Len(way) : i <= j => at[i] <= at[j]
    /\ mode[Len(way)] = "data" /\ at[Len(way)] = Len(keys)

\* The bytes on their way will give the keys that are still to come.
Reads(p) ==
    /\ p.cr => p.state = "data"
    /\ ~p.lost => \A i \in 1..Len(p.rx) : p.rx[i] = p.keys[i]
    /\ \E mode, at :
          /\ Course(p.way, p.keys, mode, at)
          /\ mode[0] = Mode(p)
          /\ Len(p.rx) <= at[0] /\ (~p.lost => Len(p.rx) = at[0])

InputInv == inp \in Input /\ Reads(inp)

\* What ringbuf_put_byte() does to the input.
LEMMA QueueIs ==
    ASSUME NEW p \in Input, NEW b \in Bytes
    PROVE  LET q == Queue(p, b) IN
           /\ q \in Input /\ q.way = p.way /\ q.keys = p.keys /\ q.state = p.state /\ q.cr = p.cr
           /\ \/ q.rx = Append(p.rx, b) /\ q.lost = p.lost
              \/ q.rx = p.rx /\ q.lost = TRUE
<1> DEFINE q == Queue(p, b)
           a == Append(p.rx, b)
<1>0. p.rx \in Seq(Bytes) BY DEF Input
<1>1. a \in Seq(Bytes) BY <1>0
<1>2. CASE Len(p.rx) < RxSize
  <2>1. q = [p EXCEPT !.rx = a] BY <1>2 DEF Queue
  <2> HIDE DEF q, a
  <2>2. /\ q \in Input /\ q.way = p.way /\ q.keys = p.keys /\ q.state = p.state /\ q.cr = p.cr
        /\ q.rx = a /\ q.lost = p.lost
    BY <1>1, <2>1 DEF Input
  <2> QED BY <2>2 DEF q, a
<1>3. CASE ~(Len(p.rx) < RxSize)
  <2>1. q = [p EXCEPT !.lost = TRUE] BY <1>3 DEF Queue
  <2> HIDE DEF q, a
  <2>2. /\ q \in Input /\ q.way = p.way /\ q.keys = p.keys /\ q.state = p.state /\ q.cr = p.cr
        /\ q.rx = p.rx /\ q.lost = TRUE
    BY <2>1 DEF Input
  <2> QED BY <2>2 DEF q
<1> QED BY <1>2, <1>3

\* What parse() does to the input, for a byte a client may send next.
LEMMA ParseIs ==
    ASSUME NEW p \in Input, NEW b \in Bytes, p.cr => p.state = "data" /\ b \in {"LF", "NUL"}
    PROVE  LET q == Parse(p, b) IN
           /\ q \in Input /\ q.way = p.way /\ q.keys = p.keys
           /\ q.cr => q.state = "data"
           /\ Mode(q) = Turn(Mode(p), b)
           /\ IF IsKey(Mode(p), b)
              THEN \/ q.rx = Append(p.rx, b) /\ q.lost = p.lost
                   \/ q.rx = p.rx /\ q.lost = TRUE
              ELSE q.rx = p.rx /\ q.lost = p.lost
<1> DEFINE q == Parse(p, b)
<1>0. p.state \in States /\ p.cr \in BOOLEAN BY DEF Input
<1>1. ASSUME NEW st \in States, NEW r, r = [p EXCEPT !.state = st]
      PROVE  /\ r \in Input /\ r.way = p.way /\ r.keys = p.keys /\ r.rx = p.rx /\ r.lost = p.lost
             /\ r.cr = p.cr /\ r.state = st
  BY <1>1 DEF Input
<1>2. ASSUME NEW c \in BOOLEAN, NEW r, r = [p EXCEPT !.cr = c]
      PROVE  /\ r \in Input /\ r.way = p.way /\ r.keys = p.keys /\ r.rx = p.rx /\ r.lost = p.lost
             /\ r.cr = c /\ r.state = p.state
  BY <1>2 DEF Input
<1>3. CASE p.cr
  <2>1. q = [p EXCEPT !.cr = FALSE] BY <1>3 DEF Parse
  <2> HIDE DEF q
  <2>2. /\ q \in Input /\ q.way = p.way /\ q.keys = p.keys /\ q.rx = p.rx /\ q.lost = p.lost
        /\ q.cr = FALSE /\ q.state = "data"
    BY <1>2, <1>3, <2>1
  <2>3. Mode(p) = "cr" /\ Mode(q) = "data" BY <1>3, <2>2 DEF Mode
  <2> QED BY <2>2, <2>3 DEF Turn, IsKey, q
<1>4. CASE ~p.cr /\ p.state = "data"
  <2>0. Mode(p) = "data" BY <1>4 DEF Mode
  <2>1. CASE b = "IAC"
    <3>1. q = [p EXCEPT !.state = "iac"] BY <1>4, <2>1 DEF Parse
    <3>2. "iac" \in States BY DEF States
    <3> HIDE DEF q
    <3>3. /\ q \in Input /\ q.way = p.way /\ q.keys = p.keys /\ q.rx = p.rx /\ q.lost = p.lost
          /\ q.cr = p.cr /\ q.state = "iac"
      BY <1>1, <3>1, <3>2
    <3>4. Mode(q) = "iac" BY <1>4, <3>3 DEF Mode
    <3> QED BY <1>4, <2>0, <2>1, <3>3, <3>4 DEF Turn, IsKey, q
  <2>2. CASE b # "IAC"
    <3> DEFINE r == [p EXCEPT !.cr = (b = "CR")]
    <3>1. q = Queue(r, b) BY <1>4, <2>2 DEF Parse
    <3>2. (b = "CR") \in BOOLEAN OBVIOUS
    <3>3. /\ r \in Input /\ r.way = p.way /\ r.keys = p.keys /\ r.rx = p.rx /\ r.lost = p.lost
          /\ r.cr = (b = "CR") /\ r.state = p.state
      BY <1>2, <3>2
    <3> HIDE DEF q, r
    <3>4. /\ q \in Input /\ q.way = r.way /\ q.keys = r.keys /\ q.state = r.state /\ q.cr = r.cr
          /\ \/ q.rx = Append(r.rx, b) /\ q.lost = r.lost
             \/ q.rx = r.rx /\ q.lost = TRUE
      BY <3>1, <3>3, QueueIs
    <3>5. Mode(q) = IF b = "CR" THEN "cr" ELSE "data" BY <1>4, <3>3, <3>4 DEF Mode
    <3>6. q.state = "data" BY <1>4, <3>3, <3>4
    <3> QED BY <2>0, <2>2, <3>3, <3>4, <3>5, <3>6 DEF Turn, IsKey, q
  <2> QED BY <2>1, <2>2
<1>5. CASE ~p.cr /\ p.state = "iac"
  <2>0. Mode(p) = "iac" BY <1>5 DEF Mode
  <2>1. CASE b = "IAC"
    <3> DEFINE r == [p EXCEPT !.state = "data"]
    <3>1. q = Queue(r, b) BY <1>5, <2>1 DEF Parse
    <3>2. "data" \in States BY DEF States
    <3>3. /\ r \in Input /\ r.way = p.way /\ r.keys = p.keys /\ r.rx = p.rx /\ r.lost = p.lost
          /\ r.cr = p.cr /\ r.state = "data"
      BY <1>1, <3>2
    <3> HIDE DEF q, r
    <3>4. /\ q \in Input /\ q.way = r.way /\ q.keys = r.keys /\ q.state = r.state /\ q.cr = r.cr
          /\ \/ q.rx = Append(r.rx, b) /\ q.lost = r.lost
             \/ q.rx = r.rx /\ q.lost = TRUE
      BY <3>1, <3>3, QueueIs
    <3>5. Mode(q) = "data" BY <1>5, <3>3, <3>4 DEF Mode
    <3> QED BY <1>5, <2>0, <2>1, <3>3, <3>4, <3>5 DEF Turn, IsKey, q
  <2>2. CASE b # "IAC"
    <3> DEFINE st == IF b = "WILL" THEN "option" ELSE IF b = "SB" THEN "sub" ELSE "data"
    <3>1. q = [p EXCEPT !.state = st] BY <1>5, <2>2 DEF Parse
    <3>2. st \in States BY DEF States
    <3>3. st = Turn("iac", b) BY DEF Turn
    <3> HIDE DEF q, st
    <3>4. /\ q \in Input /\ q.way = p.way /\ q.keys = p.keys /\ q.rx = p.rx /\ q.lost = p.lost
          /\ q.cr = p.cr /\ q.state = st
      BY <1>1, <3>1, <3>2
    <3>5. Mode(q) = st BY <1>5, <3>4 DEF Mode
    <3> QED BY <1>5, <2>0, <2>2, <3>3, <3>4, <3>5 DEF IsKey, q
  <2> QED BY <2>1, <2>2
<1>6. CASE ~p.cr /\ p.state \in {"option", "sub", "subiac"}
  <2>0. Mode(p) = p.state BY <1>6 DEF Mode
  <2>1. PICK st \in States : q = [p EXCEPT !.state = st] /\ st = Turn(p.state, b)
    <3>1. CASE p.state = "option" BY <3>1 DEF Parse, Turn, States
    <3>2. CASE p.state = "sub" BY <3>2 DEF Parse, Turn, States
    <3>3. CASE p.state = "subiac" BY <3>3 DEF Parse, Turn, States
    <3> QED BY <1>6, <3>1, <3>2, <3>3
  <2> HIDE DEF q
  <2>2. /\ q \in Input /\ q.way = p.way /\ q.keys = p.keys /\ q.rx = p.rx /\ q.lost = p.lost
        /\ q.cr = p.cr /\ q.state = st
    BY <1>1, <2>1
  <2>3. Mode(q) = st BY <1>6, <2>2 DEF Mode
  <2> QED BY <1>6, <2>0, <2>1, <2>2, <2>3 DEF IsKey, q
<1> QED BY <1>0, <1>3, <1>4, <1>5, <1>6 DEF States

\* The course over nothing.
LEMMA NoCourse ==
    ASSUME NEW keys \in Seq(Bytes)
    PROVE  \E mode, at : Course(<<>>, keys, mode, at) /\ mode[0] = "data" /\ at[0] = Len(keys)
<1> DEFINE mode == [i \in 0..0 |-> "data"]
           at   == [i \in 0..0 |-> Len(keys)]
<1>1. Len(<<>>) = 0 OBVIOUS
<1>2. mode \in [0..0 -> Modes] /\ at \in [0..0 -> Nat] /\ mode[0] = "data" /\ at[0] = Len(keys)
  BY DEF Modes, States
<1>3. \A i \in 1..0 : FALSE OBVIOUS
<1>4. \A i, j \in 0..0 : at[i] <= at[j] OBVIOUS
<1> HIDE DEF mode, at
<1> QED BY <1>1, <1>2, <1>3, <1>4 DEF Course

\* The course from the next byte on.
LEMMA CourseTail ==
    ASSUME NEW way \in Seq(Bytes), NEW keys \in Seq(Bytes), NEW mode, NEW at,
           Course(way, keys, mode, at), way # <<>>
    PROVE  /\ Goes(mode[0], at[0], Head(way), mode[1], at[1], keys)
           /\ \E m, a : Course(Tail(way), keys, m, a) /\ m[0] = mode[1] /\ a[0] = at[1]
<1> DEFINE n == Len(way) - 1
           t == Tail(way)
           m == [i \in 0..n |-> mode[i + 1]]
           a == [i \in 0..n |-> at[i + 1]]
<1>1. Len(way) \in Nat /\ Len(way) > 0 /\ n \in Nat BY EmptySeq
<1>2. t \in Seq(Bytes) /\ Len(t) = n /\ \A i \in 1..n : t[i] = way[i + 1]
  BY HeadTailProperties
<1>3. Head(way) = way[1] OBVIOUS
<1>4. Goes(mode[0], at[0], Head(way), mode[1], at[1], keys)
  <2>1. 1 \in 1..Len(way) /\ 1 - 1 = 0 BY <1>1
  <2>2. Goes(mode[1 - 1], at[1 - 1], way[1], mode[1], at[1], keys) BY <2>1 DEF Course
  <2> QED BY <1>3, <2>1, <2>2
<1>5. \A i \in 0..n : i + 1 \in 0..Len(way) /\ mode[i + 1] \in Modes /\ at[i + 1] \in Nat
  <2>1. \A i \in 0..n : i + 1 \in 0..Len(way) BY <1>1
  <2>2. mode \in [0..Len(way) -> Modes] /\ at \in [0..Len(way) -> Nat] BY DEF Course
  <2> QED BY <2>1, <2>2
<1>6. m \in [0..n -> Modes] /\ a \in [0..n -> Nat] BY <1>5
<1>7. \A i \in 1..n : Goes(m[i - 1], a[i - 1], t[i], m[i], a[i], keys)
  <2> SUFFICES ASSUME NEW i \in 1..n PROVE Goes(m[i - 1], a[i - 1], t[i], m[i], a[i], keys)
    OBVIOUS
  <2>1. i + 1 \in 1..Len(way) /\ (i + 1) - 1 = i /\ (i - 1) + 1 = i /\ i - 1 \in 0..n /\ i \in 0..n
    BY <1>1
  <2>2. Goes(mode[(i + 1) - 1], at[(i + 1) - 1], way[i + 1], mode[i + 1], at[i + 1], keys)
    BY <2>1 DEF Course
  <2>3. m[i - 1] = mode[i] /\ a[i - 1] = at[i] /\ m[i] = mode[i + 1] /\ a[i] = at[i + 1]
    BY <2>1
  <2> QED BY <1>2, <2>1, <2>2, <2>3
<1>8. \A i, j \in 0..n : i <= j => a[i] <= a[j]
  <2> SUFFICES ASSUME NEW i \in 0..n, NEW j \in 0..n, i <= j PROVE a[i] <= a[j]
    OBVIOUS
  <2>1. i + 1 \in 0..Len(way) /\ j + 1 \in 0..Len(way) /\ i + 1 <= j + 1 BY <1>1
  <2>2. at[i + 1] <= at[j + 1] BY <2>1 DEF Course
  <2> QED BY <2>2
<1>9. m[n] = "data" /\ a[n] = Len(keys) /\ m[0] = mode[1] /\ a[0] = at[1]
  <2>1. n + 1 = Len(way) /\ n \in 0..n /\ 0 \in 0..n /\ 0 + 1 = 1 BY <1>1
  <2>2. m[n] = mode[n + 1] /\ a[n] = at[n + 1] /\ m[0] = mode[1] /\ a[0] = at[1] BY <2>1
  <2> QED BY <2>1, <2>2 DEF Course
<1> HIDE DEF n, t, m, a
<1>10. Course(t, keys, m, a) BY <1>2, <1>6, <1>7, <1>8, <1>9 DEF Course
<1> QED BY <1>4, <1>9, <1>10 DEF t

\* The course when the first key was read.
LEMMA CourseRead ==
    ASSUME NEW way \in Seq(Bytes), NEW keys \in Seq(Bytes), NEW mode, NEW at,
           Course(way, keys, mode, at), at[0] >= 1
    PROVE  /\ keys # <<>>
           /\ \E a : Course(way, Tail(keys), mode, a) /\ a[0] = at[0] - 1
<1> DEFINE n == Len(way)
           k == Tail(keys)
           a == [i \in 0..n |-> at[i] - 1]
<1>1. n \in Nat BY DEF n
<1>2. \A i \in 0..n : at[i] \in Nat /\ at[0] <= at[i] /\ at[0] \in Nat
  <2>1. at \in [0..n -> Nat] /\ \A i, j \in 0..n : i <= j => at[i] <= at[j] BY DEF Course
  <2>2. 0 \in 0..n /\ \A i \in 0..n : 0 <= i BY <1>1
  <2> HIDE DEF n
  <2> QED BY <2>1, <2>2
<1>3. \A i \in 0..n : at[i] \in Nat /\ at[i] >= 1 /\ at[i] - 1 \in Nat
  BY <1>2
<1>4. Len(keys) >= 1 /\ Len(keys) \in Nat /\ keys # <<>>
  <2>1. n \in 0..n BY <1>1
  <2>2. at[n] = Len(keys) BY DEF Course
  <2> QED BY <1>3, <2>1, <2>2
<1>5. k \in Seq(Bytes) /\ Len(k) = Len(keys) - 1 /\ \A i \in 1..Len(k) : k[i] = keys[i + 1]
  BY <1>4, HeadTailProperties
<1>6. a \in [0..n -> Nat] /\ \A i \in 0..n : a[i] = at[i] - 1 BY <1>3
<1>7. 0 \in 0..n /\ n \in 0..n BY <1>1
<1>8. mode \in [0..n -> Modes] /\ mode[n] = "data" /\ at[n] = Len(keys) BY DEF Course
<1>9. \A i \in 1..n : Goes(mode[i - 1], at[i - 1], way[i], mode[i], at[i], keys) BY DEF Course
<1>a. \A i, j \in 0..n : i <= j => at[i] <= at[j] BY DEF Course
<1> HIDE DEF n, k, a
<1>10. \A i \in 1..n : Goes(mode[i - 1], a[i - 1], way[i], mode[i], a[i], k)
  <2> SUFFICES ASSUME NEW i \in 1..n PROVE Goes(mode[i - 1], a[i - 1], way[i], mode[i], a[i], k)
    OBVIOUS
  <2>1. i - 1 \in 0..n /\ i \in 0..n BY <1>1
  <2>2. a[i - 1] = at[i - 1] - 1 /\ a[i] = at[i] - 1 /\ at[i - 1] >= 1 /\ at[i] >= 1
        /\ at[i - 1] \in Nat /\ at[i] \in Nat
    BY <1>3, <1>6, <2>1
  <2>3. Goes(mode[i - 1], at[i - 1], way[i], mode[i], at[i], keys) BY <1>9
  <2>4. CASE IsKey(mode[i - 1], way[i])
    <3>1. at[i] = at[i - 1] + 1 /\ at[i] <= Len(keys) /\ keys[at[i]] = way[i] BY <2>3, <2>4 DEF Goes
    <3>2. a[i] = a[i - 1] + 1 /\ a[i] <= Len(k) /\ a[i] \in 1..Len(k) /\ a[i] + 1 = at[i]
      BY <1>4, <1>5, <2>2, <3>1
    <3>3. k[a[i]] = way[i] BY <1>5, <3>1, <3>2
    <3> QED BY <2>3, <2>4, <3>2, <3>3 DEF Goes
  <2>5. CASE ~IsKey(mode[i - 1], way[i])
    <3>1. a[i] = a[i - 1] BY <2>2, <2>3, <2>5 DEF Goes
    <3> QED BY <2>3, <2>5, <3>1 DEF Goes
  <2> QED BY <2>4, <2>5
<1>11. \A i, j \in 0..n : i <= j => a[i] <= a[j]
  <2> SUFFICES ASSUME NEW i \in 0..n, NEW j \in 0..n, i <= j PROVE a[i] <= a[j]
    OBVIOUS
  <2>1. at[i] <= at[j] /\ at[i] \in Nat /\ at[j] \in Nat BY <1>3, <1>a
  <2>2. a[i] = at[i] - 1 /\ a[j] = at[j] - 1 BY <1>6
  <2> QED BY <2>1, <2>2
<1>12. a[n] = Len(k) /\ a[0] = at[0] - 1 BY <1>5, <1>6, <1>7, <1>8
<1>13. Course(way, k, mode, a) BY <1>6, <1>8, <1>10, <1>11, <1>12 DEF Course, n
<1> QED BY <1>4, <1>12, <1>13 DEF k

\* The number of a key behind l others.
LEMMA KeyBehind ==
    ASSUME NEW l \in Nat, NEW most \in Nat, NEW x \in Nat, NEW y \in Nat, y = x + 1, y <= most
    PROVE  /\ l + y = (l + x) + 1 /\ l + y <= l + most /\ l + y \in 1..(l + most)
           /\ ~(l + y <= l) /\ (l + y) - l = y
OBVIOUS

\* Counts behind l others keep their order.
LEMMA CountsBehind ==
    ASSUME NEW l \in Nat, NEW x \in Nat, NEW y \in Nat
    PROVE  (x <= l => x <= l + y) /\ (x <= y => l + x <= l + y)
OBVIOUS

\* Two courses one after the other.
LEMMA CourseAppend ==
    ASSUME NEW w1 \in Seq(Bytes), NEW k1 \in Seq(Bytes), NEW m1, NEW a1, Course(w1, k1, m1, a1),
           NEW w2 \in Seq(Bytes), NEW k2 \in Seq(Bytes), NEW m2, NEW a2, Course(w2, k2, m2, a2),
           m2[0] = "data", a2[0] = 0
    PROVE  \E m, a : Course(w1 \o w2, k1 \o k2, m, a) /\ m[0] = m1[0] /\ a[0] = a1[0]
<1> DEFINE n1 == Len(w1)
           n2 == Len(w2)
           w  == w1 \o w2
           k  == k1 \o k2
           m  == [i \in 0..(n1 + n2) |-> IF i <= n1 THEN m1[i] ELSE m2[i - n1]]
           a  == [i \in 0..(n1 + n2) |-> IF i <= n1 THEN a1[i] ELSE Len(k1) + a2[i - n1]]
<1>1. /\ n1 \in Nat /\ n2 \in Nat /\ Len(k1) \in Nat /\ Len(k2) \in Nat
      /\ w \in Seq(Bytes) /\ Len(w) = n1 + n2
      /\ \A i \in 1..(n1 + n2) : w[i] = IF i <= n1 THEN w1[i] ELSE w2[i - n1]
      /\ k \in Seq(Bytes) /\ Len(k) = Len(k1) + Len(k2)
      /\ \A i \in 1..(Len(k1) + Len(k2)) : k[i] = IF i <= Len(k1) THEN k1[i] ELSE k2[i - Len(k1)]
  BY ConcatProperties, LenProperties
<1>a. n1 \in Nat /\ n2 \in Nat /\ Len(k1) \in Nat /\ Len(k2) \in Nat /\ Len(k) = Len(k1) + Len(k2)
  BY <1>1
<1>2. /\ m1 \in [0..n1 -> Modes] /\ a1 \in [0..n1 -> Nat] /\ m1[n1] = "data" /\ a1[n1] = Len(k1)
      /\ \A i \in 1..n1 : Goes(m1[i - 1], a1[i - 1], w1[i], m1[i], a1[i], k1)
      /\ \A i, j \in 0..n1 : i <= j => a1[i] <= a1[j]
  BY DEF Course
<1>3. /\ m2 \in [0..n2 -> Modes] /\ a2 \in [0..n2 -> Nat] /\ m2[n2] = "data" /\ a2[n2] = Len(k2)
      /\ \A i \in 1..n2 : Goes(m2[i - 1], a2[i - 1], w2[i], m2[i], a2[i], k2)
      /\ \A i, j \in 0..n2 : i <= j => a2[i] <= a2[j]
  BY DEF Course
<1>4. \A i \in 0..(n1 + n2) : /\ m[i] = IF i <= n1 THEN m1[i] ELSE m2[i - n1]
                              /\ a[i] = IF i <= n1 THEN a1[i] ELSE Len(k1) + a2[i - n1]
  OBVIOUS
<1>5. \A i \in 0..(n1 + n2) : (IF i <= n1 THEN m1[i] ELSE m2[i - n1]) \in Modes
  <2> HIDE DEF n1, n2
  <2> SUFFICES ASSUME NEW i \in 0..(n1 + n2) PROVE (IF i <= n1 THEN m1[i] ELSE m2[i - n1]) \in Modes
    OBVIOUS
  <2>1. i <= n1 => i \in 0..n1 BY <1>1
  <2>2. ~(i <= n1) => i - n1 \in 0..n2 BY <1>1
  <2> QED BY <1>2, <1>3, <2>1, <2>2
<1>6. \A i \in 0..(n1 + n2) : (IF i <= n1 THEN a1[i] ELSE Len(k1) + a2[i - n1]) \in Nat
  <2> HIDE DEF n1, n2
  <2> SUFFICES ASSUME NEW i \in 0..(n1 + n2) PROVE (IF i <= n1 THEN a1[i] ELSE Len(k1) + a2[i - n1]) \in Nat
    OBVIOUS
  <2>1. i <= n1 => i \in 0..n1 BY <1>1
  <2>2. ~(i <= n1) => i - n1 \in 0..n2 BY <1>1
  <2>3. i <= n1 => a1[i] \in Nat BY <1>2, <2>1
  <2>4. ~(i <= n1) => a2[i - n1] \in Nat BY <1>3, <2>2
  <2>5. Len(k1) \in Nat BY <1>1
  <2> QED BY <2>3, <2>4, <2>5
<1>7. m \in [0..(n1 + n2) -> Modes] /\ a \in [0..(n1 + n2) -> Nat] BY <1>5, <1>6
<1> HIDE DEF n1, n2, w, k, m, a
\* In the second part the course is the second one, from its start on.
<1>8. \A j \in 0..n2 : n1 + j \in 0..(n1 + n2) /\ m[n1 + j] = m2[j] /\ a[n1 + j] = Len(k1) + a2[j]
  <2> SUFFICES ASSUME NEW j \in 0..n2
               PROVE  n1 + j \in 0..(n1 + n2) /\ m[n1 + j] = m2[j] /\ a[n1 + j] = Len(k1) + a2[j]
    OBVIOUS
  <2>1. n1 + j \in 0..(n1 + n2) BY <1>1
  <2>2. CASE j = 0
    <3>1. n1 + j = n1 /\ n1 <= n1 BY <1>1, <2>2
    <3>2. m[n1] = m1[n1] /\ a[n1] = a1[n1] BY <1>4, <2>1, <3>1
    <3>3. Len(k1) + a2[j] = Len(k1) BY <1>1, <2>2
    <3> QED BY <1>2, <2>1, <2>2, <3>1, <3>2, <3>3
  <2>3. CASE j # 0
    <3>1. ~(n1 + j <= n1) /\ (n1 + j) - n1 = j BY <1>1, <2>3
    <3> QED BY <1>4, <2>1, <3>1
  <2> QED BY <2>2, <2>3
<1>9. \A i \in 0..n1 : i \in 0..(n1 + n2) /\ m[i] = m1[i] /\ a[i] = a1[i]
  <2>1. \A i \in 0..n1 : i \in 0..(n1 + n2) /\ i <= n1 BY <1>1
  <2> QED BY <1>4, <2>1
<1>10. ASSUME NEW i \in 1..(n1 + n2) PROVE Goes(m[i - 1], a[i - 1], w[i], m[i], a[i], k)
  <2>1. CASE i <= n1
    <3>1. i \in 1..n1 /\ i \in 0..n1 /\ i - 1 \in 0..n1 BY <1>1, <2>1
    <3>2. /\ m[i - 1] = m1[i - 1] /\ a[i - 1] = a1[i - 1] /\ m[i] = m1[i] /\ a[i] = a1[i] /\ w[i] = w1[i]
      BY <1>1, <1>9, <2>1, <3>1
    <3>3. Goes(m1[i - 1], a1[i - 1], w1[i], m1[i], a1[i], k1) BY <1>2, <3>1
    <3>4. CASE IsKey(m1[i - 1], w1[i])
      <4>1. a1[i] = a1[i - 1] + 1 /\ a1[i] <= Len(k1) /\ k1[a1[i]] = w1[i] BY <3>3, <3>4 DEF Goes
      <4>2. a1[i] \in Nat /\ a1[i - 1] \in Nat BY <1>2, <3>1
      <4>3. a1[i] \in 1..(Len(k1) + Len(k2)) /\ a1[i] <= Len(k) BY <1>1, <4>1, <4>2
      <4>4. k[a1[i]] = w1[i] BY <1>1, <4>1, <4>3
      <4> QED BY <3>2, <3>3, <3>4, <4>1, <4>3, <4>4 DEF Goes
    <3>5. CASE ~IsKey(m1[i - 1], w1[i]) BY <3>2, <3>3, <3>5 DEF Goes
    <3> QED BY <3>4, <3>5
  <2>2. CASE ~(i <= n1)
    <3>1. PICK j \in 1..n2 : i = n1 + j /\ i - 1 = n1 + (j - 1) /\ j - 1 \in 0..n2 /\ j \in 0..n2 /\ i - n1 = j
      <4>1. i - n1 \in 1..n2 BY <1>1, <2>2
      <4> QED BY <1>1, <4>1
    <3>2. /\ m[i - 1] = m2[j - 1] /\ a[i - 1] = Len(k1) + a2[j - 1] /\ m[i] = m2[j] /\ a[i] = Len(k1) + a2[j]
      BY <1>8, <3>1
    <3>3. w[i] = w2[j] BY <1>1, <2>2, <3>1
    <3>4. Goes(m2[j - 1], a2[j - 1], w2[j], m2[j], a2[j], k2) BY <1>3
    <3>5. a2[j] \in Nat /\ a2[j - 1] \in Nat BY <1>3, <3>1
    <3>6. CASE IsKey(m2[j - 1], w2[j])
      <4>1. a2[j] = a2[j - 1] + 1 /\ a2[j] <= Len(k2) /\ k2[a2[j]] = w2[j] BY <3>4, <3>6 DEF Goes
      <4>p. PICK l \in Nat, most \in Nat, x \in Nat, y \in Nat :
               l = Len(k1) /\ most = Len(k2) /\ x = a2[j - 1] /\ y = a2[j]
        BY <1>a, <3>5
      <4>q. y = x + 1 /\ y <= most BY <4>1, <4>p
      <4>r. /\ l + y = (l + x) + 1 /\ l + y <= l + most /\ l + y \in 1..(l + most)
            /\ ~(l + y <= l) /\ (l + y) - l = y
        BY <4>q, KeyBehind
      <4>s. a[i - 1] = l + x /\ a[i] = l + y /\ Len(k) = l + most BY <1>a, <3>2, <4>p
      <4>2. /\ a[i] = a[i - 1] + 1 /\ a[i] <= Len(k) /\ a[i] \in 1..(Len(k1) + Len(k2))
            /\ ~(a[i] <= Len(k1)) /\ a[i] - Len(k1) = a2[j]
        BY <4>p, <4>r, <4>s, Zenon
      <4>3. k[a[i]] = w2[j] BY <1>1, <4>1, <4>2
      <4> QED BY <3>2, <3>3, <3>4, <3>6, <4>2, <4>3 DEF Goes
    <3>7. CASE ~IsKey(m2[j - 1], w2[j])
      <4>1. a2[j] = a2[j - 1] BY <3>4, <3>7 DEF Goes
      <4> QED BY <3>2, <3>3, <3>4, <3>7, <4>1 DEF Goes
    <3> QED BY <3>6, <3>7
  <2> QED BY <2>1, <2>2
<1>11. ASSUME NEW i \in 0..(n1 + n2), NEW j \in 0..(n1 + n2), i <= j PROVE a[i] <= a[j]
  <2>1. CASE j <= n1
    <3>1. i \in 0..n1 /\ j \in 0..n1 BY <1>1, <1>11, <2>1
    <3> QED BY <1>2, <1>9, <1>11, <3>1
  <2>2. CASE ~(j <= n1)
    <3>1. j - n1 \in 0..n2 /\ n1 + (j - n1) = j BY <1>1, <2>2
    <3>2. a[j] = Len(k1) + a2[j - n1] /\ a2[j - n1] \in Nat BY <1>3, <1>8, <3>1
    <3>3. CASE i <= n1
      <4>1. i \in 0..n1 /\ n1 \in 0..n1 BY <1>1, <3>3
      <4>2. a1[i] <= a1[n1] /\ a[i] = a1[i] /\ a1[i] \in Nat BY <1>2, <1>9, <3>3, <4>1
      <4>3. a1[n1] = Len(k1) BY <1>2
      <4> QED BY <1>a, <3>2, <4>2, <4>3, CountsBehind
    <3>4. CASE ~(i <= n1)
      <4>1. i - n1 \in 0..n2 /\ n1 + (i - n1) = i /\ i - n1 <= j - n1 BY <1>a, <1>11, <3>4
      <4>2. a[i] = Len(k1) + a2[i - n1] /\ a2[i - n1] \in Nat BY <1>3, <1>8, <4>1
      <4>3. a2[i - n1] <= a2[j - n1] BY <1>3, <3>1, <4>1
      <4> QED BY <1>a, <3>2, <4>2, <4>3, CountsBehind
    <3> QED BY <3>3, <3>4
  <2> QED BY <2>1, <2>2
<1>12. m[n1 + n2] = "data" /\ a[n1 + n2] = Len(k) /\ m[0] = m1[0] /\ a[0] = a1[0]
  <2>1. n2 \in 0..n2 /\ 0 \in 0..n1 BY <1>1
  <2> QED BY <1>1, <1>3, <1>8, <1>9, <2>1
<1>13. Course(w, k, m, a) BY <1>1, <1>7, <1>10, <1>11, <1>12 DEF Course
<1> QED BY <1>12, <1>13 DEF w, k

\* The course over what a client sends for one thing it types.
LEMMA EncodingCourse ==
    ASSUME NEW e \in Encodings
    PROVE  /\ e.bytes \in Seq(Bytes) /\ e.keys \in Seq(Bytes)
           /\ \E mode, at : Course(e.bytes, e.keys, mode, at) /\ mode[0] = "data" /\ at[0] = 0
<1>1. CASE e.bytes = <<"key">> /\ e.keys = <<"key">>
  <2> DEFINE mode == [i \in 0..1 |-> IF i = 0 THEN "data" ELSE "data"]
             at   == [i \in 0..1 |-> IF i < 1 THEN 0 ELSE 1]
  <2>1. /\ e.bytes \in Seq(Bytes) /\ Len(e.bytes) = 1 /\ e.keys \in Seq(Bytes) /\ Len(e.keys) = 1
        /\ e.bytes[1] = "key" /\ e.keys[1] = "key"
    BY <1>1 DEF Bytes
  <2>2. /\ mode \in [0..1 -> Modes] /\ at \in [0..1 -> Nat]
        /\ mode[0] = "data" /\ mode[1] = "data"
        /\ at[0] = 0 /\ at[1] = 1
    BY DEF Modes, States
  <2>3. \A i, j \in 0..1 : i <= j => at[i] <= at[j] OBVIOUS
  <2> HIDE DEF mode, at
  <2>4. Goes(mode[1 - 1], at[1 - 1], e.bytes[1], mode[1], at[1], e.keys)
    BY <2>1, <2>2 DEF Goes, Turn, IsKey
  <2>5. \A i \in 1..1 : Goes(mode[i - 1], at[i - 1], e.bytes[i], mode[i], at[i], e.keys)
    <3>1. \A i \in 1..1 : i = 1 OBVIOUS
    <3> QED BY <3>1, <2>4, Zenon
  <2>6. Course(e.bytes, e.keys, mode, at) BY <2>1, <2>2, <2>3, <2>5 DEF Course
  <2> QED BY <2>1, <2>2, <2>6
<1>2. CASE e.bytes = <<"CR", "LF">> /\ e.keys = <<"CR">>
  <2> DEFINE mode == [i \in 0..2 |-> IF i = 0 THEN "data" ELSE IF i = 1 THEN "cr" ELSE "data"]
             at   == [i \in 0..2 |-> IF i < 1 THEN 0 ELSE 1]
  <2>1. /\ e.bytes \in Seq(Bytes) /\ Len(e.bytes) = 2 /\ e.keys \in Seq(Bytes) /\ Len(e.keys) = 1
        /\ e.bytes[1] = "CR" /\ e.bytes[2] = "LF" /\ e.keys[1] = "CR"
    BY <1>2 DEF Bytes
  <2>2. /\ mode \in [0..2 -> Modes] /\ at \in [0..2 -> Nat]
        /\ mode[0] = "data" /\ mode[1] = "cr" /\ mode[2] = "data"
        /\ at[0] = 0 /\ at[1] = 1 /\ at[2] = 1
    BY DEF Modes, States
  <2>3. \A i, j \in 0..2 : i <= j => at[i] <= at[j] OBVIOUS
  <2> HIDE DEF mode, at
  <2>4. Goes(mode[1 - 1], at[1 - 1], e.bytes[1], mode[1], at[1], e.keys)
    BY <2>1, <2>2 DEF Goes, Turn, IsKey
  <2>5. Goes(mode[2 - 1], at[2 - 1], e.bytes[2], mode[2], at[2], e.keys)
    BY <2>1, <2>2 DEF Goes, Turn, IsKey
  <2>6. \A i \in 1..2 : Goes(mode[i - 1], at[i - 1], e.bytes[i], mode[i], at[i], e.keys)
    <3>1. \A i \in 1..2 : i = 1 \/ i = 2 OBVIOUS
    <3> QED BY <3>1, <2>4, <2>5, Zenon
  <2>7. Course(e.bytes, e.keys, mode, at) BY <2>1, <2>2, <2>3, <2>6 DEF Course
  <2> QED BY <2>1, <2>2, <2>7
<1>3. CASE e.bytes = <<"CR", "NUL">> /\ e.keys = <<"CR">>
  <2> DEFINE mode == [i \in 0..2 |-> IF i = 0 THEN "data" ELSE IF i = 1 THEN "cr" ELSE "data"]
             at   == [i \in 0..2 |-> IF i < 1 THEN 0 ELSE 1]
  <2>1. /\ e.bytes \in Seq(Bytes) /\ Len(e.bytes) = 2 /\ e.keys \in Seq(Bytes) /\ Len(e.keys) = 1
        /\ e.bytes[1] = "CR" /\ e.bytes[2] = "NUL" /\ e.keys[1] = "CR"
    BY <1>3 DEF Bytes
  <2>2. /\ mode \in [0..2 -> Modes] /\ at \in [0..2 -> Nat]
        /\ mode[0] = "data" /\ mode[1] = "cr" /\ mode[2] = "data"
        /\ at[0] = 0 /\ at[1] = 1 /\ at[2] = 1
    BY DEF Modes, States
  <2>3. \A i, j \in 0..2 : i <= j => at[i] <= at[j] OBVIOUS
  <2> HIDE DEF mode, at
  <2>4. Goes(mode[1 - 1], at[1 - 1], e.bytes[1], mode[1], at[1], e.keys)
    BY <2>1, <2>2 DEF Goes, Turn, IsKey
  <2>5. Goes(mode[2 - 1], at[2 - 1], e.bytes[2], mode[2], at[2], e.keys)
    BY <2>1, <2>2 DEF Goes, Turn, IsKey
  <2>6. \A i \in 1..2 : Goes(mode[i - 1], at[i - 1], e.bytes[i], mode[i], at[i], e.keys)
    <3>1. \A i \in 1..2 : i = 1 \/ i = 2 OBVIOUS
    <3> QED BY <3>1, <2>4, <2>5, Zenon
  <2>7. Course(e.bytes, e.keys, mode, at) BY <2>1, <2>2, <2>3, <2>6 DEF Course
  <2> QED BY <2>1, <2>2, <2>7
<1>4. CASE e.bytes = <<"IAC", "IAC">> /\ e.keys = <<"IAC">>
  <2> DEFINE mode == [i \in 0..2 |-> IF i = 0 THEN "data" ELSE IF i = 1 THEN "iac" ELSE "data"]
             at   == [i \in 0..2 |-> IF i < 2 THEN 0 ELSE 1]
  <2>1. /\ e.bytes \in Seq(Bytes) /\ Len(e.bytes) = 2 /\ e.keys \in Seq(Bytes) /\ Len(e.keys) = 1
        /\ e.bytes[1] = "IAC" /\ e.bytes[2] = "IAC" /\ e.keys[1] = "IAC"
    BY <1>4 DEF Bytes
  <2>2. /\ mode \in [0..2 -> Modes] /\ at \in [0..2 -> Nat]
        /\ mode[0] = "data" /\ mode[1] = "iac" /\ mode[2] = "data"
        /\ at[0] = 0 /\ at[1] = 0 /\ at[2] = 1
    BY DEF Modes, States
  <2>3. \A i, j \in 0..2 : i <= j => at[i] <= at[j] OBVIOUS
  <2> HIDE DEF mode, at
  <2>4. Goes(mode[1 - 1], at[1 - 1], e.bytes[1], mode[1], at[1], e.keys)
    BY <2>1, <2>2 DEF Goes, Turn, IsKey
  <2>5. Goes(mode[2 - 1], at[2 - 1], e.bytes[2], mode[2], at[2], e.keys)
    BY <2>1, <2>2 DEF Goes, Turn, IsKey
  <2>6. \A i \in 1..2 : Goes(mode[i - 1], at[i - 1], e.bytes[i], mode[i], at[i], e.keys)
    <3>1. \A i \in 1..2 : i = 1 \/ i = 2 OBVIOUS
    <3> QED BY <3>1, <2>4, <2>5, Zenon
  <2>7. Course(e.bytes, e.keys, mode, at) BY <2>1, <2>2, <2>3, <2>6 DEF Course
  <2> QED BY <2>1, <2>2, <2>7
<1>5. CASE e.bytes = <<"IAC", "WILL", "opt">> /\ e.keys = <<>>
  <2> DEFINE mode == [i \in 0..3 |-> IF i = 0 THEN "data" ELSE IF i = 1 THEN "iac" ELSE IF i = 2 THEN "option" ELSE
                                     "data"]
             at   == [i \in 0..3 |-> 0]
  <2>1. /\ e.bytes \in Seq(Bytes) /\ Len(e.bytes) = 3 /\ e.keys \in Seq(Bytes) /\ Len(e.keys) = 0
        /\ e.bytes[1] = "IAC" /\ e.bytes[2] = "WILL" /\ e.bytes[3] = "opt"
    BY <1>5 DEF Bytes
  <2>2. /\ mode \in [0..3 -> Modes] /\ at \in [0..3 -> Nat]
        /\ mode[0] = "data" /\ mode[1] = "iac" /\ mode[2] = "option" /\ mode[3] = "data"
        /\ at[0] = 0 /\ at[1] = 0 /\ at[2] = 0 /\ at[3] = 0
    BY DEF Modes, States
  <2>3. \A i, j \in 0..3 : i <= j => at[i] <= at[j] OBVIOUS
  <2> HIDE DEF mode, at
  <2>4. Goes(mode[1 - 1], at[1 - 1], e.bytes[1], mode[1], at[1], e.keys)
    BY <2>1, <2>2 DEF Goes, Turn, IsKey
  <2>5. Goes(mode[2 - 1], at[2 - 1], e.bytes[2], mode[2], at[2], e.keys)
    BY <2>1, <2>2 DEF Goes, Turn, IsKey
  <2>6. Goes(mode[3 - 1], at[3 - 1], e.bytes[3], mode[3], at[3], e.keys)
    BY <2>1, <2>2 DEF Goes, Turn, IsKey
  <2>7. \A i \in 1..3 : Goes(mode[i - 1], at[i - 1], e.bytes[i], mode[i], at[i], e.keys)
    <3>1. \A i \in 1..3 : i = 1 \/ i = 2 \/ i = 3 OBVIOUS
    <3> QED BY <3>1, <2>4, <2>5, <2>6, Zenon
  <2>8. Course(e.bytes, e.keys, mode, at) BY <2>1, <2>2, <2>3, <2>7 DEF Course
  <2> QED BY <2>1, <2>2, <2>8
<1>6. CASE e.bytes = <<"IAC", "SB", "opt", "IAC", "IAC", "IAC", "SE">> /\ e.keys = <<>>
  <2> DEFINE mode == [i \in 0..7 |-> IF i = 0 THEN "data" ELSE IF i = 1 THEN "iac" ELSE IF i = 2 THEN "sub" ELSE
                                     IF i = 3 THEN "sub" ELSE IF i = 4 THEN "subiac" ELSE
                                     IF i = 5 THEN "sub" ELSE IF i = 6 THEN "subiac" ELSE "data"]
             at   == [i \in 0..7 |-> 0]
  <2>1. /\ e.bytes \in Seq(Bytes) /\ Len(e.bytes) = 7 /\ e.keys \in Seq(Bytes) /\ Len(e.keys) = 0
        /\ e.bytes[1] = "IAC" /\ e.bytes[2] = "SB" /\ e.bytes[3] = "opt" /\ e.bytes[4] = "IAC"
        /\ e.bytes[5] = "IAC" /\ e.bytes[6] = "IAC" /\ e.bytes[7] = "SE"
    BY <1>6 DEF Bytes
  <2>2. /\ mode \in [0..7 -> Modes] /\ at \in [0..7 -> Nat]
        /\ mode[0] = "data" /\ mode[1] = "iac" /\ mode[2] = "sub" /\ mode[3] = "sub"
        /\ mode[4] = "subiac" /\ mode[5] = "sub" /\ mode[6] = "subiac" /\ mode[7] = "data"
        /\ at[0] = 0 /\ at[1] = 0 /\ at[2] = 0 /\ at[3] = 0 /\ at[4] = 0 /\ at[5] = 0 /\ at[6] = 0 /\ at[7] = 0
    BY DEF Modes, States
  <2>3. \A i, j \in 0..7 : i <= j => at[i] <= at[j] OBVIOUS
  <2> HIDE DEF mode, at
  <2>4. Goes(mode[1 - 1], at[1 - 1], e.bytes[1], mode[1], at[1], e.keys)
    BY <2>1, <2>2 DEF Goes, Turn, IsKey
  <2>5. Goes(mode[2 - 1], at[2 - 1], e.bytes[2], mode[2], at[2], e.keys)
    BY <2>1, <2>2 DEF Goes, Turn, IsKey
  <2>6. Goes(mode[3 - 1], at[3 - 1], e.bytes[3], mode[3], at[3], e.keys)
    BY <2>1, <2>2 DEF Goes, Turn, IsKey
  <2>7. Goes(mode[4 - 1], at[4 - 1], e.bytes[4], mode[4], at[4], e.keys)
    BY <2>1, <2>2 DEF Goes, Turn, IsKey
  <2>8. Goes(mode[5 - 1], at[5 - 1], e.bytes[5], mode[5], at[5], e.keys)
    BY <2>1, <2>2 DEF Goes, Turn, IsKey
  <2>9. Goes(mode[6 - 1], at[6 - 1], e.bytes[6], mode[6], at[6], e.keys)
    BY <2>1, <2>2 DEF Goes, Turn, IsKey
  <2>10. Goes(mode[7 - 1], at[7 - 1], e.bytes[7], mode[7], at[7], e.keys)
    BY <2>1, <2>2 DEF Goes, Turn, IsKey
  <2>11. \A i \in 1..7 : Goes(mode[i - 1], at[i - 1], e.bytes[i], mode[i], at[i], e.keys)
    <3>1. \A i \in 1..7 : i = 1 \/ i = 2 \/ i = 3 \/ i = 4 \/ i = 5 \/ i = 6 \/ i = 7 OBVIOUS
    <3> QED BY <3>1, <2>4, <2>5, <2>6, <2>7, <2>8, <2>9, <2>10, Zenon
  <2>12. Course(e.bytes, e.keys, mode, at) BY <2>1, <2>2, <2>3, <2>11 DEF Course
  <2> QED BY <2>1, <2>2, <2>12
<1>7. CASE e.bytes = <<"IAC", "NOP">> /\ e.keys = <<>>
  <2> DEFINE mode == [i \in 0..2 |-> IF i = 0 THEN "data" ELSE IF i = 1 THEN "iac" ELSE "data"]
             at   == [i \in 0..2 |-> 0]
  <2>1. /\ e.bytes \in Seq(Bytes) /\ Len(e.bytes) = 2 /\ e.keys \in Seq(Bytes) /\ Len(e.keys) = 0
        /\ e.bytes[1] = "IAC" /\ e.bytes[2] = "NOP"
    BY <1>7 DEF Bytes
  <2>2. /\ mode \in [0..2 -> Modes] /\ at \in [0..2 -> Nat]
        /\ mode[0] = "data" /\ mode[1] = "iac" /\ mode[2] = "data"
        /\ at[0] = 0 /\ at[1] = 0 /\ at[2] = 0
    BY DEF Modes, States
  <2>3. \A i, j \in 0..2 : i <= j => at[i] <= at[j] OBVIOUS
  <2> HIDE DEF mode, at
  <2>4. Goes(mode[1 - 1], at[1 - 1], e.bytes[1], mode[1], at[1], e.keys)
    BY <2>1, <2>2 DEF Goes, Turn, IsKey
  <2>5. Goes(mode[2 - 1], at[2 - 1], e.bytes[2], mode[2], at[2], e.keys)
    BY <2>1, <2>2 DEF Goes, Turn, IsKey
  <2>6. \A i \in 1..2 : Goes(mode[i - 1], at[i - 1], e.bytes[i], mode[i], at[i], e.keys)
    <3>1. \A i \in 1..2 : i = 1 \/ i = 2 OBVIOUS
    <3> QED BY <3>1, <2>4, <2>5, Zenon
  <2>7. Course(e.bytes, e.keys, mode, at) BY <2>1, <2>2, <2>3, <2>6 DEF Course
  <2> QED BY <2>1, <2>2, <2>7
<1> QED BY <1>1, <1>2, <1>3, <1>4, <1>5, <1>6, <1>7 DEF Encodings

\* No bytes are bytes.
LEMMA NoBytes == <<>> \in Seq(Bytes)
OBVIOUS

\* A key among the first x is one among more.
LEMMA KeyAmong ==
    ASSUME NEW x \in Nat, NEW y \in Nat, NEW z \in Nat, NEW i \in 1..x, x <= y
    PROVE  i \in 1..y /\ i \in 1..(y + z) /\ i <= y
OBVIOUS

\* The keys of a client that just connected are the ones nobody has read.
LEMMA FreshReads ==
    ASSUME NEW rx \in Seq(Bytes), NEW p,
           p = [way |-> <<>>, state |-> "data", cr |-> FALSE, rx |-> rx, keys |-> rx, sent |-> 0, lost |-> FALSE]
    PROVE  p \in Input /\ Reads(p)
<1>1. /\ p.way = <<>> /\ p.state = "data" /\ p.cr = FALSE /\ p.rx = rx /\ p.keys = rx /\ p.lost = FALSE
  OBVIOUS
<1>2. PICK w \in Seq(Bytes) : w = <<>> BY NoBytes, Zenon
<1>3. p \in Input
  <2>1. p = [way |-> w, state |-> "data", cr |-> FALSE, rx |-> rx, keys |-> rx, sent |-> 0, lost |-> FALSE]
    BY <1>2
  <2>2. "data" \in States /\ 0 \in Nat BY DEF States
  <2> QED BY <2>1, <2>2 DEF Input
<1>4. PICK mode, at : Course(<<>>, rx, mode, at) /\ mode[0] = "data" /\ at[0] = Len(rx) BY NoCourse
<1>5. Mode(p) = "data" BY <1>1 DEF Mode
<1>6. Len(rx) \in Nat OBVIOUS
<1>7. /\ Course(p.way, p.keys, mode, at) /\ mode[0] = Mode(p)
      /\ Len(p.rx) <= at[0] /\ (~p.lost => Len(p.rx) = at[0])
  BY <1>1, <1>4, <1>5, <1>6
<1>8. (p.cr => p.state = "data") /\ \A i \in 1..Len(p.rx) : p.rx[i] = p.keys[i] BY <1>1
<1> QED BY <1>3, <1>7, <1>8 DEF Reads

\* A thing typed: its bytes join those on their way, and its keys those to come.
LEMMA TypesReads ==
    ASSUME InputInv, NEW e \in Encodings, NEW p,
           p = [inp EXCEPT !.way = @ \o e.bytes, !.keys = @ \o e.keys, !.sent = @ + 1]
    PROVE  p \in Input /\ Reads(p)
<1>0. /\ inp \in Input /\ Reads(inp) /\ inp.way \in Seq(Bytes) /\ inp.keys \in Seq(Bytes)
      /\ inp.rx \in Seq(Bytes) /\ inp.sent \in Nat
  BY DEF InputInv, Input
<1>1. e.bytes \in Seq(Bytes) /\ e.keys \in Seq(Bytes) BY EncodingCourse
<1>2. PICK em, ea : Course(e.bytes, e.keys, em, ea) /\ em[0] = "data" /\ ea[0] = 0 BY EncodingCourse
<1>3. PICK mode, at : /\ Course(inp.way, inp.keys, mode, at) /\ mode[0] = Mode(inp)
                      /\ Len(inp.rx) <= at[0] /\ (~inp.lost => Len(inp.rx) = at[0])
  BY <1>0 DEF Reads
<1>4. PICK w \in Seq(Bytes) : w = inp.way \o e.bytes BY <1>0, <1>1, ConcatProperties
<1>5. PICK k \in Seq(Bytes) : k = inp.keys \o e.keys BY <1>0, <1>1, ConcatProperties
<1>6. PICK s \in Nat : s = inp.sent + 1 BY <1>0
<1>7. p = [inp EXCEPT !.way = w, !.keys = k, !.sent = s] BY <1>4, <1>5, <1>6
<1>8. /\ p \in Input /\ p.way = w /\ p.keys = k /\ p.rx = inp.rx /\ p.state = inp.state /\ p.cr = inp.cr
      /\ p.lost = inp.lost
  BY <1>0, <1>7 DEF Input
<1>9. PICK m, a : Course(w, k, m, a) /\ m[0] = mode[0] /\ a[0] = at[0]
  <2>1. PICK w1 \in Seq(Bytes), k1 \in Seq(Bytes) : w1 = inp.way /\ k1 = inp.keys BY <1>0, Zenon
  <2>2. PICK w2 \in Seq(Bytes), k2 \in Seq(Bytes) : w2 = e.bytes /\ k2 = e.keys BY <1>1, Zenon
  <2>3. Course(w1, k1, mode, at) BY <1>3, <2>1, Zenon
  <2>4. Course(w2, k2, em, ea) /\ em[0] = "data" /\ ea[0] = 0 BY <1>2, <2>2, Zenon
  <2>5. \E m, a : Course(w1 \o w2, k1 \o k2, m, a) /\ m[0] = mode[0] /\ a[0] = at[0]
    BY <2>3, <2>4, CourseAppend
  <2>6. w = w1 \o w2 /\ k = k1 \o k2 BY <1>4, <1>5, <2>1, <2>2, Zenon
  <2> QED BY <2>5, <2>6, Zenon
<1>10. Mode(p) = Mode(inp) BY <1>8 DEF Mode
<1>11. ~p.lost => \A i \in 1..Len(p.rx) : p.rx[i] = p.keys[i]
  <2> SUFFICES ASSUME ~inp.lost, NEW i \in 1..Len(inp.rx) PROVE inp.rx[i] = k[i]
    BY <1>8
  <2>1. inp.rx[i] = inp.keys[i] BY <1>0 DEF Reads
  <2>2. /\ Len(inp.keys) \in Nat /\ Len(inp.way) \in Nat /\ Len(inp.rx) \in Nat /\ Len(e.keys) \in Nat
    BY <1>0, <1>1
  <2>3. at[0] <= Len(inp.keys) /\ at[0] \in Nat
    <3>1. 0 \in 0..Len(inp.way) /\ Len(inp.way) \in 0..Len(inp.way) /\ 0 <= Len(inp.way) BY <2>2
    <3>2. at \in [0..Len(inp.way) -> Nat] /\ at[0] <= at[Len(inp.way)] /\ at[Len(inp.way)] = Len(inp.keys)
      BY <1>3, <3>1 DEF Course
    <3> QED BY <3>1, <3>2
  <2>4. i \in 1..Len(inp.keys) /\ i \in 1..(Len(inp.keys) + Len(e.keys)) /\ i <= Len(inp.keys)
    <3>1. Len(inp.rx) <= Len(inp.keys) BY <1>3, <2>3
    <3> QED BY <2>2, <3>1, KeyAmong, Zenon
  <2>5. k[i] = inp.keys[i] BY <1>0, <1>1, <1>5, <2>4, ConcatProperties
  <2> QED BY <2>1, <2>5
<1>12. p.cr => p.state = "data" BY <1>0, <1>8 DEF Reads
<1>13. /\ Course(p.way, p.keys, m, a) /\ m[0] = Mode(p)
       /\ Len(p.rx) <= a[0] /\ (~p.lost => Len(p.rx) = a[0])
  BY <1>3, <1>8, <1>9, <1>10
<1> QED BY <1>8, <1>11, <1>12, <1>13 DEF Reads

\* A byte parsed.
LEMMA ParseReads ==
    ASSUME InputInv, inp.way # <<>>, NEW p, p = Parse([inp EXCEPT !.way = Tail(@)], Head(inp.way))
    PROVE  p \in Input /\ Reads(p)
<1> DEFINE t == Tail(inp.way)
           r == [inp EXCEPT !.way = t]
           b == Head(inp.way)
<1>0. /\ inp \in Input /\ Reads(inp) /\ inp.way \in Seq(Bytes) /\ inp.keys \in Seq(Bytes)
      /\ inp.rx \in Seq(Bytes)
  BY DEF InputInv, Input
<1>1. t \in Seq(Bytes) /\ b \in Bytes BY <1>0, HeadTailProperties
<1>2. p = Parse(r, b) OBVIOUS
<1>3. /\ r \in Input /\ r.way = t /\ r.keys = inp.keys /\ r.rx = inp.rx /\ r.state = inp.state
      /\ r.cr = inp.cr /\ r.lost = inp.lost
  BY <1>0, <1>1 DEF Input
<1>4. PICK mode, at : /\ Course(inp.way, inp.keys, mode, at) /\ mode[0] = Mode(inp)
                      /\ Len(inp.rx) <= at[0] /\ (~inp.lost => Len(inp.rx) = at[0])
  BY <1>0 DEF Reads
<1>5. Goes(mode[0], at[0], b, mode[1], at[1], inp.keys) BY <1>0, <1>4, CourseTail
<1>6. PICK m, a : Course(t, inp.keys, m, a) /\ m[0] = mode[1] /\ a[0] = at[1]
  BY <1>0, <1>4, CourseTail
<1> HIDE DEF t, r, b
<1>7. r.cr => r.state = "data" /\ b \in {"LF", "NUL"}
  <2>1. inp.cr => inp.state = "data" BY <1>0 DEF Reads
  <2>2. inp.cr => Mode(inp) = "cr" BY DEF Mode
  <2>3. mode[0] = "cr" => b \in {"LF", "NUL"} BY <1>5 DEF Goes
  <2> QED BY <1>3, <1>4, <2>1, <2>2, <2>3
<1>8. Mode(r) = Mode(inp) BY <1>3 DEF Mode
<1>9. /\ p \in Input /\ p.way = t /\ p.keys = inp.keys
      /\ p.cr => p.state = "data"
      /\ Mode(p) = Turn(mode[0], b)
      /\ IF IsKey(mode[0], b)
         THEN \/ p.rx = Append(inp.rx, b) /\ p.lost = inp.lost
              \/ p.rx = inp.rx /\ p.lost = TRUE
         ELSE p.rx = inp.rx /\ p.lost = inp.lost
  <2>1. LET q == Parse(r, b) IN
           /\ q \in Input /\ q.way = r.way /\ q.keys = r.keys
           /\ q.cr => q.state = "data"
           /\ Mode(q) = Turn(Mode(r), b)
           /\ IF IsKey(Mode(r), b)
              THEN \/ q.rx = Append(r.rx, b) /\ q.lost = r.lost
                   \/ q.rx = r.rx /\ q.lost = TRUE
              ELSE q.rx = r.rx /\ q.lost = r.lost
    BY <1>1, <1>3, <1>7, ParseIs, Zenon
  <2> QED BY <1>2, <1>3, <1>4, <1>8, <2>1
<1>10. Mode(p) = m[0] BY <1>5, <1>6, <1>9 DEF Goes
<1>11. /\ Len(inp.rx) \in Nat /\ Len(inp.way) \in Nat /\ at[0] \in Nat /\ at[1] \in Nat
       /\ at[1] <= Len(inp.keys) /\ Len(inp.keys) \in Nat
  <2>1. Len(inp.rx) \in Nat /\ Len(inp.way) \in Nat /\ Len(inp.keys) \in Nat /\ Len(inp.way) > 0
    BY <1>0, EmptySeq
  <2>2. /\ 0 \in 0..Len(inp.way) /\ 1 \in 0..Len(inp.way) /\ Len(inp.way) \in 0..Len(inp.way)
        /\ 1 <= Len(inp.way)
    BY <2>1
  <2>3. at \in [0..Len(inp.way) -> Nat] /\ at[1] <= at[Len(inp.way)] /\ at[Len(inp.way)] = Len(inp.keys)
    BY <1>4, <2>2 DEF Course
  <2> QED BY <2>1, <2>2, <2>3
<1>12. CASE IsKey(mode[0], b) /\ p.rx = Append(inp.rx, b) /\ p.lost = inp.lost
  <2>1. at[1] = at[0] + 1 /\ inp.keys[at[1]] = b BY <1>5, <1>12 DEF Goes
  <2>2. /\ Len(p.rx) = Len(inp.rx) + 1 /\ p.rx[Len(inp.rx) + 1] = b
        /\ \A i \in 1..Len(inp.rx) : p.rx[i] = inp.rx[i]
    <3>1. PICK x \in Seq(Bytes) : x = inp.rx BY <1>0
    <3>2. p.rx = Append(x, b) BY <1>12, <3>1
    <3>3. /\ Len(Append(x, b)) = Len(x) + 1 /\ Append(x, b)[Len(x) + 1] = b
          /\ \A i \in 1..Len(x) : Append(x, b)[i] = x[i]
      BY <1>1, AppendProperties
    <3> QED BY <3>1, <3>2, <3>3, Zenon
  <2>3. Len(p.rx) <= a[0] /\ (~p.lost => Len(p.rx) = a[0]) BY <1>4, <1>6, <1>11, <1>12, <2>1, <2>2
  <2>4. ~p.lost => \A i \in 1..Len(p.rx) : p.rx[i] = p.keys[i]
    <3> SUFFICES ASSUME ~p.lost, NEW i \in 1..Len(p.rx) PROVE p.rx[i] = p.keys[i]
      OBVIOUS
    <3>1. ~inp.lost BY <1>12
    <3>2. CASE i \in 1..Len(inp.rx)
      <4>1. inp.rx[i] = inp.keys[i] BY <1>0, <3>1, <3>2 DEF Reads
      <4> QED BY <1>9, <2>2, <3>2, <4>1
    <3>3. CASE i = Len(inp.rx) + 1
      <4>1. i = at[1] BY <1>4, <2>1, <3>1, <3>3
      <4> QED BY <1>9, <2>1, <2>2, <3>3, <4>1
    <3>4. i \in 1..Len(inp.rx) \/ i = Len(inp.rx) + 1 BY <1>11, <2>2
    <3> QED BY <3>2, <3>3, <3>4
  <2> QED BY <1>6, <1>9, <1>10, <2>3, <2>4 DEF Reads
<1>13. CASE IsKey(mode[0], b) /\ p.rx = inp.rx /\ p.lost = TRUE
  <2>1. at[1] = at[0] + 1 BY <1>5, <1>13 DEF Goes
  <2>2. Len(p.rx) <= a[0] BY <1>4, <1>6, <1>11, <1>13, <2>1
  <2> QED BY <1>6, <1>9, <1>10, <1>13, <2>2 DEF Reads
<1>14. CASE ~IsKey(mode[0], b)
  <2>1. at[1] = at[0] BY <1>5, <1>14 DEF Goes
  <2>2. p.rx = inp.rx /\ p.lost = inp.lost BY <1>9, <1>14
  <2>3. Len(p.rx) <= a[0] /\ (~p.lost => Len(p.rx) = a[0]) BY <1>4, <1>6, <2>1, <2>2
  <2>4. ~p.lost => \A i \in 1..Len(p.rx) : p.rx[i] = p.keys[i] BY <1>0, <1>9, <2>2 DEF Reads
  <2> QED BY <1>6, <1>9, <1>10, <2>3, <2>4 DEF Reads
<1> QED BY <1>9, <1>12, <1>13, <1>14

\* A key read.
LEMMA ReadReads ==
    ASSUME InputInv, inp.rx # <<>>, NEW p, p = [inp EXCEPT !.rx = Tail(@), !.keys = Tail(@)]
    PROVE  p \in Input /\ Reads(p)
<1>0. /\ inp \in Input /\ Reads(inp) /\ inp.way \in Seq(Bytes) /\ inp.keys \in Seq(Bytes)
      /\ inp.rx \in Seq(Bytes)
  BY DEF InputInv, Input
<1>1. PICK mode, at : /\ Course(inp.way, inp.keys, mode, at) /\ mode[0] = Mode(inp)
                      /\ Len(inp.rx) <= at[0] /\ (~inp.lost => Len(inp.rx) = at[0])
  BY <1>0 DEF Reads
<1>2. Len(inp.rx) \in Nat /\ Len(inp.rx) >= 1 BY <1>0, EmptySeq
<1>3. at[0] \in Nat
  <2>1. Len(inp.way) \in Nat BY <1>0
  <2>2. 0 \in 0..Len(inp.way) BY <2>1
  <2> QED BY <1>1, <2>2 DEF Course
<1>4. at[0] >= 1 BY <1>1, <1>2, <1>3
<1>5. inp.keys # <<>> BY <1>0, <1>1, <1>4, CourseRead
<1>6. PICK k \in Seq(Bytes) : k = Tail(inp.keys) BY <1>0, <1>5, HeadTailProperties
<1>7. PICK x \in Seq(Bytes) : x = Tail(inp.rx) BY <1>0, HeadTailProperties
<1>8. PICK a : Course(inp.way, k, mode, a) /\ a[0] = at[0] - 1 BY <1>0, <1>1, <1>4, <1>6, CourseRead
<1>9. p = [inp EXCEPT !.rx = x, !.keys = k] BY <1>6, <1>7
<1>10. /\ p \in Input /\ p.way = inp.way /\ p.keys = k /\ p.rx = x /\ p.state = inp.state /\ p.cr = inp.cr
       /\ p.lost = inp.lost
  BY <1>0, <1>9 DEF Input
<1>11. /\ Len(x) = Len(inp.rx) - 1 /\ \A i \in 1..Len(x) : x[i] = inp.rx[i + 1]
       /\ Len(k) = Len(inp.keys) - 1 /\ \A i \in 1..Len(k) : k[i] = inp.keys[i + 1]
  BY <1>0, <1>5, <1>6, <1>7, HeadTailProperties
<1>12. Len(x) <= a[0] /\ (~inp.lost => Len(x) = a[0]) BY <1>1, <1>2, <1>3, <1>8, <1>11
<1>13. ~inp.lost => \A i \in 1..Len(x) : x[i] = k[i]
  <2> SUFFICES ASSUME ~inp.lost, NEW i \in 1..Len(x) PROVE x[i] = k[i]
    OBVIOUS
  <2>1. i + 1 \in 1..Len(inp.rx) BY <1>2, <1>11
  <2>2. inp.rx[i + 1] = inp.keys[i + 1] BY <1>0, <2>1 DEF Reads
  <2>3. Len(inp.way) \in Nat /\ Len(inp.keys) \in Nat BY <1>0
  <2>4. at[0] <= Len(inp.keys)
    <3>1. 0 \in 0..Len(inp.way) /\ Len(inp.way) \in 0..Len(inp.way) /\ 0 <= Len(inp.way) BY <2>3
    <3> QED BY <1>1, <3>1 DEF Course
  <2>5. i \in 1..Len(k) BY <1>1, <1>2, <1>3, <1>11, <2>3, <2>4
  <2> QED BY <1>11, <2>2, <2>5
<1>14. Mode(p) = Mode(inp) BY <1>10 DEF Mode
<1>15. p.cr => p.state = "data" BY <1>0, <1>10 DEF Reads
<1>16. /\ Course(p.way, p.keys, mode, a) /\ mode[0] = Mode(p)
       /\ Len(p.rx) <= a[0] /\ (~p.lost => Len(p.rx) = a[0])
  BY <1>1, <1>8, <1>10, <1>12, <1>14
<1>17. ~p.lost => \A i \in 1..Len(p.rx) : p.rx[i] = p.keys[i] BY <1>10, <1>13
<1> QED BY <1>10, <1>15, <1>16, <1>17 DEF Reads

\* Before any client there is nothing to read.
LEMMA NoInputReads == NoInput \in Input /\ Reads(NoInput)
<1>1. PICK rx \in Seq(Bytes) : rx = <<>> BY NoBytes, Zenon
<1>2. NoInput = [way |-> <<>>, state |-> "data", cr |-> FALSE, rx |-> rx, keys |-> rx, sent |-> 0, lost |-> FALSE]
  BY <1>1 DEF NoInput
<1> QED BY <1>2, FreshReads, Zenon

\* Every step of the server keeps the bytes on their way and the keys together.
LEMMA InputInvStep == InputInv /\ (TelnetNext \/ UNCHANGED telnetVars) => InputInv'
<1> SUFFICES ASSUME InputInv, TelnetNext \/ UNCHANGED telnetVars PROVE InputInv'
  OBVIOUS
<1>0. inp.rx \in Seq(Bytes) BY DEF InputInv, Input
<1>1. ASSUME inp' \in Input /\ Reads(inp') PROVE InputInv'
  BY <1>1 DEF InputInv
<1>2. ASSUME UNCHANGED inp PROVE InputInv'
  BY <1>1, <1>2 DEF InputInv
<1>3. CASE TelnetCreate
  BY <1>1, <1>3, NoInputReads DEF TelnetCreate
<1>4. CASE Accept
  <2>1. PICK rx \in Seq(Bytes) : rx = inp.rx BY <1>0
  <2>2. inp' = [NoInput EXCEPT !.rx = rx, !.keys = rx] BY <1>4, <2>1 DEF Accept
  <2>3. inp' = [way |-> <<>>, state |-> "data", cr |-> FALSE, rx |-> rx, keys |-> rx, sent |-> 0, lost |-> FALSE]
    BY <2>2 DEF NoInput
  <2> QED BY <1>1, <2>3, FreshReads, Zenon
<1>5. CASE ReadByte
  BY <1>1, <1>5, ReadReads DEF ReadByte
<1>6. CASE Types
  BY <1>1, <1>6, TypesReads, Zenon DEF Types
<1>7. CASE ParseNext
  BY <1>1, <1>7, ParseReads DEF ParseNext
<1>8. CASE TelnetPublish \/ TelnetStop \/ TelnetGivesUp \/ TelnetFree
  BY <1>2, <1>8 DEF TelnetPublish, TelnetStop, TelnetGivesUp, TelnetFree
<1>9. CASE (\E n \in 1..(TxSize + 1) : WriteCall(n)) \/ WriteTurn \/ WriteGivesUp \/ Disconnect
  BY <1>2, <1>9 DEF WriteCall, WriteTurn, WriteGivesUp, Disconnect
<1>10. CASE Greet \/ Attach \/ Flush \/ Leave \/ Detach \/ Owed \/ Close \/ TelnetExit
  BY <1>2, <1>10 DEF Greet, Attach, Flush, Leave, Detach, Owed, Close, TelnetExit
<1>11. CASE UNCHANGED telnetVars
  BY <1>2, <1>11 DEF telnetVars
<1> QED BY <1>3, <1>4, <1>5, <1>6, <1>7, <1>8, <1>9, <1>10, <1>11 DEF TelnetNext

\* What it says of the keys the shell can read.
LEMMA InputInvImplies == InputInv => KeysArrive
<1> SUFFICES ASSUME InputInv, ~inp.lost
             PROVE  IsPrefix(inp.rx, inp.keys) /\ (inp.way = <<>> => inp.rx = inp.keys)
  BY DEF KeysArrive
<1>0. /\ Reads(inp) /\ inp.way \in Seq(Bytes) /\ inp.keys \in Seq(Bytes) /\ inp.rx \in Seq(Bytes)
  BY DEF InputInv, Input
<1>1. PICK mode, at : Course(inp.way, inp.keys, mode, at) /\ Len(inp.rx) = at[0] BY <1>0 DEF Reads
<1>2. \A i \in 1..Len(inp.rx) : inp.rx[i] = inp.keys[i] BY <1>0 DEF Reads
<1>3. Len(inp.rx) \in Nat /\ Len(inp.keys) \in Nat /\ Len(inp.way) \in Nat BY <1>0
<1>4. at[0] <= at[Len(inp.way)] /\ at[Len(inp.way)] = Len(inp.keys)
  <2>1. 0 \in 0..Len(inp.way) /\ Len(inp.way) \in 0..Len(inp.way) /\ 0 <= Len(inp.way) BY <1>3
  <2> QED BY <1>1, <2>1 DEF Course
<1>5. Len(inp.rx) <= Len(inp.keys) BY <1>1, <1>4
<1>6. SubSeq(inp.rx, 1, Len(inp.rx)) = SubSeq(inp.keys, 1, Len(inp.rx))
  BY <1>0, <1>2, <1>3, <1>5
<1>7. ASSUME inp.way = <<>> PROVE inp.rx = inp.keys
  <2>1. Len(inp.way) = 0 BY <1>7
  <2>2. Len(inp.rx) = Len(inp.keys) BY <1>1, <1>4, <2>1
  <2> QED BY <1>0, <1>2, <2>2, SeqEqual
<1> QED BY <1>5, <1>6, <1>7 DEF IsPrefix

-----------------------------------------------------------------------------
(* The theorems.                                                           *)

\* The invariants hold at every moment, of the server that runs and of the
\* one that does not.
LEMMA ServersInv == Spec => [](HttpInv /\ TelnetInv /\ InputInv)
<1>1. Init => HttpInv /\ TelnetInv /\ InputInv
  BY HttpInvInit, TelnetInvInit, NoInputReads DEF Init, TelnetInit, InputInv
<1>2. HttpInv /\ TelnetInv /\ InputInv /\ [Next]_vars => (HttpInv /\ TelnetInv /\ InputInv)'
  <2> SUFFICES ASSUME HttpInv, TelnetInv, InputInv, [Next]_vars PROVE HttpInv' /\ TelnetInv' /\ InputInv'
    OBVIOUS
  <2>1. CASE runs = "telnet" /\ TelnetNext /\ UNCHANGED <<httpVars, runs>>
    BY <2>1, HttpInvStep, TelnetInvStep, InputInvStep
  <2>2. CASE runs = "http" /\ HttpNext /\ UNCHANGED <<telnetVars, runs>>
    BY <2>2, HttpInvStep, TelnetInvStep, InputInvStep
  <2>3. CASE UNCHANGED vars
    BY <2>3, HttpInvStep, TelnetInvStep, InputInvStep DEF vars
  <2> QED BY <2>1, <2>2, <2>3 DEF Next
<1> QED BY <1>1, <1>2, PTL DEF Spec

\* destroy_server() of neither server runs while a task of it is left, however
\* many workers there are, whichever could not be created, and however often a
\* stop gave up before another one finished.
THEOREM NeitherFreedEarly == Spec => []FreedLast
<1>1. HttpInv /\ TelnetInv => FreedLast
  BY HttpInvImplies, TelnetInvImplies DEF FreedLast
<1> QED BY <1>1, ServersInv, PTL

\* A handler that makes any calls in any order, on any number of workers, gives
\* its client one status line and no more body than it announced.
THEOREM EveryReplyHonest == Spec => []OneHonestReply
<1> QED BY HttpInvImplies, ServersInv, PTL

\* A Telnet client gets what was queued for it, in order and, when the server
\* ends the session, all of it; and no byte of another client, not even of those that
\* a failed send left in the ring: for every size of the ring and of a chunk.
THEOREM OwedBytesGoOut == Spec => []OwedGoesOut
<1> QED BY TelnetInvImplies, ServersInv, PTL

\* The keys a Telnet client types reach the shell, each once and in order,
\* through options, subnegotiations and doubled bytes, however packets cut
\* them and whenever the shell reads, until a key finds the queue full.
THEOREM TypedKeysArrive == Spec => []KeysArrive
<1> QED BY InputInvImplies, ServersInv, PTL
=============================================================================
