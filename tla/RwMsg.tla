------------------------------- MODULE RwMsg -------------------------------
(***************************************************************************)
(* Requests from host tasks to the LMAC.  A task parks a node on the list  *)
(* of pending requests, posts the message to the Wi-Fi core task and waits *)
(* on the node's semaphore; the kmsg task takes the LMAC's messages from   *)
(* the receive list, matches a confirmation to a node by its id, fills in  *)
(* the answer and signals.  After 5 s the task gives up and frees the node.*)
(*                                                                         *)
(* The LMAC is a binary archive, modelled as this code meets it: it may    *)
(* answer any request it was given, at any time or never, and a connection *)
(* it accepted is followed by an indication.                               *)
(*                                                                         *)
(* The kmsg task outranks the supplicant, the main task once it runs and   *)
(* the HTTP workers, but not the shell, which has its priority, nor the    *)
(* main task while it brings the radio up: Peers.  A sender among these    *)
(* may free the node the kmsg task is looking at (docs/known_issues.md,    *)
(* F15).  The model ends there for the kmsg task: what it does with memory *)
(* that is not a node any more cannot be said.                             *)
(***************************************************************************)
EXTENDS Integers, Sequences, FiniteSets, SequencesExt, Functions

CONSTANTS
    Senders,        \* tasks that send requests
    Ids,            \* confirmation ids they wait for
    ConnectId,      \* SM_CONNECT_CFM: the one an indication follows
    MaxRequests,    \* bound: requests of all senders together
    QueueLen,       \* BMSG_QUEUE_LEN
    Peers           \* the senders the kmsg task does not outrank

ASSUME RwMsgAssumption ==
    /\ ConnectId \in Ids
    /\ MaxRequests \in Nat \ {0} /\ QueueLen \in Nat \ {0}
    /\ Peers \subseteq Senders

None == [by |-> "nobody", n |-> 0]

Requests == [by : Senders, n : 1..MaxRequests]

VARIABLES
    pc,         \* where each sender is in rw_msg_send()
    count,      \* requests each sender has begun
    want,       \* the id each request waits for
    bus,        \* the bmsg queue
    tx,         \* rw_msg_tx_head: the nodes of pending requests
    rx,         \* rw_msg_rx_head: messages from the LMAC
    live,       \* the nodes that are allocated
    signalled,  \* the nodes whose semaphore has been given
    answer,     \* whose confirmation was copied into each request's buffer
    result,     \* what rw_msg_send() returned for each request
    lmac,       \* requests the LMAC has and has not answered
    joining,    \* accepted connections that have not been indicated
    sema,       \* app_sema
    kmsg        \* the kmsg task: [pc, msg, node]

sender == <<pc, count, want, result>>
chip   == <<bus, lmac, joining>>
vars   == <<sender, chip, tx, rx, live, signalled, answer, sema, kmsg>>

Messages == [kind : {"cfm", "ind"}, id : Ids, of : Requests]

\* The request a sender is working on.
Mine(s) == [by |-> s, n |-> count[s]]

\* co_list_extract(): the list without an element, if it has it.
Without(seq, e) ==
    IF \E i \in 1..Len(seq) : seq[i] = e
    THEN RemoveAt(seq, CHOOSE i \in 1..Len(seq) : seq[i] = e)
    ELSE seq

\* A sender below the kmsg task runs when that has nothing to do.
MayRun(s) == s \in Peers \/ kmsg.pc = "stray" \/ (kmsg.pc = "wait" /\ ~sema)

-----------------------------------------------------------------------------
(* rw_msg_send().                                                          *)

Finish(s, code) ==
    /\ pc' = [pc EXCEPT ![s] = "idle"]
    /\ result' = [result EXCEPT ![Mine(s)] = code]

\* Allocates the node and its semaphore; a failure of either ends the call.
Begin(s, id) ==
    /\ MayRun(s) /\ pc[s] = "idle"
    /\ SumFunction(count) < MaxRequests /\ count[s] < MaxRequests
    /\ count' = [count EXCEPT ![s] = @ + 1]
    /\ LET r == [by |-> s, n |-> count[s] + 1]
       IN  /\ want' = [want EXCEPT ![r] = id]
           /\ \/ /\ live' = live \cup {r}
                 /\ pc' = [pc EXCEPT ![s] = "park"]
                 /\ UNCHANGED result
              \/ /\ result' = [result EXCEPT ![r] = "error"]
                 /\ UNCHANGED <<live, pc>>
    /\ UNCHANGED <<chip, tx, rx, signalled, answer, sema, kmsg>>

\* The node joins the list under the interrupt lock.
Park(s) ==
    /\ MayRun(s) /\ pc[s] = "park"
    /\ tx' = Append(tx, Mine(s))
    /\ pc' = [pc EXCEPT ![s] = "post"]
    /\ UNCHANGED <<count, want, result, chip, rx, live, signalled, answer, sema, kmsg>>

\* bmsg_ioctl_sender(): a full queue refuses the message.
Post(s) ==
    /\ MayRun(s) /\ pc[s] = "post"
    /\ IF Len(bus) < QueueLen
       THEN bus' = Append(bus, Mine(s)) /\ pc' = [pc EXCEPT ![s] = "wait"]
       ELSE pc' = [pc EXCEPT ![s] = "unpark"] /\ UNCHANGED bus
    /\ UNCHANGED <<count, want, result, lmac, joining, tx, rx, live, signalled, answer, sema, kmsg>>

\* rtos_get_semaphore() returns 0.
Wake(s) ==
    /\ MayRun(s) /\ pc[s] = "wait" /\ Mine(s) \in signalled
    /\ signalled' = signalled \ {Mine(s)}
    /\ live' = live \ {Mine(s)}
    /\ Finish(s, "ok")
    /\ UNCHANGED <<count, want, chip, tx, rx, answer, sema, kmsg>>

\* A wait without a timeout.
TimeoutNever(s) ==
    /\ pc[s] = "never"
    /\ UNCHANGED vars

\* rtos_get_semaphore() gives up after RW_MSG_CFM_TIMEOUT_MS.
Timeout(s) ==
    /\ MayRun(s) /\ pc[s] = "wait" /\ Mine(s) \notin signalled
    /\ pc' = [pc EXCEPT ![s] = "unpark"]
    /\ UNCHANGED <<count, want, result, chip, tx, rx, live, signalled, answer, sema, kmsg>>

\* The timeout path without the extract.
UnparkForgotten(s) ==
    /\ MayRun(s) /\ pc[s] = "unpark"
    /\ pc' = [pc EXCEPT ![s] = "free"]
    /\ UNCHANGED <<count, want, result, chip, tx, rx, live, signalled, answer, sema, kmsg>>

\* co_list_extract() under the lock, of a node the kmsg task may have removed.
Unpark(s) ==
    /\ MayRun(s) /\ pc[s] = "unpark"
    /\ tx' = Without(tx, Mine(s))
    /\ pc' = [pc EXCEPT ![s] = "free"]
    /\ UNCHANGED <<count, want, result, chip, rx, live, signalled, answer, sema, kmsg>>

\* rtos_deinit_semaphore(), vPortFree() and the return of an error.
Free(s) ==
    /\ MayRun(s) /\ pc[s] = "free"
    /\ live' = live \ {Mine(s)}
    /\ signalled' = signalled \ {Mine(s)}
    /\ Finish(s, "error")
    /\ UNCHANGED <<count, want, chip, tx, rx, answer, sema, kmsg>>

-----------------------------------------------------------------------------
(* The Wi-Fi core task and the LMAC.                                       *)

\* core_task_main(): ke_msg_send() of the oldest message.
CoreTask ==
    /\ bus # <<>>
    /\ bus' = Tail(bus)
    /\ lmac' = lmac \cup {Head(bus)}
    /\ UNCHANGED <<sender, joining, tx, rx, live, signalled, answer, sema, kmsg>>

\* mr_kmsg_fwd(): the message joins the receive list, then app_set_sema().
Forward(m) ==
    /\ rx' = Append(rx, m)
    /\ sema' = TRUE

\* The LMAC answers a request; an accepted connection goes on.
Answer(r) ==
    /\ r \in lmac
    /\ lmac' = lmac \ {r}
    /\ \/ want[r] = ConnectId /\ joining' = joining \cup {r}
       \/ UNCHANGED joining
    /\ Forward([kind |-> "cfm", id |-> want[r], of |-> r])
    /\ UNCHANGED <<sender, bus, tx, live, signalled, answer, kmsg>>

Indicate(r) ==
    /\ r \in joining
    /\ joining' = joining \ {r}
    /\ Forward([kind |-> "ind", id |-> want[r], of |-> r])
    /\ UNCHANGED <<sender, bus, lmac, tx, live, signalled, answer, kmsg>>

-----------------------------------------------------------------------------
(* The kmsg task.                                                          *)

\* kmsg_task_main() takes app_sema.
KmsgWake ==
    /\ kmsg.pc = "wait" /\ sema
    /\ sema' = FALSE
    /\ kmsg' = [kmsg EXCEPT !.pc = "pop"]
    /\ UNCHANGED <<sender, chip, tx, rx, live, signalled, answer>>

\* rwnx_recv_msg(): the next message, and the head of the pending list.
KmsgPop ==
    /\ kmsg.pc = "pop"
    /\ IF rx = <<>>
       THEN kmsg' = [kmsg EXCEPT !.pc = "wait"] /\ UNCHANGED rx
       ELSE /\ rx' = Tail(rx)
            /\ kmsg' = [pc |-> "pick", msg |-> Head(rx), node |-> None]
    /\ UNCHANGED <<sender, chip, tx, live, signalled, answer, sema>>

KmsgPick ==
    /\ kmsg.pc = "pick"
    /\ kmsg' = [pc |-> "match", msg |-> kmsg.msg, node |-> IF tx = <<>> THEN None ELSE Head(tx)]
    /\ UNCHANGED <<sender, chip, tx, rx, live, signalled, answer, sema>>

\* The node behind a node of the list, read from the node itself.
NextNode(r) ==
    IF \E i \in 1..(Len(tx) - 1) : tx[i] = r
    THEN tx[1 + CHOOSE i \in 1..(Len(tx) - 1) : tx[i] = r]
    ELSE None

\* Compares any confirmation with any node.
MatchesAny(m, r) == m.kind = "cfm"

\* rx_msg->id == tx->reqid; an indication has an id no node waits for.
Matches(m, r) == m.kind = "cfm" /\ m.id = want[r]

\* The node in hand is still a node.
Usable == kmsg.node \in live

\* F15: the kmsg task reads, fills in or signals a node that was freed.
KmsgStray ==
    /\ kmsg.pc \in {"match", "copy", "signal"} /\ kmsg.node # None /\ ~Usable
    /\ kmsg' = [kmsg EXCEPT !.pc = "stray"]
    /\ UNCHANGED <<sender, chip, tx, rx, live, signalled, answer, sema>>

\* One turn of the inner loop: extract the node, go on, or leave.
KmsgMatch ==
    /\ kmsg.pc = "match" /\ (kmsg.node = None \/ Usable)
    /\ IF kmsg.node = None
       THEN kmsg' = [kmsg EXCEPT !.pc = "pop"] /\ UNCHANGED tx
       ELSE IF Matches(kmsg.msg, kmsg.node)
       THEN tx' = Without(tx, kmsg.node) /\ kmsg' = [kmsg EXCEPT !.pc = "copy"]
       ELSE kmsg' = [kmsg EXCEPT !.node = NextNode(kmsg.node)] /\ UNCHANGED tx
    /\ UNCHANGED <<sender, chip, rx, live, signalled, answer, sema>>

\* The semaphore given before the confirmation is copied.
KmsgCopySignalsFirst ==
    /\ kmsg.pc = "copy" /\ Usable
    /\ answer' = [answer EXCEPT ![kmsg.node] = kmsg.msg.of]
    /\ signalled' = signalled \cup {kmsg.node}
    /\ kmsg' = [kmsg EXCEPT !.pc = "signal"]
    /\ UNCHANGED <<sender, chip, tx, rx, live, sema>>

\* memcpy() of the confirmation through node->cfm.
KmsgCopy ==
    /\ kmsg.pc = "copy" /\ Usable
    /\ answer' = [answer EXCEPT ![kmsg.node] = kmsg.msg.of]
    /\ kmsg' = [kmsg EXCEPT !.pc = "signal"]
    /\ UNCHANGED <<sender, chip, tx, rx, live, signalled, sema>>

\* rtos_set_semaphore() of the node.
KmsgSignal ==
    /\ kmsg.pc = "signal" /\ Usable
    /\ signalled' = signalled \cup {kmsg.node}
    /\ kmsg' = [kmsg EXCEPT !.pc = "pop"]
    /\ UNCHANGED <<sender, chip, tx, rx, live, answer, sema>>

-----------------------------------------------------------------------------
Init ==
    /\ pc = [s \in Senders |-> "idle"] /\ count = [s \in Senders |-> 0]
    /\ want = [r \in Requests |-> ConnectId]
    /\ bus = <<>> /\ tx = <<>> /\ rx = <<>>
    /\ live = {} /\ signalled = {} /\ lmac = {} /\ joining = {}
    /\ answer = [r \in Requests |-> None]
    /\ result = [r \in Requests |-> "none"]
    /\ sema = FALSE
    /\ kmsg \in [pc : {"wait"}, msg : {[kind |-> "ind", id |-> ConnectId, of |-> None]},
                 node : {None}]

Send(s) == Park(s) \/ Post(s) \/ Wake(s) \/ Timeout(s) \/ Unpark(s) \/ Free(s)

Kmsg == KmsgWake \/ KmsgPop \/ KmsgPick \/ KmsgMatch \/ KmsgCopy \/ KmsgSignal \/ KmsgStray

Next ==
    \/ \E s \in Senders : Send(s) \/ \E id \in Ids : Begin(s, id)
    \/ CoreTask \/ Kmsg
    \/ \E r \in Requests : Answer(r) \/ Indicate(r)

Spec == Init /\ [][Next]_vars

\* Ready tasks run and a timeout comes; the LMAC owes nothing.
FairSpec ==
    /\ Spec
    /\ \A s \in Senders : WF_vars(Send(s))
    /\ WF_vars(CoreTask) /\ WF_vars(Kmsg)

-----------------------------------------------------------------------------
(* Correctness.                                                            *)

Working == {"match", "copy", "signal"}

\* The variables have their types.
TypeOK ==
    /\ pc \in [Senders -> {"idle", "park", "post", "wait", "unpark", "free"}]
    /\ count \in [Senders -> 0..MaxRequests]
    /\ want \in [Requests -> Ids]
    /\ bus \in Seq(Requests) /\ tx \in Seq(Requests) /\ rx \in Seq(Messages)
    /\ live \subseteq Requests /\ signalled \subseteq Requests
    /\ lmac \subseteq Requests /\ joining \subseteq Requests
    /\ answer \in [Requests -> Requests \cup {None}]
    /\ result \in [Requests -> {"none", "ok", "error"}]
    /\ sema \in BOOLEAN
    /\ kmsg.pc \in {"wait", "pop", "pick", "stray"} \cup Working
    /\ kmsg.node \in Requests \cup {None}

\* The kmsg task comes upon a freed node only in the way F15 of
\* docs/known_issues.md describes: the node's call failed, and was made by a task
\* that may run while the kmsg task works.  Neither a call that got its answer
\* nor any call of a task below the kmsg task frees a node under it, though
\* rwnx_recv_msg() walks the list outside the lock and takes a node off the list
\* before it is done with it.
FreedOnlyByFailedPeer ==
    (kmsg.pc \in Working \cup {"stray"} /\ kmsg.node # None /\ kmsg.node \notin live) =>
        result[kmsg.node] = "error" /\ kmsg.node.by \in Peers

\* A node is allocated only while its call runs.
NodesOwned == \A r \in live : r = Mine(r.by) /\ pc[r.by] # "idle"

\* The list of pending requests holds allocated nodes only, each once.
EntriesOwned ==
    \A i \in 1..Len(tx) : tx[i] \in live /\ \A j \in 1..Len(tx) : tx[i] = tx[j] => i = j

\* No call leaves a node or a list entry behind, whichever way it ended: with an
\* answer, a timeout, a full queue or no memory (rw_msg_send()).
NothingLeftBehind == NodesOwned /\ EntriesOwned

\* A call that returned 0 had a confirmation with the id it asked for copied
\* into its buffer before it woke up.
AnsweredWhenOk ==
    \A r \in Requests : result[r] = "ok" => answer[r] # None /\ want[answer[r]] = want[r]

\* rw_msg.h: calls "block until it arrives or the send times out".
SendReturns == \A s \in Senders : pc[s] # "idle" ~> pc[s] = "idle"
=============================================================================
