------------------------------ MODULE Station ------------------------------
(***************************************************************************)
(* Associations of the station interface (sta.cpp), with the promise that  *)
(* carries the outcome and the supplicant's task and queue (wpa2_sta.cpp). *)
(* A caller publishes a session and asks the LMAC to join; the kmsg task   *)
(* gets the indications, the timer task ends an attempt that takes too     *)
(* long, and the supplicant reports how the handshake went.  Whoever       *)
(* empties the session under the lock resolves the promise.                *)
(*                                                                         *)
(* A step is what one task does between two points where another may get   *)
(* in: a section under s_lock, a write to a flag, a call that blocks.  The *)
(* attempt's number stands for its promise and for its result.             *)
(***************************************************************************)
EXTENDS Integers, Sequences, FiniteSets

CONSTANTS
    Tasks,          \* tasks that start, await and stop
    Stoppers,       \* tasks that only stop: the HTTP workers
    Rank,           \* the priority of every task
    MaxAttempts,    \* bound: attempts of all callers together
    MaxFrames,      \* bound: EAPOL frames in the supplicant's queue
    MaxInds,        \* bound: indications the kmsg task has not handled
    QueueDepth,     \* QUEUE_DEPTH of the supplicant
    MaxStops,       \* bound: calls of wifi_sta_stop()
    Direct          \* tasks that know BSSID and channel and so do not scan

Finishers == {"kmsg", "timer", "wpa2"}
Actors    == Tasks \cup Stoppers \cup Finishers
Attempts  == 1..MaxAttempts
None      == 0
Outcomes  == {"Associated", "Refused", "NoReply", "AuthFailed"}

ASSUME StationAssumption ==
    /\ Tasks # {} /\ Tasks \cap Finishers = {} /\ Stoppers \cap (Tasks \cup Finishers) = {}
    /\ Rank \in [Actors -> Nat]
    /\ MaxAttempts \in Nat \ {0} /\ MaxFrames \in Nat /\ MaxInds \in Nat /\ QueueDepth \in Nat \ {0}
    /\ MaxStops \in Nat /\ Direct \subseteq Tasks

VARIABLES
    pc,         \* where every task is
    mine,       \* the attempt whose promise each caller has a handle to
    fin,        \* session_finish(): what it took from the session, and the status
    begun,      \* attempts begun
    stops,      \* calls of wifi_sta_stop()
    overtaken,  \* history: the last start was overtaken by a stop of another task
    missed,     \* history: the abort of a handshake was not queued
    secure,     \* the callers whose attempt has a passphrase
    session,    \* s_promise and s_result
    secured,    \* s_secure
    handshake,  \* s_handshake
    timer,      \* s_timer is running
    link,       \* s_link_up, and the netif's link with it
    up,         \* the station's net_if.up
    outcome,    \* how each promise was resolved
    heap,       \* the results that are allocated
    queue,      \* s_queue of the supplicant
    sup,        \* s_active and s_pending, and the attempt it was armed for
    air,        \* LMAC: the association, its attempt, and whether it is secured
    held,       \* LMAC: a disconnect request waits for the association to end
    inds        \* SM indications the kmsg task has not handled

flags == <<secured, handshake, timer, link, up>>
past  == <<overtaken, missed>>
call  == <<mine, begun, secure, stops, past>>
chip  == <<air, held, inds>>
wpa2  == <<queue, sup>>
vars  == <<pc, fin, call, session, flags, outcome, heap, chip, wpa2>>

\* A task that waits: for work, for a confirmation, for the promise, for lwIP.
Waits(a) ==
    \/ pc[a] \in {"arm", "publish", "send", "await", "request", "verdict", "dropped"}
    \/ a \in Finishers /\ pc[a] = "resolve" /\ fin[a].status = "Associated"
    \/ pc[a] = "idle" /\ (a = "kmsg" => inds = <<>>) /\ (a = "wpa2" => queue = <<>>)

\* The scheduler runs the task with the highest priority.
Runs(a) == \A b \in Actors : Rank[b] > Rank[a] => Waits(b)

At(a, label) == pc[a] = label /\ Runs(a)

\* A sweep of the channels takes a second: the others are done with what they had.
Settled == inds = <<>> /\ queue = <<>> /\ \A a \in Finishers : pc[a] = "idle"

Goto(a, label) == pc' = [pc EXCEPT ![a] = label]

\* The queue with one more message, if there is a place for it.
Posted(m) == IF Len(queue) < QueueDepth THEN Append(queue, m) ELSE queue

Disarm == [kind |-> "disarm", n |-> None]

\* make() and post() without a timeout: a message is dropped when the queue is
\* full or there is no memory for it.
Post(m) == queue' \in {queue, Posted(m)} /\ UNCHANGED sup

\* Who still has a handle to the promise of attempt n.
CallersOf(n) == {t \in Tasks : mine[t] = n}

-----------------------------------------------------------------------------
(* session_finish().                                                       *)

Away == [state |-> "idle", n |-> None, secure |-> FALSE]

Done == [n |-> None, status |-> "NoReply"]

Finish(a, status) ==
    /\ Goto(a, "finish")
    /\ fin' = [fin EXCEPT ![a] = [n |-> None, status |-> status]]

\* The session keeps its promise and its result.
FinishTakeCopies(a) ==
    /\ At(a, "finish")
    /\ fin' = [fin EXCEPT ![a] = IF session = None THEN Done ELSE [@ EXCEPT !.n = session]]
    /\ Goto(a, IF session = None THEN "idle" ELSE "clean")
    /\ UNCHANGED <<call, session, flags, outcome, heap, chip, wpa2>>

\* The section under the lock: whoever is second finds the session empty.
FinishTake(a) ==
    /\ At(a, "finish")
    /\ fin' = [fin EXCEPT ![a] = IF session = None THEN Done ELSE [@ EXCEPT !.n = session]]
    /\ session' = None
    /\ Goto(a, IF session = None THEN "idle" ELSE "clean")
    /\ UNCHANGED <<call, flags, outcome, heap, chip, wpa2>>

FinishClean(a) ==
    /\ At(a, "clean")
    /\ timer' = FALSE /\ handshake' = FALSE
    /\ Goto(a, IF fin[a].status = "Associated" THEN "linkup" ELSE "resolve")
    /\ UNCHANGED <<fin, call, session, secured, link, up, outcome, heap, chip, wpa2>>

\* s_link_up, then wifi_net_sta_link_up(), which waits for lwIP.
FinishLink(a) ==
    /\ At(a, "linkup")
    /\ link' = TRUE
    /\ Goto(a, "resolve")
    /\ UNCHANGED <<fin, call, session, secured, handshake, timer, up, outcome, heap, chip, wpa2>>

\* Promise::resolve(), and the handle goes: the result is the promise's, or is
\* freed with it when the caller has walked away.
FinishResolve(a) ==
    /\ At(a, "resolve")
    /\ LET n == fin[a].n
       IN  IF CallersOf(n) = {}
           THEN heap' = heap \ {n} /\ UNCHANGED outcome
           ELSE outcome' = [outcome EXCEPT ![n] = fin[a].status] /\ UNCHANGED heap
    /\ fin' = [fin EXCEPT ![a] = Done]
    /\ Goto(a, "idle")
    /\ UNCHANGED <<call, session, flags, chip, wpa2>>

FinishStep(a) ==
    FinishTake(a) \/ FinishClean(a) \/ FinishLink(a) \/ FinishResolve(a)

-----------------------------------------------------------------------------
(* wifi_sta_start() and the promise.                                       *)

\* wifi_net_ensure_iface(), the tests of s_link_up and of the session; then the
\* scan for the BSS and the hashing of the passphrase, either of which may fail.
Start(t) ==
    /\ At(t, "idle") /\ begun < MaxAttempts
    /\ up' = TRUE /\ overtaken' = FALSE
    /\ \/ UNCHANGED pc
       \/ ~link /\ session = None /\ Goto(t, "arm")
    /\ UNCHANGED <<fin, mine, begun, secure, stops, missed, session, secured, handshake, timer, link, outcome, heap, chip, wpa2>>

\* wpa2_sta_arm(), which gives up after 100 ms, or the disarm of an open join.
Arm(t) ==
    /\ At(t, "arm") /\ begun < MaxAttempts /\ (t \in Direct \/ Settled)
    /\ begun' = begun + 1
    /\ mine' = [mine EXCEPT ![t] = begun + 1]
    /\ \/ /\ Len(queue) < QueueDepth
          /\ queue' = Append(queue, [kind |-> "arm", n |-> begun + 1]) /\ UNCHANGED sup
          /\ secure' = secure \cup {t}
          /\ Goto(t, "publish")
       \/ /\ Post(Disarm)
          /\ Goto(t, "publish")
          /\ UNCHANGED secure
    /\ UNCHANGED <<fin, session, flags, outcome, heap, chip, stops, past>>

\* The supplicant has no task, no memory for the message, or a queue that stays
\* full for 100 ms.
ArmRefused(t) ==
    /\ At(t, "arm")
    /\ Goto(t, "idle")
    /\ UNCHANGED <<fin, call, session, flags, outcome, heap, chip, wpa2>>

\* A call that ends without a handle.
Nothing(t) ==
    /\ Goto(t, "idle")
    /\ mine' = [mine EXCEPT ![t] = None]
    /\ secure' = secure \ {t}
    /\ outcome' = IF mine[t] = None THEN outcome ELSE [outcome EXCEPT ![mine[t]] = "none"]

\* The allocations, and the section that publishes the session.
Publish(t) ==
    /\ At(t, "publish")
    /\ \/ /\ Nothing(t)
          /\ IF t \in secure THEN Post(Disarm) ELSE UNCHANGED wpa2
          /\ UNCHANGED <<session, secured, handshake, heap>>
       \/ /\ session' = mine[t]
          /\ secured' = (t \in secure)
          /\ handshake' = FALSE
          /\ heap' = heap \cup {mine[t]}
          /\ Goto(t, "time")
          /\ UNCHANGED <<mine, secure, outcome, wpa2>>
    /\ UNCHANGED <<fin, begun, stops, past, timer, link, up, chip>>

StartTimer(t) ==
    /\ At(t, "time")
    /\ timer' = TRUE
    /\ Goto(t, "send")
    /\ UNCHANGED <<fin, call, session, secured, handshake, link, up, outcome, heap, chip, wpa2>>

\* LMAC: it takes the request unless it is busy with another one; a link that
\* is up goes down first.
Accept(n, sec) ==
    /\ air.state # "joining" /\ Len(inds) < MaxInds
    /\ air' = [state |-> "joining", n |-> n, secure |-> sec]
    /\ inds' = IF air.state = "joined" THEN Append(inds, [kind |-> "disc", ok |-> FALSE]) ELSE inds
    /\ UNCHANGED held

\* rw_msg_send_sm_connect_req() returns: accepted, given up on though the LMAC
\* has the request, or refused.
Send(t) ==
    /\ At(t, "send")
    /\ \/ Accept(mine[t], t \in secure) /\ Goto(t, "await")
       \/ Accept(mine[t], t \in secure) /\ Goto(t, "unsend")
       \/ UNCHANGED chip /\ Goto(t, "unsend")
    /\ UNCHANGED <<fin, call, session, flags, outcome, heap, wpa2>>

\* The LMAC refused: the supplicant and the timer are called off.
Unsend(t) ==
    /\ At(t, "unsend")
    /\ IF t \in secure THEN Post(Disarm) ELSE UNCHANGED wpa2
    /\ timer' = FALSE
    /\ Goto(t, "clear")
    /\ UNCHANGED <<fin, call, session, secured, handshake, link, up, outcome, heap, chip>>

\* The promise is returned all the same.
ClearAndReturn(t) ==
    /\ At(t, "clear")
    /\ session' = None
    /\ heap' = heap \ {session}
    /\ Goto(t, "await")
    /\ UNCHANGED <<fin, call, flags, outcome, chip, wpa2>>

\* The section that empties the session again; the promise goes with it.
Clear(t) ==
    /\ At(t, "clear")
    /\ session' = None
    /\ heap' = heap \ ({session} \cup (IF outcome[mine[t]] # "none" THEN {mine[t]} ELSE {}))
    /\ Nothing(t)
    /\ UNCHANGED <<fin, begun, stops, past, flags, chip, wpa2>>

\* Promise::await(); the result is the caller's and is freed by it.
Await(t) ==
    /\ At(t, "await") /\ outcome[mine[t]] # "none"
    /\ heap' = heap \ {mine[t]}
    /\ Nothing(t)
    /\ UNCHANGED <<fin, begun, stops, past, session, flags, chip, wpa2>>

\* The caller drops its handle without awaiting: a service that is replaced.
WalkAway(t) ==
    /\ At(t, "await")
    /\ heap' = IF outcome[mine[t]] # "none" THEN heap \ {mine[t]} ELSE heap
    /\ Nothing(t)
    /\ UNCHANGED <<fin, begun, stops, past, session, flags, chip, wpa2>>

-----------------------------------------------------------------------------
(* connect_leave(), for wifi_sta_stop() and for a failed handshake.        *)

\* s_link_up, then wifi_net_sta_link_down(), which waits for lwIP.
Leave(a) == link' = FALSE /\ Goto(a, "request")

\* wifi_sta_stop() of an interface that is up.
Stop(t) ==
    /\ At(t, "idle") /\ up /\ stops < MaxStops /\ stops' = stops + 1
    /\ Leave(t)
    /\ UNCHANGED <<fin, mine, begun, secure, past, session, secured, handshake, timer, up, outcome, heap, chip, wpa2>>

\* rw_msg_send_sm_disconnect_req(): the LMAC leaves the BSS, and says so in time
\* or not; it holds a request that comes during an association; or the request
\* is refused or never reaches it.
Disconnect(ok) ==
    \/ /\ air.state # "joining" /\ (air.state = "joined" => Len(inds) < MaxInds)
       /\ air' = Away
       /\ inds' = IF air.state = "joined" THEN Append(inds, [kind |-> "disc", ok |-> FALSE]) ELSE inds
       /\ UNCHANGED held
    \/ ~ok /\ air.state = "joining" /\ held' = TRUE /\ UNCHANGED <<air, inds>>
    \/ ~ok /\ UNCHANGED chip

\* Calls of wifi_sta_start() that have marked the interface up and have not sent
\* the request to join.
Preparing == {t \in Tasks : pc[t] \in {"arm", "publish", "time", "send"}}

\* The interface goes down whatever the LMAC says.
LeaveDoneAnyway(a) ==
    /\ At(a, "request")
    /\ \E ok \in BOOLEAN : Disconnect(ok) /\ IF ok THEN Post(Disarm) ELSE UNCHANGED wpa2
    /\ up' = (up /\ a = "wpa2") /\ UNCHANGED overtaken
    /\ IF a = "wpa2" THEN Finish(a, "AuthFailed") ELSE Goto(a, "idle") /\ UNCHANGED fin
    /\ UNCHANGED <<mine, begun, secure, stops, missed, session, secured, handshake, timer, link, outcome, heap>>

\* rw_msg_send_sm_disconnect_req() returns; the supplicant is disarmed only
\* when the LMAC accepted.  The verdict follows a failed handshake either way.
LeaveDone(a) ==
    /\ At(a, "request")
    /\ \E ok \in BOOLEAN :
          /\ Disconnect(ok)
          /\ IF ok THEN Post(Disarm) ELSE UNCHANGED wpa2
          /\ LET down == ok /\ a # "wpa2"
             IN  /\ up' = (up /\ ~down)
                 /\ overtaken' = (overtaken \/ (down /\ Preparing # {}))
    /\ IF a = "wpa2" THEN Finish(a, "AuthFailed") ELSE Goto(a, "idle") /\ UNCHANGED fin
    /\ UNCHANGED <<mine, begun, secure, stops, missed, session, secured, handshake, timer, link, outcome, heap>>

-----------------------------------------------------------------------------
(* The kmsg task and the timer.                                            *)

\* sm_connect_ind_handler(): is anybody waiting, under the lock.
ConnectInd ==
    /\ At("kmsg", "idle") /\ inds # <<>> /\ Head(inds).kind = "conn"
    /\ IF session = None
       THEN inds' = Tail(inds) /\ UNCHANGED pc
       ELSE Goto("kmsg", "conn") /\ UNCHANGED inds
    /\ UNCHANGED <<fin, call, session, flags, outcome, heap, air, held, wpa2>>

\* Every join is over with its indication.
ConnectDecideOpen ==
    /\ At("kmsg", "conn")
    /\ inds' = Tail(inds)
    /\ IF secured THEN Post(Disarm) ELSE UNCHANGED wpa2
    /\ Finish("kmsg", IF Head(inds).ok THEN "Associated" ELSE "Refused")
    /\ UNCHANGED <<call, session, flags, outcome, heap, air, held>>

\* An open join is over; a secured one goes on with the handshake.
ConnectDecide ==
    /\ At("kmsg", "conn")
    /\ inds' = Tail(inds)
    /\ IF Head(inds).ok /\ secured
       THEN /\ handshake' = TRUE /\ timer' = TRUE
            /\ Goto("kmsg", "idle")
            /\ UNCHANGED <<fin, wpa2>>
       ELSE /\ IF secured THEN Post(Disarm) ELSE UNCHANGED wpa2
            /\ Finish("kmsg", IF Head(inds).ok THEN "Associated" ELSE "Refused")
            /\ UNCHANGED <<handshake, timer>>
    /\ UNCHANGED <<call, session, secured, link, up, outcome, heap, air, held>>

\* sm_disconnect_ind_handler()
DisconnectInd ==
    /\ At("kmsg", "idle") /\ inds # <<>> /\ Head(inds).kind = "disc"
    /\ inds' = Tail(inds)
    /\ link' = FALSE
    /\ Goto("kmsg", "dropped")
    /\ UNCHANGED <<fin, call, session, secured, handshake, timer, up, outcome, heap, air, held, wpa2>>

\* Only a handshake that is running ends with the link.
Dropped ==
    /\ At("kmsg", "dropped")
    /\ IF handshake
       THEN Post(Disarm) /\ Finish("kmsg", "AuthFailed")
       ELSE Goto("kmsg", "idle") /\ UNCHANGED <<fin, wpa2>>
    /\ UNCHANGED <<call, session, flags, outcome, heap, chip>>

\* The timer leaves a running handshake to the supplicant.
ExpireNoAbort ==
    /\ At("timer", "idle") /\ timer
    /\ \A t \in Tasks : pc[t] # "send"
    /\ timer' = FALSE
    /\ IF handshake THEN UNCHANGED <<pc, fin>> ELSE Finish("timer", "NoReply")
    /\ UNCHANGED <<call, session, secured, handshake, link, up, outcome, heap, chip, wpa2>>

\* timer_expired().  A request returns well before its deadline.
Expire ==
    /\ At("timer", "idle") /\ timer
    /\ \A t \in Tasks : pc[t] # "send"
    /\ timer' = FALSE
    /\ IF handshake
       THEN /\ Post([kind |-> "abort", n |-> None])
            /\ missed' = (missed \/ queue' = queue)
            /\ UNCHANGED <<pc, fin>>
       ELSE Finish("timer", "NoReply") /\ UNCHANGED <<wpa2, missed>>
    /\ UNCHANGED <<mine, begun, secure, stops, overtaken, session, secured, handshake, link, up, outcome, heap, chip>>

-----------------------------------------------------------------------------
(* The supplicant's task.                                                  *)

Idle == [active |-> FALSE, pending |-> FALSE, n |-> None]

Fail == sup' = Idle /\ Leave("wpa2")

\* handle() of the next message.  Any frame of the access point may make progress
\* or break the handshake, one of an earlier attempt too; message 3, which
\* completes it, is signed with the key of this attempt (wpa2_sm.c:89).
Handle ==
    /\ At("wpa2", "idle") /\ queue # <<>>
    /\ queue' = Tail(queue)
    /\ LET m == Head(queue)
       IN  \/ m.kind = "arm" /\ sup' = [active |-> TRUE, pending |-> TRUE, n |-> m.n] /\ UNCHANGED <<pc, link>>
           \/ m.kind = "disarm" /\ sup' = Idle /\ UNCHANGED <<pc, link>>
           \/ m.kind = "abort" /\ sup.active /\ sup.pending /\ Fail
           \/ m.kind = "abort" /\ ~(sup.active /\ sup.pending) /\ UNCHANGED <<pc, sup, link>>
           \/ m.kind = "eapol" /\ UNCHANGED <<pc, sup, link>>
           \/ m.kind = "eapol" /\ sup.active /\ Fail
           \/ /\ m.kind = "eapol" /\ sup.active /\ sup.pending /\ sup.n = m.n
              /\ Goto("wpa2", "verdict") /\ UNCHANGED <<sup, link>>
    /\ UNCHANGED <<fin, call, session, secured, handshake, timer, up, outcome, heap, chip>>

\* The keys are in and the port is open: WPA2_DONE.
Verdict ==
    /\ At("wpa2", "verdict")
    /\ sup' = [sup EXCEPT !.pending = FALSE]
    /\ Finish("wpa2", "Associated")
    /\ UNCHANGED <<call, session, flags, outcome, heap, chip, queue>>

-----------------------------------------------------------------------------
(* The LMAC and the access point.                                          *)

JoinEnds(ok) ==
    /\ air.state = "joining" /\ Len(inds) < MaxInds
    /\ air' = IF ok THEN [air EXCEPT !.state = "joined"] ELSE Away
    /\ inds' = Append(inds, [kind |-> "conn", ok |-> ok])
    /\ UNCHANGED <<held, pc, fin, call, session, flags, outcome, heap, wpa2>>

\* The access point drops the link, or a disconnect request that was held is
\* replayed.
LinkEnds ==
    /\ air.state = "joined" /\ Len(inds) < MaxInds
    /\ air' = Away /\ held' = FALSE
    /\ inds' = Append(inds, [kind |-> "disc", ok |-> FALSE])
    /\ UNCHANGED <<pc, fin, call, session, flags, outcome, heap, wpa2>>

\* A held request finds no link.
Replay ==
    /\ held /\ air.state = "idle"
    /\ held' = FALSE
    /\ UNCHANGED <<air, inds, pc, fin, call, session, flags, outcome, heap, wpa2>>

\* wpa2_eapol_rx() of a frame from the access point.
Eapol ==
    /\ air.state = "joined" /\ air.secure
    /\ Cardinality({i \in 1..Len(queue) : queue[i].kind = "eapol"}) < MaxFrames
    /\ queue' = Posted([kind |-> "eapol", n |-> air.n])
    /\ UNCHANGED <<sup, pc, fin, call, session, flags, outcome, heap, chip>>

-----------------------------------------------------------------------------
Init ==
    /\ pc = [a \in Actors |-> "idle"] /\ mine = [t \in Tasks |-> None]
    /\ fin = [a \in Finishers |-> Done]
    /\ begun = 0 /\ stops = 0 /\ secure = {} /\ session = None
    /\ overtaken = FALSE /\ missed = FALSE
    /\ secured = FALSE /\ handshake = FALSE /\ timer = FALSE
    /\ link = FALSE /\ up = FALSE
    /\ outcome = [n \in Attempts |-> "none"] /\ heap = {}
    /\ queue = <<>> /\ sup = Idle
    /\ air = Away /\ held = FALSE /\ inds = <<>>

Continue(t) ==
    \/ Arm(t) \/ ArmRefused(t) \/ Publish(t) \/ StartTimer(t) \/ Send(t)
    \/ Unsend(t) \/ Clear(t) \/ Await(t) \/ LeaveDone(t)

Kmsg  == ConnectInd \/ ConnectDecide \/ DisconnectInd \/ Dropped \/ FinishStep("kmsg")
Timer == Expire \/ FinishStep("timer")
Wpa2  == Handle \/ Verdict \/ LeaveDone("wpa2") \/ FinishStep("wpa2")

Lmac == (\E ok \in BOOLEAN : JoinEnds(ok)) \/ LinkEnds \/ Replay \/ Eapol

Next ==
    \/ \E t \in Tasks : Continue(t) \/ WalkAway(t) \/ Stop(t) \/ Start(t)
    \/ \E w \in Stoppers : Stop(w) \/ LeaveDone(w)
    \/ Kmsg \/ Timer \/ Wpa2 \/ Lmac

Spec == Init /\ [][Next]_vars

\* Tasks that are ready run in the end and a running timer expires; the access
\* point owes nothing.
FairSpec ==
    /\ Spec
    /\ \A t \in Tasks : WF_vars(Continue(t))
    /\ WF_vars(Kmsg) /\ WF_vars(Timer) /\ WF_vars(Wpa2)

-----------------------------------------------------------------------------
(* Correctness.                                                            *)

Messages == [kind : {"arm", "eapol", "disarm", "abort"}, n : 0..MaxAttempts]

\* The variables have their types.
TypeOK ==
    /\ DOMAIN pc = Actors
    /\ mine \in [Tasks -> 0..MaxAttempts]
    /\ fin \in [Finishers -> [n : 0..MaxAttempts, status : Outcomes]]
    /\ begun \in 0..MaxAttempts /\ session \in 0..MaxAttempts
    /\ secure \subseteq Tasks /\ heap \subseteq Attempts
    /\ {secured, handshake, timer, link, up, held, overtaken, missed} \subseteq BOOLEAN
    /\ outcome \in [Attempts -> Outcomes \cup {"none"}]
    /\ queue \in Seq(Messages) /\ Len(queue) <= QueueDepth
    /\ air.state \in {"idle", "joining", "joined"} /\ air.n \in 0..MaxAttempts

\* Those that own the result of attempt n.
Owners(n) ==
    {x \in Finishers : fin[x].n = n}
        \cup (IF session = n THEN {"session"} ELSE {})
        \cup (IF outcome[n] # "none" /\ CallersOf(n) # {} THEN {"promise"} ELSE {})

\* "The result changes owner outright - from this frame to the session, and from
\* the session to the promise": an allocated result has one owner and an owner
\* has an allocated result, so none is leaked, freed twice or used after that.
OneOwner ==
    \A n \in Attempts : Cardinality(Owners(n)) = IF n \in heap THEN 1 ELSE 0

\* sta.h: "Associated - the link is usable. For a secured network that means the
\* handshake is done": only the supplicant ends a secured attempt that way, and
\* only the attempt it was armed for, whatever is left of an earlier one.
SecureMeansHandshake ==
    \A a \in Finishers :
        /\ fin[a].n # None /\ fin[a].status = "Associated"
        /\ \E t \in secure : mine[t] = fin[a].n
        => a = "wpa2" /\ sup.n = fin[a].n

\* Promise.h: "THE PRODUCER MUST RESOLVE, on every path" - a caller in await(),
\* which has no timeout, has a promise that the session or a finisher holds.
SomeoneResolves ==
    \A t \in Tasks : pc[t] = "await" /\ outcome[mine[t]] = "none" =>
        mine[t] = session \/ \E a \in Finishers : fin[a].n = mine[t]

\* The first attempt after start-up ends, whatever the LMAC and the access point
\* do or fail to do and whenever an HTTP worker stops the station, with two
\* exceptions that leave the caller in await() for ever.  The abort of a handshake
\* at its deadline is dropped by a full queue, and nothing posts it again
\* (wpa2_sta.cpp:218); or a stop overtook the start, and its disarm reached the
\* supplicant after the arm, which then ignores the abort (wpa2_sta.cpp:153).
FirstKept ==
    \A t \in Tasks : pc[t] = "await" /\ mine[t] = 1 ~> pc[t] # "await" \/ missed \/ overtaken

Quiet == inds = <<>> /\ \A a \in Actors : pc[a] \in {"idle", "await"}

\* wifi_sta_stop() "Leaves the BSS ... and marks the interface down": an interface
\* that is down is not associated, though requests fail, time out or are held by
\* the LMAC, with one exception.  A stop of another task that returns while
\* wifi_sta_start() is between marking the interface up (sta.cpp:245) and the
\* request to join (sta.cpp:358) finds nothing to leave, and the attempt it
\* overtook associates an interface that is marked down.
DownMeansGone == Quiet /\ ~up /\ air.state # "idle" => overtaken

=============================================================================
