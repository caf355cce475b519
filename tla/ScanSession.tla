---------------------------- MODULE ScanSession ----------------------------
(***************************************************************************)
(* One scan at a time, from request to resolved promise (scan.cpp).  A     *)
(* caller publishes a session, starts the timer and asks the LMAC to sweep *)
(* the channels; the kmsg task feeds beacons in and reports the end of the *)
(* sweep; the timer cancels a sweep that takes too long, and gives up on   *)
(* one that does not stop.  A scan's number stands for its promise and its *)
(* result; found and swept only record what the LMAC did.                  *)
(***************************************************************************)
EXTENDS Integers, Sequences, FiniteSets

CONSTANTS
    Tasks,      \* tasks that scan
    Rank,       \* the priority of every task
    MaxScans    \* bound: scans of all callers together

Finishers == {"kmsg", "timer"}
Actors    == Tasks \cup Finishers
Scans     == 1..MaxScans
None      == 0
Statuses  == {"Ok", "Partial", "Timeout"}

ASSUME ScanAssumption ==
    /\ Tasks # {} /\ Tasks \cap Finishers = {} /\ Rank \in [Actors -> Nat]
    /\ MaxScans \in Nat \ {0}

VARIABLES
    pc,         \* where every task is
    mine,       \* the scan whose promise each caller has a handle to
    begun,      \* scans begun
    session,    \* s_promise with s_result, s_cancelled, and the result's dropped
    timer,      \* s_timer is running
    fin,        \* what a finisher took from the session, with its final status
    outcome,    \* how each promise was resolved
    heap,       \* the results that are allocated
    requests,   \* messages on their way to the LMAC
    lmac,       \* its sweep, a request saved for later, and the cancel flag
    inds,       \* messages the kmsg task has not handled
    found,      \* the sweeps whose beacons are in each result
    swept,      \* the sweeps that ended by themselves
    givenUp     \* the scans that ended without the end of a sweep

call == <<mine, begun>>
chip == <<requests, lmac>>
seen == <<found, swept>>
scanVars == <<pc, call, session, timer, fin, outcome, heap, chip, inds, seen, givenUp>>

NoSession == [n |-> None, cancelled |-> FALSE, dropped |-> FALSE]

\* A task that waits: for work, or for its promise.
Waits(a) ==
    \/ pc[a] = "await"
    \/ pc[a] = "idle" /\ (a = "kmsg" => inds = <<>>)

\* The scheduler runs the task with the highest priority.
At(a, label) == pc[a] = label /\ \A b \in Actors : Rank[b] > Rank[a] => Waits(b)

Goto(a, label) == pc' = [pc EXCEPT ![a] = label]

Holders(n) == {t \in Tasks : mine[t] = n}

-----------------------------------------------------------------------------
(* session_finish().                                                       *)

\* A cancelled sweep reported as any other.
FinalStatusForgets(s, status) ==
    IF s.dropped /\ status = "Ok" THEN "Partial" ELSE status

\* "A sweep that stopped because we asked it to is not a finished one".
FinalStatus(s, status) ==
    IF s.cancelled /\ status = "Ok" THEN "Timeout"
    ELSE IF s.dropped /\ status = "Ok" THEN "Partial" ELSE status

\* The section under the lock: whoever is second finds the session empty.
Take(a, status) ==
    /\ IF session.n = None
       THEN Goto(a, "idle") /\ UNCHANGED fin
       ELSE /\ fin' = [fin EXCEPT ![a] = [n |-> session.n, status |-> FinalStatus(session, status)]]
            /\ Goto(a, "stop")
    /\ session' = NoSession

FinishStop(a) ==
    /\ At(a, "stop")
    /\ timer' = FALSE
    /\ Goto(a, "resolve")
    /\ UNCHANGED <<call, session, fin, outcome, heap, chip, inds, seen, givenUp>>

\* Promise::resolve(), and the handle goes: without a caller that has one, the
\* promise and its result go too.
FinishResolve(a) ==
    /\ At(a, "resolve")
    /\ LET n == fin[a].n
       IN  IF Holders(n) = {}
           THEN heap' = heap \ {n} /\ UNCHANGED outcome
           ELSE outcome' = [outcome EXCEPT ![n] = fin[a].status] /\ UNCHANGED heap
    /\ fin' = [fin EXCEPT ![a] = [n |-> None, status |-> "Ok"]]
    /\ Goto(a, "idle")
    /\ UNCHANGED <<call, session, timer, chip, inds, seen, givenUp>>

-----------------------------------------------------------------------------
(* wifi_scan().                                                            *)

\* The interface, the primitives, and the test for a scan in flight.
Begin(t) ==
    /\ At(t, "idle") /\ begun < MaxScans
    /\ session.n = None
    /\ Goto(t, "publish")
    /\ UNCHANGED <<call, session, timer, fin, outcome, heap, chip, inds, seen, givenUp>>

\* The allocations, one of which may fail, and the section that publishes.
Publish(t) ==
    /\ At(t, "publish") /\ begun < MaxScans
    /\ \/ Goto(t, "idle") /\ UNCHANGED <<call, session, heap>>
       \/ /\ begun' = begun + 1
          /\ mine' = [mine EXCEPT ![t] = begun + 1]
          /\ session' = [NoSession EXCEPT !.n = begun + 1]
          /\ heap' = heap \cup {begun + 1}
          /\ Goto(t, "time")
    /\ UNCHANGED <<timer, fin, outcome, chip, inds, seen, givenUp>>

\* The timer is never started.
StartTimerForgets(t) ==
    /\ At(t, "time")
    /\ Goto(t, "send")
    /\ UNCHANGED <<call, session, timer, fin, outcome, heap, chip, inds, seen, givenUp>>

StartTimer(t) ==
    /\ At(t, "time")
    /\ timer' = TRUE
    /\ Goto(t, "send")
    /\ UNCHANGED <<call, session, fin, outcome, heap, chip, inds, seen, givenUp>>

\* rw_msg_send_scan_req(): posted, or no memory or no room for it.
Send(t) ==
    /\ At(t, "send")
    /\ \/ /\ requests' = Append(requests, [kind |-> "scan", n |-> mine[t]])
          /\ Goto(t, "await") /\ UNCHANGED timer
       \/ Goto(t, "unsent") /\ timer' = FALSE /\ UNCHANGED requests
    /\ UNCHANGED <<call, session, fin, outcome, heap, lmac, inds, seen, givenUp>>

\* The handle is dropped; a result that is in the promise goes with it.
Drop(t) ==
    /\ mine' = [mine EXCEPT ![t] = None]
    /\ outcome' = [outcome EXCEPT ![mine[t]] = "none"]
    /\ Goto(t, "idle")

InPromise(t) == IF outcome[mine[t]] # "none" THEN {mine[t]} ELSE {}

\* The session is emptied, its result freed by nobody.
UnsentLeaks(t) ==
    /\ At(t, "unsent")
    /\ session' = [session EXCEPT !.n = None]
    /\ heap' = heap \ InPromise(t)
    /\ Drop(t)
    /\ UNCHANGED <<begun, timer, fin, chip, inds, seen, givenUp>>

\* The section that empties the session again and frees its result.
Unsent(t) ==
    /\ At(t, "unsent")
    /\ session' = [session EXCEPT !.n = None]
    /\ heap' = heap \ ({session.n} \cup InPromise(t))
    /\ Drop(t)
    /\ UNCHANGED <<begun, timer, fin, chip, inds, seen, givenUp>>

\* Promise::await(), which has no timeout; the result is the caller's to free.
Await(t) ==
    /\ At(t, "await") /\ outcome[mine[t]] # "none"
    /\ heap' = heap \ {mine[t]}
    /\ Drop(t)
    /\ UNCHANGED <<begun, session, timer, fin, chip, inds, seen, givenUp>>

\* The caller drops its handle without awaiting.
WalkAway(t) ==
    /\ At(t, "await")
    /\ heap' = heap \ InPromise(t)
    /\ Drop(t)
    /\ UNCHANGED <<begun, session, timer, fin, chip, inds, seen, givenUp>>

-----------------------------------------------------------------------------
(* The kmsg task.                                                          *)

\* scan_ind_add_handler() and scan_survey_add_handler(): an entry is added, or
\* updated, or lost to a failed allocation.
Indication ==
    /\ At("kmsg", "idle") /\ inds # <<>> /\ Head(inds).kind = "ind"
    /\ inds' = Tail(inds)
    /\ \E failed \in BOOLEAN :
          /\ session' = IF session.n = None THEN session
                        ELSE [session EXCEPT !.dropped = @ \/ failed]
          /\ found' = IF session.n = None \/ failed THEN found
                      ELSE [found EXCEPT ![session.n] = @ \cup {Head(inds).n}]
    /\ UNCHANGED <<pc, call, timer, fin, outcome, heap, chip, swept, givenUp>>

\* scan_finish_handler() of SCANU_START_CFM.
SweepDone ==
    /\ At("kmsg", "idle") /\ inds # <<>> /\ Head(inds).kind = "cfm"
    /\ inds' = Tail(inds)
    /\ Take("kmsg", "Ok")
    /\ UNCHANGED <<call, timer, outcome, heap, chip, seen, givenUp>>

-----------------------------------------------------------------------------
(* timer_expired().                                                        *)

\* The section that reads the session and marks it cancelled.
Expire ==
    /\ At("timer", "idle") /\ timer
    /\ timer' = FALSE
    /\ IF session.n = None THEN UNCHANGED <<pc, session>>
       ELSE /\ session' = [session EXCEPT !.cancelled = TRUE]
            /\ Goto("timer", IF session.cancelled THEN "giveup" ELSE "cancel")
    /\ UNCHANGED <<call, fin, outcome, heap, chip, inds, seen, givenUp>>

\* cancel_sweep() and a second period; a cancel that cannot be posted gives up.
Cancel ==
    /\ At("timer", "cancel")
    /\ \/ /\ requests' = Append(requests, [kind |-> "cancel", n |-> None])
          /\ timer' = TRUE /\ Goto("timer", "idle")
       \/ Goto("timer", "giveup") /\ UNCHANGED <<requests, timer>>
    /\ UNCHANGED <<call, session, fin, outcome, heap, lmac, inds, seen, givenUp>>

GiveUp ==
    /\ At("timer", "giveup")
    /\ Take("timer", "Timeout")
    /\ givenUp' = givenUp \cup ({session.n} \ {None})
    /\ UNCHANGED <<call, timer, outcome, heap, chip, inds, seen>>

-----------------------------------------------------------------------------
(* The LMAC, in the Wi-Fi core task: "later requests are saved instead of  *)
(* run" while it scans, and a cancel is read at the next channel.          *)

\* The core task runs below the kmsg task and the timer.
CoreRuns == \A a \in Finishers : Waits(a)

Deliver ==
    /\ CoreRuns /\ requests # <<>>
    /\ requests' = Tail(requests)
    /\ LET m == Head(requests)
       IN  lmac' = IF m.kind = "cancel" THEN [lmac EXCEPT !.stop = lmac.now # None]
                   ELSE IF lmac.now = None THEN [lmac EXCEPT !.now = m.n]
                   ELSE [lmac EXCEPT !.saved = Append(@, m.n)]
    /\ UNCHANGED <<pc, call, session, timer, fin, outcome, heap, inds, seen, givenUp>>

Beacon ==
    /\ CoreRuns /\ lmac.now # None
    /\ inds' = Append(inds, [kind |-> "ind", n |-> lmac.now])
    /\ UNCHANGED <<pc, call, session, timer, fin, outcome, heap, chip, seen, givenUp>>

SweepEnds ==
    /\ CoreRuns /\ lmac.now # None
    /\ inds' = Append(inds, [kind |-> "cfm", n |-> lmac.now])
    /\ swept' = IF lmac.stop THEN swept ELSE swept \cup {lmac.now}
    /\ lmac' = IF lmac.saved = <<>> THEN [now |-> None, saved |-> <<>>, stop |-> FALSE]
               ELSE [now |-> Head(lmac.saved), saved |-> Tail(lmac.saved), stop |-> FALSE]
    /\ UNCHANGED <<pc, call, session, timer, fin, outcome, heap, requests, found, givenUp>>

-----------------------------------------------------------------------------
ScanInit ==
    /\ pc = [a \in Actors |-> "idle"] /\ mine = [t \in Tasks |-> None] /\ begun = 0
    /\ session = NoSession /\ timer = FALSE
    /\ fin = [a \in Finishers |-> [n |-> None, status |-> "Ok"]]
    /\ outcome = [n \in Scans |-> "none"] /\ heap = {}
    /\ requests = <<>> /\ lmac = [now |-> None, saved |-> <<>>, stop |-> FALSE]
    /\ inds = <<>> /\ found = [n \in Scans |-> {}] /\ swept = {} /\ givenUp = {}

Continue(t) == Publish(t) \/ StartTimer(t) \/ Send(t) \/ Unsent(t) \/ Await(t)

Kmsg  == Indication \/ SweepDone \/ FinishStop("kmsg") \/ FinishResolve("kmsg")
Timer == Expire \/ Cancel \/ GiveUp \/ FinishStop("timer") \/ FinishResolve("timer")

ScanNext ==
    \/ \E t \in Tasks : Begin(t) \/ Continue(t) \/ WalkAway(t)
    \/ Kmsg \/ Timer \/ Deliver \/ Beacon \/ SweepEnds

ScanSpec == ScanInit /\ [][ScanNext]_scanVars

\* Ready tasks run and a running timer expires; the LMAC owes nothing, and its
\* beacons, which the kmsg task handles at once, leave the callers time.
FairScanSpec ==
    /\ ScanSpec
    /\ \A t \in Tasks : SF_scanVars(Continue(t))
    /\ WF_scanVars(Kmsg) /\ WF_scanVars(Timer)

-----------------------------------------------------------------------------
(* Correctness.                                                            *)

Owners(n) ==
    {a \in Finishers : fin[a].n = n}
        \cup (IF session.n = n THEN {"session"} ELSE {})
        \cup (IF outcome[n] # "none" /\ Holders(n) # {} THEN {"promise"} ELSE {})

\* "The result changes owner outright - from this frame to the session, and from
\* the session to the promise once the sweep ends": an allocated result has one
\* owner and an owner an allocated result, also when the request could not be
\* queued, the caller walked away, or the timer and the sweep's end met.
ResultOwned ==
    \A n \in Scans : Cardinality(Owners(n)) = IF n \in heap THEN 1 ELSE 0

\* A result that says Ok or Partial is that of a sweep the LMAC went through to
\* the end, and holds that sweep's beacons only - unless an earlier scan was
\* given up on, whose sweep may still be running: its end carries no number and
\* ends the next scan.
OkMeansSwept ==
    \A n \in Scans :
        outcome[n] \in {"Ok", "Partial"} /\ givenUp = {} => n \in swept /\ found[n] \subseteq {n}

\* Promise.h: "THE PRODUCER MUST RESOLVE, on every path": a caller that waits
\* gets its result though the LMAC never answers.
ScanReturns == \A t \in Tasks : pc[t] = "await" ~> pc[t] # "await"
=============================================================================
