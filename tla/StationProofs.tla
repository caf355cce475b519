--------------------------- MODULE StationProofs ---------------------------
(***************************************************************************)
(* Proofs about the association session, for every number of attempts,     *)
(* frames, indications and stops, every queue depth, every choice of       *)
(* priorities and any number of tasks that stop the station.  When one     *)
(* task starts it, a result has one owner, a caller that waits has         *)
(* somebody who resolves its promise, and a secured attempt is Associated  *)
(* only by the supplicant armed for it.  However many start it, an         *)
(* interface that is down and associated is one whose start was overtaken. *)
(***************************************************************************)
EXTENDS Station, SequenceTheorems, FiniteSetTheorems, TLAPS

\* One task starts and awaits; with two the session can be overwritten.  Any number
\* of others may stop the station.
OneCaller == \A t, u \in Tasks : t = u

Labels == {"idle", "arm", "publish", "time", "send", "unsend", "clear", "await", "request",
           "verdict", "dropped", "conn", "finish", "clean", "linkup", "resolve"}

\* The labels of a caller after it has published its session.
Published == {"time", "send", "unsend", "clear", "await"}

\* A finisher that has taken the session.
Holding == {"clean", "linkup", "resolve"}

SessionType ==
    /\ pc \in [Actors -> Labels]
    /\ mine \in [Tasks -> 0..MaxAttempts]
    /\ fin \in [Finishers -> [n : 0..MaxAttempts, status : Outcomes]]
    /\ begun \in 0..MaxAttempts /\ session \in 0..begun
    /\ heap \subseteq Attempts
    /\ outcome \in [Attempts -> Outcomes \cup {"none"}]

\* A finisher has an attempt from the section under the lock until it resolves.
Taken ==
    \A a \in Finishers :
        /\ fin[a].n <= begun
        /\ fin[a].n # None <=> pc[a] \in Holding

\* The result of attempt n belongs to the session, a finisher or a resolved promise.
Owned(n) == session = n \/ (\E a \in Finishers : fin[a].n = n) \/ outcome[n] # "none"

\* The three hold different attempts, and what they hold is what is allocated.
Exclusive ==
    /\ \A n \in Attempts : n \in heap <=> Owned(n)
    /\ \A n \in Attempts : outcome[n] # "none" => CallersOf(n) # {}
    /\ session # None => outcome[session] = "none"
    /\ \A a \in Finishers : fin[a].n # None => outcome[fin[a].n] = "none" /\ session # fin[a].n
    /\ \A a, b \in Finishers : fin[a].n # None /\ fin[a].n = fin[b].n => a = b

\* What a caller has at each of its steps.
Calls ==
    \A t \in Tasks :
        /\ mine[t] <= begun
        /\ pc[t] \in {"idle", "arm", "publish", "request"} \cup Published
        /\ pc[t] \in {"idle", "arm", "request"} => mine[t] = None
        /\ pc[t] \in {"arm", "publish"} => session = None
        /\ pc[t] = "publish" => mine[t] # None /\ ~Owned(mine[t])
        /\ pc[t] \in Published => mine[t] # None /\ session \in {None, mine[t]} /\ Owned(mine[t])

OwnerInv == SessionType /\ Taken /\ Exclusive /\ Calls

\* The flag s_secure is the one of the session that is published.
FlagTrue ==
    \A t \in Tasks :
        /\ t \in secure => mine[t] = begun /\ begun # 0
        /\ session # None /\ mine[t] = session => (secured <=> t \in secure)

\* The kmsg task ends a join without a handshake only if nothing secured is published.
KmsgOpen ==
    /\ pc["kmsg"] = "conn" => \A t \in Tasks : pc[t] # "publish"
    /\ fin["kmsg"].status = "Associated" /\ pc["kmsg"] = "finish" =>
          ~secured /\ \A t \in Tasks : pc[t] # "publish"
    /\ fin["kmsg"].status = "Associated" /\ fin["kmsg"].n # None =>
          \A t \in secure : mine[t] # fin["kmsg"].n
    /\ fin["timer"].status # "Associated"

\* The supplicant sees the arm of a secured attempt before anything else of it.
ArmFirst ==
    /\ queue \in Seq(Messages) /\ sup \in [active : BOOLEAN, pending : BOOLEAN, n : 0..MaxAttempts]
    /\ \A i \in 1..Len(queue) : queue[i].kind = "arm" => i = 1 /\ queue[i].n = begun /\ begun # 0
    /\ \A t \in secure :
          \/ pc["wpa2"] = "idle" /\ queue # <<>> /\ queue[1] = [kind |-> "arm", n |-> mine[t]]
          \/ sup.n \in {None, mine[t]}
    /\ sup.active => sup.n # None
    /\ pc["wpa2"] = "verdict" => sup.active
    /\ pc["wpa2"] \in {"finish"} \cup Holding /\ fin["wpa2"].status = "Associated" => sup.n # None

\* What the LMAC knows of the association; its attempt names the frames it passes on.
AirType == air \in [state : {"idle", "joining", "joined"}, n : 0..MaxAttempts, secure : BOOLEAN]

SecureInv == secure \subseteq Tasks /\ AirType /\ FlagTrue /\ KmsgOpen /\ ArmFirst

\* An interface that is down is not associated, and nobody is about to change that,
\* unless the last start was overtaken.
DownInv == ~up => overtaken \/ (air.state = "idle" /\ Preparing = {})

-----------------------------------------------------------------------------
(* The owners of a result.                                                 *)

\* At start-up nothing is allocated and nobody waits.
LEMMA OwnerInvInit == Init => OwnerInv
<1> SUFFICES ASSUME Init PROVE OwnerInv
  OBVIOUS
<1>1. SessionType
  <2>1. pc \in [Actors -> Labels] BY DEF Init, Labels
  <2>2. mine \in [Tasks -> 0..MaxAttempts] BY StationAssumption DEF Init, None
  <2>3. fin \in [Finishers -> [n : 0..MaxAttempts, status : Outcomes]]
    BY StationAssumption DEF Init, Done, None, Outcomes
  <2>4. outcome \in [Attempts -> Outcomes \cup {"none"}] BY DEF Init
  <2> QED BY <2>1, <2>2, <2>3, <2>4, StationAssumption DEF Init, SessionType, None
<1>2. Taken BY DEF Init, Taken, Done, None, Actors, Holding
<1>3. Exclusive BY DEF Init, Exclusive, Owned, Done, None, Attempts
<1>4. Calls BY DEF Init, Calls, None, Actors, Published
<1> QED BY <1>1, <1>2, <1>3, <1>4 DEF OwnerInv

\* Nothing of the session moves.
LEMMA OwnerSame ==
    ASSUME OwnerInv, UNCHANGED <<pc, mine, fin, begun, session, heap, outcome>>
    PROVE  OwnerInv'
BY DEF OwnerInv, SessionType, Taken, Exclusive, Calls, Owned, CallersOf

\* A finisher goes on without taking or giving up an attempt.
LEMMA FinisherMoves ==
    ASSUME OwnerInv, NEW a \in Finishers, NEW l \in Labels,
           pc' = [pc EXCEPT ![a] = l], UNCHANGED <<mine, begun, session, heap, outcome>>,
           \/ fin' = fin /\ (pc[a] \in Holding <=> l \in Holding)
           \/ /\ pc[a] \notin Holding /\ l \notin Holding
              /\ \E s \in Outcomes : fin' = [fin EXCEPT ![a] = [n |-> None, status |-> s]]
    PROVE  OwnerInv'
<1>0. SessionType /\ Taken /\ Exclusive /\ Calls BY DEF OwnerInv
<1>1. a \notin Tasks /\ a \in Actors BY StationAssumption DEF Actors
<1>2. /\ fin' \in [Finishers -> [n : 0..MaxAttempts, status : Outcomes]]
      /\ \A b \in Finishers : fin'[b].n = fin[b].n
  <2>1. CASE fin' = fin BY <1>0, <2>1 DEF SessionType
  <2>2. CASE /\ pc[a] \notin Holding
             /\ \E s \in Outcomes : fin' = [fin EXCEPT ![a] = [n |-> None, status |-> s]]
    <3>1. PICK s \in Outcomes : fin' = [fin EXCEPT ![a] = [n |-> None, status |-> s]] BY <2>2
    <3>2. fin[a].n = None BY <1>0, <2>2 DEF Taken
    <3>3. [n |-> None, status |-> s] \in [n : 0..MaxAttempts, status : Outcomes]
      BY StationAssumption DEF None
    <3> QED BY <1>0, <3>1, <3>2, <3>3 DEF SessionType
  <2> QED BY <2>1, <2>2
<1>3. /\ pc' \in [Actors -> Labels] /\ pc'[a] = l
      /\ \A b \in Actors \ {a} : pc'[b] = pc[b]
  BY <1>0, <1>1 DEF SessionType
<1>4. SessionType' BY <1>0, <1>2, <1>3 DEF SessionType
<1>5. Taken' BY <1>0, <1>2, <1>3 DEF Taken, Actors
<1>6. Exclusive' BY <1>0, <1>2 DEF Exclusive, Owned, CallersOf
<1>7. Calls'
  <2>1. \A t \in Tasks : pc'[t] = pc[t] BY <1>1, <1>3 DEF Actors
  <2> QED BY <1>0, <1>2, <2>1 DEF Calls, Owned
<1> QED BY <1>4, <1>5, <1>6, <1>7 DEF OwnerInv

\* The section under the lock: the attempt goes from the session to the finisher,
\* or the finisher finds the session empty.
LEMMA TakeMoves == ASSUME OwnerInv, NEW a \in Finishers, FinishTake(a) PROVE OwnerInv'
<1>0. SessionType /\ Taken /\ Exclusive /\ Calls BY DEF OwnerInv
<1>1. a \notin Tasks /\ a \in Actors BY StationAssumption DEF Actors
<1>2. pc[a] = "finish" /\ UNCHANGED <<mine, begun, heap, outcome>> /\ session' = None
  BY DEF FinishTake, At, call
<1>3. CASE session = None
  <2>1. pc' = [pc EXCEPT ![a] = "idle"] /\ fin' = [fin EXCEPT ![a] = Done]
    BY <1>3 DEF FinishTake, Goto
  <2>2. "NoReply" \in Outcomes /\ "idle" \in Labels /\ pc[a] \notin Holding /\ "idle" \notin Holding
    BY <1>2 DEF Outcomes, Labels, Holding
  <2>3. \E s \in Outcomes : fin' = [fin EXCEPT ![a] = [n |-> None, status |-> s]]
    BY <2>1, <2>2 DEF Done
  <2> QED BY <1>2, <1>3, <2>1, <2>2, <2>3, FinisherMoves
<1>4. CASE session # None
  <2>1. /\ pc' = [pc EXCEPT ![a] = "clean"]
        /\ fin' = [fin EXCEPT ![a] = [fin[a] EXCEPT !.n = session]]
    BY <1>4 DEF FinishTake, Goto
  <2>2. /\ session \in Attempts /\ session <= begun /\ session \in 0..MaxAttempts
        /\ fin[a] \in [n : 0..MaxAttempts, status : Outcomes]
    BY <1>0, <1>4, StationAssumption DEF SessionType, Attempts, None
  <2>3. [fin[a] EXCEPT !.n = session] \in [n : 0..MaxAttempts, status : Outcomes]
        /\ [fin[a] EXCEPT !.n = session].n = session
    BY <2>2
  <2>4. /\ fin' \in [Finishers -> [n : 0..MaxAttempts, status : Outcomes]] /\ fin'[a].n = session
        /\ \A b \in Finishers \ {a} : fin'[b] = fin[b]
    BY <1>0, <2>1, <2>3 DEF SessionType
  <2>5. /\ pc' \in [Actors -> Labels] /\ pc'[a] = "clean"
        /\ \A b \in Actors \ {a} : pc'[b] = pc[b]
    BY <1>0, <1>1, <2>1 DEF SessionType, Labels
  <2>6. fin[a].n = None BY <1>0, <1>2 DEF Taken, Holding
  <2>7. \A n \in Attempts : (\E b \in Finishers : fin'[b].n = n) <=> (session = n \/ \E b \in Finishers : fin[b].n = n)
    BY <2>4, <2>6 DEF Attempts, None
  <2>8. \A n \in Attempts : session' # n BY <1>2 DEF Attempts, None
  <2>9. SessionType' BY <1>0, <1>2, <2>4, <2>5 DEF SessionType, None
  <2>10. Taken'
    BY <1>0, <1>1, <1>2, <1>4, <2>2, <2>4, <2>5 DEF Taken, Holding, Actors
  <2>11. Exclusive'
    BY <1>0, <1>2, <1>4, <2>2, <2>4, <2>6, <2>7, <2>8 DEF Exclusive, Owned, CallersOf
  <2>12. Calls'
    <3>1. \A t \in Tasks : pc'[t] = pc[t] BY <1>1, <2>5 DEF Actors
    <3>2. \A t \in Tasks : mine[t] # None => mine[t] \in Attempts
      BY <1>0 DEF SessionType, Attempts, None
    <3> QED BY <1>0, <1>2, <2>7, <2>8, <3>1, <3>2 DEF Calls, Owned
  <2> QED BY <2>9, <2>10, <2>11, <2>12 DEF OwnerInv
<1> QED BY <1>3, <1>4

\* Promise::resolve(): the result is the promise's, or goes with it.
LEMMA ResolveMoves == ASSUME OwnerInv, NEW a \in Finishers, FinishResolve(a) PROVE OwnerInv'
<1>0. SessionType /\ Taken /\ Exclusive /\ Calls BY DEF OwnerInv
<1>1. a \notin Tasks /\ a \in Actors BY StationAssumption DEF Actors
<1>2. PICK n : n = fin[a].n OBVIOUS
<1>3. PICK st : st = fin[a].status OBVIOUS
<1>4. /\ pc[a] = "resolve" /\ UNCHANGED <<mine, begun, session>>
      /\ \/ CallersOf(n) = {} /\ heap' = heap \ {n} /\ UNCHANGED outcome
         \/ CallersOf(n) # {} /\ outcome' = [outcome EXCEPT ![n] = st] /\ UNCHANGED heap
      /\ fin' = [fin EXCEPT ![a] = Done] /\ pc' = [pc EXCEPT ![a] = "idle"]
  BY <1>2, <1>3 DEF FinishResolve, At, call, Goto
<1>5. n \in Attempts /\ n # None /\ st \in Outcomes
  BY <1>0, <1>2, <1>3, <1>4 DEF SessionType, Taken, Holding, Attempts, None
<1>6. /\ fin' \in [Finishers -> [n : 0..MaxAttempts, status : Outcomes]] /\ fin'[a].n = None
      /\ \A b \in Finishers \ {a} : fin'[b] = fin[b]
  <2>1. Done \in [n : 0..MaxAttempts, status : Outcomes] /\ Done.n = None
    BY StationAssumption DEF Done, None, Outcomes
  <2> QED BY <1>0, <1>4, <2>1 DEF SessionType
<1>7. /\ pc' \in [Actors -> Labels] /\ pc'[a] = "idle"
      /\ \A b \in Actors \ {a} : pc'[b] = pc[b]
  BY <1>0, <1>1, <1>4 DEF SessionType, Labels
<1>8. /\ \A m \in Attempts \ {n} : (\E b \in Finishers : fin'[b].n = m) <=> (\E b \in Finishers : fin[b].n = m)
      /\ \A b \in Finishers : fin'[b].n # n
  BY <1>0, <1>2, <1>5, <1>6 DEF Exclusive, Attempts, None
<1>9. /\ outcome' \in [Attempts -> Outcomes \cup {"none"}] /\ heap' \subseteq Attempts
      /\ \A m \in Attempts \ {n} : outcome'[m] = outcome[m] /\ (m \in heap' <=> m \in heap)
      /\ outcome[n] = "none" /\ session # n /\ n \in heap
      /\ CallersOf(n) = {} => n \notin heap' /\ outcome'[n] = "none"
      /\ CallersOf(n) # {} => n \in heap' /\ outcome'[n] # "none"
  <2>1. outcome[n] = "none" /\ session # n /\ n \in heap
    BY <1>0, <1>2, <1>5 DEF Exclusive, Owned
  <2>2. st # "none" BY <1>5 DEF Outcomes
  <2> QED BY <1>0, <1>4, <1>5, <2>1, <2>2 DEF SessionType
<1>10. SessionType' BY <1>0, <1>4, <1>6, <1>7, <1>9 DEF SessionType
<1>11. Taken' BY <1>0, <1>1, <1>4, <1>6, <1>7 DEF Taken, Holding, Actors, SessionType, None
<1>12. Exclusive'
  <2>1. \A m \in Attempts : (m \in heap <=> Owned(m))' BY <1>0, <1>4, <1>8, <1>9 DEF Exclusive, Owned
  <2>2. \A m \in Attempts : outcome'[m] # "none" => CallersOf(m)' # {}
    BY <1>0, <1>4, <1>9 DEF Exclusive, CallersOf
  <2>3. session # None => session \in Attempts \ {n} BY <1>0, <1>9, StationAssumption DEF SessionType, Attempts, None
  <2>4. \A b \in Finishers \ {a} : fin[b].n # None => fin[b].n \in Attempts \ {n}
    BY <1>0, <1>2, <1>5 DEF SessionType, Attempts, None, Exclusive
  <2> QED BY <1>0, <1>4, <1>6, <1>9, <2>1, <2>2, <2>3, <2>4 DEF Exclusive
<1>13. Calls'
  <2>1. \A t \in Tasks : pc'[t] = pc[t] BY <1>1, <1>7 DEF Actors
  <2>2. \A t \in Tasks : mine[t] # None => mine[t] \in Attempts
    BY <1>0 DEF SessionType, Attempts, None
  <2>3. \A t \in Tasks : mine[t] = n => CallersOf(n) # {} BY DEF CallersOf
  <2>4. \A t \in Tasks : mine[t] # None => (Owned(mine[t])' <=> Owned(mine[t]))
    <3>1. ASSUME NEW t \in Tasks, mine[t] # None, mine[t] # n PROVE Owned(mine[t])' <=> Owned(mine[t])
      BY <1>4, <1>8, <1>9, <2>2, <3>1 DEF Owned
    <3>2. ASSUME NEW t \in Tasks, mine[t] = n PROVE Owned(mine[t])' /\ Owned(mine[t])
      BY <1>2, <1>4, <1>9, <2>3, <3>2 DEF Owned
    <3> QED BY <3>1, <3>2
  <2> QED BY <1>0, <1>4, <2>1, <2>4 DEF Calls
<1> QED BY <1>10, <1>11, <1>12, <1>13 DEF OwnerInv
\* A caller goes on; its attempt, if it has one, stays where it is.
LEMMA CallerMoves ==
    ASSUME OwnerInv, NEW t \in Tasks, NEW l \in Labels,
           pc' = [pc EXCEPT ![t] = l], UNCHANGED <<fin, mine, begun, session, heap, outcome>>,
           \/ pc[t] \in Published /\ l \in Published
           \/ pc[t] \in {"idle", "arm", "request"} /\ l \in {"idle", "request"}
           \/ pc[t] = "idle" /\ l = "arm" /\ session = None
    PROVE  OwnerInv'
<1>0. SessionType /\ Taken /\ Exclusive /\ Calls BY DEF OwnerInv
<1>1. t \notin Finishers /\ t \in Actors BY StationAssumption DEF Actors
<1>2. /\ pc' \in [Actors -> Labels] /\ pc'[t] = l
      /\ \A b \in Actors \ {t} : pc'[b] = pc[b]
  BY <1>0, <1>1 DEF SessionType
<1>3. SessionType' BY <1>0, <1>2 DEF SessionType
<1>4. Taken' BY <1>0, <1>1, <1>2 DEF Taken, Actors
<1>5. Exclusive' BY <1>0 DEF Exclusive, Owned, CallersOf
<1>6. Calls'
  <2>1. \A u \in Tasks \ {t} : pc'[u] = pc[u] BY <1>2 DEF Actors
  <2> QED BY <1>0, <1>2, <2>1 DEF Calls, Owned, Published
<1> QED BY <1>3, <1>4, <1>5, <1>6 DEF OwnerInv

\* wpa2_sta_arm() or the disarm of an open join: an attempt nobody has seen begins.
LEMMA ArmMoves == ASSUME OneCaller, OwnerInv, NEW t \in Tasks, Arm(t) PROVE OwnerInv'
<1>0. SessionType /\ Taken /\ Exclusive /\ Calls BY DEF OwnerInv
<1>1. t \notin Finishers /\ t \in Actors BY StationAssumption DEF Actors
<1>2. /\ pc[t] = "arm" /\ begun < MaxAttempts /\ begun' = begun + 1
      /\ mine' = [mine EXCEPT ![t] = begun + 1] /\ pc' = [pc EXCEPT ![t] = "publish"]
      /\ UNCHANGED <<fin, session, heap, outcome>>
  BY DEF Arm, At, Goto
<1>3. begun \in Nat /\ begun + 1 \in Attempts /\ begun + 1 \in 0..MaxAttempts
  BY <1>0, <1>2, StationAssumption DEF SessionType, Attempts
<1>4. /\ mine' \in [Tasks -> 0..MaxAttempts] /\ mine'[t] = begun + 1
      /\ \A u \in Tasks : u = t
      /\ mine[t] = None
  BY <1>0, <1>2, <1>3 DEF SessionType, Calls, OneCaller
<1>5. /\ pc' \in [Actors -> Labels] /\ pc'[t] = "publish"
      /\ \A b \in Actors \ {t} : pc'[b] = pc[b]
  BY <1>0, <1>1, <1>2 DEF SessionType, Labels
<1>6. /\ session # begun + 1 /\ \A a \in Finishers : fin[a].n # begun + 1
      /\ outcome[begun + 1] = "none"
  <2>1. session <= begun /\ \A a \in Finishers : fin[a].n <= begun /\ fin[a].n \in Nat
    BY <1>0, <1>3, StationAssumption DEF SessionType, Taken
  <2>2. CallersOf(begun + 1) = {} BY <1>3, <1>4 DEF CallersOf, None
  <2> QED BY <1>0, <1>3, <2>1, <2>2 DEF Exclusive, SessionType
<1>7. \A n \in Attempts : outcome[n] = "none" BY <1>0, <1>4 DEF Exclusive, CallersOf, Attempts, None
<1>8. SessionType' BY <1>0, <1>2, <1>3, <1>4, <1>5 DEF SessionType
<1>9. Taken'
  <2>1. \A a \in Finishers : pc'[a] = pc[a] BY <1>1, <1>5 DEF Actors
  <2>2. \A a \in Finishers : fin[a].n \in Nat BY <1>0, StationAssumption DEF SessionType
  <2> QED BY <1>0, <1>2, <1>3, <2>1, <2>2 DEF Taken
<1>10. Exclusive' BY <1>0, <1>2, <1>7 DEF Exclusive, Owned
<1>11. Calls' BY <1>0, <1>2, <1>3, <1>4, <1>5, <1>6 DEF Calls, Owned, Published, None
<1> QED BY <1>8, <1>9, <1>10, <1>11 DEF OwnerInv

\* The section that publishes: the result goes from the caller's frame to the session.
LEMMA PublishMoves ==
    ASSUME OneCaller, OwnerInv, NEW t \in Tasks, Publish(t),
           session' = mine[t], heap' = heap \cup {mine[t]},
           pc' = [pc EXCEPT ![t] = "time"], UNCHANGED <<mine, outcome>>
    PROVE  OwnerInv'
<1>0. SessionType /\ Taken /\ Exclusive /\ Calls BY DEF OwnerInv
<1>1. t \notin Finishers /\ t \in Actors BY StationAssumption DEF Actors
<1>2. pc[t] = "publish" /\ UNCHANGED <<fin, begun>> BY DEF Publish, At
<1>3. PICK n : n = mine[t] OBVIOUS
<1>4. /\ n \in Attempts /\ n \in 0..begun /\ n # None /\ session = None
      /\ \A a \in Finishers : fin[a].n # n
      /\ outcome[n] = "none" /\ \A u \in Tasks : u = t
  BY <1>0, <1>2, <1>3, StationAssumption DEF SessionType, Attempts, None, Calls, Owned, OneCaller
<1>5. /\ pc' \in [Actors -> Labels] /\ pc'[t] = "time"
      /\ \A b \in Actors \ {t} : pc'[b] = pc[b]
  BY <1>0, <1>1 DEF SessionType, Labels
<1>6. SessionType' BY <1>0, <1>2, <1>3, <1>4, <1>5 DEF SessionType
<1>7. Taken' BY <1>0, <1>1, <1>2, <1>5 DEF Taken, Actors
<1>8. Exclusive' BY <1>0, <1>2, <1>3, <1>4 DEF Exclusive, Owned, CallersOf, Attempts, None
<1>9. Calls' BY <1>0, <1>2, <1>3, <1>4, <1>5 DEF Calls, Owned, Published
<1> QED BY <1>6, <1>7, <1>8, <1>9 DEF OwnerInv

\* The caller's handle goes, with the result if the promise had it, and with the
\* session if the caller empties that.
LEMMA HandleGoes ==
    ASSUME OneCaller, OwnerInv, NEW t \in Tasks, mine[t] # None, Nothing(t), UNCHANGED <<fin, begun>>,
           session' \in {session, None}, heap' \subseteq heap,
           \A n \in heap : n \in heap' <=> /\ ~(n = session /\ session' # session)
                                           /\ ~(n = mine[t] /\ outcome[n] # "none")
    PROVE  OwnerInv'
<1>0. SessionType /\ Taken /\ Exclusive /\ Calls BY DEF OwnerInv
<1>1. t \notin Finishers /\ t \in Actors BY StationAssumption DEF Actors
<1>2. PICK n : n = mine[t] OBVIOUS
<1>3. /\ n \in Attempts /\ n # None /\ \A u \in Tasks : u = t
      /\ pc' = [pc EXCEPT ![t] = "idle"] /\ mine' = [mine EXCEPT ![t] = None]
      /\ outcome' = [outcome EXCEPT ![n] = "none"]
  BY <1>0, <1>2 DEF SessionType, Attempts, None, Nothing, Goto, OneCaller
<1>4. /\ pc' \in [Actors -> Labels] /\ pc'[t] = "idle"
      /\ \A b \in Actors \ {t} : pc'[b] = pc[b]
  BY <1>0, <1>1, <1>3 DEF SessionType, Labels
<1>5. mine' \in [Tasks -> 0..MaxAttempts] /\ mine'[t] = None
  BY <1>0, <1>3, StationAssumption DEF SessionType, None
<1>6. /\ outcome' \in [Attempts -> Outcomes \cup {"none"}] /\ outcome'[n] = "none"
      /\ \A m \in Attempts \ {n} : outcome'[m] = outcome[m] /\ outcome[m] = "none"
  <2>1. \A m \in Attempts \ {n} : outcome[m] = "none" BY <1>0, <1>2, <1>3 DEF Exclusive, CallersOf
  <2> QED BY <1>0, <1>3, <2>1 DEF SessionType
<1>7. SessionType' BY <1>0, <1>4, <1>5, <1>6 DEF SessionType, None
<1>8. Taken' BY <1>0, <1>1, <1>4 DEF Taken, Actors
<1>9. Exclusive'
  <2>1. \A m \in Attempts : outcome'[m] = "none" BY <1>6
  <2>2. \A m \in Attempts : (m \in heap <=> Owned(m))'
    <3>1. ASSUME NEW m \in Attempts PROVE (m \in heap <=> Owned(m))'
      <4>1. m \in heap <=> (session = m \/ (\E a \in Finishers : fin[a].n = m) \/ outcome[m] # "none")
        BY <1>0 DEF Exclusive, Owned
      <4>2. outcome[m] # "none" => m = n /\ session # m /\ \A a \in Finishers : fin[a].n # m
        BY <1>0, <1>6 DEF Exclusive, Attempts, None
      <4>3. session = m => \A a \in Finishers : fin[a].n # m BY <1>0 DEF Exclusive, Attempts, None
      <4>4. m # None /\ outcome'[m] = "none" BY <2>1 DEF Attempts, None
      <4> QED BY <1>2, <4>1, <4>2, <4>3, <4>4 DEF Owned
    <3> QED BY <3>1
  <2>3. session' # None => session' \in Attempts BY <1>7, StationAssumption DEF SessionType, Attempts, None
  <2>4. \A a \in Finishers : fin[a].n # None => fin[a].n \in Attempts
    BY <1>0 DEF SessionType, Attempts, None
  <2> QED BY <1>0, <2>1, <2>2, <2>3, <2>4 DEF Exclusive
<1>10. Calls' BY <1>3, <1>4, <1>5, <1>7 DEF Calls, Published, None, SessionType
<1> QED BY <1>7, <1>8, <1>9, <1>10 DEF OwnerInv
\* A caller's step keeps the owners apart.
LEMMA CallerOwner ==
    ASSUME OneCaller, OwnerInv, NEW t \in Tasks, Continue(t) \/ WalkAway(t) \/ Stop(t) \/ Start(t)
    PROVE  OwnerInv'
<1>0. SessionType /\ Taken /\ Exclusive /\ Calls BY DEF OwnerInv
<1>1. \A x \in {"idle", "arm", "publish", "request"} \cup Published : x \in Labels
  BY DEF Labels, Published
<1>2. CASE Arm(t) BY <1>2, ArmMoves
<1>3. CASE ArmRefused(t)
  BY <1>1, <1>3, CallerMoves DEF ArmRefused, At, Goto, call
<1>4. CASE Publish(t)
  <2>1. mine[t] # None /\ session = None /\ \A n \in heap : n # mine[t]
    BY <1>0, <1>4 DEF Publish, At, Calls, Exclusive, SessionType
  <2>2. CASE Nothing(t) /\ UNCHANGED <<session, heap>>
    BY <1>4, <2>1, <2>2, HandleGoes DEF Publish
  <2>3. CASE /\ session' = mine[t] /\ heap' = heap \cup {mine[t]} /\ UNCHANGED <<mine, outcome>>
             /\ pc' = [pc EXCEPT ![t] = "time"]
    BY <1>4, <2>3, PublishMoves
  <2> QED BY <1>4, <2>2, <2>3 DEF Publish, Goto
<1>5. CASE StartTimer(t) \/ Send(t) \/ Unsend(t)
  <2>1. pc[t] \in Published /\ \E l \in Published : pc' = [pc EXCEPT ![t] = l]
    <3>1. CASE StartTimer(t) BY <3>1 DEF StartTimer, At, Goto, Published
    <3>2. CASE Send(t) BY <3>2, Zenon DEF Send, At, Goto, Published
    <3>3. CASE Unsend(t) BY <3>3 DEF Unsend, At, Goto, Published
    <3> QED BY <1>5, <3>1, <3>2, <3>3
  <2>2. UNCHANGED <<fin, mine, begun, session, heap, outcome>>
    BY <1>5 DEF StartTimer, Send, Unsend, call
  <2> QED BY <1>1, <2>1, <2>2, CallerMoves
<1>6. CASE Clear(t)
  <2>1. mine[t] # None /\ session' = None /\ Nothing(t) /\ UNCHANGED <<fin, begun>>
    BY <1>0, <1>6 DEF Clear, At, Calls, Published
  <2>2. heap' = heap \ ({session} \cup (IF outcome[mine[t]] # "none" THEN {mine[t]} ELSE {}))
    BY <1>6 DEF Clear
  <2>3. \A n \in heap : n # None BY <1>0 DEF SessionType, Attempts, None
  <2>4. \A n \in heap : n \in heap' <=> /\ ~(n = session /\ session' # session)
                                        /\ ~(n = mine[t] /\ outcome[n] # "none")
    BY <2>1, <2>2, <2>3
  <2> QED BY <2>1, <2>2, <2>4, HandleGoes
<1>7. CASE Await(t) \/ WalkAway(t)
  <2>1. mine[t] # None /\ session' = session /\ Nothing(t) /\ UNCHANGED <<fin, begun>>
    BY <1>0, <1>7 DEF Await, WalkAway, At, Calls, Published
  <2>2. heap' = IF outcome[mine[t]] # "none" THEN heap \ {mine[t]} ELSE heap
    BY <1>7 DEF Await, WalkAway
  <2> QED BY <2>1, <2>2, HandleGoes
<1>8. CASE LeaveDone(t)
  <2>1. /\ pc[t] = "request" /\ pc' = [pc EXCEPT ![t] = "idle"]
        /\ UNCHANGED <<fin, mine, begun, session, heap, outcome>>
    BY <1>8, StationAssumption DEF LeaveDone, At, Goto, call, Finishers
  <2> QED BY <1>1, <2>1, CallerMoves
<1>9. CASE Stop(t)
  BY <1>1, <1>9, CallerMoves DEF Stop, At, Leave, Goto
<1>10. CASE Start(t)
  <2>1. CASE UNCHANGED pc BY <1>10, <2>1, OwnerSame DEF Start, call
  <2>2. CASE session = None /\ Goto(t, "arm")
    BY <1>1, <1>10, <2>2, CallerMoves DEF Start, At, Goto, call
  <2> QED BY <1>10, <2>1, <2>2 DEF Start
<1> QED BY <1>2, <1>3, <1>4, <1>5, <1>6, <1>7, <1>8, <1>9, <1>10 DEF Continue

\* A worker that stops the station touches no session.
LEMMA StopperMoves ==
    ASSUME SessionType, NEW w \in Stoppers, Stop(w) \/ LeaveDone(w)
    PROVE  /\ w \in Actors /\ w \notin Tasks /\ w \notin Finishers
           /\ \E l \in {"idle", "request"} : pc' = [pc EXCEPT ![w] = l]
           /\ UNCHANGED <<fin, mine, begun, secure, session, secured, heap, outcome>>
<1>1. w \in Actors /\ w \notin Tasks /\ w \notin Finishers /\ w # "wpa2"
  BY StationAssumption DEF Actors, Finishers
<1>2. CASE Stop(w) BY <1>1, <1>2 DEF Stop, Leave, Goto
<1>3. CASE LeaveDone(w) BY <1>1, <1>3 DEF LeaveDone, Goto
<1> QED BY <1>1, <1>2, <1>3

\* So it keeps the owners apart.
LEMMA StopperOwner ==
    ASSUME OwnerInv, NEW w \in Stoppers, Stop(w) \/ LeaveDone(w)
    PROVE  OwnerInv'
<1>0. SessionType /\ Taken /\ Exclusive /\ Calls BY DEF OwnerInv
<1>1. /\ w \in Actors /\ w \notin Tasks /\ w \notin Finishers
      /\ \E l \in {"idle", "request"} : pc' = [pc EXCEPT ![w] = l]
      /\ UNCHANGED <<fin, mine, begun, session, heap, outcome>>
  BY <1>0, StopperMoves
<1>2. /\ pc' \in [Actors -> Labels]
      /\ \A a \in Tasks \cup Finishers : pc'[a] = pc[a]
  BY <1>0, <1>1 DEF SessionType, Labels, Actors
<1>3. SessionType' BY <1>0, <1>1, <1>2 DEF SessionType
<1>4. Taken' BY <1>0, <1>1, <1>2 DEF Taken
<1>5. Exclusive' BY <1>0, <1>1 DEF Exclusive, Owned, CallersOf
<1>6. Calls' BY <1>0, <1>1, <1>2 DEF Calls, Owned
<1> QED BY <1>3, <1>4, <1>5, <1>6 DEF OwnerInv

\* session_finish() keeps the owners apart, whoever runs it.
LEMMA FinishOwner == ASSUME OwnerInv, NEW a \in Finishers, FinishStep(a) PROVE OwnerInv'
<1>1. CASE FinishTake(a) BY <1>1, TakeMoves
<1>2. CASE FinishClean(a) \/ FinishLink(a)
  <2>1. /\ pc[a] \in Holding /\ \E l \in Holding : pc' = [pc EXCEPT ![a] = l]
        /\ UNCHANGED <<fin, mine, begun, session, heap, outcome>>
    BY <1>2 DEF FinishClean, FinishLink, At, Goto, call, Holding
  <2>2. Holding \subseteq Labels BY DEF Holding, Labels
  <2> QED BY <2>1, <2>2, FinisherMoves
<1>3. CASE FinishResolve(a) BY <1>3, ResolveMoves
<1> QED BY <1>1, <1>2, <1>3 DEF FinishStep

\* A finisher on its way to session_finish() has no attempt yet.
LEMMA WorkerOwner ==
    ASSUME OwnerInv,
           \/ ConnectInd \/ ConnectDecide \/ DisconnectInd \/ Dropped \/ Expire
           \/ Handle \/ Verdict \/ LeaveDone("wpa2")
    PROVE  OwnerInv'
<1> DEFINE Way == {"idle", "conn", "dropped", "verdict", "request", "finish"}
           Walks(a) ==
             /\ pc[a] \in Way /\ \E l \in Way : pc' = [pc EXCEPT ![a] = l]
             /\ \/ fin' = fin
                \/ \E s \in Outcomes : fin' = [fin EXCEPT ![a] = [n |-> None, status |-> s]]
<1>0. SessionType BY DEF OwnerInv
<1>1. UNCHANGED <<mine, begun, session, heap, outcome>>
  BY DEF ConnectInd, ConnectDecide, DisconnectInd, Dropped, Expire, Handle, Verdict, LeaveDone, call
<1>2. CASE ConnectInd \/ ConnectDecide \/ DisconnectInd \/ Dropped
  <2>1. Walks("kmsg") \/ UNCHANGED <<pc, fin>>
    <3>1. CASE ConnectInd BY <3>1 DEF ConnectInd, At, Goto
    <3>2. CASE ConnectDecide BY <3>2 DEF ConnectDecide, At, Goto, Finish, Outcomes
    <3>3. CASE DisconnectInd \/ Dropped BY <3>3 DEF DisconnectInd, Dropped, At, Goto, Finish, Outcomes
    <3> QED BY <1>2, <3>1, <3>2, <3>3
  <2> QED BY <1>1, <2>1, FinisherMoves, OwnerSame DEF Labels, Holding, Finishers
<1>3. CASE Expire
  <2>1. Walks("timer") \/ UNCHANGED <<pc, fin>> BY <1>3 DEF Expire, At, Goto, Finish, Outcomes
  <2> QED BY <1>1, <2>1, FinisherMoves, OwnerSame DEF Labels, Holding, Finishers
<1>4. CASE Handle \/ Verdict \/ LeaveDone("wpa2")
  <2>1. Walks("wpa2") \/ UNCHANGED <<pc, fin>>
    <3>1. CASE Handle BY <3>1 DEF Handle, At, Goto, Fail, Leave
    <3>2. CASE Verdict BY <3>2 DEF Verdict, At, Goto, Finish, Outcomes
    <3>3. CASE LeaveDone("wpa2") BY <3>3 DEF LeaveDone, At, Goto, Finish, Outcomes
    <3> QED BY <1>4, <3>1, <3>2, <3>3
  <2> QED BY <1>1, <2>1, FinisherMoves, OwnerSame DEF Labels, Holding, Finishers
<1> QED BY <1>2, <1>3, <1>4

\* Every step keeps the owners apart.
LEMMA OwnerInvStep == ASSUME OneCaller, OwnerInv, [Next]_vars PROVE OwnerInv'
<1>1. CASE \E t \in Tasks : Continue(t) \/ WalkAway(t) \/ Stop(t) \/ Start(t) BY <1>1, CallerOwner
<1>2. CASE \E a \in Finishers : FinishStep(a) BY <1>2, FinishOwner
<1>3. CASE \/ ConnectInd \/ ConnectDecide \/ DisconnectInd \/ Dropped \/ Expire
           \/ Handle \/ Verdict \/ LeaveDone("wpa2")
  BY <1>3, WorkerOwner
<1>4. CASE Lmac BY <1>4, OwnerSame DEF Lmac, JoinEnds, LinkEnds, Replay, Eapol, call
<1>5. CASE UNCHANGED vars BY <1>5, OwnerSame DEF vars, call
<1>6. {"kmsg", "timer", "wpa2"} \subseteq Finishers BY DEF Finishers
<1>7. CASE \E w \in Stoppers : Stop(w) \/ LeaveDone(w) BY <1>7, StopperOwner
<1> QED BY <1>1, <1>2, <1>3, <1>4, <1>5, <1>6, <1>7 DEF Next, Kmsg, Timer, Wpa2

\* The invariant holds in every state.
LEMMA OwnerInvHolds == ASSUME OneCaller PROVE Spec => []OwnerInv
<1>1. OwnerInv /\ [Next]_vars => OwnerInv' BY OwnerInvStep
<1> QED BY <1>1, OwnerInvInit, PTL DEF Spec

\* "The result changes owner outright": with one task that starts the station, the
\* result of each attempt is allocated just as long as one of the session, a
\* finisher and the resolved promise owns it, so it is freed once, and is not
\* leaked by a refused request, a late indication or a caller that walks away.
THEOREM ResultHasOneOwner == ASSUME OneCaller PROVE Spec => []OneOwner
<1>1. OwnerInv => OneOwner
  <2> SUFFICES ASSUME OwnerInv, NEW n \in Attempts
               PROVE  Cardinality(Owners(n)) = IF n \in heap THEN 1 ELSE 0
    BY DEF OneOwner
  <2>0. SessionType /\ Exclusive BY DEF OwnerInv
  <2>1. n # None BY DEF Attempts, None
  <2>2. n \notin heap => Owners(n) = {} BY <2>0 DEF Exclusive, Owned, Owners
  <2>3. n \in heap => \E x : Owners(n) = {x}
    <3>1. CASE session = n
      <4>1. outcome[n] = "none" /\ \A a \in Finishers : fin[a].n # n
        BY <2>0, <2>1, <3>1 DEF Exclusive
      <4>2. Owners(n) = {"session"} BY <3>1, <4>1 DEF Owners
      <4> QED BY <4>2
    <3>2. ASSUME NEW a \in Finishers, fin[a].n = n PROVE \E x : Owners(n) = {x}
      <4>1. outcome[n] = "none" /\ session # n /\ \A b \in Finishers : fin[b].n = n => b = a
        BY <2>0, <2>1, <3>2 DEF Exclusive
      <4>2. Owners(n) = {a} BY <3>2, <4>1 DEF Owners
      <4> QED BY <4>2
    <3>3. CASE outcome[n] # "none"
      <4>1. CallersOf(n) # {} /\ session # n /\ \A a \in Finishers : fin[a].n # n
        BY <2>0, <2>1, <3>3 DEF Exclusive
      <4>2. Owners(n) = {"promise"} BY <3>3, <4>1 DEF Owners
      <4> QED BY <4>2
    <3> QED BY <2>0, <3>1, <3>2, <3>3 DEF Exclusive, Owned
  <2>4. Cardinality({}) = 0 /\ \A x : Cardinality({x}) = 1 BY FS_EmptySet, FS_Singleton
  <2> QED BY <2>2, <2>3, <2>4
<1> QED BY <1>1, OwnerInvHolds, PTL

\* "THE PRODUCER MUST RESOLVE, on every path": with one task that starts the station,
\* a caller in await() is never left with a promise nobody can resolve.
THEOREM AwaitIsAnswered == ASSUME OneCaller PROVE Spec => []SomeoneResolves
<1>1. OwnerInv => SomeoneResolves BY DEF OwnerInv, Calls, Published, Owned, SomeoneResolves
<1> QED BY <1>1, OwnerInvHolds, PTL
-----------------------------------------------------------------------------
(* An interface that is down.                                              *)

\* Every task is at one of the labels.
LabelType == pc \in [Actors -> Labels]

\* No step leaves the labels.
LEMMA LabelTypeStep == ASSUME LabelType, [Next]_vars PROVE LabelType'
<1>1. ASSUME NEW a, NEW l \in Labels, pc' = [pc EXCEPT ![a] = l] PROVE LabelType'
  BY <1>1 DEF LabelType
<1>2. CASE pc' = pc BY <1>2 DEF LabelType
<1>3. ASSUME NEW t \in Tasks, Continue(t) \/ WalkAway(t) \/ Start(t) PROVE LabelType'
  <2>1. CASE Arm(t) \/ ArmRefused(t) \/ Publish(t) \/ StartTimer(t)
    BY <1>1, <2>1 DEF Arm, ArmRefused, Publish, StartTimer, Nothing, Goto, Labels
  <2>2. CASE Send(t) \/ Unsend(t) \/ Clear(t) \/ Await(t) \/ WalkAway(t)
    BY <1>1, <2>2 DEF Send, Unsend, Clear, Await, WalkAway, Nothing, Goto, Labels
  <2>3. CASE Start(t) BY <1>1, <1>2, <2>3 DEF Start, Goto, Labels
  <2>4. CASE LeaveDone(t) BY <1>1, <2>4 DEF LeaveDone, Finish, Goto, Labels
  <2> QED BY <1>3, <2>1, <2>2, <2>3, <2>4 DEF Continue
<1>4. ASSUME NEW a, Stop(a) \/ LeaveDone(a) PROVE LabelType'
  BY <1>1, <1>4 DEF Stop, Leave, LeaveDone, Finish, Goto, Labels
<1>5. ASSUME NEW a, FinishStep(a) PROVE LabelType'
  BY <1>1, <1>5 DEF FinishStep, FinishTake, FinishClean, FinishLink, FinishResolve, Goto, Labels
<1>6. CASE ConnectInd \/ ConnectDecide \/ DisconnectInd \/ Dropped
  BY <1>1, <1>2, <1>6 DEF ConnectInd, ConnectDecide, DisconnectInd, Dropped, Finish, Goto, Labels
<1>7. CASE Expire \/ Verdict BY <1>1, <1>2, <1>7 DEF Expire, Verdict, Finish, Goto, Labels
<1>8. CASE Handle BY <1>1, <1>2, <1>8 DEF Handle, Fail, Leave, Goto, Labels
<1>9. CASE Lmac BY <1>2, <1>9 DEF Lmac, JoinEnds, LinkEnds, Replay, Eapol
<1>10. CASE UNCHANGED vars BY <1>2, <1>10 DEF vars
<1> QED BY <1>3, <1>4, <1>5, <1>6, <1>7, <1>8, <1>9, <1>10 DEF Next, Kmsg, Timer, Wpa2

\* While the interface is down nobody prepares to join, and the one that put it
\* down has left the BSS first, unless it overtook a start.
LEMMA DownInvStep == ASSUME LabelType, DownInv, [Next]_vars PROVE DownInv'
<1>0. /\ pc \in [Actors -> Labels]
      /\ \A t \in Tasks : t \in Actors /\ t \notin Finishers /\ t # "wpa2"
      /\ \A w \in Stoppers : w \in Actors /\ w \notin Tasks /\ w # "wpa2"
      /\ \A a \in Finishers : a \in Actors /\ a \notin Tasks
  BY StationAssumption DEF LabelType, Actors, Finishers
<1>1. ASSUME NEW a \in Actors, LeaveDone(a) PROVE DownInv'
  <2>1. PICK ok \in BOOLEAN :
          /\ Disconnect(ok)
          /\ up' = (up /\ ~(ok /\ a # "wpa2"))
          /\ overtaken' = (overtaken \/ (ok /\ a # "wpa2" /\ Preparing # {}))
    BY <1>1, Zenon DEF LeaveDone
  <2>2. \E l \in {"idle", "finish"} : pc' = [pc EXCEPT ![a] = l]
    BY <1>1 DEF LeaveDone, Finish, Goto
  <2>3. \A t \in Preparing' : t \in Preparing
    BY <1>0, <2>2 DEF Preparing
  <2>4. air'.state = "idle" \/ air' = air BY <2>1 DEF Disconnect, Away, chip
  <2>5. CASE ok /\ a # "wpa2"
    <3>1. air'.state = "idle" BY <2>1, <2>5 DEF Disconnect, Away
    <3>2. CASE Preparing = {} BY <2>3, <3>1, <3>2 DEF DownInv
    <3>3. CASE Preparing # {} BY <2>1, <2>5, <3>3 DEF DownInv
    <3> QED BY <3>2, <3>3
  <2>6. CASE ~(ok /\ a # "wpa2")
    <3>1. (up' <=> up) /\ (overtaken' <=> overtaken) BY <2>1, <2>6, Zenon
    <3> QED BY <2>3, <2>4, <3>1 DEF DownInv
  <2> QED BY <2>5, <2>6
<1>2. ASSUME NEW t \in Tasks, Continue(t) \/ WalkAway(t) \/ Stop(t) \/ Start(t) PROVE DownInv'
  <2>1. CASE Start(t) BY <2>1 DEF Start, DownInv
  <2>2. CASE Stop(t) BY <2>2 DEF Stop, DownInv
  <2>3. CASE LeaveDone(t) BY <1>0, <1>1, <2>3
  <2>4. CASE Arm(t) \/ Publish(t) \/ StartTimer(t) \/ Send(t)
    <3>1. t \in Preparing BY <2>4 DEF Arm, Publish, StartTimer, Send, At, Preparing
    <3>2. up' = up /\ overtaken' = overtaken
      BY <2>4 DEF Arm, Publish, StartTimer, Send, flags, call, past
    <3> QED BY <3>1, <3>2 DEF DownInv
  <2>5. CASE ArmRefused(t) \/ Unsend(t) \/ Clear(t) \/ Await(t) \/ WalkAway(t)
    <3>1. UNCHANGED <<up, overtaken, air>>
      BY <2>5 DEF ArmRefused, Unsend, Clear, Await, WalkAway, flags, call, past, chip
    <3>2. \E l \in {"idle", "clear"} : pc' = [pc EXCEPT ![t] = l]
      BY <2>5 DEF ArmRefused, Unsend, Clear, Await, WalkAway, Nothing, Goto
    <3>3. \A u \in Preparing' : u \in Preparing BY <1>0, <3>2 DEF Preparing
    <3> QED BY <3>1, <3>3 DEF DownInv
  <2> QED BY <1>2, <2>1, <2>2, <2>3, <2>4, <2>5 DEF Continue
<1>3. ASSUME NEW w \in Stoppers, Stop(w) \/ LeaveDone(w) PROVE DownInv'
  <2>1. CASE Stop(w) BY <2>1 DEF Stop, DownInv
  <2> QED BY <1>0, <1>1, <1>3, <2>1
<1>4. ASSUME NEW a \in Finishers, UNCHANGED <<up, overtaken, air>>,
             pc' = pc \/ \E l : pc' = [pc EXCEPT ![a] = l]
      PROVE  DownInv'
  <2>1. Preparing' = Preparing BY <1>0, <1>4 DEF Preparing
  <2> QED BY <1>4, <2>1 DEF DownInv
<1>5. CASE ConnectInd \/ ConnectDecide \/ DisconnectInd \/ Dropped \/ FinishStep("kmsg")
  <2>1. UNCHANGED <<up, overtaken, air>>
    BY <1>5 DEF ConnectInd, ConnectDecide, DisconnectInd, Dropped, FinishStep, FinishTake, FinishClean,
                FinishLink, FinishResolve, flags, chip, call, past
  <2>2. pc' = pc \/ \E l : pc' = [pc EXCEPT !["kmsg"] = l]
    BY <1>5, Zenon DEF ConnectInd, ConnectDecide, DisconnectInd, Dropped, FinishStep, FinishTake, FinishClean,
                FinishLink, FinishResolve, Goto, Finish
  <2> QED BY <1>4, <2>1, <2>2 DEF Finishers
<1>6. CASE Expire \/ FinishStep("timer")
  <2>1. UNCHANGED <<up, overtaken, air>>
    BY <1>6 DEF Expire, FinishStep, FinishTake, FinishClean, FinishLink, FinishResolve, flags, chip, call, past
  <2>2. pc' = pc \/ \E l : pc' = [pc EXCEPT !["timer"] = l]
    BY <1>6, Zenon DEF Expire, FinishStep, FinishTake, FinishClean, FinishLink, FinishResolve, Goto, Finish
  <2> QED BY <1>4, <2>1, <2>2 DEF Finishers
<1>7. CASE Handle \/ Verdict \/ FinishStep("wpa2")
  <2>1. UNCHANGED <<up, overtaken, air>>
    BY <1>7 DEF Handle, Verdict, FinishStep, FinishTake, FinishClean, FinishLink, FinishResolve, flags, chip, call, past
  <2>2. pc' = pc \/ \E l : pc' = [pc EXCEPT !["wpa2"] = l]
    BY <1>7, Zenon DEF Handle, Verdict, FinishStep, FinishTake, FinishClean, FinishLink, FinishResolve,
                Goto, Finish, Fail, Leave
  <2> QED BY <1>4, <2>1, <2>2 DEF Finishers
<1>8. CASE LeaveDone("wpa2") BY <1>0, <1>1, <1>8 DEF Finishers
<1>9. CASE Lmac
  <2>1. UNCHANGED <<pc, up, overtaken>> /\ (air.state # "idle" \/ air' = air)
    BY <1>9 DEF Lmac, JoinEnds, LinkEnds, Replay, Eapol, flags, chip, call, past
  <2> QED BY <2>1 DEF DownInv, Preparing
<1>10. CASE UNCHANGED vars BY <1>10 DEF vars, DownInv, Preparing, flags, chip, call, past
<1> QED BY <1>2, <1>3, <1>5, <1>6, <1>7, <1>8, <1>9, <1>10 DEF Next, Kmsg, Timer, Wpa2

\* wifi_sta_stop() "Leaves the BSS ... and marks the interface down": with any
\* number of tasks that start and stop the station at any moment, an interface that
\* is down and associated is one whose start was overtaken; no stop marks it down
\* while the LMAC holds the request back, refuses it or is still associated.
THEOREM DownIsGone == Spec => []DownMeansGone
<1>1. Init => LabelType /\ DownInv BY DEF Init, LabelType, DownInv, Away, Actors, Preparing, Labels
<1>2. LabelType /\ DownInv /\ [Next]_vars => (LabelType /\ DownInv)' BY LabelTypeStep, DownInvStep
<1>3. DownInv => DownMeansGone BY DEF DownInv, DownMeansGone
<1> QED BY <1>1, <1>2, <1>3, PTL DEF Spec
-----------------------------------------------------------------------------
(* A secured attempt.                                                      *)

\* A step that posts to the supplicant posts no arm message.
Posts == queue' = queue \/ \E m \in Messages : m.kind # "arm" /\ queue' = Posted(m)

\* post() adds at the end, or drops the message at a full queue: what is first
\* stays first, and no arm message is added.
LEMMA PostFacts ==
    ASSUME queue \in Seq(Messages), Posts
    PROVE  /\ queue' \in Seq(Messages)
           /\ \A i \in 1..Len(queue') :
                 queue'[i].kind = "arm" => i \in 1..Len(queue) /\ queue'[i] = queue[i]
           /\ queue # <<>> => queue' # <<>> /\ queue'[1] = queue[1]
<1>1. CASE queue' = queue BY <1>1
<1>2. ASSUME NEW m \in Messages, m.kind # "arm", queue' = Append(queue, m)
      PROVE  /\ queue' \in Seq(Messages)
             /\ \A i \in 1..Len(queue') :
                   queue'[i].kind = "arm" => i \in 1..Len(queue) /\ queue'[i] = queue[i]
             /\ queue # <<>> => queue' # <<>> /\ queue'[1] = queue[1]
  <2>1. /\ queue' \in Seq(Messages) /\ Len(queue') = Len(queue) + 1 /\ queue' # <<>>
        /\ \A i \in 1..Len(queue) : queue'[i] = queue[i]
        /\ queue'[Len(queue) + 1] = m
    BY <1>2, AppendProperties
  <2>2. Len(queue) \in Nat /\ (queue # <<>> => 1 \in 1..Len(queue)) OBVIOUS
  <2>3. \A i \in 1..(Len(queue) + 1) : i \in 1..Len(queue) \/ i = Len(queue) + 1 BY <2>2
  <2> QED BY <1>2, <2>1, <2>2, <2>3
<1> QED BY <1>1, <1>2 DEF Posts, Posted

\* The messages other than arm.
LEMMA PlainMessages ==
    /\ Disarm \in Messages /\ Disarm.kind # "arm"
    /\ [kind |-> "abort", n |-> None] \in Messages
BY StationAssumption DEF Disarm, Messages, None

\* The LMAC without an association.
LEMMA AwayType == Away \in [state : {"idle", "joining", "joined"}, n : 0..MaxAttempts, secure : BOOLEAN]
BY StationAssumption DEF Away, None

\* The arm message stays first while the supplicant does nothing.
LEMMA ArmFirstSame ==
    ASSUME ArmFirst, Posts, UNCHANGED <<sup, begun>>, secure' \subseteq secure,
           \A t \in secure' : mine'[t] = mine[t],
           pc'["wpa2"] = pc["wpa2"], fin'["wpa2"] = fin["wpa2"]
    PROVE  ArmFirst'
<1>1. /\ queue' \in Seq(Messages)
      /\ \A i \in 1..Len(queue') :
            queue'[i].kind = "arm" => i \in 1..Len(queue) /\ queue'[i] = queue[i]
      /\ queue # <<>> => queue' # <<>> /\ queue'[1] = queue[1]
  BY PostFacts DEF ArmFirst
<1>2. \A i \in 1..Len(queue') : queue'[i].kind = "arm" => i = 1 /\ queue'[i].n = begun /\ begun # 0
  BY <1>1 DEF ArmFirst
<1>3. \A t \in secure' :
          \/ pc["wpa2"] = "idle" /\ queue' # <<>> /\ queue'[1] = [kind |-> "arm", n |-> mine'[t]]
          \/ sup.n \in {None, mine'[t]}
  BY <1>1 DEF ArmFirst
<1> QED BY <1>1, <1>2, <1>3 DEF ArmFirst

\* The supplicant goes on with the verdict on the attempt it is armed for.
LEMMA ArmFirstWorks ==
    ASSUME ArmFirst, Posts, UNCHANGED <<begun, secure, mine>>, pc["wpa2"] # "idle",
           sup' \in [active : BOOLEAN, pending : BOOLEAN, n : 0..MaxAttempts],
           sup'.n = sup.n, sup'.active = sup.active, pc'["wpa2"] # "verdict",
           pc'["wpa2"] \in {"finish"} \cup Holding /\ fin'["wpa2"].status = "Associated" => sup.n # None
    PROVE  ArmFirst'
<1>1. /\ queue' \in Seq(Messages)
      /\ \A i \in 1..Len(queue') :
            queue'[i].kind = "arm" => i \in 1..Len(queue) /\ queue'[i] = queue[i]
  BY PostFacts DEF ArmFirst
<1>2. \A i \in 1..Len(queue') : queue'[i].kind = "arm" => i = 1 /\ queue'[i].n = begun /\ begun # 0
  BY <1>1 DEF ArmFirst
<1>3. \A t \in secure : sup.n \in {None, mine[t]} BY DEF ArmFirst
<1> QED BY <1>1, <1>2, <1>3 DEF ArmFirst

\* A step that changes none of the flags; it may empty the session.
LEMMA FlagSame ==
    ASSUME FlagTrue, UNCHANGED <<mine, begun, secure, secured>>, session' \in {session, None}
    PROVE  FlagTrue'
BY DEF FlagTrue

\* A step of another than kmsg and timer, in which no caller comes to publish.
LEMMA KmsgSame ==
    ASSUME KmsgOpen, pc'["kmsg"] = pc["kmsg"], fin'["kmsg"] = fin["kmsg"],
           fin'["timer"].status # "Associated",
           secured' = secured \/ \E t \in Tasks : pc[t] = "publish",
           secure' \subseteq secure, \A t \in secure' : mine'[t] = mine[t],
           \A t \in Tasks : pc'[t] = "publish" => pc[t] = "publish"
    PROVE  KmsgOpen'
BY DEF KmsgOpen

\* At start-up nothing is secured and nothing is queued.
LEMMA SecureInvInit == Init => SecureInv
<1> SUFFICES ASSUME Init PROVE SecureInv
  OBVIOUS
<1>1. AirType BY StationAssumption DEF Init, AirType, Away, None
<1>2. FlagTrue BY DEF Init, FlagTrue, None
<1>3. KmsgOpen BY DEF Init, KmsgOpen, Actors, Finishers, Done, None
<1>4. ArmFirst
  <2>1. queue = <<>> /\ queue \in Seq(Messages) /\ Len(queue) = 0 BY DEF Init
  <2>2. sup \in [active : BOOLEAN, pending : BOOLEAN, n : 0..MaxAttempts] /\ ~sup.active
    BY StationAssumption DEF Init, Idle, None
  <2>3. pc["wpa2"] = "idle" /\ secure = {} BY DEF Init, Actors, Finishers
  <2> QED BY <2>1, <2>2, <2>3 DEF ArmFirst, Holding
<1> QED BY <1>1, <1>2, <1>3, <1>4 DEF SecureInv, Init

\* wpa2_sta_arm() comes after the sweep of the channels: the supplicant is idle and
\* its queue is empty, so the arm message is the first it sees.
LEMMA ArmSecure ==
    ASSUME OneCaller, Direct = {}, OwnerInv, SecureInv, NEW t \in Tasks, Arm(t)
    PROVE  SecureInv'
<1>0. SessionType /\ Taken /\ Calls /\ FlagTrue /\ KmsgOpen /\ ArmFirst /\ AirType /\ secure \subseteq Tasks
  BY DEF OwnerInv, SecureInv
<1>1. /\ pc[t] = "arm" /\ begun < MaxAttempts /\ begun' = begun + 1 /\ sup' = sup
      /\ mine' = [mine EXCEPT ![t] = begun + 1] /\ pc' = [pc EXCEPT ![t] = "publish"]
      /\ UNCHANGED <<fin, session, secured, air>>
      /\ queue = <<>> /\ \A a \in Finishers : pc[a] = "idle"
  BY DEF Arm, At, Goto, Settled, Post, flags, chip
<1>2. /\ session = None /\ mine[t] = None /\ t \notin secure /\ \A u \in Tasks : u = t
      /\ secure = {} /\ t \in Actors /\ t \notin Finishers
  BY <1>0, <1>1, StationAssumption DEF Calls, FlagTrue, None, OneCaller, Actors
<1>3. begun \in Nat /\ begun + 1 \in 1..MaxAttempts /\ mine'[t] = begun + 1
  BY <1>0, <1>1, StationAssumption DEF SessionType
<1>4. \A a \in Finishers : pc'[a] = "idle" /\ fin[a].n = None
  BY <1>0, <1>1, <1>2 DEF SessionType, Taken, Holding, Actors
<1>5. secure' \subseteq {t} BY <1>2 DEF Arm
<1>6. FlagTrue' BY <1>1, <1>2, <1>3, <1>5 DEF FlagTrue
<1>7. KmsgOpen'
  <2>1. pc'["kmsg"] = "idle" /\ fin["kmsg"].n = None BY <1>4 DEF Finishers
  <2> QED BY <1>0, <1>1, <2>1 DEF KmsgOpen
<1>8. ArmFirst'
  <2>0. pc'["wpa2"] = "idle" BY <1>4 DEF Finishers
  <2>1. CASE /\ secure' = secure \cup {t}
             /\ queue' = Append(queue, [kind |-> "arm", n |-> begun + 1])
    <3>1. PICK m : m = [kind |-> "arm", n |-> begun + 1] OBVIOUS
    <3>2. m \in Messages /\ m.n = begun + 1 BY <1>3, <3>1 DEF Messages
    <3>3. queue' = <<m>> BY <1>1, <2>1, <3>1
    <3>4. queue' \in Seq(Messages) /\ Len(queue') = 1 /\ queue'[1] = m /\ queue' # <<>> BY <3>2, <3>3
    <3>5. \A i \in 1..Len(queue') : i = 1 /\ queue'[i].n = begun + 1 BY <3>2, <3>4
    <3> QED BY <1>0, <1>1, <1>2, <1>3, <2>0, <2>1, <3>1, <3>4, <3>5 DEF ArmFirst, Holding
  <2>2. CASE secure' = secure /\ queue' \in {queue, Posted(Disarm)}
    <3>1. Posts BY <2>2, PlainMessages DEF Posts
    <3>2. /\ queue' \in Seq(Messages)
          /\ \A i \in 1..Len(queue') : queue'[i].kind = "arm" => i \in 1..Len(queue)
      BY <1>0, <3>1, PostFacts DEF ArmFirst
    <3>3. \A i \in 1..Len(queue') : queue'[i].kind # "arm" BY <1>1, <3>2
    <3> QED BY <1>0, <1>1, <1>2, <2>0, <2>2, <3>2, <3>3 DEF ArmFirst, Holding
  <2> QED BY <2>1, <2>2 DEF Arm, Post
<1>9. secure' \subseteq Tasks /\ AirType' BY <1>0, <1>1, <1>5 DEF AirType
<1> QED BY <1>6, <1>7, <1>8, <1>9 DEF SecureInv
\* The other steps of a caller: they publish with the flag of their own attempt.
LEMMA CallerSecure ==
    ASSUME OneCaller, Direct = {}, OwnerInv, SecureInv,
           NEW t \in Tasks, Continue(t) \/ WalkAway(t) \/ Stop(t) \/ Start(t)
    PROVE  SecureInv'
<1>0. SessionType /\ Taken /\ Calls /\ FlagTrue /\ KmsgOpen /\ ArmFirst /\ AirType /\ secure \subseteq Tasks
  BY DEF OwnerInv, SecureInv
<1>1. t \in Actors /\ t \notin Finishers /\ \A u \in Tasks : u = t
  BY StationAssumption DEF Actors, OneCaller
<1>2. CASE Arm(t) BY <1>2, ArmSecure
<1>3. ASSUME ~Arm(t) PROVE SecureInv'
  <2>1. begun' = begun /\ fin' = fin
    BY <1>1, <1>3 DEF Continue, ArmRefused, Publish, StartTimer, Send, Unsend, Clear, Await, WalkAway,
                      LeaveDone, Stop, Start, call, Finishers
  <2>2. pc' = pc \/ \E l : l # "publish" /\ pc' = [pc EXCEPT ![t] = l]
    <3>1. CASE ArmRefused(t) \/ Publish(t) \/ StartTimer(t)
      BY <3>1, Zenon DEF ArmRefused, Publish, StartTimer, Nothing, Goto
    <3>2. CASE Send(t) BY <3>2, Zenon DEF Send, Goto
    <3>3. CASE Unsend(t) \/ Clear(t) \/ Await(t) \/ WalkAway(t)
      BY <3>3, Zenon DEF Unsend, Clear, Await, WalkAway, Nothing, Goto
    <3>4. CASE LeaveDone(t) BY <1>1, <3>4 DEF LeaveDone, Goto, Finishers
    <3>5. CASE Stop(t) \/ Start(t) BY <3>5, Zenon DEF Stop, Start, Leave, Goto
    <3> QED BY <1>3, <3>1, <3>2, <3>3, <3>4, <3>5 DEF Continue
  <2>3. /\ \A a \in Finishers : pc'[a] = pc[a]
        /\ \A u \in Tasks : pc'[u] = "publish" => pc[u] = "publish"
    BY <1>0, <1>1, <2>2 DEF SessionType, Actors
  <2>4. /\ secure' \subseteq secure /\ (t \in secure' => mine'[t] = mine[t])
        /\ UNCHANGED <<mine, secure>> \/ (mine'[t] = None /\ t \notin secure')
    <3>1. CASE Nothing(t) BY <1>0, <3>1 DEF Nothing, SessionType
    <3>2. CASE UNCHANGED <<mine, secure>> BY <3>2
    <3> QED BY <1>3, <3>1, <3>2 DEF Continue, ArmRefused, Publish, StartTimer, Send, Unsend, Clear, Await,
                      WalkAway, LeaveDone, Stop, Start, call
  <2>5. sup' = sup /\ Posts
    <3>1. CASE Start(t) \/ Stop(t) \/ ArmRefused(t) \/ StartTimer(t) \/ Send(t) \/ Clear(t) \/ Await(t) \/ WalkAway(t)
      BY <3>1 DEF Start, Stop, ArmRefused, StartTimer, Send, Clear, Await, WalkAway, wpa2, Posts
    <3>2. CASE Publish(t) BY <3>2, PlainMessages DEF Publish, Post, wpa2, Posts
    <3>3. CASE Unsend(t) BY <3>3, PlainMessages DEF Unsend, Post, wpa2, Posts
    <3>4. CASE LeaveDone(t) BY <3>4, PlainMessages DEF LeaveDone, Post, wpa2, Posts
    <3> QED BY <1>3, <3>1, <3>2, <3>3, <3>4 DEF Continue
  <2>6. AirType'
    <3>1. CASE Send(t)
      <4>1. CASE Accept(mine[t], t \in secure)
        <5>1. mine[t] \in 0..MaxAttempts /\ (t \in secure) \in BOOLEAN BY <1>0 DEF SessionType
        <5> QED BY <4>1, <5>1 DEF Accept, AirType
      <4>2. CASE UNCHANGED chip BY <1>0, <4>2 DEF chip, AirType
      <4> QED BY <3>1, <4>1, <4>2 DEF Send
    <3>2. CASE LeaveDone(t)
      <4>1. air' = Away \/ air' = air BY <3>2 DEF LeaveDone, Disconnect, chip
      <4> QED BY <1>0, <4>1, AwayType DEF AirType
    <3>3. CASE ~Send(t) /\ ~LeaveDone(t)
      <4>1. air' = air
        BY <1>3, <3>3 DEF Continue, ArmRefused, Publish, StartTimer, Unsend, Clear, Await, WalkAway,
                          Stop, Start, chip
      <4> QED BY <1>0, <4>1 DEF AirType
    <3> QED BY <3>1, <3>2, <3>3
  <2>7. /\ \/ session' = mine[t] /\ (secured' <=> t \in secure) /\ pc[t] = "publish" /\ UNCHANGED <<mine, secure>>
           \/ session' \in {session, None} /\ secured' = secured
    BY <1>3 DEF Continue, ArmRefused, Publish, StartTimer, Send, Unsend, Clear, Await, WalkAway,
                LeaveDone, Stop, Start, flags, At
  <2>8. FlagTrue'
    <3>1. \A u \in Tasks : u \in secure' => mine'[u] = begun' /\ begun' # 0
      BY <1>0, <1>1, <2>1, <2>4 DEF FlagTrue
    <3>2. session' # None /\ mine'[t] = session' => (secured' <=> t \in secure')
      BY <1>0, <2>4, <2>7 DEF FlagTrue
    <3> QED BY <1>1, <3>1, <3>2 DEF FlagTrue
  <2>9. KmsgOpen'
    <3>1. fin'["timer"].status # "Associated" BY <1>0, <2>1 DEF KmsgOpen
    <3>2. pc'["kmsg"] = pc["kmsg"] BY <2>3 DEF Finishers
    <3>3. \A u \in secure' : mine'[u] = mine[u] BY <1>0, <1>1, <2>4
    <3>4. secured' = secured \/ \E u \in Tasks : pc[u] = "publish" BY <2>7
    <3> QED BY <1>0, <2>1, <2>3, <2>4, <3>1, <3>2, <3>3, <3>4, KmsgSame
  <2>10. ArmFirst'
    <3>1. pc'["wpa2"] = pc["wpa2"] BY <2>3 DEF Finishers
    <3>2. \A u \in secure' : mine'[u] = mine[u] BY <1>0, <1>1, <2>4
    <3> QED BY <1>0, <2>1, <2>4, <2>5, <3>1, <3>2, ArmFirstSame
  <2>11. secure' \subseteq Tasks BY <1>0, <2>4
  <2> QED BY <2>6, <2>8, <2>9, <2>10, <2>11 DEF SecureInv
<1> QED BY <1>2, <1>3

\* A worker that stops the station only disarms.
LEMMA StopperSecure ==
    ASSUME OwnerInv, SecureInv, NEW w \in Stoppers, Stop(w) \/ LeaveDone(w)
    PROVE  SecureInv'
<1>0. SessionType /\ FlagTrue /\ KmsgOpen /\ ArmFirst /\ AirType /\ secure \subseteq Tasks
  BY DEF OwnerInv, SecureInv
<1>1. /\ w \in Actors /\ w \notin Tasks /\ w \notin Finishers
      /\ \E l \in {"idle", "request"} : pc' = [pc EXCEPT ![w] = l]
      /\ UNCHANGED <<fin, mine, begun, secure, session, secured>>
  BY <1>0, StopperMoves
<1>2. \A a \in Tasks \cup Finishers : pc'[a] = pc[a] BY <1>0, <1>1 DEF SessionType, Actors
<1>3. pc'["kmsg"] = pc["kmsg"] /\ pc'["wpa2"] = pc["wpa2"] BY <1>2 DEF Finishers
<1>4. sup' = sup /\ Posts /\ (air' = air \/ air' = Away)
  <2>1. CASE Stop(w) BY <2>1 DEF Stop, wpa2, chip, Posts
  <2>2. CASE LeaveDone(w)
    <3>1. sup' = sup /\ Posts BY <2>2, PlainMessages DEF LeaveDone, Post, wpa2, Posts
    <3>2. air' = air \/ air' = Away BY <2>2 DEF LeaveDone, Disconnect, chip
    <3> QED BY <3>1, <3>2
  <2> QED BY <2>1, <2>2
<1>5. FlagTrue' BY <1>0, <1>1 DEF FlagTrue
<1>6. KmsgOpen' BY <1>0, <1>1, <1>2, <1>3 DEF KmsgOpen
<1>7. ArmFirst' BY <1>0, <1>1, <1>3, <1>4, ArmFirstSame
<1>8. AirType' BY <1>0, <1>4, AwayType DEF AirType
<1> QED BY <1>0, <1>1, <1>5, <1>6, <1>7, <1>8 DEF SecureInv

\* What session_finish() leaves alone, whoever runs it.
LEMMA FinishLeaves ==
    ASSUME OwnerInv, NEW a \in Finishers, FinishStep(a)
    PROVE  /\ UNCHANGED <<mine, begun, secure, secured, air, sup, queue>> /\ session' \in {session, None}
           /\ \A b \in Actors \ {a} : pc'[b] = pc[b]
           /\ \A b \in Finishers \ {a} : fin'[b] = fin[b]
           /\ pc[a] \in {"finish"} \cup Holding
           /\ pc'[a] \in {"idle"} \cup Holding
           /\ fin'[a].status \in {fin[a].status, "NoReply"}
           /\ \/ pc[a] \in Holding /\ fin'[a] = fin[a]
              \/ pc[a] = "finish" /\ fin'[a].n = session
              \/ fin'[a].n = None
<1>0. SessionType /\ a \in Actors BY DEF OwnerInv, Actors
<1>1. CASE FinishTake(a)
  <2>1. /\ UNCHANGED <<mine, begun, secure, secured, air, sup, queue>> /\ session' = None
        /\ pc[a] = "finish" /\ \E l \in {"idle", "clean"} : pc' = [pc EXCEPT ![a] = l]
    BY <1>1 DEF FinishTake, At, Goto, call, flags, chip, wpa2
  <2>2. CASE session = None
    <3>1. fin' = [fin EXCEPT ![a] = Done] BY <1>1, <2>2 DEF FinishTake
    <3> QED BY <1>0, <2>1, <3>1 DEF SessionType, Done, Holding
  <2>3. CASE session # None
    <3>1. fin' = [fin EXCEPT ![a] = [fin[a] EXCEPT !.n = session]] BY <1>1, <2>3 DEF FinishTake
    <3>2. [fin[a] EXCEPT !.n = session].n = session /\ [fin[a] EXCEPT !.n = session].status = fin[a].status
      BY <1>0 DEF SessionType
    <3> QED BY <1>0, <2>1, <3>1, <3>2 DEF SessionType, Holding
  <2> QED BY <2>2, <2>3
<1>2. CASE FinishClean(a) \/ FinishLink(a)
  <2>1. /\ UNCHANGED <<mine, begun, secure, secured, air, sup, queue, session, fin>>
        /\ pc[a] \in Holding /\ \E l \in Holding : pc' = [pc EXCEPT ![a] = l]
    BY <1>2 DEF FinishClean, FinishLink, At, Goto, call, chip, wpa2, Holding
  <2> QED BY <1>0, <2>1 DEF SessionType
<1>3. CASE FinishResolve(a)
  <2>1. /\ UNCHANGED <<mine, begun, secure, secured, air, sup, queue, session>>
        /\ pc[a] \in Holding /\ pc' = [pc EXCEPT ![a] = "idle"] /\ fin' = [fin EXCEPT ![a] = Done]
    BY <1>3 DEF FinishResolve, At, Goto, call, flags, chip, wpa2, Holding
  <2> QED BY <1>0, <2>1 DEF SessionType, Done
<1> QED BY <1>1, <1>2, <1>3 DEF FinishStep

\* The kmsg task decides by s_secure, and takes what the flag belongs to.
LEMMA KmsgSecure ==
    ASSUME OwnerInv, SecureInv, Kmsg
    PROVE  SecureInv'
<1>0. SessionType /\ Taken /\ Calls /\ FlagTrue /\ KmsgOpen /\ ArmFirst /\ AirType /\ secure \subseteq Tasks
  BY DEF OwnerInv, SecureInv
<1>1. "kmsg" \in Finishers /\ "timer" \in Finishers /\ "wpa2" \in Finishers /\ Finishers \subseteq Actors
      /\ \A t \in Tasks : t \in Actors \ {"kmsg"}
  BY StationAssumption DEF Finishers, Actors
<1>2. /\ UNCHANGED <<mine, begun, secure, secured, air, sup>> /\ session' \in {session, None} /\ Posts
      /\ \A b \in Actors \ {"kmsg"} : pc'[b] = pc[b]
      /\ \A b \in Finishers \ {"kmsg"} : fin'[b] = fin[b]
  <2>1. CASE FinishStep("kmsg") BY <1>1, <2>1, FinishLeaves DEF Posts
  <2>2. CASE ConnectInd \/ ConnectDecide \/ DisconnectInd \/ Dropped
    <3>1. UNCHANGED <<mine, begun, secure, secured, air, session>>
      BY <2>2 DEF ConnectInd, ConnectDecide, DisconnectInd, Dropped, call, flags, chip
    <3>2. sup' = sup /\ Posts
      BY <2>2, PlainMessages DEF ConnectInd, ConnectDecide, DisconnectInd, Dropped, wpa2, Post, Posts
    <3>3. /\ pc' = pc \/ \E l : pc' = [pc EXCEPT !["kmsg"] = l]
          /\ fin' = fin \/ \E r : fin' = [fin EXCEPT !["kmsg"] = r]
      BY <2>2, Zenon DEF ConnectInd, ConnectDecide, DisconnectInd, Dropped, Goto, Finish
    <3> QED BY <1>0, <3>1, <3>2, <3>3 DEF SessionType
  <2> QED BY <2>1, <2>2 DEF Kmsg
<1>3. FlagTrue' BY <1>0, <1>2, FlagSame
<1>4. ArmFirst'
  <2>1. pc'["wpa2"] = pc["wpa2"] /\ fin'["wpa2"] = fin["wpa2"] BY <1>1, <1>2 DEF Finishers
  <2> QED BY <1>0, <1>2, <2>1, ArmFirstSame
<1>5. AirType' BY <1>0, <1>2 DEF AirType
<1>6. KmsgOpen'
  <2>0. fin'["timer"].status # "Associated" /\ \A t \in Tasks : pc'[t] = pc[t]
    BY <1>0, <1>1, <1>2 DEF KmsgOpen
  <2>1. CASE FinishStep("kmsg")
    <3>1. /\ pc["kmsg"] \in {"finish"} \cup Holding /\ pc'["kmsg"] \in {"idle"} \cup Holding
          /\ fin'["kmsg"].status \in {fin["kmsg"].status, "NoReply"}
          /\ \/ pc["kmsg"] \in Holding /\ fin'["kmsg"] = fin["kmsg"]
             \/ pc["kmsg"] = "finish" /\ fin'["kmsg"].n = session
             \/ fin'["kmsg"].n = None
      BY <1>1, <2>1, FinishLeaves
    <3>2. ASSUME fin'["kmsg"].status = "Associated", fin'["kmsg"].n # None, NEW t \in secure
          PROVE  mine[t] # fin'["kmsg"].n
      <4>1. fin["kmsg"].status = "Associated" BY <3>1, <3>2
      <4>2. CASE pc["kmsg"] \in Holding /\ fin'["kmsg"] = fin["kmsg"]
        BY <1>0, <3>2, <4>1, <4>2 DEF KmsgOpen
      <4>3. CASE pc["kmsg"] = "finish" /\ fin'["kmsg"].n = session
        BY <1>0, <3>2, <4>1, <4>3 DEF KmsgOpen, FlagTrue
      <4> QED BY <3>1, <3>2, <4>2, <4>3
    <3> QED BY <1>2, <2>0, <3>1, <3>2 DEF KmsgOpen, Holding
  <2>2. CASE ConnectInd
    <3>1. fin' = fin /\ pc["kmsg"] = "idle" /\ fin["kmsg"].n = None
      BY <1>0, <1>1, <2>2 DEF ConnectInd, At, Taken, Holding
    <3>2. pc'["kmsg"] # "finish" /\ (pc'["kmsg"] = "conn" => session # None)
      BY <1>0, <1>1, <2>2, <3>1 DEF ConnectInd, Goto, SessionType
    <3>3. pc'["kmsg"] = "conn" => \A t \in Tasks : pc[t] # "publish" BY <1>0, <3>2 DEF Calls
    <3> QED BY <2>0, <3>1, <3>2, <3>3 DEF KmsgOpen
  <2>3. CASE ConnectDecide
    <3>1. /\ pc["kmsg"] = "conn" /\ fin["kmsg"].n = None /\ \A t \in Tasks : pc[t] # "publish"
      BY <1>0, <1>1, <2>3 DEF ConnectDecide, At, Taken, Holding, KmsgOpen
    <3>2. CASE Head(inds).ok /\ secured
      <4>1. pc' = [pc EXCEPT !["kmsg"] = "idle"] /\ fin' = fin BY <2>3, <3>2 DEF ConnectDecide, Goto
      <4>2. pc'["kmsg"] = "idle" BY <1>0, <1>1, <4>1 DEF SessionType
      <4> QED BY <2>0, <3>1, <4>1, <4>2 DEF KmsgOpen
    <3>3. CASE ~(Head(inds).ok /\ secured)
      <4>1. /\ pc' = [pc EXCEPT !["kmsg"] = "finish"]
            /\ fin' = [fin EXCEPT !["kmsg"] =
                          [n |-> None, status |-> IF Head(inds).ok THEN "Associated" ELSE "Refused"]]
        BY <2>3, <3>3 DEF ConnectDecide, Finish, Goto
      <4>2. /\ pc'["kmsg"] = "finish" /\ fin'["kmsg"].n = None
            /\ fin'["kmsg"].status = IF Head(inds).ok THEN "Associated" ELSE "Refused"
        BY <1>0, <1>1, <4>1 DEF SessionType
      <4>3. fin'["kmsg"].status = "Associated" => ~secured BY <3>3, <4>2
      <4> QED BY <1>2, <2>0, <3>1, <4>2, <4>3 DEF KmsgOpen
    <3> QED BY <3>2, <3>3
  <2>4. CASE DisconnectInd \/ Dropped
    <3>1. fin["kmsg"].n = None BY <1>0, <1>1, <2>4 DEF DisconnectInd, Dropped, At, Taken, Holding
    <3>2. \/ /\ \E l \in {"dropped", "idle"} : pc' = [pc EXCEPT !["kmsg"] = l]
             /\ fin' = fin
          \/ /\ fin' = [fin EXCEPT !["kmsg"] = [n |-> None, status |-> "AuthFailed"]]
             /\ pc' = [pc EXCEPT !["kmsg"] = "finish"]
      BY <2>4 DEF DisconnectInd, Dropped, Finish, Goto
    <3>3. /\ fin'["kmsg"].n = None
          /\ \/ pc'["kmsg"] \in {"dropped", "idle"}
             \/ pc'["kmsg"] = "finish" /\ fin'["kmsg"].status = "AuthFailed"
      BY <1>0, <1>1, <3>1, <3>2 DEF SessionType
    <3> QED BY <2>0, <3>3 DEF KmsgOpen
  <2> QED BY <2>1, <2>2, <2>3, <2>4 DEF Kmsg
<1> QED BY <1>0, <1>2, <1>3, <1>4, <1>5, <1>6 DEF SecureInv

\* The timer never ends an attempt with Associated.
LEMMA TimerSecure == ASSUME OwnerInv, SecureInv, Timer PROVE SecureInv'
<1>0. SessionType /\ FlagTrue /\ KmsgOpen /\ ArmFirst /\ AirType /\ secure \subseteq Tasks
  BY DEF OwnerInv, SecureInv
<1>1. "kmsg" \in Finishers /\ "timer" \in Finishers /\ "wpa2" \in Finishers /\ Finishers \subseteq Actors
      /\ \A t \in Tasks : t \in Actors \ {"timer"}
  BY StationAssumption DEF Finishers, Actors
<1>2. /\ UNCHANGED <<mine, begun, secure, secured, air, sup>> /\ session' \in {session, None} /\ Posts
      /\ \A b \in Actors \ {"timer"} : pc'[b] = pc[b]
      /\ \A b \in Finishers \ {"timer"} : fin'[b] = fin[b]
      /\ fin'["timer"].status \in {fin["timer"].status, "NoReply"}
  <2>1. CASE FinishStep("timer") BY <1>1, <2>1, FinishLeaves DEF Posts
  <2>2. CASE Expire
    <3>1. UNCHANGED <<mine, begun, secure, secured, air, session>> BY <2>2 DEF Expire, call, chip
    <3>2. sup' = sup /\ Posts
      BY <2>2, PlainMessages DEF Expire, wpa2, Post, Posts
    <3>3. /\ pc' = pc \/ \E l : pc' = [pc EXCEPT !["timer"] = l]
          /\ fin' = fin \/ fin' = [fin EXCEPT !["timer"] = [n |-> None, status |-> "NoReply"]]
      BY <2>2, Zenon DEF Expire, Goto, Finish
    <3> QED BY <1>0, <1>1, <3>1, <3>2, <3>3 DEF SessionType
  <2> QED BY <2>1, <2>2 DEF Timer
<1>3. FlagTrue' BY <1>0, <1>2, FlagSame
<1>4. /\ pc'["wpa2"] = pc["wpa2"] /\ fin'["wpa2"] = fin["wpa2"]
      /\ pc'["kmsg"] = pc["kmsg"] /\ fin'["kmsg"] = fin["kmsg"] /\ fin'["timer"].status # "Associated"
  BY <1>0, <1>1, <1>2 DEF KmsgOpen
<1>5. ArmFirst' BY <1>0, <1>2, <1>4, ArmFirstSame
<1>6. KmsgOpen' BY <1>0, <1>1, <1>2, <1>4, KmsgSame
<1>7. AirType' BY <1>0, <1>2 DEF AirType
<1> QED BY <1>0, <1>2, <1>3, <1>5, <1>6, <1>7 DEF SecureInv
\* handle(): the first message of a secured attempt arms the supplicant for it.
LEMMA HandleArms ==
    ASSUME OwnerInv, SecureInv, Handle
    PROVE  ArmFirst'
<1>0. SessionType /\ FlagTrue /\ ArmFirst /\ secure \subseteq Tasks BY DEF OwnerInv, SecureInv
<1>1. /\ pc["wpa2"] = "idle" /\ queue # <<>> /\ queue' = Tail(queue)
      /\ UNCHANGED <<fin, mine, begun, secure>>
  BY DEF Handle, At, call
<1>2. PICK m : m = Head(queue) OBVIOUS
<1>3. /\ m \in Messages /\ m = queue[1] /\ Len(queue) \in Nat /\ 1 \in 1..Len(queue)
      /\ queue' \in Seq(Messages) /\ Len(queue') = Len(queue) - 1
      /\ \A i \in 1..Len(queue') : i + 1 \in 1..Len(queue) /\ i + 1 # 1 /\ queue'[i] = queue[i + 1]
  BY <1>0, <1>1, <1>2 DEF ArmFirst
<1>4. \A i \in 1..Len(queue') : queue'[i].kind # "arm" BY <1>0, <1>3 DEF ArmFirst
<1>5. /\ m.n \in 0..MaxAttempts
      /\ m.kind = "arm" => m.n = begun /\ begun # 0
  BY <1>0, <1>3 DEF ArmFirst, Messages
<1>6. "wpa2" \in Actors BY DEF Actors, Finishers
<1>7. /\ \/ m.kind = "arm" /\ sup' = [active |-> TRUE, pending |-> TRUE, n |-> m.n] /\ pc' = pc
         \/ m.kind # "arm" /\ sup' = Idle /\ pc' = pc
         \/ m.kind # "arm" /\ sup' = Idle /\ pc' = [pc EXCEPT !["wpa2"] = "request"]
         \/ m.kind # "arm" /\ sup' = sup /\ pc' = pc
         \/ m.kind # "arm" /\ sup' = sup /\ sup.active /\ pc' = [pc EXCEPT !["wpa2"] = "verdict"]
  BY <1>2 DEF Handle, Fail, Leave, Goto
<1>8. \A t \in secure : \/ m = [kind |-> "arm", n |-> mine[t]]
                        \/ sup.n \in {None, mine[t]}
  BY <1>0, <1>3 DEF ArmFirst
<1>9. \A t \in secure : mine[t] = begun BY <1>0 DEF FlagTrue
<1>10. CASE m.kind = "arm" /\ sup' = [active |-> TRUE, pending |-> TRUE, n |-> m.n] /\ pc' = pc
  <2>1. sup' \in [active : BOOLEAN, pending : BOOLEAN, n : 0..MaxAttempts] /\ sup'.n = begun /\ begun # 0
    BY <1>5, <1>10
  <2> QED BY <1>1, <1>3, <1>4, <1>9, <1>10, <2>1 DEF ArmFirst, None, Holding
<1>11. ASSUME m.kind # "arm", sup' = Idle, pc' = pc \/ pc' = [pc EXCEPT !["wpa2"] = "request"]
       PROVE  ArmFirst'
  <2>1. /\ sup' \in [active : BOOLEAN, pending : BOOLEAN, n : 0..MaxAttempts] /\ sup'.n = None /\ ~sup'.active
    BY <1>11, StationAssumption DEF Idle, None
  <2>2. pc'["wpa2"] \in {"idle", "request"} BY <1>0, <1>1, <1>6, <1>11 DEF SessionType
  <2> QED BY <1>1, <1>3, <1>4, <2>1, <2>2 DEF ArmFirst, Holding
<1>12. ASSUME m.kind # "arm", sup' = sup,
              pc' = pc \/ (sup.active /\ pc' = [pc EXCEPT !["wpa2"] = "verdict"])
       PROVE  ArmFirst'
  <2>1. \A t \in secure : sup.n \in {None, mine[t]} BY <1>8, <1>12
  <2>2. pc'["wpa2"] = "idle" \/ (pc'["wpa2"] = "verdict" /\ sup.active)
    BY <1>0, <1>1, <1>6, <1>12 DEF SessionType
  <2> QED BY <1>0, <1>1, <1>3, <1>4, <1>12, <2>1, <2>2 DEF ArmFirst, Holding
<1> QED BY <1>7, <1>10, <1>11, <1>12

\* The supplicant ends with Associated only what it is armed for.
LEMMA Wpa2Secure == ASSUME OwnerInv, SecureInv, Wpa2 PROVE SecureInv'
<1>0. SessionType /\ FlagTrue /\ KmsgOpen /\ ArmFirst /\ AirType /\ secure \subseteq Tasks
  BY DEF OwnerInv, SecureInv
<1>1. "kmsg" \in Finishers /\ "timer" \in Finishers /\ "wpa2" \in Finishers /\ Finishers \subseteq Actors
      /\ \A t \in Tasks : t \in Actors \ {"wpa2"}
  BY StationAssumption DEF Finishers, Actors
<1>2. /\ UNCHANGED <<mine, begun, secure, secured>> /\ session' \in {session, None}
      /\ \A b \in Actors \ {"wpa2"} : pc'[b] = pc[b]
      /\ \A b \in Finishers \ {"wpa2"} : fin'[b] = fin[b]
  <2>1. CASE FinishStep("wpa2") BY <1>1, <2>1, FinishLeaves
  <2>2. CASE Handle \/ Verdict \/ LeaveDone("wpa2")
    <3>1. UNCHANGED <<mine, begun, secure, secured, session>>
      BY <2>2 DEF Handle, Verdict, LeaveDone, call, flags
    <3>2. /\ pc' = pc \/ \E l : pc' = [pc EXCEPT !["wpa2"] = l]
          /\ fin' = fin \/ \E r : fin' = [fin EXCEPT !["wpa2"] = r]
      BY <2>2, Zenon DEF Handle, Verdict, LeaveDone, Fail, Leave, Goto, Finish
    <3> QED BY <1>0, <3>1, <3>2 DEF SessionType
  <2> QED BY <2>1, <2>2 DEF Wpa2
<1>3. FlagTrue' BY <1>0, <1>2, FlagSame
<1>4. /\ pc'["kmsg"] = pc["kmsg"] /\ fin'["kmsg"] = fin["kmsg"] /\ fin'["timer"].status # "Associated"
  BY <1>0, <1>1, <1>2 DEF KmsgOpen
<1>5. KmsgOpen' BY <1>0, <1>1, <1>2, <1>4, KmsgSame
<1>6. AirType'
  <2>1. CASE LeaveDone("wpa2")
    <3>1. air' = Away \/ air' = air BY <2>1 DEF LeaveDone, Disconnect, chip
    <3> QED BY <1>0, <3>1, AwayType DEF AirType
  <2>2. CASE Handle \/ Verdict \/ FinishStep("wpa2")
    <3>1. air' = air BY <1>1, <2>2, FinishLeaves DEF Handle, Verdict, chip
    <3> QED BY <1>0, <3>1 DEF AirType
  <2> QED BY <2>1, <2>2 DEF Wpa2
<1>7. ArmFirst'
  <2>0. sup \in [active : BOOLEAN, pending : BOOLEAN, n : 0..MaxAttempts] BY <1>0 DEF ArmFirst
  <2>1. CASE Handle BY <2>1, HandleArms
  <2>2. CASE Verdict
    <3>1. /\ pc["wpa2"] = "verdict" /\ queue' = queue /\ sup' = [sup EXCEPT !.pending = FALSE]
          /\ pc' = [pc EXCEPT !["wpa2"] = "finish"]
      BY <2>2 DEF Verdict, At, Finish, Goto
    <3>2. /\ sup' \in [active : BOOLEAN, pending : BOOLEAN, n : 0..MaxAttempts]
          /\ sup'.n = sup.n /\ sup'.active = sup.active
      BY <2>0, <3>1
    <3>3. sup.n # None BY <1>0, <3>1 DEF ArmFirst
    <3>4. pc'["wpa2"] = "finish" BY <1>0, <1>1, <3>1 DEF SessionType
    <3> QED BY <1>0, <1>2, <3>1, <3>2, <3>3, <3>4, ArmFirstWorks DEF Posts
  <2>3. CASE LeaveDone("wpa2")
    <3>1. /\ pc["wpa2"] = "request" /\ sup' = sup
          /\ pc' = [pc EXCEPT !["wpa2"] = "finish"]
          /\ fin' = [fin EXCEPT !["wpa2"] = [n |-> None, status |-> "AuthFailed"]]
      BY <2>3 DEF LeaveDone, At, Finish, Goto, Post, wpa2
    <3>2. Posts BY <2>3, PlainMessages DEF LeaveDone, Post, wpa2, Posts
    <3>3. pc'["wpa2"] = "finish" /\ fin'["wpa2"].status = "AuthFailed"
      BY <1>0, <1>1, <3>1 DEF SessionType
    <3> QED BY <1>0, <1>2, <2>0, <3>1, <3>2, <3>3, ArmFirstWorks
  <2>4. CASE FinishStep("wpa2")
    <3>1. /\ UNCHANGED <<sup, queue>> /\ pc["wpa2"] \in {"finish"} \cup Holding
          /\ pc'["wpa2"] \in {"idle"} \cup Holding
          /\ fin'["wpa2"].status \in {fin["wpa2"].status, "NoReply"}
      BY <1>1, <2>4, FinishLeaves
    <3>2. pc["wpa2"] # "idle" /\ pc'["wpa2"] # "verdict" BY <3>1 DEF Holding
    <3>3. fin'["wpa2"].status = "Associated" => sup.n # None BY <1>0, <3>1 DEF ArmFirst
    <3> QED BY <1>0, <1>2, <2>0, <3>1, <3>2, <3>3, ArmFirstWorks DEF Posts
  <2> QED BY <2>1, <2>2, <2>3, <2>4 DEF Wpa2
<1> QED BY <1>0, <1>2, <1>3, <1>5, <1>6, <1>7 DEF SecureInv

\* The LMAC passes on frames of its association.
LEMMA LmacSecure == ASSUME SecureInv, Lmac PROVE SecureInv'
<1>0. FlagTrue /\ KmsgOpen /\ ArmFirst /\ AirType /\ secure \subseteq Tasks BY DEF SecureInv
<1>1. UNCHANGED <<pc, fin, mine, begun, secure, secured, session, sup>>
  BY DEF Lmac, JoinEnds, LinkEnds, Replay, Eapol, call, flags, wpa2
<1>2. AirType' /\ Posts
  <2>1. CASE \E ok \in BOOLEAN : JoinEnds(ok)
    <3>1. air' = [air EXCEPT !.state = "joined"] \/ air' = Away BY <2>1 DEF JoinEnds
    <3>2. [air EXCEPT !.state = "joined"]
              \in [state : {"idle", "joining", "joined"}, n : 0..MaxAttempts, secure : BOOLEAN]
      BY <1>0 DEF AirType
    <3>3. queue' = queue BY <2>1 DEF JoinEnds, wpa2
    <3> QED BY <3>1, <3>2, <3>3, AwayType DEF AirType, Posts
  <2>2. CASE LinkEnds BY <2>2, AwayType DEF LinkEnds, AirType, wpa2, Posts
  <2>3. CASE Replay BY <1>0, <2>3 DEF Replay, AirType, wpa2, Posts
  <2>4. CASE Eapol
    <3>1. air.n \in 0..MaxAttempts /\ air' = air BY <1>0, <2>4 DEF AirType, Eapol, chip
    <3>2. [kind |-> "eapol", n |-> air.n] \in Messages BY <3>1 DEF Messages
    <3> QED BY <1>0, <2>4, <3>1, <3>2 DEF Eapol, AirType, Posts
  <2> QED BY <2>1, <2>2, <2>3, <2>4 DEF Lmac
<1>3. FlagTrue' BY <1>0, <1>1, FlagSame
<1>4. KmsgOpen' BY <1>0, <1>1 DEF KmsgOpen
<1>5. ArmFirst' BY <1>0, <1>1, <1>2, ArmFirstSame
<1> QED BY <1>0, <1>1, <1>2, <1>3, <1>4, <1>5 DEF SecureInv

\* sta.h: "Associated - the link is usable. For a secured network that means the
\* handshake is done".  With one task that starts the station and looks for the BSS
\* before it joins, only the supplicant ends a secured attempt with Associated,
\* armed for that attempt, whatever messages and indications an earlier one left.
THEOREM SecuredByHandshake ==
    ASSUME OneCaller, Direct = {}
    PROVE  Spec => []SecureMeansHandshake
<1>1. OwnerInv /\ SecureInv /\ [Next]_vars => SecureInv'
  <2> SUFFICES ASSUME OwnerInv, SecureInv, [Next]_vars PROVE SecureInv'
    OBVIOUS
  <2>1. CASE \E t \in Tasks : Continue(t) \/ WalkAway(t) \/ Stop(t) \/ Start(t) BY <2>1, CallerSecure
  <2>2. CASE Kmsg BY <2>2, KmsgSecure
  <2>3. CASE Timer BY <2>3, TimerSecure
  <2>4. CASE Wpa2 BY <2>4, Wpa2Secure
  <2>5. CASE Lmac BY <2>5, LmacSecure
  <2>6. CASE UNCHANGED vars
    BY <2>6 DEF vars, call, flags, chip, wpa2, SecureInv, AirType, FlagTrue, KmsgOpen, ArmFirst
  <2>7. CASE \E w \in Stoppers : Stop(w) \/ LeaveDone(w) BY <2>7, StopperSecure
  <2> QED BY <2>1, <2>2, <2>3, <2>4, <2>5, <2>6, <2>7 DEF Next
<1>2. OwnerInv /\ SecureInv => SecureMeansHandshake
  <2> SUFFICES ASSUME OwnerInv, SecureInv, NEW a \in Finishers, NEW t \in secure,
                      fin[a].n # None, fin[a].status = "Associated", mine[t] = fin[a].n
               PROVE  a = "wpa2" /\ sup.n = fin[a].n
    BY DEF SecureMeansHandshake
  <2>1. a = "wpa2" BY DEF SecureInv, KmsgOpen, Finishers
  <2>2. pc["wpa2"] \in Holding BY <2>1 DEF OwnerInv, Taken
  <2>3. sup.n # None /\ sup.n \in {None, mine[t]} BY <2>1, <2>2 DEF SecureInv, ArmFirst, Holding
  <2> QED BY <2>1, <2>3
<1> QED BY <1>1, <1>2, SecureInvInit, OwnerInvHolds, PTL DEF Spec
=============================================================================
