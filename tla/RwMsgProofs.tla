---------------------------- MODULE RwMsgProofs ----------------------------
(***************************************************************************)
(* Proofs about the requests to the LMAC, for every set of senders and     *)
(* ids, every queue length, every number of requests and whichever senders *)
(* the kmsg task outranks: no call leaves a node or a list entry behind, a *)
(* call that succeeded has an answer with its id, and a node is freed      *)
(* under the kmsg task only by a failed call of a task it does not outrank.*)
(***************************************************************************)
EXTENDS RwMsg, SequenceTheorems, TLAPS

\* The requests that some call has begun; their ids no longer change.
Begun == {r \in Requests : r.n <= count[r.by]}

KmsgType ==
    kmsg \in [pc : {"wait", "pop", "pick", "stray"} \cup Working,
              msg : [kind : {"cfm", "ind"}, id : Ids, of : Requests \cup {None}],
              node : Requests \cup {None}]

\* A node is allocated for a sender's current call, just while it runs.
Held ==
    /\ NodesOwned
    /\ \A s \in Senders : pc[s] # "idle" => Mine(s) \in live

\* Whatever is under way belongs to a request that was made, and a message from
\* the LMAC has the id its request asked for.
Known ==
    /\ \A i \in 1..Len(bus) : bus[i] \in Begun
    /\ \A i \in 1..Len(tx) : tx[i] \in Begun
    /\ \A i \in 1..Len(rx) : rx[i].of \in Begun /\ rx[i].id = want[rx[i].of]
    /\ lmac \subseteq Begun /\ joining \subseteq Begun

\* So does what the kmsg task has in its hands.
KmsgKnown ==
    /\ kmsg.pc \in {"pick"} \cup Working =>
          kmsg.msg.of \in Begun /\ kmsg.msg.id = want[kmsg.msg.of]
    /\ kmsg.pc \in Working => kmsg.node \in Begun \cup {None}
    /\ kmsg.pc = "stray" => kmsg.node \in Begun
    /\ kmsg.pc \in {"copy", "signal"} => kmsg.node \in Begun /\ kmsg.msg.id = want[kmsg.node]

\* The confirmation in a request's buffer has the id it waits for.
Answered(r) == r \in Begun /\ answer[r] \in Begun /\ want[answer[r]] = want[r]

\* It is there from before the semaphore is given until after the return.
Answers ==
    /\ \A r \in Requests : result[r] = "ok" => Answered(r)
    /\ \A r \in signalled : Answered(r)
    /\ kmsg.pc = "signal" => Answered(kmsg.node)

CallInv == TypeOK /\ KmsgType /\ Held /\ Known /\ KmsgKnown /\ Answers

Parked == {"post", "wait", "unpark"}

\* A parked node is on the list once, allocated, and not signalled yet.
Listed ==
    /\ \A i, j \in 1..Len(tx) : tx[i] = tx[j] => i = j
    /\ \A i \in 1..Len(tx) : tx[i] \in live \ signalled /\ pc[tx[i].by] \in Parked

Given == \A r \in signalled : r \in live /\ pc[r.by] \in Parked \cup {"free"}

\* The call of a node failed, and a task the kmsg task does not outrank made it.
Failed(r) == result[r] = "error" /\ r.by \in Peers

\* The node the kmsg task has in hand has not been signalled, and it is allocated
\* unless its call failed; once it is taken off the list it does not return.
InHand ==
    /\ kmsg.pc \in Working /\ kmsg.node # None =>
          /\ kmsg.node \notin signalled
          /\ kmsg.node \in live => pc[kmsg.node.by] \in Parked \cup {"free"}
          /\ kmsg.node \notin live => Failed(kmsg.node)
    /\ kmsg.pc \in {"copy", "signal"} => \A i \in 1..Len(tx) : tx[i] # kmsg.node
    /\ kmsg.pc = "stray" => kmsg.node \notin live /\ Failed(kmsg.node)

ListInv == Listed /\ Given /\ InHand

-----------------------------------------------------------------------------
(* The operators of the model.                                             *)

\* No request is the null pointer.
LEMMA NoneIsNoRequest == None \notin Requests
BY RwMsgAssumption DEF None, Requests

\* What co_list_extract() leaves was there before, and of a list without
\* repetitions it leaves none and not the element it extracts.
LEMMA WithoutFacts ==
    ASSUME NEW T, NEW seq \in Seq(T), NEW e
    PROVE  /\ Without(seq, e) \in Seq(T)
           /\ \A i \in 1..Len(Without(seq, e)) : \E j \in 1..Len(seq) : Without(seq, e)[i] = seq[j]
           /\ (\A i, j \in 1..Len(seq) : seq[i] = seq[j] => i = j) =>
                 /\ \A i, j \in 1..Len(Without(seq, e)) :
                       Without(seq, e)[i] = Without(seq, e)[j] => i = j
                 /\ \A i \in 1..Len(Without(seq, e)) : Without(seq, e)[i] # e
<1>1. CASE ~ \E i \in 1..Len(seq) : seq[i] = e
  <2>1. Without(seq, e) = seq BY <1>1 DEF Without
  <2> QED BY <1>1, <2>1
<1>2. CASE \E i \in 1..Len(seq) : seq[i] = e
  <2> DEFINE k == CHOOSE i \in 1..Len(seq) : seq[i] = e
             left  == SubSeq(seq, 1, k - 1)
             right == SubSeq(seq, k + 1, Len(seq))
  <2>1. k \in 1..Len(seq) /\ seq[k] = e BY <1>2
  <2>2. Without(seq, e) = left \o right BY <1>2 DEF Without, RemoveAt
  <2> HIDE DEF k
  <2>3. Len(seq) \in Nat OBVIOUS
  <2>4. left \in Seq(T) /\ Len(left) = k - 1 /\ \A i \in 1..(k - 1) : left[i] = seq[i]
    BY <2>1, <2>3
  <2>5. right \in Seq(T) /\ Len(right) = Len(seq) - k
        /\ \A i \in 1..(Len(seq) - k) : right[i] = seq[i + k]
    BY <2>1, <2>3
  <2> HIDE DEF left, right
  <2> DEFINE both == left \o right
  <2>c. /\ both \in Seq(T) /\ Len(both) = Len(left) + Len(right)
        /\ \A i \in 1..(Len(left) + Len(right)) :
              both[i] = IF i <= Len(left) THEN left[i] ELSE right[i - Len(left)]
    BY <2>4, <2>5, ConcatProperties
  <2> HIDE DEF both
  <2>6. both \in Seq(T) /\ Len(both) = Len(seq) - 1
    BY <2>1, <2>3, <2>4, <2>5, <2>c
  <2>7. ASSUME NEW i \in 1..(Len(seq) - 1)
        PROVE  both[i] = IF i < k THEN seq[i] ELSE seq[i + 1]
    <3>1. both[i] = IF i <= k - 1 THEN left[i] ELSE right[i - (k - 1)]
      BY <2>1, <2>3, <2>4, <2>5, <2>c
    <3>2. CASE i < k BY <2>1, <2>3, <2>4, <3>1, <3>2
    <3>3. CASE ~(i < k)
      <4>1. i - (k - 1) \in 1..(Len(seq) - k) /\ i - (k - 1) + k = i + 1
        BY <2>1, <2>3, <3>3
      <4>2. right[i - (k - 1)] = seq[i + 1] BY <2>5, <4>1
      <4> QED BY <2>1, <3>1, <3>3, <4>2
    <3> QED BY <3>2, <3>3
  <2> DEFINE at(i) == IF i < k THEN i ELSE i + 1
  <2>8. \A i \in 1..(Len(seq) - 1) :
           at(i) \in 1..Len(seq) /\ at(i) # k /\ both[i] = seq[at(i)]
    BY <2>1, <2>3, <2>7
  <2>9. \A i, j \in 1..(Len(seq) - 1) : at(i) = at(j) => i = j
    BY <2>1, <2>3
  <2> HIDE DEF at
  <2>10. Without(seq, e) = both BY <2>2 DEF both
  <2>11. \A i \in 1..Len(both) : \E j \in 1..Len(seq) : both[i] = seq[j]
    BY <2>6, <2>8
  <2>12. ASSUME \A i, j \in 1..Len(seq) : seq[i] = seq[j] => i = j
         PROVE  /\ \A i, j \in 1..Len(both) : both[i] = both[j] => i = j
                /\ \A i \in 1..Len(both) : both[i] # e
    BY <2>1, <2>6, <2>8, <2>9, <2>12
  <2> QED BY <2>6, <2>10, <2>11, <2>12
<1> QED BY <1>1, <1>2

\* The same of the list after the extraction, for a list without repetitions.
LEMMA Extracted ==
    ASSUME NEW q, NEW seq \in Seq(Requests), NEW e, q = Without(seq, e),
           \A i, j \in 1..Len(seq) : seq[i] = seq[j] => i = j
    PROVE  /\ \A i, j \in 1..Len(q) : q[i] = q[j] => i = j
           /\ \A i \in 1..Len(q) : q[i] # e /\ \E j \in 1..Len(seq) : q[i] = seq[j]
<1>1. /\ \A i \in 1..Len(Without(seq, e)) : \E j \in 1..Len(seq) : Without(seq, e)[i] = seq[j]
      /\ \A i, j \in 1..Len(Without(seq, e)) : Without(seq, e)[i] = Without(seq, e)[j] => i = j
      /\ \A i \in 1..Len(Without(seq, e)) : Without(seq, e)[i] # e
  BY WithoutFacts, Zenon
<1> QED BY <1>1

\* The node behind a node is one of the list, or there is none.
LEMMA NextNodeListed ==
    ASSUME NEW r
    PROVE  NextNode(r) = None \/ \E i \in 1..Len(tx) : NextNode(r) = tx[i]
<1>1. CASE ~ \E i \in 1..(Len(tx) - 1) : tx[i] = r
  BY <1>1 DEF NextNode
<1>2. CASE \E i \in 1..(Len(tx) - 1) : tx[i] = r
  <2> DEFINE k == CHOOSE i \in 1..(Len(tx) - 1) : tx[i] = r
  <2>1. k \in 1..(Len(tx) - 1) BY <1>2
  <2>2. NextNode(r) = tx[1 + k] BY <1>2 DEF NextNode
  <2>3. 1 + k \in 1..Len(tx) BY <2>1
  <2> QED BY <2>2, <2>3
<1> QED BY <1>1, <1>2

-----------------------------------------------------------------------------
(* The calls.                                                              *)

\* No call is under way and no node is waiting at the start.
LEMMA CallInvInit == Init => CallInv
<1> SUFFICES ASSUME Init PROVE CallInv
  OBVIOUS
<1>1. KmsgType /\ TypeOK
  <2>1. kmsg = [pc |-> "wait", msg |-> [kind |-> "ind", id |-> ConnectId, of |-> None], node |-> None]
    BY DEF Init
  <2>2. KmsgType /\ kmsg.pc = "wait" /\ kmsg.node = None
    BY <2>1, RwMsgAssumption DEF KmsgType
  <2>3. count \in [Senders -> 0..MaxRequests] BY RwMsgAssumption DEF Init
  <2>4. want \in [Requests -> Ids] /\ answer \in [Requests -> Requests \cup {None}]
        /\ result \in [Requests -> {"none", "ok", "error"}]
        /\ pc \in [Senders -> {"idle", "park", "post", "wait", "unpark", "free"}]
    BY RwMsgAssumption DEF Init
  <2>5. bus \in Seq(Requests) /\ tx \in Seq(Requests) /\ rx \in Seq(Messages)
    BY DEF Init
  <2> QED BY <2>2, <2>3, <2>4, <2>5 DEF Init, TypeOK
<1>2. Held /\ Known /\ KmsgKnown /\ Answers
  BY DEF Init, Held, NodesOwned, Known, KmsgKnown, Answers, Answered, Working
<1> QED BY <1>1, <1>2 DEF CallInv

\* A running call has a number, so its request is one that has begun.
LEMMA MineBegun ==
    ASSUME TypeOK, Held, NEW s \in Senders, pc[s] # "idle"
    PROVE  Mine(s) \in Begun /\ Mine(s).by = s /\ Mine(s).n = count[s]
BY DEF TypeOK, Held, Mine, Begun, Requests

\* A call begins: the request is new, so nothing under way refers to it.
LEMMA BeginStep ==
    ASSUME CallInv, NEW s \in Senders, NEW id \in Ids, Begin(s, id)
    PROVE  CallInv'
<1> DEFINE r == [by |-> s, n |-> count[s] + 1]
<1>1. r \in Requests /\ r \notin Begun /\ count[s] + 1 \in 1..MaxRequests
  BY RwMsgAssumption DEF CallInv, TypeOK, Begin, Requests, Begun
<1>2. count' = [count EXCEPT ![s] = count[s] + 1] /\ want' = [want EXCEPT ![r] = id]
  BY DEF Begin
<1>3. pc[s] = "idle" /\ UNCHANGED <<chip, tx, rx, signalled, answer, sema, kmsg>>
  BY DEF Begin
<1>4. \/ live' = live \cup {r} /\ pc' = [pc EXCEPT ![s] = "park"] /\ result' = result
      \/ live' = live /\ pc' = pc /\ result' = [result EXCEPT ![r] = "error"]
  BY DEF Begin
<1>5. r.by = s /\ r.n = count[s] + 1 OBVIOUS
<1>6. Begun \subseteq Begun' /\ \A q \in Begun : want'[q] = want[q]
  BY <1>1, <1>2 DEF CallInv, TypeOK, Begun, Requests
<1>7. Mine(s)' = r /\ \A p \in Senders \ {s} : Mine(p)' = Mine(p) /\ pc'[p] = pc[p]
  BY <1>2, <1>4 DEF CallInv, TypeOK, Mine
<1> HIDE DEF r
<1>8. TypeOK' /\ KmsgType'
  <2>1. count' \in [Senders -> 0..MaxRequests]
    BY <1>1, <1>2 DEF CallInv, TypeOK
  <2>2. want' \in [Requests -> Ids] BY <1>1, <1>2 DEF CallInv, TypeOK
  <2>3. live' \subseteq Requests /\ result' \in [Requests -> {"none", "ok", "error"}]
        /\ pc' \in [Senders -> {"idle", "park", "post", "wait", "unpark", "free"}]
    BY <1>1, <1>4 DEF CallInv, TypeOK
  <2> QED BY <1>3, <2>1, <2>2, <2>3 DEF CallInv, TypeOK, KmsgType, chip
<1>9. Held'
  <2>1. ASSUME NEW q \in live' PROVE q = Mine(q.by)' /\ pc'[q.by] # "idle"
    <3>1. CASE q = r BY <1>4, <1>5, <1>7, <3>1, <2>1 DEF CallInv, TypeOK, Held, NodesOwned
    <3>2. CASE q \in live
      <4>1. q.by \in Senders \ {s} BY <1>3, <3>2 DEF CallInv, TypeOK, Held, NodesOwned, Requests
      <4> QED BY <1>7, <3>2, <4>1 DEF CallInv, Held, NodesOwned
    <3> QED BY <1>4, <2>1, <3>1, <3>2
  <2>2. ASSUME NEW p \in Senders, pc'[p] # "idle" PROVE Mine(p)' \in live'
    BY <1>3, <1>4, <1>7, <2>2 DEF CallInv, TypeOK, Held
  <2> QED BY <2>1, <2>2 DEF Held, NodesOwned, Mine
<1>10. Known'
  <2>1. UNCHANGED <<bus, tx, rx, lmac, joining>> BY <1>3 DEF chip
  <2> QED BY <1>6, <2>1 DEF CallInv, Known
<1>11. KmsgKnown'
  BY <1>3, <1>6 DEF CallInv, KmsgKnown
<1>12. Answers'
  <2>1. ASSUME NEW q \in Begun, Answered(q) PROVE Answered(q)'
    BY <1>3, <1>6, <2>1 DEF Answered
  <2>2. \A q \in Requests : result'[q] = "ok" => result[q] = "ok"
    BY <1>1, <1>4 DEF CallInv, TypeOK
  <2> QED BY <1>3, <2>1, <2>2 DEF CallInv, Answers, Answered
<1> QED BY <1>8, <1>9, <1>10, <1>11, <1>12 DEF CallInv

\* A call goes on or returns.
LEMMA SendStep ==
    ASSUME CallInv, NEW s \in Senders, Send(s)
    PROVE  CallInv'
<1>1. pc[s] # "idle" /\ UNCHANGED <<count, want, rx, answer, sema, kmsg, lmac, joining>>
  BY DEF Send, Park, Post, Wake, Timeout, Unpark, Free, chip
<1>2. Mine(s) \in Begun /\ Mine(s) \in Requests /\ Mine(s).by = s
  BY <1>1, MineBegun DEF CallInv, Begun
<1>3. Begun' = Begun /\ \A p \in Senders : Mine(p)' = Mine(p)
  BY <1>1 DEF Begun, Mine
<1>4. \A p \in Senders : Mine(p) = Mine(s) => p = s
  BY DEF Mine
<1>5. /\ bus' = bus \/ bus' = Append(bus, Mine(s))
      /\ tx' = tx \/ tx' = Append(tx, Mine(s)) \/ tx' = Without(tx, Mine(s))
      /\ signalled' \subseteq signalled
  BY DEF Send, Park, Post, Wake, Timeout, Unpark, Free, chip
<1>6. /\ \/ live' = live /\ pc' \in {[pc EXCEPT ![s] = l] : l \in {"post", "wait", "unpark", "free"}}
         \/ live' = live \ {Mine(s)} /\ pc' = [pc EXCEPT ![s] = "idle"]
      /\ \/ result' = result
         \/ result' = [result EXCEPT ![Mine(s)] = "error"]
         \/ result' = [result EXCEPT ![Mine(s)] = "ok"] /\ Mine(s) \in signalled
  BY DEF Send, Park, Post, Wake, Timeout, Unpark, Free, Finish
<1> HIDE DEF Send
<1>7. TypeOK' /\ KmsgType'
  <2>1. bus' \in Seq(Requests)
    <3>1. bus \in Seq(Requests) BY DEF CallInv, TypeOK
    <3> QED BY <1>2, <1>5, <3>1
  <2>2. tx' \in Seq(Requests)
    <3>1. tx \in Seq(Requests) BY DEF CallInv, TypeOK
    <3>2. Without(tx, Mine(s)) \in Seq(Requests) BY <3>1, WithoutFacts
    <3> QED BY <1>2, <1>5, <3>1, <3>2
  <2>3. result' \in [Requests -> {"none", "ok", "error"}] BY <1>2, <1>6 DEF CallInv, TypeOK
  <2>4. pc' \in [Senders -> {"idle", "park", "post", "wait", "unpark", "free"}]
        /\ live' \subseteq Requests
    <3>1. pc \in [Senders -> {"idle", "park", "post", "wait", "unpark", "free"}] /\ live \subseteq Requests
      BY DEF CallInv, TypeOK
    <3>2. CASE live' = live BY <1>6, <3>1, <3>2
    <3>3. CASE pc' = [pc EXCEPT ![s] = "idle"] BY <1>6, <3>1, <3>3
    <3> QED BY <1>6, <3>2, <3>3
  <2> QED BY <1>1, <1>5, <2>1, <2>2, <2>3, <2>4 DEF CallInv, TypeOK, KmsgType
<1>8. Held'
  <2>1. \A p \in Senders \ {s} : pc'[p] = pc[p] BY <1>6 DEF CallInv, TypeOK
  <2>2. \/ live' = live /\ pc'[s] # "idle"
        \/ live' = live \ {Mine(s)} /\ pc'[s] = "idle"
    <3>1. pc \in [Senders -> {"idle", "park", "post", "wait", "unpark", "free"}]
      BY DEF CallInv, TypeOK
    <3>2. \A l : [pc EXCEPT ![s] = l][s] = l BY <3>1
    <3>3. ASSUME live' = live,
                 pc' \in {[pc EXCEPT ![s] = l] : l \in {"post", "wait", "unpark", "free"}}
          PROVE  pc'[s] # "idle"
      <4>1. PICK l \in {"post", "wait", "unpark", "free"} : pc' = [pc EXCEPT ![s] = l]
        BY <3>3
      <4> QED BY <3>2, <4>1
    <3>4. ASSUME pc' = [pc EXCEPT ![s] = "idle"] PROVE pc'[s] = "idle"
      BY <3>2, <3>4
    <3> QED BY <1>6, <3>3, <3>4
  <2>3. ASSUME NEW q \in live' PROVE q = Mine(q.by)' /\ pc'[q.by] # "idle"
    <3>1. q \in live /\ q.by \in Senders /\ q = Mine(q.by) /\ pc[q.by] # "idle"
      BY <2>2, <2>3 DEF CallInv, TypeOK, Held, NodesOwned, Requests
    <3> QED BY <1>3, <2>1, <2>2, <2>3, <3>1
  <2>4. ASSUME NEW p \in Senders, pc'[p] # "idle" PROVE Mine(p)' \in live'
    BY <1>1, <1>3, <1>4, <2>1, <2>2, <2>4 DEF CallInv, Held
  <2> QED BY <2>3, <2>4 DEF Held, NodesOwned, Mine
<1>9. Known'
  <2>1. \A i \in 1..Len(bus') : bus'[i] \in Begun
    <3>1. bus \in Seq(Requests) /\ \A i \in 1..Len(bus) : bus[i] \in Begun
      BY DEF CallInv, TypeOK, Known
    <3> QED BY <1>2, <1>5, <3>1
  <2>2. \A i \in 1..Len(tx') : tx'[i] \in Begun
    <3>0. tx \in Seq(Requests) /\ \A i \in 1..Len(tx) : tx[i] \in Begun
      BY DEF CallInv, TypeOK, Known
    <3>1. CASE tx' = tx \/ tx' = Append(tx, Mine(s))
      BY <1>2, <3>0, <3>1
    <3>2. CASE tx' = Without(tx, Mine(s))
      BY <3>2, WithoutFacts DEF CallInv, TypeOK, Known
    <3> QED BY <1>5, <3>1, <3>2
  <2> QED BY <1>1, <1>3, <2>1, <2>2 DEF CallInv, Known
<1>10. KmsgKnown'
  BY <1>1, <1>3 DEF CallInv, KmsgKnown
<1>11. Answers'
  <2>1. \A q : Answered(q)' <=> Answered(q) BY <1>1, <1>3 DEF Answered
  <2>2. \A q \in Requests : result'[q] = "ok" => result[q] = "ok" \/ q \in signalled
    BY <1>2, <1>6 DEF CallInv, TypeOK
  <2> QED BY <1>1, <1>5, <2>1, <2>2 DEF CallInv, Answers
<1> QED BY <1>7, <1>8, <1>9, <1>10, <1>11 DEF CallInv

\* The Wi-Fi core task and the LMAC move requests and make messages of them.
LEMMA ChipStep ==
    ASSUME CallInv, CoreTask \/ \E r \in Requests : Answer(r) \/ Indicate(r)
    PROVE  CallInv'
<1>1. UNCHANGED <<pc, count, want, result, tx, live, signalled, answer, kmsg>>
  BY DEF CoreTask, Answer, Indicate, sender
<1>2. Begun' = Begun BY <1>1 DEF Begun
<1>3. Held' /\ KmsgKnown' /\ Answers'
  BY <1>1, <1>2 DEF CallInv, Held, NodesOwned, Mine, KmsgKnown, Answers, Answered
<1>4. ASSUME CoreTask PROVE TypeOK' /\ KmsgType' /\ Known'
  <2>1. bus \in Seq(Requests) /\ bus # <<>> /\ bus' = Tail(bus) /\ lmac' = lmac \cup {Head(bus)}
        /\ UNCHANGED <<joining, rx, sema>>
    BY <1>4 DEF CoreTask, CallInv, TypeOK
  <2>2. /\ Tail(bus) \in Seq(Requests) /\ Head(bus) = bus[1] /\ 1 \in 1..Len(bus)
        /\ \A i \in 1..Len(Tail(bus)) : i + 1 \in 1..Len(bus) /\ Tail(bus)[i] = bus[i + 1]
    BY <2>1
  <2>3. Head(bus) \in Begun /\ \A i \in 1..Len(bus') : bus'[i] \in Begun
    BY <2>1, <2>2 DEF CallInv, Known
  <2>4. Head(bus) \in Requests BY <2>3 DEF Begun
  <2> QED BY <1>1, <1>2, <2>1, <2>2, <2>3, <2>4 DEF CallInv, TypeOK, KmsgType, Known
<1>5. ASSUME NEW r \in Requests, Answer(r) \/ Indicate(r)
      PROVE  TypeOK' /\ KmsgType' /\ Known'
  <2>1. r \in Begun /\ lmac' \subseteq lmac /\ joining' \subseteq joining \cup {r} /\ bus' = bus
    BY <1>5 DEF Answer, Indicate, CallInv, Known
  <2>2. PICK k \in {"cfm", "ind"} : rx' = Append(rx, [kind |-> k, id |-> want[r], of |-> r])
    BY <1>5 DEF Answer, Indicate, Forward
  <2>3. sema' = TRUE BY <1>5 DEF Answer, Indicate, Forward
  <2> DEFINE m == [kind |-> k, id |-> want[r], of |-> r]
  <2>4. m \in Messages /\ m.of = r /\ m.id = want[r]
    BY DEF CallInv, TypeOK, Messages
  <2>5. rx' = Append(rx, m) BY <2>2
  <2> HIDE DEF m
  <2>6. rx' \in Seq(Messages) BY <2>4, <2>5 DEF CallInv, TypeOK
  <2>7. \A i \in 1..Len(rx') : rx'[i].of \in Begun /\ rx'[i].id = want[rx'[i].of]
    <3>1. rx \in Seq(Messages) BY DEF CallInv, TypeOK
    <3>2. /\ Len(rx) \in Nat /\ Len(rx') = Len(rx) + 1 /\ rx'[Len(rx) + 1] = m
          /\ \A i \in 1..Len(rx) : rx'[i] = rx[i]
      BY <2>4, <2>5, <3>1
    <3>3. \A i \in 1..Len(rx) : rx[i].of \in Begun /\ rx[i].id = want[rx[i].of]
      BY DEF CallInv, Known
    <3>4. \A i \in 1..Len(rx') : i \in 1..Len(rx) \/ i = Len(rx) + 1 BY <3>2
    <3> QED BY <2>1, <2>4, <3>2, <3>3, <3>4
  <2> QED BY <1>1, <1>2, <2>1, <2>3, <2>6, <2>7 DEF CallInv, TypeOK, KmsgType, Known
<1> QED BY <1>3, <1>4, <1>5 DEF CallInv

\* The kmsg task takes a message, walks the list and answers a call.
LEMMA KmsgStep ==
    ASSUME CallInv, Kmsg
    PROVE  CallInv'
<1>1. UNCHANGED <<pc, count, want, result, live, bus, lmac, joining>>
  BY DEF Kmsg, KmsgWake, KmsgPop, KmsgPick, KmsgMatch, KmsgCopy, KmsgSignal, KmsgStray, sender, chip
<1>2. Begun' = Begun BY <1>1 DEF Begun
<1>3. Held'
  BY <1>1 DEF CallInv, Held, NodesOwned, Mine
<1>4. /\ kmsg.pc \in {"wait", "pop", "pick", "stray"} \cup Working /\ kmsg.node \in Requests \cup {None}
      /\ kmsg.msg \in [kind : {"cfm", "ind"}, id : Ids, of : Requests \cup {None}]
      /\ tx \in Seq(Requests) /\ rx \in Seq(Messages)
  BY DEF CallInv, TypeOK, KmsgType
<1>5. ASSUME NEW l \in {"wait", "pop", "pick", "stray"} \cup Working, NEW n \in Requests \cup {None},
             NEW m \in [kind : {"cfm", "ind"}, id : Ids, of : Requests \cup {None}],
             kmsg' = [pc |-> l, msg |-> m, node |-> n]
      PROVE  KmsgType' /\ kmsg'.pc = l /\ kmsg'.msg = m /\ kmsg'.node = n
  BY <1>5 DEF KmsgType
<1>6. \A l, n : /\ [kmsg EXCEPT !.pc = l] = [pc |-> l, msg |-> kmsg.msg, node |-> kmsg.node]
                /\ [kmsg EXCEPT !.node = n] = [pc |-> kmsg.pc, msg |-> kmsg.msg, node |-> n]
  <2> SUFFICES ASSUME NEW l, NEW n
      PROVE  /\ [kmsg EXCEPT !.pc = l] = [pc |-> l, msg |-> kmsg.msg, node |-> kmsg.node]
             /\ [kmsg EXCEPT !.node = n] = [pc |-> kmsg.pc, msg |-> kmsg.msg, node |-> n]
    OBVIOUS
  <2>1. kmsg = [pc |-> kmsg.pc, msg |-> kmsg.msg, node |-> kmsg.node]
    BY DEF CallInv, KmsgType
  <2>2. [kmsg EXCEPT !.pc = l] = [pc |-> l, msg |-> kmsg.msg, node |-> kmsg.node] BY <2>1
  <2>3. [kmsg EXCEPT !.node = n] = [pc |-> kmsg.pc, msg |-> kmsg.msg, node |-> n] BY <2>1
  <2> QED BY <2>2, <2>3
<1>7. CASE KmsgWake
  <2>1. kmsg' = [pc |-> "pop", msg |-> kmsg.msg, node |-> kmsg.node] /\ sema' = FALSE
    BY <1>6, <1>7 DEF KmsgWake
  <2>2. KmsgType' /\ kmsg'.pc = "pop" /\ kmsg'.node = kmsg.node BY <1>4, <1>5, <2>1
  <2>3. UNCHANGED <<tx, rx, signalled, answer>> BY <1>7 DEF KmsgWake
  <2>4. TypeOK' BY <1>1, <2>1, <2>2, <2>3, <1>4 DEF CallInv, TypeOK
  <2> QED BY <1>1, <1>2, <1>3, <2>2, <2>3, <2>4
          DEF CallInv, Known, KmsgKnown, Answers, Answered, Working
<1>8. CASE KmsgPop /\ rx = <<>>
  <2>1. kmsg' = [pc |-> "wait", msg |-> kmsg.msg, node |-> kmsg.node] BY <1>6, <1>8 DEF KmsgPop
  <2>2. KmsgType' /\ kmsg'.pc = "wait" /\ kmsg'.node = kmsg.node BY <1>4, <1>5, <2>1
  <2>3. UNCHANGED <<tx, rx, signalled, answer, sema>> BY <1>8 DEF KmsgPop
  <2>4. TypeOK' BY <1>1, <2>2, <2>3, <1>4 DEF CallInv, TypeOK
  <2> QED BY <1>1, <1>2, <1>3, <2>2, <2>3, <2>4
          DEF CallInv, Known, KmsgKnown, Answers, Answered, Working
<1>9. CASE KmsgPop /\ rx # <<>>
  <2>1. kmsg' = [pc |-> "pick", msg |-> Head(rx), node |-> None] /\ rx' = Tail(rx)
    BY <1>9 DEF KmsgPop
  <2>2. /\ Tail(rx) \in Seq(Messages) /\ Head(rx) = rx[1] /\ 1 \in 1..Len(rx) /\ rx[1] \in Messages
        /\ \A i \in 1..Len(Tail(rx)) : i + 1 \in 1..Len(rx) /\ Tail(rx)[i] = rx[i + 1]
    BY <1>4, <1>9
  <2>3. Head(rx) \in [kind : {"cfm", "ind"}, id : Ids, of : Requests \cup {None}]
    BY <2>2 DEF Messages
  <2>4. KmsgType' /\ kmsg'.pc = "pick" /\ kmsg'.node = None /\ kmsg'.msg = Head(rx)
    BY <1>5, <2>1, <2>3
  <2>5. UNCHANGED <<tx, signalled, answer, sema>> BY <1>9 DEF KmsgPop
  <2>6. TypeOK' BY <1>1, <2>1, <2>2, <2>4, <2>5 DEF CallInv, TypeOK
  <2>7. \A i \in 1..Len(rx) : rx[i].of \in Begun /\ rx[i].id = want[rx[i].of]
    BY DEF CallInv, Known
  <2>8. Known' BY <1>1, <1>2, <2>1, <2>2, <2>5, <2>7 DEF CallInv, Known
  <2>9. KmsgKnown' BY <1>1, <1>2, <2>2, <2>4, <2>7 DEF KmsgKnown, Working
  <2> QED BY <1>1, <1>2, <1>3, <2>4, <2>5, <2>6, <2>8, <2>9 DEF CallInv, Answers, Answered
<1>10. ASSUME kmsg.pc \in {"pick", "match"}, NEW n \in Requests \cup {None},
              kmsg' = [pc |-> "match", msg |-> kmsg.msg, node |-> n],
              n = None \/ \E i \in 1..Len(tx) : n = tx[i],
              UNCHANGED <<tx, rx, signalled, answer, sema>>
       PROVE  CallInv'
  <2>1. KmsgType' /\ kmsg'.pc = "match" /\ kmsg'.node = n /\ kmsg'.msg = kmsg.msg
    BY <1>4, <1>5, <1>10 DEF Working
  <2>2. TypeOK' BY <1>1, <1>10, <2>1 DEF CallInv, TypeOK, Working
  <2>3. n \in Begun \cup {None} BY <1>10 DEF CallInv, Known
  <2>4. KmsgKnown' BY <1>1, <1>2, <1>10, <2>1, <2>3 DEF CallInv, KmsgKnown, Working
  <2> QED BY <1>1, <1>2, <1>3, <1>10, <2>1, <2>2, <2>4 DEF CallInv, Known, Answers, Answered
<1>11. CASE KmsgPick
  <2> DEFINE n == IF tx = <<>> THEN None ELSE Head(tx)
  <2>1. n = None \/ \E i \in 1..Len(tx) : n = tx[i] BY <1>4
  <2>2. n \in Requests \cup {None} BY <1>4
  <2>3. kmsg' = [pc |-> "match", msg |-> kmsg.msg, node |-> n] /\ kmsg.pc = "pick"
        /\ UNCHANGED <<tx, rx, signalled, answer, sema>>
    BY <1>11 DEF KmsgPick
  <2> HIDE DEF n
  <2> QED BY <1>10, <2>1, <2>2, <2>3
<1>12. CASE KmsgMatch
  <2>0. kmsg.pc = "match" /\ UNCHANGED <<rx, signalled, answer, sema>>
    BY <1>12 DEF KmsgMatch
  <2>1. CASE kmsg.node = None
    <3>1. kmsg' = [pc |-> "pop", msg |-> kmsg.msg, node |-> kmsg.node] /\ tx' = tx
      BY <1>6, <1>12, <2>1 DEF KmsgMatch
    <3>2. KmsgType' /\ kmsg'.pc = "pop" /\ kmsg'.node = kmsg.node BY <1>4, <1>5, <3>1
    <3>3. TypeOK' BY <1>1, <1>4, <2>0, <3>1, <3>2 DEF CallInv, TypeOK
    <3> QED BY <1>1, <1>2, <1>3, <2>0, <3>1, <3>2, <3>3
            DEF CallInv, Known, KmsgKnown, Answers, Answered, Working
  <2>2. CASE kmsg.node # None /\ Matches(kmsg.msg, kmsg.node)
    <3>1. kmsg' = [pc |-> "copy", msg |-> kmsg.msg, node |-> kmsg.node]
          /\ tx' = Without(tx, kmsg.node)
      BY <1>6, <1>12, <2>2 DEF KmsgMatch
    <3>2. KmsgType' /\ kmsg'.pc = "copy" /\ kmsg'.node = kmsg.node /\ kmsg'.msg = kmsg.msg
      BY <1>4, <1>5, <3>1 DEF Working
    <3>3. tx' \in Seq(Requests) /\ \A i \in 1..Len(tx') : \E j \in 1..Len(tx) : tx'[i] = tx[j]
      BY <1>4, <3>1, WithoutFacts
    <3>4. TypeOK' BY <1>1, <1>4, <2>0, <3>2, <3>3 DEF CallInv, TypeOK, Working
    <3>5. Known' BY <1>1, <1>2, <2>0, <3>3 DEF CallInv, Known
    <3>6. KmsgKnown' BY <1>1, <1>2, <2>0, <2>2, <3>2 DEF CallInv, KmsgKnown, Matches, Working
    <3> QED BY <1>1, <1>2, <1>3, <2>0, <3>2, <3>4, <3>5, <3>6 DEF CallInv, Answers, Answered
  <2>3. CASE kmsg.node # None /\ ~Matches(kmsg.msg, kmsg.node)
    <3> DEFINE n == NextNode(kmsg.node)
    <3>1. kmsg' = [kmsg EXCEPT !.node = n] /\ tx' = tx
      BY <1>12, <2>3 DEF KmsgMatch
    <3>2. n = None \/ \E i \in 1..Len(tx) : n = tx[i] BY NextNodeListed
    <3> HIDE DEF n
    <3>3. n \in Requests \cup {None} BY <1>4, <3>2
    <3> QED BY <1>6, <1>10, <2>0, <3>1, <3>2, <3>3
  <2> QED BY <2>1, <2>2, <2>3
<1>13. CASE KmsgCopy
  <2>1. kmsg' = [pc |-> "signal", msg |-> kmsg.msg, node |-> kmsg.node]
        /\ answer' = [answer EXCEPT ![kmsg.node] = kmsg.msg.of] /\ kmsg.pc = "copy"
        /\ UNCHANGED <<tx, rx, signalled, sema>>
    BY <1>6, <1>13 DEF KmsgCopy
  <2>2. KmsgType' /\ kmsg'.pc = "signal" /\ kmsg'.node = kmsg.node /\ kmsg'.msg = kmsg.msg
    BY <1>4, <1>5, <2>1 DEF Working
  <2>3. kmsg.node \in Begun /\ kmsg.msg.of \in Begun /\ want[kmsg.msg.of] = want[kmsg.node]
    BY <2>1 DEF CallInv, KmsgKnown, Working
  <2>4. Begun \subseteq Requests BY DEF Begun
  <2>5. answer \in [Requests -> Requests \cup {None}] BY DEF CallInv, TypeOK
  <2>6. answer' \in [Requests -> Requests \cup {None}] BY <2>1, <2>3, <2>4, <2>5
  <2>7. TypeOK' BY <1>1, <1>4, <2>1, <2>2, <2>6 DEF CallInv, TypeOK, Working
  <2>8. \A r \in Requests : answer'[r] = IF r = kmsg.node THEN kmsg.msg.of ELSE answer[r]
    BY <2>1, <2>5
  <2>9. ASSUME NEW r \in Requests, Answered(r) \/ r = kmsg.node PROVE Answered(r)'
    BY <1>1, <1>2, <2>3, <2>8, <2>9 DEF Answered
  <2>10. \A r \in signalled : r \in Requests BY DEF CallInv, TypeOK
  <2>11. Answers' BY <1>1, <2>1, <2>2, <2>3, <2>4, <2>9, <2>10 DEF CallInv, Answers
  <2>12. Known' BY <1>1, <1>2, <2>1 DEF CallInv, Known
  <2>13. KmsgKnown' BY <1>1, <1>2, <2>1, <2>2 DEF CallInv, KmsgKnown, Working
  <2> QED BY <1>3, <2>2, <2>7, <2>11, <2>12, <2>13 DEF CallInv
<1>14. CASE KmsgSignal
  <2>1. kmsg' = [pc |-> "pop", msg |-> kmsg.msg, node |-> kmsg.node] /\ kmsg.pc = "signal"
        /\ signalled' \subseteq signalled \cup {kmsg.node} /\ signalled' \subseteq signalled \cup live
        /\ UNCHANGED <<tx, rx, answer, sema>>
    BY <1>6, <1>14 DEF KmsgSignal, Usable
  <2>2. KmsgType' /\ kmsg'.pc = "pop" /\ kmsg'.node = kmsg.node BY <1>4, <1>5, <2>1
  <2>3. TypeOK' BY <1>1, <1>4, <2>1, <2>2 DEF CallInv, TypeOK
  <2>4. Answers' BY <1>1, <1>2, <2>1, <2>2 DEF CallInv, Answers, Answered
  <2>5. Known' BY <1>1, <1>2, <2>1 DEF CallInv, Known
  <2>6. KmsgKnown' BY <2>2 DEF KmsgKnown, Working
  <2> QED BY <1>3, <2>2, <2>3, <2>4, <2>5, <2>6 DEF CallInv
<1>15. CASE KmsgStray
  <2>1. kmsg' = [pc |-> "stray", msg |-> kmsg.msg, node |-> kmsg.node]
        /\ kmsg.pc \in Working /\ kmsg.node # None
        /\ UNCHANGED <<tx, rx, signalled, answer, sema>>
    BY <1>6, <1>15 DEF KmsgStray, Working
  <2>2. KmsgType' /\ kmsg'.pc = "stray" /\ kmsg'.node = kmsg.node BY <1>4, <1>5, <2>1
  <2>3. TypeOK' BY <1>1, <1>4, <2>1, <2>2 DEF CallInv, TypeOK
  <2>4. KmsgKnown' BY <1>2, <2>1, <2>2 DEF CallInv, KmsgKnown, Working
  <2> QED BY <1>1, <1>2, <1>3, <2>1, <2>2, <2>3, <2>4 DEF CallInv, Known, Answers, Answered
<1> QED BY <1>7, <1>8, <1>9, <1>11, <1>12, <1>13, <1>14, <1>15 DEF Kmsg

\* Every step keeps the invariant of the calls.
LEMMA CallInvStep == CallInv /\ [Next]_vars => CallInv'
<1> SUFFICES ASSUME CallInv, [Next]_vars PROVE CallInv'
  OBVIOUS
<1>1. CASE UNCHANGED vars
  BY <1>1 DEF vars, sender, chip, CallInv, TypeOK, KmsgType, Held, NodesOwned, Mine, Known,
             KmsgKnown, Answers, Answered, Begun
<1> QED BY <1>1, BeginStep, SendStep, ChipStep, KmsgStep DEF Next

\* A call that returned 0 has in its buffer a confirmation with the id it asked
\* for, even if a sender may run while the kmsg task works.
THEOREM OkMeansAnswered == Spec => []AnsweredWhenOk
<1>1. CallInv => AnsweredWhenOk
  BY NoneIsNoRequest DEF CallInv, Answers, Answered, AnsweredWhenOk, Begun
<1> QED BY <1>1, CallInvInit, CallInvStep, PTL DEF Spec

-----------------------------------------------------------------------------
(* The list of pending requests.                                           *)

\* A sender below the kmsg task runs only while that has nothing in its hands.
LEMMA SenderRuns ==
    ASSUME NEW s \in Senders, Send(s) \/ \E id \in Ids : Begin(s, id)
    PROVE  kmsg' = kmsg /\ (s \in Peers \/ kmsg.pc \in {"wait", "stray"})
BY DEF MayRun, Send, Begin, Park, Post, Wake, Timeout, Unpark, Free

\* The step of a sender that leaves its node as it is keeps the node in hand.
LEMMA HandKept ==
    ASSUME CallInv, ListInv, NEW s \in Senders, kmsg' = kmsg, live' = live, signalled' = signalled,
           result' = result, pc[s] # "idle", pc' = [pc EXCEPT ![s] = pc'[s]],
           kmsg.pc \in Working /\ kmsg.node = Mine(s) =>
              (pc[s] \in Parked \cup {"free"} => pc'[s] \in Parked \cup {"free"}),
           kmsg.pc \in {"copy", "signal"} => \A i \in 1..Len(tx') : tx'[i] # kmsg.node
    PROVE  InHand'
<1>0. pc \in [Senders -> {"idle", "park", "post", "wait", "unpark", "free"}] /\ live \subseteq Requests
  BY DEF CallInv, TypeOK
<1>1. \A r \in live : r.by \in Senders /\ r = Mine(r.by)
  BY <1>0 DEF CallInv, Held, NodesOwned, Requests
<1>2. ASSUME kmsg.pc \in Working, kmsg.node # None, kmsg.node \in live
      PROVE  pc'[kmsg.node.by] \in Parked \cup {"free"}
  <2>1. pc[kmsg.node.by] \in Parked \cup {"free"} BY <1>2 DEF ListInv, InHand
  <2>2. kmsg.node.by \in Senders /\ kmsg.node = Mine(kmsg.node.by) BY <1>1, <1>2
  <2>3. CASE kmsg.node.by = s BY <1>2, <2>1, <2>2, <2>3
  <2>4. CASE kmsg.node.by # s BY <1>0, <2>1, <2>2, <2>4
  <2> QED BY <2>3, <2>4
<1>3. Failed(kmsg.node)' = Failed(kmsg.node) BY DEF Failed
<1> QED BY <1>2, <1>3 DEF ListInv, InHand

\* Every step keeps the nodes on the list, and in the kmsg task's hands, so.
LEMMA ListInvStep ==
    ASSUME CallInv, ListInv, [Next]_vars
    PROVE  ListInv'
<1>0. /\ tx \in Seq(Requests) /\ live \subseteq Requests /\ signalled \subseteq Requests
      /\ pc \in [Senders -> {"idle", "park", "post", "wait", "unpark", "free"}]
      /\ result \in [Requests -> {"none", "ok", "error"}]
  BY DEF CallInv, TypeOK
<1>t. tx \in Seq(Requests) BY DEF CallInv, TypeOK
<1>1. \A r \in live : r.by \in Senders /\ r = Mine(r.by) /\ pc[r.by] # "idle"
  BY <1>0 DEF CallInv, Held, NodesOwned, Requests
<1>2. ASSUME UNCHANGED <<pc, tx, live, signalled, kmsg, result>> PROVE ListInv'
  BY <1>2 DEF ListInv, Listed, Given, InHand, Failed
<1>b. /\ kmsg.pc \in Working => kmsg.node \in Begun \cup {None}
      /\ kmsg.pc = "stray" => kmsg.node \in Begun
  BY DEF CallInv, KmsgKnown
<1>3. ASSUME NEW s \in Senders, NEW id \in Ids, Begin(s, id) PROVE ListInv'
  <2> DEFINE r == [by |-> s, n |-> count[s] + 1]
  <2>1. kmsg' = kmsg BY <1>3, SenderRuns
  <2>2. pc[s] = "idle" /\ UNCHANGED <<tx, signalled>> /\ live' \in {live, live \cup {r}}
        /\ (pc' = pc \/ pc' = [pc EXCEPT ![s] = "park"])
        /\ (result' = result \/ result' = [result EXCEPT ![r] = "error"])
    BY <1>3 DEF Begin
  <2>3. \A q \in live : pc'[q.by] = pc[q.by]
    BY <1>0, <1>1, <2>2
  <2>4. r \notin Begun
    <3>1. count[s] \in Nat BY DEF CallInv, TypeOK
    <3> QED BY <3>1 DEF Begun
  <2> HIDE DEF r
  <2>5. \A q \in Begun : result'[q] = result[q] /\ (q \in live' <=> q \in live)
    BY <1>0, <2>2, <2>4 DEF Begun
  <2>6. InHand'
    <3>1. ASSUME kmsg.node \in Begun
          PROVE  /\ Failed(kmsg.node)' = Failed(kmsg.node) /\ (kmsg.node \in live' <=> kmsg.node \in live)
                 /\ kmsg.node \in live => pc'[kmsg.node.by] = pc[kmsg.node.by]
      BY <2>1, <2>3, <2>5, <3>1 DEF Failed
    <3>2. CASE kmsg.pc \in Working /\ kmsg.node = None
      BY <2>1, <2>2, <3>2 DEF ListInv, InHand, Working
    <3>3. CASE kmsg.pc \in Working /\ kmsg.node # None
      BY <1>b, <2>1, <2>2, <3>1, <3>3 DEF ListInv, InHand, Working
    <3>4. CASE kmsg.pc = "stray" BY <1>b, <2>1, <2>2, <3>1, <3>4 DEF ListInv, InHand, Working
    <3>5. CASE kmsg.pc \notin Working \cup {"stray"} BY <2>1, <3>5 DEF InHand, Working
    <3> QED BY <3>2, <3>3, <3>4, <3>5
  <2>7. Listed' /\ Given' BY <2>2, <2>3 DEF ListInv, Listed, Given
  <2> QED BY <2>6, <2>7 DEF ListInv
<1>4. ASSUME NEW s \in Senders, Send(s) PROVE ListInv'
  <2>1. kmsg' = kmsg /\ (s \in Peers \/ kmsg.pc \in {"wait", "stray"}) BY <1>4, SenderRuns
  <2>3. \A r \in live : r # Mine(s) => r.by # s BY <1>1
  <2>4. Mine(s).by = s BY DEF Mine
  <2>5. CASE Park(s)
    <3>1. pc[s] = "park" /\ tx' = Append(tx, Mine(s)) /\ pc' = [pc EXCEPT ![s] = "post"]
          /\ UNCHANGED <<live, signalled, result>>
      BY <2>5 DEF Park
    <3>2. Mine(s) \in live /\ Mine(s) \in Requests BY <1>0, <3>1 DEF CallInv, Held
    <3>3. Mine(s) \notin signalled /\ \A i \in 1..Len(tx) : tx[i] # Mine(s)
      BY <2>4, <3>1 DEF ListInv, Listed, Given, Parked
    <3>4. \A r \in live : pc'[r.by] = IF r = Mine(s) THEN "post" ELSE pc[r.by]
      BY <1>0, <1>1, <2>3, <2>4, <3>1
    <3>5. Len(tx') = Len(tx) + 1 /\ tx'[Len(tx) + 1] = Mine(s)
          /\ \A i \in 1..Len(tx) : tx'[i] = tx[i]
      BY <1>0, <3>1, <3>2
    <3>6. Len(tx) \in Nat BY <1>0
    <3>7. Listed'
      <4>1. \A i, j \in 1..Len(tx') : tx'[i] = tx'[j] => i = j
        BY <3>3, <3>5, <3>6 DEF ListInv, Listed
      <4>2. \A i \in 1..Len(tx') : tx'[i] \in live' \ signalled' /\ pc'[tx'[i].by] \in Parked
        BY <3>1, <3>2, <3>3, <3>4, <3>5, <3>6 DEF ListInv, Listed, Parked
      <4> QED BY <4>1, <4>2 DEF Listed
    <3>8. Given' BY <3>1, <3>3, <3>4 DEF ListInv, Given
    <3>9. ASSUME kmsg.pc \in {"copy", "signal"} PROVE kmsg.node # Mine(s)
      <4>1. kmsg.node # None BY <3>9, NoneIsNoRequest DEF CallInv, KmsgKnown, Begun
      <4>2. kmsg.node \in live => pc[kmsg.node.by] \in Parked \cup {"free"}
        BY <3>9, <4>1 DEF ListInv, InHand, Working
      <4> QED BY <2>4, <3>1, <3>2, <4>2 DEF Parked
    <3>10. kmsg.pc \in {"copy", "signal"} => \A i \in 1..Len(tx') : tx'[i] # kmsg.node
      BY <3>5, <3>6, <3>9 DEF ListInv, InHand
    <3>11. pc'[s] = "post" BY <1>0, <3>1
    <3>12. InHand' BY <2>1, <3>1, <3>10, <3>11, HandKept DEF Parked
    <3> QED BY <3>7, <3>8, <3>12 DEF ListInv
  <2>6. CASE Post(s) \/ Timeout(s)
    <3>1. pc[s] \in Parked /\ UNCHANGED <<tx, live, signalled, result>>
          /\ \E l \in Parked : pc' = [pc EXCEPT ![s] = l]
      BY <2>6 DEF Post, Timeout, Parked
    <3>2. pc'[s] \in Parked /\ pc' = [pc EXCEPT ![s] = pc'[s]] /\ \A p \in Senders \ {s} : pc'[p] = pc[p]
      BY <1>0, <3>1
    <3>3. \A r \in live : pc[r.by] \in Parked => pc'[r.by] \in Parked
      BY <1>1, <3>2
    <3>4. \A r \in live : pc[r.by] \in Parked \cup {"free"} => pc'[r.by] \in Parked \cup {"free"}
      BY <1>1, <3>2
    <3>5. pc[s] # "idle" BY <3>1 DEF Parked
    <3>6. kmsg.pc \in {"copy", "signal"} => \A i \in 1..Len(tx') : tx'[i] # kmsg.node
      BY <3>1 DEF ListInv, InHand
    <3>7. InHand' BY <2>1, <3>1, <3>2, <3>5, <3>6, HandKept
    <3> QED BY <3>1, <3>3, <3>4, <3>7 DEF ListInv, Listed, Given
  <2>7. CASE Wake(s) \/ Free(s)
    <3>1. /\ live' = live \ {Mine(s)} /\ signalled' = signalled \ {Mine(s)} /\ tx' = tx
          /\ pc' = [pc EXCEPT ![s] = "idle"]
          /\ Mine(s) \in signalled \/ pc[s] = "free"
      BY <2>7 DEF Wake, Free, Finish
    <3>2. \A i \in 1..Len(tx) : tx[i] # Mine(s)
      BY <2>4, <3>1 DEF ListInv, Listed, Parked
    <3>3. \A r \in live' : pc'[r.by] = pc[r.by] BY <1>0, <1>1, <2>3, <3>1
    <3>4. Mine(s) \in live /\ Mine(s) \in Requests
      BY <1>0, <2>7 DEF CallInv, Held, Wake, Free
    <3>5. \A r \in Requests \ {Mine(s)} : result'[r] = result[r]
      BY <1>0, <2>7, <3>4 DEF Wake, Free, Finish
    <3>6. ASSUME kmsg.pc \in Working, kmsg.node = Mine(s) PROVE Failed(kmsg.node)'
      <4>1. s \in Peers BY <2>1, <3>6 DEF Working
      <4>2. kmsg.node # None /\ kmsg.node \notin signalled
        BY <3>4, <3>6, NoneIsNoRequest DEF ListInv, InHand
      <4>3. Free(s) BY <2>7, <3>6, <4>2 DEF Wake
      <4>4. result'[Mine(s)] = "error" BY <1>0, <3>4, <4>3 DEF Free, Finish
      <4> QED BY <2>1, <2>4, <3>6, <4>1, <4>4 DEF Failed
    <3>7. ASSUME kmsg.node \in Requests, kmsg.node # Mine(s)
          PROVE  /\ Failed(kmsg.node)' = Failed(kmsg.node) /\ (kmsg.node \in live' <=> kmsg.node \in live)
                 /\ (kmsg.node \in live => pc'[kmsg.node.by] = pc[kmsg.node.by])
                 /\ (kmsg.node \in signalled' <=> kmsg.node \in signalled)
      BY <2>1, <3>1, <3>3, <3>5, <3>7 DEF Failed
    <3>8. InHand'
      <4>1. CASE kmsg.pc \in Working /\ kmsg.node = Mine(s)
        BY <2>1, <3>1, <3>2, <3>6, <4>1 DEF InHand, Working
      <4>2. CASE kmsg.pc \in Working /\ kmsg.node = None
        BY <2>1, <3>1, <4>2 DEF ListInv, InHand, Working
      <4>3. CASE kmsg.pc \in Working /\ kmsg.node \notin {None, Mine(s)}
        <5>1. kmsg.node \in Requests BY <1>b, <4>3 DEF Begun
        <5> QED BY <2>1, <3>1, <3>7, <4>3, <5>1 DEF ListInv, InHand, Working
      <4>4. CASE kmsg.pc = "stray"
        <5>1. kmsg.node \in Requests BY <1>b, <4>4 DEF Begun
        <5>2. kmsg.node \notin live BY <4>4 DEF ListInv, InHand
        <5> QED BY <2>1, <3>4, <3>7, <4>4, <5>1, <5>2 DEF ListInv, InHand, Working
      <4>5. CASE kmsg.pc \notin Working \cup {"stray"} BY <2>1, <4>5 DEF InHand, Working
      <4> QED BY <4>1, <4>2, <4>3, <4>4, <4>5
    <3> QED BY <3>1, <3>2, <3>3, <3>8 DEF ListInv, Listed, Given
  <2>8. CASE Unpark(s)
    <3>1. tx' = Without(tx, Mine(s)) /\ pc' = [pc EXCEPT ![s] = "free"] /\ pc[s] = "unpark"
          /\ UNCHANGED <<live, signalled, result>>
      BY <2>8 DEF Unpark
    <3>2. \A i, j \in 1..Len(tx) : tx[i] = tx[j] => i = j BY DEF ListInv, Listed
    <3>3. /\ \A i, j \in 1..Len(tx') : tx'[i] = tx'[j] => i = j
          /\ \A i \in 1..Len(tx') : tx'[i] # Mine(s) /\ \E j \in 1..Len(tx) : tx'[i] = tx[j]
      BY <1>t, <3>1, <3>2, Extracted
    <3>4. \A r \in live : pc'[r.by] = IF r = Mine(s) THEN "free" ELSE pc[r.by]
      BY <1>0, <1>1, <2>3, <2>4, <3>1
    <3>5. kmsg.pc \in {"copy", "signal"} => \A i \in 1..Len(tx') : tx'[i] # kmsg.node
      BY <3>3 DEF ListInv, InHand
    <3>6. pc'[s] = "free" BY <1>0, <3>1
    <3>7. InHand' BY <2>1, <3>1, <3>5, <3>6, HandKept
    <3> QED BY <3>1, <3>3, <3>4, <3>7 DEF ListInv, Listed, Given
  <2> QED BY <1>4, <2>5, <2>6, <2>7, <2>8 DEF Send
<1>5. CASE Kmsg
  <2>0. pc' = pc /\ live' = live /\ result' = result
    BY <1>5 DEF Kmsg, KmsgWake, KmsgPop, KmsgPick, KmsgMatch, KmsgCopy, KmsgSignal, KmsgStray, sender
  <2>1. ASSUME UNCHANGED <<tx, signalled>>, kmsg'.pc \in {"wait", "pop", "pick"} PROVE ListInv'
    BY <2>0, <2>1 DEF ListInv, Listed, Given, InHand, Working
  <2>2. ASSUME UNCHANGED <<tx, signalled>>, kmsg'.pc = "match",
               kmsg'.node = None \/ \E i \in 1..Len(tx) : kmsg'.node = tx[i]
        PROVE  ListInv'
    BY <2>0, <2>2 DEF ListInv, Listed, Given, InHand, Working
  <2>3. \A l : [kmsg EXCEPT !.pc = l].pc = l /\ [kmsg EXCEPT !.pc = l].node = kmsg.node
    BY DEF CallInv, KmsgType
  <2>4. \A n : [kmsg EXCEPT !.node = n].pc = kmsg.pc /\ [kmsg EXCEPT !.node = n].node = n
    BY DEF CallInv, KmsgType
  <2>5. CASE KmsgWake BY <2>1, <2>3, <2>5 DEF KmsgWake
  <2>6. CASE KmsgPop
    <3>1. UNCHANGED <<tx, signalled>> BY <2>6 DEF KmsgPop
    <3>2. kmsg' = [kmsg EXCEPT !.pc = "wait"] \/ kmsg'.pc = "pick" BY <2>6 DEF KmsgPop
    <3> QED BY <2>1, <2>3, <3>1, <3>2
  <2>7. CASE KmsgPick
    <3> DEFINE n == IF tx = <<>> THEN None ELSE Head(tx)
    <3>1. n = None \/ \E i \in 1..Len(tx) : n = tx[i] BY <1>0
    <3>2. kmsg'.pc = "match" /\ kmsg'.node = n /\ UNCHANGED <<tx, signalled>>
      BY <2>7 DEF KmsgPick
    <3> HIDE DEF n
    <3> QED BY <2>2, <3>1, <3>2
  <2>8. CASE KmsgMatch
    <3>1. kmsg.pc = "match" /\ signalled' = signalled /\ (kmsg.node = None \/ kmsg.node \in live)
      BY <2>8 DEF KmsgMatch, Usable
    <3>2. CASE kmsg.node = None BY <2>1, <2>3, <2>8, <3>1, <3>2 DEF KmsgMatch
    <3>3. CASE kmsg.node # None /\ ~Matches(kmsg.msg, kmsg.node)
      <4>1. kmsg' = [kmsg EXCEPT !.node = NextNode(kmsg.node)] /\ tx' = tx
        BY <2>8, <3>3 DEF KmsgMatch
      <4>2. kmsg'.pc = "match" /\ kmsg'.node = NextNode(kmsg.node) BY <2>4, <3>1, <4>1
      <4> QED BY <2>2, <3>1, <4>1, <4>2, NextNodeListed
    <3>4. CASE kmsg.node # None /\ Matches(kmsg.msg, kmsg.node)
      <4>1. kmsg' = [kmsg EXCEPT !.pc = "copy"] /\ tx' = Without(tx, kmsg.node)
        BY <2>8, <3>4 DEF KmsgMatch
      <4>2. kmsg'.pc = "copy" /\ kmsg'.node = kmsg.node BY <2>3, <4>1
      <4>3. \A i, j \in 1..Len(tx) : tx[i] = tx[j] => i = j BY DEF ListInv, Listed
      <4>4. /\ \A i, j \in 1..Len(tx') : tx'[i] = tx'[j] => i = j
            /\ \A i \in 1..Len(tx') : tx'[i] # kmsg.node /\ \E j \in 1..Len(tx) : tx'[i] = tx[j]
        BY <1>t, <4>1, <4>3, Extracted
      <4>5. kmsg.node \in live \ signalled /\ pc[kmsg.node.by] \in Parked \cup {"free"}
        BY <3>1, <3>4 DEF ListInv, InHand, Working
      <4>6. Listed' /\ Given' BY <2>0, <3>1, <4>4 DEF ListInv, Listed, Given
      <4>7. InHand' BY <2>0, <3>1, <4>2, <4>4, <4>5 DEF InHand
      <4> QED BY <4>6, <4>7 DEF ListInv
    <3> QED BY <3>2, <3>3, <3>4
  <2>9. CASE KmsgCopy
    <3>1. kmsg.pc = "copy" /\ kmsg'.pc = "signal" /\ kmsg'.node = kmsg.node /\ UNCHANGED <<tx, signalled>>
      BY <2>3, <2>9 DEF KmsgCopy
    <3>2. Failed(kmsg.node)' = Failed(kmsg.node) BY <2>0, <3>1 DEF Failed
    <3> QED BY <2>0, <3>1, <3>2 DEF ListInv, Listed, Given, InHand, Working, Failed
  <2>10. CASE KmsgSignal
    <3>1. /\ kmsg.pc = "signal" /\ kmsg'.pc = "pop" /\ tx' = tx /\ signalled' = signalled \cup {kmsg.node}
          /\ kmsg.node \in live
      BY <2>3, <2>10 DEF KmsgSignal, Usable
    <3>2. kmsg.node # None BY <1>0, <3>1, NoneIsNoRequest
    <3>3. pc[kmsg.node.by] \in Parked \cup {"free"} BY <3>1, <3>2 DEF ListInv, InHand, Working
    <3>4. InHand' BY <3>1 DEF InHand, Working
    <3> QED BY <2>0, <3>1, <3>3, <3>4 DEF ListInv, Listed, Given, InHand
  <2>11. CASE KmsgStray
    <3>1. /\ kmsg.pc \in Working /\ kmsg.node # None /\ kmsg.node \notin live
          /\ kmsg'.pc = "stray" /\ kmsg'.node = kmsg.node /\ UNCHANGED <<tx, signalled>>
      BY <2>3, <2>11 DEF KmsgStray, Usable, Working
    <3>2. Failed(kmsg.node) BY <3>1 DEF ListInv, InHand
    <3>3. InHand' BY <2>0, <3>1, <3>2 DEF InHand, Working, Failed
    <3> QED BY <2>0, <3>1, <3>3 DEF ListInv, Listed, Given
  <2> QED BY <1>5, <2>5, <2>6, <2>7, <2>8, <2>9, <2>10, <2>11 DEF Kmsg
<1>6. CASE CoreTask \/ \E r \in Requests : Answer(r) \/ Indicate(r)
  BY <1>2, <1>6 DEF CoreTask, Answer, Indicate, sender
<1>7. CASE UNCHANGED vars BY <1>2, <1>7 DEF vars, sender
<1> QED BY <1>3, <1>4, <1>5, <1>6, <1>7 DEF Next

\* The list is empty at first.
LEMMA ListInvInit == Init => ListInv
BY DEF Init, ListInv, Listed, Given, InHand, Working

\* The kmsg task meets a freed node only if its call failed and was made by a task
\* that it does not outrank; F15 of docs/known_issues.md has no other form.
THEOREM OnlyFailedPeersFree == Spec => []FreedOnlyByFailedPeer
<1>1. ListInv => FreedOnlyByFailedPeer
  BY DEF ListInv, InHand, FreedOnlyByFailedPeer, Failed
<1>2. CallInv /\ ListInv /\ [Next]_vars => ListInv' BY ListInvStep
<1> QED BY <1>1, <1>2, ListInvInit, CallInvInit, CallInvStep, PTL DEF Spec

\* No call of rw_msg_send() leaves a node allocated or an entry on the list of
\* pending requests.
THEOREM NoNodeLeft == Spec => []NothingLeftBehind
<1>1. CallInv /\ ListInv => NothingLeftBehind
  BY DEF CallInv, Held, ListInv, Listed, EntriesOwned, NothingLeftBehind
<1>2. CallInv /\ ListInv /\ [Next]_vars => ListInv' BY ListInvStep
<1> QED BY <1>1, <1>2, ListInvInit, CallInvInit, CallInvStep, PTL DEF Spec
=============================================================================
