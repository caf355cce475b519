------------------------- MODULE AccessPointProofs -------------------------
(***************************************************************************)
(* Proofs about the access point and its DHCP server, for every table      *)
(* size, queue length and set of clients and stations: the server's state  *)
(* outlives its task, the client table tells the data path the truth,      *)
(* without a fault no station is left behind, and an address is taken from *)
(* the client silent longest.                                              *)
(***************************************************************************)
EXTENDS AccessPoint, SequenceTheorems, WellFoundedInduction, TLAPS

Frame  == [kind : Kinds, mac : Macs]
Row    == [st : {"free", "authed", "assoc"}, mac : Macs \cup {None}, sta : Stations \cup {None}]
Task   == [pc : {"idle", "auth", "assoc", "leave", "enter", "del", "add", "added"},
           kind : Kinds \cup {"none"}, mac : Macs \cup {None}, row : Rows, sta : Stations \cup {None}]
Lmac   == [on : BOOLEAN, sta : [Stations -> Macs \cup {None}]]

TypeOK ==
    /\ running \in BOOLEAN
    /\ session \in {"free", "task", "ctl"}
    /\ clients \in [Rows -> Row]
    /\ queue \in Seq(Frame)
    /\ task \in Task
    /\ ctl \in {"idle", "starting", "started", "dhcp", "unlink", "wait", "drop", "quiet"}
    /\ lmac \in Lmac
    /\ used \in [starts : Nat, frames : Nat, messages : Nat, faults : Nat]

\* The session lock is held by the task while it has a frame in hand, and by
\* wifi_ap_stop() while it drops the clients.
Locked ==
    /\ task.pc # "idle" <=> session = "task"
    /\ ctl = "drop" <=> session = "ctl"

\* s_running is set from wifi_ap_start() to wifi_ap_stop().
Phase ==
    /\ ctl \in {"starting", "started", "dhcp"} => running
    /\ ctl \in {"unlink", "wait", "drop", "quiet"} => ~running

\* A free row is empty, and a row names a station just when it is associated:
\* one the LMAC has, and for the row's client.  A frame in hand across a restart
\* of the access point associates a row that has no client: its station is still
\* one the LMAC has.
RowTrue(i) ==
    /\ clients[i].st = "free" => clients[i] = FreeRow
    /\ clients[i].st = "authed" => clients[i].sta = None
    /\ clients[i].st = "assoc" =>
          /\ clients[i].sta \in Stations /\ lmac.sta[clients[i].sta] # None
          /\ clients[i].mac \in {None, lmac.sta[clients[i].sta]}

Table == \A i \in Rows : RowTrue(i)

\* No two rows name the same station.
Apart ==
    \A i, j \in Rows : i # j /\ clients[i].st = "assoc" /\ clients[j].st = "assoc" => clients[i].sta # clients[j].sta

\* The station in the task's hand is one the LMAC has and no row names.
HandStation ==
    task.pc \in {"del", "added"} =>
        /\ task.sta \in Stations /\ lmac.sta[task.sta] # None
        /\ \A i \in Rows : clients[i].st = "assoc" => clients[i].sta # task.sta

\* The row in the task's hand is its client's, or empty after a restart.
Hand ==
    /\ task.pc # "idle" => task.mac \in Macs
    /\ task.pc \in {"auth", "enter"} => task.kind = "auth"
    /\ task.pc \in {"assoc", "add", "added"} => task.kind = "assoc"
    /\ task.pc = "leave" => task.kind = "leave"
    /\ task.pc = "del" => task.kind \in {"auth", "assoc", "leave"}
    /\ task.pc = "added" => lmac.sta[task.sta] = task.mac
    /\ (task.pc \in {"add", "added", "del"} /\ task.kind = "assoc") =>
          clients[task.row].st # "assoc" /\ clients[task.row].mac \in {None, task.mac}

\* Without a fault, a stopped access point has no frame in hand and no client.
Stopped ==
    (used.faults = 0 /\ ~running /\ ctl \in {"idle", "quiet"}) =>
        task.pc = "idle" /\ \A i \in Rows : clients[i].st = "free"

ApInv ==
    /\ TypeOK /\ Locked /\ Phase
    /\ Table /\ Apart /\ HandStation /\ Hand
    /\ Stopped /\ NoOrphanStation

\* The task has its state until it has given the semaphore, and the semaphore
\* is given only to a stop.
DhcpInv ==
    /\ dhcp \in [live : BOOLEAN, stop : BOOLEAN, given : BOOLEAN, task : BOOLEAN]
    /\ dhcp.task => dhcp.live /\ ~dhcp.given
    /\ dhcp.stop \/ dhcp.given => dhcp.live

-----------------------------------------------------------------------------
(* The DHCP server.                                                        *)

\* Every step keeps the task's state allocated.
LEMMA DhcpInvStep == DhcpInv /\ [Next]_vars => DhcpInv'
<1> SUFFICES ASSUME DhcpInv, [Next]_vars PROVE DhcpInv'
  OBVIOUS
<1>1. ASSUME UNCHANGED dhcp PROVE DhcpInv'
  BY <1>1 DEF DhcpInv
<1>2. ASSUME StopAsk PROVE DhcpInv'
  BY <1>2 DEF StopAsk, DhcpInv
<1>3. ASSUME StopTaken PROVE DhcpInv'
  BY <1>3 DEF StopTaken, Freed, DhcpInv
<1>4. ASSUME NEW ok \in BOOLEAN, Create(ok) PROVE DhcpInv'
  <2>1. CASE dhcp.live BY <1>1, <1>4, <2>1 DEF Create, dhcpVars
  <2>2. CASE ~dhcp.live
    <3>1. dhcp' = [live |-> ok, stop |-> FALSE, given |-> FALSE, task |-> ok]
      BY <1>4, <2>2 DEF Create, Freed, DhcpInv
    <3> QED BY <3>1 DEF DhcpInv
  <2> QED BY <2>1, <2>2
<1>5. ASSUME TaskStops PROVE DhcpInv'
  BY <1>5 DEF TaskStops, DhcpInv
<1>6. CASE DhcpStart
  BY <1>1, <1>3, <1>4, <1>6 DEF DhcpStart, StopTimesOut
<1>7. CASE DhcpStop
  BY <1>1, <1>3, <1>7 DEF DhcpStop, StopTimesOut, StopNothing
<1>8. CASE LinkUp
  BY <1>1, <1>2, <1>8 DEF LinkUp, dhcpVars
<1>9. CASE Stop
  BY <1>2, <1>9 DEF Stop
<1>10. CASE \E m \in Macs : Message(m)
  BY <1>1, <1>10 DEF Message, OnMessage
<1>11. CASE UNCHANGED dhcpVars
  BY <1>1, <1>11 DEF dhcpVars
<1>12. CASE UNCHANGED vars
  BY <1>11, <1>12 DEF vars
<1>13. CASE \E m \in Macs, k \in Kinds : Arrives(k, m)
  BY <1>11, <1>13 DEF Arrives
<1>14. CASE Receive \/ StaDel \/ OnAuth \/ Enter \/ OnAssoc \/ StaAdd \/ Associated \/ OnLeave
  BY <1>11, <1>14 DEF Receive, StaDel, OnAuth, Enter, OnAssoc, StaAdd, Associated, OnLeave
<1>15. CASE Start \/ Beacons \/ StartFails \/ TakeSession \/ DropNext \/ Dropped \/ Quiet
  BY <1>11, <1>15 DEF Start, Beacons, StartFails, TakeSession, DropNext, Dropped, Quiet
<1> QED BY <1>5, <1>6, <1>7, <1>8, <1>9, <1>10, <1>12, <1>13, <1>14, <1>15 DEF Next

\* dhcp_server_stop() and dhcp_server_start() never free the state under the
\* task, however many stops were given up and however late the task answers.
THEOREM StateOutlivesTask == Spec => []NoUseAfterFree
<1>1. Init => DhcpInv
  BY DEF Init, DhcpInit, DhcpInv
<1>2. DhcpInv => NoUseAfterFree
  BY DEF DhcpInv, NoUseAfterFree
<1> QED BY <1>1, <1>2, DhcpInvStep, PTL DEF Spec

-----------------------------------------------------------------------------
(* The access point.                                                       *)

\* A set of naturals that is not empty has a least element.
LEMMA LeastOf ==
    ASSUME NEW S \in SUBSET Nat, S # {}
    PROVE  Min(S) \in S /\ \A y \in S : Min(S) <= y
<1> DEFINE R == OpToRel(<, Nat)
<1>0. IsWellFoundedOn(R, Nat)
  BY NatLessThanWellFounded, Zenon
<1>a. \A x, y \in S : ~(<<y, x>> \in R) => x <= y
  BY DEF OpToRel
<1> HIDE DEF R
<1>1. \E x \in S : \A y \in S : ~(<<y, x>> \in R)
  <2>1. S \subseteq Nat OBVIOUS
  <2> QED BY <1>0, <2>1, WFMin
<1>2. \E x \in S : \A y \in S : x <= y
  BY <1>1, <1>a
<1> QED BY <1>2 DEF Min

\* The row ap_clients_find() returns.
LEMMA FoundRow ==
    ASSUME TypeOK, NEW m, RowOf(m) # {}
    PROVE  LET i == Min(RowOf(m)) IN i \in Rows /\ clients[i].st # "free" /\ clients[i].mac = m
<1>1. RowOf(m) \in SUBSET Nat BY DEF RowOf, Rows
<1>2. Min(RowOf(m)) \in RowOf(m) BY <1>1, LeastOf
<1> QED BY <1>2 DEF RowOf

\* Every step keeps the bounds in their types, and undoes no fault.
LEMMA SpendStep ==
    ASSUME TypeOK, NEW what \in {"starts", "frames", "messages", "faults"}, NEW most, Spend(what, most)
    PROVE  /\ used' \in [starts : Nat, frames : Nat, messages : Nat, faults : Nat]
           /\ used'.faults = 0 => used.faults = 0 /\ what # "faults"
<1>1. used.starts \in Nat /\ used.frames \in Nat /\ used.messages \in Nat /\ used.faults \in Nat
  BY DEF TypeOK
<1>2. CASE what = "starts" BY <1>1, <1>2 DEF Spend, TypeOK
<1>3. CASE what = "frames" BY <1>1, <1>3 DEF Spend, TypeOK
<1>4. CASE what = "messages" BY <1>1, <1>4 DEF Spend, TypeOK
<1>5. CASE what = "faults" BY <1>1, <1>5 DEF Spend, TypeOK
<1> QED BY <1>2, <1>3, <1>4, <1>5

\* A step that touches neither the table nor the task nor the LMAC's stations.
LEMMA OutsideStep ==
    ASSUME ApInv, UNCHANGED <<clients, task, session>>, lmac' \in Lmac, lmac'.sta = lmac.sta,
           running' \in BOOLEAN, queue' \in Seq(Frame),
           ctl' \in {"idle", "starting", "started", "dhcp", "unlink", "wait", "drop", "quiet"},
           used' \in [starts : Nat, frames : Nat, messages : Nat, faults : Nat],
           used'.faults = 0 => used.faults = 0,
           ctl' = "drop" <=> ctl = "drop", Phase', Stopped'
    PROVE  ApInv'
<1>1. TypeOK' BY DEF ApInv, TypeOK
<1>2. Locked' BY DEF ApInv, Locked
<1>3. Table' /\ Apart' BY DEF ApInv, Table, RowTrue, Apart
<1>4. HandStation' /\ Hand' BY DEF ApInv, HandStation, Hand
<1>5. NoOrphanStation' BY DEF ApInv, NoOrphanStation
<1> QED BY <1>1, <1>2, <1>3, <1>4, <1>5 DEF ApInv

\* Initially the access point is off and has no client.
LEMMA ApInvInit == Init => ApInv
<1> SUFFICES ASSUME Init PROVE ApInv
  OBVIOUS
<1>1. TypeOK
  <2>1. 1 \in Rows BY AccessPointAssumption DEF Rows
  <2>2. FreeRow \in Row /\ Idle \in Task BY <2>1 DEF FreeRow, Row, Idle, Task
  <2>3. <<>> \in Seq(Frame) OBVIOUS
  <2>4. lmac \in Lmac BY DEF Init, Lmac
  <2>5. used \in [starts : Nat, frames : Nat, messages : Nat, faults : Nat] BY DEF Init
  <2> QED BY <2>2, <2>3, <2>4, <2>5 DEF Init, TypeOK
<1>2. Locked /\ Phase /\ Stopped BY DEF Init, Idle, FreeRow, Locked, Phase, Stopped
<1>3. Table /\ Apart BY DEF Init, FreeRow, Table, RowTrue, Apart
<1>4. HandStation /\ Hand BY DEF Init, Idle, HandStation, Hand
<1>5. NoOrphanStation BY DEF Init, NoOrphanStation
<1> QED BY <1>1, <1>2, <1>3, <1>4, <1>5 DEF ApInv

\* The steps of the caller that leave the clients and the task's frame alone.
LEMMA CallerSteps ==
    ASSUME ApInv, \/ Beacons \/ StartFails \/ LinkUp \/ DhcpStart \/ Stop \/ DhcpStop \/ Quiet
    PROVE  ApInv'
<1>0. TypeOK /\ Phase /\ Stopped /\ lmac.sta \in [Stations -> Macs \cup {None}] /\ lmac.on \in BOOLEAN
  BY DEF ApInv, TypeOK, Lmac
<1>1. CASE Beacons
  <2>1. lmac' \in Lmac /\ lmac'.sta = lmac.sta BY <1>0, <1>1 DEF Beacons, TypeOK, Lmac
  <2>2. Phase' /\ Stopped' BY <1>0, <1>1 DEF Beacons, Goto, Phase, Stopped
  <2> QED BY <1>0, <1>1, <2>1, <2>2, OutsideStep DEF Beacons, Goto, TypeOK
<1>2. CASE StartFails
  <2>1. used' \in [starts : Nat, frames : Nat, messages : Nat, faults : Nat] /\ used'.faults # 0
    BY <1>0, <1>2, SpendStep DEF StartFails, Fault
  <2>2. Phase' /\ Stopped' BY <1>2, <2>1 DEF StartFails, Phase, Stopped
  <2> QED BY <1>0, <1>2, <2>1, <2>2, OutsideStep DEF StartFails, TypeOK
<1>3. CASE LinkUp
  <2>1. Phase' /\ Stopped' BY <1>0, <1>3 DEF LinkUp, Goto, Phase, Stopped
  <2> QED BY <1>0, <1>3, <2>1, OutsideStep DEF LinkUp, Goto, TypeOK
<1>4. CASE DhcpStart
  <2>1. /\ used' \in [starts : Nat, frames : Nat, messages : Nat, faults : Nat]
        /\ used'.faults = 0 => used.faults = 0
    <3>1. CASE Fault BY <1>0, <3>1, SpendStep DEF Fault
    <3>2. CASE UNCHANGED used BY <1>0, <3>2 DEF TypeOK
    <3> QED BY <1>4, <3>1, <3>2 DEF DhcpStart
  <2>2. ctl = "dhcp" /\ ctl' \in {"dhcp", "idle"} BY <1>4 DEF DhcpStart, Goto
  <2>3. Phase' /\ Stopped' BY <1>0, <1>4, <2>2 DEF DhcpStart, Phase, Stopped
  <2> QED BY <1>0, <1>4, <2>1, <2>2, <2>3, OutsideStep DEF DhcpStart, TypeOK
<1>5. CASE Stop
  <2>1. Phase' /\ Stopped' BY <1>0, <1>5 DEF Stop, Goto, Phase, Stopped
  <2> QED BY <1>0, <1>5, <2>1, OutsideStep DEF Stop, Goto, TypeOK
<1>6. CASE DhcpStop
  <2>1. /\ used' \in [starts : Nat, frames : Nat, messages : Nat, faults : Nat]
        /\ used'.faults = 0 => used.faults = 0
    <3>1. CASE Fault BY <1>0, <3>1, SpendStep DEF Fault
    <3>2. CASE UNCHANGED used BY <1>0, <3>2 DEF TypeOK
    <3> QED BY <1>6, <3>1, <3>2 DEF DhcpStop
  <2>2. Phase' /\ Stopped' BY <1>0, <1>6 DEF DhcpStop, Goto, Phase, Stopped
  <2> QED BY <1>0, <1>6, <2>1, <2>2, OutsideStep DEF DhcpStop, Goto, TypeOK
<1>7. CASE Quiet
  <2>1. /\ used' \in [starts : Nat, frames : Nat, messages : Nat, faults : Nat]
        /\ used'.faults = 0 => used.faults = 0
    <3>1. CASE Fault BY <1>0, <3>1, SpendStep DEF Fault
    <3>2. CASE UNCHANGED used BY <1>0, <3>2 DEF TypeOK
    <3> QED BY <1>7, <3>1, <3>2 DEF Quiet
  <2>2. lmac' \in Lmac /\ lmac'.sta = lmac.sta BY <1>0, <1>7 DEF Quiet, TypeOK, Lmac
  <2>3. Phase' /\ Stopped' BY <1>0, <1>7, <2>1 DEF Quiet, Goto, Phase, Stopped
  <2> QED BY <1>0, <1>7, <2>1, <2>2, <2>3, OutsideStep DEF Quiet, Goto, TypeOK
<1> QED BY <1>1, <1>2, <1>3, <1>4, <1>5, <1>6, <1>7

\* A frame or a DHCP message arrives, or the DHCP task ends.
LEMMA InputSteps ==
    ASSUME ApInv, \/ \E m \in Macs, k \in Kinds : Arrives(k, m)
                  \/ \E m \in Macs : Message(m)
                  \/ TaskStops /\ UNCHANGED apVars
    PROVE  ApInv'
<1>0. TypeOK /\ Phase /\ Stopped BY DEF ApInv
<1>1. ASSUME NEW m \in Macs, NEW k \in Kinds, Arrives(k, m) PROVE ApInv'
  <2>1. /\ used' \in [starts : Nat, frames : Nat, messages : Nat, faults : Nat]
        /\ used'.faults = 0 => used.faults = 0
    BY <1>0, <1>1, SpendStep DEF Arrives
  <2>2. queue' \in Seq(Frame)
    <3>1. [kind |-> k, mac |-> m] \in Frame BY DEF Frame
    <3> QED BY <1>0, <1>1, <3>1 DEF Arrives, TypeOK
  <2>3. Phase' /\ Stopped' BY <1>0, <1>1, <2>1 DEF Arrives, Phase, Stopped
  <2> QED BY <1>0, <1>1, <2>1, <2>2, <2>3, OutsideStep DEF Arrives, TypeOK
<1>2. ASSUME NEW m \in Macs, Message(m) PROVE ApInv'
  <2>1. /\ used' \in [starts : Nat, frames : Nat, messages : Nat, faults : Nat]
        /\ used'.faults = 0 => used.faults = 0
    BY <1>0, <1>2, SpendStep DEF Message
  <2>2. Phase' /\ Stopped' BY <1>0, <1>2, <2>1 DEF Message, Phase, Stopped
  <2> QED BY <1>0, <1>2, <2>1, <2>2, OutsideStep DEF Message, TypeOK
<1>3. CASE TaskStops /\ UNCHANGED apVars
  <2>1. Phase' /\ Stopped' BY <1>0, <1>3 DEF apVars, Phase, Stopped
  <2> QED BY <1>0, <1>3, <2>1, OutsideStep DEF apVars, TypeOK
<1> QED BY <1>1, <1>2, <1>3

\* The steps of the caller on the table.
LEMMA TableSteps ==
    ASSUME ApInv, \/ Start \/ TakeSession \/ DropNext \/ Dropped
    PROVE  ApInv'
<1>0. /\ TypeOK /\ Locked /\ Phase /\ Table /\ Apart /\ HandStation /\ Hand /\ Stopped /\ NoOrphanStation
      /\ clients \in [Rows -> Row] /\ task \in Task /\ lmac \in Lmac /\ None \notin Stations
      /\ lmac.sta \in [Stations -> Macs \cup {None}] /\ task.row \in Rows
      /\ used.faults \in Nat
  BY AccessPointAssumption DEF ApInv, TypeOK, Lmac, Task
<1>f. FreeRow \in Row /\ FreeRow.st = "free" /\ FreeRow.sta = None /\ FreeRow.mac = None
  BY DEF FreeRow, Row
<1>1. CASE Start
  <2>1. /\ clients' = [i \in Rows |-> FreeRow] /\ UNCHANGED <<session, queue, task, lmac>>
        /\ ctl = "idle" /\ ctl' = "starting" /\ ~running /\ running'
    BY <1>1 DEF Start, Goto
  <2>2. /\ used' \in [starts : Nat, frames : Nat, messages : Nat, faults : Nat]
        /\ used'.faults = 0 => used.faults = 0
    BY <1>0, <1>1, SpendStep DEF Start
  <2>3. clients' \in [Rows -> Row] /\ \A i \in Rows : clients'[i] = FreeRow BY <1>f, <2>1
  <2>4. TypeOK' BY <1>0, <1>1, <2>1, <2>2, <2>3 DEF Start, TypeOK
  <2>5. Locked' /\ Phase' /\ Stopped' BY <1>0, <2>1 DEF Locked, Phase, Stopped
  <2>6. Table' /\ Apart' BY <1>f, <2>3 DEF Table, RowTrue, Apart
  <2>7. HandStation' BY <1>0, <1>f, <2>1, <2>3 DEF HandStation
  <2>8. Hand' BY <1>0, <1>f, <2>1, <2>3 DEF Hand
  <2>9. NoOrphanStation'
    <3>1. ASSUME used.faults = 0, NEW x \in Stations PROVE lmac.sta[x] = None
      <4>1. task.pc = "idle" /\ \A i \in Rows : clients[i].st = "free" BY <1>0, <2>1, <3>1 DEF Stopped
      <4>2. \A i \in Rows : clients[i].sta = None BY <1>0, <1>f, <4>1 DEF Table, RowTrue
      <4> QED BY <1>0, <3>1, <4>1, <4>2 DEF NoOrphanStation
    <3> QED BY <2>1, <2>2, <3>1 DEF NoOrphanStation
  <2> QED BY <2>4, <2>5, <2>6, <2>7, <2>8, <2>9 DEF ApInv
<1>2. CASE TakeSession
  <2>1. TypeOK' BY <1>0, <1>2 DEF TakeSession, Goto, TypeOK
  <2>2. Locked' /\ Phase' /\ Stopped' BY <1>0, <1>2 DEF TakeSession, Goto, Locked, Phase, Stopped
  <2>3. Table' /\ Apart' BY <1>0, <1>2 DEF TakeSession, Table, RowTrue, Apart
  <2>4. HandStation' /\ Hand' BY <1>0, <1>2 DEF TakeSession, HandStation, Hand
  <2>5. NoOrphanStation' BY <1>0, <1>2 DEF TakeSession, NoOrphanStation
  <2> QED BY <2>1, <2>2, <2>3, <2>4, <2>5 DEF ApInv
<1>3. CASE DropNext
  <2> DEFINE rows == {i \in Rows : clients[i].st # "free"}
             r    == Min(rows)
             x    == clients[r].sta
  <2>1. /\ rows # {} /\ clients' = [clients EXCEPT ![r] = FreeRow] /\ ctl = "drop" /\ ctl' = ctl
        /\ UNCHANGED <<running, session, queue, task>>
    BY <1>3 DEF DropNext, Remove
  <2>2. r \in Rows /\ clients[r].st # "free"
    <3>1. rows \in SUBSET Nat BY DEF Rows
    <3>2. Min(rows) \in rows BY <2>1, <3>1, LeastOf
    <3> QED BY <3>2
  <2>3. \/ clients[r].st = "assoc" /\ lmac' = [lmac EXCEPT !.sta[x] = None] /\ UNCHANGED used
        \/ clients[r].st = "assoc" /\ Fault /\ UNCHANGED lmac
        \/ clients[r].st = "authed" /\ UNCHANGED <<lmac, used>>
    BY <1>3 DEF DropNext
  <2> HIDE DEF r
  <2>4. /\ used' \in [starts : Nat, frames : Nat, messages : Nat, faults : Nat]
        /\ used'.faults = 0 => used.faults = 0 /\ ~(clients[r].st = "assoc" /\ UNCHANGED lmac /\ Fault)
    <3>1. CASE Fault BY <1>0, <3>1, SpendStep DEF Fault
    <3>2. CASE ~Fault BY <1>0, <2>3, <3>2 DEF TypeOK
    <3> QED BY <3>1, <3>2
  <2>5. /\ clients' \in [Rows -> Row] /\ clients'[r] = FreeRow
        /\ \A i \in Rows : i # r => clients'[i] = clients[i]
    BY <1>0, <1>f, <2>1, <2>2
  <2>6. /\ lmac' \in Lmac
        /\ \A y \in Stations : lmac'.sta[y] = lmac.sta[y] \/ (y = x /\ clients[r].st = "assoc" /\ lmac'.sta[y] = None)
    BY <1>0, <2>3 DEF Lmac
  <2>7. TypeOK' BY <1>0, <2>1, <2>4, <2>5, <2>6 DEF TypeOK
  <2>8. task.pc = "idle" BY <1>0, <2>1 DEF Locked
  <2>9. Locked' /\ Phase' /\ Stopped' BY <1>0, <2>1 DEF Locked, Phase, Stopped
  <2>10. Apart' BY <1>0, <1>f, <2>2, <2>5 DEF Apart
  <2>11. Table'
    <3> SUFFICES ASSUME NEW i \in Rows PROVE RowTrue(i)' BY DEF Table
    <3>1. CASE i = r BY <1>f, <2>5, <3>1 DEF RowTrue
    <3>2. CASE i # r
      <4>1. RowTrue(i) /\ clients'[i] = clients[i] BY <1>0, <2>5, <3>2 DEF Table
      <4>2. clients[i].st = "assoc" => lmac'.sta[clients[i].sta] = lmac.sta[clients[i].sta]
        BY <1>0, <2>2, <2>6, <3>2, <4>1 DEF Apart, RowTrue
      <4> QED BY <4>1, <4>2 DEF RowTrue
    <3> QED BY <3>1, <3>2
  <2>12. HandStation' /\ Hand' BY <2>1, <2>8 DEF HandStation, Hand
  <2>13. NoOrphanStation'
    <3> SUFFICES ASSUME used'.faults = 0, NEW y \in Stations, lmac'.sta[y] # None
                 PROVE  \E i \in Rows : clients'[i].sta = y
      BY DEF NoOrphanStation
    <3>1. used.faults = 0 /\ lmac.sta[y] # None BY <2>4, <2>6
    <3>2. PICK i \in Rows : clients[i].sta = y BY <1>0, <2>8, <3>1 DEF NoOrphanStation
    <3>3. CASE i = r
      <4>1. clients[r].st = "assoc" BY <1>0, <2>2, <3>2, <3>3 DEF Table, RowTrue, Row
      <4>2. lmac' = [lmac EXCEPT !.sta[x] = None] BY <2>3, <2>4, <4>1
      <4>3. x \in Stations /\ y = x BY <3>2, <3>3
      <4> QED BY <1>0, <4>2, <4>3 DEF Lmac
    <3>4. CASE i # r BY <2>5, <3>2, <3>4
    <3> QED BY <3>3, <3>4
  <2> QED BY <2>7, <2>9, <2>10, <2>11, <2>12, <2>13 DEF ApInv
<1>4. CASE Dropped
  <2>1. TypeOK' BY <1>0, <1>4 DEF Dropped, Goto, TypeOK
  <2>2. Locked' /\ Phase' /\ Stopped' BY <1>0, <1>4 DEF Dropped, Goto, Locked, Phase, Stopped
  <2>3. Table' /\ Apart' BY <1>0, <1>4 DEF Dropped, Table, RowTrue, Apart
  <2>4. HandStation' /\ Hand' BY <1>0, <1>4 DEF Dropped, HandStation, Hand
  <2>5. NoOrphanStation' BY <1>0, <1>4 DEF Dropped, NoOrphanStation
  <2> QED BY <2>1, <2>2, <2>3, <2>4, <2>5 DEF ApInv
<1> QED BY <1>1, <1>2, <1>3, <1>4

\* drop_client(): the row is freed and its station, if it has one, is in the
\* task's hand.
LEMMA DropStep ==
    ASSUME ApInv, NEW m \in Macs, NEW i \in Rows, task.pc \in {"auth", "leave"}, task.mac = m,
           clients[i].st # "free", clients[i].mac = m, DropAnd(i, "enter"),
           task.pc = "leave" => clients[i].st = "assoc",
           UNCHANGED <<running, queue, ctl, lmac, used>>
    PROVE  ApInv'
<1>0. /\ TypeOK /\ Locked /\ Phase /\ Table /\ Apart /\ HandStation /\ Hand /\ Stopped /\ NoOrphanStation
      /\ clients \in [Rows -> Row] /\ task \in Task /\ lmac \in Lmac /\ None \notin Stations
  BY AccessPointAssumption DEF ApInv, TypeOK
<1>f. FreeRow \in Row /\ FreeRow.st = "free" /\ FreeRow.sta = None /\ FreeRow.mac = None
  BY DEF FreeRow, Row
<1>1. /\ clients' \in [Rows -> Row] /\ clients'[i] = FreeRow
      /\ \A j \in Rows : j # i => clients'[j] = clients[j]
  BY <1>0, <1>f DEF DropAnd, Remove
<1>2. /\ task' \in Task /\ task'.sta = clients[i].sta /\ task'.mac = m /\ task'.kind = task.kind
      /\ task'.row = task.row
      /\ clients[i].st = "assoc" => task'.pc = "del"
      /\ clients[i].st # "assoc" => task'.pc = "enter"
  <2>1. clients[i].sta \in Stations \cup {None} BY <1>0 DEF Row
  <2>2. CASE clients[i].st = "assoc"
    <3>1. task' = [task EXCEPT !.sta = clients[i].sta, !.pc = "del"] BY <2>2 DEF DropAnd
    <3> QED BY <1>0, <2>1, <2>2, <3>1 DEF Task
  <2>3. CASE clients[i].st # "assoc"
    <3>1. task' = [task EXCEPT !.sta = clients[i].sta, !.pc = "enter"] BY <2>3 DEF DropAnd
    <3> QED BY <1>0, <2>1, <2>3, <3>1 DEF Task
  <2> QED BY <2>2, <2>3
<1>3. session' = session BY DEF DropAnd
<1>4. TypeOK' BY <1>0, <1>1, <1>2, <1>3 DEF TypeOK
<1>5. Locked' /\ Phase' BY <1>0, <1>2, <1>3 DEF Locked, Phase
<1>6. Stopped' BY <1>0 DEF Stopped
<1>7. Table' BY <1>0, <1>1, <1>f DEF Table, RowTrue
<1>8. Apart' BY <1>0, <1>1, <1>f DEF Apart
<1>9. HandStation' BY <1>0, <1>1, <1>2, <1>f DEF HandStation, Table, RowTrue, Apart
<1>10. Hand' BY <1>0, <1>2 DEF Hand
<1>11. NoOrphanStation'
  <2> SUFFICES ASSUME used.faults = 0, NEW y \in Stations, lmac.sta[y] # None
               PROVE  (\E j \in Rows : clients'[j].sta = y) \/ (task'.pc \in {"del", "added"} /\ task'.sta = y)
    BY DEF NoOrphanStation
  <2>1. PICK j \in Rows : clients[j].sta = y BY <1>0 DEF NoOrphanStation
  <2>2. CASE j = i
    <3>1. clients[i].st = "assoc" BY <1>0, <2>1, <2>2 DEF Table, RowTrue, Row
    <3> QED BY <1>2, <2>1, <2>2, <3>1
  <2>3. CASE j # i BY <1>1, <2>1, <2>3
  <2> QED BY <2>2, <2>3
<1> QED BY <1>4, <1>5, <1>6, <1>7, <1>8, <1>9, <1>10, <1>11 DEF ApInv

\* A frame is finished by a step that frees at most a row that names no station.
LEMMA FinishStep ==
    ASSUME ApInv, Finish, task.pc # "idle",
           UNCHANGED <<running, queue, ctl, lmac, used>>,
           \/ UNCHANGED clients
           \/ \E i \in Rows : clients[i].sta = None /\ Remove(i),
           task.pc \notin {"del", "added"}
    PROVE  ApInv'
<1>0. /\ TypeOK /\ Locked /\ Phase /\ Table /\ Apart /\ Stopped /\ NoOrphanStation
      /\ clients \in [Rows -> Row] /\ lmac \in Lmac /\ None \notin Stations
  BY AccessPointAssumption DEF ApInv, TypeOK
<1>f. /\ FreeRow \in Row /\ FreeRow.st = "free" /\ FreeRow.sta = None /\ FreeRow.mac = None
      /\ Idle \in Task /\ Idle.pc = "idle"
  BY AccessPointAssumption DEF FreeRow, Row, Idle, Task, Rows
<1>1. /\ clients' \in [Rows -> Row]
      /\ \A j \in Rows : clients'[j] = clients[j] \/ (clients'[j] = FreeRow /\ clients[j].sta = None)
  BY <1>0, <1>f DEF Remove
<1>2. task' = Idle /\ session' = "free" BY DEF Finish
<1>3. session = "task" BY <1>0 DEF Locked
<1>4. TypeOK' BY <1>0, <1>1, <1>2, <1>f DEF TypeOK
<1>5. Locked' /\ Phase' BY <1>0, <1>2, <1>3, <1>f DEF Locked, Phase
<1>6. Stopped' BY <1>0 DEF Stopped
<1>7. Table' BY <1>0, <1>1, <1>f DEF Table, RowTrue
<1>8. Apart' BY <1>0, <1>1, <1>f DEF Apart
<1>9. HandStation' /\ Hand' BY <1>2, <1>f DEF HandStation, Hand
<1>10. NoOrphanStation' BY <1>0, <1>1, <1>f DEF NoOrphanStation
<1> QED BY <1>4, <1>5, <1>6, <1>7, <1>8, <1>9, <1>10 DEF ApInv

\* The task's steps up to the requests.
LEMMA FrameSteps ==
    ASSUME ApInv, \/ Receive \/ OnAuth \/ Enter \/ OnAssoc \/ OnLeave
    PROVE  ApInv'
<1>0. /\ TypeOK /\ Locked /\ Phase /\ Table /\ Apart /\ HandStation /\ Hand /\ Stopped /\ NoOrphanStation
      /\ clients \in [Rows -> Row] /\ task \in Task /\ lmac \in Lmac
      /\ None \notin Stations /\ None \notin Macs
  BY AccessPointAssumption DEF ApInv, TypeOK
<1>f. FreeRow \in Row /\ FreeRow.st = "free" /\ FreeRow.sta = None /\ FreeRow.mac = None
  BY DEF FreeRow, Row
<1>1. CASE Receive
  <2>1. /\ Head(queue) \in Frame /\ queue' \in Seq(Frame)
        /\ task.pc = "idle" /\ session = "free" /\ UNCHANGED <<running, clients, ctl, lmac, used>>
    BY <1>0, <1>1, HeadTailProperties DEF Receive, TypeOK
  <2>2. CASE running /\ Head(queue).kind # "other"
    <3>1. /\ task' = [pc |-> Head(queue).kind, kind |-> Head(queue).kind, mac |-> Head(queue).mac, row |-> 1, sta |-> None]
          /\ session' = "task"
      BY <1>1, <2>2 DEF Receive
    <3>2. /\ 1 \in Rows /\ Head(queue).kind \in {"auth", "assoc", "leave"} /\ Head(queue).mac \in Macs
      BY <2>1, <2>2, AccessPointAssumption DEF Rows, Frame, Kinds
    <3>3. /\ task' \in Task /\ task'.pc \in {"auth", "assoc", "leave"} /\ task'.kind = task'.pc /\ task'.mac \in Macs
      BY <3>1, <3>2 DEF Task, Kinds
    <3>4. TypeOK' BY <1>0, <2>1, <3>1, <3>3 DEF TypeOK
    <3>5. Locked' /\ Phase' /\ Stopped' BY <1>0, <2>1, <2>2, <3>1, <3>3 DEF Locked, Phase, Stopped
    <3>6. Table' /\ Apart' BY <1>0, <2>1 DEF Table, RowTrue, Apart
    <3>7. HandStation' /\ Hand' BY <3>3 DEF HandStation, Hand
    <3>8. NoOrphanStation' BY <1>0, <2>1 DEF NoOrphanStation
    <3> QED BY <3>4, <3>5, <3>6, <3>7, <3>8 DEF ApInv
  <2>3. CASE ~(running /\ Head(queue).kind # "other")
    <3>1. UNCHANGED <<task, session>> BY <1>1, <2>3 DEF Receive
    <3>2. Phase' /\ Stopped' BY <1>0, <2>1, <3>1 DEF Phase, Stopped
    <3> QED BY <1>0, <2>1, <3>1, <3>2, OutsideStep DEF TypeOK
  <2> QED BY <2>2, <2>3
<1>2. CASE OnAuth
  <2>1. task.pc = "auth" /\ task.mac \in Macs /\ UNCHANGED <<running, queue, ctl, lmac, used>>
    BY <1>0, <1>2 DEF OnAuth, Hand
  <2>2. CASE RowOf(task.mac) # {}
    <3> DEFINE i == Min(RowOf(task.mac))
    <3>1. i \in Rows /\ clients[i].st # "free" /\ clients[i].mac = task.mac BY <1>0, <2>2, FoundRow
    <3>2. DropAnd(i, "enter") BY <1>2, <2>2 DEF OnAuth
    <3> HIDE DEF i
    <3> QED BY <2>1, <3>1, <3>2, DropStep
  <2>3. CASE RowOf(task.mac) = {}
    <3>1. task' = [task EXCEPT !.pc = "enter"] /\ UNCHANGED <<session, clients>> BY <1>2, <2>3 DEF OnAuth
    <3>2. /\ task' \in Task /\ task'.pc = "enter" /\ task'.kind = task.kind /\ task'.mac = task.mac
      BY <1>0, <3>1 DEF Task
    <3>3. TypeOK' BY <1>0, <2>1, <3>1, <3>2 DEF TypeOK
    <3>4. Locked' /\ Phase' BY <1>0, <2>1, <3>1, <3>2 DEF Locked, Phase
    <3>5. Stopped' BY <1>0, <2>1 DEF Stopped
    <3>6. Table' /\ Apart' BY <1>0, <2>1, <3>1 DEF Table, RowTrue, Apart
    <3>7. HandStation' BY <3>2 DEF HandStation
    <3>8. Hand' BY <1>0, <2>1, <3>2 DEF Hand
    <3>9. NoOrphanStation' BY <1>0, <2>1, <3>1 DEF NoOrphanStation
    <3> QED BY <3>3, <3>4, <3>5, <3>6, <3>7, <3>8, <3>9 DEF ApInv
  <2> QED BY <2>2, <2>3
<1>3. CASE Enter
  <2> DEFINE free == {i \in Rows : clients[i].st = "free"}
             k    == Min(free)
  <2>1. task.pc = "enter" /\ task.mac \in Macs /\ Finish /\ UNCHANGED <<running, queue, ctl, lmac, used>>
    BY <1>0, <1>3 DEF Enter, Hand
  <2>2. CASE RowOf(task.mac) # {} \/ free = {}
    <3>1. UNCHANGED clients BY <1>3, <2>2 DEF Enter, Add
    <3> QED BY <2>1, <3>1, FinishStep
  <2>3. CASE ~(RowOf(task.mac) # {} \/ free = {})
    <3> DEFINE new == [st |-> "authed", mac |-> task.mac, sta |-> None]
    <3>1. clients' = [clients EXCEPT ![k] = new] BY <1>3, <2>3 DEF Enter, Add
    <3>2. k \in Rows /\ clients[k].st = "free"
      <4>1. free \in SUBSET Nat BY DEF Rows
      <4>2. Min(free) \in free BY <2>3, <4>1, LeastOf
      <4> QED BY <4>2
    <3>3. new \in Row /\ new.st = "authed" /\ new.sta = None BY <2>1 DEF Row
    <3> HIDE DEF k, new
    <3>4. clients' \in [Rows -> Row] /\ clients'[k] = new /\ \A j \in Rows : j # k => clients'[j] = clients[j]
      BY <1>0, <3>1, <3>2, <3>3
    <3>5. clients[k].sta = None BY <1>0, <1>f, <3>2 DEF Table, RowTrue
    <3>6. task' = Idle /\ session' = "free" /\ session = "task" /\ Idle \in Task /\ Idle.pc = "idle"
      BY <1>0, <2>1, AccessPointAssumption DEF Finish, Locked, Idle, Task, Rows
    <3>7. TypeOK' BY <1>0, <2>1, <3>4, <3>6 DEF TypeOK
    <3>8. Locked' /\ Phase' BY <1>0, <2>1, <3>6 DEF Locked, Phase
    <3>9. Stopped' BY <1>0, <2>1 DEF Stopped
    <3>10. Table' BY <1>0, <2>1, <3>3, <3>4 DEF Table, RowTrue
    <3>11. Apart' BY <1>0, <3>3, <3>4 DEF Apart
    <3>12. HandStation' /\ Hand' BY <3>6 DEF HandStation, Hand
    <3>13. NoOrphanStation'
      <4> SUFFICES ASSUME used.faults = 0, NEW y \in Stations, lmac.sta[y] # None
                   PROVE  \E j \in Rows : clients'[j].sta = y
        BY <2>1 DEF NoOrphanStation
      <4>1. PICK j \in Rows : clients[j].sta = y BY <1>0, <2>1 DEF NoOrphanStation
      <4>2. j # k BY <1>0, <3>5, <4>1
      <4> QED BY <3>4, <4>1, <4>2
    <3> QED BY <3>7, <3>8, <3>9, <3>10, <3>11, <3>12, <3>13 DEF ApInv
  <2> QED BY <2>2, <2>3
<1>4. CASE OnLeave
  <2>1. task.pc = "leave" /\ task.mac \in Macs /\ UNCHANGED <<running, queue, ctl, lmac, used>>
    BY <1>0, <1>4 DEF OnLeave, Hand
  <2> DEFINE i == Min(RowOf(task.mac))
  <2>2. CASE RowOf(task.mac) = {}
    <3>1. Finish /\ UNCHANGED clients BY <1>4, <2>2 DEF OnLeave
    <3> QED BY <2>1, <3>1, FinishStep
  <2>3. CASE RowOf(task.mac) # {}
    <3>1. i \in Rows /\ clients[i].st # "free" /\ clients[i].mac = task.mac BY <1>0, <2>3, FoundRow
    <3>2. CASE clients[i].st = "assoc"
      <4>1. DropAnd(i, "idle") BY <1>4, <2>3, <3>2 DEF OnLeave
      <4> HIDE DEF i
      <4>2. DropAnd(i, "enter") BY <3>2, <4>1 DEF DropAnd
      <4> QED BY <2>1, <3>1, <3>2, <4>2, DropStep
    <3>3. CASE clients[i].st # "assoc"
      <4>1. Finish /\ Remove(i) BY <1>4, <2>3, <3>3 DEF OnLeave
      <4> HIDE DEF i
      <4>2. clients[i].sta = None BY <1>0, <3>1, <3>3 DEF Table, RowTrue, Row
      <4> QED BY <2>1, <3>1, <4>1, <4>2, FinishStep
    <3> QED BY <3>2, <3>3
  <2> QED BY <2>2, <2>3
<1>5. CASE OnAssoc
  <2>1. task.pc = "assoc" /\ task.mac \in Macs /\ task.kind = "assoc" /\ UNCHANGED <<running, queue, ctl, lmac, used>>
    BY <1>0, <1>5 DEF OnAssoc, Hand
  <2>2. CASE RowOf(task.mac) = {}
    <3>1. Finish /\ UNCHANGED clients BY <1>5, <2>2 DEF OnAssoc
    <3> QED BY <2>1, <3>1, FinishStep
  <2>3. CASE RowOf(task.mac) # {}
    <3> DEFINE i == Min(RowOf(task.mac))
               next == IF clients[i].st = "assoc" THEN "del" ELSE "add"
    <3>1. i \in Rows /\ clients[i].st # "free" /\ clients[i].mac = task.mac BY <1>0, <2>3, FoundRow
    <3>2. /\ clients' = [clients EXCEPT ![i].st = "authed", ![i].sta = None]
          /\ task' = [task EXCEPT !.row = i, !.sta = clients[i].sta, !.pc = next]
          /\ UNCHANGED session
      BY <1>5, <2>3 DEF OnAssoc
    <3> HIDE DEF i
    <3>3. /\ clients' \in [Rows -> Row]
          /\ clients'[i].st = "authed" /\ clients'[i].sta = None /\ clients'[i].mac = task.mac
          /\ \A j \in Rows : j # i => clients'[j] = clients[j]
      <4> DEFINE new == [clients[i] EXCEPT !.st = "authed", !.sta = None]
      <4>1. new \in Row /\ new.st = "authed" /\ new.sta = None /\ new.mac = task.mac
        BY <1>0, <3>1 DEF Row
      <4>2. clients' = [clients EXCEPT ![i] = new]
        BY <1>0, <3>1, <3>2
      <4> HIDE DEF new
      <4> QED BY <1>0, <3>1, <4>1, <4>2
    <3>4. next \in {"del", "add"} /\ clients[i].sta \in Stations \cup {None} BY <1>0, <3>1 DEF Row
    <3>5. /\ task' \in Task /\ task'.row = i /\ task'.sta = clients[i].sta /\ task'.pc = next
          /\ task'.mac = task.mac /\ task'.kind = "assoc"
      <4> HIDE DEF next
      <4> QED BY <1>0, <2>1, <3>1, <3>2, <3>4 DEF Task
    <3>6. TypeOK' BY <1>0, <2>1, <3>2, <3>3, <3>5 DEF TypeOK
    <3>7. Locked' /\ Phase' BY <1>0, <2>1, <3>2, <3>4, <3>5 DEF Locked, Phase
    <3>8. Stopped' BY <1>0, <2>1 DEF Stopped
    <3>9. Table' BY <1>0, <2>1, <3>3 DEF Table, RowTrue
    <3>10. Apart' BY <1>0, <3>3 DEF Apart
    <3>11. HandStation'
      <4>1. CASE clients[i].st = "assoc"
        BY <1>0, <2>1, <3>1, <3>3, <3>5, <4>1 DEF HandStation, Table, RowTrue, Apart
      <4>2. CASE clients[i].st # "assoc"
        BY <3>5, <4>2 DEF HandStation
      <4> QED BY <4>1, <4>2
    <3>12. Hand' BY <2>1, <3>3, <3>4, <3>5 DEF Hand
    <3>13. NoOrphanStation'
      <4> SUFFICES ASSUME used.faults = 0, NEW y \in Stations, lmac.sta[y] # None
                   PROVE  (\E j \in Rows : clients'[j].sta = y) \/ (task'.pc \in {"del", "added"} /\ task'.sta = y)
        BY <2>1 DEF NoOrphanStation
      <4>1. PICK j \in Rows : clients[j].sta = y BY <1>0, <2>1 DEF NoOrphanStation
      <4>2. CASE j = i
        <5>1. clients[i].st = "assoc" BY <1>0, <3>1, <4>1, <4>2 DEF Table, RowTrue, Row
        <5> QED BY <3>5, <4>1, <4>2, <5>1
      <4>3. CASE j # i BY <3>3, <4>1, <4>3
      <4> QED BY <4>2, <4>3
    <3> QED BY <3>6, <3>7, <3>8, <3>9, <3>10, <3>11, <3>12, <3>13 DEF ApInv
  <2> QED BY <2>2, <2>3
<1> QED BY <1>1, <1>2, <1>3, <1>4, <1>5

\* ME_STA_DEL_REQ, ME_STA_ADD_REQ and the row that names the new station.
LEMMA RequestSteps ==
    ASSUME ApInv, \/ StaDel \/ StaAdd \/ Associated
    PROVE  ApInv'
<1>0. /\ TypeOK /\ Locked /\ Phase /\ Table /\ Apart /\ HandStation /\ Hand /\ Stopped /\ NoOrphanStation
      /\ clients \in [Rows -> Row] /\ task \in Task /\ lmac \in Lmac /\ task.row \in Rows
      /\ lmac.sta \in [Stations -> Macs \cup {None}]
      /\ None \notin Stations /\ None \notin Macs
  BY AccessPointAssumption DEF ApInv, TypeOK, Task, Lmac
<1>f. /\ FreeRow \in Row /\ FreeRow.st = "free" /\ FreeRow.sta = None /\ FreeRow.mac = None
      /\ Idle \in Task /\ Idle.pc = "idle"
  BY AccessPointAssumption DEF FreeRow, Row, Idle, Task, Rows
<1>1. CASE StaDel
  <2>1. /\ task.pc = "del" /\ UNCHANGED <<running, clients, queue, ctl>> /\ task.mac \in Macs
        /\ task.sta \in Stations /\ \A i \in Rows : clients[i].st = "assoc" => clients[i].sta # task.sta
    BY <1>0, <1>1 DEF StaDel, Hand, HandStation
  <2>2. /\ used' \in [starts : Nat, frames : Nat, messages : Nat, faults : Nat]
        /\ used'.faults = 0 => used.faults = 0 /\ lmac' = [lmac EXCEPT !.sta[task.sta] = None]
    <3>1. CASE Fault BY <1>0, <3>1, SpendStep DEF Fault
    <3>2. CASE ~Fault BY <1>0, <1>1, <3>2 DEF StaDel, TypeOK
    <3> QED BY <3>1, <3>2
  <2>3. /\ lmac' \in Lmac
        /\ \A y \in Stations : lmac'.sta[y] = lmac.sta[y] \/ (y = task.sta /\ lmac'.sta[y] = None)
    BY <1>0, <1>1, <2>1 DEF StaDel, Lmac
  <2>4. /\ task' \in Task /\ task'.pc \in {"idle", "enter", "add"}
        /\ (task'.pc # "idle" <=> session' = "task") /\ session' \in {"free", "task"}
        /\ task'.pc # "idle" => task'.mac = task.mac /\ task'.kind = task.kind /\ task'.row = task.row
        /\ task'.pc = "enter" => task.kind = "auth"
        /\ task'.pc = "add" => task.kind = "assoc"
    <3>0. session = "task" /\ task.kind \in {"auth", "assoc", "leave"} BY <1>0, <2>1 DEF Locked, Hand
    <3>1. CASE task.kind = "leave" BY <1>1, <1>f, <3>1 DEF StaDel, Finish
    <3>2. CASE task.kind = "auth"
      <4>1. task' = [task EXCEPT !.sta = None, !.pc = "enter"] /\ UNCHANGED session BY <1>1, <3>2 DEF StaDel
      <4> QED BY <1>0, <3>0, <3>2, <4>1 DEF Task
    <3>3. CASE task.kind = "assoc"
      <4>1. task' = [task EXCEPT !.sta = None, !.pc = "add"] /\ UNCHANGED session BY <1>1, <3>3 DEF StaDel
      <4> QED BY <1>0, <3>0, <3>3, <4>1 DEF Task
    <3> QED BY <3>0, <3>1, <3>2, <3>3
  <2>5. TypeOK' BY <1>0, <2>1, <2>2, <2>3, <2>4 DEF TypeOK
  <2>6. Locked' /\ Phase' BY <1>0, <2>1, <2>4 DEF Locked, Phase
  <2>7. Stopped' BY <1>0, <2>1, <2>2 DEF Stopped
  <2>8. Table'
    <3> SUFFICES ASSUME NEW i \in Rows PROVE RowTrue(i)' BY DEF Table
    <3>1. RowTrue(i) /\ clients'[i] = clients[i] BY <1>0, <2>1 DEF Table
    <3>2. clients[i].st = "assoc" => lmac'.sta[clients[i].sta] = lmac.sta[clients[i].sta]
      BY <2>1, <2>3, <3>1 DEF RowTrue
    <3> QED BY <3>1, <3>2 DEF RowTrue
  <2>9. Apart' BY <1>0, <2>1 DEF Apart
  <2>10. HandStation' BY <2>4 DEF HandStation
  <2>11. Hand' BY <1>0, <2>1, <2>4 DEF Hand
  <2>12. NoOrphanStation'
    <3> SUFFICES ASSUME used'.faults = 0, NEW y \in Stations, lmac'.sta[y] # None
                 PROVE  \E i \in Rows : clients'[i].sta = y
      BY DEF NoOrphanStation
    <3>1. y # task.sta /\ used.faults = 0 /\ lmac.sta[y] # None BY <1>0, <2>1, <2>2, <2>3 DEF Lmac
    <3> QED BY <1>0, <2>1, <3>1 DEF NoOrphanStation
  <2> QED BY <2>5, <2>6, <2>7, <2>8, <2>9, <2>10, <2>11, <2>12 DEF ApInv
<1>2. CASE StaAdd
  <2> DEFINE free == {x \in Stations : lmac.sta[x] = None}
             x    == Min(free)
  <2>1. /\ task.pc = "add" /\ task.mac \in Macs /\ task.kind = "assoc" /\ session = "task"
        /\ UNCHANGED <<running, queue, ctl>>
        /\ clients[task.row].st # "assoc" /\ clients[task.row].mac \in {None, task.mac}
    BY <1>0, <1>2 DEF StaAdd, Hand, Locked
  <2>2. clients[task.row].sta = None BY <1>0, <1>f, <2>1 DEF Table, RowTrue, Row
  <2>3. free # {} => x \in Stations /\ lmac.sta[x] = None
    <3>1. free \in SUBSET Nat BY AccessPointAssumption
    <3>2. free # {} => Min(free) \in free BY <3>1, LeastOf
    <3> QED BY <3>2
  <2>4. \/ /\ free # {} /\ lmac' = [lmac EXCEPT !.sta[x] = task.mac]
           /\ task' = [task EXCEPT !.pc = "added", !.sta = x]
           /\ UNCHANGED <<clients, session, used>>
        \/ Remove(task.row) /\ Finish /\ UNCHANGED <<lmac, used>>
        \/ /\ Fault /\ free # {} /\ (lmac' = [lmac EXCEPT !.sta[x] = task.mac] \/ UNCHANGED lmac)
           /\ Remove(task.row) /\ Finish
    BY <1>2 DEF StaAdd
  <2> HIDE DEF x, free
  <2>5. CASE /\ free # {} /\ lmac' = [lmac EXCEPT !.sta[x] = task.mac]
             /\ task' = [task EXCEPT !.pc = "added", !.sta = x]
             /\ UNCHANGED <<clients, session, used>>
    <3>1. /\ lmac' \in Lmac /\ lmac'.sta[x] = task.mac
          /\ \A y \in Stations : y # x => lmac'.sta[y] = lmac.sta[y]
      BY <1>0, <2>1, <2>3, <2>5 DEF Lmac
    <3>2. /\ task' \in Task /\ task'.pc = "added" /\ task'.sta = x /\ task'.mac = task.mac
          /\ task'.kind = "assoc" /\ task'.row = task.row
      BY <1>0, <2>1, <2>3, <2>5 DEF Task
    <3>3. \A i \in Rows : clients[i].st = "assoc" => clients[i].sta # x
      BY <1>0, <2>3, <2>5 DEF Table, RowTrue
    <3>4. TypeOK' BY <1>0, <2>1, <2>5, <3>1, <3>2 DEF TypeOK
    <3>5. Locked' /\ Phase' BY <1>0, <2>1, <2>5, <3>2 DEF Locked, Phase
    <3>6. Stopped' BY <1>0, <2>1, <2>5 DEF Stopped
    <3>7. Table' BY <1>0, <2>5, <3>1, <3>3 DEF Table, RowTrue
    <3>8. Apart' BY <1>0, <2>5 DEF Apart
    <3>9. HandStation' BY <1>0, <2>1, <2>3, <2>5, <3>1, <3>2, <3>3 DEF HandStation
    <3>10. Hand' BY <1>0, <2>1, <2>5, <3>1, <3>2 DEF Hand
    <3>11. NoOrphanStation' BY <1>0, <2>1, <2>5, <3>1, <3>2 DEF NoOrphanStation
    <3> QED BY <3>4, <3>5, <3>6, <3>7, <3>8, <3>9, <3>10, <3>11 DEF ApInv
  <2>6. CASE Remove(task.row) /\ Finish /\ UNCHANGED <<lmac, used>>
    BY <1>0, <2>1, <2>2, <2>6, FinishStep
  <2>7. CASE /\ Fault /\ free # {} /\ (lmac' = [lmac EXCEPT !.sta[x] = task.mac] \/ UNCHANGED lmac)
             /\ Remove(task.row) /\ Finish
    <3>1. used' \in [starts : Nat, frames : Nat, messages : Nat, faults : Nat] /\ used'.faults # 0
      BY <1>0, <2>7, SpendStep DEF Fault
    <3>2. /\ lmac' \in Lmac
          /\ \A y \in Stations : lmac'.sta[y] = lmac.sta[y] \/ lmac.sta[y] = None
      BY <1>0, <2>1, <2>3, <2>7 DEF Lmac
    <3>3. /\ clients' \in [Rows -> Row] /\ clients'[task.row] = FreeRow
          /\ \A j \in Rows : j # task.row => clients'[j] = clients[j]
      BY <1>0, <1>f, <2>7 DEF Remove
    <3>4. task' = Idle /\ session' = "free" BY <2>7 DEF Finish
    <3>5. TypeOK' BY <1>0, <1>f, <2>1, <3>1, <3>2, <3>3, <3>4 DEF TypeOK
    <3>6. Locked' /\ Phase' BY <1>0, <1>f, <2>1, <3>4 DEF Locked, Phase
    <3>7. Stopped' BY <3>1 DEF Stopped
    <3>8. Table'
      <4> SUFFICES ASSUME NEW i \in Rows PROVE RowTrue(i)' BY DEF Table
      <4>1. CASE i = task.row BY <1>f, <3>3, <4>1 DEF RowTrue
      <4>2. CASE i # task.row
        <5>1. RowTrue(i) /\ clients'[i] = clients[i] BY <1>0, <3>3, <4>2 DEF Table
        <5>2. clients[i].st = "assoc" => lmac'.sta[clients[i].sta] = lmac.sta[clients[i].sta]
          BY <3>2, <5>1 DEF RowTrue
        <5> QED BY <5>1, <5>2 DEF RowTrue
      <4> QED BY <4>1, <4>2
    <3>9. Apart' BY <1>0, <1>f, <3>3 DEF Apart
    <3>10. HandStation' /\ Hand' BY <1>f, <3>4 DEF HandStation, Hand
    <3>11. NoOrphanStation' BY <3>1 DEF NoOrphanStation
    <3> QED BY <3>5, <3>6, <3>7, <3>8, <3>9, <3>10, <3>11 DEF ApInv
  <2> QED BY <2>4, <2>5, <2>6, <2>7
<1>3. CASE Associated
  <2> DEFINE r == task.row
  <2>1. /\ task.pc = "added" /\ task.mac \in Macs /\ task.kind = "assoc" /\ session = "task"
        /\ UNCHANGED <<running, queue, ctl, lmac, used>> /\ r \in Rows
        /\ clients[r].st # "assoc" /\ clients[r].mac \in {None, task.mac}
        /\ task.sta \in Stations /\ lmac.sta[task.sta] = task.mac
        /\ \A i \in Rows : clients[i].st = "assoc" => clients[i].sta # task.sta
    BY <1>0, <1>3 DEF Associated, Hand, Locked, HandStation
  <2>2. clients[r].sta = None BY <1>0, <1>f, <2>1 DEF Table, RowTrue, Row
  <2>3. clients' = [clients EXCEPT ![r].st = "assoc", ![r].sta = task.sta] BY <1>3 DEF Associated
  <2> HIDE DEF r
  <2>4. /\ clients' \in [Rows -> Row]
        /\ clients'[r].st = "assoc" /\ clients'[r].sta = task.sta /\ clients'[r].mac = clients[r].mac
        /\ \A j \in Rows : j # r => clients'[j] = clients[j]
    <3> DEFINE new == [clients[r] EXCEPT !.st = "assoc", !.sta = task.sta]
    <3>1. new \in Row /\ new.st = "assoc" /\ new.sta = task.sta /\ new.mac = clients[r].mac
      BY <1>0, <2>1 DEF Row
    <3>2. clients' = [clients EXCEPT ![r] = new] BY <1>0, <2>1, <2>3
    <3> HIDE DEF new
    <3> QED BY <1>0, <2>1, <3>1, <3>2
  <2>5. task' = Idle /\ session' = "free" BY <1>3 DEF Associated, Finish
  <2>6. TypeOK' BY <1>0, <1>f, <2>1, <2>4, <2>5 DEF TypeOK
  <2>7. Locked' /\ Phase' BY <1>0, <1>f, <2>1, <2>5 DEF Locked, Phase
  <2>8. Stopped' BY <1>0, <2>1 DEF Stopped
  <2>9. Table' BY <1>0, <2>1, <2>4 DEF Table, RowTrue
  <2>10. Apart' BY <1>0, <2>1, <2>4 DEF Apart
  <2>11. HandStation' /\ Hand' BY <1>f, <2>5 DEF HandStation, Hand
  <2>12. NoOrphanStation'
    <3> SUFFICES ASSUME used.faults = 0, NEW y \in Stations, lmac.sta[y] # None
                 PROVE  \E j \in Rows : clients'[j].sta = y
      BY <2>1 DEF NoOrphanStation
    <3>1. CASE y = task.sta BY <2>1, <2>4, <3>1
    <3>2. CASE y # task.sta
      <4>1. PICK j \in Rows : clients[j].sta = y BY <1>0, <3>2 DEF NoOrphanStation
      <4> QED BY <1>0, <2>2, <2>4, <4>1
    <3> QED BY <3>1, <3>2
  <2> QED BY <2>6, <2>7, <2>8, <2>9, <2>10, <2>11, <2>12 DEF ApInv
<1> QED BY <1>1, <1>2, <1>3

\* The invariant of the access point.
LEMMA ApInvariant == Spec => []ApInv
<1>1. ApInv /\ [Next]_vars => ApInv'
  <2> SUFFICES ASSUME ApInv, [Next]_vars PROVE ApInv'
    OBVIOUS
  <2>1. CASE UNCHANGED vars
    <3>1. UNCHANGED apVars BY <2>1 DEF vars
    <3>2. Phase' /\ Stopped' BY <3>1 DEF apVars, ApInv, Phase, Stopped
    <3> QED BY <3>1, <3>2, OutsideStep DEF apVars, ApInv, TypeOK
  <2> QED BY <2>1, CallerSteps, InputSteps, TableSteps, FrameSteps, RequestSteps DEF Next
<1> QED BY <1>1, ApInvInit, PTL DEF Spec

\* What ap_tx_staid() hands to the data path is a station the LMAC holds for
\* that very client, for every number of rows, stations, faults and restarts.
THEOREM ClientTableTrue == Spec => []TableTrue
<1>1. ApInv => TableTrue
  <2> SUFFICES ASSUME ApInv, NEW m \in Macs, NEW i \in RowOf(m), clients[i].st = "assoc"
               PROVE  lmac.sta[clients[i].sta] = m
    BY DEF TableTrue
  <2>1. i \in Rows /\ clients[i].mac = m /\ RowTrue(i) BY DEF RowOf, ApInv, Table
  <2> QED BY <2>1, AccessPointAssumption DEF RowTrue
<1> QED BY <1>1, ApInvariant, PTL

\* While every request is confirmed, each station of the LMAC is a row's or in
\* the task's hand: wifi_ap_stop() and wifi_ap_start() leave none behind.
THEOREM StationsAccountedFor == Spec => []NoOrphanStation
<1>1. ApInv => NoOrphanStation BY DEF ApInv
<1> QED BY <1>1, ApInvariant, PTL

-----------------------------------------------------------------------------
(* The leases: the order of the stamps against the order of the clients'   *)
(* messages.                                                               *)

Listed(q, x) == \E i \in DOMAIN q : q[i] = x
Once(q)      == \A i, j \in DOMAIN q : q[i] = q[j] => i = j

\* The table: no client has two slots, and every slot has its place in the order.
LeaseTable ==
    /\ leases \in [Slots -> Macs \cup {None}]
    /\ \A s, r \in Slots : leases[s] # None /\ leases[s] = leases[r] => s = r
    /\ recent \in Seq(Slots) /\ Once(recent) /\ \A s \in Slots : Listed(recent, s)

\* A client with a lease has spoken.
HoldersSpoke ==
    /\ spoke \in Seq(Macs) /\ Once(spoke)
    /\ \A s \in Slots : leases[s] # None => Listed(spoke, leases[s])

\* The slots in use are in the order in which their clients spoke last.
StampsFollow ==
    \A s, r \in Slots :
        leases[s] # None /\ leases[r] # None /\ Before(recent, s, r) => Before(spoke, leases[s], leases[r])

LeaseInv == LeaseTable /\ HoldersSpoke /\ StampsFollow

\* A sequence without one of its members: the others, in their order.
LEMMA WithoutOrder ==
    ASSUME NEW S, NEW q \in Seq(S), NEW x, Once(q)
    PROVE  /\ Without(q, x) \in Seq(S) /\ Once(Without(q, x))
           /\ \A y : Listed(Without(q, x), y) <=> Listed(q, y) /\ y # x
           /\ \A y, z : Before(Without(q, x), y, z) <=> Before(q, y, z) /\ y # x /\ z # x
<1>1. CASE ~Listed(q, x)
  <2>1. Without(q, x) = q BY <1>1 DEF Without, Listed
  <2> QED BY <1>1, <2>1 DEF Listed, Before
<1>2. CASE Listed(q, x)
  <2> DEFINE at == CHOOSE i \in DOMAIN q : q[i] = x
             w  == Without(q, x)
  <2>1. at \in DOMAIN q /\ q[at] = x BY <1>2 DEF Listed
  <2>2. w = [i \in 1..(Len(q) - 1) |-> q[IF i < at THEN i ELSE i + 1]]
    BY <1>2 DEF Without, Listed
  <2>3. DOMAIN q = 1..Len(q) /\ Len(q) \in Nat /\ \A i \in 1..Len(q) : q[i] \in S
    OBVIOUS
  <2> HIDE DEF at, w
  <2>4. DOMAIN w = 1..(Len(q) - 1) /\ \A i \in 1..(Len(q) - 1) : w[i] = q[IF i < at THEN i ELSE i + 1]
    BY <2>2
  <2>5. at \in 1..Len(q) /\ at \in Int BY <2>1, <2>3
  <2>6. \A i \in 1..(Len(q) - 1) : i < at => w[i] = q[i] /\ i \in 1..Len(q)
    BY <2>3, <2>4, <2>5
  <2>7. \A i \in 1..(Len(q) - 1) : ~(i < at) => w[i] = q[i + 1] /\ i + 1 \in 1..Len(q) /\ i + 1 > at
    BY <2>3, <2>4, <2>5
  <2>8. \A i, j \in 1..Len(q) : q[i] = q[j] => i = j BY <2>3 DEF Once
  <2>9. w \in Seq(S)
    <3>1. \A i \in 1..(Len(q) - 1) : w[i] \in S BY <2>3, <2>6, <2>7
    <3>2. w \in [1..(Len(q) - 1) -> S] BY <2>2, <2>4, <3>1
    <3>3. Len(q) - 1 \in Nat BY <2>3, <2>5
    <3> QED BY <3>2, <3>3, SeqDef
  <2>10. \A i \in 1..(Len(q) - 1) : \E k \in 1..Len(q) : w[i] = q[k] /\ k # at /\ k = (IF i < at THEN i ELSE i + 1)
    BY <2>3, <2>5, <2>6, <2>7
  <2>11. \A k \in 1..Len(q) : k # at => \E i \in 1..(Len(q) - 1) : w[i] = q[k] /\ k = (IF i < at THEN i ELSE i + 1)
    <3> SUFFICES ASSUME NEW k \in 1..Len(q), k # at
                 PROVE  \E i \in 1..(Len(q) - 1) : w[i] = q[k] /\ k = (IF i < at THEN i ELSE i + 1)
      OBVIOUS
    <3>1. CASE k < at
      <4>1. k \in 1..(Len(q) - 1) BY <2>3, <2>5, <3>1
      <4> QED BY <2>6, <3>1, <4>1
    <3>2. CASE ~(k < at)
      <4>1. k - 1 \in 1..(Len(q) - 1) /\ ~(k - 1 < at) /\ (k - 1) + 1 = k BY <2>3, <2>5, <3>2
      <4> QED BY <2>7, <4>1
    <3> QED BY <3>1, <3>2
  <2>12. \A i \in 1..(Len(q) - 1) : w[i] # x BY <2>1, <2>5, <2>8, <2>10
  <2>13. \A y : Listed(w, y) <=> Listed(q, y) /\ y # x
    <3> SUFFICES ASSUME NEW y PROVE Listed(w, y) <=> Listed(q, y) /\ y # x
      OBVIOUS
    <3>1. Listed(w, y) => Listed(q, y) /\ y # x BY <2>3, <2>4, <2>10, <2>12 DEF Listed
    <3>2. Listed(q, y) /\ y # x => Listed(w, y) BY <2>1, <2>3, <2>4, <2>11 DEF Listed
    <3> QED BY <3>1, <3>2
  <2>14. Once(w)
    <3> SUFFICES ASSUME NEW i \in 1..(Len(q) - 1), NEW j \in 1..(Len(q) - 1), w[i] = w[j] PROVE i = j
      BY <2>4 DEF Once
    <3>1. PICK k \in 1..Len(q) : w[i] = q[k] /\ k = (IF i < at THEN i ELSE i + 1) BY <2>10
    <3>2. PICK l \in 1..Len(q) : w[j] = q[l] /\ l = (IF j < at THEN j ELSE j + 1) BY <2>10
    <3>3. k = l BY <2>8, <3>1, <3>2
    <3> QED BY <2>5, <3>1, <3>2, <3>3
  <2>15. \A y, z : Before(w, y, z) <=> Before(q, y, z) /\ y # x /\ z # x
    <3> SUFFICES ASSUME NEW y, NEW z PROVE Before(w, y, z) <=> Before(q, y, z) /\ y # x /\ z # x
      OBVIOUS
    <3>1. ASSUME Before(w, y, z) PROVE Before(q, y, z) /\ y # x /\ z # x
      <4>1. PICK i, j \in 1..(Len(q) - 1) : i < j /\ w[i] = y /\ w[j] = z BY <2>4, <3>1 DEF Before
      <4>2. PICK k \in 1..Len(q) : w[i] = q[k] /\ k = (IF i < at THEN i ELSE i + 1) BY <2>10
      <4>3. PICK l \in 1..Len(q) : w[j] = q[l] /\ l = (IF j < at THEN j ELSE j + 1) BY <2>10
      <4>4. k < l BY <2>5, <4>1, <4>2, <4>3
      <4>5. y # x /\ z # x BY <2>12, <4>1
      <4> QED BY <2>3, <4>1, <4>2, <4>3, <4>4, <4>5 DEF Before
    <3>2. ASSUME Before(q, y, z), y # x, z # x PROVE Before(w, y, z)
      <4>1. PICK k, l \in 1..Len(q) : k < l /\ q[k] = y /\ q[l] = z BY <2>3, <3>2 DEF Before
      <4>2. k # at /\ l # at BY <2>1, <3>2, <4>1
      <4>3. PICK i \in 1..(Len(q) - 1) : w[i] = q[k] /\ k = (IF i < at THEN i ELSE i + 1) BY <2>11, <4>2
      <4>4. PICK j \in 1..(Len(q) - 1) : w[j] = q[l] /\ l = (IF j < at THEN j ELSE j + 1) BY <2>11, <4>2
      <4>5. i < j BY <2>5, <4>1, <4>3, <4>4
      <4> QED BY <2>4, <4>1, <4>3, <4>4, <4>5 DEF Before
    <3> QED BY <3>1, <3>2
  <2> QED BY <2>9, <2>13, <2>14, <2>15 DEF w
<1> QED BY <1>1, <1>2

\* A stamp moves its slot behind every other, and leaves the others in their order.
LEMMA MoveLastOrder ==
    ASSUME NEW S, NEW q \in Seq(S), NEW x \in S, Once(q)
    PROVE  /\ MoveLast(q, x) \in Seq(S) /\ Once(MoveLast(q, x))
           /\ \A y : Listed(MoveLast(q, x), y) <=> Listed(q, y) \/ y = x
           /\ \A y, z : y # x /\ z # x => (Before(MoveLast(q, x), y, z) <=> Before(q, y, z))
           /\ \A y : Listed(q, y) /\ y # x => Before(MoveLast(q, x), y, x)
           /\ \A z : ~Before(MoveLast(q, x), x, z)
<1> DEFINE w == Without(q, x)
           v == MoveLast(q, x)
<1>1. /\ w \in Seq(S) /\ Once(w)
      /\ \A y : Listed(w, y) <=> Listed(q, y) /\ y # x
      /\ \A y, z : Before(w, y, z) <=> Before(q, y, z) /\ y # x /\ z # x
  BY WithoutOrder
<1>2. v = Append(w, x) BY DEF MoveLast
<1> HIDE DEF w, v
<1>3. w \in Seq(S) BY <1>1
<1>4. /\ v \in Seq(S) /\ Len(w) \in Nat /\ DOMAIN w = 1..Len(w) /\ DOMAIN v = 1..(Len(w) + 1)
      /\ v[Len(w) + 1] = x /\ \A i \in 1..Len(w) : v[i] = w[i]
  BY <1>2, <1>3
<1>5. \A i \in 1..Len(w) : w[i] # x BY <1>1, <1>4 DEF Listed
<1>6. \A i \in 1..(Len(w) + 1) : i = Len(w) + 1 \/ i \in 1..Len(w) BY <1>4
<1>7. Once(v)
  <2> SUFFICES ASSUME NEW i \in 1..(Len(w) + 1), NEW j \in 1..(Len(w) + 1), v[i] = v[j] PROVE i = j
    BY <1>4 DEF Once
  <2>1. \A a, b \in 1..Len(w) : w[a] = w[b] => a = b BY <1>1, <1>4 DEF Once
  <2> QED BY <1>4, <1>5, <1>6, <2>1
<1>8. \A y : Listed(v, y) <=> Listed(w, y) \/ y = x
  <2> SUFFICES ASSUME NEW y PROVE Listed(v, y) <=> Listed(w, y) \/ y = x
    OBVIOUS
  <2>1. Len(w) + 1 \in 1..(Len(w) + 1) /\ \A i \in 1..Len(w) : i \in 1..(Len(w) + 1) BY <1>4
  <2> QED BY <1>4, <1>6, <2>1 DEF Listed
<1>9. \A y : Listed(w, y) => Before(v, y, x)
  <2> SUFFICES ASSUME NEW y, Listed(w, y) PROVE Before(v, y, x)
    OBVIOUS
  <2>1. PICK i \in 1..Len(w) : w[i] = y BY <1>4 DEF Listed
  <2>2. i < Len(w) + 1 /\ i \in 1..(Len(w) + 1) /\ Len(w) + 1 \in 1..(Len(w) + 1) BY <1>4
  <2> QED BY <1>4, <2>1, <2>2 DEF Before
<1>10. \A z : ~Before(v, x, z)
  <2> SUFFICES ASSUME NEW i \in 1..(Len(w) + 1), NEW j \in 1..(Len(w) + 1), i < j, v[i] = x PROVE FALSE
    BY <1>4 DEF Before
  <2>1. i \in 1..Len(w) BY <1>4
  <2> QED BY <1>4, <1>5, <2>1
<1>11. \A y, z : y # x /\ z # x => (Before(v, y, z) <=> Before(w, y, z))
  <2> SUFFICES ASSUME NEW y, NEW z, y # x, z # x PROVE Before(v, y, z) <=> Before(w, y, z)
    OBVIOUS
  <2>1. ASSUME Before(v, y, z) PROVE Before(w, y, z)
    <3>1. PICK i, j \in 1..(Len(w) + 1) : i < j /\ v[i] = y /\ v[j] = z BY <1>4, <2>1 DEF Before
    <3>2. i \in 1..Len(w) /\ j \in 1..Len(w) BY <1>4, <1>6, <3>1
    <3> QED BY <1>4, <3>1, <3>2 DEF Before
  <2>2. ASSUME Before(w, y, z) PROVE Before(v, y, z)
    <3>1. PICK i, j \in 1..Len(w) : i < j /\ w[i] = y /\ w[j] = z BY <1>4, <2>2 DEF Before
    <3>2. i \in 1..(Len(w) + 1) /\ j \in 1..(Len(w) + 1) BY <1>4
    <3> QED BY <1>4, <3>1, <3>2 DEF Before
  <2> QED BY <2>1, <2>2
<1>12. \A y, z : y # x /\ z # x => (Before(v, y, z) <=> Before(q, y, z)) BY <1>1, <1>11
<1>13. \A y : Listed(v, y) <=> Listed(q, y) \/ y = x BY <1>1, <1>8
<1>14. \A y : Listed(q, y) /\ y # x => Before(v, y, x) BY <1>1, <1>9
<1> QED BY <1>4, <1>7, <1>10, <1>12, <1>13, <1>14 DEF v

\* A new server has no lease, and its slots in a row.
LEMMA FreshOrder ==
    ASSUME NEW q, q = [i \in 1..Pool |-> i - 1]
    PROVE  q \in Seq(Slots) /\ Once(q) /\ \A s \in Slots : Listed(q, s)
<1>1. Pool \in Nat BY AccessPointAssumption
<1>2. q \in [1..Pool -> Slots] BY <1>1 DEF Slots
<1>3. q \in Seq(Slots) BY <1>1, <1>2, SeqDef
<1>4. DOMAIN q = 1..Pool /\ \A i \in 1..Pool : q[i] = i - 1 OBVIOUS
<1>5. Once(q) BY <1>1, <1>4 DEF Once
<1>6. ASSUME NEW s \in Slots PROVE Listed(q, s)
  <2>1. s + 1 \in 1..Pool /\ (s + 1) - 1 = s BY <1>1 DEF Slots
  <2> QED BY <1>4, <2>1 DEF Listed
<1> QED BY <1>3, <1>5, <1>6

\* The state dhcp_leases_clear() leaves.
LEMMA LeaseInvInit ==
    ASSUME leases = NoLeases, recent = [i \in 1..Pool |-> i - 1], spoke = <<>>
    PROVE  LeaseInv
<1>1. recent \in Seq(Slots) /\ Once(recent) /\ \A s \in Slots : Listed(recent, s) BY FreshOrder
<1>2. leases \in [Slots -> Macs \cup {None}] /\ \A s \in Slots : leases[s] = None BY DEF NoLeases
<1>3. spoke \in Seq(Macs) /\ Once(spoke) BY DEF Once
<1> QED BY <1>1, <1>2, <1>3 DEF LeaseInv, LeaseTable, HoldersSpoke, StampsFollow

\* The same after dhcp_server_start() has made a new state.
LEMMA LeaseInvFresh ==
    ASSUME leases' = NoLeases, recent' = [i \in 1..Pool |-> i - 1], spoke' = <<>>
    PROVE  LeaseInv'
<1>1. recent' \in Seq(Slots) /\ Once(recent') /\ \A s \in Slots : Listed(recent', s) BY FreshOrder
<1>2. leases' \in [Slots -> Macs \cup {None}] /\ \A s \in Slots : leases'[s] = None BY DEF NoLeases
<1>3. spoke' \in Seq(Macs) /\ Once(spoke') BY DEF Once
<1> QED BY <1>1, <1>2, <1>3 DEF LeaseInv, LeaseTable, HoldersSpoke, StampsFollow

\* The slot dhcp_leases_find() finds is the client's, and without one the client has no lease.
LEMMA HeldSlot ==
    ASSUME LeaseTable, NEW m \in Macs
    PROVE  /\ Held(m) \in Slots \cup {Elsewhere}
           /\ Held(m) \in Slots => leases[Held(m)] = m
           /\ Held(m) \notin Slots => \A s \in Slots : leases[s] # m
<1> DEFINE S == {s \in Slots : leases[s] = m} \cup {Elsewhere}
<1>1. S \in SUBSET Nat /\ S # {} BY AccessPointAssumption DEF Slots, Elsewhere
<1>2. Held(m) = Min(S) BY DEF Held
<1>3. Held(m) \in S /\ \A y \in S : Held(m) <= y BY <1>1, <1>2, LeastOf
<1>4. Held(m) \notin Slots => Held(m) = Pool BY <1>3 DEF Elsewhere
<1>5. Elsewhere \notin Slots BY AccessPointAssumption DEF Slots, Elsewhere
<1>6. ASSUME Held(m) \notin Slots, NEW s \in Slots, leases[s] = m PROVE FALSE
  <2>1. Pool <= s BY <1>3, <1>4, <1>6
  <2> QED BY <2>1, AccessPointAssumption DEF Slots
<1> QED BY <1>3, <1>5, <1>6

\* A message whose answer stamps a slot, the client's own before or after it.
LEMMA StampedStep ==
    ASSUME LeaseInv, NEW m \in Macs, NEW s \in Slots, \A r \in Slots \ {s} : leases[r] # m,
           leases' \in [Slots -> Macs \cup {None}], leases'[s] \in {m, None},
           \A r \in Slots \ {s} : leases'[r] = leases[r],
           recent' = MoveLast(recent, s), spoke' = MoveLast(spoke, m)
    PROVE  LeaseInv'
<1>0. recent \in Seq(Slots) /\ Once(recent) /\ spoke \in Seq(Macs) /\ Once(spoke) /\ m # None
  BY AccessPointAssumption DEF LeaseInv, LeaseTable, HoldersSpoke
<1>1. /\ recent' \in Seq(Slots) /\ Once(recent')
      /\ \A y : Listed(recent', y) <=> Listed(recent, y) \/ y = s
      /\ \A y, z : y # s /\ z # s => (Before(recent', y, z) <=> Before(recent, y, z))
      /\ \A z : ~Before(recent', s, z)
  BY <1>0, MoveLastOrder, ZenonT(60)
<1>2. /\ spoke' \in Seq(Macs) /\ Once(spoke')
      /\ \A y : Listed(spoke', y) <=> Listed(spoke, y) \/ y = m
      /\ \A y, z : y # m /\ z # m => (Before(spoke', y, z) <=> Before(spoke, y, z))
      /\ \A y : Listed(spoke, y) /\ y # m => Before(spoke', y, m)
  BY <1>0, MoveLastOrder, ZenonT(60)
<1>3. LeaseTable'
  <2>1. \A r, t \in Slots : leases'[r] # None /\ leases'[r] = leases'[t] => r = t
    <3> SUFFICES ASSUME NEW r \in Slots, NEW t \in Slots, leases'[r] # None, leases'[r] = leases'[t] PROVE r = t
      OBVIOUS
    <3>1. CASE r # s /\ t # s BY <3>1 DEF LeaseInv, LeaseTable
    <3>2. CASE r = s \/ t = s BY <3>2
    <3> QED BY <3>1, <3>2
  <2>2. \A r \in Slots : Listed(recent', r) BY <1>1 DEF LeaseInv, LeaseTable
  <2> QED BY <1>1, <2>1, <2>2 DEF LeaseTable
<1>4. HoldersSpoke'
  <2>1. \A r \in Slots : leases'[r] # None => Listed(spoke', leases'[r])
    <3> SUFFICES ASSUME NEW r \in Slots, leases'[r] # None PROVE Listed(spoke', leases'[r])
      OBVIOUS
    <3>1. CASE r = s BY <1>2, <3>1
    <3>2. CASE r # s BY <1>2, <3>2 DEF LeaseInv, HoldersSpoke
    <3> QED BY <3>1, <3>2
  <2> QED BY <1>2, <2>1 DEF HoldersSpoke
<1>5. StampsFollow'
  <2>1. ASSUME NEW r \in Slots, NEW t \in Slots, leases'[r] # None, leases'[t] # None, Before(recent', r, t)
        PROVE  Before(spoke', leases'[r], leases'[t])
    <3>1. r # s BY <1>1, <2>1
    <3>2. leases'[r] = leases[r] /\ leases[r] # m /\ leases[r] # None /\ Listed(spoke, leases[r])
      BY <2>1, <3>1 DEF LeaseInv, HoldersSpoke
    <3>3. CASE t = s
      <4>1. leases'[t] = m BY <2>1, <3>3
      <4> QED BY <1>2, <3>2, <4>1
    <3>4. CASE t # s
      <4>1. leases'[t] = leases[t] /\ leases[t] # m /\ leases[t] # None BY <2>1, <3>4
      <4>2. Before(recent, r, t) BY <1>1, <2>1, <3>1, <3>4
      <4>3. Before(spoke, leases[r], leases[t]) BY <3>2, <4>1, <4>2 DEF LeaseInv, StampsFollow
      <4> QED BY <1>2, <3>2, <4>1, <4>3
    <3> QED BY <3>3, <3>4
  <2> QED BY <2>1 DEF StampsFollow
<1> QED BY <1>3, <1>4, <1>5 DEF LeaseInv

\* A message of a client without a lease that gets none.
LEMMA UnstampedStep ==
    ASSUME LeaseInv, NEW m \in Macs, \A r \in Slots : leases[r] # m,
           UNCHANGED <<leases, recent>>, spoke' = MoveLast(spoke, m)
    PROVE  LeaseInv'
<1>0. spoke \in Seq(Macs) /\ Once(spoke)
  BY DEF LeaseInv, HoldersSpoke
<1>1. /\ spoke' \in Seq(Macs) /\ Once(spoke')
      /\ \A y : Listed(spoke', y) <=> Listed(spoke, y) \/ y = m
      /\ \A y, z : y # m /\ z # m => (Before(spoke', y, z) <=> Before(spoke, y, z))
  BY <1>0, MoveLastOrder, Zenon
<1>2. leases' = leases /\ recent' = recent OBVIOUS
<1>3. LeaseTable' BY <1>2 DEF LeaseInv, LeaseTable
<1>4. HoldersSpoke' BY <1>1, <1>2 DEF LeaseInv, HoldersSpoke
<1>5. StampsFollow'
  <2>1. ASSUME NEW r \in Slots, NEW t \in Slots, leases[r] # None, leases[t] # None, Before(recent, r, t)
        PROVE  Before(spoke', leases[r], leases[t])
    BY <1>1, <2>1 DEF LeaseInv, StampsFollow
  <2> QED BY <1>2, <2>1 DEF StampsFollow
<1> QED BY <1>3, <1>4, <1>5 DEF LeaseInv

\* A slot gets a client that has none.
LEMMA AssignStep ==
    ASSUME LeaseInv, NEW m \in Macs, NEW s \in Slots, Held(m) \notin Slots,
           Assign(s, m), spoke' = MoveLast(spoke, m)
    PROVE  LeaseInv'
<1>1. \A r \in Slots : leases[r] # m BY HeldSlot DEF LeaseInv
<1>2. leases \in [Slots -> Macs \cup {None}] BY DEF LeaseInv, LeaseTable
<1>3. leases' = [leases EXCEPT ![s] = m] /\ recent' = MoveLast(recent, s) BY DEF Assign
<1>4. leases' \in [Slots -> Macs \cup {None}] /\ leases'[s] = m /\ \A r \in Slots \ {s} : leases'[r] = leases[r]
  BY <1>2, <1>3
<1> QED BY <1>1, <1>3, <1>4, StampedStep

\* dhcp_leases_find() within a message.
LEMMA FindStep ==
    ASSUME LeaseInv, NEW m \in Macs, Find(m), spoke' = MoveLast(spoke, m)
    PROVE  LeaseInv'
<1>0. LeaseTable BY DEF LeaseInv
<1>1. CASE Held(m) \in Slots
  <2>1. PICK s \in Slots : s = Held(m) BY <1>1
  <2>2. leases[s] = m /\ m # None BY <1>0, <1>1, <2>1, HeldSlot, AccessPointAssumption
  <2>3. leases \in [Slots -> Macs \cup {None}] /\ \A r \in Slots \ {s} : leases[r] # m
    BY <2>2 DEF LeaseInv, LeaseTable
  <2>4. leases' = leases /\ recent' = MoveLast(recent, s) BY <1>1, <2>1 DEF Find
  <2> QED BY <2>2, <2>3, <2>4, StampedStep
<1>2. CASE Held(m) \notin Slots
  <2>1. \A r \in Slots : leases[r] # m BY <1>0, <1>2, HeldSlot
  <2>2. UNCHANGED <<leases, recent>> BY <1>2 DEF Find
  <2> QED BY <2>1, <2>2, UnstampedStep
<1> QED BY <1>1, <1>2

\* The slot dhcp_leases_take() gives.
LEMMA TakenSlot ==
    ASSUME LeaseTable
    PROVE  /\ Unused # {} => Min(Unused) \in Unused
           /\ recent # <<>> /\ Head(recent) \in Slots /\ Head(recent) = recent[1]
<1>1. Unused \in SUBSET Nat BY AccessPointAssumption DEF Unused, Slots
<1>2. 0 \in Slots BY AccessPointAssumption DEF Slots
<1>3. recent # <<>> BY <1>2 DEF LeaseTable, Listed
<1>4. recent \in Seq(Slots) BY DEF LeaseTable
<1> QED BY <1>1, <1>3, <1>4, LeastOf

\* Every step keeps the table and the two orders together.
LEMMA LeaseInvStep == LeaseInv /\ [Next]_vars => LeaseInv'
<1> SUFFICES ASSUME LeaseInv, [Next]_vars PROVE LeaseInv'
  OBVIOUS
<1>1. ASSUME UNCHANGED <<leases, recent, spoke>> PROVE LeaseInv'
  BY <1>1 DEF LeaseInv, LeaseTable, HoldersSpoke, StampsFollow
<1>2. CASE UNCHANGED dhcpVars
  BY <1>1, <1>2 DEF dhcpVars
<1>3. ASSUME NEW ok \in BOOLEAN, Create(ok) PROVE LeaseInv'
  <2>1. CASE dhcp.live BY <1>2, <1>3, <2>1 DEF Create
  <2>2. CASE ~dhcp.live
    <3>1. leases' = NoLeases /\ recent' = [i \in 1..Pool |-> i - 1] /\ spoke' = <<>>
      BY <1>3, <2>2 DEF Create
    <3> QED BY <3>1, LeaseInvFresh
  <2> QED BY <2>1, <2>2
<1>4. ASSUME NEW m \in Macs, Message(m) PROVE LeaseInv'
  <2>1. spoke' = MoveLast(spoke, m) BY <1>4 DEF Message, OnMessage
  <2>2. LeaseTable BY DEF LeaseInv
  <2>3. CASE Find(m) BY <2>1, <2>3, FindStep
  <2>4. CASE Discover(m)
    <3>1. CASE Held(m) \in Slots BY <2>3, <2>4, <3>1 DEF Discover
    <3>2. CASE Held(m) \notin Slots
      <4>1. PICK s \in Slots : Assign(s, m)
        BY <2>2, <2>4, <3>2, TakenSlot DEF Discover, Take, Unused
      <4> QED BY <2>1, <3>2, <4>1, AssignStep
    <3> QED BY <3>1, <3>2
  <2>5. ASSUME NEW addr \in Slots \cup {Elsewhere}, Request(m, addr) PROVE LeaseInv'
    <3>1. CASE Held(m) = Elsewhere /\ addr \in Unused
      <4>1. addr \in Slots /\ Held(m) \notin Slots
        BY <3>1, AccessPointAssumption DEF Unused, Elsewhere, Slots
      <4>2. Assign(addr, m) BY <2>5, <3>1 DEF Request
      <4> QED BY <2>1, <4>1, <4>2, AssignStep
    <3>2. CASE ~(Held(m) = Elsewhere /\ addr \in Unused)
      BY <2>3, <2>5, <3>2 DEF Request
    <3> QED BY <3>1, <3>2
  <2>6. CASE Release(m)
    <3>1. PICK s \in Slots : s = Held(m) BY <2>6 DEF Release
    <3>2. leases[s] = m /\ m # None BY <2>2, <3>1, HeldSlot, AccessPointAssumption
    <3>3. leases \in [Slots -> Macs \cup {None}] /\ \A r \in Slots \ {s} : leases[r] # m
      BY <2>2, <3>2 DEF LeaseTable
    <3>4. leases' = [leases EXCEPT ![s] = None] /\ recent' = MoveLast(recent, s)
      BY <2>6, <3>1 DEF Release
    <3>5. leases' \in [Slots -> Macs \cup {None}] /\ leases'[s] = None /\ \A r \in Slots \ {s} : leases'[r] = leases[r]
      BY <3>3, <3>4
    <3> QED BY <2>1, <3>3, <3>4, <3>5, StampedStep
  <2> QED BY <1>4, <2>3, <2>4, <2>5, <2>6 DEF Message, OnMessage
<1>5. CASE DhcpStart
  BY <1>1, <1>3, <1>5 DEF DhcpStart
<1>6. CASE DhcpStop
  BY <1>1, <1>6 DEF DhcpStop
<1>7. CASE LinkUp
  BY <1>1, <1>2, <1>7 DEF LinkUp, StopAsk
<1>8. CASE Stop
  BY <1>1, <1>8 DEF Stop, StopAsk
<1>9. CASE TaskStops
  BY <1>1, <1>9 DEF TaskStops
<1>10. CASE UNCHANGED vars
  BY <1>2, <1>10 DEF vars
<1>11. CASE \E m \in Macs, k \in Kinds : Arrives(k, m)
  BY <1>2, <1>11 DEF Arrives
<1>12. CASE Receive \/ StaDel \/ OnAuth \/ Enter \/ OnAssoc \/ StaAdd \/ Associated \/ OnLeave
  BY <1>2, <1>12 DEF Receive, StaDel, OnAuth, Enter, OnAssoc, StaAdd, Associated, OnLeave
<1>13. CASE Start \/ Beacons \/ StartFails \/ TakeSession \/ DropNext \/ Dropped \/ Quiet
  BY <1>2, <1>13 DEF Start, Beacons, StartFails, TakeSession, DropNext, Dropped, Quiet
<1> QED BY <1>4, <1>5, <1>6, <1>7, <1>8, <1>9, <1>10, <1>11, <1>12, <1>13 DEF Next

\* An address that passes to another client was taken from the one silent longest.
LEMMA EvictStep ==
    ASSUME LeaseInv, [Next]_vars, NEW s \in Slots, leases[s] # None, leases'[s] \notin {None, leases[s]}
    PROVE  Unused = {} /\ \A r \in Slots \ {s} : Before(spoke, leases[s], leases[r])
<1>0. LeaseTable BY DEF LeaseInv
<1>a. leases \in [Slots -> Macs \cup {None}] BY <1>0 DEF LeaseTable
<1>1. ASSUME UNCHANGED leases PROVE FALSE
  BY <1>1
<1>2. ASSUME UNCHANGED dhcpVars PROVE FALSE
  BY <1>1, <1>2 DEF dhcpVars
<1>3. ASSUME NEW ok \in BOOLEAN, Create(ok) PROVE FALSE
  <2>1. CASE dhcp.live BY <1>2, <1>3, <2>1 DEF Create
  <2>2. CASE ~dhcp.live
    <3>1. leases' = NoLeases BY <1>3, <2>2 DEF Create
    <3> QED BY <3>1 DEF NoLeases
  <2> QED BY <2>1, <2>2
<1>4. ASSUME NEW m \in Macs, Message(m)
      PROVE  Unused = {} /\ \A r \in Slots \ {s} : Before(spoke, leases[s], leases[r])
  <2>1. ASSUME Find(m) PROVE FALSE BY <1>1, <2>1 DEF Find
  <2>2. ASSUME NEW t \in Unused, Assign(t, m) PROVE FALSE
    <3>1. t \in Slots /\ leases[t] = None BY <2>2 DEF Unused
    <3>2. leases' = [leases EXCEPT ![t] = m] BY <2>2 DEF Assign
    <3> QED BY <1>a, <3>1, <3>2
  <2>3. CASE \E addr \in Slots \cup {Elsewhere} : Request(m, addr)
    BY <2>1, <2>2, <2>3 DEF Request
  <2>4. CASE Release(m)
    <3>1. PICK t \in Slots : leases' = [leases EXCEPT ![t] = None] BY <2>4 DEF Release
    <3> QED BY <1>a, <3>1
  <2>5. CASE Discover(m)
    <3>1. ASSUME Unused # {}, Take(m) PROVE FALSE
      <4>1. Min(Unused) \in Unused BY <1>0, <3>1, TakenSlot
      <4>2. Assign(Min(Unused), m) BY <3>1 DEF Take
      <4> QED BY <2>2, <4>1, <4>2
    <3>2. Take(m) /\ Unused = {} BY <2>1, <2>5, <3>1 DEF Discover
    <3>3. PICK h \in Slots : h = Head(recent) /\ h = recent[1] BY <1>0, TakenSlot
    <3>4. leases' = [leases EXCEPT ![h] = m] BY <3>2, <3>3 DEF Take, Assign
    <3>5. h = s BY <1>a, <3>4
    <3>6. ASSUME NEW r \in Slots \ {s} PROVE Before(spoke, leases[s], leases[r])
      <4>1. PICK i \in DOMAIN recent : recent[i] = r BY <1>0 DEF LeaseTable, Listed
      <4>2. recent \in Seq(Slots) BY <1>0 DEF LeaseTable
      <4>3. i \in Nat /\ 1 \in DOMAIN recent /\ 1 < i BY <3>3, <3>5, <3>6, <4>1, <4>2
      <4>4. Before(recent, s, r) BY <3>3, <3>5, <4>1, <4>3 DEF Before
      <4>5. leases[r] # None BY <3>2 DEF Unused
      <4> QED BY <4>4, <4>5 DEF LeaseInv, StampsFollow
    <3> QED BY <3>2, <3>6
  <2> QED BY <1>4, <2>1, <2>3, <2>4, <2>5 DEF Message, OnMessage
<1>5. CASE DhcpStart
  BY <1>1, <1>3, <1>5 DEF DhcpStart
<1>6. CASE DhcpStop
  BY <1>1, <1>6 DEF DhcpStop
<1>7. CASE LinkUp
  BY <1>1, <1>2, <1>7 DEF LinkUp, StopAsk
<1>8. CASE Stop
  BY <1>1, <1>8 DEF Stop, StopAsk
<1>9. CASE TaskStops
  BY <1>1, <1>9 DEF TaskStops
<1>10. CASE UNCHANGED vars
  BY <1>2, <1>10 DEF vars
<1>11. CASE \E m \in Macs, k \in Kinds : Arrives(k, m)
  BY <1>2, <1>11 DEF Arrives
<1>12. CASE Receive \/ StaDel \/ OnAuth \/ Enter \/ OnAssoc \/ StaAdd \/ Associated \/ OnLeave
  BY <1>2, <1>12 DEF Receive, StaDel, OnAuth, Enter, OnAssoc, StaAdd, Associated, OnLeave
<1>13. CASE Start \/ Beacons \/ StartFails \/ TakeSession \/ DropNext \/ Dropped \/ Quiet
  BY <1>2, <1>13 DEF Start, Beacons, StartFails, TakeSession, DropNext, Dropped, Quiet
<1> QED BY <1>4, <1>5, <1>6, <1>7, <1>8, <1>9, <1>10, <1>11, <1>12, <1>13 DEF Next

\* The DHCP server takes an address from a client only when every address is
\* in use, and from the client whose last message is the oldest: the stamps of
\* the slots never fall out of the order in which their clients spoke, whatever
\* the messages were and whoever had the slots before.
THEOREM OldestIsEvicted == Spec => EvictsOldest
<1> DEFINE Due  == \A s \in Slots :
                      (leases[s] # None /\ leases'[s] \notin {None, leases[s]}) =>
                         /\ Unused = {}
                         /\ \A r \in Slots \ {s} : Before(spoke, leases[s], leases[r])
<1>1. Init => LeaseInv
  <2> SUFFICES ASSUME Init PROVE LeaseInv
    OBVIOUS
  <2> QED BY LeaseInvInit DEF Init, DhcpInit
<1>2. LeaseInv /\ [Next]_vars => [Due]_dhcpVars
  BY EvictStep
<1> QED BY <1>1, <1>2, LeaseInvStep, PTL DEF Spec, EvictsOldest
=============================================================================
