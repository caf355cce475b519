---------------------------- MODULE AccessPoint ----------------------------
(***************************************************************************)
(* The access point (ap.cpp, ap_clients.c) with its DHCP server: the task  *)
(* that answers management frames, the caller that starts and stops the    *)
(* access point (main_task.cpp and the shell's command, one at a time),    *)
(* and the LMAC's stations.  A request to the LMAC lets the other task run *)
(* until it is confirmed; it may be refused, or carried out without its    *)
(* confirmation arriving in time.                                          *)
(***************************************************************************)
EXTENDS DhcpServer

CONSTANTS
    Room,        \* AP_CLIENTS_MAX
    QueueLen,    \* RX_QUEUE_LEN
    Stations,    \* the LMAC's station indices
    MaxStarts,   \* bound: calls of wifi_ap_start()
    MaxFrames,   \* bound: management frames
    MaxMessages, \* bound: DHCP messages
    MaxFaults    \* bound: requests refused or not confirmed, waits that time out

ASSUME AccessPointAssumption ==
    /\ Pool \in Nat \ {0} /\ Room \in Nat \ {0} /\ QueueLen \in Nat \ {0}
    /\ {MaxStarts, MaxFrames, MaxMessages, MaxFaults} \subseteq Nat
    /\ Stations \subseteq Nat /\ None \notin Macs \cup Stations

VARIABLES
    running,  \* s_running
    session,  \* s_session: who holds it
    clients,  \* s_clients
    queue,    \* s_queue
    task,     \* the access point's task: its step, the frame, the row and the station in hand
    ctl,      \* the caller's step
    lmac,     \* the access point on the air, and the client of each station
    used      \* how much of each bound is used

apVars == <<running, session, clients, queue, task, ctl, lmac, used>>
vars   == <<apVars, dhcpVars>>

Rows  == 1..Room
FreeRow == [st |-> "free", mac |-> None, sta |-> None]
Idle  == [pc |-> "idle", kind |-> "none", mac |-> None, row |-> 1, sta |-> None]
Kinds == {"auth", "assoc", "leave", "other"}

Init ==
    /\ DhcpInit
    /\ running = FALSE /\ session = "free" /\ queue = <<>> /\ task = Idle /\ ctl = "idle"
    /\ clients = [i \in Rows |-> FreeRow]
    /\ lmac = [on |-> FALSE, sta |-> [x \in Stations |-> None]]
    /\ used = [starts |-> 0, frames |-> 0, messages |-> 0, faults |-> 0]

Spend(what, most) == used[what] < most /\ used' = [used EXCEPT ![what] = @ + 1]
Fault == Spend("faults", MaxFaults)

-----------------------------------------------------------------------------
(* ap_clients.c.                                                           *)

\* ap_clients_find(): the client's row, or none.
RowOf(m) == {i \in Rows : clients[i].st # "free" /\ clients[i].mac = m}

\* ap_clients_add(): the first free row.
Add(m) ==
    LET free == {i \in Rows : clients[i].st = "free"}
    IN  clients' = IF RowOf(m) # {} \/ free = {} THEN clients
                   ELSE [clients EXCEPT ![Min(free)] = [st |-> "authed", mac |-> m, sta |-> None]]

\* ap_clients_remove().
Remove(i) == clients' = [clients EXCEPT ![i] = FreeRow]

-----------------------------------------------------------------------------
(* ap_mgmt_rx() in the core task.                                          *)

Arrives(kind, m) ==
    /\ lmac.on /\ running
    /\ Spend("frames", MaxFrames)
    /\ queue' = IF Len(queue) < QueueLen THEN Append(queue, [kind |-> kind, mac |-> m]) ELSE queue
    /\ UNCHANGED <<running, session, clients, task, ctl, lmac, dhcpVars>>

-----------------------------------------------------------------------------
(* The access point's task.                                                *)

\* One frame, under the session lock.  After wifi_ap_stop() it is only freed.
Receive ==
    /\ task.pc = "idle" /\ queue # <<>> /\ session = "free"
    /\ queue' = Tail(queue)
    /\ IF running /\ Head(queue).kind # "other"
       THEN /\ task' = [pc |-> Head(queue).kind, kind |-> Head(queue).kind, mac |-> Head(queue).mac,
                        row |-> 1, sta |-> None]
            /\ session' = "task"
       ELSE UNCHANGED <<task, session>>
    /\ UNCHANGED <<running, clients, ctl, lmac, used, dhcpVars>>

Finish == task' = Idle /\ session' = "free"

\* drop_client(): the row first, then the station if the client had one.
DropAnd(i, next) ==
    /\ Remove(i)
    /\ task' = [task EXCEPT !.sta = clients[i].sta, !.pc = IF clients[i].st = "assoc" THEN "del" ELSE next]
    /\ UNCHANGED session

\* ME_STA_DEL_REQ; what comes after it depends on the frame.
StaDel ==
    /\ task.pc = "del"
    /\ \/ lmac' = [lmac EXCEPT !.sta[task.sta] = None] /\ UNCHANGED used
       \/ Fault /\ UNCHANGED lmac
    /\ IF task.kind = "leave" THEN Finish
       ELSE task' = [task EXCEPT !.sta = None, !.pc = IF task.kind = "auth" THEN "enter" ELSE "add"] /\ UNCHANGED session
    /\ UNCHANGED <<running, clients, queue, ctl, dhcpVars>>

\* on_auth(): a client known already starts over.
OnAuth ==
    /\ task.pc = "auth"
    /\ IF RowOf(task.mac) # {} THEN DropAnd(Min(RowOf(task.mac)), "enter")
       ELSE task' = [task EXCEPT !.pc = "enter"] /\ UNCHANGED <<session, clients>>
    /\ UNCHANGED <<running, queue, ctl, lmac, used, dhcpVars>>

Enter ==
    /\ task.pc = "enter"
    /\ Add(task.mac) /\ Finish
    /\ UNCHANGED <<running, queue, ctl, lmac, used, dhcpVars>>

\* on_assoc() that deletes the old station and leaves the row naming it.
OnAssocKeeps ==
    /\ task.pc = "assoc"
    /\ IF RowOf(task.mac) = {} THEN Finish /\ UNCHANGED clients
       ELSE LET i == Min(RowOf(task.mac))
            IN  /\ task' = [task EXCEPT !.row = i, !.sta = clients[i].sta,
                                        !.pc = IF clients[i].st = "assoc" THEN "del" ELSE "add"]
                /\ UNCHANGED <<session, clients>>
    /\ UNCHANGED <<running, queue, ctl, lmac, used, dhcpVars>>

\* on_assoc() up to ME_STA_ADD_REQ: the old station of a client goes first.
OnAssoc ==
    /\ task.pc = "assoc"
    /\ IF RowOf(task.mac) = {} THEN Finish /\ UNCHANGED clients
       ELSE LET i == Min(RowOf(task.mac))
            IN  /\ clients' = [clients EXCEPT ![i].st = "authed", ![i].sta = None]
                /\ task' = [task EXCEPT !.row = i, !.sta = clients[i].sta,
                                        !.pc = IF clients[i].st = "assoc" THEN "del" ELSE "add"]
                /\ UNCHANGED session
    /\ UNCHANGED <<running, queue, ctl, lmac, used, dhcpVars>>

\* ME_STA_ADD_REQ: confirmed; or refused, full or unanswered, and the client dropped.
StaAdd ==
    /\ task.pc = "add"
    /\ LET free == {x \in Stations : lmac.sta[x] = None}
           Made(x) == lmac' = [lmac EXCEPT !.sta[x] = task.mac]
       IN  \/ /\ free # {} /\ Made(Min(free))
              /\ task' = [task EXCEPT !.pc = "added", !.sta = Min(free)]
              /\ UNCHANGED <<clients, session, used>>
           \/ free = {} /\ Remove(task.row) /\ Finish /\ UNCHANGED <<lmac, used>>
           \/ Fault /\ free # {} /\ (Made(Min(free)) \/ UNCHANGED lmac) /\ Remove(task.row) /\ Finish
    /\ UNCHANGED <<running, queue, ctl, dhcpVars>>

\* The row names the station; then its port is opened.  The row is the one found
\* before the request, also when a restart has cleared the table since.
Associated ==
    /\ task.pc = "added"
    /\ clients' = [clients EXCEPT ![task.row].st = "assoc", ![task.row].sta = task.sta]
    /\ Finish
    /\ UNCHANGED <<running, queue, ctl, lmac, used, dhcpVars>>

\* A client that leaves.
OnLeave ==
    /\ task.pc = "leave"
    /\ LET row == RowOf(task.mac)
       IN  IF row # {} /\ clients[Min(row)].st = "assoc" THEN DropAnd(Min(row), "idle")
           ELSE Finish /\ (IF row = {} THEN UNCHANGED clients ELSE Remove(Min(row)))
    /\ UNCHANGED <<running, queue, ctl, lmac, used, dhcpVars>>

-----------------------------------------------------------------------------
(* wifi_ap_start() and wifi_ap_stop().                                     *)

Goto(from, to) == ctl = from /\ ctl' = to

\* Up to APM_START_REQ.  Frames can arrive before the confirmation does.
Start ==
    /\ Goto("idle", "starting") /\ ~running
    /\ Spend("starts", MaxStarts)
    /\ clients' = [i \in Rows |-> FreeRow]
    /\ running' = TRUE
    /\ UNCHANGED <<session, queue, task, lmac, dhcpVars>>

Beacons ==
    /\ Goto("starting", "started")
    /\ lmac' = [lmac EXCEPT !.on = TRUE]
    /\ UNCHANGED <<running, session, clients, queue, task, used, dhcpVars>>

\* The LMAC refused, or its answer did not come.
StartFails ==
    /\ ctl \in {"starting", "started"} /\ ctl' = "idle"
    /\ Fault
    /\ running' = FALSE
    /\ UNCHANGED <<session, clients, queue, task, lmac, dhcpVars>>

\* wifi_net_ap_link_up(): a server whose stop was given up is stopped first.
LinkUp ==
    /\ Goto("started", "dhcp")
    /\ IF dhcp.stop THEN StopAsk ELSE UNCHANGED dhcpVars
    /\ UNCHANGED <<running, session, clients, queue, task, lmac, used>>

\* The wait for the task of the old server, and the new one.
DhcpStart ==
    /\ Goto("dhcp", IF dhcp.stop /\ dhcp.given THEN "dhcp" ELSE "idle")
    /\ \/ dhcp.stop /\ StopTaken /\ UNCHANGED <<leases, recent, spoke, used>>
       \/ dhcp.stop /\ StopTimesOut /\ Fault /\ UNCHANGED <<leases, recent, spoke>>
       \/ ~dhcp.stop /\ Create(TRUE) /\ UNCHANGED used
       \/ ~dhcp.stop /\ Fault /\ Create(FALSE)
    /\ UNCHANGED <<running, session, clients, queue, task, lmac>>

\* wifi_ap_stop(): no new frame is handled from here.
Stop ==
    /\ Goto("idle", "unlink") /\ running
    /\ running' = FALSE
    /\ StopAsk
    /\ UNCHANGED <<session, clients, queue, task, lmac, used>>

\* The end of wifi_net_ap_link_down().
DhcpStop ==
    /\ Goto("unlink", "wait")
    /\ \/ (StopTaken \/ StopNothing) /\ UNCHANGED used
       \/ StopTimesOut /\ Fault
    /\ UNCHANGED <<running, session, clients, queue, task, lmac, leases, recent, spoke>>

\* A stop that does not wait for the frame in hand.
TakeSessionNow ==
    /\ Goto("wait", "drop")
    /\ session' = "ctl"
    /\ UNCHANGED <<running, clients, queue, task, lmac, used, dhcpVars>>

\* A frame in hand finishes first.
TakeSession ==
    /\ Goto("wait", "drop") /\ session = "free"
    /\ session' = "ctl"
    /\ UNCHANGED <<running, clients, queue, task, lmac, used, dhcpVars>>

\* drop_client() of each row in turn, its request included.
DropNext ==
    /\ ctl = "drop" /\ UNCHANGED ctl
    /\ LET rows == {i \in Rows : clients[i].st # "free"}
           row  == clients[Min(rows)]
       IN  /\ rows # {} /\ Remove(Min(rows))
           /\ \/ row.st = "assoc" /\ lmac' = [lmac EXCEPT !.sta[row.sta] = None] /\ UNCHANGED used
              \/ row.st = "assoc" /\ Fault /\ UNCHANGED lmac
              \/ row.st = "authed" /\ UNCHANGED <<lmac, used>>
    /\ UNCHANGED <<running, session, queue, task, dhcpVars>>

Dropped ==
    /\ Goto("drop", "quiet")
    /\ \A i \in Rows : clients[i].st = "free"
    /\ session' = "free"
    /\ UNCHANGED <<running, clients, queue, task, lmac, used, dhcpVars>>

\* APM_STOP_REQ.
Quiet ==
    /\ Goto("quiet", "idle")
    /\ \/ lmac' = [lmac EXCEPT !.on = FALSE] /\ UNCHANGED used
       \/ Fault /\ UNCHANGED lmac
    /\ UNCHANGED <<running, session, clients, queue, task, dhcpVars>>

\* A DHCP message comes through a station; the client it names may be another.
Message(m) ==
    /\ \E x \in Stations : lmac.sta[x] # None
    /\ Spend("messages", MaxMessages)
    /\ OnMessage(m)
    /\ UNCHANGED <<running, session, clients, queue, task, ctl, lmac>>

Next ==
    \/ \E m \in Macs, k \in Kinds : Arrives(k, m)
    \/ Receive \/ StaDel \/ OnAuth \/ Enter \/ OnAssoc \/ StaAdd \/ Associated \/ OnLeave
    \/ Start \/ Beacons \/ StartFails \/ LinkUp \/ DhcpStart
    \/ Stop \/ DhcpStop \/ TakeSession \/ DropNext \/ Dropped \/ Quiet
    \/ \E m \in Macs : Message(m)
    \/ TaskStops /\ UNCHANGED apVars

Spec == Init /\ [][Next]_vars

-----------------------------------------------------------------------------

\* What ap_tx_staid() gives the data path is a station the LMAC has for that
\* very client, whatever was refused or not confirmed: a row is freed before
\* its station, and names one only after the LMAC has made it.
TableTrue ==
    \A m \in Macs : \A i \in RowOf(m) : clients[i].st = "assoc" => lmac.sta[clients[i].sta] = m

\* As long as every request was confirmed, each station the LMAC holds is the
\* one of a row, or in the hands of the task: no stop and restart racing a
\* frame leaves a station behind that a restart would still find.
NoOrphanStation ==
    used.faults = 0 =>
        \A x \in Stations : lmac.sta[x] # None =>
            \/ \E i \in Rows : clients[i].sta = x
            \/ task.pc \in {"del", "added"} /\ task.sta = x
=============================================================================
