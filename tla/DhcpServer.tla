---------------------------- MODULE DhcpServer ----------------------------
(***************************************************************************)
(* The DHCP server of the access point: the lease table (dhcp_leases.c),   *)
(* the task that answers the clients, and the start and the stop of the    *)
(* server with the state they allocate and free (dhcp_server.c).  The      *)
(* caller's steps are operators here; AccessPoint takes them where the     *)
(* link of the access point goes up and down.                              *)
(*                                                                         *)
(* An address is the number of its slot, 0 to Pool - 1.  The `seen' stamps *)
(* are used only to compare slots, so the model keeps the order they give: *)
(* `recent' lists the slots, the longest unseen first.                     *)
(***************************************************************************)
EXTENDS Integers, Sequences, FiniteSets, FiniteSetsExt

CONSTANTS
    Macs,       \* the clients
    Pool,       \* DHCP_POOL_SIZE
    None        \* no client

VARIABLES
    dhcp,       \* s_state: is it allocated, stop_requested, the semaphore, the task
    leases,     \* the client of each slot in use
    recent,     \* the slots in the order of their stamps
    spoke       \* the clients in the order of their last message, the latest last

dhcpVars == <<dhcp, leases, recent, spoke>>

Slots     == 0..(Pool - 1)
Elsewhere == Pool     \* an address outside the pool

\* x comes before y in a sequence that lists each once.
Before(seq, x, y) == \E i, j \in DOMAIN seq : i < j /\ seq[i] = x /\ seq[j] = y

Without(seq, x) ==
    IF \E i \in DOMAIN seq : seq[i] = x
    THEN LET at == CHOOSE i \in DOMAIN seq : seq[i] = x
         IN  [i \in 1..(Len(seq) - 1) |-> seq[IF i < at THEN i ELSE i + 1]]
    ELSE seq

\* The latest stamp: x goes to the end.
MoveLast(seq, x) == Append(Without(seq, x), x)

NoLeases == [s \in Slots |-> None]

DhcpInit ==
    /\ dhcp   = [live |-> FALSE, stop |-> FALSE, given |-> FALSE, task |-> FALSE]
    /\ leases = NoLeases
    /\ recent = [i \in 1..Pool |-> i - 1]
    /\ spoke  = <<>>

-----------------------------------------------------------------------------
(* The leases and the task.                                                *)

\* The slot of a client, or the pool's size when it has none.
Held(m) == Min({s \in Slots : leases[s] = m} \cup {Elsewhere})

Unused == {s \in Slots : leases[s] = None}

Assign(s, m) == leases' = [leases EXCEPT ![s] = m] /\ recent' = MoveLast(recent, s)

\* dhcp_leases_find() that leaves the stamp alone.
FindUnseen(m) == UNCHANGED <<leases, recent>>

\* dhcp_leases_find() stamps the slot it finds.
Find(m) ==
    /\ recent' = IF Held(m) \in Slots THEN MoveLast(recent, Held(m)) ELSE recent
    /\ UNCHANGED leases

\* dhcp_leases_take(): a full pool gives the address of the longest unseen client.
Take(m) == Assign(IF Unused # {} THEN Min(Unused) ELSE Head(recent), m)

Discover(m) == IF Held(m) \in Slots THEN Find(m) ELSE Take(m)

\* MSG_REQUEST: a client without a lease may claim the address it asks for.
Request(m, addr) ==
    IF Held(m) = Elsewhere /\ addr \in Unused THEN Assign(addr, m) ELSE Find(m)

\* MSG_RELEASE: the client was found, and stamped, before its slot is freed.
Release(m) ==
    /\ Held(m) \in Slots
    /\ leases' = [leases EXCEPT ![Held(m)] = None]
    /\ recent' = MoveLast(recent, Held(m))

\* dhcp_server_task() answers one message.  A message of another type only stamps.
\* The task looks at stop_requested before it waits for a message, so one that
\* arrives after the request may still be answered (the model does not count them).
OnMessage(m) ==
    /\ dhcp.task
    /\ \/ Discover(m)
       \/ \E addr \in Slots \cup {Elsewhere} : Request(m, addr)
       \/ Release(m)
       \/ Find(m)
    /\ spoke' = MoveLast(spoke, m)
    /\ UNCHANGED dhcp

\* It sees the request to stop, gives the semaphore and deletes itself.
TaskStops ==
    /\ dhcp.task /\ dhcp.stop
    /\ dhcp' = [dhcp EXCEPT !.task = FALSE, !.given = TRUE]
    /\ UNCHANGED <<leases, recent, spoke>>

-----------------------------------------------------------------------------
(* dhcp_server_start() and dhcp_server_stop(), by the caller.              *)

\* stop_requested is published; without a state there is nothing to do.
StopAsk == dhcp' = [dhcp EXCEPT !.stop = dhcp.live] /\ UNCHANGED <<leases, recent, spoke>>

Freed == [live |-> FALSE, stop |-> FALSE, given |-> FALSE, task |-> dhcp.task]

\* A stop that gives up frees the state.
StopTimesOutFreeing == dhcp.live /\ ~dhcp.given /\ dhcp' = Freed

\* A stop that gives up leaves the state to the task.
StopTimesOut == dhcp.live /\ ~dhcp.given /\ UNCHANGED dhcp

\* The semaphore was taken: destroy_state().
StopTaken == dhcp.live /\ dhcp.given /\ dhcp' = Freed

StopNothing == ~dhcp.live /\ UNCHANGED dhcp

\* create_state() and the task, or neither.
Create(ok) ==
    IF dhcp.live THEN UNCHANGED dhcpVars
    ELSE /\ dhcp'   = [Freed EXCEPT !.live = ok, !.task = ok \/ dhcp.task]
         /\ leases' = NoLeases
         /\ recent' = [i \in 1..Pool |-> i - 1]
         /\ spoke'  = <<>>

-----------------------------------------------------------------------------

\* The task that runs has its state: dhcp_server_stop() frees the state only
\* after the task said it was its last use, also when a stop was given up and
\* a later stop or start finished it.
NoUseAfterFree == dhcp.task => dhcp.live

\* An address passes from one client to another only when the pool is full,
\* and then it is the one of the client that was silent longest, whatever
\* that client's last message was.
EvictsOldest ==
    [][\A s \in Slots :
          (leases[s] # None /\ leases'[s] \notin {None, leases[s]}) =>
             /\ Unused = {}
             /\ \A r \in Slots \ {s} : Before(spoke, leases[s], leases[r])]_dhcpVars
=============================================================================
