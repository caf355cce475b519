----------------------------- MODULE CameraApp -----------------------------
(***************************************************************************)
(* The camera application: the settings in RAM and in the store            *)
(* (config.cpp), the HTTP workers that change them (camera_web.cpp), and   *)
(* the main task that follows them with its services (main_task.cpp,       *)
(* Service.h).  Two workers run requests at a time; the power may go.      *)
(*                                                                         *)
(* The settings are the access point's switch, the station's network and   *)
(* the station's switch, in the order config_save() stores them.  A        *)
(* service is the step its coroutine resumes at; a co_await gives the main *)
(* task back to its loop.  Station and AccessPoint have the details of the *)
(* calls into the Wi-Fi.                                                   *)
(***************************************************************************)
EXTENDS Integers, Sequences

CONSTANTS
    Nets,        \* networks
    Workers,     \* HTTP_WORKERS
    NoNet,       \* no network: not associated, or an empty name
    Bodies,      \* bound: the settings POSTs ask for
    Tried,       \* bound: the networks setups ask for
    MaxAttempts, \* attempts of a service, ten in the code
    MaxRequests, \* bound: requests that change settings
    MaxTroubles  \* bound: links lost, calls that fail and power cuts

Settings == [ap : BOOLEAN, net : Nets \cup {NoNet}, sta : BOOLEAN]

ASSUME CameraAppAssumption ==
    /\ NoNet \notin Nets /\ Bodies \subseteq Settings /\ Tried \subseteq Nets
    /\ MaxAttempts \in Nat \ {0}
    /\ {MaxRequests, MaxTroubles} \subseteq Nat

VARIABLES
    ram,      \* g_config
    kv,       \* the stored settings
    changed,  \* s_config_changed
    main,     \* the main task: its step, and busy
    ap,       \* the access point: is it up, and its service
    sta,      \* the station: up, the network found for it and the one in flight, its network,
              \* its address, its service, and whether a stop overtook a start
    web,      \* the request of each worker
    unsaved,  \* a save failed
    mixed,    \* a request overlapped a setup, a reset or another's flash_kv_set()
    used      \* how much of each bound is used

appVars == <<ram, kv, changed, main, ap, sta, web, unsaved, mixed, used>>

\* The keys in the order of config_save().
Fields == <<"ap", "net", "sta">>

Defaults == [ap |-> TRUE, net |-> NoNet, sta |-> FALSE]

NoService == [st |-> "none", target |-> FALSE, left |-> 0]
Service(target, attempts) == [st |-> "new", target |-> target, left |-> attempts]

\* A worker inside flash_kv_set() has the value it was given, whatever RAM holds by then.
NoRequest == [pc |-> "idle", next |-> Defaults, backup |-> Defaults, k |-> 0, err |-> FALSE,
              inside |-> FALSE, val |-> FALSE]

MainAtBoot == [pc |-> "build", busy |-> FALSE]
ApAtBoot   == [up |-> FALSE, svc |-> NoService]
StaAtBoot  == [up |-> FALSE, found |-> NoNet, flight |-> NoNet, net |-> NoNet, addr |-> FALSE,
               svc |-> NoService, overtaken |-> FALSE]

AppInit ==
    /\ ram = Defaults /\ kv = Defaults /\ changed = FALSE /\ unsaved = FALSE /\ mixed = FALSE
    /\ main = MainAtBoot /\ ap = ApAtBoot /\ sta = StaAtBoot
    /\ web = [w \in Workers |-> NoRequest]
    /\ used = [requests |-> 0, troubles |-> 0]

Spend(what, most) == used[what] < most /\ used' = [used EXCEPT ![what] = @ + 1]
Trouble == Spend("troubles", MaxTroubles)

-----------------------------------------------------------------------------
(* The main task.                                                          *)

\* configure_required: the new services drop the coroutines that still run.
Build ==
    /\ main.pc = "build"
    /\ main' = [pc |-> "ap", busy |-> TRUE]
    /\ ap'  = [ap EXCEPT !.svc = Service(ram.ap, MaxAttempts)]
    /\ sta' = [sta EXCEPT !.svc = Service(ram.sta, MaxAttempts)]
    /\ UNCHANGED <<ram, kv, changed, web, unsaved, mixed, used>>

\* The attempt failed: the next one, or the end of the service.
Retry(svc) == IF svc.left > 1 THEN [svc EXCEPT !.st = "try", !.left = @ - 1] ELSE NoService

\* service_ap() up to its next co_await.
ApSteps ==
    LET svc == ap.svc
        Then(up, s) == ap' = [up |-> up, svc |-> s]
    IN  \/ svc.st = "new" /\ ap.up = svc.target /\ Then(ap.up, NoService) /\ UNCHANGED used
        \/ /\ svc.st = "try" \/ (svc.st = "new" /\ ap.up # svc.target)
           /\ \/ Then(svc.target, [svc EXCEPT !.st = "check"]) /\ UNCHANGED used
              \/ svc.target /\ Trouble /\ Then(FALSE, [svc EXCEPT !.st = "check"])
        \/ svc.st = "check" /\ ap.up = svc.target /\ Then(ap.up, NoService) /\ UNCHANGED used
        \/ svc.st = "check" /\ ap.up # svc.target /\ Then(FALSE, Retry(svc)) /\ UNCHANGED used

PollAp ==
    /\ main.pc = "ap" /\ ApSteps
    /\ main' = [main EXCEPT !.pc = IF sta.svc.st = "none" THEN "wait" ELSE "sta"]
    /\ UNCHANGED <<ram, kv, changed, sta, web, unsaved, mixed>>

\* connect_leave() takes the link down before it asks the LMAC.
LinkDown(s) == [s EXCEPT !.net = NoNet, !.addr = FALSE]

\* wifi_sta_stop(): refused while an association is in flight.
StaStopped(s) ==
    IF ~s.up THEN s ELSE IF s.flight # NoNet THEN LinkDown(s) ELSE [LinkDown(s) EXCEPT !.up = FALSE]

\* A stop by the main task or a worker, from station s; the LMAC may fail the request.
Stops(s) ==
    \/ sta' = StaStopped(s) /\ UNCHANGED used
    \/ s.up /\ s.flight = NoNet /\ Trouble /\ sta' = LinkDown(s)

\* A worker's stop does not wait for a start that the main task is in.
WorkerStops == Stops([sta EXCEPT !.overtaken = @ \/ (main.pc = "start" /\ sta.up)])

StaThere == IF sta.svc.target THEN sta.up /\ sta.net # NoNet ELSE ~sta.up

\* Ten attempts to stop the station take 65 s and an association at most 20: the attempts
\* that fall into one leave enough of them, and are not counted.
Outlast(svc) == IF sta.flight # NoNet THEN [svc EXCEPT !.st = "try"] ELSE Retry(svc)

StaTries == sta.svc.st = "try" \/ (sta.svc.st = "new" /\ ~StaThere)

\* service_sta() up to its next co_await; wifi_sta_start() without a name, with a link or
\* with an association in flight returns at once.
StaSteps ==
    LET svc == sta.svc
        Ends(s) == sta' = [s EXCEPT !.svc = NoService]
        StopThen(next) == Stops([sta EXCEPT !.svc = next])
    IN  \/ svc.st = "new" /\ StaThere /\ Ends(sta) /\ UNCHANGED used
        \/ StaTries /\ svc.target /\ sta.up /\ StopThen(Retry(svc))
        \/ /\ StaTries /\ svc.target /\ ~sta.up
           /\ \/ ram.net = NoNet /\ Ends(sta) /\ UNCHANGED used
              \/ /\ ram.net # NoNet /\ (sta.net # NoNet \/ sta.flight # NoNet)
                 /\ Ends([sta EXCEPT !.up = TRUE]) /\ UNCHANGED used
              \/ Trouble /\ Ends(sta)
        \/ /\ svc.st = "address"
           /\ \/ sta.addr /\ Ends(sta) /\ UNCHANGED used
              \/ sta.net # NoNet /\ ~sta.addr /\ UNCHANGED <<sta, used>>
              \/ sta.net = NoNet /\ StopThen(Retry(svc))
              \/ ~sta.addr /\ sta.up /\ Trouble /\ sta' = [StaStopped(sta) EXCEPT !.svc = Retry(svc)]
        \/ StaTries /\ ~svc.target /\ StopThen([svc EXCEPT !.st = "check"])
        \/ svc.st = "check" /\ sta.up /\ StopThen(Outlast(svc))
        \/ svc.st = "check" /\ ~sta.up /\ Ends(sta) /\ UNCHANGED used
        \/ /\ svc.st = "await" /\ sta.flight = NoNet
           /\ \/ sta.net = NoNet /\ StopThen(Retry(svc))
              \/ sta.net # NoNet /\ sta' = [sta EXCEPT !.svc.st = "address"] /\ UNCHANGED used

PollSta ==
    /\ main.pc = "sta" /\ StaSteps
    /\ main' = [main EXCEPT !.pc = "wait"]
    /\ UNCHANGED <<ram, kv, changed, ap, web, unsaved, mixed>>

\* wifi_sta_start() brings the interface up, and then looks for the network and hashes its
\* key, which takes seconds.
StaStart ==
    /\ main.pc = "sta" /\ StaTries /\ sta.svc.target
    /\ ~sta.up /\ sta.net = NoNet /\ sta.flight = NoNet /\ ram.net # NoNet
    /\ sta' = [sta EXCEPT !.up = TRUE, !.found = ram.net]
    /\ main' = [main EXCEPT !.pc = "start"]
    /\ UNCHANGED <<ram, kv, changed, ap, web, unsaved, mixed, used>>

\* The request: its name is a pointer into g_config and may be another one by now, which
\* the access point that was found does not answer to.
StaSend ==
    /\ main.pc = "start"
    /\ \/ /\ sta' = [sta EXCEPT !.flight = IF ram.net = sta.found THEN ram.net ELSE NoNet,
                                 !.found = NoNet, !.svc.st = "await"]
          /\ UNCHANGED used
       \/ Trouble /\ sta' = [sta EXCEPT !.found = NoNet, !.svc = NoService]
    /\ main' = [main EXCEPT !.pc = "wait"]
    /\ UNCHANGED <<ram, kv, changed, ap, web, unsaved, mixed>>

\* The next turn of the loop, with the services that are left.
Turn(s) ==
    LET pc == IF ap.svc.st # "none" THEN "ap" ELSE IF s.svc.st # "none" THEN "sta" ELSE "wait"
    IN  main' = [pc |-> pc, busy |-> pc # "wait"] /\ sta' = s


\* The end of a turn.  A new config is taken up, a second later; with no service left, a
\* link that is lost gets one attempt.
Wait ==
    /\ main.pc = "wait"
    /\ IF changed THEN main' = [main EXCEPT !.pc = "build"] /\ UNCHANGED sta
       ELSE Turn(IF ~main.busy /\ ram.sta /\ ram.net # NoNet /\ sta.net = NoNet THEN [sta EXCEPT !.svc = Service(TRUE, 1)] ELSE sta)
    /\ changed' = FALSE
    /\ UNCHANGED <<ram, kv, ap, web, unsaved, mixed, used>>

-----------------------------------------------------------------------------
(* The station's events.                                                   *)

\* The promise resolves: associated, or not.
Resolve ==
    /\ sta.flight # NoNet
    /\ \/ sta' = [sta EXCEPT !.flight = NoNet, !.net = sta.flight] /\ UNCHANGED used
       \/ Trouble /\ sta' = [sta EXCEPT !.flight = NoNet]
    /\ UNCHANGED <<ram, kv, changed, main, ap, web, unsaved, mixed>>

Lease ==
    /\ sta.net # NoNet /\ ~sta.addr
    /\ sta' = [sta EXCEPT !.addr = TRUE]
    /\ UNCHANGED <<ram, kv, changed, main, ap, web, unsaved, mixed, used>>

LinkLost ==
    /\ sta.net # NoNet
    /\ Trouble
    /\ sta' = [sta EXCEPT !.net = NoNet, !.addr = FALSE]
    /\ UNCHANGED <<ram, kv, changed, main, ap, web, unsaved, mixed>>

-----------------------------------------------------------------------------
(* The requests.                                                           *)

\* A setup or a reset, which change RAM and the store at different times.
Apart == {"body", "off", "try", "poll", "joined", "back", "erase"}

\* Another worker is in one of those or inside flash_kv_set(), or this one is in one of
\* those and another worker is busy.
Overlaps(w) ==
    \E v \in Workers \ {w} :
        \/ web[v].pc \in Apart \/ web[v].inside
        \/ web[w].pc \in Apart \cup {"idle"} /\ web[v].pc # "idle"

SetRam(w, c) == ram' = c /\ mixed' = (mixed \/ Overlaps(w))
SetWeb(w, r) == web' = [web EXCEPT ![w] = r]
Goto(w, from, to) == web[w].pc = from /\ SetWeb(w, [web[w] EXCEPT !.pc = to])

\* A worker takes a new request; which of the idle ones does makes no difference.
Takes(w) ==
    /\ web[w].pc = "idle" /\ \A v \in Workers : v < w => web[v].pc # "idle"
    /\ Spend("requests", MaxRequests)

\* A POST copies the settings and changes what its body names.
PostRead(w) ==
    /\ Takes(w)
    /\ \E next \in Bodies :
          next # ram /\ SetWeb(w, [NoRequest EXCEPT !.pc = "post", !.next = next])
    /\ UNCHANGED <<ram, kv, changed, main, ap, sta, unsaved, mixed>>

\* The body has come; a bad one changes nothing.
PostApply(w) ==
    /\ web[w].pc = "post"
    /\ \/ /\ SetRam(w, web[w].next) /\ changed' = TRUE
          /\ SetWeb(w, [NoRequest EXCEPT !.pc = "save", !.k = 1])
       \/ SetWeb(w, NoRequest) /\ UNCHANGED <<ram, changed, mixed>>
    /\ UNCHANGED <<kv, main, ap, sta, unsaved, used>>

\* config_save(), one key: the value is read, and goes to the store without a lock.
SaveRead(w) ==
    /\ web[w].pc \in {"save", "joined"} /\ web[w].k <= Len(Fields) /\ ~web[w].inside
    /\ SetWeb(w, [web[w] EXCEPT !.inside = TRUE, !.val = ram[Fields[web[w].k]]])
    /\ mixed' = (mixed \/ \E v \in Workers \ {w} : web[v].inside)
    /\ UNCHANGED <<ram, kv, changed, main, ap, sta, unsaved, used>>

\* The next key; a POST ends with the last one.
Saved(w, err) ==
    SetWeb(w, IF web[w].pc = "save" /\ web[w].k = Len(Fields) THEN NoRequest
            ELSE [web[w] EXCEPT !.k = @ + 1, !.err = err, !.inside = FALSE, !.val = FALSE])

\* flash_kv_set() returns; every key is tried even after a failure.
SaveField(w) ==
    /\ web[w].inside
    /\ \/ /\ kv' = [kv EXCEPT ![Fields[web[w].k]] = web[w].val] /\ Saved(w, web[w].err)
          /\ UNCHANGED <<used, unsaved>>
       \/ Trouble /\ Saved(w, TRUE) /\ unsaved' = TRUE /\ UNCHANGED kv
    /\ UNCHANGED <<ram, changed, main, ap, sta, mixed>>

\* serve_setup() copies the settings before it reads the body.
SetupRead(w) ==
    /\ Takes(w)
    /\ SetWeb(w, [NoRequest EXCEPT !.pc = "body", !.backup = ram])
    /\ mixed' = (mixed \/ Overlaps(w))
    /\ UNCHANGED <<ram, kv, changed, main, ap, sta, unsaved>>

\* The body has come: a bad one ends the request, and a station that was to be up when
\* the copy was taken goes down first.
SetupBody(w) ==
    LET old == web[w].backup
        Trial(n, pc) == SetWeb(w, [web[w] EXCEPT !.pc = pc, !.next = [old EXCEPT !.net = n, !.sta = TRUE]])
    IN  /\ web[w].pc = "body"
        /\ \/ SetWeb(w, NoRequest) /\ UNCHANGED <<ram, changed, mixed>>
           \/ /\ old.sta /\ \E n \in Tried : Trial(n, "off")
              /\ SetRam(w, [old EXCEPT !.sta = FALSE]) /\ changed' = TRUE
           \/ ~old.sta /\ (\E n \in Tried : Trial(n, "try")) /\ UNCHANGED <<ram, changed, mixed>>
        /\ UNCHANGED <<kv, main, ap, sta, unsaved, used>>

SetupOff(w) ==
    /\ Goto(w, "off", "try") /\ WorkerStops
    /\ UNCHANGED <<ram, kv, changed, main, ap, unsaved, mixed>>

SetupTry(w) ==
    /\ Goto(w, "try", "poll")
    /\ SetRam(w, web[w].next) /\ changed' = TRUE
    /\ UNCHANGED <<kv, main, ap, sta, unsaved, used>>

\* The station has an address: the access point's switch goes off, and all is stored.
SetupJoined(w) ==
    /\ web[w].pc = "poll" /\ sta.addr
    /\ SetRam(w, [web[w].next EXCEPT !.ap = FALSE])
    /\ SetWeb(w, [web[w] EXCEPT !.pc = "joined", !.k = 1, !.next.ap = FALSE, !.backup = Defaults])
    /\ UNCHANGED <<kv, changed, main, ap, sta, unsaved, used>>

SetupSaved(w) ==
    /\ web[w].pc = "joined" /\ web[w].k > Len(Fields)
    /\ IF web[w].err THEN SetRam(w, [web[w].next EXCEPT !.ap = TRUE]) /\ SetWeb(w, NoRequest)
       ELSE SetWeb(w, [NoRequest EXCEPT !.pc = "tell"]) /\ UNCHANGED <<ram, mixed>>
    /\ UNCHANGED <<kv, changed, main, ap, sta, unsaved, used>>

\* The answer has had its two seconds.
Tell(w) ==
    /\ web[w].pc = "tell"
    /\ changed' = TRUE /\ SetWeb(w, NoRequest)
    /\ UNCHANGED <<ram, kv, main, ap, sta, unsaved, mixed, used>>

\* Thirty seconds without an address.
SetupFails(w) ==
    /\ ~sta.addr /\ Goto(w, "poll", "back") /\ WorkerStops
    /\ UNCHANGED <<ram, kv, changed, main, ap, unsaved, mixed>>

\* A setup that leaves the settings it tried.
SetupBackForgets(w) ==
    /\ web[w].pc = "back"
    /\ changed' = TRUE /\ SetWeb(w, NoRequest)
    /\ UNCHANGED <<ram, kv, main, ap, sta, unsaved, mixed, used>>

\* The old config comes back.
SetupBack(w) ==
    /\ web[w].pc = "back"
    /\ SetRam(w, web[w].backup) /\ changed' = TRUE
    /\ SetWeb(w, NoRequest)
    /\ UNCHANGED <<kv, main, ap, sta, unsaved, used>>

\* config_reset() in RAM, then the store: a key that is not stored has its default.
Reset(w) ==
    /\ Takes(w)
    /\ SetRam(w, Defaults)
    /\ SetWeb(w, [NoRequest EXCEPT !.pc = "erase"])
    /\ UNCHANGED <<kv, changed, main, ap, sta, unsaved>>

Erase(w) ==
    /\ Goto(w, "erase", "tell")
    /\ \/ kv' = Defaults /\ UNCHANGED <<unsaved, used>>
       \/ Trouble /\ unsaved' = TRUE /\ UNCHANGED kv
    /\ UNCHANGED <<ram, changed, main, ap, sta, mixed>>

\* The power goes and comes back: config_load().
Cut ==
    /\ Trouble
    /\ ram' = kv /\ changed' = FALSE /\ unsaved' = FALSE /\ mixed' = FALSE
    /\ main' = MainAtBoot /\ ap' = ApAtBoot /\ sta' = StaAtBoot
    /\ web' = [w \in Workers |-> NoRequest]
    /\ UNCHANGED kv

MainTask == Build \/ PollAp \/ PollSta \/ StaStart \/ StaSend \/ Wait

Handle(w) ==
    \/ PostApply(w) \/ SaveRead(w) \/ SaveField(w)
    \/ SetupBody(w) \/ SetupOff(w) \/ SetupTry(w) \/ SetupJoined(w) \/ SetupSaved(w) \/ Tell(w) \/ SetupFails(w) \/ SetupBack(w)
    \/ Erase(w)

AppNext ==
    \/ MainTask \/ Resolve \/ Lease \/ LinkLost \/ Cut
    \/ \E w \in Workers : PostRead(w) \/ SetupRead(w) \/ Reset(w) \/ Handle(w)

AppSpec == AppInit /\ [][AppNext]_appVars

\* The scheduler runs the main task.  That an association ends is not assumed.
FairAppSpec == AppSpec /\ WF_appVars(MainTask)

-----------------------------------------------------------------------------

Quiet == \A w \in Workers : web[w].pc = "idle"

\* Between requests the stored settings are those in RAM, however two POSTs take
\* turns and whatever a setup tried and took back: what a restart loads is what the
\* camera does now.  Excepted are a save that failed, a request that overlapped a
\* setup or a reset, and settings changed or stored while another worker was inside
\* flash_kv_set(), whose value may be an old one when it gets to the flash.
RamStored == (Quiet /\ ~unsaved /\ ~mixed) => kv = ram


\* A setup that cannot connect leaves nothing behind: when it has put the old settings
\* back and no other request runs, they are the stored ones.
SetupUndone ==
    [][\A w \in Workers :
          (web[w].pc = "back" /\ web'[w].pc = "idle" /\ \A v \in Workers \ {w} : web[v].pc = "idle")
             => kv' = ram']_appVars
=============================================================================
