--------------------------- MODULE Wpa2Handshake ---------------------------
(***************************************************************************)
(* The station's side of the WPA2 handshake (wpa2_sm.c) with the task that *)
(* runs it and the LMAC's key slots (wpa2_sta.cpp), against an access      *)
(* point that repeats messages 1 and 3 and renews the group key.  Frames   *)
(* are lost on either way; they wait in the supplicant's queue together    *)
(* with the arm and disarm messages of the connection.                     *)
(*                                                                         *)
(* A nonce is a number, a pairwise key the pair of nonces it comes from,   *)
(* and a MIC is right when it was made with the key it is checked against. *)
(***************************************************************************)
EXTENDS Integers, Sequences, FiniteSets, Functions

CONSTANTS
    MaxJoins,   \* bound: associations
    MaxReplay,  \* bound: key messages of the access point in one association
    MaxUp,      \* bound: answers the access point has not read
    MaxFaults,  \* bound: key requests that fail, and other requests and sends that fail
    QueueDepth  \* QUEUE_DEPTH

ASSUME HandshakeAssumption ==
    /\ MaxJoins \in Nat \ {0} /\ MaxReplay \in Nat \ {0} /\ MaxUp \in Nat \ {0}
    /\ MaxFaults \in Nat /\ QueueDepth \in Nat \ {0}

VARIABLES
    queue,      \* s_queue: frames, arm and disarm
    up,         \* answers on their way to the access point
    sm,         \* s_sm, s_active and s_pending
    keys,       \* the LMAC's key slots, s_ptk_slot and s_gtk_slot, the key requests that
                \* failed so far, and the keys added since they were last dropped
    ap,         \* the access point: its step, keys and counters
    armed,      \* attempts armed
    faults      \* failures so far of anything but a key request

vars == <<queue, up, sm, keys, ap, armed, faults>>

NoSlot  == 0
NoKey   == <<>>
Slots   == 1..6

\* wpa2_sm_init(); no message of the access point has the counter 0.
Fresh(n) == [st |-> "idle", n |-> n, an |-> 0, sn |-> 0, replay |-> 0,
             ptkIn |-> FALSE, gtk |-> 0, active |-> TRUE, pending |-> TRUE]

Ptk == <<sm.an, sm.sn>>

-----------------------------------------------------------------------------
(* The LMAC's key slots.                                                   *)

\* The slot the LMAC gives a new key: the first free one, if there is one.
Free(k) == {s \in Slots : k.hw[s] = NoKey /\ \A r \in Slots : k.hw[r] = NoKey => s <= r}

\* MM_KEY_ADD_REQ of a pairwise key.
AddPtk(k, key, slot) == [k EXCEPT !.hw[slot] = key, !.ptk = slot, !.added = Append(@, key)]

\* MM_KEY_ADD_REQ that returns -1: the LMAC did not take the key, or it did and its
\* confirmation came too late, and then nobody remembers the slot.
AddFails(k, key, slots) ==
    LET f == [k EXCEPT !.failed = @ + 1]
    IN  {g \in {f} \cup {[f EXCEPT !.hw[slot] = key, !.added = Append(@, key)] : slot \in slots} :
            g.failed <= MaxFaults}

\* The slot whose key a group key in slot replaces.
Replaced(k, slot) == {k.gtk} \ {NoSlot, slot}

\* op_install_gtk() that forgets the slot of the key it replaces.
AddGtkForgets(k, key, slot, kept) ==
    [k EXCEPT !.hw[slot] = key, !.gtk = slot, !.added = Append(@, key)]

\* op_install_gtk(): the key it replaces is deleted unless its slot was reused; a
\* deletion that fails goes unnoticed and the key is kept.
AddGtk(k, key, slot, kept) ==
    [k EXCEPT !.hw = [s \in Slots |-> IF s = slot THEN key
                                      ELSE IF s \in Replaced(k, slot) \ kept THEN NoKey ELSE @[s]],
              !.gtk = slot, !.added = Append(@, key), !.failed = @ + Cardinality(kept)]

\* drop_keys(): the slot of a key whose deletion fails is forgotten like the others.
DropKeys(k, kept) ==
    [hw     |-> [s \in Slots |-> IF s \in {k.ptk, k.gtk} \ kept THEN NoKey ELSE k.hw[s]],
     failed |-> k.failed + Cardinality(kept),
     ptk    |-> NoSlot, gtk |-> NoSlot, added |-> <<>>]

-----------------------------------------------------------------------------
(* wpa2_sm_rx() in the supplicant's task.                                  *)

\* fail(): connect_leave() disarms the supplicant if the LMAC accepts.
Leave(s) ==
    /\ sm' = [s EXCEPT !.active = FALSE, !.pending = FALSE]
    /\ queue' \in {Tail(queue), Append(Tail(queue), [kind |-> "disarm"])}

Fail(s) == faults < MaxFaults /\ faults' = faults + 1 /\ Leave(s)

Next1 == queue' = Tail(queue) /\ UNCHANGED faults

\* op_send(): the answer is on the air, where it may be lost.
Reply(m) == up' = up \/ (Len(up) < MaxUp /\ up' = Append(up, m))

\* Answers every message 1 with a new SNonce.
OnMsg1Anew(m) ==
    IF sm.ptkIn THEN Next1 /\ UNCHANGED <<sm, up, keys>>
    ELSE LET s == [sm EXCEPT !.an = m.an, !.sn = @ + 1]
         IN  /\ \/ Reply([kind |-> "msg2", replay |-> m.replay, sn |-> s.sn, ptk |-> <<s.an, s.sn>>])
                   /\ sm' = [s EXCEPT !.st = "got1"] /\ Next1
                \/ Fail(s) /\ UNCHANGED up
             /\ UNCHANGED keys

\* on_msg1(): a repeated message gets the SNonce of the first.
OnMsg1(m) ==
    IF sm.ptkIn THEN Next1 /\ UNCHANGED <<sm, up, keys>>
    ELSE LET s == IF sm.st = "got1" /\ sm.an = m.an THEN sm
                  ELSE [sm EXCEPT !.an = m.an, !.sn = @ + 1]
         IN  /\ \/ Reply([kind |-> "msg2", replay |-> m.replay, sn |-> s.sn, ptk |-> <<s.an, s.sn>>])
                   /\ sm' = [s EXCEPT !.st = "got1"] /\ Next1
                \/ Fail(s) /\ UNCHANGED up
             /\ UNCHANGED keys

Genuine(m) == m.ptk = Ptk /\ m.replay > sm.replay

\* The pairwise key is installed once.
PtkStep(k)  == IF sm.ptkIn THEN {k} ELSE {AddPtk(k, Ptk, slot) : slot \in Free(k)}
PtkFails(k) == IF sm.ptkIn THEN {} ELSE AddFails(k, Ptk, Free(k))

\* A group key goes into a free slot or the slot of the key it replaces.
GtkSlots(k) == Free(k) \cup ({k.gtk} \ {NoSlot})

GtkAdded(k, g) ==
    UNION {{AddGtk(k, <<g>>, slot, kept) :
              kept \in {r \in SUBSET Replaced(k, slot) : k.failed + Cardinality(r) <= MaxFaults}} :
             slot \in GtkSlots(k)}

\* Every group message installs its key.
GtkStepAgain(k, g) == GtkAdded(k, g)

\* install_gtk_once().
GtkStep(k, g)  == IF sm.gtk = g THEN {k} ELSE GtkAdded(k, g)
GtkFails(k, g) == IF sm.gtk = g THEN {} ELSE AddFails(k, <<g>>, GtkSlots(k))

LeaveKeys(s, ks) == keys' \in ks /\ Leave(s) /\ UNCHANGED faults

\* on_msg3(): message 4, then the keys, then the port; each may fail.
OnMsg3(m) ==
    IF sm.st = "idle" \/ ~Genuine(m) \/ m.an # sm.an
    THEN Next1 /\ UNCHANGED <<sm, up, keys>>
    ELSE LET s1 == [sm EXCEPT !.replay = m.replay]
             s2 == [s1 EXCEPT !.ptkIn = TRUE, !.gtk = m.gtk]
         IN  \/ Fail(s1) /\ UNCHANGED <<up, keys>>
             \/ /\ Reply([kind |-> "msg4", replay |-> m.replay, ptk |-> Ptk])
                /\ \/ LeaveKeys(s1, PtkFails(keys))
                   \/ \E k1 \in PtkStep(keys) :
                        \/ LeaveKeys(s1, GtkFails(k1, m.gtk))
                        \/ \E k2 \in GtkStep(k1, m.gtk) :
                              /\ keys' = k2
                              /\ \/ Fail(s2) /\ sm.st # "done"
                                 \/ sm' = [s2 EXCEPT !.st = "done", !.pending = FALSE] /\ Next1

\* on_group1(): the answer, then the key.
OnGroup1(m) ==
    IF sm.st # "done" \/ ~Genuine(m) THEN Next1 /\ UNCHANGED <<sm, up, keys>>
    ELSE LET s1 == [sm EXCEPT !.replay = m.replay]
         IN  \/ Fail(s1) /\ UNCHANGED <<up, keys>>
             \/ /\ Reply([kind |-> "group2", replay |-> m.replay, ptk |-> Ptk])
                /\ \/ LeaveKeys(s1, GtkFails(keys, m.gtk))
                   \/ \E k2 \in GtkStep(keys, m.gtk) :
                         /\ keys' = k2
                         /\ sm' = [s1 EXCEPT !.gtk = m.gtk] /\ Next1

\* A frame for a supplicant that is not active is dropped.
Rx ==
    /\ queue # <<>> /\ Head(queue).kind \in {"msg1", "msg3", "group1"}
    /\ LET m == Head(queue)
       IN  IF ~sm.active THEN Next1 /\ UNCHANGED <<sm, up, keys>>
           ELSE \/ m.kind = "msg1" /\ OnMsg1(m)
                \/ m.kind = "msg3" /\ OnMsg3(m)
                \/ m.kind = "group1" /\ OnGroup1(m)
    /\ UNCHANGED <<ap, armed>>

\* The remembered slots whose deletion fails.
Undeleted == {r \in SUBSET ({keys.ptk, keys.gtk} \ {NoSlot}) : keys.failed + Cardinality(r) <= MaxFaults}

\* handle() of arm and disarm; both drop the keys.
HandleArm ==
    /\ queue # <<>> /\ Head(queue).kind \in {"arm", "disarm"}
    /\ queue' = Tail(queue)
    /\ sm' = IF Head(queue).kind = "arm" THEN [Fresh(Head(queue).n) EXCEPT !.sn = sm.sn]
             ELSE [sm EXCEPT !.active = FALSE, !.pending = FALSE]
    /\ \E r \in Undeleted : keys' = DropKeys(keys, r)
    /\ UNCHANGED <<up, ap, armed, faults>>

\* An abort that comes after the verdict does nothing.
HandleAbort ==
    /\ queue # <<>> /\ Head(queue).kind = "abort"
    /\ IF sm.active /\ sm.pending THEN Leave(sm) /\ UNCHANGED faults ELSE Next1 /\ UNCHANGED sm
    /\ UNCHANGED <<up, keys, ap, armed>>

-----------------------------------------------------------------------------
(* The connection: armed before the association is asked for.              *)

Room == Len(queue) < QueueDepth

Connect ==
    /\ armed < MaxJoins /\ armed = ap.n /\ Room
    /\ armed' = armed + 1
    /\ queue' = Append(queue, [kind |-> "arm", n |-> armed + 1])
    /\ UNCHANGED <<up, sm, keys, ap, faults>>

\* The session's timer ends a handshake that takes too long.
Abort ==
    /\ sm.pending /\ Room
    /\ \A i \in 1..Len(queue) : queue[i].kind # "abort"
    /\ queue' = Append(queue, [kind |-> "abort"])
    /\ UNCHANGED <<up, sm, keys, ap, armed, faults>>

\* The link is lost or left; the supplicant is told of it only by wifi_sta_stop()
\* and during the handshake.
Disconnect ==
    /\ ap.step # "off" /\ Room
    /\ ap' = [ap EXCEPT !.step = "off"]
    /\ queue' \in {queue, Append(queue, [kind |-> "disarm"])}
    /\ UNCHANGED <<up, sm, keys, armed, faults>>

-----------------------------------------------------------------------------
(* The access point.                                                       *)

Associate ==
    /\ armed > ap.n
    /\ ap' = [step |-> "msg1", n |-> armed, ptk |-> <<>>, from |-> 1, replay |-> 0, gtk |-> 1]
    /\ up' = <<>>
    /\ UNCHANGED <<queue, sm, keys, armed, faults>>

\* A message of the access point is repeated with the next counter; it arrives,
\* or is lost on the air or at a full queue.
Ask(kind) ==
    LET m == [kind |-> kind, an |-> ap.n, replay |-> ap.replay + 1, ptk |-> ap.ptk, gtk |-> ap.gtk]
    IN  /\ ap.step = kind /\ ap.replay < MaxReplay
        /\ ap' = [ap EXCEPT !.replay = @ + 1]
        /\ queue' = queue \/ (Room /\ queue' = Append(queue, m))
        /\ UNCHANGED <<up, sm, keys, armed, faults>>

Rekey ==
    /\ ap.step = "done" /\ ap.replay < MaxReplay
    /\ ap' = [ap EXCEPT !.step = "group1", !.from = ap.replay + 1, !.gtk = @ + 1]
    /\ UNCHANGED <<queue, up, sm, keys, armed, faults>>

\* An answer counts when it names a counter of the current step and its MIC is
\* right; the answer to message 1 settles the pairwise key.
Hear ==
    /\ up # <<>>
    /\ up' = Tail(up)
    /\ LET m == Head(up)
           current == m.replay \in ap.from..ap.replay
       IN  ap' = CASE m.kind = "msg2" /\ ap.step = "msg1" /\ current /\ m.ptk = <<ap.n, m.sn>>
                         -> [ap EXCEPT !.step = "msg3", !.ptk = m.ptk, !.from = ap.replay + 1]
                   [] m.kind = "msg4" /\ ap.step = "msg3" /\ current /\ m.ptk = ap.ptk
                         -> [ap EXCEPT !.step = "done"]
                   [] m.kind = "group2" /\ ap.step = "group1" /\ current /\ m.ptk = ap.ptk
                         -> [ap EXCEPT !.step = "done"]
                   [] OTHER -> ap
    /\ UNCHANGED <<queue, sm, keys, armed, faults>>

-----------------------------------------------------------------------------
Init ==
    /\ queue = <<>> /\ up = <<>> /\ armed = 0 /\ faults = 0
    /\ sm = [Fresh(0) EXCEPT !.active = FALSE, !.pending = FALSE]
    /\ keys = [hw |-> [s \in Slots |-> NoKey], ptk |-> NoSlot, gtk |-> NoSlot,
               failed |-> 0, added |-> <<>>]
    /\ ap = [step |-> "off", n |-> 0, ptk |-> <<>>, from |-> 1, replay |-> 0, gtk |-> 1]

Next ==
    \/ Rx \/ HandleArm \/ HandleAbort \/ Connect \/ Abort \/ Disconnect \/ Associate \/ Rekey \/ Hear
    \/ \E kind \in {"msg1", "msg3", "group1"} : Ask(kind)

Spec == Init /\ [][Next]_vars

-----------------------------------------------------------------------------
(* Correctness.                                                            *)

Current == sm.active /\ sm.n = ap.n /\ ap.step # "off"

\* "The answer has to carry the same SNonce, or the AP ... and this side end up
\* with different keys": once the access point has settled on a pairwise key the
\* supplicant has that one, whatever was repeated or lost, and when the handshake
\* is done it is the key in the LMAC, with a group key of this access point.
SameKeys ==
    /\ Current /\ ap.step \in {"msg3", "done", "group1"} => Ptk = ap.ptk
    /\ sm.active /\ sm.st = "done" =>
          keys.hw[keys.ptk] = Ptk /\ keys.hw[keys.gtk] = <<sm.gtk>>

\* "a second install of the same key has to be harmless": between two arms no key
\* is given to the LMAC twice, though messages 1 and 3 are repeated.
NoReinstall == IsInjective(keys.added)

\* The slots in use that the supplicant does not remember.
Stray(k) == {s \in Slots : k.hw[s] # NoKey} \ {k.ptk, k.gtk}

\* "a key left in the LMAC is still used by the next association": through any
\* number of rekeys and associations the LMAC holds no more forgotten keys than key
\* requests failed; none as long as every request is confirmed.
NoStrayKey == Cardinality(Stray(keys)) <= keys.failed
=============================================================================
