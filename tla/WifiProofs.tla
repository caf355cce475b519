---------------------------- MODULE WifiProofs -----------------------------
(***************************************************************************)
(* Proofs about the WPA2 handshake and about the scan.                     *)
(*                                                                         *)
(* The handshake, for every number of associations, key messages, answers  *)
(* and faults and every queue depth: both sides hold the same pairwise     *)
(* key, no key is installed twice, and the LMAC holds no more forgotten    *)
(* keys than key requests failed.                                          *)
(*                                                                         *)
(* The scan, for every number of scans and with messages of any number on  *)
(* their way: a result has one owner, and a good one is that of a sweep    *)
(* which the LMAC went through to the end.                                 *)
(***************************************************************************)
EXTENDS Wpa2Handshake, ScanSession, SequenceTheorems, FiniteSetTheorems, TLAPS

KeyKinds == {"msg1", "msg3", "group1"}

\* A pairwise key, or none yet.
PairKey == {<<>>} \cup (Nat \X Nat)

KeyMsg == [kind : KeyKinds, an : Nat, replay : Nat, ptk : PairKey, gtk : Nat \ {0}]
ArmMsg == [kind : {"arm"}, n : Nat \ {0}]
Plain  == [kind : {"disarm", "abort"}]
Msg    == KeyMsg \cup ArmMsg \cup Plain
Msg2   == [kind : {"msg2"}, replay : Nat, sn : Nat, ptk : Nat \X Nat]
Answer == Msg2 \cup [kind : {"msg4", "group2"}, replay : Nat, ptk : Nat \X Nat]

SmType == [st : {"idle", "got1", "done"}, n : Nat, an : Nat, sn : Nat, replay : Nat,
           ptkIn : BOOLEAN, gtk : Nat, active : BOOLEAN, pending : BOOLEAN]

KeysType == [hw : [Slots -> Seq(Nat)], ptk : 0..6, gtk : 0..6, failed : Nat,
             added : Seq(Seq(Nat))]

ApType == [step : {"off", "msg1", "msg3", "done", "group1"}, n : Nat, ptk : PairKey,
           from : Nat, replay : Nat, gtk : Nat \ {0}]

Types ==
    /\ queue \in Seq(Msg) /\ up \in Seq(Answer)
    /\ sm \in SmType /\ keys \in KeysType /\ ap \in ApType /\ armed \in Nat

\* No more keys are forgotten in the LMAC than key requests failed.
Counted(k) == Cardinality(Stray(k)) <= k.failed

\* What holds of the keys of any supplicant, active or not.
SoundKeys(k) == k \in KeysType /\ Counted(k) /\ IsInjective(k.added)

\* Both keys are in slots of their own, and only the pairwise key p and group keys
\* up to g were ever added.
Full(p, g, k) ==
    /\ k.ptk \in Slots /\ k.gtk \in Slots /\ k.ptk # k.gtk
    /\ k.hw[k.ptk] = p /\ k.hw[k.gtk] = <<g>>
    /\ \A i \in 1..Len(k.added) : k.added[i] = p \/ \E x \in 1..g : k.added[i] = <<x>>

Empty(k) == k.ptk = NoSlot /\ k.gtk = NoSlot /\ k.added = <<>>

\* The keys of an active supplicant: none before message 3; after it the pairwise
\* key and the last group key.
KeysInv(s, k) ==
    /\ Counted(k) /\ IsInjective(k.added)
    /\ s.active =>
        /\ s.ptkIn <=> s.st = "done"
        /\ s.st = "idle" => s.an = 0
        /\ ~s.ptkIn => Empty(k) /\ s.gtk = 0
        /\ s.ptkIn => Full(<<s.an, s.sn>>, s.gtk, k)

\* The group keys of an association, and then those of the next.
Older(a, g, b, h) == a < b \/ (a = b /\ g <= h)

KeyAt(q) == {i \in 1..Len(q) : q[i].kind \in KeyKinds}
ArmAt(q) == {i \in 1..Len(q) : q[i].kind = "arm"}

\* Key messages wait in the order they were sent, and behind the arm of their
\* association.
Lined(q) ==
    \A i \in KeyAt(q) :
        /\ \A j \in KeyAt(q) : i < j => Older(q[i].an, q[i].gtk, q[j].an, q[j].gtk)
        /\ \A j \in ArmAt(q) : i < j => q[i].an < q[j].n

\* None is older than what the supplicant has seen or newer than the access point.
Between(q, a, g, b, h) ==
    \A i \in KeyAt(q) :
        /\ Older(a, g, q[i].an, q[i].gtk) /\ Older(q[i].an, q[i].gtk, b, h)
        /\ q[i].an >= 1 /\ (q[i].ptk # <<>> => q[i].ptk[1] = q[i].an)

LineInv(q, a, g, b, h) == Lined(q) /\ Between(q, a, g, b, h) /\ Older(a, g, b, h)

\* The access point has taken an answer to its message 1.
Settled(a) == a.step \in {"msg3", "done", "group1"}

ArmFor(q, n) == \E i \in ArmAt(q) : q[i].n = n

\* The positions of the answers to message 1 of association n.
Msg2At(u, n) == {i \in 1..Len(u) : u[i].kind = "msg2" /\ u[i].ptk[1] = n}

\* Until the supplicant is armed for the association it has answered nothing of
\* it; from then on all its answers carry the one key it has.
NonceInv(q, u, s, a) ==
    /\ Settled(a) => a.ptk # <<>>
    /\ a.ptk # <<>> => a.ptk[1] = a.n
    /\ a.step # "off" => a.n >= 1
    /\ ArmFor(q, a.n) => ~Settled(a) /\ s.an < a.n /\ Msg2At(u, a.n) = {}
    /\ s.active /\ s.n = a.n =>
          /\ \A i \in Msg2At(u, a.n) : u[i].ptk = <<s.an, s.sn>>
          /\ Settled(a) => a.ptk = <<s.an, s.sn>>

\* The inductive invariant.
HandshakeInv ==
    /\ Types
    /\ KeysInv(sm, keys)
    /\ LineInv(queue, sm.an, sm.gtk, ap.n, ap.gtk)
    /\ NonceInv(queue, up, sm, ap)

-----------------------------------------------------------------------------
(* The queue.                                                              *)

\* What a message is, from its kind.
LEMMA MsgKinds ==
    ASSUME NEW m \in Msg
    PROVE  /\ m.kind \in KeyKinds => m \in KeyMsg
           /\ m.kind = "arm" => m \in ArmMsg
           /\ m.kind \in {"disarm", "abort"} => m \in Plain
           /\ m.kind \in KeyKinds \cup {"arm", "disarm", "abort"}
BY DEF Msg, KeyMsg, ArmMsg, Plain, KeyKinds

\* The messages behind the first.
LEMMA TailAt ==
    ASSUME NEW q \in Seq(Msg), q # <<>>
    PROVE  /\ Tail(q) \in Seq(Msg) /\ Head(q) \in Msg /\ Head(q) = q[1] /\ 1 \in 1..Len(q)
           /\ Len(Tail(q)) = Len(q) - 1
           /\ \A i \in 1..Len(Tail(q)) : Tail(q)[i] = q[i + 1] /\ i + 1 \in 1..Len(q)
OBVIOUS

\* Taking the first message leaves the order of the others.
LEMMA TailLined ==
    ASSUME NEW q \in Seq(Msg), q # <<>>, Lined(q)
    PROVE  Lined(Tail(q))
<1> DEFINE t == Tail(q)
<1>1. Len(q) \in Nat /\ \A i \in 1..Len(t) : t[i] = q[i + 1] /\ i + 1 \in 1..Len(q) BY TailAt
<1> HIDE DEF t
<1>2. \A i \in KeyAt(t) : i \in 1..Len(t) /\ i + 1 \in KeyAt(q) BY <1>1 DEF KeyAt
<1>3. \A i \in ArmAt(t) : i \in 1..Len(t) /\ i + 1 \in ArmAt(q) BY <1>1 DEF ArmAt
<1>4. \A i, j \in 1..Len(t) : i < j => i + 1 < j + 1 OBVIOUS
<1> QED BY <1>1, <1>2, <1>3, <1>4 DEF Lined, t

\* The key message taken is older than the ones behind it, and older than every
\* association that is still to be armed.
LEMMA HeadFirst ==
    ASSUME NEW q \in Seq(Msg), q # <<>>, Lined(q), Head(q).kind \in KeyKinds
    PROVE  /\ \A i \in KeyAt(Tail(q)) : Older(Head(q).an, Head(q).gtk, Tail(q)[i].an, Tail(q)[i].gtk)
           /\ \A n \in Nat : ArmFor(Tail(q), n) => Head(q).an < n
<1> DEFINE t == Tail(q)
<1>1. Len(q) \in Nat /\ \A i \in 1..Len(t) : t[i] = q[i + 1] /\ i + 1 \in 1..Len(q) BY TailAt
<1>2. Head(q) = q[1] /\ 1 \in KeyAt(q) BY TailAt DEF KeyAt
<1> HIDE DEF t
<1>3. \A i \in KeyAt(t) : i + 1 \in KeyAt(q) /\ 1 < i + 1 /\ t[i] = q[i + 1] BY <1>1 DEF KeyAt
<1>4. \A i \in ArmAt(t) : i + 1 \in ArmAt(q) /\ 1 < i + 1 /\ t[i] = q[i + 1] BY <1>1 DEF ArmAt
<1>5. \A i \in KeyAt(t) : Older(q[1].an, q[1].gtk, t[i].an, t[i].gtk) BY <1>2, <1>3 DEF Lined
<1>6. \A i \in ArmAt(t) : q[1].an < t[i].n BY <1>2, <1>4 DEF Lined
<1> QED BY <1>2, <1>5, <1>6 DEF ArmFor, t

\* Arms and bounds of the messages behind the first are those of the queue.
LEMMA TailOf ==
    ASSUME NEW q \in Seq(Msg), q # <<>>
    PROVE  /\ \A n : ArmFor(Tail(q), n) => ArmFor(q, n)
           /\ \A a, g, b, h : Between(q, a, g, b, h) => Between(Tail(q), a, g, b, h)
<1> DEFINE t == Tail(q)
<1>1. \A i \in 1..Len(t) : t[i] = q[i + 1] /\ i + 1 \in 1..Len(q) BY TailAt
<1> HIDE DEF t
<1>2. \A i \in KeyAt(t) : t[i] = q[i + 1] /\ i + 1 \in KeyAt(q) BY <1>1 DEF KeyAt
<1>3. \A i \in ArmAt(t) : t[i] = q[i + 1] /\ i + 1 \in ArmAt(q) BY <1>1 DEF ArmAt
<1>4. \A n : ArmFor(t, n) => ArmFor(q, n) BY <1>3 DEF ArmFor
<1>5. \A a, g, b, h : Between(q, a, g, b, h) => Between(t, a, g, b, h) BY <1>2 DEF Between
<1> QED BY <1>4, <1>5 DEF t

\* The messages of a queue and one more.
LEMMA AppendAt ==
    ASSUME NEW q \in Seq(Msg), NEW m \in Msg
    PROVE  /\ Append(q, m) \in Seq(Msg) /\ Len(q) \in Nat /\ Len(Append(q, m)) = Len(q) + 1
           /\ \A i \in 1..Len(q) : Append(q, m)[i] = q[i]
           /\ Append(q, m)[Len(q) + 1] = m
OBVIOUS

\* A disarm or an abort is no key message and arms nothing.
LEMMA AppendPlain ==
    ASSUME NEW q \in Seq(Msg), NEW m \in Plain
    PROVE  /\ Append(q, m) \in Seq(Msg)
           /\ Lined(q) => Lined(Append(q, m))
           /\ \A n : ArmFor(Append(q, m), n) => ArmFor(q, n)
           /\ \A a, g, b, h : Between(q, a, g, b, h) => Between(Append(q, m), a, g, b, h)
<1> DEFINE t == Append(q, m)
<1>1. m \in Msg /\ m.kind \notin KeyKinds /\ m.kind # "arm" BY DEF Msg, Plain, KeyKinds
<1>2. /\ t \in Seq(Msg) /\ Len(q) \in Nat /\ Len(t) = Len(q) + 1
      /\ \A i \in 1..Len(q) : t[i] = q[i]
      /\ t[Len(q) + 1] = m
  BY <1>1, AppendAt
<1> HIDE DEF t
<1>3. \A i \in KeyAt(t) : i \in KeyAt(q) /\ t[i] = q[i] BY <1>1, <1>2 DEF KeyAt
<1>4. \A i \in ArmAt(t) : i \in ArmAt(q) /\ t[i] = q[i] BY <1>1, <1>2 DEF ArmAt
<1>5. Lined(q) => Lined(t) BY <1>3, <1>4 DEF Lined
<1>6. \A n : ArmFor(t, n) => ArmFor(q, n) BY <1>4 DEF ArmFor
<1>7. \A a, g, b, h : Between(q, a, g, b, h) => Between(t, a, g, b, h) BY <1>3 DEF Between
<1> QED BY <1>2, <1>5, <1>6, <1>7 DEF t

\* The queue after its first message was handled: without it, and with a disarm
\* behind it if the supplicant gave up.
Popped(q) == {Tail(q), Append(Tail(q), [kind |-> "disarm"])}

\* What waits in a queue after its first message was handled waited in it before.
LEMMA PoppedQueue ==
    ASSUME NEW q \in Seq(Msg), q # <<>>, NEW p \in Popped(q)
    PROVE  /\ p \in Seq(Msg)
           /\ Lined(q) => Lined(p)
           /\ \A n : ArmFor(p, n) => ArmFor(Tail(q), n) /\ ArmFor(q, n)
           /\ \A a, g, b, h : Between(q, a, g, b, h) => Between(p, a, g, b, h)
           /\ \A a, g, b, h : Between(Tail(q), a, g, b, h) => Between(p, a, g, b, h)
<1>1. Tail(q) \in Seq(Msg) BY TailAt
<1>2. [kind |-> "disarm"] \in Plain BY DEF Plain
<1>3. CASE p = Tail(q) BY <1>1, <1>3, TailLined, TailOf
<1>4. CASE p = Append(Tail(q), [kind |-> "disarm"])
  <2>1. /\ p \in Seq(Msg) /\ (Lined(Tail(q)) => Lined(p))
        /\ \A n : ArmFor(p, n) => ArmFor(Tail(q), n)
        /\ \A a, g, b, h : Between(Tail(q), a, g, b, h) => Between(p, a, g, b, h)
    BY <1>1, <1>2, <1>4, AppendPlain
  <2> QED BY <2>1, TailLined, TailOf
<1> QED BY <1>3, <1>4 DEF Popped

-----------------------------------------------------------------------------
(* The key slots.                                                          *)

\* The slots are the numbers an LMAC answers with that are not NoSlot.
LEMMA SlotFacts ==
    /\ \A x \in 0..6 : x # NoSlot => x \in Slots
    /\ \A x \in Slots : x \in 0..6 /\ x # NoSlot
    /\ NoSlot \in 0..6
BY DEF Slots, NoSlot

\* There are only so many slots.
LEMMA SlotsFinite == IsFiniteSet(Slots)
<1>1. \A a, b \in Int : IsFiniteSet(a..b) BY FS_Interval, Zenon
<1>2. 1 \in Int /\ 6 \in Int OBVIOUS
<1>3. IsFiniteSet(1..6) BY <1>1, <1>2, Zenon
<1> QED BY <1>3 DEF Slots

\* The fields of the key slots.
LEMMA KeysFields ==
    ASSUME NEW k \in KeysType
    PROVE  /\ k.hw \in [Slots -> Seq(Nat)] /\ k.ptk \in 0..6 /\ k.gtk \in 0..6
           /\ k.failed \in Nat /\ k.added \in Seq(Seq(Nat))
BY DEF KeysType

\* The key slots with a new key, and after a request that failed.
LEMMA KeysWith ==
    ASSUME NEW k \in KeysType, NEW h \in [Slots -> Seq(Nat)], NEW x \in Slots, NEW a \in Seq(Seq(Nat)),
           NEW n \in Nat
    PROVE  /\ [k EXCEPT !.hw = h, !.ptk = x, !.added = a] \in KeysType
           /\ [k EXCEPT !.hw = h, !.gtk = x, !.added = a, !.failed = n] \in KeysType
           /\ [k EXCEPT !.failed = n] \in KeysType
           /\ [k EXCEPT !.hw = h, !.failed = n, !.added = a] \in KeysType
<1>1. x \in 0..6 BY SlotFacts
<1> QED BY <1>1 DEF KeysType

\* A step that forgets the keys of X, and has as many requests fail, keeps count.
LEMMA CountedStep ==
    ASSUME NEW k, NEW r, NEW X \in SUBSET Slots, Stray(r) \subseteq Stray(k) \cup X,
           k.failed \in Nat, Counted(k), r.failed = k.failed + Cardinality(X)
    PROVE  Counted(r) /\ r.failed \in Nat
<1>1. IsFiniteSet(Slots) BY SlotsFinite
<1>2. PICK A : A = Stray(k) OBVIOUS
<1>3. PICK B : B = Stray(r) OBVIOUS
<1>4. A \subseteq Slots BY <1>2 DEF Stray
<1>5. IsFiniteSet(A) /\ IsFiniteSet(X) BY <1>1, <1>4, FS_Subset
<1>6. IsFiniteSet(A \cup X) /\ Cardinality(A \cup X) = Cardinality(A) + Cardinality(X) - Cardinality(A \cap X)
  BY <1>5, FS_Union
<1>7. IsFiniteSet(A \cap X) BY <1>5, FS_Subset
<1>8. Cardinality(A) \in Nat /\ Cardinality(X) \in Nat /\ Cardinality(A \cap X) \in Nat
  BY <1>5, <1>7, FS_CardinalityType
<1>9. B \subseteq A \cup X BY <1>2, <1>3
<1>10. IsFiniteSet(B) /\ Cardinality(B) <= Cardinality(A \cup X) BY <1>6, <1>9, FS_Subset
<1>11. Cardinality(B) \in Nat BY <1>10, FS_CardinalityType
<1>12. Cardinality(A) <= k.failed BY <1>2 DEF Counted
<1>13. Cardinality(B) <= r.failed /\ r.failed \in Nat BY <1>6, <1>8, <1>10, <1>11, <1>12
<1> QED BY <1>3, <1>13 DEF Counted

\* So does a step that forgets no key and has no request fail.
LEMMA CountedStays ==
    ASSUME NEW k, NEW r, Stray(r) \subseteq Stray(k), k.failed \in Nat, Counted(k), r.failed = k.failed
    PROVE  Counted(r)
<1>1. {} \in SUBSET Slots /\ Cardinality({}) = 0 BY FS_EmptySet
<1>2. r.failed = k.failed + Cardinality({}) /\ Stray(r) \subseteq Stray(k) \cup {} BY <1>1
<1> QED BY <1>1, <1>2, CountedStep

\* A pairwise key, a group key and no key are different things.
LEMMA KeysDiffer ==
    ASSUME NEW a \in Nat, NEW b \in Nat, NEW g \in Nat
    PROVE  /\ <<a, b>> # <<>> /\ <<g>> # <<>> /\ <<a, b>> # <<g>>
           /\ <<a, b>> \in Seq(Nat) /\ <<g>> \in Seq(Nat)
OBVIOUS

\* A new key leaves a run of keys without repetition.
LEMMA InjectiveAppend ==
    ASSUME NEW s \in Seq(Seq(Nat)), IsInjective(s), NEW key, \A i \in 1..Len(s) : s[i] # key
    PROVE  IsInjective(Append(s, key))
<1>1. /\ Len(s) \in Nat /\ DOMAIN s = 1..Len(s) /\ DOMAIN Append(s, key) = 1..(Len(s) + 1)
      /\ \A i \in 1..Len(s) : Append(s, key)[i] = s[i]
      /\ Append(s, key)[Len(s) + 1] = key
  OBVIOUS
<1> QED BY <1>1 DEF IsInjective

\* MM_KEY_ADD_REQ of the pairwise key into a free slot.
LEMMA PtkAdds ==
    ASSUME NEW k \in KeysType, Counted(k), k.ptk = NoSlot, k.gtk = NoSlot,
           NEW key \in Seq(Nat), NEW slot \in Free(k)
    PROVE  LET r == AddPtk(k, key, slot)
           IN  /\ r \in KeysType /\ Counted(r)
               /\ slot \in Slots /\ r.ptk = slot /\ r.gtk = NoSlot /\ r.hw[slot] = key
               /\ r.added = Append(k.added, key)
<1> DEFINE r == AddPtk(k, key, slot)
           h == [k.hw EXCEPT ![slot] = key]
           a == Append(k.added, key)
<1>1. slot \in Slots BY DEF Free
<1>2. /\ r.hw = h /\ r.ptk = slot /\ r.gtk = k.gtk /\ r.failed = k.failed /\ r.added = a
  BY DEF AddPtk, KeysType
<1>3. r = [k EXCEPT !.hw = h, !.ptk = slot, !.added = a] BY DEF AddPtk
<1>4. h \in [Slots -> Seq(Nat)] /\ a \in Seq(Seq(Nat)) /\ h[slot] = key BY <1>1, KeysFields
<1>5. r \in KeysType
  <2> HIDE DEF r, h, a
  <2> QED BY <1>1, <1>3, <1>4, KeysWith, Zenon
<1>6. \A s \in Slots : s # slot => h[s] = k.hw[s] BY <1>1, KeysFields
<1>7. Counted(r)
  <2>1. r.failed = k.failed /\ k.failed \in Nat BY <1>2, KeysFields
  <2>2. Stray(r) \subseteq Stray(k) BY <1>1, <1>2, <1>6, SlotFacts DEF Stray
  <2> HIDE DEF r
  <2> QED BY <2>1, <2>2, CountedStays
<1> QED BY <1>1, <1>2, <1>4, <1>5, <1>7

\* op_install_gtk(): the group key gets a slot that is not the pairwise key's, and
\* the one it replaces is gone unless its deletion failed.
LEMMA GtkAdds ==
    ASSUME NEW k \in KeysType, Counted(k), k.ptk \in Slots, k.gtk # k.ptk, k.hw[k.ptk] # NoKey,
           NEW key \in Seq(Nat), NEW slot \in GtkSlots(k), NEW kept \in SUBSET Replaced(k, slot)
    PROVE  LET r == AddGtk(k, key, slot, kept)
           IN  /\ r \in KeysType /\ Counted(r)
               /\ slot \in Slots /\ slot # k.ptk /\ r.gtk = slot /\ r.ptk = k.ptk
               /\ r.hw[slot] = key /\ r.hw[k.ptk] = k.hw[k.ptk]
               /\ r.added = Append(k.added, key)
<1> DEFINE r == AddGtk(k, key, slot, kept)
           h == [s \in Slots |-> IF s = slot THEN key
                                 ELSE IF s \in Replaced(k, slot) \ kept THEN NoKey ELSE k.hw[s]]
           a == Append(k.added, key)
           n == k.failed + Cardinality(kept)
<1>1. slot \in Slots /\ slot # k.ptk
  <2>1. CASE slot \in Free(k) BY <2>1 DEF Free
  <2>2. CASE slot = k.gtk /\ slot # NoSlot BY <2>2, SlotFacts, KeysFields
  <2> QED BY <2>1, <2>2 DEF GtkSlots
<1>2. /\ r.hw = h /\ r.gtk = slot /\ r.ptk = k.ptk /\ r.added = a /\ r.failed = n
  BY DEF AddGtk, KeysType
<1>3. r = [k EXCEPT !.hw = h, !.gtk = slot, !.added = a, !.failed = n] BY DEF AddGtk
<1>4. NoKey \in Seq(Nat) BY DEF NoKey
<1>5. h \in [Slots -> Seq(Nat)] /\ a \in Seq(Seq(Nat)) BY <1>1, <1>4, KeysFields
<1>6. kept \in SUBSET Slots /\ Replaced(k, slot) \subseteq {k.gtk}
  BY SlotFacts, KeysFields DEF Replaced
<1>7. Counted(r) /\ r.failed \in Nat
  <2>1. Stray(r) \subseteq Stray(k) \cup kept
    <3> SUFFICES ASSUME NEW s \in Stray(r), s \notin kept PROVE s \in Stray(k)
      OBVIOUS
    <3>1. s \in Slots /\ r.hw[s] # NoKey /\ s # r.ptk /\ s # r.gtk BY DEF Stray
    <3>2. s # slot /\ s # k.ptk BY <1>2, <3>1
    <3>3. s \notin Replaced(k, slot) /\ k.hw[s] # NoKey BY <1>2, <3>1, <3>2
    <3>4. s # k.gtk BY <3>1, <3>2, <3>3, SlotFacts DEF Replaced
    <3> QED BY <3>1, <3>2, <3>3, <3>4 DEF Stray
  <2>2. k.failed \in Nat BY KeysFields
  <2> HIDE DEF r
  <2> QED BY <1>2, <1>6, <2>1, <2>2, CountedStep
<1>8. r \in KeysType
  <2>1. n \in Nat BY <1>2, <1>7
  <2> HIDE DEF r, h, a, n
  <2> QED BY <1>1, <1>3, <1>5, <2>1, KeysWith, Zenon
<1>9. r.hw[slot] = key /\ r.hw[k.ptk] = k.hw[k.ptk]
  <2>1. k.ptk \notin Replaced(k, slot) BY <1>6
  <2> QED BY <1>1, <1>2, <2>1
<1> QED BY <1>1, <1>2, <1>7, <1>8, <1>9 DEF r

\* A key request that fails leaves one forgotten key at the most.
LEMMA AddFailing ==
    ASSUME NEW k, SoundKeys(k), NEW key \in Seq(Nat), \A i \in 1..Len(k.added) : k.added[i] # key,
           NEW slots \in SUBSET Slots, NEW r \in AddFails(k, key, slots)
    PROVE  SoundKeys(r)
<1> DEFINE n == k.failed + 1
           a == Append(k.added, key)
<1>0. k \in KeysType /\ Counted(k) /\ IsInjective(k.added) BY DEF SoundKeys
<1>1. k.failed \in Nat /\ n \in Nat /\ k.hw \in [Slots -> Seq(Nat)] /\ k.added \in Seq(Seq(Nat)) /\ 1 \in Slots
  BY <1>0, KeysFields DEF Slots
<1>2. CASE r = [k EXCEPT !.failed = n]
  <2>1. r.hw = k.hw /\ r.ptk = k.ptk /\ r.gtk = k.gtk /\ r.added = k.added /\ r.failed = n
    BY <1>0, <1>2 DEF KeysType
  <2>2. Stray(r) = Stray(k) BY <2>1 DEF Stray
  <2>3. Counted(r)
    <3>1. IsFiniteSet(Slots) BY SlotsFinite
    <3>2. PICK A : A = Stray(k) OBVIOUS
    <3>3. A \subseteq Slots BY <3>2 DEF Stray
    <3>4. Cardinality(A) \in Nat BY <3>1, <3>3, FS_Subset, FS_CardinalityType
    <3>5. Cardinality(A) <= k.failed BY <1>0, <3>2 DEF Counted
    <3>6. Cardinality(A) <= r.failed BY <1>1, <2>1, <3>4, <3>5
    <3> QED BY <2>2, <3>2, <3>6 DEF Counted
  <2>4. r \in KeysType BY <1>0, <1>1, <1>2, KeysWith
  <2> QED BY <1>0, <2>1, <2>3, <2>4 DEF SoundKeys
<1>3. ASSUME NEW slot \in slots, r = [k EXCEPT !.hw = [k.hw EXCEPT ![slot] = key], !.failed = n, !.added = a]
      PROVE  SoundKeys(r)
  <2> DEFINE h == [k.hw EXCEPT ![slot] = key]
  <2>1. r.hw = h /\ r.ptk = k.ptk /\ r.gtk = k.gtk /\ r.added = a /\ r.failed = n
    BY <1>0, <1>3 DEF KeysType
  <2>2. h \in [Slots -> Seq(Nat)] /\ \A s \in Slots : s # slot => h[s] = k.hw[s] BY <1>1
  <2>3. Stray(r) \subseteq Stray(k) \cup {slot} BY <2>1, <2>2 DEF Stray
  <2>4. Cardinality({slot}) = 1 /\ {slot} \in SUBSET Slots BY FS_Singleton
  <2>5. r.failed = k.failed + Cardinality({slot}) BY <2>1, <2>4
  <2>6. Counted(r) BY <1>0, <1>1, <2>3, <2>4, <2>5, CountedStep
  <2>7. a \in Seq(Seq(Nat)) BY <1>1
  <2>8. r \in KeysType
    <3>1. slot \in Slots /\ r = [k EXCEPT !.hw = h, !.failed = n, !.added = a] BY <1>3
    <3> HIDE DEF h, n, a
    <3> QED BY <1>0, <1>1, <2>2, <2>7, <3>1, KeysWith, Zenon
  <2>9. IsInjective(r.added)
    <3>1. PICK d \in Seq(Seq(Nat)) : d = k.added BY <1>1
    <3>2. IsInjective(d) /\ \A i \in 1..Len(d) : d[i] # key BY <1>0, <3>1
    <3>3. IsInjective(Append(d, key)) BY <3>2, InjectiveAppend
    <3> QED BY <2>1, <3>1, <3>3
  <2> QED BY <2>6, <2>8, <2>9 DEF SoundKeys
<1>4. \/ r = [k EXCEPT !.failed = n]
      \/ \E slot \in slots : r = [k EXCEPT !.hw = [k.hw EXCEPT ![slot] = key], !.failed = n, !.added = a]
  <2>1. \/ r = [k EXCEPT !.failed = @ + 1]
        \/ \E slot \in slots :
              r = [[k EXCEPT !.failed = @ + 1] EXCEPT !.hw[slot] = key, !.added = Append(@, key)]
    BY DEF AddFails
  <2>2. ASSUME NEW slot \in slots
        PROVE  [[k EXCEPT !.failed = @ + 1] EXCEPT !.hw[slot] = key, !.added = Append(@, key)]
                 = [k EXCEPT !.hw = [k.hw EXCEPT ![slot] = key], !.failed = n, !.added = a]
    BY <1>0 DEF KeysType
  <2> QED BY <2>1, <2>2
<1> QED BY <1>2, <1>3, <1>4

\* drop_keys() forgets both slots, and leaves just the keys whose deletion failed.
LEMMA DropsKeys ==
    ASSUME NEW k \in KeysType, Counted(k), NEW kept \in SUBSET ({k.ptk, k.gtk} \ {NoSlot})
    PROVE  LET r == DropKeys(k, kept)
           IN  /\ r \in KeysType /\ Counted(r)
               /\ r.ptk = NoSlot /\ r.gtk = NoSlot /\ r.added = <<>>
<1> DEFINE r == DropKeys(k, kept)
<1>1. kept \in SUBSET Slots /\ NoSlot \in 0..6 /\ k.failed \in Nat BY SlotFacts, KeysFields
<1>2. /\ r.hw = [s \in Slots |-> IF s \in {k.ptk, k.gtk} \ kept THEN NoKey ELSE k.hw[s]]
      /\ r.failed = k.failed + Cardinality(kept) /\ r.ptk = NoSlot /\ r.gtk = NoSlot /\ r.added = <<>>
      /\ r = [hw |-> r.hw, failed |-> r.failed, ptk |-> NoSlot, gtk |-> NoSlot, added |-> <<>>]
  BY DEF DropKeys
<1> HIDE DEF r
<1>3. NoKey \in Seq(Nat) BY DEF NoKey
<1>4. r.hw \in [Slots -> Seq(Nat)] BY <1>1, <1>2, <1>3, KeysFields
<1>5. Counted(r) /\ r.failed \in Nat
  <2>1. Stray(r) \subseteq Stray(k) \cup kept
    <3> SUFFICES ASSUME NEW s \in Stray(r), s \notin kept PROVE s \in Stray(k)
      OBVIOUS
    <3>1. s \in Slots /\ r.hw[s] # NoKey BY DEF Stray
    <3> QED BY <1>2, <3>1 DEF Stray
  <2> QED BY <1>1, <1>2, <2>1, CountedStep
<1>6. <<>> \in Seq(Seq(Nat)) OBVIOUS
<1>7. r \in KeysType
  <2>1. \A h \in [Slots -> Seq(Nat)], l \in Nat, x \in 0..6, d \in Seq(Seq(Nat)) :
          [hw |-> h, failed |-> l, ptk |-> x, gtk |-> x, added |-> d] \in KeysType
    BY DEF KeysType
  <2>2. [hw |-> r.hw, failed |-> r.failed, ptk |-> NoSlot, gtk |-> NoSlot, added |-> <<>>] \in KeysType
    BY <1>1, <1>4, <1>5, <1>6, <2>1, Zenon
  <2> QED BY <1>2, <2>2, Zenon
<1> QED BY <1>2, <1>5, <1>7 DEF r

-----------------------------------------------------------------------------
(* Message 3 and the group message install their keys.                     *)

\* The fields of the supplicant.
LEMMA SmFields ==
    ASSUME NEW s \in SmType
    PROVE  /\ s.st \in {"idle", "got1", "done"} /\ s.n \in Nat /\ s.an \in Nat /\ s.sn \in Nat
           /\ s.replay \in Nat /\ s.gtk \in Nat
           /\ s.ptkIn \in BOOLEAN /\ s.active \in BOOLEAN /\ s.pending \in BOOLEAN
BY DEF SmType

\* The keys between the two installations of message 3.
Half(p, g, k) ==
    /\ k \in KeysType /\ Counted(k) /\ IsInjective(k.added)
    /\ k.ptk \in Slots /\ k.gtk # k.ptk /\ k.hw[k.ptk] = p
    /\ g # 0 => k.gtk \in Slots /\ k.hw[k.gtk] = <<g>>
    /\ \A i \in 1..Len(k.added) : k.added[i] = p \/ \E x \in 1..g : k.added[i] = <<x>>

\* The pairwise key of an active supplicant is in the LMAC after this step, added
\* now or before.
LEMMA PtkInstalled ==
    ASSUME sm \in SmType, keys \in KeysType, KeysInv(sm, keys), sm.active, NEW k \in PtkStep(keys)
    PROVE  Half(Ptk, sm.gtk, k)
<1>1. CASE sm.ptkIn
  <2>1. k = keys BY <1>1 DEF PtkStep
  <2> QED BY <1>1, <2>1 DEF KeysInv, Full, Half, Ptk
<1>2. CASE ~sm.ptkIn
  <2>1. PICK slot \in Free(keys) : k = AddPtk(keys, Ptk, slot) BY <1>2 DEF PtkStep
  <2>2. Counted(keys) /\ keys.ptk = NoSlot /\ keys.gtk = NoSlot /\ keys.added = <<>> /\ sm.gtk = 0
    BY <1>2 DEF KeysInv, Empty
  <2>3. Ptk \in Seq(Nat) BY SmFields, KeysDiffer DEF Ptk
  <2> HIDE DEF Ptk
  <2>4. /\ k \in KeysType /\ Counted(k)
        /\ slot \in Slots /\ k.ptk = slot /\ k.gtk = NoSlot /\ k.hw[slot] = Ptk
        /\ k.added = Append(keys.added, Ptk)
    BY <2>1, <2>2, <2>3, PtkAdds
  <2>5. k.added = <<Ptk>> /\ Len(k.added) = 1 /\ k.added[1] = Ptk BY <2>2, <2>4
  <2>6. \A i \in 1..Len(k.added) : k.added[i] = Ptk BY <2>5
  <2>7. IsInjective(k.added) BY <2>5 DEF IsInjective
  <2>8. k.gtk # k.ptk BY <2>4, SlotFacts
  <2> QED BY <2>2, <2>4, <2>6, <2>7, <2>8 DEF Half
<1> QED BY <1>1, <1>2

\* A group key newer than the last one was not added yet.
LEMMA NewGroupKey ==
    ASSUME sm \in SmType, NEW k1, Half(Ptk, sm.gtk, k1), NEW g \in Nat, sm.gtk <= g, sm.gtk # g
    PROVE  \A i \in 1..Len(k1.added) : k1.added[i] # <<g>>
<1>0. sm.gtk \in Nat /\ sm.an \in Nat /\ sm.sn \in Nat BY SmFields
<1>1. Ptk # <<g>> BY <1>0, KeysDiffer DEF Ptk
<1> HIDE DEF Ptk
<1> SUFFICES ASSUME NEW i \in 1..Len(k1.added), k1.added[i] = <<g>> PROVE FALSE
  OBVIOUS
<1>2. PICK x \in 1..sm.gtk : <<g>> = <<x>> BY <1>1 DEF Half
<1>3. g = x BY <1>2
<1> QED BY <1>0, <1>3

\* The keys of a supplicant whose pairwise key could not be installed.
LEMMA PtkFailed ==
    ASSUME sm \in SmType, keys \in KeysType, KeysInv(sm, keys), sm.active, NEW k \in PtkFails(keys)
    PROVE  SoundKeys(k)
<1>1. k \in AddFails(keys, Ptk, Free(keys)) /\ ~sm.ptkIn BY DEF PtkFails
<1>2. SoundKeys(keys) /\ keys.added = <<>> BY <1>1 DEF KeysInv, Empty, SoundKeys
<1>3. Ptk \in Seq(Nat) BY SmFields, KeysDiffer DEF Ptk
<1>4. \A i \in 1..Len(keys.added) : keys.added[i] # Ptk BY <1>2
<1>5. Free(keys) \in SUBSET Slots BY DEF Free
<1> HIDE DEF Ptk
<1> QED BY <1>1, <1>2, <1>3, <1>4, <1>5, AddFailing

\* The keys of a supplicant whose group key could not be installed.
LEMMA GtkFailed ==
    ASSUME sm \in SmType, NEW k1, Half(Ptk, sm.gtk, k1), NEW g \in Nat, sm.gtk <= g,
           NEW k \in GtkFails(k1, g)
    PROVE  SoundKeys(k)
<1>1. k \in AddFails(k1, <<g>>, GtkSlots(k1)) /\ sm.gtk # g BY DEF GtkFails
<1>2. SoundKeys(k1) /\ k1 \in KeysType BY DEF Half, SoundKeys
<1>3. PICK key \in Seq(Nat) : key = <<g>> BY KeysDiffer
<1>4. \A i \in 1..Len(k1.added) : k1.added[i] # key BY <1>1, <1>3, NewGroupKey
<1>5. GtkSlots(k1) \in SUBSET Slots BY <1>2, KeysFields, SlotFacts DEF GtkSlots, Free
<1>6. k \in AddFails(k1, key, GtkSlots(k1)) BY <1>1, <1>3
<1> QED BY <1>2, <1>4, <1>5, <1>6, AddFailing

\* The group key of a message that is not older than the last one is in the LMAC
\* after install_gtk_once(), and was not added before.
LEMMA GtkInstalled ==
    ASSUME sm \in SmType, NEW k1, Half(Ptk, sm.gtk, k1), NEW g \in Nat, g # 0, sm.gtk <= g,
           NEW k \in GtkStep(k1, g)
    PROVE  k \in KeysType /\ Counted(k) /\ IsInjective(k.added) /\ Full(Ptk, g, k)
<1>0. sm.gtk \in Nat /\ sm.an \in Nat /\ sm.sn \in Nat BY SmFields
<1>1. CASE sm.gtk = g
  <2>1. k = k1 BY <1>1 DEF GtkStep
  <2> QED BY <1>1, <2>1 DEF Half, Full
<1>2. CASE sm.gtk # g
  <2>0. PICK slot \in GtkSlots(k1) : \E kept \in SUBSET Replaced(k1, slot) : k = AddGtk(k1, <<g>>, slot, kept)
    BY <1>2 DEF GtkStep, GtkAdded
  <2>1. PICK kept \in SUBSET Replaced(k1, slot) : k = AddGtk(k1, <<g>>, slot, kept) BY <2>0
  <2>2. <<g>> \in Seq(Nat) /\ Ptk # NoKey /\ Ptk # <<g>> BY <1>0, KeysDiffer DEF Ptk, NoKey
  <2> HIDE DEF Ptk
  <2>3. /\ k1 \in KeysType /\ Counted(k1) /\ k1.ptk \in Slots /\ k1.gtk # k1.ptk
        /\ k1.hw[k1.ptk] # NoKey
    BY <2>2 DEF Half
  <2>4. /\ k \in KeysType /\ Counted(k) /\ slot \in Slots /\ slot # k1.ptk /\ k.gtk = slot
        /\ k.ptk = k1.ptk /\ k.hw[slot] = <<g>> /\ k.hw[k1.ptk] = k1.hw[k1.ptk]
        /\ k.added = Append(k1.added, <<g>>)
    <3> DEFINE key == <<g>>
    <3>1. key \in Seq(Nat) /\ k = AddGtk(k1, key, slot, kept) BY <2>1, <2>2
    <3> HIDE DEF key
    <3>2. /\ k \in KeysType /\ Counted(k) /\ slot \in Slots /\ slot # k1.ptk /\ k.gtk = slot
          /\ k.ptk = k1.ptk /\ k.hw[slot] = key /\ k.hw[k1.ptk] = k1.hw[k1.ptk]
          /\ k.added = Append(k1.added, key)
      BY <2>3, <3>1, GtkAdds
    <3> QED BY <3>2 DEF key
  <2>5. k1.added \in Seq(Seq(Nat)) /\ IsInjective(k1.added) BY <2>3, KeysFields DEF Half
  <2>6. \A i \in 1..Len(k1.added) : k1.added[i] # <<g>> BY <1>2, NewGroupKey
  <2>7. IsInjective(k.added) BY <2>4, <2>5, <2>6, InjectiveAppend
  <2>8. \A i \in 1..Len(k.added) : k.added[i] = Ptk \/ \E x \in 1..g : k.added[i] = <<x>>
    <3>1. /\ Len(k1.added) \in Nat /\ Len(k.added) = Len(k1.added) + 1
          /\ \A i \in 1..Len(k1.added) : k.added[i] = k1.added[i]
          /\ k.added[Len(k1.added) + 1] = <<g>>
      BY <2>4, <2>5
    <3>2. ASSUME NEW i \in 1..Len(k1.added)
          PROVE  k.added[i] = Ptk \/ \E x \in 1..g : k.added[i] = <<x>>
      <4>1. k1.added[i] = Ptk \/ \E x \in 1..sm.gtk : k1.added[i] = <<x>> BY DEF Half
      <4>2. \A x \in 1..sm.gtk : x \in 1..g BY <1>0
      <4> QED BY <3>1, <4>1, <4>2
    <3>3. g \in 1..g OBVIOUS
    <3> QED BY <3>1, <3>2, <3>3
  <2>9. k.hw[k.ptk] = Ptk BY <2>4 DEF Half
  <2>10. k.ptk \in Slots /\ k.gtk \in Slots /\ k.ptk # k.gtk /\ k.hw[k.gtk] = <<g>>
    BY <2>3, <2>4
  <2>11. Full(Ptk, g, k) BY <2>8, <2>9, <2>10, Zenon DEF Full
  <2> QED BY <2>4, <2>7, <2>11, Zenon
<1> QED BY <1>1, <1>2

\* A supplicant that is not active promises only that its keys are remembered.
LEMMA KeysOfInactive ==
    ASSUME NEW s, ~s.active, NEW k, Counted(k), IsInjective(k.added)
    PROVE  KeysInv(s, k)
BY DEF KeysInv

-----------------------------------------------------------------------------
(* What a handled key message does to the order and to the nonces.         *)

\* The order of group keys is that of pairs.
LEMMA OlderTrans ==
    ASSUME NEW a \in Nat, NEW g \in Nat, NEW h \in Nat, g <= h, NEW b \in Nat, NEW i \in Nat,
           Older(a, h, b, i)
    PROVE  Older(a, g, b, i)
BY DEF Older

\* The supplicant has seen the message it took, and nothing newer.
LEMMA LineAfterRx ==
    ASSUME NEW q \in Seq(Msg), q # <<>>, Head(q).kind \in KeyKinds, NEW p \in Popped(q),
           NEW a \in Nat, NEW g \in Nat, NEW b \in Nat, NEW h \in Nat, LineInv(q, a, g, b, h),
           NEW a2 \in Nat, NEW g2 \in Nat,
           \/ a2 = a /\ g2 = g
           \/ a2 = Head(q).an /\ g2 <= Head(q).gtk
    PROVE  LineInv(p, a2, g2, b, h)
<1>1. Lined(p) BY PoppedQueue DEF LineInv
<1>2. CASE a2 = a /\ g2 = g
  BY <1>1, <1>2, PoppedQueue DEF LineInv
<1>3. CASE a2 = Head(q).an /\ g2 <= Head(q).gtk
  <2>1. Head(q) = q[1] /\ 1 \in KeyAt(q) /\ Head(q) \in KeyMsg BY TailAt, MsgKinds DEF KeyAt
  <2>2. Older(Head(q).an, Head(q).gtk, b, h) BY <2>1 DEF LineInv, Between
  <2>3. Head(q).an \in Nat /\ Head(q).gtk \in Nat BY <2>1 DEF KeyMsg
  <2>4. Older(a2, g2, b, h) BY <1>3, <2>2, <2>3, OlderTrans
  <2>5. Between(Tail(q), a, g, b, h) BY TailOf DEF LineInv
  <2>6. Between(Tail(q), a2, g2, b, h)
    <3> SUFFICES ASSUME NEW i \in KeyAt(Tail(q))
                 PROVE  Older(a2, g2, Tail(q)[i].an, Tail(q)[i].gtk)
      BY <2>5 DEF Between
    <3>1. Older(Head(q).an, Head(q).gtk, Tail(q)[i].an, Tail(q)[i].gtk)
      BY HeadFirst DEF LineInv
    <3>2. Tail(q)[i] \in KeyMsg
      <4>1. i \in 1..Len(Tail(q)) /\ Tail(q) \in Seq(Msg) BY TailAt DEF KeyAt
      <4>2. Tail(q)[i] \in Msg BY <4>1
      <4> QED BY <4>2, MsgKinds DEF KeyAt
    <3>3. Tail(q)[i].an \in Nat /\ Tail(q)[i].gtk \in Nat BY <3>2 DEF KeyMsg
    <3> QED BY <1>3, <2>3, <3>1, <3>3, OlderTrans
  <2>7. Between(p, a2, g2, b, h) BY <2>6, PoppedQueue
  <2> QED BY <1>1, <2>4, <2>7 DEF LineInv
<1> QED BY <1>2, <1>3

\* An answer on the air: the one the supplicant may have added.
Replied(u, v, p) ==
    v = u \/ \E m \in Answer : v = Append(u, m) /\ (m.kind = "msg2" => m.ptk = p)

\* The answers to message 1, with one more answer on the air.
LEMMA RepliedMsg2 ==
    ASSUME NEW u \in Seq(Answer), NEW v, NEW x \in Nat, NEW y \in Nat, Replied(u, v, <<x, y>>),
           NEW n \in Nat
    PROVE  /\ v \in Seq(Answer)
           /\ \A i \in Msg2At(v, n) : \/ i \in Msg2At(u, n) /\ v[i] = u[i]
                                      \/ v[i].ptk = <<x, y>> /\ x = n
<1>1. CASE v = u BY <1>1
<1>2. CASE v # u
  <2>1. PICK m \in Answer : v = Append(u, m) /\ (m.kind = "msg2" => m.ptk = <<x, y>>)
    BY <1>2 DEF Replied
  <2>2. /\ v \in Seq(Answer) /\ Len(u) \in Nat /\ Len(v) = Len(u) + 1
        /\ \A i \in 1..Len(u) : v[i] = u[i]
        /\ v[Len(u) + 1] = m
    BY <2>1
  <2>3. \A i \in 1..Len(v) : i \in 1..Len(u) \/ i = Len(u) + 1 BY <2>2
  <2>4. m.kind = "msg2" /\ m.ptk[1] = n => m.ptk = <<x, y>> /\ x = n BY <2>1
  <2>5. ASSUME NEW i \in Msg2At(v, n)
        PROVE  (i \in Msg2At(u, n) /\ v[i] = u[i]) \/ (v[i].ptk = <<x, y>> /\ x = n)
    <3>1. i \in 1..Len(v) /\ v[i].kind = "msg2" /\ v[i].ptk[1] = n BY DEF Msg2At
    <3>2. CASE i \in 1..Len(u) BY <2>2, <3>1, <3>2 DEF Msg2At
    <3>3. CASE i = Len(u) + 1 BY <2>2, <2>4, <3>1, <3>3
    <3> QED BY <2>3, <3>1, <3>2, <3>3
  <2> QED BY <2>2, <2>5
<1> QED BY <1>1, <1>2

\* The supplicant answers with the nonces it has; it takes new ones only where it
\* had answered nothing of this association.
LEMMA NonceAfterRx ==
    ASSUME NEW q, NEW p, \A n \in Nat : ArmFor(p, n) => ArmFor(q, n),
           NEW u \in Seq(Answer), NEW v, NEW s \in SmType, NEW s2 \in SmType, NEW a \in ApType,
           NonceInv(q, u, s, a), s2.n = s.n, s2.active => s.active,
           Replied(u, v, <<s2.an, s2.sn>>),
           \/ s2.an = s.an /\ s2.sn = s.sn
           \/ s.active /\ s.an # a.n,
           ArmFor(p, a.n) => s2.an < a.n
    PROVE  v \in Seq(Answer) /\ NonceInv(p, v, s2, a)
<1>0. a.n \in Nat /\ s.an \in Nat /\ s.sn \in Nat /\ s2.an \in Nat /\ s2.sn \in Nat
      /\ <<s.an, s.sn>>[1] = s.an /\ <<s2.an, s2.sn>>[1] = s2.an
  BY SmFields DEF ApType
<1>1. v \in Seq(Answer) BY <1>0, RepliedMsg2
<1>2. \A i \in Msg2At(v, a.n) : \/ i \in Msg2At(u, a.n) /\ v[i] = u[i]
                                \/ v[i].ptk = <<s2.an, s2.sn>> /\ s2.an = a.n
  <2>1. PICK x \in Nat, y \in Nat, n \in Nat : x = s2.an /\ y = s2.sn /\ n = a.n BY <1>0
  <2>2. Replied(u, v, <<x, y>>) BY <2>1
  <2>3. \A i \in Msg2At(v, n) : \/ i \in Msg2At(u, n) /\ v[i] = u[i]
                                \/ v[i].ptk = <<x, y>> /\ x = n
    BY <2>2, RepliedMsg2
  <2> QED BY <2>1, <2>3
<1>3. ArmFor(p, a.n) => ~Settled(a) /\ s2.an < a.n /\ Msg2At(v, a.n) = {}
  BY <1>0, <1>2 DEF NonceInv
<1>4. ASSUME s2.active, s2.n = a.n
      PROVE  /\ \A i \in Msg2At(v, a.n) : v[i].ptk = <<s2.an, s2.sn>>
             /\ Settled(a) => a.ptk = <<s2.an, s2.sn>>
  <2>1. /\ \A i \in Msg2At(u, a.n) : u[i].ptk = <<s.an, s.sn>>
        /\ Settled(a) => a.ptk = <<s.an, s.sn>>
    BY <1>4 DEF NonceInv
  <2>2. CASE s2.an = s.an /\ s2.sn = s.sn BY <1>2, <2>1, <2>2
  <2>3. CASE s.an # a.n
    <3>1. Msg2At(u, a.n) = {} BY <1>0, <2>1, <2>3 DEF Msg2At
    <3>2. ~Settled(a) BY <1>0, <2>1, <2>3 DEF NonceInv
    <3> QED BY <1>2, <3>1, <3>2
  <2> QED BY <2>2, <2>3
<1> QED BY <1>1, <1>3, <1>4 DEF NonceInv

-----------------------------------------------------------------------------
(* The supplicant's steps.                                                 *)

\* The supplicant after each of its assignments.
Nonces(s, a)   == [s EXCEPT !.an = a, !.sn = @ + 1]
Got1(s)        == [s EXCEPT !.st = "got1"]
Replayed(s, a) == [s EXCEPT !.replay = a]
Keyed(s, a)    == [s EXCEPT !.ptkIn = TRUE, !.gtk = a]
Done(s, a)     == [s EXCEPT !.ptkIn = TRUE, !.gtk = a, !.st = "done", !.pending = FALSE]
Rekeyed(s, a)  == [s EXCEPT !.gtk = a]
Left(s)        == [s EXCEPT !.active = FALSE, !.pending = FALSE]

\* The supplicant with new nonces.
LEMMA SmNonces ==
    ASSUME NEW s \in SmType, NEW a \in Nat, NEW t, t = Nonces(s, a)
    PROVE  /\ t \in SmType /\ t.an = a /\ t.sn = s.sn + 1 /\ t.n = s.n /\ t.gtk = s.gtk
           /\ t.active = s.active /\ t.ptkIn = s.ptkIn
<1>1. s.sn + 1 \in Nat BY SmFields
<1>2. PICK b \in Nat : b = s.sn + 1 BY <1>1
<1>3. t = [s EXCEPT !.an = a, !.sn = b] BY <1>2 DEF SmType, Nonces
<1>4. /\ t \in SmType /\ t.an = a /\ t.sn = b /\ t.n = s.n /\ t.gtk = s.gtk
      /\ t.active = s.active /\ t.ptkIn = s.ptkIn
  BY <1>3 DEF SmType
<1> QED BY <1>2, <1>4

\* It has answered message 1.
LEMMA SmGot1 ==
    ASSUME NEW s \in SmType, NEW t, t = Got1(s)
    PROVE  /\ t \in SmType /\ t.an = s.an /\ t.sn = s.sn /\ t.n = s.n /\ t.gtk = s.gtk
           /\ t.active = s.active /\ t.ptkIn = s.ptkIn /\ t.st = "got1"
BY DEF SmType, Got1

\* It has a new replay counter.
LEMMA SmReplay ==
    ASSUME NEW s \in SmType, NEW a \in Nat, NEW t, t = Replayed(s, a)
    PROVE  /\ t \in SmType /\ t.an = s.an /\ t.sn = s.sn /\ t.n = s.n /\ t.gtk = s.gtk
           /\ t.active = s.active /\ t.ptkIn = s.ptkIn /\ t.st = s.st
BY DEF SmType, Replayed

\* It has installed its keys.
LEMMA SmKeys ==
    ASSUME NEW s \in SmType, NEW a \in Nat, NEW t, t = Keyed(s, a)
    PROVE  t \in SmType /\ t.an = s.an /\ t.sn = s.sn /\ t.n = s.n /\ t.gtk = a
BY DEF SmType, Keyed

\* It has finished the handshake.
LEMMA SmDone ==
    ASSUME NEW s \in SmType, NEW a \in Nat, NEW t, t = Done(s, a)
    PROVE  /\ t \in SmType /\ t.an = s.an /\ t.sn = s.sn /\ t.n = s.n /\ t.gtk = a
           /\ t.active = s.active /\ t.ptkIn /\ t.st = "done"
BY DEF SmType, Done

\* It has a new group key.
LEMMA SmGroup ==
    ASSUME NEW s \in SmType, NEW a \in Nat, NEW t, t = Rekeyed(s, a)
    PROVE  /\ t \in SmType /\ t.an = s.an /\ t.sn = s.sn /\ t.n = s.n /\ t.gtk = a
           /\ t.active = s.active /\ t.ptkIn = s.ptkIn /\ t.st = s.st
BY DEF SmType, Rekeyed

\* It has left the network.
LEMMA SmLeft ==
    ASSUME NEW s \in SmType, NEW t, t = Left(s)
    PROVE  /\ t \in SmType /\ t.an = s.an /\ t.sn = s.sn /\ t.n = s.n /\ t.gtk = s.gtk
           /\ ~t.active
BY DEF SmType, Left

\* What a step that handles a key message owes to the invariant.
LEMMA RxEnds ==
    ASSUME HandshakeInv, queue # <<>>, Head(queue).kind \in KeyKinds, queue' \in Popped(queue),
           UNCHANGED <<ap, armed>>, sm' \in SmType, keys' \in KeysType, KeysInv(sm', keys'),
           sm'.n = sm.n, sm'.active => sm.active,
           Replied(up, up', <<sm'.an, sm'.sn>>),
           \/ sm'.an = sm.an /\ sm'.sn = sm.sn
           \/ sm.active /\ sm.an # ap.n,
           \/ sm'.an = sm.an /\ sm'.gtk = sm.gtk
           \/ sm'.an = Head(queue).an /\ sm'.gtk <= Head(queue).gtk
    PROVE  HandshakeInv'
<1>0. Types /\ LineInv(queue, sm.an, sm.gtk, ap.n, ap.gtk) /\ NonceInv(queue, up, sm, ap)
  BY DEF HandshakeInv
<1>1. /\ queue \in Seq(Msg) /\ up \in Seq(Answer) /\ sm \in SmType /\ ap \in ApType /\ armed \in Nat
      /\ ap.n \in Nat /\ ap.gtk \in Nat
  BY <1>0 DEF Types, ApType
<1>2. /\ sm.an \in Nat /\ sm.gtk \in Nat /\ sm'.an \in Nat /\ sm'.gtk \in Nat BY <1>1, SmFields
<1>3. queue' \in Seq(Msg) /\ \A n \in Nat : ArmFor(queue', n) => ArmFor(Tail(queue), n) /\ ArmFor(queue, n)
  BY <1>1, PoppedQueue
<1>4. ArmFor(queue', ap.n) => sm'.an < ap.n
  BY <1>0, <1>1, <1>3, HeadFirst DEF NonceInv, LineInv
<1>5. LineInv(queue', sm'.an, sm'.gtk, ap.n, ap.gtk)
  BY <1>0, <1>1, <1>2, LineAfterRx
<1>6. up' \in Seq(Answer) /\ NonceInv(queue', up', sm', ap)
  BY <1>0, <1>1, <1>3, <1>4, NonceAfterRx
<1>7. Types' BY <1>1, <1>3, <1>6 DEF Types
<1> QED BY <1>5, <1>6, <1>7 DEF HandshakeInv

\* The key message that is handled.
LEMMA RxMessage ==
    ASSUME HandshakeInv, queue # <<>>, Head(queue).kind \in KeyKinds
    PROVE  LET m == Head(queue)
           IN  /\ m \in KeyMsg /\ m.an \in Nat /\ m.an >= 1 /\ m.gtk \in Nat /\ m.gtk # 0 /\ m.replay \in Nat
               /\ m.ptk # <<>> => m.ptk[1] = m.an
               /\ sm.an <= m.an /\ (sm.an = m.an => sm.gtk <= m.gtk) /\ m.an <= ap.n
               /\ Tail(queue) \in Popped(queue)
<1> DEFINE m == Head(queue)
<1>1. /\ queue \in Seq(Msg) /\ sm.an \in Nat /\ sm.gtk \in Nat /\ ap.n \in Nat
      /\ Between(queue, sm.an, sm.gtk, ap.n, ap.gtk)
  BY SmFields DEF HandshakeInv, Types, LineInv, ApType
<1>2. m = queue[1] /\ 1 \in KeyAt(queue) /\ m \in KeyMsg BY <1>1, TailAt, MsgKinds DEF KeyAt
<1>3. /\ Older(sm.an, sm.gtk, m.an, m.gtk) /\ Older(m.an, m.gtk, ap.n, ap.gtk)
      /\ m.an >= 1 /\ (m.ptk # <<>> => m.ptk[1] = m.an)
  BY <1>1, <1>2 DEF Between
<1>4. m.an \in Nat /\ m.gtk \in Nat /\ m.gtk # 0 /\ m.replay \in Nat BY <1>2 DEF KeyMsg
<1>5. sm.an <= m.an /\ (sm.an = m.an => sm.gtk <= m.gtk) /\ m.an <= ap.n
  BY <1>1, <1>3, <1>4 DEF Older
<1>6. Tail(queue) \in Popped(queue) BY DEF Popped
<1> QED BY <1>2, <1>3, <1>4, <1>5, <1>6

\* A key message that ends in fail().
LEMMA FailEnds ==
    ASSUME HandshakeInv, queue # <<>>, Head(queue).kind \in KeyKinds, sm.active,
           NEW s \in SmType, Leave(s), s.n = sm.n, UNCHANGED <<ap, armed>>,
           SoundKeys(keys'),
           Replied(up, up', <<s.an, s.sn>>),
           \/ s.an = sm.an /\ s.sn = sm.sn
           \/ sm.an # ap.n,
           \/ s.an = sm.an /\ s.gtk = sm.gtk
           \/ s.an = Head(queue).an /\ s.gtk <= Head(queue).gtk
    PROVE  HandshakeInv'
<1>1. /\ sm' \in SmType /\ sm'.an = s.an /\ sm'.sn = s.sn /\ sm'.n = s.n /\ sm'.gtk = s.gtk
      /\ ~sm'.active
  <2>1. sm' = Left(s) BY DEF Leave, Left
  <2> QED BY <2>1, SmLeft
<1>2. queue' \in Popped(queue) BY DEF Leave, Popped
<1>3. KeysInv(sm', keys') /\ keys' \in KeysType BY <1>1, KeysOfInactive DEF SoundKeys
<1> QED BY <1>1, <1>2, <1>3, RxEnds

\* A key message that changes nothing.
LEMMA IgnoredEnds ==
    ASSUME HandshakeInv, queue # <<>>, Head(queue).kind \in KeyKinds,
           Next1, UNCHANGED <<sm, up, keys, ap, armed>>
    PROVE  HandshakeInv'
<1>1. sm \in SmType /\ keys \in KeysType /\ KeysInv(sm, keys) BY DEF HandshakeInv, Types
<1>2. queue' \in Popped(queue) BY DEF Next1, Popped
<1>3. Replied(up, up', <<sm'.an, sm'.sn>>) BY DEF Replied
<1> QED BY <1>1, <1>2, <1>3, RxEnds

\* on_msg1() keeps the invariant: only a message of an association that was not
\* answered yet gets a new nonce.
LEMMA Msg1Step ==
    ASSUME HandshakeInv, queue # <<>>, Head(queue).kind \in KeyKinds, sm.active,
           OnMsg1(Head(queue)), UNCHANGED <<ap, armed>>
    PROVE  HandshakeInv'
<1> DEFINE m == Head(queue)
           s == IF sm.st = "got1" /\ sm.an = m.an THEN sm ELSE [sm EXCEPT !.an = m.an, !.sn = @ + 1]
           ans == [kind |-> "msg2", replay |-> m.replay, sn |-> s.sn, ptk |-> <<s.an, s.sn>>]
<1>1. sm \in SmType /\ keys \in KeysType /\ KeysInv(sm, keys) BY DEF HandshakeInv, Types
<1>2. CASE sm.ptkIn BY <1>2, IgnoredEnds DEF OnMsg1
<1>3. CASE ~sm.ptkIn
  <2>1. /\ m.an \in Nat /\ m.an >= 1 /\ m.gtk \in Nat /\ m.replay \in Nat
        /\ sm.an <= m.an /\ m.an <= ap.n /\ Tail(queue) \in Popped(queue)
    BY RxMessage
  <2>2. Empty(keys) /\ sm.gtk = 0 /\ sm.st # "done" /\ (sm.st = "idle" => sm.an = 0)
        /\ Counted(keys) /\ IsInjective(keys.added)
    BY <1>1, <1>3, Zenon DEF KeysInv
  <2>3. sm.st \in {"idle", "got1", "done"} /\ sm.an \in Nat /\ sm.sn \in Nat BY <1>1, SmFields
  <2>4. ap.n \in Nat BY DEF HandshakeInv, Types, ApType
  <2>5. /\ s \in SmType /\ s.an = m.an /\ s.n = sm.n /\ s.gtk = 0 /\ s.active /\ ~s.ptkIn
        /\ (s.an = sm.an /\ s.sn = sm.sn) \/ sm.an # ap.n
    <3>1. CASE sm.st = "got1" /\ sm.an = m.an BY <1>1, <1>3, <2>2, <3>1
    <3>2. CASE ~(sm.st = "got1" /\ sm.an = m.an)
      <4>1. s = Nonces(sm, m.an) BY <3>2 DEF Nonces
      <4>2. /\ s \in SmType /\ s.an = m.an /\ s.n = sm.n /\ s.gtk = sm.gtk
            /\ s.active = sm.active /\ s.ptkIn = sm.ptkIn
        <5> HIDE DEF s, m
        <5>1. PICK a \in Nat : a = m.an BY <2>1
        <5>2. s = Nonces(sm, a) BY <4>1, <5>1
        <5>3. PICK z \in SmType : z = sm BY <1>1
        <5>4. PICK t : t = Nonces(z, a) OBVIOUS
        <5>5. /\ t \in SmType /\ t.an = a /\ t.n = z.n /\ t.gtk = z.gtk
              /\ t.active = z.active /\ t.ptkIn = z.ptkIn
          BY <5>4, SmNonces
        <5>6. s = t BY <5>2, <5>3, <5>4
        <5> QED BY <5>1, <5>3, <5>5, <5>6
      <4>3. sm.an # ap.n BY <2>1, <2>2, <2>3, <2>4, <3>2
      <4> HIDE DEF s, m
      <4> QED BY <1>3, <2>2, <4>2, <4>3
    <3> QED BY <3>1, <3>2
  <2>6. \/ Reply(ans) /\ sm' = Got1(s) /\ Next1 /\ UNCHANGED keys
        \/ Fail(s) /\ UNCHANGED <<up, keys>>
    BY <1>3 DEF OnMsg1, Got1
  <2> HIDE DEF s, m
  <2>7. CASE Reply(ans) /\ sm' = Got1(s) /\ Next1 /\ UNCHANGED keys
    <3>1. /\ sm' \in SmType /\ sm'.an = s.an /\ sm'.sn = s.sn /\ sm'.n = s.n /\ sm'.gtk = s.gtk
          /\ sm'.active = s.active /\ sm'.ptkIn = s.ptkIn /\ sm'.st = "got1"
      BY <2>5, <2>7, SmGot1
    <3>2. KeysInv(sm', keys') BY <2>2, <2>5, <2>7, <3>1 DEF KeysInv
    <3>3. ans \in Answer /\ ans.ptk = <<sm'.an, sm'.sn>>
      <4>1. s.sn \in Nat /\ s.an \in Nat BY <2>5, SmFields
      <4> QED BY <2>1, <3>1, <4>1 DEF Answer, Msg2
    <3> HIDE DEF ans
    <3>4. Replied(up, up', <<sm'.an, sm'.sn>>) BY <2>7, <3>3 DEF Reply, Replied
    <3>5. queue' \in Popped(queue) BY <2>1, <2>7 DEF Next1
    <3>6. keys' \in KeysType BY <1>1, <2>7
    <3>7. (sm'.an = sm.an /\ sm'.sn = sm.sn) \/ (sm.active /\ sm.an # ap.n) BY <2>5, <3>1
    <3>8. sm'.an = Head(queue).an /\ sm'.gtk <= Head(queue).gtk BY <2>1, <2>5, <3>1 DEF m
    <3> QED BY <2>5, <3>1, <3>2, <3>4, <3>5, <3>6, <3>7, <3>8, RxEnds
  <2>8. CASE Fail(s) /\ UNCHANGED <<up, keys>>
    <3>1. Leave(s) BY <2>8 DEF Fail
    <3>2. Replied(up, up', <<s.an, s.sn>>) BY <2>8 DEF Replied
    <3>3. s.an = Head(queue).an /\ s.gtk <= Head(queue).gtk BY <2>1, <2>5 DEF m
    <3>4. SoundKeys(keys') BY <1>1, <2>2, <2>8 DEF SoundKeys
    <3> QED BY <2>5, <3>1, <3>2, <3>3, <3>4, FailEnds
  <2> QED BY <2>6, <2>7, <2>8
<1> QED BY <1>2, <1>3

\* Message 3 and the group message, once they are found genuine: each of the ways
\* they end keeps the invariant.
LEMMA InstallStep ==
    ASSUME HandshakeInv, queue # <<>>, Head(queue).kind \in KeyKinds, sm.active,
           UNCHANGED <<ap, armed>>, Genuine(Head(queue)), sm.an = Head(queue).an,
           NEW kind \in {"msg4", "group2"},
           UNCHANGED up \/ Reply([kind |-> kind, replay |-> Head(queue).replay, ptk |-> Ptk]),
           NEW s, s = Replayed(sm, Head(queue).replay),
           \/ Leave(s) /\ SoundKeys(keys')
           \/ \E k1 \in KeysType : \E k2 \in GtkStep(k1, Head(queue).gtk) :
                 /\ Half(Ptk, sm.gtk, k1) /\ keys' = k2
                 /\ \/ Fail(Keyed(s, Head(queue).gtk))
                    \/ sm' = Done(s, Head(queue).gtk) /\ Next1
                    \/ sm.st = "done" /\ sm' = Rekeyed(s, Head(queue).gtk) /\ Next1
    PROVE  HandshakeInv'
<1>1. sm \in SmType /\ keys \in KeysType /\ KeysInv(sm, keys) BY DEF HandshakeInv, Types
<1>2. PICK g \in Nat, r \in Nat : g = Head(queue).gtk /\ r = Head(queue).replay BY RxMessage
<1>3. g # 0 /\ sm.gtk <= g /\ Tail(queue) \in Popped(queue) BY <1>2, RxMessage
<1>4. /\ s \in SmType /\ s.an = sm.an /\ s.sn = sm.sn /\ s.n = sm.n /\ s.gtk = sm.gtk
      /\ s.active = sm.active /\ s.ptkIn = sm.ptkIn /\ s.st = sm.st
  <2>1. s = Replayed(sm, r) BY <1>2, Zenon
  <2> QED BY <1>1, <2>1, SmReplay
<1>5. /\ sm.an \in Nat /\ sm.sn \in Nat /\ sm.gtk \in Nat BY <1>1, SmFields
<1>6. ASSUME NEW t, t.an = sm.an, t.sn = sm.sn PROVE Replied(up, up', <<t.an, t.sn>>)
  <2> DEFINE ans == [kind |-> kind, replay |-> r, ptk |-> Ptk]
  <2>1. ans \in Answer /\ ans.kind # "msg2" BY <1>5 DEF Answer, Ptk
  <2>2. up' = up \/ up' = Append(up, ans) BY <1>2 DEF Reply
  <2> HIDE DEF ans
  <2> QED BY <2>1, <2>2 DEF Replied
<1>7. CASE Leave(s) /\ SoundKeys(keys')
  <2>1. Replied(up, up', <<s.an, s.sn>>) BY <1>4, <1>6
  <2> QED BY <1>4, <1>7, <2>1, FailEnds
<1>8. ASSUME NEW k1 \in KeysType, NEW k2 \in GtkStep(k1, g), Half(Ptk, sm.gtk, k1), keys' = k2,
             \/ Fail(Keyed(s, g))
             \/ sm' = Done(s, g) /\ Next1
             \/ sm.st = "done" /\ sm' = Rekeyed(s, g) /\ Next1
      PROVE  HandshakeInv'
  <2>1. keys' \in KeysType /\ Counted(keys') /\ IsInjective(keys'.added) /\ Full(Ptk, g, keys')
    BY <1>1, <1>3, <1>8, GtkInstalled
  <2>2. CASE Fail(Keyed(s, g))
    <3>1. PICK t : t = Keyed(s, g) OBVIOUS
    <3>2. t \in SmType /\ t.an = s.an /\ t.sn = s.sn /\ t.n = s.n /\ t.gtk = g BY <1>4, <3>1, SmKeys
    <3>3. Leave(t) BY <2>2, <3>1 DEF Fail
    <3>4. Replied(up, up', <<t.an, t.sn>>) BY <1>4, <1>6, <3>2
    <3>5. t.an = Head(queue).an /\ t.gtk <= Head(queue).gtk BY <1>2, <1>4, <3>2
    <3>6. SoundKeys(keys') BY <2>1 DEF SoundKeys
    <3> QED BY <1>4, <3>2, <3>3, <3>4, <3>5, <3>6, FailEnds
  <2>3. CASE (sm' = Done(s, g) \/ (sm.st = "done" /\ sm' = Rekeyed(s, g))) /\ Next1
    <3>1. /\ sm' \in SmType /\ sm'.an = sm.an /\ sm'.sn = sm.sn /\ sm'.n = sm.n /\ sm'.gtk = g
          /\ sm'.active /\ sm'.ptkIn /\ sm'.st = "done"
      <4>1. CASE sm' = Done(s, g)
        <5>1. s \in SmType BY <1>4
        <5>2. /\ sm' \in SmType /\ sm'.an = s.an /\ sm'.sn = s.sn /\ sm'.n = s.n /\ sm'.gtk = g
              /\ sm'.active = s.active /\ sm'.ptkIn /\ sm'.st = "done"
          BY <4>1, <5>1, SmDone
        <5> QED BY <1>4, <5>2
      <4>2. CASE sm.st = "done" /\ sm' = Rekeyed(s, g)
        <5>1. sm.ptkIn BY <1>1, <4>2, Zenon DEF KeysInv
        <5> QED BY <1>4, <4>2, <5>1, SmGroup
      <4> QED BY <2>3, <4>1, <4>2
    <3>2. <<sm'.an, sm'.sn>> = Ptk BY <3>1 DEF Ptk
    <3>3. KeysInv(sm', keys')
      <4>1. Full(<<sm'.an, sm'.sn>>, sm'.gtk, keys') BY <2>1, <3>1, <3>2
      <4>2. sm'.st # "idle" BY <3>1
      <4> QED BY <2>1, <3>1, <4>1, <4>2, Zenon DEF KeysInv
    <3>4. queue' \in Popped(queue) BY <1>3, <2>3 DEF Next1
    <3>5. Replied(up, up', <<sm'.an, sm'.sn>>) BY <1>6, <3>1
    <3>6. sm'.an = Head(queue).an /\ sm'.gtk <= Head(queue).gtk BY <1>2, <3>1
    <3> QED BY <2>1, <3>1, <3>3, <3>4, <3>5, <3>6, RxEnds
  <2> QED BY <1>8, <2>2, <2>3
<1> QED BY <1>2, <1>7, <1>8

\* on_msg3() keeps the invariant: a message that is not genuine changes nothing.
LEMMA Msg3Step ==
    ASSUME HandshakeInv, queue # <<>>, Head(queue).kind \in KeyKinds, sm.active,
           OnMsg3(Head(queue)), UNCHANGED <<ap, armed>>
    PROVE  HandshakeInv'
<1> DEFINE m == Head(queue)
<1>1. sm \in SmType /\ keys \in KeysType /\ KeysInv(sm, keys) BY DEF HandshakeInv, Types
<1>2. CASE sm.st = "idle" \/ ~Genuine(m) \/ m.an # sm.an BY <1>2, IgnoredEnds DEF OnMsg3
<1>3. CASE ~(sm.st = "idle" \/ ~Genuine(m) \/ m.an # sm.an)
  <2>1. PICK s : s = Replayed(sm, m.replay) OBVIOUS
  <2>2. Genuine(m) /\ sm.an = m.an BY <1>3
  <2>3. \/ Fail(s) /\ UNCHANGED <<up, keys>>
        \/ /\ Reply([kind |-> "msg4", replay |-> m.replay, ptk |-> Ptk])
           /\ \/ Leave(s) /\ keys' \in PtkFails(keys)
              \/ \E k1 \in PtkStep(keys) :
                   \/ Leave(s) /\ keys' \in GtkFails(k1, m.gtk)
                   \/ \E k2 \in GtkStep(k1, m.gtk) :
                        /\ keys' = k2
                        /\ \/ Fail(Keyed(s, m.gtk))
                           \/ sm' = Done(s, m.gtk) /\ Next1
    BY <1>3, <2>1 DEF OnMsg3, Replayed, Keyed, Done, LeaveKeys
  <2>4. \A k1 \in PtkStep(keys) : k1 \in KeysType /\ Half(Ptk, sm.gtk, k1)
    BY <1>1, PtkInstalled DEF Half
  <2>5. UNCHANGED up \/ Reply([kind |-> "msg4", replay |-> m.replay, ptk |-> Ptk]) BY <2>3
  <2>a. SoundKeys(keys) BY <1>1 DEF SoundKeys, KeysInv
  <2>b. \A k \in PtkFails(keys) : SoundKeys(k) BY <1>1, PtkFailed
  <2>c. \A k1 \in PtkStep(keys) : \A k \in GtkFails(k1, m.gtk) : SoundKeys(k)
    <3>1. PICK g \in Nat : g = m.gtk BY RxMessage
    <3>2. sm.gtk <= g BY <2>2, <3>1, RxMessage
    <3> HIDE DEF m
    <3> QED BY <1>1, <2>4, <3>1, <3>2, GtkFailed
  <2>d. Fail(s) => Leave(s) BY DEF Fail
  <2>6. \/ Leave(s) /\ SoundKeys(keys')
        \/ \E k1 \in KeysType : \E k2 \in GtkStep(k1, m.gtk) :
              /\ Half(Ptk, sm.gtk, k1) /\ keys' = k2
              /\ \/ Fail(Keyed(s, m.gtk))
                 \/ sm' = Done(s, m.gtk) /\ Next1
                 \/ sm.st = "done" /\ sm' = Rekeyed(s, m.gtk) /\ Next1
    BY <2>3, <2>4, <2>a, <2>b, <2>c, <2>d
  <2> QED BY <2>1, <2>2, <2>5, <2>6, InstallStep
<1> QED BY <1>2, <1>3

\* on_group1() keeps the invariant: its key was made with the pairwise key of this
\* association.
LEMMA GroupStep ==
    ASSUME HandshakeInv, queue # <<>>, Head(queue).kind \in KeyKinds, sm.active,
           OnGroup1(Head(queue)), UNCHANGED <<ap, armed>>
    PROVE  HandshakeInv'
<1> DEFINE m == Head(queue)
<1>1. sm \in SmType /\ keys \in KeysType /\ KeysInv(sm, keys) BY DEF HandshakeInv, Types
<1>2. CASE sm.st # "done" \/ ~Genuine(m) BY <1>2, IgnoredEnds DEF OnGroup1
<1>3. CASE sm.st = "done" /\ Genuine(m)
  <2>1. PICK s : s = Replayed(sm, m.replay) OBVIOUS
  <2>2. sm.an = m.an
    <3>1. m.ptk = <<sm.an, sm.sn>> BY <1>3 DEF Genuine, Ptk
    <3>2. m.ptk # <<>> /\ m.ptk[1] = sm.an BY <3>1
    <3> QED BY <3>2, RxMessage
  <2>3. \/ Fail(s) /\ UNCHANGED <<up, keys>>
        \/ /\ Reply([kind |-> "group2", replay |-> m.replay, ptk |-> Ptk])
           /\ \/ Leave(s) /\ keys' \in GtkFails(keys, m.gtk)
              \/ \E k2 \in GtkStep(keys, m.gtk) : keys' = k2 /\ sm' = Rekeyed(s, m.gtk) /\ Next1
    BY <1>3, <2>1 DEF OnGroup1, Replayed, Rekeyed, LeaveKeys
  <2>4. keys \in PtkStep(keys)
    <3>1. sm.ptkIn BY <1>1, <1>3, Zenon DEF KeysInv
    <3> QED BY <3>1 DEF PtkStep
  <2>5. keys \in KeysType /\ Half(Ptk, sm.gtk, keys) BY <1>1, <2>4, PtkInstalled
  <2>6. UNCHANGED up \/ Reply([kind |-> "group2", replay |-> m.replay, ptk |-> Ptk]) BY <2>3
  <2>a. SoundKeys(keys) BY <1>1 DEF SoundKeys, KeysInv
  <2>b. \A k \in GtkFails(keys, m.gtk) : SoundKeys(k)
    <3>1. PICK g \in Nat : g = m.gtk BY RxMessage
    <3>2. sm.gtk <= g BY <2>2, <3>1, RxMessage
    <3> HIDE DEF m
    <3> QED BY <1>1, <2>5, <3>1, <3>2, GtkFailed
  <2>c. Fail(s) => Leave(s) BY DEF Fail
  <2>7. \/ Leave(s) /\ SoundKeys(keys')
        \/ \E k1 \in KeysType : \E k2 \in GtkStep(k1, m.gtk) :
              /\ Half(Ptk, sm.gtk, k1) /\ keys' = k2
              /\ \/ Fail(Keyed(s, m.gtk))
                 \/ sm' = Done(s, m.gtk) /\ Next1
                 \/ sm.st = "done" /\ sm' = Rekeyed(s, m.gtk) /\ Next1
    BY <1>3, <2>3, <2>5, <2>a, <2>b, <2>c
  <2> QED BY <1>3, <2>1, <2>2, <2>6, <2>7, InstallStep
<1> QED BY <1>2, <1>3

\* wpa2_sm_rx() keeps the invariant.
LEMMA RxStep ==
    ASSUME HandshakeInv, Rx
    PROVE  HandshakeInv'
<1>1. /\ queue # <<>> /\ Head(queue).kind \in KeyKinds /\ UNCHANGED <<ap, armed>>
      /\ \/ Next1 /\ UNCHANGED <<sm, up, keys>>
         \/ sm.active /\ (OnMsg1(Head(queue)) \/ OnMsg3(Head(queue)) \/ OnGroup1(Head(queue)))
  BY DEF Rx, KeyKinds
<1>2. CASE Next1 /\ UNCHANGED <<sm, up, keys>> BY <1>1, <1>2, IgnoredEnds
<1>3. CASE sm.active /\ OnMsg1(Head(queue)) BY <1>1, <1>3, Msg1Step
<1>4. CASE sm.active /\ OnMsg3(Head(queue)) BY <1>1, <1>4, Msg3Step
<1>5. CASE sm.active /\ OnGroup1(Head(queue)) BY <1>1, <1>5, GroupStep
<1> QED BY <1>1, <1>2, <1>3, <1>4, <1>5

-----------------------------------------------------------------------------
(* The other messages of the supplicant's queue.                           *)

\* What a step of the supplicant that answers nothing owes to the invariant.
LEMMA QuietEnds ==
    ASSUME HandshakeInv, queue # <<>>, queue' \in Popped(queue), UNCHANGED <<up, ap, armed>>,
           sm' = sm \/ sm' = Left(sm), keys' \in KeysType, KeysInv(sm', keys')
    PROVE  HandshakeInv'
<1>1. /\ queue \in Seq(Msg) /\ up \in Seq(Answer) /\ sm \in SmType /\ ap \in ApType /\ armed \in Nat
      /\ LineInv(queue, sm.an, sm.gtk, ap.n, ap.gtk) /\ NonceInv(queue, up, sm, ap)
  BY DEF HandshakeInv, Types
<1>2. /\ sm' \in SmType /\ sm'.an = sm.an /\ sm'.sn = sm.sn /\ sm'.n = sm.n /\ sm'.gtk = sm.gtk
      /\ sm'.active => sm.active
  <2>1. CASE sm' = sm BY <1>1, <2>1
  <2>2. CASE sm' = Left(sm) BY <1>1, <2>2, SmLeft
  <2> QED BY <2>1, <2>2
<1>3. /\ queue' \in Seq(Msg) /\ Lined(queue')
      /\ \A n : ArmFor(queue', n) => ArmFor(queue, n)
      /\ Between(queue', sm.an, sm.gtk, ap.n, ap.gtk)
  BY <1>1, PoppedQueue DEF LineInv
<1>4. LineInv(queue', sm'.an, sm'.gtk, ap.n, ap.gtk) BY <1>1, <1>2, <1>3 DEF LineInv
<1>5. ArmFor(queue', ap.n) => sm'.an < ap.n BY <1>1, <1>2, <1>3 DEF NonceInv
<1>6. Replied(up, up, <<sm'.an, sm'.sn>>) BY DEF Replied
<1>7. NonceInv(queue', up, sm', ap) BY <1>1, <1>2, <1>3, <1>5, <1>6, NonceAfterRx
<1>8. Types' BY <1>1, <1>2, <1>3 DEF Types
<1> QED BY <1>4, <1>7, <1>8 DEF HandshakeInv

\* handle() of a disarm, and of an abort, keep the invariant.
LEMMA DisarmStep ==
    ASSUME HandshakeInv, HandleAbort \/ (HandleArm /\ Head(queue).kind # "arm")
    PROVE  HandshakeInv'
<1>1. sm \in SmType /\ keys \in KeysType /\ KeysInv(sm, keys) BY DEF HandshakeInv, Types
<1>2. Counted(keys) /\ IsInjective(keys.added) BY <1>1 DEF KeysInv
<1>3. CASE HandleAbort
  <2>1. /\ queue # <<>> /\ UNCHANGED <<up, ap, armed>> /\ keys' = keys
        /\ queue' \in Popped(queue) /\ (sm' = sm \/ sm' = Left(sm))
    BY <1>3 DEF HandleAbort, Leave, Left, Next1, Popped
  <2>2. KeysInv(sm', keys')
    <3>1. CASE sm' = sm BY <1>1, <2>1, <3>1
    <3>2. CASE sm' = Left(sm)
      <4>1. ~sm'.active BY <1>1, <3>2, SmLeft
      <4> QED BY <1>2, <2>1, <4>1, KeysOfInactive
    <3> QED BY <2>1, <3>1, <3>2
  <2> QED BY <1>1, <2>1, <2>2, QuietEnds
<1>4. CASE HandleArm /\ Head(queue).kind # "arm"
  <2>1. queue # <<>> /\ UNCHANGED <<up, ap, armed>> /\ queue' = Tail(queue) /\ sm' = Left(sm)
    BY <1>4 DEF HandleArm, Left
  <2>2. PICK r \in SUBSET ({keys.ptk, keys.gtk} \ {NoSlot}) : keys' = DropKeys(keys, r)
    BY <1>4 DEF HandleArm, Undeleted
  <2>3. keys' \in KeysType /\ Counted(keys') /\ keys'.added = <<>> BY <1>1, <1>2, <2>2, DropsKeys
  <2>4. ~sm'.active BY <1>1, <2>1, SmLeft
  <2>5. IsInjective(keys'.added) BY <2>3 DEF IsInjective
  <2>6. KeysInv(sm', keys') BY <2>3, <2>4, <2>5, KeysOfInactive
  <2>7. queue' \in Popped(queue) BY <2>1 DEF Popped
  <2> QED BY <2>1, <2>3, <2>6, <2>7, QuietEnds
<1> QED BY <1>3, <1>4

\* The supplicant that was armed for association n.
Armed(s, n) == [Fresh(n) EXCEPT !.sn = s.sn]

\* A supplicant that was just armed has no keys and has seen nothing.
LEMMA SmArmed ==
    ASSUME NEW s \in SmType, NEW n \in Nat, NEW t, t = Armed(s, n)
    PROVE  /\ t \in SmType /\ t.an = 0 /\ t.gtk = 0 /\ t.n = n
           /\ t.active /\ ~t.ptkIn /\ t.st = "idle"
BY SmFields DEF SmType, Armed, Fresh

\* handle() of an arm keeps the invariant: of an association that is still to be
\* armed nothing was answered.
LEMMA ArmStep ==
    ASSUME HandshakeInv, HandleArm, Head(queue).kind = "arm"
    PROVE  HandshakeInv'
<1>1. /\ queue \in Seq(Msg) /\ up \in Seq(Answer) /\ sm \in SmType /\ ap \in ApType /\ armed \in Nat
      /\ keys \in KeysType /\ Counted(keys)
      /\ LineInv(queue, sm.an, sm.gtk, ap.n, ap.gtk) /\ NonceInv(queue, up, sm, ap)
  BY DEF HandshakeInv, Types, KeysInv
<1>2. queue # <<>> /\ UNCHANGED <<up, ap, armed>> /\ queue' = Tail(queue) BY DEF HandleArm
<1>3. Head(queue) = queue[1] /\ 1 \in ArmAt(queue) /\ Head(queue) \in ArmMsg
  BY <1>1, <1>2, TailAt, MsgKinds DEF ArmAt
<1>4. PICK n \in Nat : n = Head(queue).n BY <1>3 DEF ArmMsg
<1>5. ArmFor(queue, n) BY <1>3, <1>4 DEF ArmFor
<1>6. sm' = Armed(sm, n) BY <1>4 DEF HandleArm, Armed
<1>7. /\ sm' \in SmType /\ sm'.an = 0 /\ sm'.gtk = 0 /\ sm'.n = n
      /\ sm'.active /\ ~sm'.ptkIn /\ sm'.st = "idle"
  <2>1. PICK z \in SmType : z = sm BY <1>1
  <2>2. PICK t : t = Armed(z, n) OBVIOUS
  <2>3. t \in SmType /\ t.an = 0 /\ t.gtk = 0 /\ t.n = n /\ t.active /\ ~t.ptkIn /\ t.st = "idle"
    BY <2>2, SmArmed
  <2>4. sm' = t BY <1>6, <2>1, <2>2
  <2> QED BY <2>3, <2>4
<1>8. PICK r \in SUBSET ({keys.ptk, keys.gtk} \ {NoSlot}) : keys' = DropKeys(keys, r)
  BY DEF HandleArm, Undeleted
<1>9. keys' \in KeysType /\ Counted(keys') /\ keys'.ptk = NoSlot /\ keys'.gtk = NoSlot
      /\ keys'.added = <<>>
  BY <1>1, <1>8, DropsKeys
<1>10. KeysInv(sm', keys')
  <2>1. IsInjective(keys'.added) /\ Empty(keys') BY <1>9 DEF IsInjective, Empty
  <2>2. sm'.st # "done" BY <1>7
  <2> QED BY <1>7, <1>9, <2>1, <2>2, Zenon DEF KeysInv
<1>11. ap.n \in Nat /\ ap.gtk \in Nat /\ sm.an \in Nat /\ sm.gtk \in Nat BY <1>1, SmFields DEF ApType
<1>12. LineInv(Tail(queue), 0, 0, ap.n, ap.gtk)
  <2>1. Lined(Tail(queue)) BY <1>1, <1>2, TailLined DEF LineInv
  <2>2. Between(Tail(queue), sm.an, sm.gtk, ap.n, ap.gtk) BY <1>1, <1>2, TailOf DEF LineInv
  <2>3. \A i \in KeyAt(Tail(queue)) : Tail(queue)[i].an \in Nat /\ Tail(queue)[i].gtk \in Nat
    <3> SUFFICES ASSUME NEW i \in KeyAt(Tail(queue))
                 PROVE  Tail(queue)[i].an \in Nat /\ Tail(queue)[i].gtk \in Nat
      OBVIOUS
    <3>1. Tail(queue) \in Seq(Msg) /\ i \in 1..Len(Tail(queue)) BY <1>1, <1>2, TailAt DEF KeyAt
    <3>2. Tail(queue)[i] \in Msg BY <3>1
    <3>3. Tail(queue)[i] \in KeyMsg BY <3>2, MsgKinds DEF KeyAt
    <3> QED BY <3>3 DEF KeyMsg
  <2>4. \A a \in Nat, g \in Nat : a >= 1 => Older(0, 0, a, g) BY DEF Older
  <2>5. Between(Tail(queue), 0, 0, ap.n, ap.gtk) BY <2>2, <2>3, <2>4 DEF Between
  <2>6. Older(0, 0, ap.n, ap.gtk) BY <1>11 DEF Older
  <2> QED BY <2>1, <2>5, <2>6 DEF LineInv
<1>13. NonceInv(Tail(queue), up, sm', ap)
  <2>1. ArmFor(Tail(queue), ap.n) => ArmFor(queue, ap.n) BY <1>1, <1>2, TailOf
  <2>2. ArmFor(queue, ap.n) => ~Settled(ap) /\ sm'.an < ap.n /\ Msg2At(up, ap.n) = {}
    BY <1>1, <1>7, <1>11 DEF NonceInv
  <2>3. sm'.n = ap.n => ~Settled(ap) /\ Msg2At(up, ap.n) = {} BY <1>5, <1>7, <2>2
  <2> QED BY <1>1, <2>1, <2>2, <2>3 DEF NonceInv
<1>14. Types' BY <1>1, <1>2, <1>7, <1>9, TailAt DEF Types
<1> QED BY <1>2, <1>7, <1>10, <1>12, <1>13, <1>14 DEF HandshakeInv

-----------------------------------------------------------------------------
(* The connection and the access point.                                    *)

\* The fields of the access point.
LEMMA ApFields ==
    ASSUME NEW a \in ApType
    PROVE  /\ a.step \in {"off", "msg1", "msg3", "done", "group1"} /\ a.n \in Nat
           /\ a.ptk \in PairKey /\ a.from \in Nat /\ a.replay \in Nat /\ a.gtk \in Nat /\ a.gtk # 0
BY DEF ApType

\* The key messages that wait are of an association the access point has had.
LEMMA WaitingOf ==
    ASSUME NEW q \in Seq(Msg), NEW a, NEW g, NEW b \in Nat, NEW h \in Nat, Between(q, a, g, b, h)
    PROVE  \A i \in KeyAt(q) : q[i] \in KeyMsg /\ q[i].an \in Nat /\ q[i].gtk \in Nat /\ q[i].an <= b
<1> SUFFICES ASSUME NEW i \in KeyAt(q)
             PROVE  q[i] \in KeyMsg /\ q[i].an \in Nat /\ q[i].gtk \in Nat /\ q[i].an <= b
  OBVIOUS
<1>1. i \in 1..Len(q) /\ q[i].kind \in KeyKinds BY DEF KeyAt
<1>2. q[i] \in Msg BY <1>1
<1>3. q[i] \in KeyMsg BY <1>1, <1>2, MsgKinds
<1>4. q[i].an \in Nat /\ q[i].gtk \in Nat BY <1>3 DEF KeyMsg
<1>5. Older(q[i].an, q[i].gtk, b, h) BY DEF Between
<1> QED BY <1>3, <1>4, <1>5 DEF Older

\* Arming for the next association keeps the invariant: no key message that waits
\* is of it.
LEMMA ConnectStep ==
    ASSUME HandshakeInv, Connect
    PROVE  HandshakeInv'
<1> DEFINE m == [kind |-> "arm", n |-> armed + 1]
           b == ap.n
<1>1. /\ queue \in Seq(Msg) /\ sm \in SmType /\ ap \in ApType /\ armed \in Nat
      /\ LineInv(queue, sm.an, sm.gtk, ap.n, ap.gtk) /\ NonceInv(queue, up, sm, ap)
      /\ Types /\ KeysInv(sm, keys)
  BY DEF HandshakeInv, Types
<1>2. /\ armed' = armed + 1 /\ armed = ap.n /\ queue' = Append(queue, m)
      /\ UNCHANGED <<up, sm, keys, ap, faults>>
  BY DEF Connect
<1>3. m \in Msg /\ m.kind = "arm" /\ m.n = ap.n + 1 /\ m.kind \notin KeyKinds
  BY <1>1, <1>2 DEF Msg, ArmMsg, KeyKinds
<1>4. ap.n \in Nat /\ ap.gtk \in Nat BY <1>1, ApFields
<1> HIDE DEF m
<1>5. /\ queue' \in Seq(Msg) /\ Len(queue) \in Nat /\ Len(queue') = Len(queue) + 1
      /\ \A i \in 1..Len(queue) : queue'[i] = queue[i]
      /\ queue'[Len(queue) + 1] = m
  BY <1>1, <1>2, <1>3, AppendAt
<1>6. \A i \in KeyAt(queue') : i \in KeyAt(queue) /\ queue'[i] = queue[i] BY <1>3, <1>5 DEF KeyAt
<1>7. \A i \in ArmAt(queue') : \/ i \in ArmAt(queue) /\ queue'[i] = queue[i]
                               \/ queue'[i] = m
  BY <1>3, <1>5 DEF ArmAt
<1>8. \A i \in KeyAt(queue) : queue[i].an < m.n
  <2>1. \A i \in KeyAt(queue) : queue[i].an \in Nat /\ queue[i].an <= ap.n
    BY <1>1, <1>4, WaitingOf DEF LineInv
  <2> QED BY <1>3, <1>4, <2>1
<1>9. Lined(queue') BY <1>1, <1>6, <1>7, <1>8 DEF LineInv, Lined
<1>10. Between(queue', sm.an, sm.gtk, ap.n, ap.gtk) BY <1>1, <1>6 DEF LineInv, Between
<1>11. LineInv(queue', sm.an, sm.gtk, ap.n, ap.gtk) BY <1>1, <1>9, <1>10 DEF LineInv
<1>12. ArmFor(queue', ap.n) => ArmFor(queue, ap.n) BY <1>3, <1>4, <1>7 DEF ArmFor
<1>13. NonceInv(queue', up, sm, ap) BY <1>1, <1>12 DEF NonceInv
<1>14. Types' BY <1>1, <1>2, <1>5 DEF Types
<1> QED BY <1>1, <1>2, <1>11, <1>13, <1>14 DEF HandshakeInv

\* A timer's abort and a lost link keep the invariant.
LEMMA EndStep ==
    ASSUME HandshakeInv, Abort \/ Disconnect
    PROVE  HandshakeInv'
<1>1. /\ queue \in Seq(Msg) /\ sm \in SmType /\ ap \in ApType
      /\ LineInv(queue, sm.an, sm.gtk, ap.n, ap.gtk) /\ NonceInv(queue, up, sm, ap)
      /\ Types /\ KeysInv(sm, keys)
  BY DEF HandshakeInv, Types
<1>2. UNCHANGED <<up, sm, keys, armed>> BY DEF Abort, Disconnect
<1>3. /\ queue' \in Seq(Msg) /\ Lined(queue')
      /\ \A n : ArmFor(queue', n) => ArmFor(queue, n)
      /\ Between(queue', sm.an, sm.gtk, ap.n, ap.gtk)
  <2>1. CASE queue' = queue BY <1>1, <2>1 DEF LineInv
  <2>2. CASE queue' # queue
    <3>1. [kind |-> "disarm"] \in Plain /\ [kind |-> "abort"] \in Plain BY DEF Plain
    <3>2. PICK m \in Plain : queue' = Append(queue, m) BY <2>2, <3>1 DEF Abort, Disconnect
    <3> QED BY <1>1, <3>2, AppendPlain DEF LineInv
  <2> QED BY <2>1, <2>2
<1>4. LineInv(queue', sm.an, sm.gtk, ap.n, ap.gtk) BY <1>1, <1>3 DEF LineInv
<1>5. /\ ap' \in ApType /\ ap'.n = ap.n /\ ap'.gtk = ap.gtk /\ ap'.ptk = ap.ptk
      /\ ap'.step = ap.step \/ ap'.step = "off"
  <2>1. CASE Abort BY <1>1, <2>1 DEF Abort
  <2>2. CASE Disconnect BY <1>1, <2>2 DEF Disconnect, ApType
  <2> QED BY <2>1, <2>2
<1>6. Settled(ap') => Settled(ap) BY <1>5 DEF Settled
<1>7. NonceInv(queue', up, sm, ap') BY <1>1, <1>3, <1>5, <1>6 DEF NonceInv
<1>8. Types' BY <1>1, <1>2, <1>3, <1>5 DEF Types
<1> QED BY <1>1, <1>2, <1>4, <1>5, <1>7, <1>8 DEF HandshakeInv

\* A new association keeps the invariant: everything that waits is older.
LEMMA AssociateStep ==
    ASSUME HandshakeInv, Associate
    PROVE  HandshakeInv'
<1>1. /\ queue \in Seq(Msg) /\ sm \in SmType /\ ap \in ApType /\ armed \in Nat
      /\ LineInv(queue, sm.an, sm.gtk, ap.n, ap.gtk) /\ KeysInv(sm, keys) /\ Types
  BY DEF HandshakeInv, Types
<1>2. UNCHANGED <<queue, sm, keys, armed>> /\ up' = <<>> /\ armed > ap.n BY DEF Associate
<1>3. /\ ap' \in ApType /\ ap'.step = "msg1" /\ ap'.n = armed /\ ap'.ptk = <<>> /\ ap'.gtk = 1
  BY <1>1 DEF Associate, ApType, PairKey
<1>4. ap.n \in Nat /\ ap.gtk \in Nat /\ sm.an \in Nat /\ sm.gtk \in Nat BY <1>1, ApFields, SmFields
<1>5. Older(sm.an, sm.gtk, armed, 1) BY <1>1, <1>2, <1>4 DEF LineInv, Older
<1>6. \A i \in KeyAt(queue) : queue[i].an \in Nat /\ queue[i].an <= ap.n
  BY <1>1, <1>4, WaitingOf DEF LineInv
<1>7. \A i \in KeyAt(queue) : Older(queue[i].an, queue[i].gtk, armed, 1)
  BY <1>1, <1>2, <1>4, <1>6 DEF Older
<1>8. LineInv(queue, sm.an, sm.gtk, armed, 1) BY <1>1, <1>5, <1>7 DEF LineInv, Between
<1>9. NonceInv(queue, up', sm, ap')
  <2>1. Msg2At(up', ap'.n) = {} BY <1>2 DEF Msg2At
  <2>2. ~Settled(ap') BY <1>3 DEF Settled
  <2>3. sm.an < ap'.n BY <1>1, <1>2, <1>3, <1>4 DEF LineInv, Older
  <2>4. ap'.n >= 1 BY <1>1, <1>2, <1>3, <1>4
  <2> QED BY <1>3, <2>1, <2>2, <2>3, <2>4 DEF NonceInv
<1>10. Types' BY <1>1, <1>2, <1>3 DEF Types
<1> QED BY <1>1, <1>2, <1>3, <1>8, <1>9, <1>10 DEF HandshakeInv

\* A key message of the access point keeps the invariant: it is the newest.
LEMMA AskStep ==
    ASSUME HandshakeInv, NEW kind \in KeyKinds, Ask(kind)
    PROVE  HandshakeInv'
<1> DEFINE m == [kind |-> kind, an |-> ap.n, replay |-> ap.replay + 1, ptk |-> ap.ptk, gtk |-> ap.gtk]
<1>1. /\ queue \in Seq(Msg) /\ sm \in SmType /\ ap \in ApType
      /\ LineInv(queue, sm.an, sm.gtk, ap.n, ap.gtk) /\ NonceInv(queue, up, sm, ap)
      /\ Types /\ KeysInv(sm, keys)
  BY DEF HandshakeInv, Types
<1>2. UNCHANGED <<up, sm, keys, armed>> /\ (queue' = queue \/ queue' = Append(queue, m)) BY DEF Ask
<1>3. /\ ap' \in ApType /\ ap'.n = ap.n /\ ap'.gtk = ap.gtk /\ ap'.ptk = ap.ptk /\ ap'.step = ap.step
  BY <1>1 DEF Ask, ApType
<1>4. ap.n \in Nat /\ ap.gtk \in Nat /\ ap.gtk # 0 /\ ap.ptk \in PairKey /\ ap.replay \in Nat
  BY <1>1, ApFields
<1>5. ap.n >= 1
  <2>1. ap.step # "off" BY DEF Ask, KeyKinds
  <2> QED BY <1>1, <2>1 DEF NonceInv
<1>6. /\ queue' \in Seq(Msg) /\ LineInv(queue', sm.an, sm.gtk, ap.n, ap.gtk)
      /\ \A n : ArmFor(queue', n) => ArmFor(queue, n)
  <2>1. CASE queue' = queue BY <1>1, <2>1
  <2>2. CASE queue' = Append(queue, m)
    <3>1. m \in Msg /\ m.kind \in KeyKinds /\ m.kind # "arm" BY <1>4 DEF Msg, KeyMsg, KeyKinds
    <3>2. m.an = ap.n /\ m.gtk = ap.gtk /\ m.ptk = ap.ptk OBVIOUS
    <3> HIDE DEF m
    <3>3. /\ queue' \in Seq(Msg) /\ Len(queue) \in Nat /\ Len(queue') = Len(queue) + 1
          /\ \A i \in 1..Len(queue) : queue'[i] = queue[i]
          /\ queue'[Len(queue) + 1] = m
      BY <1>1, <2>2, <3>1, AppendAt
    <3>4. \A i \in KeyAt(queue') : \/ i \in KeyAt(queue) /\ queue'[i] = queue[i] /\ i <= Len(queue)
                                   \/ i = Len(queue) + 1 /\ queue'[i] = m
      BY <3>1, <3>3 DEF KeyAt
    <3>5. \A i \in ArmAt(queue') : i \in ArmAt(queue) /\ queue'[i] = queue[i] /\ i <= Len(queue) /\ i \in Nat
      BY <3>1, <3>3 DEF ArmAt
    <3>6. \A i \in KeyAt(queue') : i \in Nat BY <3>3 DEF KeyAt
    <3>7. Between(queue', sm.an, sm.gtk, ap.n, ap.gtk)
      <4>1. Older(ap.n, ap.gtk, ap.n, ap.gtk) BY <1>4 DEF Older
      <4>2. Older(sm.an, sm.gtk, ap.n, ap.gtk) /\ Between(queue, sm.an, sm.gtk, ap.n, ap.gtk)
        BY <1>1 DEF LineInv
      <4>3. ap.ptk # <<>> => ap.ptk[1] = ap.n BY <1>1 DEF NonceInv
      <4> QED BY <1>5, <3>2, <3>4, <4>1, <4>2, <4>3 DEF Between
    <3>8. Lined(queue')
      <4> SUFFICES ASSUME NEW i \in KeyAt(queue')
                   PROVE  /\ \A j \in KeyAt(queue') : i < j =>
                                Older(queue'[i].an, queue'[i].gtk, queue'[j].an, queue'[j].gtk)
                          /\ \A j \in ArmAt(queue') : i < j => queue'[i].an < queue'[j].n
        BY DEF Lined
      <4>1. CASE i = Len(queue) + 1 BY <3>3, <3>4, <3>5, <3>6, <4>1
      <4>2. CASE i \in KeyAt(queue) /\ queue'[i] = queue[i]
        <5>1. Older(queue[i].an, queue[i].gtk, ap.n, ap.gtk) BY <1>1, <4>2 DEF LineInv, Between
        <5>2. Lined(queue) BY <1>1 DEF LineInv
        <5> QED BY <3>2, <3>4, <3>5, <4>2, <5>1, <5>2 DEF Lined
      <4> QED BY <3>4, <4>1, <4>2
    <3>9. \A n : ArmFor(queue', n) => ArmFor(queue, n) BY <3>5 DEF ArmFor
    <3> QED BY <1>1, <3>3, <3>7, <3>8, <3>9 DEF LineInv
  <2> QED BY <1>2, <2>1, <2>2
<1>7. NonceInv(queue', up, sm, ap')
  <2>1. Settled(ap') <=> Settled(ap) BY <1>3 DEF Settled
  <2> QED BY <1>1, <1>3, <1>6, <2>1 DEF NonceInv
<1>8. Types' BY <1>1, <1>2, <1>3, <1>6 DEF Types
<1> QED BY <1>1, <1>2, <1>3, <1>6, <1>7, <1>8 DEF HandshakeInv

\* The access point after it has settled on a pairwise key or made a group key.
Settles(a, p, f)   == [a EXCEPT !.step = "msg3", !.ptk = p, !.from = f]
Regrouped(a, f, g) == [a EXCEPT !.step = "group1", !.from = f, !.gtk = g]

\* It has settled on a pairwise key.
LEMMA ApSettles ==
    ASSUME NEW a \in ApType, NEW p \in PairKey, NEW f \in Nat, NEW t, t = Settles(a, p, f)
    PROVE  t \in ApType /\ t.step = "msg3" /\ t.ptk = p /\ t.n = a.n /\ t.gtk = a.gtk
BY DEF ApType, Settles

\* It has a new group key.
LEMMA ApRegroups ==
    ASSUME NEW a \in ApType, NEW f \in Nat, NEW g \in Nat, g # 0, NEW t, t = Regrouped(a, f, g)
    PROVE  t \in ApType /\ t.step = "group1" /\ t.ptk = a.ptk /\ t.n = a.n /\ t.gtk = g
BY DEF ApType, Regrouped

\* A new group key keeps the invariant.
LEMMA RekeyStep ==
    ASSUME HandshakeInv, Rekey
    PROVE  HandshakeInv'
<1>1. /\ queue \in Seq(Msg) /\ sm \in SmType /\ ap \in ApType
      /\ LineInv(queue, sm.an, sm.gtk, ap.n, ap.gtk) /\ NonceInv(queue, up, sm, ap)
      /\ Types /\ KeysInv(sm, keys)
  BY DEF HandshakeInv, Types
<1>2. UNCHANGED <<queue, up, sm, keys, armed>> BY DEF Rekey
<1>3. /\ ap' \in ApType /\ ap'.n = ap.n /\ ap'.gtk = ap.gtk + 1 /\ ap'.ptk = ap.ptk
      /\ ap'.step = "group1" /\ ap.step = "done"
  <2>1. ap.replay \in Nat /\ ap.gtk \in Nat BY <1>1, ApFields
  <2>2. PICK f \in Nat, g \in Nat : f = ap.replay + 1 /\ g = ap.gtk + 1 /\ g # 0 BY <2>1
  <2>3. ap' = Regrouped(ap, f, g) BY <1>1, <2>2 DEF Rekey, ApType, Regrouped
  <2>4. ap' \in ApType /\ ap'.n = ap.n /\ ap'.gtk = g /\ ap'.ptk = ap.ptk /\ ap'.step = "group1"
    <3>1. PICK z \in ApType : z = ap BY <1>1
    <3>2. PICK t : t = Regrouped(z, f, g) OBVIOUS
    <3>3. t \in ApType /\ t.n = z.n /\ t.gtk = g /\ t.ptk = z.ptk /\ t.step = "group1"
      <4>1. g # 0 BY <2>2
      <4> QED BY <3>2, <4>1, ApRegroups
    <3>4. ap' = t BY <2>3, <3>1, <3>2
    <3> QED BY <3>1, <3>3, <3>4
  <2> QED BY <2>2, <2>4 DEF Rekey
<1>4. ap.n \in Nat /\ ap.gtk \in Nat /\ sm.an \in Nat /\ sm.gtk \in Nat BY <1>1, ApFields, SmFields
<1>5. \A a \in Nat, g \in Nat : Older(a, g, ap.n, ap.gtk) => Older(a, g, ap.n, ap.gtk + 1)
  BY <1>4 DEF Older
<1>6. \A i \in KeyAt(queue) : queue[i].an \in Nat /\ queue[i].gtk \in Nat
  BY <1>1, <1>4, WaitingOf DEF LineInv
<1>7. LineInv(queue, sm.an, sm.gtk, ap.n, ap.gtk + 1)
  BY <1>1, <1>4, <1>5, <1>6 DEF LineInv, Between
<1>8. Settled(ap) /\ Settled(ap') BY <1>3 DEF Settled
<1>9. NonceInv(queue, up, sm, ap') BY <1>1, <1>3, <1>8 DEF NonceInv
<1>10. Types' BY <1>1, <1>2, <1>3 DEF Types
<1> QED BY <1>1, <1>2, <1>3, <1>7, <1>9, <1>10 DEF HandshakeInv

\* An answer that arrives keeps the invariant: the key it settles is the one the
\* supplicant has, and the association is armed.
LEMMA HearStep ==
    ASSUME HandshakeInv, Hear
    PROVE  HandshakeInv'
<1> DEFINE m == Head(up)
           settles == m.kind = "msg2" /\ ap.step = "msg1" /\ m.ptk = <<ap.n, m.sn>>
<1>1. /\ up \in Seq(Answer) /\ sm \in SmType /\ ap \in ApType
      /\ LineInv(queue, sm.an, sm.gtk, ap.n, ap.gtk) /\ NonceInv(queue, up, sm, ap)
      /\ Types /\ KeysInv(sm, keys)
  BY DEF HandshakeInv, Types
<1>2. UNCHANGED <<queue, sm, keys, armed>> /\ up # <<>> /\ up' = Tail(up) BY DEF Hear
<1>3. /\ up' \in Seq(Answer) /\ Len(up) \in Nat /\ m \in Answer /\ m = up[1] /\ 1 \in 1..Len(up)
      /\ \A i \in 1..Len(up') : up'[i] = up[i + 1] /\ i + 1 \in 1..Len(up)
  BY <1>1, <1>2
<1>4. \/ settles /\ ap' = [ap EXCEPT !.step = "msg3", !.ptk = m.ptk, !.from = ap.replay + 1]
      \/ ap.step \in {"msg3", "group1"} /\ ap' = [ap EXCEPT !.step = "done"]
      \/ ap' = ap
  BY DEF Hear
<1>5. ap.n \in Nat /\ ap.replay \in Nat BY <1>1, ApFields
<1>6. settles => m.ptk \in PairKey /\ m.ptk # <<>> /\ m.ptk[1] = ap.n /\ 1 \in Msg2At(up, ap.n)
  <2>1. m.kind = "msg2" => m.sn \in Nat BY <1>3 DEF Answer, Msg2
  <2> SUFFICES ASSUME settles
               PROVE  m.ptk \in PairKey /\ m.ptk # <<>> /\ m.ptk[1] = ap.n /\ 1 \in Msg2At(up, ap.n)
    OBVIOUS
  <2>2. PICK x \in Nat, y \in Nat : x = ap.n /\ y = m.sn BY <1>5, <2>1
  <2>3. m.ptk = <<x, y>> BY <2>2
  <2>4. <<x, y>> \in PairKey /\ <<x, y>> # <<>> /\ <<x, y>>[1] = x BY DEF PairKey
  <2>5. m.ptk \in PairKey /\ m.ptk # <<>> /\ m.ptk[1] = x BY <2>3, <2>4
  <2> QED BY <1>3, <2>2, <2>5 DEF Msg2At
<1>7. \A n : \A i \in Msg2At(up', n) : up'[i] = up[i + 1] /\ i + 1 \in Msg2At(up, n) BY <1>3 DEF Msg2At
<1>8. /\ ap' \in ApType /\ ap'.n = ap.n /\ ap'.gtk = ap.gtk
      /\ \/ settles /\ ap'.ptk = m.ptk /\ ap'.step = "msg3"
         \/ ap'.ptk = ap.ptk /\ (Settled(ap') <=> Settled(ap)) /\ (ap'.step = "off" <=> ap.step = "off")
  <2> HIDE DEF m
  <2>1. CASE settles /\ ap' = [ap EXCEPT !.step = "msg3", !.ptk = m.ptk, !.from = ap.replay + 1]
    <3>1. PICK f \in Nat, p \in PairKey : f = ap.replay + 1 /\ p = m.ptk BY <1>5, <1>6, <2>1
    <3>2. ap' = Settles(ap, p, f) BY <2>1, <3>1 DEF Settles
    <3>3. ap' \in ApType /\ ap'.n = ap.n /\ ap'.gtk = ap.gtk /\ ap'.ptk = p /\ ap'.step = "msg3"
      BY <1>1, <3>2, ApSettles
    <3> QED BY <2>1, <3>1, <3>3
  <2>2. CASE ap.step \in {"msg3", "group1"} /\ ap' = [ap EXCEPT !.step = "done"]
    BY <1>1, <2>2 DEF ApType, Settled
  <2>3. CASE ap' = ap BY <1>1, <2>3
  <2> QED BY <1>4, <2>1, <2>2, <2>3
<1>9. NonceInv(queue, up', sm, ap')
  <2>1. CASE settles /\ ap'.ptk = m.ptk /\ ap'.step = "msg3"
    <3>1. Msg2At(up, ap.n) # {} BY <1>6, <2>1
    <3>2. ~ArmFor(queue, ap.n) BY <1>1, <3>1 DEF NonceInv
    <3>3. ap.n >= 1 BY <1>1, <2>1 DEF NonceInv
    <3>4. sm.active /\ sm.n = ap.n => \A i \in Msg2At(up, ap.n) : up[i].ptk = <<sm.an, sm.sn>>
      BY <1>1 DEF NonceInv
    <3>5. sm.active /\ sm.n = ap.n => m.ptk = <<sm.an, sm.sn>> BY <1>3, <1>6, <2>1, <3>4
    <3> HIDE DEF m
    <3> QED BY <1>6, <1>7, <1>8, <2>1, <3>2, <3>3, <3>4, <3>5 DEF NonceInv
  <2>2. CASE ap'.ptk = ap.ptk /\ (Settled(ap') <=> Settled(ap)) /\ (ap'.step = "off" <=> ap.step = "off")
    <3>1. Msg2At(up, ap.n) = {} => Msg2At(up', ap.n) = {} BY <1>7
    <3> QED BY <1>1, <1>7, <1>8, <2>2, <3>1 DEF NonceInv
  <2> QED BY <1>8, <2>1, <2>2
<1>10. Types' BY <1>1, <1>2, <1>3, <1>8 DEF Types
<1> QED BY <1>1, <1>2, <1>8, <1>9, <1>10 DEF HandshakeInv

-----------------------------------------------------------------------------
(* The theorems.                                                           *)

\* HandshakeInv holds when the supplicant's task starts.
LEMMA HandshakeStarts == Init => HandshakeInv
<1> SUFFICES ASSUME Init PROVE HandshakeInv
  OBVIOUS
<1>1. sm \in SmType /\ sm.an = 0 /\ sm.gtk = 0 /\ ~sm.active BY DEF Init, Fresh, SmType
<1>2. /\ keys.hw = [s \in Slots |-> NoKey] /\ keys.ptk = NoSlot /\ keys.gtk = NoSlot
      /\ keys.failed = 0 /\ keys.added = <<>>
      /\ keys = [hw |-> keys.hw, ptk |-> NoSlot, gtk |-> NoSlot, failed |-> 0, added |-> <<>>]
  BY DEF Init
<1>3. keys \in KeysType
  <2>1. keys.hw \in [Slots -> Seq(Nat)]
    <3>1. NoKey \in Seq(Nat) BY DEF NoKey
    <3> QED BY <1>2, <3>1
  <2>2. \A h \in [Slots -> Seq(Nat)], l \in Nat, x \in 0..6, d \in Seq(Seq(Nat)) :
          [hw |-> h, ptk |-> x, gtk |-> x, failed |-> l, added |-> d] \in KeysType
    BY DEF KeysType
  <2>3. <<>> \in Seq(Seq(Nat)) /\ 0 \in Nat /\ NoSlot \in 0..6 BY SlotFacts
  <2>4. [hw |-> keys.hw, ptk |-> NoSlot, gtk |-> NoSlot, failed |-> 0, added |-> <<>>] \in KeysType
    BY <2>1, <2>2, <2>3, Zenon
  <2> QED BY <1>2, <2>4, Zenon
<1>4. /\ ap \in ApType /\ ap.n = 0 /\ ap.ptk = <<>> /\ ap.gtk = 1 /\ ap.step = "off"
  BY DEF Init, ApType, PairKey
<1>5. queue = <<>> /\ up = <<>> /\ armed \in Nat BY DEF Init
<1>6. Types BY <1>1, <1>3, <1>4, <1>5 DEF Types
<1>7. KeysInv(sm, keys)
  <2>1. Counted(keys)
    <3>1. Stray(keys) = {} BY <1>2 DEF Stray
    <3> QED BY <1>2, <3>1, FS_EmptySet DEF Counted
  <2>2. IsInjective(keys.added) BY <1>2 DEF IsInjective
  <2> QED BY <1>1, <2>1, <2>2, KeysOfInactive
<1>8. KeyAt(queue) = {} /\ ArmAt(queue) = {} /\ Msg2At(up, 0) = {} BY <1>5 DEF KeyAt, ArmAt, Msg2At
<1>9. LineInv(queue, sm.an, sm.gtk, ap.n, ap.gtk)
  BY <1>1, <1>4, <1>8 DEF LineInv, Lined, Between, Older
<1>10. ~Settled(ap) /\ ~ArmFor(queue, ap.n) BY <1>4, <1>8 DEF Settled, ArmFor
<1>11. NonceInv(queue, up, sm, ap) BY <1>1, <1>4, <1>10 DEF NonceInv
<1> QED BY <1>6, <1>7, <1>9, <1>11 DEF HandshakeInv

\* Every step of the task, of the connection and of the access point keeps
\* HandshakeInv.
LEMMA HandshakeStep == HandshakeInv /\ [Next]_vars => HandshakeInv'
<1> SUFFICES ASSUME HandshakeInv, [Next]_vars PROVE HandshakeInv'
  OBVIOUS
<1>1. CASE Rx BY <1>1, RxStep
<1>2. CASE HandleArm
  <2>1. CASE Head(queue).kind = "arm" BY <1>2, <2>1, ArmStep
  <2>2. CASE Head(queue).kind # "arm" BY <1>2, <2>2, DisarmStep
  <2> QED BY <2>1, <2>2
<1>3. CASE HandleAbort BY <1>3, DisarmStep
<1>4. CASE Connect BY <1>4, ConnectStep
<1>5. CASE Abort \/ Disconnect BY <1>5, EndStep
<1>6. CASE Associate BY <1>6, AssociateStep
<1>7. CASE Rekey BY <1>7, RekeyStep
<1>8. CASE Hear BY <1>8, HearStep
<1>9. ASSUME NEW kind \in {"msg1", "msg3", "group1"}, Ask(kind) PROVE HandshakeInv'
  <2>1. kind \in KeyKinds BY DEF KeyKinds
  <2> QED BY <1>9, <2>1, AskStep
<1>10. CASE UNCHANGED vars
  <2>1. queue' = queue /\ up' = up /\ sm' = sm /\ keys' = keys /\ ap' = ap /\ armed' = armed
    BY <1>10 DEF vars
  <2> QED BY <2>1 DEF HandshakeInv, Types
<1> QED BY <1>1, <1>2, <1>3, <1>4, <1>5, <1>6, <1>7, <1>8, <1>9, <1>10 DEF Next

\* The inductive invariant holds in every state.
LEMMA HandshakeHolds == Spec => []HandshakeInv
<1>1. Init => HandshakeInv BY HandshakeStarts
<1>2. HandshakeInv /\ [Next]_vars => HandshakeInv' BY HandshakeStep
<1> QED BY <1>1, <1>2, PTL DEF Spec

\* However often messages 1 and 3 are repeated, reordered with an arm or lost, the
\* access point and the supplicant hold the same pairwise key once the access
\* point has settled on one, and a finished handshake has both keys in the LMAC:
\* SameKeys, for every number of associations and messages and every queue depth.
THEOREM BothSidesAgree == Spec => []SameKeys
<1>1. HandshakeInv => SameKeys
  <2> SUFFICES ASSUME HandshakeInv PROVE SameKeys
    OBVIOUS
  <2>1. KeysInv(sm, keys) /\ NonceInv(queue, up, sm, ap) BY DEF HandshakeInv
  <2>2. ASSUME Current, ap.step \in {"msg3", "done", "group1"} PROVE Ptk = ap.ptk
    BY <2>1, <2>2 DEF NonceInv, Settled, Current, Ptk
  <2>3. ASSUME sm.active, sm.st = "done"
        PROVE  keys.hw[keys.ptk] = Ptk /\ keys.hw[keys.gtk] = <<sm.gtk>>
    <3>1. Full(<<sm.an, sm.sn>>, sm.gtk, keys) BY <2>1, <2>3, Zenon DEF KeysInv
    <3> QED BY <3>1 DEF Full, Ptk
  <2> QED BY <2>2, <2>3, Zenon DEF SameKeys
<1> QED BY <1>1, HandshakeHolds, PTL

\* No pairwise or group key is given to the LMAC a second time between two arms,
\* so no packet number is used twice with one key: NoReinstall.
THEOREM KeysInstalledOnce == Spec => []NoReinstall
<1>1. HandshakeInv => NoReinstall BY DEF HandshakeInv, KeysInv, NoReinstall
<1> QED BY <1>1, HandshakeHolds, PTL

\* Through every number of rekeys, associations and failing requests the LMAC
\* holds no more keys that neither s_ptk_slot nor s_gtk_slot names than MM_KEY_ADD
\* and MM_KEY_DEL requests failed: NoStrayKey.
THEOREM ForgottenKeysCounted == Spec => []NoStrayKey
<1>1. HandshakeInv => NoStrayKey BY DEF HandshakeInv, KeysInv, Counted, NoStrayKey
<1> QED BY <1>1, HandshakeHolds, PTL

-----------------------------------------------------------------------------
(* The scan session: who owns a result.                                    *)

\* One task scans: the test for a scan in flight and the section that publishes the
\* next one are two steps, which a second caller could come between.
OneScanner == \A t, u \in Tasks : t = u

\* wifi_scan() between the section that publishes and its end.
Published == {"time", "send", "unsent", "await"}

CallerSteps   == {"idle", "publish"} \cup Published
FinisherSteps == {"idle", "stop", "resolve", "cancel", "giveup"}

MaybeScan == Scans \cup {None}
SessionType == [n : MaybeScan, cancelled : BOOLEAN, dropped : BOOLEAN]
TakenType   == [n : MaybeScan, status : Statuses]

ScanTypes ==
    /\ pc \in [Actors -> CallerSteps \cup FinisherSteps]
    /\ \A t \in Tasks : pc[t] \in CallerSteps
    /\ \A a \in Finishers : pc[a] \in FinisherSteps
    /\ begun \in Nat /\ mine \in [Tasks -> MaybeScan]
    /\ session \in SessionType /\ fin \in [Finishers -> TakenType]
    /\ outcome \in [Scans -> Statuses \cup {"none"}]
    /\ heap \subseteq 1..begun

\* The session or a finisher has the result.
Held(n) == session.n = n \/ \E a \in Finishers : fin[a].n = n

\* A finisher has a result just while it ends the scan, and nobody else has that one.
TakenApart ==
    /\ \A a \in Finishers : fin[a].n # None <=> pc[a] \in {"stop", "resolve"}
    /\ \A a \in Finishers : fin[a].n # None => fin[a].n # session.n
    /\ \A a, b \in Finishers : (a # b /\ fin[a].n # None) => fin[a].n # fin[b].n

\* The allocated results are those that somebody has or that wait in a promise, and
\* such a promise has a caller.
HeapOwned ==
    /\ \A n \in Scans : n \in heap <=> (Held(n) \/ outcome[n] # "none")
    /\ \A n \in Scans : outcome[n] # "none" => (~Held(n) /\ \E t \in Tasks : mine[t] = n)

\* A caller has a promise from its publication on, and then no other scan is published.
CallerHolds ==
    \A t \in Tasks :
        /\ pc[t] \in Published => (mine[t] # None /\ session.n \in {None, mine[t]})
        /\ pc[t] \notin Published => mine[t] = None
        /\ pc[t] = "publish" => session.n = None

ScanOwnerInv == ScanTypes /\ TakenApart /\ HeapOwned /\ CallerHolds

\* A task is one or the other.
LEMMA ScanActors ==
    /\ Tasks \subseteq Actors /\ Finishers \subseteq Actors
    /\ \A t \in Tasks : \A a \in Finishers : t # a
    /\ "kmsg" \in Finishers /\ "timer" \in Finishers
    /\ \A n \in Scans : n \in Nat /\ n # None
    /\ MaxScans \in Nat
  BY ScanAssumption DEF Actors, Finishers, Scans, None

\* A task goes to its next step.
LEMMA StepMoves ==
    ASSUME ScanTypes, NEW a \in Actors, NEW l \in CallerSteps \cup FinisherSteps, Goto(a, l)
    PROVE  /\ pc' \in [Actors -> CallerSteps \cup FinisherSteps] /\ pc'[a] = l
           /\ \A b \in Actors : b # a => pc'[b] = pc[b]
  BY DEF ScanTypes, Goto

\* Steps that move no result: whatever happens to the session's flags, to the timer and
\* to the messages.
LEMMA OwnersStay ==
    ASSUME ScanOwnerInv, session' \in SessionType, session'.n = session.n,
           UNCHANGED <<mine, begun, fin, outcome, heap>>,
           pc' \in [Actors -> CallerSteps \cup FinisherSteps],
           \A a \in Finishers :
              /\ pc'[a] \in FinisherSteps
              /\ pc'[a] \in {"stop", "resolve"} <=> pc[a] \in {"stop", "resolve"},
           \A t \in Tasks :
              \/ pc'[t] = pc[t]
              \/ pc[t] = "idle" /\ pc'[t] = "publish" /\ session.n = None
              \/ pc[t] = "publish" /\ pc'[t] = "idle"
              \/ pc[t] \in Published /\ pc'[t] \in Published
    PROVE  ScanOwnerInv'
<1>1. ScanTypes'
  BY ScanActors DEF ScanOwnerInv, ScanTypes, CallerSteps
<1>2. TakenApart'
  BY DEF ScanOwnerInv, TakenApart
<1>3. HeapOwned'
  BY DEF ScanOwnerInv, HeapOwned, Held
<1>4. CallerHolds'
  BY DEF ScanOwnerInv, CallerHolds, Published
<1> QED BY <1>1, <1>2, <1>3, <1>4 DEF ScanOwnerInv

\* Steps of the caller that move no result.
LEMMA CallerStays ==
    ASSUME ScanOwnerInv, NEW t \in Tasks, NEW l \in CallerSteps, Goto(t, l),
           UNCHANGED <<mine, begun, session, fin, outcome, heap>>,
           \/ pc[t] = "idle" /\ l = "publish" /\ session.n = None
           \/ pc[t] = "publish" /\ l = "idle"
           \/ pc[t] \in Published /\ l \in Published
    PROVE  ScanOwnerInv'
<1>1. ScanTypes /\ t \in Actors /\ l \in CallerSteps \cup FinisherSteps
  BY ScanActors DEF ScanOwnerInv
<1>2. /\ pc' \in [Actors -> CallerSteps \cup FinisherSteps] /\ pc'[t] = l
      /\ \A b \in Actors : b # t => pc'[b] = pc[b]
  BY <1>1, StepMoves
<1>3. session' \in SessionType /\ session'.n = session.n
  BY <1>1 DEF ScanTypes
<1>4. \A a \in Finishers : pc'[a] = pc[a] /\ pc[a] \in FinisherSteps
  BY <1>1, <1>2, ScanActors DEF ScanTypes
<1>5. \A u \in Tasks : u = t \/ pc'[u] = pc[u]
  BY <1>2, ScanActors
<1> QED BY <1>2, <1>3, <1>4, <1>5, OwnersStay

\* Steps of a finisher that move no result.
LEMMA FinisherStays ==
    ASSUME ScanOwnerInv, NEW a \in Finishers, NEW l \in FinisherSteps, Goto(a, l),
           session' \in SessionType, session'.n = session.n,
           UNCHANGED <<mine, begun, fin, outcome, heap>>,
           l \in {"stop", "resolve"} <=> pc[a] \in {"stop", "resolve"}
    PROVE  ScanOwnerInv'
<1>1. ScanTypes /\ a \in Actors /\ l \in CallerSteps \cup FinisherSteps
  BY ScanActors DEF ScanOwnerInv
<1>2. /\ pc' \in [Actors -> CallerSteps \cup FinisherSteps] /\ pc'[a] = l
      /\ \A b \in Actors : b # a => pc'[b] = pc[b]
  BY <1>1, StepMoves
<1>3. \A t \in Tasks : pc'[t] = pc[t]
  BY <1>2, ScanActors
<1>4. \A b \in Finishers : b = a \/ (pc'[b] = pc[b] /\ pc[b] \in FinisherSteps)
  BY <1>1, <1>2, ScanActors DEF ScanTypes
<1> QED BY <1>2, <1>3, <1>4, OwnersStay

\* session_finish() takes the result from the session, and only one finisher can.
LEMMA TakeMoves ==
    ASSUME ScanOwnerInv, NEW a \in Finishers, NEW status \in Statuses, Take(a, status),
           pc[a] \in {"idle", "giveup"}, UNCHANGED <<mine, begun, outcome, heap>>
    PROVE  ScanOwnerInv'
<1>1. ScanTypes /\ a \in Actors /\ session \in SessionType /\ session.n \in MaybeScan
  BY ScanActors DEF ScanOwnerInv, ScanTypes, SessionType
<1>2. NoSession \in SessionType /\ NoSession.n = None /\ session' = NoSession
  BY DEF NoSession, SessionType, MaybeScan, Take
<1>3. CASE session.n = None
  <2>1. Goto(a, "idle") /\ UNCHANGED fin
    BY <1>3 DEF Take
  <2> QED BY <1>1, <1>2, <1>3, <2>1, FinisherStays DEF FinisherSteps
<1>4. CASE session.n # None
  <2> DEFINE x == [n |-> session.n, status |-> FinalStatus(session, status)]
  <2>1. fin' = [fin EXCEPT ![a] = x] /\ Goto(a, "stop")
    BY <1>4 DEF Take
  <2>2. x \in TakenType /\ x.n = session.n
    BY <1>1 DEF TakenType, FinalStatus, Statuses
  <2> HIDE DEF x
  <2>3. /\ fin' \in [Finishers -> TakenType] /\ fin'[a] = x
        /\ \A b \in Finishers : b # a => fin'[b] = fin[b]
    BY <1>1, <2>1, <2>2 DEF ScanTypes
  <2>4. /\ pc' \in [Actors -> CallerSteps \cup FinisherSteps] /\ pc'[a] = "stop"
        /\ \A b \in Actors : b # a => pc'[b] = pc[b]
    BY <1>1, <2>1, StepMoves DEF FinisherSteps
  <2>5. \A t \in Tasks : pc'[t] = pc[t]
    BY <2>4, ScanActors
  <2>6. \A b \in Finishers : b # a => pc'[b] = pc[b]
    BY <2>4, ScanActors
  <2>7. fin[a].n = None
    BY DEF ScanOwnerInv, TakenApart
  <2>8. ScanTypes'
    BY <1>1, <1>2, <2>3, <2>4, <2>5, <2>6 DEF ScanTypes, FinisherSteps
  <2>9. TakenApart'
    BY <1>2, <1>4, <2>2, <2>3, <2>4, <2>6, <2>7 DEF ScanOwnerInv, TakenApart
  <2>10. \A n \in Scans : Held(n) <=> Held(n)'
    BY <1>2, <2>2, <2>3, <2>7, ScanActors DEF Held
  <2>11. HeapOwned'
    BY <2>10 DEF ScanOwnerInv, HeapOwned
  <2>12. CallerHolds'
    BY <1>2, <2>5 DEF ScanOwnerInv, CallerHolds, Published
  <2> QED BY <2>8, <2>9, <2>11, <2>12 DEF ScanOwnerInv
<1> QED BY <1>3, <1>4

\* The result goes to the promise, or is freed because nobody has a handle to it.
LEMMA ResolveMoves ==
    ASSUME ScanOwnerInv, NEW a \in Finishers, FinishResolve(a)
    PROVE  ScanOwnerInv'
<1>1. ScanTypes /\ a \in Actors
  BY ScanActors DEF ScanOwnerInv
<1> DEFINE x == [n |-> None, status |-> "Ok"]
<1>2. pc[a] = "resolve" /\ Goto(a, "idle") /\ fin' = [fin EXCEPT ![a] = x] /\ UNCHANGED <<mine, begun, session>>
  BY DEF FinishResolve, At, call
<1>3. x \in TakenType /\ x.n = None
  BY DEF TakenType, MaybeScan, Statuses
<1>4. PICK m \in Scans : m = fin[a].n /\ fin[a].status \in Statuses
  BY <1>1, <1>2 DEF ScanOwnerInv, TakenApart, ScanTypes, TakenType, MaybeScan
<1> HIDE DEF x
<1>5. /\ fin' \in [Finishers -> TakenType] /\ fin'[a].n = None
      /\ \A b \in Finishers : b # a => fin'[b] = fin[b]
  BY <1>1, <1>2, <1>3 DEF ScanTypes
<1>6. /\ pc' \in [Actors -> CallerSteps \cup FinisherSteps] /\ pc'[a] = "idle"
      /\ \A b \in Actors : b # a => pc'[b] = pc[b]
  BY <1>1, <1>2, StepMoves DEF FinisherSteps
<1>7. /\ \A t \in Tasks : pc'[t] = pc[t]
      /\ \A b \in Finishers : b # a => pc'[b] = pc[b]
  BY <1>6, ScanActors
<1>8. TakenApart'
  BY <1>2, <1>5, <1>6, <1>7 DEF ScanOwnerInv, TakenApart
<1>9. CallerHolds'
  BY <1>2, <1>7 DEF ScanOwnerInv, CallerHolds, Published
<1>10. /\ \A n \in Scans : n # m => (Held(n) <=> Held(n)')
       /\ Held(m) /\ ~Held(m)'
  <2>1. Held(m) BY <1>4 DEF Held
  <2>2. m # None /\ m # session.n /\ \A b \in Finishers : b # a => fin[b].n # m
    BY <1>4, ScanActors DEF ScanOwnerInv, TakenApart
  <2>3. ~Held(m)'
    BY <1>2, <1>5, <2>2 DEF Held
  <2>4. \A n \in Scans : n # m => (Held(n) <=> Held(n)')
    BY <1>2, <1>4, <1>5, ScanActors DEF Held
  <2> QED BY <2>1, <2>3, <2>4
<1>11. m \in heap /\ outcome[m] = "none"
  BY <1>4, <1>10 DEF ScanOwnerInv, HeapOwned
<1>12. CASE Holders(m) = {}
  <2>1. heap' = heap \ {m} /\ UNCHANGED outcome
    BY <1>4, <1>12 DEF FinishResolve
  <2>2. HeapOwned'
    BY <1>2, <1>4, <1>10, <1>11, <2>1 DEF ScanOwnerInv, HeapOwned
  <2>3. ScanTypes'
    BY <1>1, <1>2, <1>5, <1>6, <1>7, <2>1 DEF ScanTypes, FinisherSteps
  <2> QED BY <1>8, <1>9, <2>2, <2>3 DEF ScanOwnerInv
<1>13. CASE Holders(m) # {}
  <2>1. outcome' = [outcome EXCEPT ![m] = fin[a].status] /\ UNCHANGED heap
    BY <1>4, <1>13 DEF FinishResolve
  <2>2. /\ outcome' \in [Scans -> Statuses \cup {"none"}] /\ outcome'[m] # "none"
        /\ \A n \in Scans : n # m => outcome'[n] = outcome[n]
    BY <1>1, <1>4, <2>1 DEF ScanTypes, Statuses
  <2>3. \E t \in Tasks : mine[t] = m
    BY <1>13 DEF Holders
  <2>4. HeapOwned'
    BY <1>2, <1>4, <1>10, <1>11, <2>1, <2>2, <2>3 DEF ScanOwnerInv, HeapOwned
  <2>5. ScanTypes'
    BY <1>1, <1>2, <1>5, <1>6, <1>7, <2>1, <2>2 DEF ScanTypes, FinisherSteps
  <2> QED BY <1>8, <1>9, <2>4, <2>5 DEF ScanOwnerInv
<1> QED BY <1>12, <1>13

\* A new scan is published: its result is one that nobody had.
LEMMA PublishMoves ==
    ASSUME ScanOwnerInv, OneScanner, NEW t \in Tasks, Publish(t)
    PROVE  ScanOwnerInv'
<1>1. ScanTypes /\ t \in Actors
  BY ScanActors DEF ScanOwnerInv
<1>2. pc[t] = "publish" /\ begun < MaxScans /\ UNCHANGED <<fin, outcome>>
  BY DEF Publish, At
<1>3. CASE Goto(t, "idle") /\ UNCHANGED <<call, session, heap>>
  BY <1>2, <1>3, CallerStays DEF call, CallerSteps
<1>4. CASE /\ begun' = begun + 1 /\ mine' = [mine EXCEPT ![t] = begun + 1]
           /\ session' = [NoSession EXCEPT !.n = begun + 1]
           /\ heap' = heap \cup {begun + 1} /\ Goto(t, "time")
  <2>1. PICK m \in Scans : m = begun + 1
    BY <1>1, <1>2, ScanActors DEF ScanTypes, Scans
  <2>2. session' \in SessionType /\ session'.n = m
    BY <1>4, <2>1 DEF NoSession, SessionType, MaybeScan
  <2>3. /\ mine' \in [Tasks -> MaybeScan] /\ mine'[t] = m /\ \A u \in Tasks : u = t
    BY <1>1, <1>4, <2>1 DEF ScanTypes, MaybeScan, OneScanner
  <2>4. heap' = heap \cup {m} /\ begun' = m /\ begun' \in Nat /\ heap' \subseteq 1..begun'
    BY <1>1, <1>4, <2>1 DEF ScanTypes
  <2>5. /\ pc' \in [Actors -> CallerSteps \cup FinisherSteps] /\ pc'[t] = "time"
        /\ \A a \in Finishers : pc'[a] = pc[a]
    BY <1>1, <1>4, StepMoves, ScanActors DEF CallerSteps, Published
  <2>6. session.n = None
    BY <1>2 DEF ScanOwnerInv, CallerHolds
  <2>7. m \notin heap /\ ~Held(m) /\ outcome[m] = "none"
    <3>1. m \notin heap BY <1>1, <2>1 DEF ScanTypes
    <3> QED BY <3>1 DEF ScanOwnerInv, HeapOwned
  <2>8. \A a \in Finishers : fin[a].n # m
    BY <2>7 DEF Held
  <2>9. ScanTypes'
    BY <1>1, <1>2, <2>2, <2>3, <2>4, <2>5 DEF ScanTypes, CallerSteps, Published
  <2>10. TakenApart'
    BY <1>2, <2>2, <2>5, <2>8 DEF ScanOwnerInv, TakenApart
  <2>11. /\ \A n \in Scans : n # m => (Held(n) <=> Held(n)')
         /\ Held(m)'
    BY <1>2, <2>2, <2>6, ScanActors DEF Held
  <2>12. \A n \in Scans : outcome[n] = "none"
    <3>1. mine[t] = None
      BY <1>2 DEF ScanOwnerInv, CallerHolds, Published
    <3> QED BY <2>3, <3>1, ScanActors DEF ScanOwnerInv, HeapOwned
  <2>13. HeapOwned'
    BY <1>2, <2>4, <2>7, <2>11, <2>12 DEF ScanOwnerInv, HeapOwned
  <2>14. CallerHolds'
    BY <2>2, <2>3, <2>5, ScanActors DEF CallerHolds, Published
  <2> QED BY <2>9, <2>10, <2>13, <2>14 DEF ScanOwnerInv
<1> QED BY <1>3, <1>4 DEF Publish

\* The caller lets go of its promise, and what was in it is freed; a result the session
\* or a finisher has stays with it.
LEMMA DropMoves ==
    ASSUME ScanOwnerInv, OneScanner, NEW t \in Tasks, pc[t] \in Published, Drop(t),
           session' \in SessionType,
           session'.n = session.n \/ session'.n = None,
           heap' = (heap \ InPromise(t)) \ (IF session'.n = None THEN {session.n} ELSE {}),
           UNCHANGED <<begun, fin>>
    PROVE  ScanOwnerInv'
<1>1. ScanTypes /\ t \in Actors
  BY ScanActors DEF ScanOwnerInv
<1>2. PICK m \in Scans : m = mine[t] /\ session.n \in {None, m}
  BY <1>1 DEF ScanOwnerInv, CallerHolds, ScanTypes, MaybeScan
<1>3. /\ outcome' \in [Scans -> Statuses \cup {"none"}]
      /\ outcome' = [outcome EXCEPT ![m] = "none"] /\ mine' = [mine EXCEPT ![t] = None]
      /\ Goto(t, "idle")
  BY <1>1, <1>2 DEF Drop, ScanTypes
<1>4. /\ \A n \in Scans : n # m => outcome'[n] = outcome[n]
      /\ outcome'[m] = "none"
  BY <1>1, <1>3 DEF ScanTypes
<1>5. mine' \in [Tasks -> MaybeScan] /\ mine'[t] = None /\ \A u \in Tasks : u = t
  BY <1>1, <1>3 DEF ScanTypes, MaybeScan, OneScanner
<1>6. /\ pc' \in [Actors -> CallerSteps \cup FinisherSteps] /\ pc'[t] = "idle"
      /\ \A a \in Finishers : pc'[a] = pc[a]
  BY <1>1, <1>3, StepMoves, ScanActors DEF CallerSteps
<1>7. heap' \subseteq heap
  OBVIOUS
<1>8. ScanTypes'
  BY <1>1, <1>3, <1>5, <1>6, <1>7 DEF ScanTypes, CallerSteps
<1>9. TakenApart'
  BY <1>6, ScanActors DEF ScanOwnerInv, TakenApart
<1>10. CallerHolds'
  BY <1>5, <1>6 DEF CallerHolds, Published
<1>11. \A n \in Scans : n # m => (Held(n) <=> Held(n)')
  BY <1>2, ScanActors DEF Held
<1>12. \A n \in Scans : outcome[n] # "none" => n = m
  BY <1>2, <1>5 DEF ScanOwnerInv, HeapOwned
<1>13. \A n \in Scans : outcome'[n] = "none"
  BY <1>4, <1>12
<1>14. m \in heap' <=> Held(m)'
  <2>1. m \in heap <=> (Held(m) \/ outcome[m] # "none")
    BY DEF ScanOwnerInv, HeapOwned
  <2>2. CASE outcome[m] # "none"
    <3>1. ~Held(m) /\ m \notin heap'
      BY <1>2, <2>2 DEF ScanOwnerInv, HeapOwned, InPromise
    <3> QED BY <3>1, ScanActors DEF Held
  <2>3. CASE outcome[m] = "none"
    <3>1. heap' = heap \ (IF session'.n = None THEN {session.n} ELSE {})
      BY <1>2, <2>3 DEF InPromise
    <3>2. CASE session'.n = None /\ session.n = m
      <4>1. m \notin heap' BY <3>1, <3>2
      <4>2. \A a \in Finishers : fin[a].n # m
        BY <3>2, ScanActors DEF ScanOwnerInv, TakenApart
      <4> QED BY <3>2, <4>1, <4>2, ScanActors DEF Held
    <3>3. CASE ~(session'.n = None /\ session.n = m)
      <4>1. m \in heap' <=> m \in heap BY <1>2, <3>1, <3>3, ScanActors
      <4>2. Held(m) <=> Held(m)' BY <1>2, <3>3, ScanActors DEF Held
      <4> QED BY <2>1, <2>3, <4>1, <4>2
    <3> QED BY <3>2, <3>3
  <2> QED BY <2>2, <2>3
<1>15. \A n \in Scans : n # m => (n \in heap' <=> n \in heap)
  BY <1>2, ScanActors DEF InPromise
<1>16. HeapOwned'
  BY <1>11, <1>12, <1>13, <1>14, <1>15 DEF ScanOwnerInv, HeapOwned
<1> QED BY <1>8, <1>9, <1>10, <1>16 DEF ScanOwnerInv

\* Unsent, Await and WalkAway let go of the promise.
LEMMA CallerEnds ==
    ASSUME ScanOwnerInv, OneScanner, NEW t \in Tasks, Unsent(t) \/ Await(t) \/ WalkAway(t)
    PROVE  ScanOwnerInv'
<1>1. session \in SessionType /\ session.n \in MaybeScan
  BY DEF ScanOwnerInv, ScanTypes, SessionType
<1>2. CASE Unsent(t)
  <2>1. session' \in SessionType /\ session'.n = None
    BY <1>1, <1>2 DEF Unsent, SessionType, MaybeScan
  <2>2. /\ pc[t] \in Published /\ Drop(t) /\ UNCHANGED <<begun, fin>>
        /\ heap' = heap \ ({session.n} \cup InPromise(t))
    BY <1>2 DEF Unsent, At, Published
  <2>3. heap' = (heap \ InPromise(t)) \ (IF session'.n = None THEN {session.n} ELSE {})
    BY <2>1, <2>2
  <2> QED BY <2>1, <2>2, <2>3, DropMoves
<1>3. CASE Await(t) \/ WalkAway(t)
  <2>1. /\ pc[t] \in Published /\ Drop(t) /\ UNCHANGED <<begun, fin, session>>
        /\ heap' = heap \ InPromise(t)
    BY <1>3 DEF Await, WalkAway, At, Published, InPromise
  <2>2. None \notin heap
    BY DEF ScanOwnerInv, ScanTypes, None
  <2>3. heap' = (heap \ InPromise(t)) \ (IF session'.n = None THEN {session.n} ELSE {})
    BY <2>1, <2>2
  <2>4. session' \in SessionType /\ session'.n = session.n
    BY <1>1, <2>1
  <2> QED BY <2>1, <2>3, <2>4, DropMoves
<1> QED BY <1>2, <1>3

\* Before the first scan nothing is allocated.
LEMMA ScanStarts == ScanInit => ScanOwnerInv
<1> SUFFICES ASSUME ScanInit PROVE ScanOwnerInv
  OBVIOUS
<1> DEFINE x == [n |-> None, status |-> "Ok"]
<1>1. /\ pc \in [Actors -> CallerSteps \cup FinisherSteps] /\ \A a \in Actors : pc[a] = "idle"
      /\ mine \in [Tasks -> MaybeScan] /\ \A t \in Tasks : mine[t] = None
      /\ outcome \in [Scans -> Statuses \cup {"none"}] /\ \A n \in Scans : outcome[n] = "none"
      /\ begun = 0 /\ heap = {}
  BY DEF ScanInit, CallerSteps, MaybeScan
<1>2. x \in TakenType /\ x.n = None
  BY DEF TakenType, MaybeScan, Statuses
<1> HIDE DEF x
<1>3. fin \in [Finishers -> TakenType] /\ \A a \in Finishers : fin[a].n = None
  BY <1>2 DEF ScanInit, x
<1>4. session \in SessionType /\ session.n = None
  BY DEF ScanInit, NoSession, SessionType, MaybeScan
<1>5. ScanTypes
  BY <1>1, <1>3, <1>4, ScanActors DEF ScanTypes, CallerSteps, FinisherSteps
<1>6. TakenApart
  BY <1>1, <1>3, <1>4, ScanActors DEF TakenApart
<1>7. HeapOwned
  BY <1>1, <1>3, <1>4, ScanActors DEF HeapOwned, Held
<1>8. CallerHolds
  BY <1>1, <1>4, ScanActors DEF CallerHolds, Published
<1> QED BY <1>5, <1>6, <1>7, <1>8 DEF ScanOwnerInv

\* The kmsg task and the timer.
LEMMA FinisherMoves ==
    ASSUME ScanOwnerInv, Kmsg \/ Timer
    PROVE  ScanOwnerInv'
<1>1. session \in SessionType
  BY DEF ScanOwnerInv, ScanTypes
<1>2. CASE Indication
  <2>1. session' \in SessionType /\ session'.n = session.n
    BY <1>1, <1>2 DEF Indication, SessionType
  <2>2. UNCHANGED <<pc, mine, begun, fin, outcome, heap>>
    BY <1>2 DEF Indication, call
  <2> QED BY <2>1, <2>2, OwnersStay DEF ScanOwnerInv, ScanTypes
<1>3. CASE SweepDone
  BY <1>3, TakeMoves, ScanActors DEF SweepDone, At, call, Statuses
<1>4. ASSUME NEW a \in Finishers, FinishStop(a) PROVE ScanOwnerInv'
  <2>1. /\ pc[a] = "stop" /\ Goto(a, "resolve") /\ session' = session
        /\ UNCHANGED <<mine, begun, fin, outcome, heap>>
    BY <1>4 DEF FinishStop, At, call
  <2> QED BY <1>1, <2>1, FinisherStays DEF FinisherSteps
<1>5. ASSUME NEW a \in Finishers, FinishResolve(a) PROVE ScanOwnerInv'
  BY <1>5, ResolveMoves
<1>6. CASE Expire
  <2>1. pc["timer"] = "idle" /\ UNCHANGED <<mine, begun, fin, outcome, heap>>
    BY <1>6 DEF Expire, At, call
  <2>2. CASE session.n = None
    <3>1. UNCHANGED <<pc, session>> BY <1>6, <2>2 DEF Expire
    <3> QED BY <1>1, <2>1, <3>1, OwnersStay DEF ScanOwnerInv, ScanTypes
  <2>3. CASE session.n # None
    <3>1. session' = [session EXCEPT !.cancelled = TRUE]
      BY <1>6, <2>3 DEF Expire
    <3>2. session' \in SessionType /\ session'.n = session.n
      BY <1>1, <3>1 DEF SessionType
    <3>3. Goto("timer", "giveup") \/ Goto("timer", "cancel")
      BY <1>6, <2>3 DEF Expire
    <3> QED BY <2>1, <3>2, <3>3, FinisherStays, ScanActors DEF FinisherSteps
  <2> QED BY <2>2, <2>3
<1>7. CASE Cancel
  <2>1. /\ pc["timer"] = "cancel" /\ UNCHANGED <<mine, begun, session, fin, outcome, heap>>
        /\ Goto("timer", "idle") \/ Goto("timer", "giveup")
    BY <1>7 DEF Cancel, At, call
  <2> QED BY <1>1, <2>1, FinisherStays, ScanActors DEF FinisherSteps
<1>8. CASE GiveUp
  BY <1>8, TakeMoves, ScanActors DEF GiveUp, At, call, Statuses
<1> QED BY <1>2, <1>3, <1>4, <1>5, <1>6, <1>7, <1>8, ScanActors DEF Kmsg, Timer

\* No step of a scan breaks the ownership of the results.
LEMMA ScanOwnerStep ==
    ASSUME OneScanner PROVE ScanOwnerInv /\ [ScanNext]_scanVars => ScanOwnerInv'
<1> SUFFICES ASSUME ScanOwnerInv, [ScanNext]_scanVars PROVE ScanOwnerInv'
  OBVIOUS
<1>1. ASSUME NEW t \in Tasks, Begin(t) \/ Continue(t) \/ WalkAway(t) PROVE ScanOwnerInv'
  <2>1. CASE Begin(t)
    BY <2>1, CallerStays DEF Begin, At, call, CallerSteps
  <2>2. CASE StartTimer(t)
    BY <2>2, CallerStays DEF StartTimer, At, call, CallerSteps, Published
  <2>3. CASE Send(t)
    <3>1. Goto(t, "await") \/ Goto(t, "unsent") BY <2>3 DEF Send
    <3> QED BY <2>3, <3>1, CallerStays DEF Send, At, call, CallerSteps, Published
  <2>4. CASE Publish(t) BY <2>4, PublishMoves
  <2>5. CASE Unsent(t) \/ Await(t) \/ WalkAway(t) BY <2>5, CallerEnds
  <2> QED BY <1>1, <2>1, <2>2, <2>3, <2>4, <2>5 DEF Continue
<1>2. CASE Kmsg \/ Timer
  BY <1>2, FinisherMoves
<1>3. CASE Deliver \/ Beacon \/ SweepEnds \/ UNCHANGED scanVars
  <2>1. UNCHANGED <<pc, mine, begun, session, fin, outcome, heap>>
    BY <1>3 DEF Deliver, Beacon, SweepEnds, scanVars, call
  <2> QED BY <2>1, OwnersStay DEF ScanOwnerInv, ScanTypes
<1> QED BY <1>1, <1>2, <1>3 DEF ScanNext

\* The ownership of the results holds always.
LEMMA ScanOwnerHolds == ASSUME OneScanner PROVE ScanSpec => []ScanOwnerInv
  BY ScanStarts, ScanOwnerStep, PTL DEF ScanSpec

\* "The result changes owner outright - from this frame to the session, and from
\* the session to the promise once the sweep ends": an allocated result has one owner
\* and an owner an allocated result, whatever the priorities, also when the request could
\* not be queued, the caller walked away, or the timer and the sweep's end met.
THEOREM ScanResultHasOneOwner == OneScanner => (ScanSpec => []ResultOwned)
<1> SUFFICES ASSUME OneScanner PROVE ScanSpec => []ResultOwned
  OBVIOUS
<1>1. ScanOwnerInv => ResultOwned
  <2> SUFFICES ASSUME ScanOwnerInv, NEW n \in Scans
               PROVE  Cardinality(Owners(n)) = IF n \in heap THEN 1 ELSE 0
    BY DEF ResultOwned
  <2>1. Holders(n) # {} <=> \E t \in Tasks : mine[t] = n
    BY DEF Holders
  <2>2. n # None BY ScanActors
  <2>3. CASE n \notin heap
    <3>1. ~Held(n) /\ outcome[n] = "none" BY <2>3 DEF ScanOwnerInv, HeapOwned
    <3>2. Owners(n) = {} BY <3>1 DEF Owners, Held
    <3> QED BY <2>3, <3>2, FS_EmptySet
  <2>4. CASE n \in heap
    <3>1. \E x : Owners(n) = {x}
      <4>1. CASE session.n = n
        <5>1. outcome[n] = "none" /\ \A a \in Finishers : fin[a].n # n
          BY <2>2, <4>1 DEF ScanOwnerInv, HeapOwned, TakenApart, Held
        <5>2. Owners(n) = {"session"} BY <4>1, <5>1 DEF Owners
        <5> QED BY <5>2
      <4>2. CASE \E a \in Finishers : fin[a].n = n
        <5>1. PICK a \in Finishers : fin[a].n = n BY <4>2
        <5>2. outcome[n] = "none" /\ session.n # n /\ \A b \in Finishers : b # a => fin[b].n # n
          BY <2>2, <5>1 DEF ScanOwnerInv, HeapOwned, TakenApart, Held
        <5>3. Owners(n) = {a} BY <5>1, <5>2 DEF Owners
        <5> QED BY <5>3
      <4>3. CASE ~Held(n)
        <5>1. outcome[n] # "none" /\ \E t \in Tasks : mine[t] = n
          BY <2>4, <4>3 DEF ScanOwnerInv, HeapOwned
        <5>2. Owners(n) = {"promise"} BY <2>1, <4>3, <5>1 DEF Owners, Held
        <5> QED BY <5>2
      <4> QED BY <4>1, <4>2, <4>3 DEF Held
    <3> QED BY <2>4, <3>1, FS_Singleton
  <2> QED BY <2>3, <2>4
<1> QED BY <1>1, ScanOwnerHolds, PTL

-----------------------------------------------------------------------------
(* The scan session: whose sweep a result is.                              *)

\* The timer task has the highest priority (configTIMER_TASK_PRIORITY): nothing happens
\* between its look at the session and the cancel it posts.
TimerFirst == \A a \in Actors \ {"timer"} : Rank["timer"] > Rank[a]

RequestMsg == [kind : {"scan", "cancel"}, n : MaybeScan]
ReportMsg  == [kind : {"ind", "cfm"}, n : MaybeScan]
SweepType  == [now : MaybeScan, saved : {<<>>}, stop : BOOLEAN]

\* The scan requests among the messages to the LMAC.
Asked(q) == {i \in 1..Len(q) : q[i].kind = "scan"}

\* The LMAC has reported beacons only.
Unended(d) == \A i \in 1..Len(d) : d[i].kind = "ind"

\* At most one sweep is asked for, running or reported, and it is that of scan n.
OneSweep(q, l, d, n) ==
    /\ \A i \in Asked(q) :
          q[i].n = n /\ n # None /\ l.now = None /\ Unended(d) /\ \A j \in Asked(q) : j = i
    /\ l.now # None => (l.now = n /\ Unended(d))
    /\ \A i \in 1..Len(d) : d[i].n = n /\ n # None /\ (d[i].kind = "cfm" => i = Len(d))

\* A cancel meets the sweep of a session that is marked cancelled, or comes too early to
\* meet any.
CancelsMeet(q, l, s) ==
    /\ \A i \in 1..Len(q) : q[i].kind = "cancel" =>
          \/ s.n # None /\ s.cancelled
          \/ l.now = None /\ \A j \in Asked(q) : i < j
    /\ l.stop => (l.now # None /\ s.cancelled)

\* A reported end is that of a complete sweep, unless the session is marked cancelled.
EndsKnown(d, s, w) == \A i \in 1..Len(d) : d[i].kind = "cfm" => (s.cancelled \/ d[i].n \in w)

SweepLine(q, l, d, s, w) == OneSweep(q, l, d, s.n) /\ CancelsMeet(q, l, s) /\ EndsKnown(d, s, w)

\* The LMAC has nothing to do with a scan.
NoSweep(q, l, d) == Asked(q) = {} /\ l.now = None /\ ~l.stop /\ d = <<>>

SweepTypes ==
    /\ requests \in Seq(RequestMsg) /\ lmac \in SweepType /\ inds \in Seq(ReportMsg)
    /\ found \in [Scans -> SUBSET MaybeScan]

\* The verdicts so far: a good one is that of a complete sweep.
Verdicts ==
    /\ \A n \in Scans : found[n] \subseteq {n}
    /\ \A n \in Scans : outcome[n] \in {"Ok", "Partial"} => n \in swept
    /\ \A a \in Finishers :
          (fin[a].n # None /\ fin[a].status \in {"Ok", "Partial"}) => fin[a].n \in swept

\* The timer works on a session that it has marked.
TimerMarks == pc["timer"] \in {"cancel", "giveup"} => (session.n # None /\ session.cancelled)

\* Until its request is posted a caller's session is its own and the LMAC knows of no scan.
NotAsked ==
    \A t \in Tasks :
        /\ pc[t] \in {"time", "send", "unsent"} => NoSweep(requests, lmac, inds)
        /\ pc[t] \in {"time", "send"} => session.n = mine[t]

SweepOk ==
    /\ SweepTypes /\ SweepLine(requests, lmac, inds, session, swept)
    /\ Verdicts /\ TimerMarks /\ NotAsked

\* All of it while no scan was given up on.
SweepInv == givenUp = {} => SweepOk

\* Messages of a queue behind the first, and one more behind all.
LEMMA LineTail ==
    ASSUME NEW S, NEW q \in Seq(S), q # <<>>
    PROVE  /\ Tail(q) \in Seq(S) /\ Head(q) \in S /\ Head(q) = q[1] /\ 1 \in 1..Len(q)
           /\ Len(q) \in Nat /\ Len(Tail(q)) = Len(q) - 1
           /\ \A i \in 1..Len(Tail(q)) : Tail(q)[i] = q[i + 1] /\ i + 1 \in 1..Len(q)
OBVIOUS

\* The same for a message put last.
LEMMA LineAppend ==
    ASSUME NEW S, NEW q \in Seq(S), NEW m \in S
    PROVE  /\ Append(q, m) \in Seq(S) /\ Len(q) \in Nat /\ Len(Append(q, m)) = Len(q) + 1
           /\ \A i \in 1..Len(q) : Append(q, m)[i] = q[i]
           /\ Append(q, m)[Len(q) + 1] = m
OBVIOUS

\* Without a session there is no sweep.
LEMMA NoSessionNoSweep ==
    ASSUME NEW q \in Seq(RequestMsg), NEW l \in SweepType, NEW d \in Seq(ReportMsg),
           NEW s \in SessionType, NEW w, SweepLine(q, l, d, s, w), s.n = None
    PROVE  NoSweep(q, l, d)
<1>1. Asked(q) = {} /\ l.now = None
  BY DEF SweepLine, OneSweep
<1>2. ~l.stop
  BY <1>1 DEF SweepLine, CancelsMeet
<1>3. d = <<>>
  <2>1. \A i \in 1..Len(d) : FALSE
    BY DEF SweepLine, OneSweep
  <2>2. CASE d # <<>>
    BY <2>1, <2>2, LineTail
  <2> QED BY <2>2
<1> QED BY <1>1, <1>2, <1>3 DEF NoSweep

\* Without a sweep any session will do.
LEMMA NoSweepAnySession ==
    ASSUME NEW q \in Seq(RequestMsg), NEW l, NEW d, NEW s, NEW w, NoSweep(q, l, d)
    PROVE  SweepLine(q, l, d, s, w)
<1>1. Len(d) = 0 /\ 1..Len(d) = {}
  BY DEF NoSweep
<1>2. OneSweep(q, l, d, s.n)
  BY <1>1 DEF NoSweep, OneSweep
<1>3. CancelsMeet(q, l, s)
  BY DEF NoSweep, CancelsMeet
<1>4. EndsKnown(d, s, w)
  BY <1>1 DEF EndsKnown
<1> QED BY <1>2, <1>3, <1>4 DEF SweepLine

\* Marking the session loses nothing.
LEMMA MarkedLine ==
    ASSUME NEW q, NEW l, NEW d, NEW s \in SessionType, NEW w, SweepLine(q, l, d, s, w),
           NEW z \in SessionType, z.n = s.n, s.cancelled => z.cancelled
    PROVE  SweepLine(q, l, d, z, w)
  BY DEF SweepLine, OneSweep, CancelsMeet, EndsKnown

\* A report is handled.
LEMMA ReportHandled ==
    ASSUME NEW q \in Seq(RequestMsg), NEW l \in SweepType, NEW d \in Seq(ReportMsg), d # <<>>,
           NEW s \in SessionType, NEW w, SweepLine(q, l, d, s, w)
    PROVE  /\ SweepLine(q, l, Tail(d), s, w)
           /\ Head(d).n = s.n /\ s.n # None
           /\ Head(d).kind = "cfm" => NoSweep(q, l, Tail(d)) /\ (s.cancelled \/ s.n \in w)
<1> DEFINE t == Tail(d)
<1>1. /\ t \in Seq(ReportMsg) /\ Head(d) = d[1] /\ 1 \in 1..Len(d) /\ Len(d) \in Nat /\ Len(t) = Len(d) - 1
      /\ \A i \in 1..Len(t) : t[i] = d[i + 1] /\ i + 1 \in 1..Len(d)
  BY LineTail
<1> HIDE DEF t
<1>2. Head(d).n = s.n /\ s.n # None
  BY <1>1 DEF SweepLine, OneSweep
<1>3. Unended(d) => Unended(t)
  BY <1>1 DEF Unended
<1>4. OneSweep(q, l, t, s.n)
  <2>1. \A i \in 1..Len(t) : t[i].n = s.n /\ (t[i].kind = "cfm" => i = Len(t))
    <3> SUFFICES ASSUME NEW i \in 1..Len(t)
                 PROVE  t[i].n = s.n /\ (t[i].kind = "cfm" => i = Len(t))
      OBVIOUS
    <3>1. t[i].n = s.n /\ (t[i].kind = "cfm" => i + 1 = Len(d))
      BY <1>1 DEF SweepLine, OneSweep
    <3> QED BY <1>1, <3>1
  <2> QED BY <1>2, <1>3, <2>1 DEF SweepLine, OneSweep
<1>5. EndsKnown(t, s, w)
  BY <1>1 DEF SweepLine, EndsKnown
<1>6. ASSUME Head(d).kind = "cfm" PROVE NoSweep(q, l, t) /\ (s.cancelled \/ s.n \in w)
  <2>1. ~Unended(d) /\ Len(d) = 1
    BY <1>1, <1>6 DEF Unended, SweepLine, OneSweep
  <2>2. Asked(q) = {} /\ l.now = None
    BY <2>1 DEF SweepLine, OneSweep
  <2>3. ~l.stop
    BY <2>2 DEF SweepLine, CancelsMeet
  <2>4. t = <<>> BY <1>1, <2>1
  <2>5. s.cancelled \/ s.n \in w
    BY <1>1, <1>2, <1>6 DEF SweepLine, EndsKnown
  <2> QED BY <2>2, <2>3, <2>4, <2>5 DEF NoSweep
<1> QED BY <1>2, <1>4, <1>5, <1>6 DEF SweepLine, t

\* A scan is asked for.
LEMMA ScanPosted ==
    ASSUME NEW q \in Seq(RequestMsg), NEW l \in SweepType, NEW d \in Seq(ReportMsg),
           NEW s \in SessionType, NEW w, NoSweep(q, l, d), s.n # None,
           NEW m \in RequestMsg, m.kind = "scan", m.n = s.n
    PROVE  SweepLine(Append(q, m), l, d, s, w)
<1> DEFINE t == Append(q, m)
<1>1. /\ t \in Seq(RequestMsg) /\ Len(q) \in Nat /\ Len(t) = Len(q) + 1
      /\ \A i \in 1..Len(q) : t[i] = q[i]
      /\ t[Len(q) + 1] = m
  BY LineAppend
<1> HIDE DEF t
<1>2. Asked(t) = {Len(q) + 1}
  BY <1>1 DEF NoSweep, Asked
<1>3. Len(d) = 0 /\ 1..Len(d) = {}
  BY DEF NoSweep
<1>4. OneSweep(t, l, d, s.n)
  BY <1>1, <1>2, <1>3 DEF OneSweep, NoSweep, Unended
<1>5. CancelsMeet(t, l, s)
  BY <1>1, <1>2 DEF CancelsMeet, NoSweep
<1>6. EndsKnown(d, s, w)
  BY <1>3 DEF EndsKnown
<1> QED BY <1>4, <1>5, <1>6 DEF SweepLine, t

\* A cancel is posted for a session that is marked.
LEMMA CancelPosted ==
    ASSUME NEW q \in Seq(RequestMsg), NEW l \in SweepType, NEW d \in Seq(ReportMsg),
           NEW s \in SessionType, NEW w, SweepLine(q, l, d, s, w), s.n # None, s.cancelled,
           NEW m \in RequestMsg, m.kind = "cancel"
    PROVE  /\ SweepLine(Append(q, m), l, d, s, w)
           /\ Asked(Append(q, m)) = Asked(q)
<1> DEFINE t == Append(q, m)
<1>1. /\ t \in Seq(RequestMsg) /\ Len(q) \in Nat /\ Len(t) = Len(q) + 1
      /\ \A i \in 1..Len(q) : t[i] = q[i]
      /\ t[Len(q) + 1] = m
  BY LineAppend
<1> HIDE DEF t
<1>2. Asked(t) = Asked(q) /\ \A i \in Asked(q) : t[i] = q[i]
  BY <1>1 DEF Asked
<1>3. OneSweep(t, l, d, s.n)
  BY <1>2 DEF SweepLine, OneSweep
<1>4. CancelsMeet(t, l, s)
  BY DEF SweepLine, CancelsMeet
<1> QED BY <1>2, <1>3, <1>4 DEF SweepLine, t

\* The LMAC takes a request: a scan starts, or a cancel stops the sweep that runs.
LEMMA RequestTaken ==
    ASSUME NEW q \in Seq(RequestMsg), NEW l \in SweepType, NEW d \in Seq(ReportMsg), q # <<>>,
           NEW s \in SessionType, NEW w, SweepLine(q, l, d, s, w),
           NEW k \in SweepType,
           IF Head(q).kind = "cancel" THEN k.now = l.now /\ (k.stop <=> l.now # None)
           ELSE k.now = Head(q).n /\ k.stop = l.stop
    PROVE  /\ SweepLine(Tail(q), k, d, s, w)
           /\ NoSweep(q, l, d) => NoSweep(Tail(q), k, d)
<1> DEFINE t == Tail(q)
<1>1. /\ t \in Seq(RequestMsg) /\ Head(q) = q[1] /\ Head(q) \in RequestMsg /\ 1 \in 1..Len(q)
      /\ Len(q) \in Nat /\ Len(t) = Len(q) - 1
      /\ \A i \in 1..Len(t) : t[i] = q[i + 1] /\ i + 1 \in 1..Len(q)
  BY LineTail
<1> HIDE DEF t
<1>2. \A i \in Asked(t) : i \in 1..Len(t) /\ t[i] = q[i + 1] /\ i + 1 \in Asked(q)
  BY <1>1 DEF Asked
<1>3. CASE Head(q).kind = "cancel"
  <2>1. k.now = l.now /\ (k.stop <=> l.now # None)
    BY <1>3
  <2>2. \A i, j \in Asked(t) : i + 1 = j + 1 => i = j
    BY <1>2
  <2>3. OneSweep(t, k, d, s.n)
    BY <1>2, <2>1, <2>2 DEF SweepLine, OneSweep
  <2>4. \A i \in 1..Len(t) : t[i].kind = "cancel" =>
          \/ s.n # None /\ s.cancelled
          \/ k.now = None /\ \A j \in Asked(t) : i < j
    <3> SUFFICES ASSUME NEW i \in 1..Len(t), t[i].kind = "cancel", ~(s.n # None /\ s.cancelled)
                 PROVE  k.now = None /\ \A j \in Asked(t) : i < j
      OBVIOUS
    <3>1. l.now = None /\ \A j \in Asked(q) : i + 1 < j
      BY <1>1 DEF SweepLine, CancelsMeet
    <3> QED BY <1>2, <2>1, <3>1
  <2>5. k.stop => (k.now # None /\ s.cancelled)
    BY <1>1, <1>3, <2>1 DEF SweepLine, CancelsMeet
  <2>6. NoSweep(q, l, d) => NoSweep(t, k, d)
    BY <1>2, <2>1 DEF NoSweep
  <2> QED BY <2>3, <2>4, <2>5, <2>6 DEF SweepLine, CancelsMeet, t
<1>4. CASE Head(q).kind = "scan"
  <2>1. k.now = Head(q).n /\ k.stop = l.stop
    BY <1>4
  <2>2. 1 \in Asked(q)
    BY <1>1, <1>4 DEF Asked
  <2>3. k.now = s.n /\ s.n # None /\ l.now = None /\ Unended(d) /\ \A j \in Asked(q) : j = 1
    BY <1>1, <2>1, <2>2 DEF SweepLine, OneSweep
  <2>4. Asked(t) = {}
    BY <1>2, <2>3
  <2>5. OneSweep(t, k, d, s.n)
    BY <2>3, <2>4 DEF SweepLine, OneSweep
  <2>6. ASSUME NEW i \in 1..Len(t), t[i].kind = "cancel" PROVE s.n # None /\ s.cancelled
    <3>1. (s.n # None /\ s.cancelled) \/ i + 1 < 1
      BY <1>1, <2>2, <2>6 DEF SweepLine, CancelsMeet
    <3> QED BY <3>1
  <2>7. ~l.stop
    BY <2>3 DEF SweepLine, CancelsMeet
  <2>8. CancelsMeet(t, k, s)
    BY <2>1, <2>6, <2>7 DEF CancelsMeet
  <2>9. ~NoSweep(q, l, d)
    BY <2>2 DEF NoSweep
  <2> QED BY <2>5, <2>8, <2>9 DEF SweepLine, t
<1> QED BY <1>1, <1>3, <1>4 DEF RequestMsg

\* The sweep that runs reports a beacon or its end.
LEMMA SweepReports ==
    ASSUME NEW q \in Seq(RequestMsg), NEW l \in SweepType, NEW d \in Seq(ReportMsg),
           NEW s \in SessionType, NEW w, SweepLine(q, l, d, s, w), l.now # None,
           NEW m \in ReportMsg, m.n = l.now, NEW k \in SweepType, NEW y,
           \/ m.kind = "ind" /\ k = l /\ y = w
           \/ m.kind = "cfm" /\ k.now = None /\ ~k.stop /\ y = IF l.stop THEN w ELSE w \cup {l.now}
    PROVE  SweepLine(q, k, Append(d, m), s, y)
<1> DEFINE t == Append(d, m)
<1>1. /\ t \in Seq(ReportMsg) /\ Len(d) \in Nat /\ Len(t) = Len(d) + 1
      /\ \A i \in 1..Len(d) : t[i] = d[i]
      /\ t[Len(d) + 1] = m
  BY LineAppend
<1> HIDE DEF t
<1>2. l.now = s.n /\ s.n # None /\ Unended(d) /\ Asked(q) = {}
  BY DEF SweepLine, OneSweep
<1>3. \A i \in 1..Len(t) : t[i].n = s.n /\ (t[i].kind = "cfm" => i = Len(t) /\ m.kind = "cfm")
  BY <1>1, <1>2 DEF Unended, SweepLine, OneSweep
<1>4. \A i \in 1..Len(q) : q[i].kind = "cancel" => s.n # None /\ s.cancelled
  BY DEF SweepLine, CancelsMeet
<1>5. CASE m.kind = "ind" /\ k = l /\ y = w
  <2>1. Unended(t)
    BY <1>1, <1>2, <1>5 DEF Unended
  <2>2. OneSweep(q, k, t, s.n)
    BY <1>2, <1>3, <1>5, <2>1 DEF OneSweep
  <2>3. EndsKnown(t, s, y)
    BY <1>3, <1>5 DEF EndsKnown
  <2> QED BY <1>5, <2>2, <2>3 DEF SweepLine, t
<1>6. CASE m.kind = "cfm" /\ k.now = None /\ ~k.stop /\ y = IF l.stop THEN w ELSE w \cup {l.now}
  <2>1. OneSweep(q, k, t, s.n)
    BY <1>2, <1>3, <1>6 DEF OneSweep
  <2>2. CancelsMeet(q, k, s)
    BY <1>4, <1>6 DEF CancelsMeet
  <2>3. s.cancelled \/ s.n \in y
    <3>1. CASE l.stop BY <3>1 DEF SweepLine, CancelsMeet
    <3>2. CASE ~l.stop BY <1>2, <1>6, <3>2
    <3> QED BY <3>1, <3>2
  <2>4. EndsKnown(t, s, y)
    BY <1>3, <2>3 DEF EndsKnown
  <2> QED BY <2>1, <2>2, <2>4 DEF SweepLine, t
<1> QED BY <1>5, <1>6

\* No task comes between the steps of the timer.
LEMMA TimerAlone ==
    ASSUME TimerFirst, NEW a \in Actors, a # "timer", NEW l, At(a, l)
    PROVE  pc["timer"] \notin {"cancel", "giveup"}
<1>1. Waits("timer")
  BY ScanActors DEF TimerFirst, At
<1> QED BY <1>1 DEF Waits

\* The timer's step is its own.
LEMMA TimerSame ==
    ASSUME TimerMarks, pc'["timer"] = pc["timer"], session'.n = session.n, session.cancelled => session'.cancelled
    PROVE  TimerMarks'
  BY DEF TimerMarks

\* Steps that neither ask for a sweep nor handle a report.
LEMMA SweepStays ==
    ASSUME ScanOwnerInv, SweepOk, UNCHANGED <<requests, lmac, inds, swept, found>>,
           session' \in SessionType, session'.n = session.n, session.cancelled => session'.cancelled,
           \A n \in Scans : outcome'[n] \in {"Ok", "Partial"} => n \in swept,
           \A a \in Finishers :
              (fin'[a].n # None /\ fin'[a].status \in {"Ok", "Partial"}) => fin'[a].n \in swept,
           TimerMarks',
           \A t \in Tasks :
              /\ pc'[t] \in {"time", "send", "unsent"} => pc[t] \in {"time", "send", "unsent"}
              /\ pc'[t] \in {"time", "send"} => pc[t] \in {"time", "send"} /\ mine'[t] = mine[t]
    PROVE  SweepOk'
<1>1. SweepTypes'
  BY DEF SweepOk, SweepTypes
<1>2. SweepLine(requests, lmac, inds, session', swept)
  <2>1. session \in SessionType BY DEF ScanOwnerInv, ScanTypes
  <2>2. PICK s \in SessionType : s = session BY <2>1
  <2>3. PICK z \in SessionType : z = session' OBVIOUS
  <2>4. SweepLine(requests, lmac, inds, s, swept) /\ z.n = s.n /\ (s.cancelled => z.cancelled)
    BY <2>2, <2>3 DEF SweepOk
  <2>5. SweepLine(requests, lmac, inds, z, swept)
    BY <2>4, MarkedLine
  <2> QED BY <2>3, <2>5
<1>3. SweepLine(requests, lmac, inds, session, swept)'
  BY <1>2
<1>4. Verdicts'
  BY DEF SweepOk, Verdicts
<1>5. NotAsked'
  BY DEF SweepOk, NotAsked
<1> QED BY <1>1, <1>3, <1>4, <1>5 DEF SweepOk

\* Steps of the caller that neither ask for a sweep nor handle a report.
LEMMA CallerSweepStays ==
    ASSUME ScanOwnerInv, SweepOk, UNCHANGED <<session, fin, requests, lmac, inds, swept, found>>,
           NEW t \in Tasks, NEW l \in CallerSteps, Goto(t, l),
           \A n \in Scans : outcome'[n] \in {"Ok", "Partial"} => outcome'[n] = outcome[n],
           \A u \in Tasks : u # t => mine'[u] = mine[u],
           l \in {"time", "send"} => pc[t] \in {"time", "send"} /\ mine'[t] = mine[t],
           l = "unsent" => pc[t] \in {"time", "send", "unsent"}
    PROVE  SweepOk'
<1>1. ScanTypes /\ t \in Actors /\ l \in CallerSteps \cup FinisherSteps
  BY ScanActors DEF ScanOwnerInv
<1>2. /\ pc' \in [Actors -> CallerSteps \cup FinisherSteps] /\ pc'[t] = l
      /\ \A b \in Actors : b # t => pc'[b] = pc[b]
  BY <1>1, StepMoves
<1>3. pc'["timer"] = pc["timer"]
  BY <1>2, ScanActors
<1>4. session' \in SessionType /\ session'.n = session.n /\ (session.cancelled => session'.cancelled)
  BY <1>1 DEF ScanTypes
<1>5. TimerMarks'
  BY <1>3, <1>4, TimerSame DEF SweepOk
<1>6. \A u \in Tasks :
        /\ pc'[u] \in {"time", "send", "unsent"} => pc[u] \in {"time", "send", "unsent"}
        /\ pc'[u] \in {"time", "send"} => pc[u] \in {"time", "send"} /\ mine'[u] = mine[u]
  BY <1>2, ScanActors
<1>7. /\ \A n \in Scans : outcome'[n] \in {"Ok", "Partial"} => n \in swept
      /\ \A a \in Finishers :
            (fin'[a].n # None /\ fin'[a].status \in {"Ok", "Partial"}) => fin'[a].n \in swept
  BY DEF SweepOk, Verdicts
<1> QED BY <1>4, <1>5, <1>6, <1>7, SweepStays

\* A caller that lets go of its promise leaves the other verdicts alone.
LEMMA DropVerdicts ==
    ASSUME ScanOwnerInv, NEW t \in Tasks, pc[t] \in Published, Drop(t)
    PROVE  \A n \in Scans : outcome'[n] \in {"Ok", "Partial"} => outcome'[n] = outcome[n]
<1>1. mine[t] \in Scans /\ outcome \in [Scans -> Statuses \cup {"none"}]
  BY DEF ScanOwnerInv, CallerHolds, ScanTypes, MaybeScan
<1>2. outcome' = [outcome EXCEPT ![mine[t]] = "none"]
  BY DEF Drop
<1> QED BY <1>1, <1>2

\* A new session finds an LMAC that knows of no scan.
LEMMA PublishSweep ==
    ASSUME ScanOwnerInv, OneScanner, TimerFirst, SweepOk, NEW t \in Tasks, Publish(t)
    PROVE  SweepOk'
<1>1. ScanTypes /\ t \in Actors /\ t # "timer"
  BY ScanActors DEF ScanOwnerInv
<1>2. /\ pc[t] = "publish" /\ begun < MaxScans
      /\ UNCHANGED <<fin, outcome, requests, lmac, inds, swept, found>>
  BY DEF Publish, At, chip, seen
<1>3. CASE Goto(t, "idle") /\ UNCHANGED <<call, session, heap>>
  BY <1>2, <1>3, CallerSweepStays DEF call, CallerSteps
<1>4. CASE /\ begun' = begun + 1 /\ mine' = [mine EXCEPT ![t] = begun + 1]
           /\ session' = [NoSession EXCEPT !.n = begun + 1]
           /\ heap' = heap \cup {begun + 1} /\ Goto(t, "time")
  <2>1. session'.n = mine'[t]
    BY <1>1, <1>4 DEF ScanTypes, NoSession
  <2>2. /\ pc' \in [Actors -> CallerSteps \cup FinisherSteps] /\ pc'[t] = "time"
        /\ pc'["timer"] = pc["timer"] /\ \A u \in Tasks : u = t
    BY <1>1, <1>4, StepMoves, ScanActors DEF CallerSteps, Published, OneScanner
  <2>3. NoSweep(requests, lmac, inds)
    <3>1. PICK s \in SessionType : s = session BY <1>1 DEF ScanTypes
    <3>2. s.n = None
      BY <1>2, <3>1 DEF ScanOwnerInv, CallerHolds
    <3>3. SweepLine(requests, lmac, inds, s, swept) BY <3>1 DEF SweepOk
    <3> QED BY <3>2, <3>3, NoSessionNoSweep DEF SweepOk, SweepTypes
  <2>4. SweepLine(requests, lmac, inds, session', swept)
    BY <2>3, NoSweepAnySession DEF SweepOk, SweepTypes
  <2>5. SweepLine(requests, lmac, inds, session, swept)' /\ NoSweep(requests, lmac, inds)'
    BY <1>2, <2>3, <2>4
  <2>6. pc["timer"] \notin {"cancel", "giveup"}
    BY <1>1, TimerAlone DEF Publish
  <2>7. TimerMarks'
    BY <2>2, <2>6 DEF TimerMarks
  <2>8. NotAsked'
    BY <2>1, <2>2, <2>5 DEF NotAsked
  <2>9. SweepTypes' /\ Verdicts'
    BY <1>2 DEF SweepOk, SweepTypes, Verdicts
  <2> QED BY <2>5, <2>7, <2>8, <2>9 DEF SweepOk
<1> QED BY <1>3, <1>4 DEF Publish

\* The request is posted, or could not be.
LEMMA SendSweep ==
    ASSUME ScanOwnerInv, OneScanner, SweepOk, NEW t \in Tasks, Send(t)
    PROVE  SweepOk'
<1>1. ScanTypes /\ t \in Actors /\ t # "timer"
  BY ScanActors DEF ScanOwnerInv
<1>2. /\ pc[t] = "send" /\ UNCHANGED <<mine, session, fin, outcome, lmac, inds, swept, found>>
  BY DEF Send, At, call, seen
<1>3. CASE Goto(t, "unsent") /\ UNCHANGED requests
  BY <1>2, <1>3, CallerSweepStays DEF CallerSteps, Published
<1> DEFINE m == [kind |-> "scan", n |-> mine[t]]
<1>4. CASE requests' = Append(requests, m) /\ Goto(t, "await")
  <2>1. PICK s \in SessionType : s = session BY <1>1 DEF ScanTypes
  <2>2. s.n = mine[t] /\ s.n # None /\ NoSweep(requests, lmac, inds)
    BY <1>2, <2>1 DEF SweepOk, NotAsked, ScanOwnerInv, CallerHolds, Published
  <2>3. m \in RequestMsg /\ m.kind = "scan" /\ m.n = s.n
    BY <1>1, <2>2 DEF RequestMsg, ScanTypes
  <2> HIDE DEF m
  <2>4. SweepLine(Append(requests, m), lmac, inds, s, swept)
    BY <2>2, <2>3, ScanPosted DEF SweepOk, SweepTypes
  <2>5. SweepLine(requests, lmac, inds, session, swept)'
    BY <1>2, <1>4, <2>1, <2>4
  <2>6. requests' \in Seq(RequestMsg)
    BY <1>4, <2>3 DEF SweepOk, SweepTypes
  <2>7. /\ pc' \in [Actors -> CallerSteps \cup FinisherSteps] /\ pc'[t] = "await"
        /\ pc'["timer"] = pc["timer"] /\ \A u \in Tasks : u = t
    BY <1>1, <1>4, StepMoves, ScanActors DEF CallerSteps, Published, OneScanner
  <2>8. TimerMarks'
    BY <1>2, <2>7, TimerSame DEF SweepOk
  <2>9. NotAsked'
    BY <2>7 DEF NotAsked
  <2>10. SweepTypes' /\ Verdicts'
    BY <1>2, <2>6 DEF SweepOk, SweepTypes, Verdicts
  <2> QED BY <2>5, <2>8, <2>9, <2>10 DEF SweepOk
<1> QED BY <1>3, <1>4 DEF Send

\* A session whose request could not be posted is emptied, and no sweep is lost.
LEMMA UnsentSweep ==
    ASSUME ScanOwnerInv, OneScanner, TimerFirst, SweepOk, NEW t \in Tasks, Unsent(t)
    PROVE  SweepOk'
<1>1. ScanTypes /\ t \in Actors /\ t # "timer"
  BY ScanActors DEF ScanOwnerInv
<1>2. pc[t] = "unsent" /\ Drop(t) /\ Goto(t, "idle") /\ UNCHANGED <<fin, requests, lmac, inds, swept, found>>
  BY DEF Unsent, Drop, At, chip, seen
<1>3. NoSweep(requests, lmac, inds)
  BY <1>2 DEF SweepOk, NotAsked
<1>4. SweepLine(requests, lmac, inds, session', swept)
  BY <1>3, NoSweepAnySession DEF SweepOk, SweepTypes
<1>5. SweepLine(requests, lmac, inds, session, swept)'
  BY <1>2, <1>4
<1>6. /\ pc' \in [Actors -> CallerSteps \cup FinisherSteps] /\ pc'[t] = "idle"
      /\ pc'["timer"] = pc["timer"] /\ \A u \in Tasks : u = t
  BY <1>1, <1>2, StepMoves, ScanActors DEF CallerSteps, OneScanner
<1>7. pc["timer"] \notin {"cancel", "giveup"}
  BY <1>1, TimerAlone DEF Unsent
<1>8. TimerMarks' /\ NotAsked'
  BY <1>6, <1>7 DEF TimerMarks, NotAsked
<1>9. \A n \in Scans : outcome'[n] \in {"Ok", "Partial"} => outcome'[n] = outcome[n]
  BY <1>2, DropVerdicts DEF Published
<1>10. SweepTypes' /\ Verdicts'
  BY <1>2, <1>9 DEF SweepOk, SweepTypes, Verdicts
<1> QED BY <1>5, <1>8, <1>10 DEF SweepOk

\* A beacon is filed in the result of the scan whose sweep found it.
LEMMA IndicationSweep ==
    ASSUME ScanOwnerInv, SweepOk, Indication
    PROVE  SweepOk'
<1>1. ScanTypes /\ SweepTypes
  BY DEF ScanOwnerInv, SweepOk
<1>2. /\ inds # <<>> /\ inds' = Tail(inds)
      /\ UNCHANGED <<pc, mine, fin, outcome, requests, lmac, swept>>
  BY DEF Indication, call, chip
<1>3. PICK failed \in BOOLEAN :
        /\ session' = IF session.n = None THEN session
                      ELSE [session EXCEPT !.dropped = @ \/ failed]
        /\ found' = IF session.n = None \/ failed THEN found
                    ELSE [found EXCEPT ![session.n] = @ \cup {Head(inds).n}]
  BY DEF Indication
<1>4. session' \in SessionType /\ session'.n = session.n /\ session'.cancelled = session.cancelled
  BY <1>1, <1>3 DEF ScanTypes, SessionType
<1>5. PICK s \in SessionType : s = session BY <1>1 DEF ScanTypes
<1>6. PICK z \in SessionType : z = session' BY <1>4
<1>7. PICK d \in Seq(ReportMsg) : d = inds BY <1>1 DEF SweepTypes
<1>8. SweepLine(requests, lmac, d, s, swept) /\ d # <<>>
  BY <1>2, <1>5, <1>7 DEF SweepOk
<1>9. SweepLine(requests, lmac, Tail(d), s, swept) /\ Head(d).n = s.n /\ s.n # None
  BY <1>1, <1>8, ReportHandled DEF SweepTypes
<1>10. SweepLine(requests, lmac, Tail(d), z, swept)
  BY <1>4, <1>5, <1>6, <1>9, MarkedLine
<1>11. SweepLine(requests, lmac, inds, session, swept)'
  BY <1>2, <1>6, <1>7, <1>10
<1>12. inds' \in Seq(ReportMsg)
  BY <1>1, <1>2 DEF SweepTypes
<1>13. found' \in [Scans -> SUBSET MaybeScan] /\ \A n \in Scans : found'[n] \subseteq {n}
  <2>1. s.n \in Scans BY <1>9 DEF SessionType, MaybeScan
  <2>2. found' = found \/ found' = [found EXCEPT ![s.n] = @ \cup {s.n}]
    BY <1>3, <1>5, <1>7, <1>9
  <2>3. found \in [Scans -> SUBSET MaybeScan] /\ \A n \in Scans : found[n] \subseteq {n}
    BY <1>1 DEF SweepOk, SweepTypes, Verdicts
  <2>4. PICK n \in Scans : n = s.n BY <2>1
  <2> QED BY <2>2, <2>3, <2>4 DEF MaybeScan
<1>14. SweepTypes'
  BY <1>1, <1>2, <1>12, <1>13 DEF SweepTypes
<1>15. Verdicts'
  BY <1>2, <1>13 DEF SweepOk, Verdicts
<1>16. TimerMarks'
  BY <1>2, <1>4, TimerSame DEF SweepOk
<1>17. \A t \in Tasks : pc[t] \notin {"time", "send", "unsent"}
  BY <1>2 DEF SweepOk, NotAsked, NoSweep
<1>18. NotAsked'
  BY <1>2, <1>17 DEF NotAsked
<1> QED BY <1>11, <1>14, <1>15, <1>16, <1>18 DEF SweepOk

\* The end of a sweep ends the scan it belongs to: a good verdict is that of a complete
\* sweep, and a sweep that was cancelled gets none.
LEMMA SweepDoneSweep ==
    ASSUME ScanOwnerInv, TimerFirst, SweepOk, SweepDone
    PROVE  SweepOk'
<1>1. ScanTypes /\ SweepTypes
  BY DEF ScanOwnerInv, SweepOk
<1>2. /\ inds # <<>> /\ inds' = Tail(inds) /\ Head(inds).kind = "cfm" /\ Take("kmsg", "Ok")
      /\ UNCHANGED <<mine, outcome, requests, lmac, swept, found>>
  BY DEF SweepDone, call, chip, seen
<1>3. PICK s \in SessionType : s = session BY <1>1 DEF ScanTypes
<1>4. PICK d \in Seq(ReportMsg) : d = inds BY <1>1 DEF SweepTypes
<1>5. SweepLine(requests, lmac, d, s, swept) /\ d # <<>> /\ Head(d).kind = "cfm"
  BY <1>2, <1>3, <1>4 DEF SweepOk
<1>6. /\ s.n # None /\ NoSweep(requests, lmac, Tail(d)) /\ (s.cancelled \/ s.n \in swept)
  BY <1>1, <1>5, ReportHandled DEF SweepTypes
<1> DEFINE x == [n |-> s.n, status |-> FinalStatus(s, "Ok")]
<1>7. fin' = [fin EXCEPT !["kmsg"] = x] /\ Goto("kmsg", "stop") /\ session' = NoSession
  BY <1>2, <1>3, <1>6 DEF Take
<1>8. x.n = s.n /\ (x.status \in {"Ok", "Partial"} => s.n \in swept)
  <2>1. CASE s.cancelled
    <3>1. x.status = "Timeout" BY <2>1 DEF FinalStatus
    <3> QED BY <3>1
  <2>2. CASE ~s.cancelled BY <1>6, <2>2
  <2> QED BY <2>1, <2>2
<1> HIDE DEF x
<1>9. fin'["kmsg"] = x /\ \A a \in Finishers : a # "kmsg" => fin'[a] = fin[a]
  BY <1>1, <1>7, ScanActors DEF ScanTypes
<1>10. Verdicts'
  BY <1>2, <1>8, <1>9 DEF SweepOk, Verdicts
<1>11. /\ \A t \in Tasks : pc'[t] = pc[t]
       /\ pc'["timer"] = pc["timer"]
  <2>1. \A b \in Actors : b # "kmsg" => pc'[b] = pc[b]
    BY <1>1, <1>7, StepMoves, ScanActors DEF FinisherSteps
  <2> QED BY <2>1, ScanActors
<1>12. pc["timer"] \notin {"cancel", "giveup"}
  BY TimerAlone, ScanActors DEF SweepDone
<1>13. TimerMarks'
  BY <1>11, <1>12 DEF TimerMarks
<1>14. \A t \in Tasks : pc[t] \notin {"time", "send", "unsent"}
  BY <1>2 DEF SweepOk, NotAsked, NoSweep
<1>15. NotAsked'
  BY <1>11, <1>14 DEF NotAsked
<1>16. SweepLine(requests, lmac, Tail(d), session', swept)
  BY <1>1, <1>6, NoSweepAnySession DEF SweepTypes
<1>17. SweepLine(requests, lmac, inds, session, swept)'
  BY <1>2, <1>4, <1>16
<1>18. SweepTypes'
  BY <1>1, <1>2 DEF SweepTypes
<1> QED BY <1>10, <1>13, <1>15, <1>17, <1>18 DEF SweepOk

\* A finisher hands its verdict over.
LEMMA FinishSweep ==
    ASSUME ScanOwnerInv, SweepOk, NEW a \in Finishers, FinishStop(a) \/ FinishResolve(a)
    PROVE  SweepOk'
<1>1. ScanTypes /\ a \in Actors
  BY ScanActors DEF ScanOwnerInv
<1>2. /\ pc[a] \in {"stop", "resolve"} /\ (Goto(a, "resolve") \/ Goto(a, "idle"))
      /\ UNCHANGED <<mine, session, requests, lmac, inds, swept, found>>
  BY DEF FinishStop, FinishResolve, At, call, chip, seen
<1>3. PICK l \in {"resolve", "idle"} : Goto(a, l)
  BY <1>2
<1>4. /\ pc'[a] = l /\ \A b \in Actors : b # a => pc'[b] = pc[b]
  BY <1>1, <1>3, StepMoves DEF FinisherSteps
<1>5. /\ \A t \in Tasks : pc'[t] = pc[t]
      /\ pc'["timer"] = pc["timer"] \/ pc'["timer"] \in {"resolve", "idle"}
  BY <1>4, ScanActors
<1>6. TimerMarks'
  BY <1>2, <1>5 DEF SweepOk, TimerMarks
<1>7. session' \in SessionType /\ session'.n = session.n /\ (session.cancelled => session'.cancelled)
  BY <1>1, <1>2 DEF ScanTypes
<1>8. /\ \A n \in Scans : outcome'[n] \in {"Ok", "Partial"} => n \in swept
      /\ \A b \in Finishers :
            (fin'[b].n # None /\ fin'[b].status \in {"Ok", "Partial"}) => fin'[b].n \in swept
  <2>1. CASE FinishStop(a)
    BY <2>1 DEF FinishStop, SweepOk, Verdicts
  <2>2. CASE FinishResolve(a)
    <3> DEFINE x == [n |-> None, status |-> "Ok"]
    <3>1. fin' = [fin EXCEPT ![a] = x] /\ x.n = None
      BY <2>2 DEF FinishResolve
    <3> HIDE DEF x
    <3>2. fin'[a] = x /\ \A b \in Finishers : b # a => fin'[b] = fin[b]
      BY <1>1, <3>1 DEF ScanTypes
    <3>3. pc[a] = "resolve"
      BY <2>2 DEF FinishResolve, At
    <3>4. PICK n \in Scans : n = fin[a].n
      BY <1>1, <3>3 DEF ScanOwnerInv, TakenApart, ScanTypes, TakenType, MaybeScan
    <3>5. fin[a].status \in {"Ok", "Partial"} => n \in swept
      BY <3>4, ScanActors DEF SweepOk, Verdicts
    <3>6. outcome' = outcome \/ outcome' = [outcome EXCEPT ![n] = fin[a].status]
      BY <2>2, <3>4 DEF FinishResolve
    <3>7. \A i \in Scans : outcome'[i] = outcome[i] \/ (i = n /\ outcome'[i] = fin[a].status)
      BY <1>1, <3>6 DEF ScanTypes
    <3> QED BY <3>1, <3>2, <3>5, <3>7 DEF SweepOk, Verdicts
  <2> QED BY <2>1, <2>2
<1>9. \A t \in Tasks : mine'[t] = mine[t]
  BY <1>2
<1> QED BY <1>2, <1>5, <1>6, <1>7, <1>8, <1>9, SweepStays

\* The timer marks the session before it cancels the sweep.
LEMMA ExpireSweep ==
    ASSUME ScanOwnerInv, SweepOk, Expire
    PROVE  SweepOk'
<1>1. ScanTypes /\ session \in SessionType
  BY DEF ScanOwnerInv, ScanTypes
<1>2. UNCHANGED <<mine, fin, outcome, requests, lmac, inds, swept, found>>
  BY DEF Expire, call, chip, seen
<1>3. /\ \A n \in Scans : outcome'[n] \in {"Ok", "Partial"} => n \in swept
      /\ \A b \in Finishers :
            (fin'[b].n # None /\ fin'[b].status \in {"Ok", "Partial"}) => fin'[b].n \in swept
  BY <1>2 DEF SweepOk, Verdicts
<1>4. CASE session.n = None
  <2>1. UNCHANGED <<pc, session>> BY <1>4 DEF Expire
  <2>2. TimerMarks' BY <2>1 DEF SweepOk, TimerMarks
  <2>3. session' \in SessionType /\ session'.n = session.n /\ (session.cancelled => session'.cancelled)
    BY <1>1, <2>1
  <2> QED BY <1>2, <1>3, <2>1, <2>2, <2>3, SweepStays
<1>5. CASE session.n # None
  <2>1. /\ session' = [session EXCEPT !.cancelled = TRUE]
        /\ Goto("timer", "giveup") \/ Goto("timer", "cancel")
    BY <1>5 DEF Expire
  <2>2. session' \in SessionType /\ session'.n = session.n /\ session'.cancelled
    BY <1>1, <2>1 DEF SessionType
  <2>3. PICK l \in {"giveup", "cancel"} : Goto("timer", l)
    BY <2>1
  <2>4. \A b \in Actors : b # "timer" => pc'[b] = pc[b]
    BY <1>1, <2>3, StepMoves, ScanActors DEF FinisherSteps
  <2>5. \A t \in Tasks : pc'[t] = pc[t]
    BY <2>4, ScanActors
  <2>6. TimerMarks'
    BY <1>5, <2>2 DEF TimerMarks
  <2> QED BY <1>2, <1>3, <2>2, <2>5, <2>6, SweepStays
<1> QED BY <1>4, <1>5

\* The cancel is posted, or could not be.
LEMMA CancelSweep ==
    ASSUME ScanOwnerInv, SweepOk, Cancel
    PROVE  SweepOk'
<1>1. ScanTypes /\ SweepTypes /\ session \in SessionType
  BY DEF ScanOwnerInv, ScanTypes, SweepOk
<1>2. /\ pc["timer"] = "cancel"
      /\ UNCHANGED <<mine, session, fin, outcome, lmac, inds, swept, found>>
  BY DEF Cancel, At, call, seen
<1>3. PICK l \in {"idle", "giveup"} : Goto("timer", l)
  BY DEF Cancel
<1>4. \A t \in Tasks : pc'[t] = pc[t]
  <2>1. \A b \in Actors : b # "timer" => pc'[b] = pc[b]
    BY <1>1, <1>3, StepMoves, ScanActors DEF FinisherSteps
  <2> QED BY <2>1, ScanActors
<1>5. session.n # None /\ session.cancelled
  BY <1>2 DEF SweepOk, TimerMarks
<1>6. TimerMarks'
  BY <1>2, <1>5 DEF TimerMarks
<1>7. CASE UNCHANGED requests
  <2>1. session' \in SessionType /\ session'.n = session.n /\ (session.cancelled => session'.cancelled)
    BY <1>1, <1>2
  <2>2. /\ \A n \in Scans : outcome'[n] \in {"Ok", "Partial"} => n \in swept
        /\ \A b \in Finishers :
              (fin'[b].n # None /\ fin'[b].status \in {"Ok", "Partial"}) => fin'[b].n \in swept
    BY <1>2 DEF SweepOk, Verdicts
  <2> QED BY <1>2, <1>4, <1>6, <1>7, <2>1, <2>2, SweepStays
<1> DEFINE m == [kind |-> "cancel", n |-> None]
<1>8. CASE requests' = Append(requests, m)
  <2>1. m \in RequestMsg /\ m.kind = "cancel"
    BY DEF RequestMsg, MaybeScan
  <2> HIDE DEF m
  <2>2. PICK s \in SessionType : s = session BY <1>1
  <2>3. SweepLine(requests, lmac, inds, s, swept) /\ s.n # None /\ s.cancelled
    BY <1>5, <2>2 DEF SweepOk
  <2>4. SweepLine(Append(requests, m), lmac, inds, s, swept) /\ Asked(Append(requests, m)) = Asked(requests)
    BY <1>1, <2>1, <2>3, CancelPosted DEF SweepTypes
  <2>5. SweepLine(requests, lmac, inds, session, swept)'
    BY <1>2, <1>8, <2>2, <2>4
  <2>6. SweepTypes'
    BY <1>1, <1>2, <1>8, <2>1 DEF SweepTypes
  <2>7. Verdicts'
    BY <1>2 DEF SweepOk, Verdicts
  <2>8. NoSweep(requests, lmac, inds) => NoSweep(requests, lmac, inds)'
    BY <1>2, <1>8, <2>4 DEF NoSweep
  <2>9. NotAsked'
    BY <1>2, <1>4, <2>8 DEF SweepOk, NotAsked
  <2> QED BY <1>6, <2>5, <2>6, <2>7, <2>9 DEF SweepOk
<1> QED BY <1>7, <1>8 DEF Cancel

\* The LMAC takes a request.
LEMMA DeliverSweep ==
    ASSUME ScanOwnerInv, SweepOk, Deliver
    PROVE  SweepOk'
<1>1. ScanTypes /\ SweepTypes
  BY DEF ScanOwnerInv, SweepOk
<1>2. /\ requests # <<>> /\ requests' = Tail(requests)
      /\ UNCHANGED <<pc, mine, session, fin, outcome, inds, swept, found>>
  BY DEF Deliver, call, seen
<1>3. PICK q \in Seq(RequestMsg) : q = requests BY <1>1 DEF SweepTypes
<1>4. PICK l \in SweepType : l = lmac BY <1>1 DEF SweepTypes
<1>5. PICK s \in SessionType : s = session BY <1>1 DEF ScanTypes
<1>6. SweepLine(q, l, inds, s, swept) /\ q # <<>>
  BY <1>2, <1>3, <1>4, <1>5 DEF SweepOk
<1>7. PICK m \in RequestMsg : m = Head(q)
  BY <1>6, LineTail
<1>8. PICK k \in SweepType :
        /\ lmac' = k
        /\ IF m.kind = "cancel" THEN k.now = l.now /\ (k.stop <=> l.now # None)
           ELSE k.now = m.n /\ k.stop = l.stop
  <2>1. lmac' = IF m.kind = "cancel" THEN [l EXCEPT !.stop = l.now # None]
                ELSE IF l.now = None THEN [l EXCEPT !.now = m.n]
                ELSE [l EXCEPT !.saved = Append(@, m.n)]
    BY <1>3, <1>4, <1>7 DEF Deliver
  <2>2. CASE m.kind = "cancel"
    <3>1. [l EXCEPT !.stop = l.now # None] \in SweepType
      BY DEF SweepType
    <3> QED BY <2>1, <2>2, <3>1 DEF SweepType
  <2>3. CASE m.kind # "cancel"
    <3>1. m.kind = "scan" /\ m.n \in MaybeScan
      BY <2>3 DEF RequestMsg
    <3>2. 1 \in Asked(q)
      BY <1>6, <1>7, <3>1, LineTail DEF Asked
    <3>3. l.now = None
      BY <1>6, <3>2 DEF SweepLine, OneSweep
    <3>4. lmac' = [l EXCEPT !.now = m.n]
      BY <2>1, <2>3, <3>3
    <3>5. [l EXCEPT !.now = m.n] \in SweepType
      BY <3>1 DEF SweepType
    <3> QED BY <2>3, <3>4, <3>5 DEF SweepType
  <2> QED BY <2>2, <2>3
<1>9. /\ SweepLine(Tail(q), k, inds, s, swept)
      /\ NoSweep(q, l, inds) => NoSweep(Tail(q), k, inds)
  BY <1>1, <1>6, <1>7, <1>8, RequestTaken DEF SweepTypes
<1>10. SweepLine(requests, lmac, inds, session, swept)'
  BY <1>2, <1>3, <1>5, <1>8, <1>9
<1>11. NoSweep(requests, lmac, inds) => NoSweep(requests, lmac, inds)'
  BY <1>2, <1>3, <1>4, <1>8, <1>9
<1>12. SweepTypes'
  BY <1>1, <1>2, <1>8 DEF SweepTypes
<1>13. Verdicts' /\ TimerMarks'
  BY <1>2 DEF SweepOk, Verdicts, TimerMarks
<1>14. NotAsked'
  BY <1>2, <1>11 DEF SweepOk, NotAsked
<1> QED BY <1>10, <1>12, <1>13, <1>14 DEF SweepOk

\* The sweep reports a beacon or its end.
LEMMA ReportSweep ==
    ASSUME ScanOwnerInv, SweepOk, Beacon \/ SweepEnds
    PROVE  SweepOk'
<1>1. ScanTypes /\ SweepTypes
  BY DEF ScanOwnerInv, SweepOk
<1>2. /\ lmac.now # None
      /\ UNCHANGED <<pc, mine, session, fin, outcome, requests, found>>
  BY DEF Beacon, SweepEnds, call, chip, seen
<1>3. PICK l \in SweepType : l = lmac BY <1>1 DEF SweepTypes
<1>4. PICK s \in SessionType : s = session BY <1>1 DEF ScanTypes
<1>5. PICK d \in Seq(ReportMsg) : d = inds BY <1>1 DEF SweepTypes
<1>6. SweepLine(requests, l, d, s, swept) /\ l.now # None
  BY <1>2, <1>3, <1>4, <1>5 DEF SweepOk
<1>7. PICK m \in ReportMsg, k \in SweepType :
        /\ inds' = Append(d, m) /\ lmac' = k /\ m.n = l.now
        /\ \/ m.kind = "ind" /\ k = l /\ swept' = swept
           \/ m.kind = "cfm" /\ k.now = None /\ ~k.stop /\ swept' = IF l.stop THEN swept ELSE swept \cup {l.now}
  <2>1. l.now \in MaybeScan /\ l.saved = <<>>
    BY DEF SweepType
  <2>2. CASE Beacon
    <3> DEFINE m == [kind |-> "ind", n |-> l.now]
    <3>1. m \in ReportMsg /\ m.kind = "ind" /\ m.n = l.now
      BY <2>1 DEF ReportMsg
    <3>2. inds' = Append(d, m) /\ lmac' = l /\ swept' = swept
      BY <1>3, <1>5, <2>2 DEF Beacon, chip, seen
    <3> HIDE DEF m
    <3> QED BY <3>1, <3>2
  <2>3. CASE SweepEnds
    <3> DEFINE m == [kind |-> "cfm", n |-> l.now]
               k == [now |-> None, saved |-> <<>>, stop |-> FALSE]
    <3>1. m \in ReportMsg /\ m.kind = "cfm" /\ m.n = l.now
      BY <2>1 DEF ReportMsg
    <3>2. k \in SweepType /\ k.now = None /\ ~k.stop
      BY DEF SweepType, MaybeScan
    <3>3. inds' = Append(d, m) /\ lmac' = k
      BY <1>3, <1>5, <2>1, <2>3 DEF SweepEnds
    <3>4. swept' = IF l.stop THEN swept ELSE swept \cup {l.now}
      BY <1>3, <2>3 DEF SweepEnds
    <3> HIDE DEF m, k
    <3> QED BY <3>1, <3>2, <3>3, <3>4
  <2> QED BY <2>2, <2>3
<1>8. PICK y : y = swept' OBVIOUS
<1>9. SweepLine(requests, k, Append(d, m), s, y)
  BY <1>1, <1>6, <1>7, <1>8, SweepReports DEF SweepTypes
<1>10. SweepLine(requests, lmac, inds, session, swept)'
  BY <1>2, <1>4, <1>7, <1>8, <1>9
<1>11. swept \subseteq swept'
  BY <1>7
<1>12. Verdicts' /\ TimerMarks'
  BY <1>2, <1>11 DEF SweepOk, Verdicts, TimerMarks
<1>13. SweepTypes'
  BY <1>1, <1>2, <1>5, <1>7 DEF SweepTypes
<1>14. \A t \in Tasks : pc[t] \notin {"time", "send", "unsent"}
  BY <1>2 DEF SweepOk, NotAsked, NoSweep
<1>15. NotAsked'
  BY <1>2, <1>14 DEF NotAsked
<1> QED BY <1>10, <1>12, <1>13, <1>15 DEF SweepOk

\* Before the first scan the LMAC has nothing to do.
LEMMA SweepStarts == ScanInit => SweepInv
<1> SUFFICES ASSUME ScanInit PROVE SweepOk
  BY DEF SweepInv
<1>1. /\ requests = <<>> /\ inds = <<>> /\ swept = {}
      /\ lmac = [now |-> None, saved |-> <<>>, stop |-> FALSE]
      /\ found \in [Scans -> SUBSET MaybeScan] /\ \A n \in Scans : found[n] = {}
      /\ \A n \in Scans : outcome[n] = "none"
      /\ \A a \in Actors : pc[a] = "idle"
  BY DEF ScanInit
<1>2. lmac \in SweepType /\ lmac.now = None /\ ~lmac.stop
  BY <1>1 DEF SweepType, MaybeScan
<1>3. SweepTypes
  BY <1>1, <1>2 DEF SweepTypes
<1>4. NoSweep(requests, lmac, inds)
  BY <1>1, <1>2 DEF NoSweep, Asked
<1>5. SweepLine(requests, lmac, inds, session, swept)
  BY <1>3, <1>4, NoSweepAnySession DEF SweepTypes
<1>6. \A a \in Finishers : fin[a].n = None
  <2> DEFINE x == [n |-> None, status |-> "Ok"]
  <2>1. x.n = None OBVIOUS
  <2> HIDE DEF x
  <2>2. \A a \in Finishers : fin[a] = x BY DEF ScanInit, x
  <2> QED BY <2>1, <2>2
<1>7. Verdicts
  BY <1>1, <1>6 DEF Verdicts
<1>8. TimerMarks /\ NotAsked
  BY <1>1, ScanActors DEF TimerMarks, NotAsked
<1> QED BY <1>3, <1>5, <1>7, <1>8 DEF SweepOk

\* While no scan is given up on, no step of a scan breaks the link between a sweep and its
\* session.
LEMMA SweepStep ==
    ASSUME OneScanner, TimerFirst
    PROVE  ScanOwnerInv /\ SweepInv /\ [ScanNext]_scanVars => SweepInv'
<1> SUFFICES ASSUME ScanOwnerInv, SweepInv, [ScanNext]_scanVars, givenUp' = {} PROVE SweepOk'
  BY DEF SweepInv
<1>1. givenUp = {}
  <2>1. givenUp \subseteq givenUp'
    BY DEF ScanNext, Begin, Continue, Publish, StartTimer, Send, Unsent, Await, WalkAway, Kmsg, Timer,
       Indication, SweepDone, FinishStop, FinishResolve, Expire, Cancel, GiveUp, Deliver, Beacon,
       SweepEnds, scanVars
  <2> QED BY <2>1
<1>2. SweepOk
  BY <1>1 DEF SweepInv
<1>3. ASSUME NEW t \in Tasks, Begin(t) \/ Continue(t) \/ WalkAway(t) PROVE SweepOk'
  <2>1. CASE Begin(t)
    BY <1>2, <2>1, CallerSweepStays DEF Begin, At, call, chip, seen, CallerSteps
  <2>2. CASE StartTimer(t)
    BY <1>2, <2>2, CallerSweepStays DEF StartTimer, At, call, chip, seen, CallerSteps, Published
  <2>3. CASE Send(t) BY <1>2, <2>3, SendSweep
  <2>4. CASE Publish(t) BY <1>2, <2>4, PublishSweep
  <2>5. CASE Unsent(t) BY <1>2, <2>5, UnsentSweep
  <2>6. CASE Await(t) \/ WalkAway(t)
    <3>1. /\ pc[t] \in Published /\ Drop(t) /\ Goto(t, "idle")
          /\ UNCHANGED <<session, fin, requests, lmac, inds, swept, found>>
      BY <2>6 DEF Await, WalkAway, Drop, At, chip, seen, Published
    <3>2. \A n \in Scans : outcome'[n] \in {"Ok", "Partial"} => outcome'[n] = outcome[n]
      BY <3>1, DropVerdicts
    <3>3. \A u \in Tasks : u = t
      BY DEF OneScanner
    <3> QED BY <1>2, <3>1, <3>2, <3>3, CallerSweepStays DEF CallerSteps
  <2> QED BY <1>3, <2>1, <2>2, <2>3, <2>4, <2>5, <2>6 DEF Continue
<1>4. CASE Kmsg
  BY <1>2, <1>4, IndicationSweep, SweepDoneSweep, FinishSweep, ScanActors DEF Kmsg
<1>5. CASE GiveUp
  <2>1. pc["timer"] = "giveup" BY <1>5 DEF GiveUp, At
  <2>2. session.n # None BY <1>2, <2>1 DEF SweepOk, TimerMarks
  <2>3. session.n \in givenUp' BY <1>5, <2>2 DEF GiveUp
  <2> QED BY <2>3
<1>6. CASE Timer
  BY <1>2, <1>5, <1>6, ExpireSweep, CancelSweep, FinishSweep, ScanActors DEF Timer
<1>7. CASE Deliver BY <1>2, <1>7, DeliverSweep
<1>8. CASE Beacon \/ SweepEnds BY <1>2, <1>8, ReportSweep
<1>9. CASE UNCHANGED scanVars
  <2>1. UNCHANGED <<pc, mine, session, fin, outcome, requests, lmac, inds, swept, found>>
    BY <1>9 DEF scanVars, call, chip, seen
  <2> QED BY <1>2, <2>1 DEF SweepOk, SweepTypes, SweepLine, Verdicts, TimerMarks, NotAsked
<1> QED BY <1>3, <1>4, <1>6, <1>7, <1>8, <1>9 DEF ScanNext

\* A result that says Ok or Partial is that of a sweep the LMAC went through to the end, and
\* holds that sweep's beacons only, however beacons, ends of sweeps, timeouts and cancels
\* interleave, unless a scan was given up on before: its late end carries no number.
THEOREM OkIsACompleteSweep == (OneScanner /\ TimerFirst) => (ScanSpec => []OkMeansSwept)
<1> SUFFICES ASSUME OneScanner, TimerFirst PROVE ScanSpec => []OkMeansSwept
  OBVIOUS
<1>1. SweepInv => OkMeansSwept
  BY DEF SweepInv, SweepOk, Verdicts, OkMeansSwept
<1>2. ScanSpec => [](ScanOwnerInv /\ SweepInv)
  BY ScanStarts, SweepStarts, ScanOwnerStep, SweepStep, PTL DEF ScanSpec
<1> QED BY <1>1, <1>2, PTL
=============================================================================
