---------------------------- MODULE StoreProofs ----------------------------
(***************************************************************************)
(* Proofs about the flash key-value store and about the settings that the  *)
(* camera application keeps in it.                                         *)
(*                                                                         *)
(* The store, for every set of keys, values and lengths, every sector size *)
(* and every choice of cut points: its operations do all or nothing; if    *)
(* power fails at most inside an append, the store implements the map of   *)
(* KvStore; a cut never brings back a replaced value, the next write       *)
(* repairs the log, both ways to read it agree, and it is called full only *)
(* when it is.                                                             *)
(*                                                                         *)
(* The settings, for every number of HTTP workers, networks and requests:  *)
(* between requests the stored settings are those in RAM.                  *)
(***************************************************************************)
EXTENDS FlashKv, CameraApp, SequenceTheorems, FiniteSetTheorems,
        WellFoundedInduction, TLAPS

-----------------------------------------------------------------------------
(* The newest record of a key.                                             *)

\* The last position of a key is the one IsLastPos describes.
LEMMA LastPosIs ==
    ASSUME NEW s \in Seq(Record), NEW k \in Keys, NEW i \in 1..Len(s), IsLastPos(s, k, i)
    PROVE  LastPos(s, k) = i /\ Newest(s, k) = s[i].val
<1>1. \A j \in 1..Len(s) : IsLastPos(s, k, j) => j = i
  BY DEF IsLastPos, Positions
<1>2. LastPos(s, k) = i
  BY <1>1 DEF LastPos
<1> QED BY <1>2 DEF Newest

\* The value of a key is a value or nothing.
LEMMA NewestType ==
    ASSUME NEW s \in Seq(Record), NEW k \in Keys
    PROVE  Newest(s, k) \in Values \cup {None}
<1>1. CASE \E i \in 1..Len(s) : IsLastPos(s, k, i)
  <2>1. PICK i \in 1..Len(s) : IsLastPos(s, k, i) BY <1>1
  <2>2. s[i] \in Record BY <2>1
  <2> QED BY <2>1, <2>2, LastPosIs DEF Record
<1> QED BY <1>1 DEF Newest

\* Appending a record changes what its own key reads as, and no other key:
\* lookup_visit() lets the last record win.
LEMMA NewestAppend ==
    ASSUME NEW s \in Seq(Record), NEW r \in Record, NEW k \in Keys
    PROVE  Newest(Append(s, r), k) = IF k = r.key THEN r.val ELSE Newest(s, k)
<1> DEFINE t == Append(s, r)
<1>1. /\ t \in Seq(Record) /\ Len(t) = Len(s) + 1 /\ Len(s) \in Nat
      /\ \A i \in 1..Len(s) : t[i] = s[i]
      /\ t[Len(t)] = r
  OBVIOUS
<1>2. CASE k = r.key
  <2>1. Len(t) \in 1..Len(t) /\ IsLastPos(t, k, Len(t))
    BY <1>1, <1>2 DEF Positions, IsLastPos
  <2>2. Newest(t, k) = t[Len(t)].val
    BY <1>1, <2>1, LastPosIs
  <2> QED BY <1>1, <1>2, <2>2
<1>3. CASE k # r.key
  <2>1. Positions(t, k) = Positions(s, k)
    BY <1>1, <1>3 DEF Positions
  <2>2. CASE \E i \in 1..Len(s) : IsLastPos(s, k, i)
    <3>1. PICK i \in 1..Len(s) : IsLastPos(s, k, i) BY <2>2
    <3>2. i \in 1..Len(t) /\ IsLastPos(t, k, i)
      BY <1>1, <2>1, <3>1 DEF IsLastPos
    <3>3. Newest(t, k) = t[i].val /\ Newest(s, k) = s[i].val
      BY <1>1, <3>1, <3>2, LastPosIs
    <3> QED BY <1>1, <1>3, <3>3
  <2>3. CASE ~ \E i \in 1..Len(s) : IsLastPos(s, k, i)
    <3>1. ~ \E i \in 1..Len(t) : IsLastPos(t, k, i)
      BY <1>1, <2>1, <2>3 DEF IsLastPos, Positions
    <3> QED BY <1>3, <2>3, <3>1 DEF Newest
  <2> QED BY <2>2, <2>3
<1> QED BY <1>2, <1>3

\* An empty log sets no key.
LEMMA NewestEmpty == \A k \in Keys : Newest(<<>>, k) = None
BY DEF Newest

-----------------------------------------------------------------------------
(* The image of rebuild().                                                 *)

\* image_put()'s loop closes the gap of the record it takes out.
LEMMA DropKeyIs ==
    ASSUME NEW s \in Seq(Record), Unique(s), NEW k \in Keys, Positions(s, k) # {}
    PROVE  \E p \in 1..Len(s) :
              /\ s[p].key = k
              /\ DropKey(s, k) \in Seq(Record) /\ Len(DropKey(s, k)) = Len(s) - 1
              /\ \A i \in 1..Len(DropKey(s, k)) :
                    DropKey(s, k)[i] = IF i < p THEN s[i] ELSE s[i + 1]
<1>1. PICK p \in 1..Len(s) : s[p].key = k
  BY DEF Positions
<1>2. IsLastPos(s, k, p)
  BY <1>1 DEF IsLastPos, Positions, Unique
<1>3. LastPos(s, k) = p
  BY <1>2, LastPosIs
<1> DEFINE a == SubSeq(s, 1, p - 1)
           b == SubSeq(s, p + 1, Len(s))
           t == a \o b
<1>4. DropKey(s, k) = t
  BY <1>3 DEF DropKey
<1>5. /\ a \in Seq(Record) /\ Len(a) = p - 1
      /\ \A i \in 1..(p - 1) : a[i] = s[i]
  BY <1>1
<1>6. /\ b \in Seq(Record) /\ Len(b) = Len(s) - p
      /\ \A i \in 1..(Len(s) - p) : b[i] = s[p + i]
  BY <1>1
<1> HIDE DEF a, b
<1>7. /\ t \in Seq(Record) /\ Len(t) = Len(s) - 1
      /\ \A i \in 1..Len(t) : t[i] = IF i < p THEN s[i] ELSE s[i + 1]
  <2>1. /\ t \in Seq(Record) /\ Len(t) = Len(a) + Len(b)
        /\ \A i \in 1..Len(t) : t[i] = IF i <= Len(a) THEN a[i] ELSE b[i - Len(a)]
    <3>1. a \in Seq(Record) /\ b \in Seq(Record)
      BY <1>5, <1>6
    <3>2. /\ t \in Seq(Record) /\ Len(t) = Len(a) + Len(b)
          /\ \A i \in 1..(Len(a) + Len(b)) : t[i] = IF i <= Len(a) THEN a[i] ELSE b[i - Len(a)]
      BY <3>1, ConcatProperties, Zenon
    <3> QED BY <3>2, Zenon
  <2>2. Len(s) \in Nat /\ Len(t) = Len(s) - 1
    BY <1>1, <1>5, <1>6, <2>1
  <2>3. ASSUME NEW i \in 1..Len(t) PROVE t[i] = IF i < p THEN s[i] ELSE s[i + 1]
    <3>1. CASE i < p
      BY <1>1, <1>5, <2>1, <2>2, <3>1
    <3>2. CASE ~(i < p)
      <4>1. i - Len(a) \in 1..(Len(s) - p) /\ p + (i - Len(a)) = i + 1
        BY <1>1, <1>5, <2>2, <3>2
      <4> QED BY <1>1, <1>5, <1>6, <2>1, <3>2, <4>1
    <3> QED BY <3>1, <3>2
  <2> QED BY <2>1, <2>2, <2>3
<1> HIDE DEF t
<1> QED BY <1>1, <1>4, <1>7

\* image_put()'s loop removes exactly the key it is told to, and the image
\* keeps at most one record of each key.
LEMMA DropKeyRemoves ==
    ASSUME NEW s \in Seq(Record), Unique(s), NEW k \in Keys
    PROVE  /\ DropKey(s, k) \in Seq(Record)
           /\ Unique(DropKey(s, k))
           /\ Positions(DropKey(s, k), k) = {}
           /\ \A j \in Keys : Newest(DropKey(s, k), j) = IF j = k THEN None ELSE Newest(s, j)
<1>1. CASE Positions(s, k) = {}
  <2>1. DropKey(s, k) = s
    BY <1>1 DEF DropKey
  <2>2. Newest(s, k) = None
    BY <1>1 DEF Newest, IsLastPos
  <2> QED BY <1>1, <2>1, <2>2
<1>2. CASE Positions(s, k) # {}
  <2> DEFINE t == DropKey(s, k)
  <2>1. PICK p \in 1..Len(s) :
          /\ s[p].key = k
          /\ t \in Seq(Record) /\ Len(t) = Len(s) - 1
          /\ \A i \in 1..Len(t) : t[i] = IF i < p THEN s[i] ELSE s[i + 1]
    BY <1>2, DropKeyIs
  <2>7. /\ t \in Seq(Record) /\ Len(t) = Len(s) - 1
        /\ \A i \in 1..Len(t) : t[i] = IF i < p THEN s[i] ELSE s[i + 1]
    BY <2>1
  <2> HIDE DEF t
  <2>8. Unique(t)
    BY <2>1, <2>7 DEF Unique
  <2>10. Positions(t, k) = {}
    <3>1. Len(s) \in Nat OBVIOUS
    <3> QED BY <2>1, <2>7, <3>1 DEF Positions, Unique
  <2>9. ASSUME NEW j \in Keys
        PROVE  Newest(t, j) = IF j = k THEN None ELSE Newest(s, j)
    <3>1. CASE j = k
      BY <2>10, <3>1 DEF Newest, IsLastPos
    <3>2. CASE j # k /\ Positions(s, j) = {}
      <4>0. Len(s) \in Nat OBVIOUS
      <4>1. Positions(t, j) = {}
        BY <2>1, <2>7, <3>2, <4>0, SMTT(30) DEF Positions
      <4> QED BY <3>2, <4>1 DEF Newest, IsLastPos
    <3>3. CASE j # k /\ Positions(s, j) # {}
      <4>1. PICK q \in 1..Len(s) : s[q].key = j
        BY <3>3 DEF Positions
      <4>2. IsLastPos(s, j, q)
        BY <4>1 DEF IsLastPos, Positions, Unique
      <4> DEFINE r == IF q < p THEN q ELSE q - 1
      <4>3. r \in 1..Len(t) /\ t[r] = s[q]
        BY <2>1, <2>7, <3>3, <4>1
      <4>4. IsLastPos(t, j, r)
        BY <2>8, <4>1, <4>3 DEF IsLastPos, Positions, Unique
      <4> QED BY <2>7, <3>3, <4>2, <4>3, <4>4, LastPosIs
    <3> QED BY <3>1, <3>2, <3>3
  <2> QED BY <2>7, <2>8, <2>9, <2>10 DEF t
<1> QED BY <1>1, <1>2

\* image_put(): the image stays a run of unique records, and if the value
\* found room it is what the key now reads as.
LEMMA ImagePutStores ==
    ASSUME NEW s \in Seq(Record), Unique(s), NEW k \in Keys, NEW v \in Values \cup {None}
    PROVE  /\ ImagePut(s, k, v).img \in Seq(Record)
           /\ Unique(ImagePut(s, k, v).img)
           /\ ImagePut(s, k, v).ok \in BOOLEAN
           /\ ImagePut(s, k, v).ok =>
                \A j \in Keys : Newest(ImagePut(s, k, v).img, j) = IF j = k THEN v ELSE Newest(s, j)
<1> DEFINE d == DropKey(s, k)
           r == [key |-> k, val |-> v]
<1>1. /\ d \in Seq(Record) /\ Unique(d) /\ Positions(d, k) = {}
      /\ \A j \in Keys : Newest(d, j) = IF j = k THEN None ELSE Newest(s, j)
  BY DropKeyRemoves
<1>2. \A i \in 1..Len(d) : d[i].key # k
  BY <1>1 DEF Positions
<1> HIDE DEF d
<1>3. r \in Record BY DEF Record
<1>4. Append(d, r) \in Seq(Record) /\ Unique(Append(d, r))
  BY <1>1, <1>2, <1>3 DEF Unique
<1>5. \A j \in Keys : Newest(Append(d, r), j) = IF j = k THEN v ELSE Newest(d, j)
  BY <1>1, <1>3, NewestAppend
<1>6. ImagePut(s, k, v).img = PutRecord(d, k, v) /\ ImagePut(s, k, v).ok = Fits(d, v)
  BY DEF ImagePut, d
<1>7. Fits(d, v) \in BOOLEAN BY DEF Fits
<1>8. CASE v = None
  <2>1. PutRecord(d, k, v) = d BY <1>8 DEF PutRecord
  <2> QED BY <1>1, <1>6, <1>7, <1>8, <2>1
<1>9. CASE v # None /\ Fits(d, v)
  <2>1. PutRecord(d, k, v) = Append(d, r) BY <1>9 DEF PutRecord
  <2> QED BY <1>1, <1>4, <1>5, <1>6, <1>7, <2>1
<1>10. CASE v # None /\ ~Fits(d, v)
  <2>1. PutRecord(d, k, v) = d BY <1>10 DEF PutRecord
  <2> QED BY <1>1, <1>6, <1>7, <1>10, <2>1
<1> QED BY <1>8, <1>9, <1>10

-----------------------------------------------------------------------------
(* All or nothing.                                                         *)

\* What Contents is after the log grew by the job's record.
LEMMA AppendStores ==
    ASSUME TypeOK, header = "ours", header' = header, job.op = "put", Contents = before,
           log' = Append(log, [key |-> job.key, val |-> job.val])
    PROVE  Contents' = After /\ Contents' = [Contents EXCEPT ![job.key] = job.val]
<1> DEFINE r == [key |-> job.key, val |-> job.val]
<1>1. r \in Record /\ log \in Seq(Record)
  BY DEF TypeOK, Job, Record
<1>2. \A k \in Keys : Newest(Append(log, r), k) = IF k = job.key THEN job.val ELSE Newest(log, k)
  BY <1>1, NewestAppend
<1>3. Contents = [k \in Keys |-> Newest(log, k)]
  BY DEF Contents, Get, Walked
<1>4. Contents' = [k \in Keys |-> Newest(Append(log, r), k)]
  BY DEF Contents, Get, Walked
<1>5. Contents' = [Contents EXCEPT ![job.key] = job.val]
  BY <1>2, <1>3, <1>4
<1> QED BY <1>5 DEF After

\* The collecting pass starts from an image that agrees with no record at all.
LEMMA StartCollects ==
    ASSUME NEW w \in Seq(Record)
    PROVE  /\ 0 <= Len(w) /\ Unique(<<>>)
           /\ \A k \in Keys : Newest(<<>>, k) = Newest(SubSeq(w, 1, 0), k)
<1>1. SubSeq(w, 1, 0) = <<>> BY SubSeqEmpty
<1>2. 0 <= Len(w) OBVIOUS
<1>3. Unique(<<>>) BY DEF Unique
<1> QED BY <1>1, <1>2, <1>3

\* A log that has grown by a record differs from what it was.
LEMMA AppendGrows ==
    ASSUME NEW s \in Seq(Record), NEW r \in Record
    PROVE  Append(s, r) # s
<1>1. Len(Append(s, r)) = Len(s) + 1 /\ Len(s) \in Nat OBVIOUS
<1> QED BY <1>1

\* Initially the invariant holds.
LEMMA KvInvInit == Init => KvInv
<1> SUFFICES ASSUME Init PROVE KvInv
  OBVIOUS
<1>1. job \in Job BY DEF Init, Job
<1>2. <<>> \in Seq(Record) OBVIOUS
<1>3. TypeOK
  BY <1>1, <1>2 DEF Init, TypeOK
<1> QED BY <1>3 DEF Init, KvInv, AllOrNothing, Errors

\* Every step keeps the variables in their types.
LEMMA TypeStep == TypeOK /\ (pc = "collect" => Unique(image)) /\ [Next]_vars => TypeOK'
<1> SUFFICES ASSUME TypeOK, pc = "collect" => Unique(image), [Next]_vars PROVE TypeOK'
  OBVIOUS
<1> USE DEF TypeOK, Errors
<1>0. Contents \in [Keys -> Values \cup {None}]
  <2>1. Walked \in Seq(Record) BY DEF Walked
  <2> QED BY <2>1, NewestType DEF Contents, Get
<1>e. <<>> \in Seq(Record) OBVIOUS
<1>1. ASSUME NEW k \in Keys, NEW v \in Values, Set(k, v) PROVE TypeOK'
  <2>1. job' \in Job /\ before' = Contents /\ UNCHANGED flash
    BY <1>1 DEF Set, Begin, Job
  <2>2. /\ image' \in {image, <<>>} /\ pos' \in {pos, 0} /\ overflow' \in {overflow, FALSE}
        /\ pc' \in {"idle", "append", "collect"} /\ ret' \in {"ENOMEM", "ok", "none"}
    BY <1>1 DEF Set, OutOfMemory, Return, StartAppend, heap
  <2>3. image' \in Seq(Record) /\ log' \in Seq(Record) BY <1>e, <2>1, <2>2 DEF flash
  <2>4. overflow' \in BOOLEAN /\ protected' \in BOOLEAN BY <2>1, <2>2 DEF flash
  <2>5. pos' \in Nat /\ before' \in [Keys -> Values \cup {None}] BY <1>0, <2>1, <2>2
  <2>6. header' = header /\ tail' = tail BY <2>1 DEF flash
  <2>7. ret' \in {"none", "ok", "cut_append", "cut_erase", "cut_rewrite"} \cup Errors BY <2>2
  <2>8. pc' \in {"idle", "append", "collect", "erase", "rewrite", "wipe"} BY <2>2
  <2> QED BY <2>1, <2>3, <2>4, <2>5, <2>6, <2>7, <2>8
<1>2. ASSUME NEW k \in Keys, EraseKey(k) PROVE TypeOK'
  <2>1. job' \in Job /\ before' = Contents /\ UNCHANGED flash
    BY <1>2 DEF EraseKey, Begin, Job
  <2>2. /\ image' \in {image, <<>>} /\ pos' \in {pos, 0} /\ overflow' \in {overflow, FALSE}
        /\ pc' \in {"idle", "append", "collect"} /\ ret' \in {"ENOMEM", "ok", "none"}
    BY <1>2 DEF EraseKey, OutOfMemory, Return, StartAppend, heap
  <2>3. image' \in Seq(Record) /\ log' \in Seq(Record) BY <1>e, <2>1, <2>2 DEF flash
  <2>4. overflow' \in BOOLEAN /\ protected' \in BOOLEAN BY <2>1, <2>2 DEF flash
  <2>5. pos' \in Nat /\ before' \in [Keys -> Values \cup {None}] BY <1>0, <2>1, <2>2
  <2>6. header' = header /\ tail' = tail BY <2>1 DEF flash
  <2>7. ret' \in {"none", "ok", "cut_append", "cut_erase", "cut_rewrite"} \cup Errors BY <2>2
  <2>8. pc' \in {"idle", "append", "collect", "erase", "rewrite", "wipe"} BY <2>2
  <2> QED BY <2>1, <2>3, <2>4, <2>5, <2>6, <2>7, <2>8
<1>3. ASSUME NEW k \in Keys, StartErase(k) PROVE TypeOK'
  BY <1>0, <1>3 DEF StartErase, Begin, heap, Job
<1>4. CASE Unprotect \/ Reprotect
  BY <1>4 DEF Unprotect, Reprotect, heap
<1>5. CASE AppendRecord
  <2>1. [key |-> job.key, val |-> job.val] \in Record BY DEF Job, Record
  <2>2. /\ log' \in {log, Append(log, [key |-> job.key, val |-> job.val])}
        /\ tail' \in {tail, "broken"} /\ pc' = "idle" /\ ret' \in {"ok", "EIO"}
        /\ UNCHANGED <<header, protected, job, image, pos, overflow, before>>
    BY <1>5 DEF AppendRecord, Return, heap
  <2>3. log' \in Seq(Record)
    <3>1. Append(log, [key |-> job.key, val |-> job.val]) \in Seq(Record) BY <2>1, AppendProperties
    <3> QED BY <2>2, <3>1
  <2> QED BY <2>2, <2>3
<1>6. CASE CollectStep
  <2>1. Walked[pos + 1] \in Record /\ image \in Seq(Record) /\ Unique(image)
    BY <1>6 DEF CollectStep, Walked
  <2>2. /\ ImagePut(image, Walked[pos + 1].key, Walked[pos + 1].val).img \in Seq(Record)
        /\ ImagePut(image, Walked[pos + 1].key, Walked[pos + 1].val).ok \in BOOLEAN
    BY <2>1, ImagePutStores DEF Record
  <2> QED BY <1>6, <2>2 DEF CollectStep, flash
<1>7. CASE CollectDone
  <2>1. ImagePut(image, job.key, job.val).img \in Seq(Record)
    BY <1>7, ImagePutStores DEF CollectDone, Job
  <2> QED BY <1>7, <2>1 DEF CollectDone, Return, flash
<1>8. CASE EraseSector
  <2>1. /\ header' \in {header, "blank"} /\ log' \in {log, <<>>} /\ tail' \in {tail, "blank"}
        /\ pc' = "rewrite"
        /\ UNCHANGED <<protected, job, image, pos, overflow, ret, before>>
    BY <1>8 DEF EraseSector, heap
  <2> QED BY <1>e, <2>1
<1>9. CASE Rewrite
  <2>1. /\ header' \in {header, "ours"} /\ log' \in {log, image} /\ tail' \in {tail, "blank"}
        /\ pc' = "idle" /\ ret' \in {"ok", "EIO"}
        /\ UNCHANGED <<protected, job, image, pos, overflow, before>>
    BY <1>9 DEF Rewrite, Return, heap
  <2> QED BY <2>1
<1>10. CASE FinishErase
  <2>1. /\ header' \in {header, "blank"} /\ log' \in {log, <<>>} /\ tail' \in {tail, "blank"}
        /\ pc' = "idle" /\ ret' \in {"ok", "EIO"}
        /\ UNCHANGED <<protected, job, image, pos, overflow, before>>
    BY <1>10 DEF FinishErase, Return, heap
  <2> QED BY <1>e, <2>1
<1>11. CASE CutAppend
  <2>1. [key |-> job.key, val |-> job.val] \in Record BY DEF Job, Record
  <2>2. /\ log' \in {log, Append(log, [key |-> job.key, val |-> job.val])}
        /\ tail' \in {tail, "hidden", "broken"} /\ UNCHANGED header
    BY <1>11 DEF CutAppend
  <2>3. log' \in Seq(Record)
    <3>1. Append(log, [key |-> job.key, val |-> job.val]) \in Seq(Record) BY <2>1, AppendProperties
    <3> QED BY <2>2, <3>1
  <2> QED BY <1>e, <1>11, <2>2, <2>3 DEF CutAppend, Reboot, Return
<1>12. CASE CutErase
  <2>1. \A n \in 0..Len(log) : SubSeq(log, 1, n) \in Seq(Record)
    OBVIOUS
  <2>2. /\ header' \in {header, "blank", "foreign", "ours"} /\ log' \in Seq(Record)
        /\ tail' \in {"blank", "hidden", "broken"}
    BY <1>e, <1>12, <2>1 DEF CutErase, Damaged
  <2> QED BY <1>e, <1>12, <2>2 DEF CutErase, Reboot, Return
<1>13. CASE CutRewrite
  <2>1. \A n \in 0..Len(image) : SubSeq(image, 1, n) \in Seq(Record)
    OBVIOUS
  <2>2. /\ header' \in {header, "blank", "foreign", "ours"} /\ log' \in Seq(Record)
        /\ tail' \in {"blank", "hidden", "broken"}
    BY <1>e, <1>13, <2>1 DEF CutRewrite, Damaged
  <2> QED BY <1>e, <1>13, <2>2 DEF CutRewrite, Reboot, Return
<1>14. CASE UNCHANGED vars
  BY <1>14 DEF vars
<1> QED
  BY <1>1, <1>2, <1>3, <1>4, <1>5, <1>6, <1>7, <1>8, <1>9, <1>10, <1>11, <1>12, <1>13, <1>14
  DEF Next, Step

\* Every step preserves the invariant.
LEMMA KvInvStep == KvInv /\ [Next]_vars => KvInv'
<1> SUFFICES ASSUME KvInv, [Next]_vars PROVE KvInv'
  OBVIOUS
<1>t. TypeOK /\ TypeOK'
  BY TypeStep DEF KvInv
<1>c. UNCHANGED <<header, log>> => Contents' = Contents /\ Walked' = Walked
  BY DEF Contents, Get, Walked
<1>1. ASSUME NEW k \in Keys, NEW v \in Values, Set(k, v) PROVE KvInv'
  <2>1. /\ Contents' = Contents /\ Walked' = Walked /\ before' = Contents
        /\ job' = [op |-> "put", key |-> k, val |-> v]
    BY <1>c, <1>1 DEF Set, Begin, flash
  <2>2. CASE pc' = "idle"
    <3>1. ret' = "ENOMEM" \/ (ret' = "ok" /\ Get(k) = v)
      BY <1>1, <2>2 DEF Set, OutOfMemory, Return, StartAppend
    <3>2. Get(k) = v => After' = Contents
      BY <2>1 DEF After, Contents
    <3>3. AllOrNothing'
      BY <2>1, <3>1, <3>2 DEF AllOrNothing, Errors
    <3> QED BY <1>t, <2>2, <3>3 DEF KvInv
  <2>3. CASE pc' # "idle"
    <3>1. StartAppend(v)
      BY <1>1, <2>3 DEF Set, OutOfMemory, Return
    <3>2. \/ pc' = "append" /\ header' = "ours"
          \/ pc' = "collect" /\ image' = <<>> /\ pos' = 0
      BY <1>1, <3>1, <1>t DEF StartAppend, AppendsInPlace, Scan, TypeOK, Set, flash
    <3>3. Walked \in Seq(Record) BY <1>t DEF TypeOK, Walked
    <3>4. pc' = "collect" =>
            /\ pos' <= Len(Walked') /\ Unique(image')
            /\ \A j \in Keys : Newest(image', j) = Newest(SubSeq(Walked', 1, pos'), j)
      BY <2>1, <3>2, <3>3, StartCollects
    <3>5. job'.op = "put" /\ Contents' = before' BY <2>1
    <3> QED BY <1>t, <2>3, <3>2, <3>4, <3>5 DEF KvInv, AllOrNothing
  <2> QED BY <2>2, <2>3
<1>2. ASSUME NEW k \in Keys, EraseKey(k) PROVE KvInv'
  <2>1. /\ Contents' = Contents /\ Walked' = Walked /\ before' = Contents
        /\ job' = [op |-> "put", key |-> k, val |-> None]
    BY <1>c, <1>2 DEF EraseKey, Begin, flash
  <2>2. CASE pc' = "idle"
    <3>1. ret' = "ENOMEM" \/ (ret' = "ok" /\ Get(k) = None)
      BY <1>2, <2>2 DEF EraseKey, OutOfMemory, Return, StartAppend
    <3>2. Get(k) = None => After' = Contents
      BY <2>1 DEF After, Contents
    <3>3. AllOrNothing'
      BY <2>1, <3>1, <3>2 DEF AllOrNothing, Errors
    <3> QED BY <1>t, <2>2, <3>3 DEF KvInv
  <2>3. CASE pc' # "idle"
    <3>1. StartAppend(None)
      BY <1>2, <2>3 DEF EraseKey, OutOfMemory, Return
    <3>2. \/ pc' = "append" /\ header' = "ours"
          \/ pc' = "collect" /\ image' = <<>> /\ pos' = 0
      BY <1>2, <3>1, <1>t DEF StartAppend, AppendsInPlace, Scan, TypeOK, EraseKey, flash
    <3>3. Walked \in Seq(Record) BY <1>t DEF TypeOK, Walked
    <3>4. pc' = "collect" =>
            /\ pos' <= Len(Walked') /\ Unique(image')
            /\ \A j \in Keys : Newest(image', j) = Newest(SubSeq(Walked', 1, pos'), j)
      BY <2>1, <3>2, <3>3, StartCollects
    <3>5. job'.op = "put" /\ Contents' = before' BY <2>1
    <3> QED BY <1>t, <2>3, <3>2, <3>4, <3>5 DEF KvInv, AllOrNothing
  <2> QED BY <2>2, <2>3
<1>3. ASSUME NEW k \in Keys, StartErase(k) PROVE KvInv'
  BY <1>t, <1>c, <1>3 DEF StartErase, Begin, KvInv, AllOrNothing
<1>4. CASE Unprotect \/ Reprotect
  BY <1>t, <1>4 DEF Unprotect, Reprotect, KvInv, AllOrNothing, Errors
<1>5. CASE AppendRecord
  <2>1. CASE log' = log
    <3>1. Contents' = before' /\ ret' = "EIO" /\ pc' = "idle"
      BY <1>c, <1>5, <2>1, AppendGrows DEF AppendRecord, Return, KvInv
    <3> QED BY <1>t, <3>1 DEF KvInv, AllOrNothing, Errors
  <2>2. CASE log' # log
    <3>1. /\ log' = Append(log, [key |-> job.key, val |-> job.val])
          /\ ret' = "ok" /\ pc' = "idle" /\ header' = header /\ job' = job /\ before' = before
      BY <1>5, <2>2 DEF AppendRecord, Return
    <3>2. Contents' = After /\ After' = After
      BY <1>5, <1>t, <3>1, AppendStores DEF KvInv, AppendRecord, After
    <3> QED BY <1>t, <3>1, <3>2 DEF KvInv, AllOrNothing, Errors
  <2> QED BY <2>1, <2>2
<1>6. CASE CollectStep
  <2> DEFINE r == Walked[pos + 1]
             put == ImagePut(image, r.key, r.val)
  <2>1. /\ pc = "collect" /\ pc' = "collect" /\ pos \in Nat /\ pos < Len(Walked) /\ pos' = pos + 1
        /\ image' = put.img /\ overflow' = (overflow \/ ~put.ok)
        /\ Contents' = Contents /\ Walked' = Walked /\ before' = before /\ job' = job
    BY <1>c, <1>t, <1>6 DEF CollectStep, flash, TypeOK
  <2>2. Walked \in Seq(Record) /\ r \in Record /\ image \in Seq(Record) /\ Unique(image)
    BY <1>t, <2>1 DEF Walked, TypeOK, KvInv
  <2>3. /\ Unique(put.img) /\ put.ok \in BOOLEAN
        /\ put.ok => \A j \in Keys : Newest(put.img, j) = IF j = r.key THEN r.val ELSE Newest(image, j)
    <3>1. r.key \in Keys /\ r.val \in Values \cup {None} BY <2>2 DEF Record
    <3> QED BY <2>2, <3>1, ImagePutStores
  <2>4. /\ SubSeq(Walked, 1, pos) \in Seq(Record)
        /\ SubSeq(Walked, 1, pos + 1) = Append(SubSeq(Walked, 1, pos), r)
    <3> DEFINE w == Walked
    <3> HIDE DEF w
    <3>1. w \in Seq(Record) /\ pos \in Nat /\ pos < Len(w) BY <2>1, <2>2 DEF w
    <3>2. SubSeq(w, 1, pos) \in Seq(Record) /\ Len(SubSeq(w, 1, pos)) = pos BY <3>1
    <3>3. SubSeq(w, 1, pos + 1) = Append(SubSeq(w, 1, pos), w[pos + 1])
      BY <3>1, SubSeqRecursiveSecond
    <3> QED BY <3>2, <3>3 DEF w
  <2>5. ~overflow /\ put.ok =>
          \A j \in Keys : Newest(put.img, j) = Newest(SubSeq(Walked, 1, pos + 1), j)
    <3> SUFFICES ASSUME ~overflow, put.ok, NEW j \in Keys
                 PROVE  Newest(put.img, j) = Newest(SubSeq(Walked, 1, pos + 1), j)
      OBVIOUS
    <3>1. Newest(image, j) = Newest(SubSeq(Walked, 1, pos), j)
      BY <2>1 DEF KvInv
    <3>2. Newest(SubSeq(Walked, 1, pos + 1), j) =
            IF j = r.key THEN r.val ELSE Newest(SubSeq(Walked, 1, pos), j)
      <4> HIDE DEF r
      <4>1. Newest(Append(SubSeq(Walked, 1, pos), r), j) =
              IF j = r.key THEN r.val ELSE Newest(SubSeq(Walked, 1, pos), j)
        BY <2>2, <2>4, NewestAppend, Zenon
      <4> QED BY <2>4, <4>1, Zenon
    <3> QED BY <2>3, <3>1, <3>2
  <2>6. Contents = before /\ job.op = "put" BY <2>1 DEF KvInv
  <2>7. ~overflow' => ~overflow /\ put.ok BY <2>1
  <2> HIDE DEF put, r
  <2> QED BY <1>t, <2>1, <2>3, <2>5, <2>6, <2>7 DEF KvInv, AllOrNothing
<1>7. CASE CollectDone
  <2> DEFINE put == ImagePut(image, job.key, job.val)
  <2>1. /\ pc = "collect" /\ pos = Len(Walked) /\ image' = put.img
        /\ Contents' = Contents /\ Walked' = Walked /\ before' = before /\ job' = job
        /\ IF overflow \/ ~put.ok THEN pc' = "idle" /\ ret' = "ENOSPC" ELSE pc' = "erase"
    BY <1>c, <1>7 DEF CollectDone, Return, flash
  <2>2. Contents = before /\ job.op = "put" /\ Unique(image) BY <2>1 DEF KvInv
  <2>3. CASE pc' = "idle"
    BY <1>t, <2>1, <2>2, <2>3 DEF KvInv, AllOrNothing, Errors
  <2>4. CASE pc' = "erase"
    <3>1. ~overflow /\ put.ok BY <2>1, <2>4
    <3>2. /\ job.key \in Keys /\ job.val \in Values \cup {None} /\ image \in Seq(Record)
      BY <1>t DEF TypeOK, Job
    <3>3. \A j \in Keys : Newest(put.img, j) = IF j = job.key THEN job.val ELSE Newest(image, j)
      BY <2>2, <3>1, <3>2, ImagePutStores
    <3>4. SubSeq(Walked, 1, pos) = Walked
      <4>1. Walked \in Seq(Record) BY <1>t DEF TypeOK, Walked
      <4> QED BY <2>1, <4>1, SubSeqFull
    <3>5. \A j \in Keys : Newest(image, j) = before[j]
      BY <2>1, <2>2, <3>1, <3>4 DEF KvInv, Contents, Get
    <3>6. \A j \in Keys : Newest(put.img, j) = After[j]
      BY <1>t, <2>2, <3>2, <3>3, <3>5 DEF After, TypeOK
    <3>7. After' = After BY <2>1 DEF After
    <3> HIDE DEF put
    <3> QED BY <1>t, <2>1, <2>2, <2>4, <3>6, <3>7 DEF KvInv, AllOrNothing
  <2> QED BY <2>1, <2>3, <2>4
<1>8. CASE EraseSector
  <2>1. After' = After BY <1>8 DEF EraseSector, After
  <2> QED BY <1>t, <1>c, <1>8, <2>1 DEF EraseSector, heap, KvInv, AllOrNothing
<1>9. CASE Rewrite
  <2>1. After' = After /\ pc' = "idle" /\ ret' \in {"ok", "EIO"} /\ before' = before /\ protected' = protected
    BY <1>9 DEF Rewrite, After, Return
  <2>2. CASE protected
    <3>1. Contents' = before' BY <1>c, <1>9, <2>1, <2>2 DEF Rewrite, KvInv
    <3> QED BY <1>t, <2>1, <2>2, <3>1 DEF KvInv, AllOrNothing, Errors
  <2>3. CASE ~protected
    <3>1. header' = "ours" /\ log' = image /\ ret' = "ok"
      BY <1>9, <2>3 DEF Rewrite, Return
    <3>2. Contents' = After
      <4>1. Contents' = [k \in Keys |-> Newest(image, k)]
        BY <3>1 DEF Contents, Get, Walked
      <4>2. \A k \in Keys : Newest(image, k) = After[k]
        BY <1>9 DEF Rewrite, KvInv
      <4>3. After \in [Keys -> Values \cup {None}]
        BY <1>t DEF After, TypeOK, Job
      <4> QED BY <4>1, <4>2, <4>3
    <3> QED BY <1>t, <2>1, <3>1, <3>2 DEF KvInv, AllOrNothing, Errors
  <2> QED BY <2>2, <2>3
<1>10. CASE FinishErase
  <2>1. pc = "wipe" /\ pc' = "idle" /\ job' = job /\ before' = before
    BY <1>10 DEF FinishErase, Return
  <2>2. CASE header' = "blank" /\ ret' = "ok"
    <3>1. Contents' = [k \in Keys |-> None]
      BY <2>2, NewestEmpty DEF Contents, Get, Walked
    <3>2. Contents' = After'
      BY <2>1, <3>1 DEF After, KvInv
    <3> QED BY <1>t, <2>1, <2>2, <3>2 DEF KvInv, AllOrNothing, Errors
  <2>3. CASE UNCHANGED <<header, log>> /\ ret' = "EIO"
    <3>1. Contents' = before' BY <1>c, <2>1, <2>3 DEF KvInv
    <3> QED BY <1>t, <2>1, <2>3, <3>1 DEF KvInv, AllOrNothing, Errors
  <2> QED BY <1>10, <2>2, <2>3 DEF FinishErase, Return
<1>11. CASE CutAppend \/ CutErase \/ CutRewrite
  BY <1>t, <1>11 DEF CutAppend, CutErase, CutRewrite, Reboot, Return, KvInv, AllOrNothing, Errors
<1>12. CASE UNCHANGED vars
  <2>1. UNCHANGED <<header, log, tail, protected, pc, job, image, pos, overflow, ret, before>>
    BY <1>12 DEF vars
  <2>2. After' = After BY <2>1 DEF After
  <2> QED BY <1>t, <1>c, <2>1, <2>2 DEF KvInv, AllOrNothing
<1> QED
  BY <1>1, <1>2, <1>3, <1>4, <1>5, <1>6, <1>7, <1>8, <1>9, <1>10, <1>11, <1>12
  DEF Next, Step

\* The state of the store stays well formed in every execution.
THEOREM TypeCorrect == Spec => []TypeOK
<1>1. KvInv => TypeOK BY DEF KvInv
<1> QED BY <1>1, KvInvInit, KvInvStep, PTL DEF Spec

\* flash_kv_set() and flash_kv_erase_key() do all or nothing, whichever of
\* append(), rebuild() and write_verified() they end in and however often
\* power was cut before.
THEOREM AllOrNothingHolds == Spec => []AllOrNothing
<1>1. KvInv => AllOrNothing BY DEF KvInv
<1> QED BY <1>1, KvInvInit, KvInvStep, PTL DEF Spec

-----------------------------------------------------------------------------
(* The store implements KvStore.                                           *)

\* An operation that leaves After behind is a Put or a Remove of the map.
LEMMA PutOrRemove ==
    ASSUME TypeOK, job.op = "put", StoreMap = before, StoreMap' = After
    PROVE  Abstract!Next
<1>1. After = [before EXCEPT ![job.key] = job.val]
  BY DEF After
<1>2. job.key \in Keys /\ job.val \in Values \cup {None}
  BY DEF TypeOK, Job
<1>3. CASE job.val = None
  <2>1. Abstract!Remove(job.key) BY <1>1, <1>3 DEF Abstract!Remove
  <2> QED BY <1>2, <2>1 DEF Abstract!Next
<1>4. CASE job.val \in Values
  <2>1. Abstract!Put(job.key, job.val) BY <1>1 DEF Abstract!Put
  <2> QED BY <1>2, <1>4, <2>1 DEF Abstract!Next
<1> QED BY <1>2, <1>3, <1>4

\* Every step of the store is a step of the map, leaves the map alone, or is a cut of
\* the sector's erase or rewrite.
LEMMA StepRefines ==
    ASSUME KvInv, [Next]_vars
    PROVE  [Abstract!Next \/ CutErase \/ CutRewrite]_StoreMap
<1>t. TypeOK BY DEF KvInv
<1>c. UNCHANGED <<header, log>> => Contents' = Contents
  BY DEF Contents, Get, Walked
<1>1. ASSUME NEW k \in Keys, NEW v \in Values, Set(k, v) PROVE StoreMap' = StoreMap
  BY <1>c, <1>1 DEF Set, Begin, OutOfMemory, Return, StartAppend, flash, StoreMap
<1>2. ASSUME NEW k \in Keys, EraseKey(k) PROVE StoreMap' = StoreMap
  BY <1>c, <1>2 DEF EraseKey, Begin, OutOfMemory, Return, StartAppend, flash, StoreMap
<1>3. ASSUME NEW k \in Keys, StartErase(k) PROVE StoreMap' = StoreMap
  BY <1>c, <1>3 DEF StartErase, Begin, StoreMap
<1>4. CASE Unprotect \/ Reprotect
  <2>1. StoreMap' = StoreMap
    BY <1>c, <1>4 DEF Unprotect, Reprotect, StoreMap
  <2> QED BY <2>1
<1>5. CASE AppendRecord \/ CutAppend
  <2>1. pc = "append" /\ pc' = "idle" /\ header' = header
    BY <1>5 DEF AppendRecord, CutAppend, Return, Reboot
  <2>2. StoreMap = Contents /\ StoreMap' = Contents'
    BY <2>1 DEF StoreMap
  <2>3. CASE log' = log
    BY <1>c, <2>1, <2>2, <2>3
  <2>4. CASE log' # log
    <3>1. log' = Append(log, [key |-> job.key, val |-> job.val])
      BY <1>5, <2>4 DEF AppendRecord, CutAppend
    <3>2. Contents' = After
      BY <1>t, <2>1, <3>1, AppendStores DEF KvInv
    <3> QED BY <1>t, <2>1, <2>2, <3>2, PutOrRemove DEF KvInv
  <2> QED BY <2>3, <2>4
<1>6. CASE CollectStep \/ CollectDone
  <2>1. StoreMap' = StoreMap
    BY <1>c, <1>6 DEF CollectStep, CollectDone, Return, flash, StoreMap
  <2> QED BY <2>1
<1>7. CASE EraseSector
  <2>1. CASE protected
    BY <1>c, <1>7, <2>1 DEF EraseSector, StoreMap
  <2>2. CASE ~protected
    <3>1. StoreMap = before
      BY <1>7 DEF EraseSector, StoreMap, KvInv
    <3>2. StoreMap' = [k \in Keys |-> Newest(image, k)]
      BY <1>7, <2>2 DEF EraseSector, StoreMap, heap
    <3>3. StoreMap' = After
      <4>1. \A k \in Keys : Newest(image, k) = After[k] BY <1>7 DEF EraseSector, KvInv
      <4>2. After \in [Keys -> Values \cup {None}] BY <1>t DEF After, TypeOK, Job
      <4> QED BY <3>2, <4>1, <4>2
    <3> QED BY <1>t, <1>7, <3>1, <3>3, PutOrRemove DEF EraseSector, KvInv
  <2> QED BY <2>1, <2>2
<1>8. CASE Rewrite
  <2>1. CASE protected
    BY <1>c, <1>8, <2>1 DEF Rewrite, Return, StoreMap
  <2>2. CASE ~protected
    <3>1. header' = "ours" /\ log' = image /\ pc = "rewrite" /\ pc' = "idle"
      BY <1>8, <2>2 DEF Rewrite, Return
    <3>2. StoreMap' = StoreMap
      BY <2>2, <3>1 DEF StoreMap, Contents, Get, Walked
    <3> QED BY <3>2
  <2> QED BY <2>1, <2>2
<1>9. CASE FinishErase
  <2>1. CASE header' = "blank"
    <3>1. StoreMap' = [k \in Keys |-> None]
      BY <1>9, <2>1, NewestEmpty DEF FinishErase, Return, StoreMap, Contents, Get, Walked
    <3> QED BY <3>1 DEF Abstract!Next, Abstract!Clear
  <2>2. CASE UNCHANGED <<header, log>>
    <3>1. StoreMap' = StoreMap BY <1>9, <1>c, <2>2 DEF FinishErase, Return, StoreMap
    <3> QED BY <3>1
  <2> QED BY <1>9, <2>1, <2>2 DEF FinishErase, Return
<1>10. CASE CutErase \/ CutRewrite
  BY <1>10
<1>11. CASE UNCHANGED vars
  BY <1>c, <1>11 DEF vars, StoreMap
<1> QED
  BY <1>1, <1>2, <1>3, <1>4, <1>5, <1>6, <1>7, <1>8, <1>9, <1>10, <1>11 DEF Next, Step

\* The log-structured store, with its appends cut anywhere by power loss, its
\* compactions and its refused writes, is an implementation of one map that
\* changes by whole operations only, but for a cut between the start of an erase
\* and the end of the rewrite: a sector lost there is a lost map.
THEOREM StoreImplementsMap == Spec => ImplementsKvStore
<1>1. Init => Abstract!Init
  <2> SUFFICES ASSUME Init PROVE StoreMap \in [Keys -> Values \cup {None}]
    BY DEF Abstract!Init, Abstract!TypeOK
  <2>1. StoreMap = Contents BY DEF Init, StoreMap
  <2>2. Walked \in Seq(Record) BY DEF Init, Walked
  <2> QED BY <2>1, <2>2, NewestType DEF Contents, Get
<1>2. KvInv /\ [Next]_vars => [Abstract!Next \/ CutErase \/ CutRewrite]_StoreMap
  BY StepRefines
<1> QED BY <1>1, <1>2, KvInvInit, KvInvStep, PTL DEF Spec, ImplementsKvStore
-----------------------------------------------------------------------------
(* Power cuts, repairs and the two ways to read.                           *)

\* What the last operation left behind, and, while a rebuild is under way, an
\* image with at most one record of each key, so that a part of it has no key
\* with an older value than the whole.
OutcomeInv ==
    /\ CutOutcome
    /\ WriteRepairs
    /\ pc \in {"erase", "rewrite"} => Unique(image)

\* The records of the image that a cut rewrite has written read as the image does,
\* or as if the key were gone.
LEMMA NewestOfPart ==
    ASSUME NEW s \in Seq(Record), Unique(s), NEW n \in 0..Len(s), NEW k \in Keys
    PROVE  Newest(SubSeq(s, 1, n), k) \in {Newest(s, k), None}
<1> DEFINE t == SubSeq(s, 1, n)
<1>1. /\ t \in Seq(Record) /\ Len(t) = n /\ Len(s) \in Nat /\ n \in Nat
      /\ \A i \in 1..n : t[i] = s[i] /\ i \in 1..Len(s)
  OBVIOUS
<1> HIDE DEF t
<1>2. CASE \E i \in 1..Len(t) : IsLastPos(t, k, i)
  <2>1. PICK i \in 1..Len(t) : IsLastPos(t, k, i) BY <1>2
  <2>2. Newest(t, k) = t[i].val BY <1>1, <2>1, LastPosIs
  <2>3. i \in 1..Len(s) /\ t[i] = s[i] /\ s[i].key = k BY <1>1, <2>1 DEF IsLastPos, Positions
  <2>4. IsLastPos(s, k, i) BY <2>3 DEF IsLastPos, Positions, Unique
  <2> QED BY <2>2, <2>3, <2>4, LastPosIs DEF t
<1>3. CASE ~ \E i \in 1..Len(t) : IsLastPos(t, k, i)
  BY <1>3 DEF Newest, t
<1> QED BY <1>2, <1>3

\* Every step preserves what is known of the last operation.
LEMMA OutcomeStep == KvInv /\ OutcomeInv /\ [Next]_vars => OutcomeInv'
<1> SUFFICES ASSUME KvInv, OutcomeInv, [Next]_vars PROVE OutcomeInv'
  OBVIOUS
<1>t. TypeOK /\ TypeOK' BY TypeStep DEF KvInv
<1>c. UNCHANGED <<header, log>> => Contents' = Contents /\ Walked' = Walked
  BY DEF Contents, Get, Walked
<1>1. ASSUME NEW k \in Keys, EraseKey(k) \/ \E v \in Values : Set(k, v) PROVE OutcomeInv'
  <2>1. /\ Contents' = Contents /\ before' = Contents
        /\ pc' \in {"idle", "append", "collect"} /\ ret' \in {"none", "ok", "ENOMEM"}
    BY <1>1, <1>c DEF Set, EraseKey, Begin, OutOfMemory, Return, StartAppend, flash
  <2> QED BY <2>1 DEF OutcomeInv, CutOutcome, WriteRepairs
<1>2. ASSUME NEW k \in Keys, StartErase(k) PROVE OutcomeInv'
  BY <1>2 DEF StartErase, OutcomeInv, CutOutcome, WriteRepairs
<1>3. CASE Unprotect \/ Reprotect
  BY <1>3 DEF Unprotect, Reprotect, OutcomeInv, CutOutcome, WriteRepairs
<1>4. CASE AppendRecord
  <2>1. pc = "append" /\ pc' = "idle" /\ ret' \in {"ok", "EIO"} /\ header' = header /\ header = "ours"
    BY <1>4 DEF AppendRecord, Return, KvInv
  <2>2. ret' = "ok" => tail' = "blank" BY <1>4 DEF AppendRecord, Return
  <2> QED BY <2>1, <2>2 DEF OutcomeInv, CutOutcome, WriteRepairs, Scan
<1>5. CASE CollectStep
  BY <1>5 DEF CollectStep, OutcomeInv, CutOutcome, WriteRepairs
<1>6. CASE CollectDone
  <2>1. pc = "collect" /\ pc' \in {"idle", "erase"} /\ (pc' = "idle" => ret' = "ENOSPC")
        /\ image' = ImagePut(image, job.key, job.val).img
    BY <1>6 DEF CollectDone, Return
  <2>2. Unique(ImagePut(image, job.key, job.val).img)
    BY <1>t, <2>1, ImagePutStores DEF KvInv, TypeOK, Job
  <2> QED BY <2>1, <2>2 DEF OutcomeInv, CutOutcome, WriteRepairs
<1>7. CASE EraseSector
  BY <1>7 DEF EraseSector, heap, OutcomeInv, CutOutcome, WriteRepairs
<1>8. CASE Rewrite
  <2>1. pc = "rewrite" /\ pc' = "idle" /\ ret' \in {"ok", "EIO"} /\ before' = before
    BY <1>8 DEF Rewrite, Return
  <2>2. CASE protected
    <3>1. Contents' = before' BY <1>8, <1>c, <2>1, <2>2 DEF Rewrite, KvInv
    <3> QED BY <2>1, <3>1 DEF OutcomeInv, CutOutcome, WriteRepairs
  <2>3. CASE ~protected
    <3>1. header' = "ours" /\ tail' = "blank" BY <1>8, <2>3 DEF Rewrite
    <3> QED BY <2>1, <3>1 DEF OutcomeInv, CutOutcome, WriteRepairs, Scan
  <2> QED BY <2>2, <2>3
<1>9. CASE FinishErase
  <2>1. pc' = "idle" /\ ret' \in {"ok", "EIO"} /\ job'.op = "wipe" BY <1>9 DEF FinishErase, Return, KvInv
  <2> QED BY <2>1 DEF OutcomeInv, CutOutcome, WriteRepairs
<1>10. CASE CutAppend
  <2>1. /\ pc = "append" /\ pc' = "idle" /\ ret' = "cut_append" /\ header' = header
        /\ UNCHANGED <<job, before>>
        /\ log' \in {log, Append(log, [key |-> job.key, val |-> job.val])}
    BY <1>10 DEF CutAppend, Reboot, Return
  <2>2. Contents = before /\ header = "ours" /\ job.op = "put" BY <2>1 DEF KvInv
  <2>3. After' = After BY <2>1 DEF After
  <2>4. Contents' \in {before, After} BY <1>c, <1>t, <2>1, <2>2, AppendStores
  <2> QED BY <2>1, <2>3, <2>4 DEF OutcomeInv, CutOutcome, WriteRepairs
<1>11. CASE CutErase
  BY <1>11 DEF CutErase, Reboot, Return, OutcomeInv, CutOutcome, WriteRepairs
<1>12. CASE CutRewrite
  <2>1. /\ pc = "rewrite" /\ pc' = "idle" /\ ret' = "cut_rewrite" /\ UNCHANGED <<job, before>>
        /\ \E n \in 0..Len(image) : Damaged(image, n)
    BY <1>12 DEF CutRewrite, Reboot, Return
  <2>2. PICK n \in 0..Len(image) : Damaged(image, n) BY <2>1
  <2>3. After' = After BY <2>1 DEF After
  <2>4. image \in Seq(Record) /\ Unique(image) /\ \A k \in Keys : Newest(image, k) = After[k]
    BY <1>t, <2>1 DEF TypeOK, OutcomeInv, KvInv
  <2>5. ASSUME NEW k \in Keys PROVE Contents'[k] \in {After[k], None}
    <3>1. Contents'[k] = Newest(Walked', k) BY DEF Contents, Get
    <3>2. Walked' = <<>> \/ Walked' = SubSeq(image, 1, n) BY <2>2 DEF Damaged, Walked
    <3>3. Newest(<<>>, k) = None BY NewestEmpty
    <3>4. Newest(SubSeq(image, 1, n), k) \in {Newest(image, k), None} BY <2>4, NewestOfPart
    <3> QED BY <2>4, <3>1, <3>2, <3>3, <3>4
  <2> QED BY <2>1, <2>3, <2>5 DEF OutcomeInv, CutOutcome, WriteRepairs
<1>13. CASE UNCHANGED vars
  <2>1. After' = After /\ Scan' = Scan BY <1>13 DEF vars, After, Scan
  <2> QED BY <1>c, <1>13, <2>1 DEF vars, OutcomeInv, CutOutcome, WriteRepairs
<1> QED
  BY <1>1, <1>2, <1>3, <1>4, <1>5, <1>6, <1>7, <1>8, <1>9, <1>10, <1>11, <1>12, <1>13
  DEF Next, Step

\* Nothing has been done or cut yet.
LEMMA OutcomeInit == Init => OutcomeInv
BY DEF Init, OutcomeInv, CutOutcome, WriteRepairs

\* Power lost inside append() leaves the old contents or the new; power lost
\* inside the rewrite of rebuild() loses keys and brings no old value back.
THEOREM CutsAreHarmless == Spec => []CutOutcome
<1>1. OutcomeInv => CutOutcome BY DEF OutcomeInv
<1> QED BY <1>1, KvInvInit, KvInvStep, OutcomeInit, OutcomeStep, PTL DEF Spec

\* After a write that changed a key scan() finds a sound log, whatever a cut had
\* left there.
THEOREM WritesRepair == Spec => []WriteRepairs
<1>1. OutcomeInv => WriteRepairs BY DEF OutcomeInv
<1> QED BY <1>1, KvInvInit, KvInvStep, OutcomeInit, OutcomeStep, PTL DEF Spec

\* A key with a record has a last one.
LEMMA LastPosExists ==
    ASSUME NEW s \in Seq(Record), NEW k \in Keys, NEW i \in Positions(s, k)
    PROVE  \E p \in 1..Len(s) : IsLastPos(s, k, p)
<1> DEFINE R == OpToRel(<, Nat)
           T == {Len(s) - p : p \in Positions(s, k)}
<1>0. Len(s) \in Nat /\ Positions(s, k) \subseteq 1..Len(s) BY DEF Positions
<1>1. IsWellFoundedOn(R, Nat) BY NatLessThanWellFounded, Zenon
<1>2. T \subseteq Nat /\ T # {} BY <1>0
<1>a. \A x, y \in Nat : ~(<<y, x>> \in R) => x <= y BY DEF OpToRel
<1> HIDE DEF R
<1>3. \E x \in T : \A y \in T : ~(<<y, x>> \in R) BY <1>1, <1>2, WFMin
<1>4. PICK p \in Positions(s, k) : \A y \in T : ~(<<y, Len(s) - p>> \in R) BY <1>3
<1>5. \A q \in Positions(s, k) : Len(s) - p <= Len(s) - q BY <1>2, <1>4, <1>a
<1>6. \A q \in Positions(s, k) : q <= p BY <1>0, <1>5
<1> QED BY <1>0, <1>6 DEF IsLastPos

-----------------------------------------------------------------------------
(* Sums of record sizes.                                                   *)

\* Induction over the naturals, for a set of them.
LEMMA EveryNat ==
    ASSUME NEW S \in SUBSET Nat, 0 \in S, \A n \in S : n + 1 \in S
    PROVE  S = Nat
<1> DEFINE R == OpToRel(<, Nat)
           T == Nat \ S
<1>1. IsWellFoundedOn(R, Nat) BY NatLessThanWellFounded, Zenon
<1>2. \A x, y \in T : ~(<<y, x>> \in R) => x <= y BY DEF OpToRel
<1> HIDE DEF R
<1>3. CASE T # {}
  <2>1. T \subseteq Nat OBVIOUS
  <2> HIDE DEF T
  <2>2. \E x \in T : \A y \in T : ~(<<y, x>> \in R) BY <1>1, <1>3, <2>1, WFMin
  <2>3. PICK x \in T : \A y \in T : x <= y BY <1>2, <2>2
  <2>4. x \in Nat /\ x # 0 /\ x \notin S BY DEF T
  <2>5. x - 1 \in Nat /\ ~(x <= x - 1) /\ (x - 1) + 1 = x BY <2>4
  <2>6. x - 1 \in S BY <2>3, <2>5 DEF T
  <2> QED BY <2>4, <2>5, <2>6
<1>4. CASE T = {}
  BY <1>4
<1> QED BY <1>3, <1>4

\* The same up to a bound.
LEMMA EveryUpTo ==
    ASSUME NEW m \in Nat, NEW S, 0 \in S, \A n \in 0..(m - 1) : n \in S => n + 1 \in S
    PROVE  \A n \in 0..m : n \in S
<1> DEFINE T == {n \in Nat : n <= m => n \in S}
<1>1. 0 \in T OBVIOUS
<1>2. ASSUME NEW n \in T PROVE n + 1 \in T
  <2>1. n \in Nat /\ n + 1 \in Nat OBVIOUS
  <2>2. CASE n + 1 <= m
    <3>1. n \in 0..(m - 1) /\ n <= m BY <2>1, <2>2
    <3> QED BY <2>1, <3>1
  <2>3. CASE ~(n + 1 <= m) BY <2>1, <2>3
  <2> QED BY <2>2, <2>3
<1>3. T \in SUBSET Nat OBVIOUS
<1> HIDE DEF T
<1>4. T = Nat BY <1>1, <1>2, <1>3, EveryNat
<1>5. \A n \in 0..m : n \in Nat /\ n <= m OBVIOUS
<1> QED BY <1>4, <1>5 DEF T

\* Sums of ordered terms are ordered.
LEMMA SumsOrdered ==
    \A a, b, c, d \in Nat : a <= b /\ c <= d => a + c <= b + d
OBVIOUS

\* The terms of a sum may be taken in any order.
LEMMA SumsRegroup ==
    \A a, b, c \in Nat : (a + b) + c = (a + c) + b /\ a + (c + b) = (a + c) + b
OBVIOUS

\* A natural number is no greater than itself.
LEMMA NatSame == \A a \in Nat : a <= a
OBVIOUS

\* The order of the naturals is transitive.
LEMMA NatOrder ==
    ASSUME NEW a \in Nat, NEW b \in Nat, NEW c \in Nat, a <= b, b <= c
    PROVE  a <= c
OBVIOUS

\* A size in a run of sizes.
LEMMA SizeIsNat ==
    \A z \in Seq(Nat) : \A i \in 1..Len(z) : z[i] \in Nat
OBVIOUS

\* A sum is a natural number no less than its terms.
LEMMA SumsGrow ==
    \A a, b \in Nat : a + b \in Nat /\ a <= a + b
OBVIOUS

\* g holds the offset behind each of the records: g[i] behind the first i.
Offsets(g, z) ==
    /\ g \in [0..Len(z) -> Nat]
    /\ g[0] = HeaderSize
    /\ \A i \in 1..Len(z) : g[i] = g[i - 1] + z[i]

\* Any run of records has such offsets.
LEMMA OffsetsExist ==
    ASSUME NEW z \in Seq(Nat)
    PROVE  \E g : Offsets(g, z)
<1> DEFINE Upto(n, g) == /\ g \in [0..n -> Nat]
                         /\ g[0] = HeaderSize
                         /\ \A i \in 1..n : g[i] = g[i - 1] + z[i]
           S == {n \in Nat : n <= Len(z) => \E g : Upto(n, g)}
<1>0. Len(z) \in Nat OBVIOUS
<1>1. 0 \in S
  <2>1. Upto(0, [i \in 0..0 |-> HeaderSize]) BY DEF HeaderSize
  <2> QED BY <2>1
<1>2. ASSUME NEW n \in S PROVE n + 1 \in S
  <2>1. CASE n + 1 <= Len(z)
    <3>1. n \in Nat /\ n <= Len(z) BY <1>0, <2>1
    <3>2. PICK g : Upto(n, g) BY <3>1
    <3> DEFINE h == [i \in 0..(n + 1) |-> IF i <= n THEN g[i] ELSE g[n] + z[n + 1]]
    <3>3. g[n] \in Nat /\ z[n + 1] \in Nat BY <1>0, <2>1, <3>1, <3>2
    <3>4. h \in [0..(n + 1) -> Nat]
      <4>1. \A i \in 0..(n + 1) : i <= n => i \in 0..n BY <3>1
      <4>2. \A i \in 0..n : g[i] \in Nat BY <3>2, Zenon
      <4>3. g[n] + z[n + 1] \in Nat BY <3>3, SumsGrow, Zenon
      <4> QED BY <4>1, <4>2, <4>3
    <3>5. h[0] = HeaderSize BY <3>1, <3>2
    <3>6. ASSUME NEW i \in 1..(n + 1) PROVE h[i] = h[i - 1] + z[i]
      <4>1. i - 1 \in 0..n /\ i \in 0..(n + 1) /\ i - 1 <= n BY <3>1
      <4>2. h[i - 1] = g[i - 1] BY <4>1, <3>1
      <4>3. CASE i <= n
        <5>1. i \in 1..n BY <3>1, <4>3
        <5> QED BY <3>2, <4>1, <4>2, <4>3, <5>1
      <4>4. CASE ~(i <= n)
        <5>1. i = n + 1 /\ i - 1 = n BY <3>1, <4>4
        <5> QED BY <4>1, <4>2, <4>4, <5>1
      <4> QED BY <4>3, <4>4
    <3> HIDE DEF h
    <3>7. Upto(n + 1, h) BY <3>4, <3>5, <3>6
    <3>8. n + 1 \in Nat BY <3>1
    <3> HIDE DEF Upto
    <3> QED BY <3>7, <3>8, Zenon
  <2>2. CASE ~(n + 1 <= Len(z))
    BY <2>2
  <2> QED BY <2>1, <2>2
<1>3. S \in SUBSET Nat OBVIOUS
<1> HIDE DEF S
<1>4. S = Nat BY <1>1, <1>2, <1>3, EveryNat
<1>5. \E g : Upto(Len(z), g) BY <1>0, <1>4 DEF S
<1> QED BY <1>5 DEF Offsets

\* They are the offsets walk() computes.
LEMMA BehindIs ==
    ASSUME NEW z \in Seq(Nat), NEW g, Offsets(g, z)
    PROVE  Behind(z) = g[Len(z)]
<1> DEFINE Def(u) == u = [n \in 0..Len(z) |-> IF n = 0 THEN HeaderSize ELSE u[n - 1] + z[n]]
           c == CHOOSE u : Def(u)
           S == {n \in Nat : n <= Len(z) => c[n] = g[n]}
<1>0. Len(z) \in Nat OBVIOUS
<1>1. Def(g) BY <1>0 DEF Offsets
<1>2. Def(c) BY <1>1, Zenon
<1>3. Behind(z) = c[Len(z)] BY DEF Behind
<1> HIDE DEF c
<1>4. 0 \in S BY <1>0, <1>2 DEF Offsets
<1>5. ASSUME NEW n \in S PROVE n + 1 \in S
  <2>1. CASE n + 1 <= Len(z)
    <3>1. n \in Nat /\ n <= Len(z) /\ n + 1 \in 0..Len(z) /\ n + 1 \in 1..Len(z) /\ n + 1 # 0 /\ (n + 1) - 1 = n
      BY <1>0, <2>1
    <3>2. c[n + 1] = c[n] + z[n + 1] BY <1>2, <3>1
    <3>3. g[n + 1] = g[n] + z[n + 1] BY <3>1 DEF Offsets
    <3>4. c[n] = g[n] BY <3>1
    <3> QED BY <3>1, <3>2, <3>3, <3>4
  <2>2. CASE ~(n + 1 <= Len(z))
    BY <2>2
  <2> QED BY <2>1, <2>2
<1>6. S \in SUBSET Nat OBVIOUS
<1> HIDE DEF S
<1>7. S = Nat BY <1>4, <1>5, <1>6, EveryNat
<1>8. c[Len(z)] = g[Len(z)] BY <1>0, <1>7 DEF S
<1> QED BY <1>3, <1>8

\* Offsets grow from record to record.
LEMMA OffsetsGrow ==
    ASSUME NEW z \in Seq(Nat), NEW g, Offsets(g, z), NEW m \in 0..Len(z)
    PROVE  g[m] <= g[Len(z)]
<1> DEFINE S == {n \in Nat : m + n <= Len(z) => g[m] <= g[m + n]}
<1>0. Len(z) \in Nat /\ m \in Nat OBVIOUS
<1>1. g \in [0..Len(z) -> Nat] BY DEF Offsets
<1>2. 0 \in S
  <2>1. g[m] \in Nat /\ m + 0 = m BY <1>0, <1>1
  <2> QED BY <2>1
<1>3. ASSUME NEW n \in S PROVE n + 1 \in S
  <2>1. CASE m + (n + 1) <= Len(z)
    <3>1. /\ n \in Nat /\ m + n <= Len(z) /\ m + n \in 0..Len(z)
          /\ m + (n + 1) \in 1..Len(z) /\ (m + (n + 1)) - 1 = m + n
      BY <1>0, <2>1
    <3>2. g[m + (n + 1)] = g[m + n] + z[m + (n + 1)] BY <3>1 DEF Offsets
    <3>3. z[m + (n + 1)] \in Nat BY <3>1, SizeIsNat, Zenon
    <3>7. g[m] \in Nat /\ g[m + n] \in Nat BY <1>1, <3>1, Zenon
    <3>4. g[m] <= g[m + n] BY <3>1
    <3>5. g[m] <= g[m + (n + 1)]
      <4>1. g[m + n] <= g[m + (n + 1)] /\ g[m + (n + 1)] \in Nat BY <3>2, <3>3, <3>7, SumsGrow, Zenon
      <4> QED BY <3>4, <3>7, <4>1, NatOrder, ZenonT(40)
    <3>6. n + 1 \in Nat BY <3>1
    <3> QED BY <3>5, <3>6
  <2>2. CASE ~(m + (n + 1) <= Len(z))
    BY <2>2
  <2> QED BY <2>1, <2>2
<1>4. S \in SUBSET Nat OBVIOUS
<1> HIDE DEF S
<1>5. S = Nat BY <1>2, <1>3, <1>4, EveryNat
<1>6. Len(z) - m \in S BY <1>0, <1>5
<1>7. m + (Len(z) - m) = Len(z) BY <1>0
<1> QED BY <1>0, <1>6, <1>7 DEF S

\* The offset behind the first records of a run.
LEMMA BehindFirst ==
    ASSUME NEW z \in Seq(Nat), NEW g, Offsets(g, z), NEW y \in Seq(Nat), Len(y) <= Len(z),
           \A i \in 1..Len(y) : y[i] = z[i]
    PROVE  Behind(y) = g[Len(y)]
<1> DEFINE h == [i \in 0..Len(y) |-> g[i]]
<1>1. Len(y) \in Nat /\ Len(z) \in Nat OBVIOUS
<1>2. h \in [0..Len(y) -> Nat] /\ h[0] = HeaderSize BY <1>1 DEF Offsets
<1>3. ASSUME NEW i \in 1..Len(y) PROVE h[i] = h[i - 1] + y[i]
  <2>1. i \in 1..Len(z) /\ i \in 0..Len(y) /\ i - 1 \in 0..Len(y) BY <1>1
  <2>2. g[i] = g[i - 1] + z[i] BY <2>1 DEF Offsets
  <2> QED BY <2>1, <2>2
<1>4. h[Len(y)] = g[Len(y)] BY <1>1
<1> HIDE DEF h
<1>5. Offsets(h, y) BY <1>2, <1>3 DEF Offsets
<1> QED BY <1>4, <1>5, BehindIs

\* The records of a run take room behind the header.
LEMMA BehindType ==
    ASSUME NEW z \in Seq(Nat)
    PROVE  Behind(z) \in Nat /\ Behind(z) >= HeaderSize /\ (Len(z) = 0 => Behind(z) = HeaderSize)
<1>1. PICK g : Offsets(g, z) BY OffsetsExist
<1>2. Behind(z) = g[Len(z)] BY <1>1, BehindIs
<1>3. Len(z) \in Nat /\ 0 \in 0..Len(z) OBVIOUS
<1>4. g[0] <= g[Len(z)] BY <1>1, <1>3, OffsetsGrow
<1>5. g[0] = HeaderSize /\ g[Len(z)] \in Nat BY <1>1, <1>3 DEF Offsets
<1> QED BY <1>2, <1>4, <1>5 DEF HeaderSize

\* A run of records ends no earlier than its first records, and later by the
\* size of the last one.
LEMMA BehindPart ==
    ASSUME NEW z \in Seq(Nat), NEW y \in Seq(Nat), Len(y) <= Len(z),
           \A i \in 1..Len(y) : y[i] = z[i]
    PROVE  /\ Behind(y) <= Behind(z)
           /\ Len(z) = Len(y) + 1 => Behind(z) = Behind(y) + z[Len(z)]
<1>1. PICK g : Offsets(g, z) BY OffsetsExist
<1>2. Behind(z) = g[Len(z)] BY <1>1, BehindIs
<1>3. Behind(y) = g[Len(y)] BY <1>1, BehindFirst
<1>4. Len(y) \in 0..Len(z) /\ Len(z) \in Nat OBVIOUS
<1>5. g[Len(y)] <= g[Len(z)] BY <1>1, <1>4, OffsetsGrow
<1>6. ASSUME Len(z) = Len(y) + 1 PROVE g[Len(z)] = g[Len(y)] + z[Len(z)]
  <2>1. Len(z) \in 1..Len(z) /\ Len(z) - 1 = Len(y) BY <1>4, <1>6
  <2>2. g[Len(z)] = g[Len(z) - 1] + z[Len(z)] BY <1>1, <2>1 DEF Offsets
  <2> QED BY <2>1, <2>2
<1> QED BY <1>2, <1>3, <1>5, <1>6

\* Taking one record out of a run makes it no longer.
LEMMA BehindDrop ==
    ASSUME NEW z \in Seq(Nat), NEW y \in Seq(Nat), NEW p \in 1..Len(z), Len(y) = Len(z) - 1,
           \A i \in 1..Len(y) : y[i] = IF i < p THEN z[i] ELSE z[i + 1]
    PROVE  Behind(y) <= Behind(z)
<1>1. PICK g : Offsets(g, z) BY OffsetsExist
<1>2. PICK h : Offsets(h, y) BY OffsetsExist
<1>3. Behind(z) = g[Len(z)] /\ Behind(y) = h[Len(y)] BY <1>1, <1>2, BehindIs
<1>0. Len(z) \in Nat /\ Len(y) \in Nat /\ p \in Nat /\ 1 <= p /\ p <= Len(z) OBVIOUS
<1>t. g \in [0..Len(z) -> Nat] /\ h \in [0..Len(y) -> Nat] BY <1>1, <1>2 DEF Offsets
<1> DEFINE P(n) == /\ n < p => h[n] <= g[n]
                   /\ n >= p => h[n] <= g[n + 1]
           S == {n \in 0..Len(y) : P(n)}
<1>4. P(0)
  <2>1. h[0] = g[0] /\ g[0] \in Nat BY <1>1, <1>2 DEF Offsets, HeaderSize
  <2> QED BY <1>0, <2>1
<1> HIDE DEF P
<1>5. ASSUME NEW n \in 0..(Len(y) - 1), P(n) PROVE P(n + 1)
  <2>1. n \in 0..Len(y) /\ n + 1 \in 1..Len(y) /\ (n + 1) - 1 = n /\ n \in Nat BY <1>0
  <2>2. n \in 0..Len(z) /\ n + 1 \in 1..Len(z) /\ n + 1 \in 0..Len(z) BY <1>0, <2>1
  <2>3. n + 2 \in 1..Len(z) /\ n + 2 \in 0..Len(z) /\ (n + 2) - 1 = n + 1 /\ (n + 1) + 1 = n + 2 BY <1>0, <2>1
  <2>4. h[n + 1] = h[n] + y[n + 1] BY <1>2, <2>1 DEF Offsets
  <2>5. g[n + 1] = g[n] + z[n + 1] BY <1>1, <2>1, <2>2 DEF Offsets
  <2>6. g[n + 2] = g[n + 1] + z[n + 2] BY <1>1, <2>3 DEF Offsets
  <2>7. h[n] \in Nat /\ g[n] \in Nat /\ g[n + 1] \in Nat BY <1>t, <2>1, <2>2
  <2>8. z[n + 1] \in Nat BY <2>2, SizeIsNat, Zenon
  <2>9. z[n + 2] \in Nat BY <2>3, SizeIsNat, Zenon
  <2>10. g[n] <= g[n + 1] BY <2>5, <2>7, <2>8, SumsGrow, Zenon
  <2>11. CASE n + 1 < p
    <3>1. y[n + 1] = z[n + 1] BY <2>1, <2>11
    <3>2. h[n] <= g[n] BY <1>0, <2>1, <2>11, <1>5 DEF P
    <3>3. z[n + 1] <= z[n + 1] BY <2>8, NatSame, Zenon
    <3>4. h[n] + z[n + 1] <= g[n] + z[n + 1] BY <2>7, <2>8, <3>2, <3>3, SumsOrdered, Zenon
    <3>5. h[n + 1] <= g[n + 1] BY <2>4, <2>5, <3>1, <3>4, Zenon
    <3>6. ~(n + 1 >= p) BY <1>0, <2>1, <2>11
    <3> QED BY <3>5, <3>6 DEF P
  <2>12. CASE ~(n + 1 < p)
    <3>1. y[n + 1] = z[n + 2]
      <4>1. y[n + 1] = z[(n + 1) + 1] BY <2>1, <2>12, Zenon
      <4> QED BY <2>3, <4>1, Zenon
    <3>2. h[n] <= g[n + 1]
      <4>1. CASE n < p
        <5>1. h[n] <= g[n] BY <1>5, <4>1 DEF P
        <5> QED BY <2>7, <2>10, <5>1, NatOrder, ZenonT(40)
      <4>2. CASE n >= p BY <1>5, <4>2 DEF P
      <4> QED BY <1>0, <2>1, <4>1, <4>2
    <3>3. z[n + 2] <= z[n + 2] BY <2>9, NatSame, Zenon
    <3>4. h[n] + z[n + 2] <= g[n + 1] + z[n + 2] BY <2>7, <2>9, <3>2, <3>3, SumsOrdered, Zenon
    <3>5. h[n + 1] <= g[(n + 1) + 1] BY <2>3, <2>4, <2>6, <3>1, <3>4, Zenon
    <3> QED BY <2>12, <3>5 DEF P
  <2> QED BY <2>11, <2>12
<1>6. P(Len(y))
  <2>1. 0 \in S BY <1>0, <1>4
  <2>2. \A n \in 0..(Len(y) - 1) : n \in S => n + 1 \in S BY <1>0, <1>5
  <2> HIDE DEF S
  <2>3. \A n \in 0..Len(y) : n \in S BY <1>0, <2>1, <2>2, EveryUpTo
  <2>4. Len(y) \in S BY <1>0, <2>3
  <2> QED BY <2>4 DEF S
<1>7. Len(y) + 1 = Len(z) /\ Len(y) \in 0..Len(z) BY <1>0
<1>8. g[Len(y)] <= g[Len(z)] BY <1>1, <1>7, OffsetsGrow
<1>9. h[Len(y)] \in Nat /\ g[Len(y)] \in Nat
  <2>1. Len(y) \in 0..Len(y) BY <1>0
  <2> QED BY <1>t, <1>7, <2>1, Zenon
<1>10. g[Len(z)] \in Nat
  <2>1. Len(z) \in 0..Len(z) BY <1>0
  <2> QED BY <1>t, <2>1, Zenon
<1>11. h[Len(y)] <= g[Len(z)]
  <2>1. CASE Len(y) < p
    <3>1. h[Len(y)] <= g[Len(y)] BY <1>6, <2>1 DEF P
    <3> QED BY <1>8, <1>9, <1>10, <3>1, NatOrder, ZenonT(40)
  <2>2. CASE Len(y) >= p BY <1>6, <1>7, <2>2 DEF P
  <2> QED BY <1>0, <2>1, <2>2
<1> QED BY <1>3, <1>11

\* Records that are no shorter, one of them longer by x, end at least x later.
LEMMA BehindMore ==
    ASSUME NEW z \in Seq(Nat), NEW y \in Seq(Nat), Len(y) = Len(z), NEW x \in Nat,
           NEW p \in 1..Len(z), z[p] + x <= y[p], \A i \in 1..Len(z) : z[i] <= y[i]
    PROVE  Behind(z) + x <= Behind(y)
<1>1. PICK g : Offsets(g, z) BY OffsetsExist
<1>2. PICK h : Offsets(h, y) BY OffsetsExist
<1>3. Behind(z) = g[Len(z)] /\ Behind(y) = h[Len(z)] BY <1>1, <1>2, BehindIs
<1>0. Len(z) \in Nat /\ p \in Nat /\ 1 <= p /\ p <= Len(z) OBVIOUS
<1>t. g \in [0..Len(z) -> Nat] /\ h \in [0..Len(z) -> Nat] BY <1>1, <1>2 DEF Offsets
<1> DEFINE P(n) == g[n] <= h[n] /\ (n >= p => g[n] + x <= h[n])
           S == {n \in 0..Len(z) : P(n)}
<1>4. P(0)
  <2>1. h[0] = g[0] /\ g[0] \in Nat BY <1>1, <1>2 DEF Offsets, HeaderSize
  <2> QED BY <1>0, <2>1
<1> HIDE DEF P
<1>5. ASSUME NEW n \in 0..(Len(z) - 1), P(n) PROVE P(n + 1)
  <2>1. n \in 0..Len(z) /\ n + 1 \in 1..Len(z) /\ (n + 1) - 1 = n /\ n \in Nat BY <1>0
  <2>2. h[n + 1] = h[n] + y[n + 1] BY <1>2, <2>1 DEF Offsets
  <2>3. g[n + 1] = g[n] + z[n + 1] BY <1>1, <2>1 DEF Offsets
  <2>4. h[n] \in Nat /\ g[n] \in Nat BY <1>t, <2>1
  <2>5. z[n + 1] \in Nat BY <2>1, SizeIsNat, Zenon
  <2>6. y[n + 1] \in Nat
    <3>1. n + 1 \in 1..Len(y) BY <2>1, Zenon
    <3> QED BY <3>1, SizeIsNat, Zenon
  <2>7. z[n + 1] <= y[n + 1] BY <2>1, Zenon
  <2>8. g[n] <= h[n] BY <1>5 DEF P
  <2>9. g[n] + z[n + 1] <= h[n] + y[n + 1] BY <2>4, <2>5, <2>6, <2>7, <2>8, SumsOrdered, Zenon
  <2>10. g[n + 1] <= h[n + 1] BY <2>2, <2>3, <2>9, Zenon
  <2>11. ASSUME n + 1 >= p PROVE g[n + 1] + x <= h[n + 1]
    <3>1. g[n] + x \in Nat /\ z[n + 1] + x \in Nat BY <2>4, <2>5, SumsGrow, Zenon
    <3>2. CASE n >= p
      <4>1. g[n] + x <= h[n] BY <1>5, <3>2 DEF P
      <4>2. (g[n] + x) + z[n + 1] <= h[n] + y[n + 1]
        BY <2>4, <2>5, <2>6, <2>7, <3>1, <4>1, SumsOrdered, Zenon
      <4>3. (g[n] + x) + z[n + 1] = (g[n] + z[n + 1]) + x BY <2>4, <2>5, SumsRegroup, ZenonT(40)
      <4> QED BY <2>2, <2>3, <4>2, <4>3, Zenon
    <3>3. CASE ~(n >= p)
      <4>1. n + 1 = p BY <1>0, <2>1, <2>11, <3>3
      <4>2. z[n + 1] + x <= y[n + 1] BY <4>1
      <4>3. g[n] + (z[n + 1] + x) <= h[n] + y[n + 1]
        BY <2>4, <2>6, <2>8, <3>1, <4>2, SumsOrdered, Zenon
      <4>4. g[n] + (z[n + 1] + x) = (g[n] + z[n + 1]) + x BY <2>4, <2>5, SumsRegroup, ZenonT(40)
      <4> QED BY <2>2, <2>3, <4>3, <4>4, Zenon
    <3> QED BY <3>2, <3>3
  <2> QED BY <2>10, <2>11 DEF P
<1>6. P(Len(z))
  <2>1. 0 \in S BY <1>0, <1>4
  <2>2. \A n \in 0..(Len(z) - 1) : n \in S => n + 1 \in S BY <1>0, <1>5
  <2> HIDE DEF S
  <2>3. \A n \in 0..Len(z) : n \in S BY <1>0, <2>1, <2>2, EveryUpTo
  <2>4. Len(z) \in S BY <1>0, <2>3
  <2> QED BY <2>4 DEF S
<1>7. g[Len(z)] + x <= h[Len(z)] BY <1>0, <1>6 DEF P
<1> QED BY <1>3, <1>7

-----------------------------------------------------------------------------
(* The room records take.                                                  *)

\* Sizes of the records of a run.
Sizes(s) == [i \in 1..Len(s) |-> RecordSize(s[i].val)]

\* A run without records that remove their key.
Valued(s) == \A i \in 1..Len(s) : s[i].val # None

\* A record's size is a number of bytes.
LEMMA RecordSizeType ==
    ASSUME NEW v \in Values \cup {None}
    PROVE  RecordSize(v) \in Nat
<1>1. CASE v = None BY <1>1 DEF RecordSize
<1>2. CASE v # None
  <2>1. v \in Values BY <1>2
  <2>2. ValueLen[v] \in Nat BY <2>1, KvAssumption
  <2>3. \A n \in Nat : 8 + ((n + 3) \div 4) * 4 \in Nat OBVIOUS
  <2>4. 8 + ((ValueLen[v] + 3) \div 4) * 4 \in Nat BY <2>2, <2>3, Zenon
  <2> QED BY <1>2, <2>4 DEF RecordSize
<1> QED BY <1>1, <1>2

\* The sizes of a run of records.
LEMMA SizesAre ==
    ASSUME NEW s \in Seq(Record)
    PROVE  /\ Sizes(s) \in Seq(Nat) /\ Len(Sizes(s)) = Len(s)
           /\ \A i \in 1..Len(s) : Sizes(s)[i] = RecordSize(s[i].val)
           /\ End(s) = Behind(Sizes(s))
<1>1. Len(s) \in Nat OBVIOUS
<1>2. ASSUME NEW i \in 1..Len(s) PROVE RecordSize(s[i].val) \in Nat
  <2>1. s[i] \in Record OBVIOUS
  <2>2. s[i].val \in Values \cup {None} BY <2>1 DEF Record
  <2> QED BY <2>2, RecordSizeType
<1>3. Sizes(s) \in [1..Len(s) -> Nat] BY <1>2 DEF Sizes
<1>4. Sizes(s) \in Seq(Nat) /\ Len(Sizes(s)) = Len(s) BY <1>1, <1>3
<1> QED BY <1>4 DEF Sizes, End

\* Where a run ends.
LEMMA EndType ==
    ASSUME NEW s \in Seq(Record)
    PROVE  End(s) \in Nat /\ End(s) >= HeaderSize
BY SizesAre, BehindType

\* Nothing behind the header.
LEMMA EndEmpty == End(<<>>) = HeaderSize
<1>1. <<>> \in Seq(Record) OBVIOUS
<1>2. Len(Sizes(<<>>)) = 0 /\ Sizes(<<>>) \in Seq(Nat) /\ End(<<>>) = Behind(Sizes(<<>>))
  BY <1>1, SizesAre
<1> QED BY <1>2, BehindType

\* A record moves the end by its size.
LEMMA EndAppend ==
    ASSUME NEW s \in Seq(Record), NEW r \in Record
    PROVE  End(Append(s, r)) = End(s) + RecordSize(r.val)
<1> DEFINE t == Append(s, r)
<1>1. /\ t \in Seq(Record) /\ Len(t) = Len(s) + 1 /\ Len(s) \in Nat
      /\ \A i \in 1..Len(s) : t[i] = s[i]
      /\ t[Len(t)] = r
  OBVIOUS
<1> HIDE DEF t
<1>2. PICK z \in Seq(Nat) : z = Sizes(t) BY <1>1, SizesAre
<1>3. PICK y \in Seq(Nat) : y = Sizes(s) BY SizesAre
<1>4. Len(z) = Len(t) /\ \A i \in 1..Len(t) : z[i] = RecordSize(t[i].val)
  BY <1>1, <1>2, SizesAre
<1>5. Len(y) = Len(s) /\ \A i \in 1..Len(s) : y[i] = RecordSize(s[i].val)
  BY <1>3, SizesAre
<1>6. Len(y) <= Len(z) /\ Len(z) = Len(y) + 1 /\ Len(z) \in 1..Len(t) BY <1>1, <1>4, <1>5
<1>7. ASSUME NEW i \in 1..Len(y) PROVE y[i] = z[i]
  <2>1. i \in 1..Len(s) /\ i \in 1..Len(t) BY <1>1, <1>5
  <2> QED BY <1>1, <1>4, <1>5, <2>1
<1>8. Behind(z) = Behind(y) + z[Len(z)] BY <1>6, <1>7, BehindPart
<1>9. z[Len(z)] = RecordSize(r.val) BY <1>1, <1>4, <1>6
<1>10. End(t) = Behind(z) /\ End(s) = Behind(y) BY <1>1, <1>2, <1>3, SizesAre
<1> QED BY <1>8, <1>9, <1>10 DEF t

\* The first records of a run end no later than the run.
LEMMA EndPart ==
    ASSUME NEW s \in Seq(Record), NEW n \in 0..Len(s)
    PROVE  /\ SubSeq(s, 1, n) \in Seq(Record) /\ Len(SubSeq(s, 1, n)) = n
           /\ \A i \in 1..n : SubSeq(s, 1, n)[i] = s[i]
           /\ End(SubSeq(s, 1, n)) <= End(s)
<1> DEFINE t == SubSeq(s, 1, n)
<1>1. /\ t \in Seq(Record) /\ Len(t) = n /\ Len(s) \in Nat /\ n \in Nat /\ n <= Len(s)
      /\ \A i \in 1..n : t[i] = s[i]
  OBVIOUS
<1> HIDE DEF t
<1>2. PICK z \in Seq(Nat) : z = Sizes(s) BY SizesAre
<1>3. PICK y \in Seq(Nat) : y = Sizes(t) BY <1>1, SizesAre
<1>4. Len(z) = Len(s) /\ \A i \in 1..Len(s) : z[i] = RecordSize(s[i].val)
  BY <1>2, SizesAre
<1>5. Len(y) = Len(t) /\ \A i \in 1..Len(t) : y[i] = RecordSize(t[i].val)
  BY <1>1, <1>3, SizesAre
<1>6. Len(y) <= Len(z) BY <1>1, <1>4, <1>5
<1>7. ASSUME NEW i \in 1..Len(y) PROVE y[i] = z[i]
  <2>1. i \in 1..Len(s) /\ i \in 1..n BY <1>1, <1>5
  <2> QED BY <1>1, <1>4, <1>5, <2>1
<1>8. Behind(y) <= Behind(z) BY <1>6, <1>7, BehindPart
<1>10. End(s) = Behind(z) /\ End(t) = Behind(y) BY <1>1, <1>2, <1>3, SizesAre
<1> QED BY <1>1, <1>8, <1>10 DEF t

-----------------------------------------------------------------------------
(* The two passes of flash_kv_foreach().                                   *)

\* No record is empty.
LEMMA RecordSizePositive ==
    ASSUME NEW v \in Values \cup {None}
    PROVE  RecordSize(v) \in Nat /\ RecordSize(v) >= 8
<1>1. CASE v = None BY <1>1 DEF RecordSize
<1>2. CASE v # None
  <2>1. ValueLen[v] \in Nat BY <1>2, KvAssumption
  <2>2. \A n \in Nat : 8 + ((n + 3) \div 4) * 4 \in Nat /\ 8 + ((n + 3) \div 4) * 4 >= 8 OBVIOUS
  <2>3. 8 + ((ValueLen[v] + 3) \div 4) * 4 \in Nat /\ 8 + ((ValueLen[v] + 3) \div 4) * 4 >= 8
    BY <2>1, <2>2, Zenon
  <2> QED BY <1>2, <2>3 DEF RecordSize
<1> QED BY <1>1, <1>2

\* Later records have greater offsets.
LEMMA OffsetGrows ==
    ASSUME NEW s \in Seq(Record), NEW i \in 1..Len(s), NEW j \in 1..Len(s), i < j
    PROVE  Offset(s, i) \in Nat /\ Offset(s, j) \in Nat /\ Offset(s, i) < Offset(s, j)
<1> DEFINE a == SubSeq(s, 1, i - 1)
           b == SubSeq(s, 1, j - 1)
<1>1. /\ Len(s) \in Nat /\ i \in Nat /\ j \in Nat /\ i - 1 \in 0..Len(s) /\ j - 1 \in 0..Len(s)
      /\ i \in 0..(j - 1)
  OBVIOUS
<1>2. a \in Seq(Record) BY <1>1, EndPart
<1>3. b \in Seq(Record) /\ Len(b) = j - 1 BY <1>1, EndPart
<1>4. s[i] \in Record /\ s[i].val \in Values \cup {None}
  <2>1. s[i] \in Record OBVIOUS
  <2> QED BY <2>1 DEF Record
<1>5. SubSeq(b, 1, i) = Append(a, s[i])
  <2>1. SubSeq(b, 1, i) = SubSeq(s, 1, i) BY <1>1
  <2>2. SubSeq(s, 1, i) = Append(a, s[i]) BY <1>1
  <2> QED BY <2>1, <2>2
<1>6. Offset(s, i) = End(a) /\ Offset(s, j) = End(b) BY DEF Offset
<1> HIDE DEF a, b
<1>7. End(Append(a, s[i])) <= End(b) BY <1>1, <1>3, <1>5, EndPart
<1>8. End(Append(a, s[i])) = End(a) + RecordSize(s[i].val) BY <1>2, <1>4, EndAppend
<1>9. End(a) \in Nat /\ End(b) \in Nat BY <1>2, <1>3, EndType
<1>10. RecordSize(s[i].val) \in Nat /\ RecordSize(s[i].val) >= 8 BY <1>4, RecordSizePositive
<1> QED BY <1>6, <1>7, <1>8, <1>9, <1>10

\* No record is at offset 0 and none shares its offset.
LEMMA OffsetTells ==
    ASSUME NEW s \in Seq(Record), NEW i \in 1..Len(s), NEW j \in 1..Len(s), Offset(s, i) = Offset(s, j)
    PROVE  i = j
<1>1. i \in Nat /\ j \in Nat OBVIOUS
<1>2. CASE i < j
  <2>1. Offset(s, i) \in Nat /\ Offset(s, i) < Offset(s, j) BY <1>2, OffsetGrows
  <2> QED BY <2>1
<1>3. CASE j < i
  <2>1. Offset(s, j) \in Nat /\ Offset(s, j) < Offset(s, i) BY <1>3, OffsetGrows
  <2> QED BY <2>1
<1> QED BY <1>1, <1>2, <1>3

\* g holds the table of the first pass as each record leaves it.
Tables(g, s, m) ==
    /\ g[0] = [k \in Keys |-> 0]
    /\ \A i \in 1..m : g[i] = LatestVisit(g[i - 1], s[i].key, Offset(s, i))

\* Any run of records has such tables.
LEMMA TablesExist ==
    ASSUME NEW s \in Seq(Record)
    PROVE  \E g : g = [n \in 0..Len(s) |-> g[n]] /\ Tables(g, s, Len(s))
<1> DEFINE Fun(n, g) == g = [i \in 0..n |-> g[i]]
           S == {n \in 0..Len(s) : \E g : Fun(n, g) /\ Tables(g, s, n)}
<1>0. Len(s) \in Nat OBVIOUS
<1>1. 0 \in S
  <2> DEFINE g == [i \in 0..0 |-> [k \in Keys |-> 0]]
  <2>1. Fun(0, g) OBVIOUS
  <2>2. g[0] = [k \in Keys |-> 0] OBVIOUS
  <2> HIDE DEF g
  <2>3. Tables(g, s, 0) BY <2>2 DEF Tables
  <2> QED BY <1>0, <2>1, <2>3
<1>2. ASSUME NEW n \in 0..(Len(s) - 1), n \in S PROVE n + 1 \in S
  <2>1. PICK g : Fun(n, g) /\ Tables(g, s, n) BY <1>2
  <2> DEFINE last == LatestVisit(g[n], s[n + 1].key, Offset(s, n + 1))
             h == [i \in 0..(n + 1) |-> IF i <= n THEN g[i] ELSE last]
  <2>2. n \in Nat /\ n + 1 \in 0..Len(s) BY <1>0
  <2> HIDE DEF last
  <2>3. Fun(n + 1, h) OBVIOUS
  <2>4. h[0] = g[0] BY <2>2
  <2>5. ASSUME NEW i \in 1..(n + 1) PROVE h[i] = LatestVisit(h[i - 1], s[i].key, Offset(s, i))
    <3>1. i - 1 \in 0..(n + 1) /\ i \in 0..(n + 1) /\ i - 1 <= n BY <2>2
    <3>2. h[i - 1] = g[i - 1] BY <3>1
    <3>3. CASE i <= n
      <4>1. i \in 1..n BY <2>2, <3>3
      <4>2. h[i] = g[i] BY <3>1, <3>3
      <4> HIDE DEF h
      <4> QED BY <2>1, <3>2, <4>1, <4>2 DEF Tables
    <3>4. CASE ~(i <= n)
      <4>1. i = n + 1 /\ i - 1 = n BY <2>2, <3>4
      <4>2. h[i] = last BY <3>1, <3>4
      <4> HIDE DEF h
      <4> QED BY <3>2, <4>1, <4>2 DEF last
    <3> QED BY <3>3, <3>4
  <2> HIDE DEF h, Fun
  <2>6. Tables(h, s, n + 1) BY <2>1, <2>4, <2>5 DEF Tables
  <2> QED BY <2>2, <2>3, <2>6
<1> HIDE DEF S
<1>3. \A n \in 0..Len(s) : n \in S BY <1>0, <1>1, <1>2, EveryUpTo
<1>4. Len(s) \in S BY <1>0, <1>3
<1> QED BY <1>4 DEF S

\* The first pass ends with one of them.
LEMMA LatestIs ==
    ASSUME NEW s \in Seq(Record)
    PROVE  \E g : Tables(g, s, Len(s)) /\ Latest(s) = g[Len(s)]
<1> DEFINE Def(u) == u = [n \in 0..Len(s) |->
                            IF n = 0 THEN [k \in Keys |-> 0]
                            ELSE LatestVisit(u[n - 1], s[n].key, Offset(s, n))]
           c == CHOOSE u : Def(u)
<1>0. Len(s) \in Nat OBVIOUS
<1>1. PICK g : g = [n \in 0..Len(s) |-> g[n]] /\ Tables(g, s, Len(s)) BY TablesExist
<1>2. Def(g)
  <2>1. ASSUME NEW n \in 0..Len(s)
        PROVE  g[n] = IF n = 0 THEN [k \in Keys |-> 0] ELSE LatestVisit(g[n - 1], s[n].key, Offset(s, n))
    <3>1. n # 0 => n \in 1..Len(s) BY <1>0
    <3> QED BY <1>1, <3>1 DEF Tables
  <2> QED BY <1>1, <2>1
<1>3. Def(c) BY <1>2, Zenon
<1>4. Latest(s) = c[Len(s)] BY DEF Latest
<1> HIDE DEF c
<1>5. Tables(c, s, Len(s))
  <2>1. c[0] = [k \in Keys |-> 0] BY <1>0, <1>3
  <2>2. ASSUME NEW i \in 1..Len(s) PROVE c[i] = LatestVisit(c[i - 1], s[i].key, Offset(s, i))
    <3>1. i \in 0..Len(s) /\ i # 0 BY <1>0
    <3> QED BY <1>3, <3>1
  <2> QED BY <2>1, <2>2 DEF Tables
<1> QED BY <1>4, <1>5

\* Every table has an entry for every key.
LEMMA TablesType ==
    ASSUME NEW s \in Seq(Record), NEW g, Tables(g, s, Len(s))
    PROVE  \A n \in 0..Len(s) : g[n] = [k \in Keys |-> g[n][k]]
<1> DEFINE S == {n \in 0..Len(s) : g[n] = [k \in Keys |-> g[n][k]]}
<1>0. Len(s) \in Nat OBVIOUS
<1>1. 0 \in S BY <1>0 DEF Tables
<1>2. ASSUME NEW n \in 0..(Len(s) - 1), n \in S PROVE n + 1 \in S
  <2>1. n + 1 \in 1..Len(s) /\ (n + 1) - 1 = n /\ n + 1 \in 0..Len(s) BY <1>0
  <2>2. g[n + 1] = LatestVisit(g[n], s[n + 1].key, Offset(s, n + 1)) BY <2>1 DEF Tables
  <2>3. g[n] = [k \in Keys |-> g[n][k]] BY <1>2
  <2>4. g[n + 1] = [k \in Keys |-> g[n + 1][k]] BY <2>2, <2>3 DEF LatestVisit
  <2> QED BY <2>1, <2>4
<1>3. \A n \in 0..(Len(s) - 1) : n \in S => n + 1 \in S BY <1>2
<1> HIDE DEF S
<1>4. \A n \in 0..Len(s) : n \in S BY <1>0, <1>1, <1>3, EveryUpTo
<1> QED BY <1>4 DEF S

\* The table ends up with the offset of a key's last record.
LEMMA LatestOf ==
    ASSUME NEW s \in Seq(Record), NEW k \in Keys, NEW p \in 1..Len(s), IsLastPos(s, k, p)
    PROVE  Latest(s)[k] = Offset(s, p)
<1>0. Len(s) \in Nat /\ p \in Nat /\ s[p].key = k BY DEF IsLastPos, Positions
<1>1. PICK g : Tables(g, s, Len(s)) /\ Latest(s) = g[Len(s)] BY LatestIs
<1>2. \A n \in 0..Len(s) : g[n] = [j \in Keys |-> g[n][j]] BY <1>1, TablesType
<1> DEFINE m == Len(s) - p
           S == {n \in 0..m : g[p + n][k] = Offset(s, p)}
<1>3. m \in Nat BY <1>0
<1>4. 0 \in S
  <2>1. p - 1 \in 0..Len(s) /\ p + 0 = p BY <1>0
  <2>2. g[p] = LatestVisit(g[p - 1], k, Offset(s, p)) BY <1>0, <1>1 DEF Tables
  <2>3. g[p - 1] = [j \in Keys |-> g[p - 1][j]] BY <1>2, <2>1
  <2>4. g[p][k] = Offset(s, p) BY <2>2, <2>3 DEF LatestVisit
  <2> QED BY <1>3, <2>1, <2>4
<1>5. ASSUME NEW n \in 0..(m - 1), n \in S PROVE n + 1 \in S
  <2>1. /\ p + (n + 1) \in 1..Len(s) /\ (p + (n + 1)) - 1 = p + n /\ p + n \in 0..Len(s)
        /\ ~(p + (n + 1) <= p) /\ n + 1 \in 0..m
    BY <1>0
  <2>2. s[p + (n + 1)].key # k BY <2>1 DEF IsLastPos, Positions
  <2>3. g[p + (n + 1)] = LatestVisit(g[p + n], s[p + (n + 1)].key, Offset(s, p + (n + 1)))
    BY <1>1, <2>1 DEF Tables
  <2>4. g[p + n] = [j \in Keys |-> g[p + n][j]] BY <1>2, <2>1
  <2>5. g[p + (n + 1)][k] = g[p + n][k] BY <2>2, <2>3, <2>4 DEF LatestVisit
  <2> QED BY <1>5, <2>1, <2>5
<1>6. \A n \in 0..(m - 1) : n \in S => n + 1 \in S BY <1>5
<1>7. m \in 0..m /\ p + m = Len(s) BY <1>0
<1> HIDE DEF S, m
<1>8. \A n \in 0..m : n \in S BY <1>3, <1>4, <1>6, EveryUpTo
<1>9. m \in S BY <1>7, <1>8
<1> QED BY <1>1, <1>7, <1>9 DEF S

\* Of the records of a key foreach reports exactly the one flash_kv_get() reads.
LEMMA ForeachReportsNewest ==
    ASSUME NEW s \in Seq(Record), NEW k \in Keys
    PROVE  {s[i].val : i \in {j \in LiveRecords(s) : s[j].key = k}} = {Newest(s, k)} \ {None}
<1>1. CASE Positions(s, k) = {}
  <2>1. Newest(s, k) = None BY <1>1 DEF Newest, IsLastPos
  <2>2. \A j \in LiveRecords(s) : s[j].key # k BY <1>1 DEF LiveRecords, Positions
  <2> QED BY <2>1, <2>2
<1>2. CASE Positions(s, k) # {}
  <2>1. PICK p \in 1..Len(s) : IsLastPos(s, k, p) BY <1>2, LastPosExists
  <2>2. Newest(s, k) = s[p].val /\ s[p].key = k
    BY <2>1, LastPosIs DEF IsLastPos, Positions
  <2>3. Latest(s)[k] = Offset(s, p) BY <2>1, LatestOf
  <2>4. \A j \in 1..Len(s) : Offset(s, p) = Offset(s, j) => j = p BY OffsetTells
  <2>5. {j \in LiveRecords(s) : s[j].key = k} = IF s[p].val = None THEN {} ELSE {p}
    BY <2>2, <2>3, <2>4 DEF LiveRecords
  <2> QED BY <2>2, <2>5
<1> QED BY <1>1, <1>2

\* flash_kv_foreach(), with its table of last offsets, and flash_kv_get(), which lets
\* later records overwrite earlier ones, agree in every state of the store.
THEOREM ForeachAgrees == Spec => []ForeachAgreesWithGet
<1>1. TypeOK => ForeachAgreesWithGet
  <2> SUFFICES ASSUME TypeOK, NEW k \in Keys
               PROVE  {Walked[i].val : i \in {j \in LiveRecords(Walked) : Walked[j].key = k}}
                        = {Get(k)} \ {None}
    BY DEF ForeachAgreesWithGet
  <2>1. Walked \in Seq(Record) BY DEF TypeOK, Walked
  <2> QED BY <2>1, ForeachReportsNewest DEF Get
<1> QED BY <1>1, TypeCorrect, PTL

-----------------------------------------------------------------------------
(* The room a compacted log takes.                                         *)

\* Leaving out the record of a key keeps the rest and makes a run no longer.
LEMMA EndDropKey ==
    ASSUME NEW s \in Seq(Record), Unique(s), Valued(s), NEW k \in Keys
    PROVE  /\ DropKey(s, k) \in Seq(Record)
           /\ Valued(DropKey(s, k))
           /\ End(DropKey(s, k)) <= End(s)
<1>1. CASE Positions(s, k) = {}
  <2>1. DropKey(s, k) = s BY <1>1 DEF DropKey
  <2>2. End(s) \in Nat BY EndType
  <2> QED BY <2>1, <2>2
<1>2. CASE Positions(s, k) # {}
  <2> DEFINE t == DropKey(s, k)
  <2>1. PICK p \in 1..Len(s) :
          /\ s[p].key = k
          /\ t \in Seq(Record) /\ Len(t) = Len(s) - 1
          /\ \A i \in 1..Len(t) : t[i] = IF i < p THEN s[i] ELSE s[i + 1]
    BY <1>2, DropKeyIs
  <2> HIDE DEF t
  <2>0. Len(s) \in Nat /\ Len(t) \in Nat BY <2>1
  <2>2. \A i \in 1..Len(t) : i \in 1..Len(s) /\ i + 1 \in 1..Len(s) BY <2>0, <2>1
  <2>3. Valued(t) BY <2>1, <2>2 DEF Valued
  <2>4. PICK z \in Seq(Nat) : z = Sizes(s) BY SizesAre
  <2>5. PICK y \in Seq(Nat) : y = Sizes(t) BY <2>1, SizesAre
  <2>6. Len(z) = Len(s) /\ \A i \in 1..Len(s) : z[i] = RecordSize(s[i].val)
    BY <2>4, SizesAre
  <2>7. Len(y) = Len(t) /\ \A i \in 1..Len(t) : y[i] = RecordSize(t[i].val)
    BY <2>1, <2>5, SizesAre
  <2>8. Len(y) = Len(z) - 1 /\ p \in 1..Len(z) BY <2>1, <2>6, <2>7
  <2>9. ASSUME NEW i \in 1..Len(y) PROVE y[i] = IF i < p THEN z[i] ELSE z[i + 1]
    <3>1. i \in 1..Len(t) /\ i \in 1..Len(s) /\ i + 1 \in 1..Len(s) BY <2>2, <2>7
    <3>2. y[i] = RecordSize(t[i].val) /\ z[i] = RecordSize(s[i].val) /\ z[i + 1] = RecordSize(s[i + 1].val)
      BY <2>6, <2>7, <3>1
    <3>3. t[i] = IF i < p THEN s[i] ELSE s[i + 1] BY <2>1, <3>1
    <3> QED BY <3>2, <3>3, Zenon
  <2>10. Behind(y) <= Behind(z) BY <2>8, <2>9, BehindDrop
  <2>11. End(s) = Behind(z) /\ End(t) = Behind(y) BY <2>1, <2>4, <2>5, SizesAre
  <2> QED BY <2>1, <2>3, <2>10, <2>11 DEF t
<1> QED BY <1>1, <1>2

\* The keys as a sequence: all of them are in it.
LEMMA KeysListed ==
    /\ Cardinality(Keys) \in Nat
    /\ SetToSeq(Keys) \in [1..Cardinality(Keys) -> Keys]
    /\ Len(SetToSeq(Keys)) = Cardinality(Keys)
    /\ \A k \in Keys : \E i \in 1..Cardinality(Keys) : SetToSeq(Keys)[i] = k
<1> DEFINE N == Cardinality(Keys)
           D == 1..N
           q == SetToSeq(Keys)
<1>1. IsFiniteSet(Keys) BY KvAssumption
<1>2. N \in Nat /\ ExistsBijection(D, Keys) BY <1>1, FS_CardinalityType
<1>3. \E f \in [D -> Keys] : IsInjective(f)
  BY <1>2 DEF ExistsBijection, Bijection, Injection
<1>4. q \in [D -> Keys] /\ IsInjective(q) BY <1>3 DEF SetToSeq
<1> HIDE DEF q
<1>5. q \in Injection(D, Keys) BY <1>4 DEF Injection
<1>6. Cardinality(D) = N
  <2>1. 1 \in Int /\ N \in Int BY <1>2
  <2>2. Cardinality(D) = IF 1 > N THEN 0 ELSE N - 1 + 1 BY <2>1, FS_Interval
  <2> QED BY <1>2, <2>2
<1>7. q \in Surjection(D, Keys) BY <1>1, <1>5, <1>6, FS_Injection
<1>8. \A k \in Keys : \E i \in D : q[i] = k BY <1>7 DEF Surjection
<1>9. Len(q) = N BY <1>2, <1>4
<1> QED BY <1>2, <1>4, <1>8, <1>9 DEF q

\* Bytes the keys take that a run of records sets.
Room(s) == Behind([i \in 1..Len(SetToSeq(Keys)) |-> LiveSize(Newest(s, SetToSeq(Keys)[i]))])

\* What a key takes.
LEMMA LiveSizeType ==
    ASSUME NEW v \in Values \cup {None}
    PROVE  LiveSize(v) \in Nat
BY RecordSizeType DEF LiveSize

\* A record with a value of a key that had none needs its own room.
LEMMA RoomAppend ==
    ASSUME NEW s \in Seq(Record), NEW r \in Record, r.val # None, Newest(s, r.key) = None,
           End(s) <= Room(s)
    PROVE  End(Append(s, r)) <= Room(Append(s, r))
<1> DEFINE N == Len(SetToSeq(Keys))
           q == SetToSeq(Keys)
           t == Append(s, r)
           z == [i \in 1..N |-> LiveSize(Newest(s, q[i]))]
           y == [i \in 1..N |-> LiveSize(Newest(t, q[i]))]
           x == RecordSize(r.val)
<1>1. /\ N \in Nat /\ q \in [1..N -> Keys]
      /\ \A k \in Keys : \E i \in 1..N : q[i] = k
  BY KeysListed
<1>2. r.key \in Keys /\ r.val \in Values \cup {None} BY DEF Record
<1>3. t \in Seq(Record) /\ \A k \in Keys : Newest(t, k) = IF k = r.key THEN r.val ELSE Newest(s, k)
  BY NewestAppend
<1>4. Room(s) = Behind(z) /\ Room(t) = Behind(y) BY DEF Room
<1>5. End(t) = End(s) + x BY EndAppend
<1>6. x \in Nat BY <1>2, RecordSizeType
<1> HIDE DEF N, q, t
<1>7. ASSUME NEW i \in 1..N
      PROVE  /\ q[i] \in Keys
             /\ z[i] = LiveSize(Newest(s, q[i])) /\ z[i] \in Nat
             /\ y[i] = LiveSize(Newest(t, q[i])) /\ y[i] \in Nat
  <2>1. q[i] \in Keys BY <1>1
  <2>2. Newest(s, q[i]) \in Values \cup {None} /\ Newest(t, q[i]) \in Values \cup {None}
    BY <1>3, <2>1, NewestType
  <2> QED BY <2>1, <2>2, LiveSizeType
<1>8. z \in [1..N -> Nat] /\ y \in [1..N -> Nat] BY <1>7
<1> HIDE DEF z, y
<1>9. z \in Seq(Nat) /\ Len(z) = N /\ y \in Seq(Nat) /\ Len(y) = N BY <1>1, <1>8
<1>10. PICK p \in 1..N : q[p] = r.key BY <1>1, <1>2
<1>11. z[p] + x <= y[p]
  <2>1. z[p] = 0 BY <1>7, <1>10 DEF LiveSize
  <2>2. y[p] = x BY <1>2, <1>3, <1>7, <1>10 DEF LiveSize
  <2> QED BY <1>6, <2>1, <2>2
<1>12. ASSUME NEW i \in 1..N PROVE z[i] <= y[i]
  <2>1. CASE q[i] = r.key
    <3>1. z[i] = 0 BY <1>7, <2>1 DEF LiveSize
    <3>2. y[i] \in Nat BY <1>7
    <3> QED BY <3>1, <3>2
  <2>2. CASE q[i] # r.key
    <3>1. z[i] = y[i] /\ z[i] \in Nat BY <1>3, <1>7, <2>2
    <3> QED BY <3>1
  <2> QED BY <2>1, <2>2
<1> HIDE DEF x
<1>13. Behind(z) + x <= Behind(y)
  BY <1>6, <1>9, <1>10, <1>11, <1>12, BehindMore
<1>14. End(s) \in Nat /\ Behind(z) \in Nat /\ Behind(y) \in Nat BY <1>9, EndType, BehindType
<1>15. End(s) <= Behind(z) BY <1>4
<1>16. End(s) + x <= Behind(y) BY <1>6, <1>13, <1>14, <1>15
<1> QED BY <1>4, <1>5, <1>16 DEF t

\* A run with one record for each key it sets is no longer than those keys need.
LEMMA RoomOfRun ==
    ASSUME NEW s \in Seq(Record), Unique(s), Valued(s)
    PROVE  End(s) <= Room(s)
<1> DEFINE Part(n) == SubSeq(s, 1, n)
           S == {n \in 0..Len(s) : End(Part(n)) <= Room(Part(n))}
<1>0. Len(s) \in Nat OBVIOUS
<1>1. End(Part(0)) <= Room(Part(0))
  <2>1. Part(0) = <<>> BY SubSeqEmpty
  <2>2. End(<<>>) = HeaderSize BY EndEmpty
  <2> DEFINE q == SetToSeq(Keys)
             N == Len(SetToSeq(Keys))
             z == [i \in 1..N |-> LiveSize(Newest(<<>>, q[i]))]
  <2>3. N \in Nat /\ q \in [1..N -> Keys] BY KeysListed
  <2> HIDE DEF q, N
  <2>4. z \in [1..N -> Nat]
    <3>1. ASSUME NEW i \in 1..N PROVE LiveSize(Newest(<<>>, q[i])) \in Nat
      <4>1. q[i] \in Keys BY <2>3
      <4>2. Newest(<<>>, q[i]) = None BY <4>1, NewestEmpty
      <4> QED BY <4>2, LiveSizeType
    <3> QED BY <3>1
  <2>5. Room(<<>>) = Behind(z) BY DEF Room, q, N
  <2> HIDE DEF z
  <2>6. z \in Seq(Nat) BY <2>3, <2>4
  <2>7. Behind(z) \in Nat /\ Behind(z) >= HeaderSize BY <2>6, BehindType
  <2> QED BY <2>1, <2>2, <2>5, <2>7 DEF HeaderSize
<1>2. ASSUME NEW n \in 0..(Len(s) - 1), End(Part(n)) <= Room(Part(n))
      PROVE  End(Part(n + 1)) <= Room(Part(n + 1))
  <2>0. n \in 0..Len(s) /\ n + 1 \in 1..Len(s) /\ n + 1 \in 0..Len(s) /\ n \in Nat BY <1>0
  <2>1. /\ Part(n) \in Seq(Record) /\ Len(Part(n)) = n
        /\ \A i \in 1..n : Part(n)[i] = s[i]
    BY <2>0, EndPart
  <2>2. s[n + 1] \in Record /\ s[n + 1].val # None BY <2>0 DEF Valued
  <2>3. Part(n + 1) = Append(Part(n), s[n + 1])
    BY <2>0
  <2>4. Newest(Part(n), s[n + 1].key) = None
    <3>1. ASSUME NEW i \in 1..n PROVE Part(n)[i].key # s[n + 1].key
      <4>1. i \in 1..Len(s) /\ i # n + 1 BY <1>0, <2>0
      <4> QED BY <2>0, <2>1, <4>1 DEF Unique
    <3> HIDE DEF Part
    <3> QED BY <2>1, <3>1 DEF Newest, IsLastPos, Positions
  <2> HIDE DEF Part
  <2> QED BY <1>2, <2>1, <2>2, <2>3, <2>4, RoomAppend
<1>3. End(Part(Len(s))) <= Room(Part(Len(s)))
  <2> HIDE DEF Part
  <2>1. 0 \in S BY <1>0, <1>1
  <2>2. \A n \in 0..(Len(s) - 1) : n \in S => n + 1 \in S BY <1>0, <1>2
  <2> HIDE DEF S
  <2>3. \A n \in 0..Len(s) : n \in S BY <1>0, <2>1, <2>2, EveryUpTo
  <2>4. Len(s) \in S BY <1>0, <2>3
  <2> QED BY <2>4 DEF S
<1>4. Part(Len(s)) = s OBVIOUS
<1> QED BY <1>3, <1>4

\* The log fits its sector, what is being appended still fits behind it, and
\* the image never outgrows the records that were collected into it, so that
\* collecting cannot overflow.
SpaceInv ==
    /\ header = "ours" => End(log) <= SectorSize
    /\ pc = "append" => End(log) + RecordSize(job.val) <= SectorSize
    /\ pc = "collect" => /\ ~overflow /\ Valued(image)
                         /\ End(image) <= End(SubSeq(Walked, 1, pos))
    /\ pc \in {"erase", "rewrite"} => End(image) <= SectorSize
    /\ NoSpaceMeansFull

\* What walk() visits is a run of records.
LEMMA WalkedType == KvInv => Walked \in Seq(Record)
<1>1. <<>> \in Seq(Record) OBVIOUS
<1> QED BY <1>1 DEF KvInv, TypeOK, Walked

\* append() leaves room for the record, or hands an empty image to rebuild().
LEMMA SpaceStart ==
    ASSUME KvInv, SpaceInv, UNCHANGED flash, NEW v \in Values \cup {None}, job'.val = v,
           (pc' = "idle" /\ ret' # "ENOSPC") \/ StartAppend(v)
    PROVE  SpaceInv'
<1>1. header' = header /\ log' = log BY DEF flash
<1>2. header' = "ours" => End(log') <= SectorSize BY <1>1 DEF SpaceInv
<1>3. CASE pc' = "idle" /\ ret' # "ENOSPC"
  BY <1>2, <1>3 DEF SpaceInv, NoSpaceMeansFull
<1>4. CASE AppendsInPlace(v) /\ pc' = "append" /\ ret' = "none"
  <2>1. End(log') + RecordSize(job'.val) <= SectorSize BY <1>1, <1>4 DEF AppendsInPlace
  <2> QED BY <1>2, <1>4, <2>1 DEF SpaceInv, NoSpaceMeansFull
<1>5. CASE pc' = "collect" /\ ret' = "none" /\ image' = <<>> /\ pos' = 0 /\ overflow' = FALSE
  <2>1. SubSeq(Walked', 1, 0) = <<>> BY SubSeqEmpty
  <2>2. End(<<>>) <= End(<<>>) BY EndEmpty DEF HeaderSize
  <2>3. Valued(<<>>) BY DEF Valued
  <2>4. ~overflow' /\ Valued(image') /\ End(image') <= End(SubSeq(Walked', 1, pos'))
    BY <1>5, <2>1, <2>2, <2>3
  <2> QED BY <1>2, <1>5, <2>4 DEF SpaceInv, NoSpaceMeansFull
<1> QED BY <1>3, <1>4, <1>5 DEF StartAppend

\* What image_put() does to the room the image takes.
LEMMA SpaceOfPut ==
    ASSUME NEW s \in Seq(Record), Unique(s), Valued(s), NEW k \in Keys, NEW v \in Values \cup {None}
    PROVE  LET d == DropKey(s, k)
               t == Append(d, [key |-> k, val |-> v])
               put == ImagePut(s, k, v)
           IN  /\ d \in Seq(Record) /\ Unique(d) /\ Valued(d) /\ End(d) <= End(s) /\ End(d) \in Nat
               /\ v = None => put.img = d /\ put.ok
               /\ v # None => /\ t \in Seq(Record) /\ Unique(t) /\ Valued(t)
                              /\ End(t) = End(d) + RecordSize(v)
                              /\ put.ok <=> End(t) <= SectorSize
                              /\ put.img = IF put.ok THEN t ELSE d
<1> DEFINE d == DropKey(s, k)
           r == [key |-> k, val |-> v]
           t == Append(d, r)
           put == ImagePut(s, k, v)
<1>1. d \in Seq(Record) /\ Unique(d) /\ Positions(d, k) = {} BY DropKeyRemoves
<1>2. Valued(d) /\ End(d) <= End(s) BY EndDropKey
<1>3. put.img = PutRecord(d, k, v) /\ put.ok = Fits(d, v) BY DEF ImagePut
<1> HIDE DEF d, put
<1>4. End(d) \in Nat BY <1>1, EndType
<1>5. \A i \in 1..Len(d) : d[i].key # k BY <1>1 DEF Positions
<1>6. r \in Record /\ r.key = k /\ r.val = v BY DEF Record
<1>7. CASE v = None
  BY <1>1, <1>2, <1>3, <1>4, <1>7 DEF PutRecord, Fits, d, put
<1>8. CASE v # None
  <2> HIDE DEF r
  <2>1. t \in Seq(Record) /\ Unique(t) BY <1>1, <1>5, <1>6 DEF Unique
  <2>2. Valued(t) BY <1>1, <1>2, <1>6, <1>8 DEF Valued
  <2>3. End(t) = End(d) + RecordSize(v) BY <1>1, <1>6, EndAppend
  <2>4. put.ok <=> End(t) <= SectorSize BY <1>3, <1>8, <2>3 DEF Fits
  <2>5. put.img = IF put.ok THEN t ELSE d BY <1>3, <1>8 DEF PutRecord, r
  <2> QED BY <1>1, <1>2, <1>4, <1>8, <2>1, <2>2, <2>3, <2>4, <2>5, Zenon DEF d, put, r
<1> QED BY <1>7, <1>8

\* Collecting a record of a log that fits finds room for it.
LEMMA SpaceCollect ==
    ASSUME KvInv, SpaceInv, CollectStep
    PROVE  SpaceInv'
<1> DEFINE r == Walked[pos + 1]
<1>1. PICK w \in Seq(Record) : w = Walked BY WalkedType, Zenon
<1>2. /\ pc = "collect" /\ pc' = pc /\ pos \in Nat /\ pos' = pos + 1 /\ pos < Len(w)
      /\ header' = header /\ log' = log /\ ret' = ret /\ job' = job /\ before' = before
      /\ Walked' = w /\ image \in Seq(Record)
  BY <1>1 DEF CollectStep, flash, KvInv, TypeOK, Walked
<1>3. Unique(image) /\ Valued(image) /\ ~overflow /\ End(image) <= End(SubSeq(w, 1, pos))
  BY <1>1, <1>2 DEF KvInv, SpaceInv
<1>4. End(w) <= SectorSize
  <2>1. CASE header = "ours" BY <1>1, <2>1 DEF SpaceInv, Walked
  <2>2. CASE header # "ours" BY <1>1, <1>2, <2>2 DEF Walked
  <2> QED BY <2>1, <2>2
<1>5. pos \in 0..Len(w) /\ pos + 1 \in 0..Len(w) /\ pos + 1 \in 1..Len(w) BY <1>2
<1>6. PICK x \in Record : x = w[pos + 1] BY <1>5
<1>7. x.key \in Keys /\ x.val \in Values \cup {None} BY DEF Record
<1>8. /\ image' = ImagePut(image, x.key, x.val).img
      /\ overflow' = (overflow \/ ~ImagePut(image, x.key, x.val).ok)
  BY <1>1, <1>6 DEF CollectStep
<1> DEFINE a == SubSeq(w, 1, pos)
           b == SubSeq(w, 1, pos + 1)
           d == DropKey(image, x.key)
           t == Append(d, [key |-> x.key, val |-> x.val])
<1>9. a \in Seq(Record) /\ b \in Seq(Record) /\ End(b) <= End(w) BY <1>5, EndPart
<1>10. b = Append(a, x) BY <1>5, <1>6
<1> HIDE DEF a, b
<1>11. End(b) = End(a) + RecordSize(x.val) BY <1>9, <1>10, EndAppend
<1>12. End(a) \in Nat /\ End(b) \in Nat /\ End(w) \in Nat /\ End(image) \in Nat BY <1>2, <1>9, EndType
<1>13. RecordSize(x.val) \in Nat /\ SectorSize \in Nat BY <1>7, RecordSizeType, KvAssumption
<1>14. /\ d \in Seq(Record) /\ Unique(d) /\ Valued(d) /\ End(d) <= End(image) /\ End(d) \in Nat
       /\ x.val = None => ImagePut(image, x.key, x.val).img = d /\ ImagePut(image, x.key, x.val).ok
       /\ x.val # None => /\ Valued(t) /\ End(t) = End(d) + RecordSize(x.val)
                          /\ ImagePut(image, x.key, x.val).ok <=> End(t) <= SectorSize
                          /\ ImagePut(image, x.key, x.val).img = IF ImagePut(image, x.key, x.val).ok THEN t ELSE d
  BY <1>2, <1>3, <1>7, SpaceOfPut
<1> HIDE DEF d, t
<1>15. End(image) <= End(a) BY <1>3 DEF a
<1>16. ~overflow' /\ Valued(image') /\ End(image') <= End(b)
  <2>1. CASE x.val = None
    <3>1. image' = d /\ ~overflow' BY <1>3, <1>8, <1>14, <2>1
    <3>2. End(d) <= End(b) BY <1>11, <1>12, <1>13, <1>14, <1>15
    <3> QED BY <1>14, <3>1, <3>2
  <2>2. CASE x.val # None
    <3>1. End(t) = End(d) + RecordSize(x.val) /\ Valued(t) BY <1>14, <2>2
    <3>2. End(t) <= End(b) /\ End(t) <= SectorSize
      BY <1>4, <1>9, <1>11, <1>12, <1>13, <1>14, <1>15, <3>1
    <3>3. ImagePut(image, x.key, x.val).ok /\ ImagePut(image, x.key, x.val).img = t
      BY <1>14, <2>2, <3>2
    <3> QED BY <1>3, <1>8, <3>1, <3>2, <3>3
  <2> QED BY <2>1, <2>2
<1>17. End(image') <= End(SubSeq(Walked', 1, pos')) BY <1>2, <1>16 DEF b
<1>18. header' = "ours" => End(log') <= SectorSize BY <1>2 DEF SpaceInv
<1> QED BY <1>2, <1>16, <1>17, <1>18 DEF SpaceInv, NoSpaceMeansFull

\* The new value finds room in the image, or the values do not fit together.
LEMMA SpaceDone ==
    ASSUME KvInv, SpaceInv, CollectDone
    PROVE  SpaceInv'
<1>1. PICK w \in Seq(Record) : w = Walked BY WalkedType, Zenon
<1>2. PICK k \in Keys : k = job.key BY DEF KvInv, TypeOK, Job
<1>3. PICK v \in Values \cup {None} : v = job.val BY DEF KvInv, TypeOK, Job
<1>4. /\ pc = "collect" /\ pos = Len(w) /\ image \in Seq(Record) /\ job.op = "put"
      /\ header' = header /\ log' = log /\ job' = job /\ before' = before /\ overflow' = overflow
      /\ Contents = before /\ before \in [Keys -> Values \cup {None}]
  BY <1>1 DEF CollectDone, flash, KvInv, TypeOK
<1>5. Unique(image) /\ Valued(image) /\ ~overflow /\ End(image) <= End(SubSeq(w, 1, pos))
  BY <1>1, <1>4 DEF KvInv, SpaceInv
<1>6. SubSeq(w, 1, pos) = w BY <1>4
<1>7. \A j \in Keys : Newest(image, j) = before[j]
  <2>1. \A j \in Keys : Newest(image, j) = Newest(w, j) BY <1>1, <1>4, <1>5, <1>6 DEF KvInv
  <2>2. \A j \in Keys : Contents[j] = Newest(w, j) BY <1>1 DEF Contents, Get
  <2> QED BY <1>4, <2>1, <2>2
<1>8. End(w) <= SectorSize
  <2>1. CASE header = "ours" BY <1>1, <2>1 DEF SpaceInv, Walked
  <2>2. CASE header # "ours"
    <3>1. w = <<>> BY <1>1, <2>2 DEF Walked
    <3>2. End(w) = HeaderSize BY <3>1, EndEmpty
    <3> QED BY <3>2, KvAssumption DEF HeaderSize
  <2> QED BY <2>1, <2>2
<1>9. /\ image' = ImagePut(image, k, v).img
      /\ IF overflow \/ ~ImagePut(image, k, v).ok
         THEN pc' = "idle" /\ ret' = "ENOSPC" ELSE pc' = "erase" /\ ret' = ret
  BY <1>2, <1>3 DEF CollectDone, Return
<1> DEFINE d == DropKey(image, k)
           r == [key |-> k, val |-> v]
           t == Append(d, r)
<1>10. /\ d \in Seq(Record) /\ Unique(d) /\ Valued(d) /\ End(d) <= End(image) /\ End(d) \in Nat
       /\ v = None => ImagePut(image, k, v).img = d /\ ImagePut(image, k, v).ok
       /\ v # None => /\ t \in Seq(Record) /\ Unique(t) /\ Valued(t)
                      /\ ImagePut(image, k, v).ok <=> End(t) <= SectorSize
                      /\ ImagePut(image, k, v).img = IF ImagePut(image, k, v).ok THEN t ELSE d
  BY <1>4, <1>5, SpaceOfPut
<1>11. \A j \in Keys : Newest(d, j) = IF j = k THEN None ELSE Newest(image, j)
  BY <1>4, <1>5, DropKeyRemoves
<1> HIDE DEF d
<1>12. r \in Record BY DEF Record
<1>13. \A j \in Keys : Newest(t, j) = IF j = k THEN v ELSE Newest(image, j)
  BY <1>10, <1>11, <1>12, NewestAppend
<1> HIDE DEF t, r
<1>14. header' = "ours" => End(log') <= SectorSize BY <1>4 DEF SpaceInv
<1>15. CASE ImagePut(image, k, v).ok
  <2>1. pc' = "erase" BY <1>5, <1>9, <1>15
  <2>2. End(image') <= SectorSize
    <3>1. CASE v = None
      <4>1. image' = d BY <1>9, <1>10, <3>1
      <4>2. End(d) <= SectorSize
        <5>1. End(w) \in Nat /\ End(image) \in Nat /\ SectorSize \in Nat BY <1>4, EndType, KvAssumption
        <5>2. End(image) <= End(w) /\ End(d) <= End(image) /\ End(d) \in Nat BY <1>5, <1>6, <1>10
        <5> QED BY <1>8, <5>1, <5>2
      <4> QED BY <4>1, <4>2
    <3>2. CASE v # None BY <1>9, <1>10, <1>15, <3>2
    <3> QED BY <3>1, <3>2
  <2> QED BY <1>14, <2>1, <2>2 DEF SpaceInv, NoSpaceMeansFull
<1>16. CASE ~ImagePut(image, k, v).ok
  <2>1. pc' = "idle" /\ ret' = "ENOSPC" BY <1>9, <1>16
  <2>2. v # None /\ t \in Seq(Record) /\ Unique(t) /\ Valued(t) /\ ~(End(t) <= SectorSize)
    BY <1>10, <1>16
  <2>3. End(t) <= Room(t) BY <2>2, RoomOfRun
  <2>4. \A j \in Keys : After'[j] = Newest(t, j)
    <3>1. After' = [before EXCEPT ![k] = v] BY <1>2, <1>3, <1>4 DEF After
    <3> QED BY <1>4, <1>7, <1>13, <3>1
  <2>5. Room(t) = Behind([i \in 1..Len(SetToSeq(Keys)) |-> LiveSize(After'[SetToSeq(Keys)[i]])])
    <3>1. \A i \in 1..Len(SetToSeq(Keys)) : SetToSeq(Keys)[i] \in Keys BY KeysListed
    <3>2. \A i \in 1..Len(SetToSeq(Keys)) :
             LiveSize(Newest(t, SetToSeq(Keys)[i])) = LiveSize(After'[SetToSeq(Keys)[i]])
      BY <2>4, <3>1
    <3> QED BY <3>2 DEF Room
  <2>6. Room(t) > SectorSize
    <3>1. \A i \in 1..Len(SetToSeq(Keys)) : LiveSize(Newest(t, SetToSeq(Keys)[i])) \in Nat
      <4>1. ASSUME NEW i \in 1..Len(SetToSeq(Keys)) PROVE LiveSize(Newest(t, SetToSeq(Keys)[i])) \in Nat
        <5>1. SetToSeq(Keys)[i] \in Keys BY KeysListed
        <5>2. Newest(t, SetToSeq(Keys)[i]) \in Values \cup {None} BY <2>2, <5>1, NewestType
        <5> QED BY <5>2, LiveSizeType
      <4> QED BY <4>1
    <3>2. Len(SetToSeq(Keys)) \in Nat BY KeysListed
    <3>3. [i \in 1..Len(SetToSeq(Keys)) |-> LiveSize(Newest(t, SetToSeq(Keys)[i]))] \in Seq(Nat)
      BY <3>1, <3>2
    <3>4. Room(t) \in Nat BY <3>3, BehindType DEF Room
    <3>5. End(t) \in Nat /\ SectorSize \in Nat BY <2>2, EndType, KvAssumption
    <3> QED BY <2>2, <2>3, <3>4, <3>5
  <2>7. NoSpaceMeansFull'
    BY <1>4, <1>5, <2>5, <2>6 DEF NoSpaceMeansFull
  <2> QED BY <1>14, <2>1, <2>7 DEF SpaceInv
<1> QED BY <1>15, <1>16

\* Part of a run that fits its sector fits it too.
LEMMA SpaceDamaged ==
    ASSUME NEW s \in Seq(Record), End(s) <= SectorSize, NEW n \in 0..Len(s), Damaged(s, n)
    PROVE  header' = "ours" => End(log') <= SectorSize
<1>1. CASE header' \in {"blank", "foreign"} BY <1>1
<1>2. CASE header' = "ours" /\ log' = SubSeq(s, 1, n)
  <2>1. End(SubSeq(s, 1, n)) <= End(s) /\ SubSeq(s, 1, n) \in Seq(Record) BY EndPart
  <2>2. End(SubSeq(s, 1, n)) \in Nat /\ End(s) \in Nat /\ SectorSize \in Nat
    BY <2>1, EndType, KvAssumption
  <2> QED BY <1>2, <2>1, <2>2
<1> QED BY <1>1, <1>2 DEF Damaged

\* Every step keeps the log, the image and the answers within the sector.
LEMMA SpaceStep == KvInv /\ SpaceInv /\ [Next]_vars => SpaceInv'
<1> SUFFICES ASSUME KvInv, SpaceInv, [Next]_vars PROVE SpaceInv'
  OBVIOUS
<1>t. log \in Seq(Record) /\ image \in Seq(Record) /\ job \in Job BY DEF KvInv, TypeOK
<1>r. [key |-> job.key, val |-> job.val] \in Record BY <1>t DEF Job, Record
<1>1. ASSUME NEW k \in Keys, NEW v \in Values, Set(k, v) PROVE SpaceInv'
  <2>1. UNCHANGED flash /\ job'.val = v BY <1>1 DEF Set, Begin
  <2>2. (pc' = "idle" /\ ret' # "ENOSPC") \/ StartAppend(v) BY <1>1 DEF Set, OutOfMemory, Return
  <2> QED BY <2>1, <2>2, SpaceStart
<1>2. ASSUME NEW k \in Keys, EraseKey(k) PROVE SpaceInv'
  <2>1. UNCHANGED flash /\ job'.val = None BY <1>2 DEF EraseKey, Begin
  <2>2. (pc' = "idle" /\ ret' # "ENOSPC") \/ StartAppend(None)
    BY <1>2 DEF EraseKey, OutOfMemory, Return
  <2> QED BY <2>1, <2>2, SpaceStart
<1>3. ASSUME NEW k \in Keys, StartErase(k) PROVE SpaceInv'
  BY <1>3 DEF StartErase, SpaceInv, NoSpaceMeansFull
<1>4. CASE Unprotect \/ Reprotect
  <2>1. pc = "idle" /\ pc' = pc /\ ret' = "none" /\ header' = header /\ log' = log
    BY <1>4 DEF Unprotect, Reprotect
  <2> QED BY <2>1 DEF SpaceInv, NoSpaceMeansFull
<1>a. ASSUME pc = "append", log' \in {log, Append(log, [key |-> job.key, val |-> job.val])},
             header' = header, pc' = "idle", ret' # "ENOSPC"
      PROVE  SpaceInv'
  <2>1. header = "ours" /\ End(log) <= SectorSize /\ End(log) + RecordSize(job.val) <= SectorSize
    BY <1>a DEF KvInv, SpaceInv
  <2>2. End(Append(log, [key |-> job.key, val |-> job.val])) = End(log) + RecordSize(job.val)
    BY <1>t, <1>r, EndAppend
  <2>3. End(log') <= SectorSize BY <1>a, <2>1, <2>2
  <2> QED BY <1>a, <2>3 DEF SpaceInv, NoSpaceMeansFull
<1>5. CASE AppendRecord
  <2>1. /\ pc = "append" /\ log' \in {log, Append(log, [key |-> job.key, val |-> job.val])}
        /\ header' = header /\ pc' = "idle" /\ ret' \in {"ok", "EIO"}
    BY <1>5 DEF AppendRecord, Return
  <2> QED BY <1>a, <2>1
<1>6. CASE CollectStep BY <1>6, SpaceCollect
<1>7. CASE CollectDone BY <1>7, SpaceDone
<1>8. CASE EraseSector
  <2>1. /\ pc = "erase" /\ pc' = "rewrite" /\ image' = image
        /\ (header' = header /\ log' = log) \/ header' = "blank"
    BY <1>8 DEF EraseSector, heap
  <2> QED BY <2>1 DEF SpaceInv, NoSpaceMeansFull
<1>9. CASE Rewrite
  <2>1. /\ pc = "rewrite" /\ pc' = "idle" /\ ret' \in {"ok", "EIO"}
        /\ (header' = header /\ log' = log) \/ log' = image
    BY <1>9 DEF Rewrite, Return
  <2>2. header' = "ours" => End(log') <= SectorSize BY <2>1 DEF SpaceInv
  <2> QED BY <2>1, <2>2 DEF SpaceInv, NoSpaceMeansFull
<1>10. CASE FinishErase
  BY <1>10 DEF FinishErase, Return, SpaceInv, NoSpaceMeansFull
<1>11. CASE CutAppend
  <2>1. /\ pc = "append" /\ log' \in {log, Append(log, [key |-> job.key, val |-> job.val])}
        /\ header' = header /\ pc' = "idle" /\ ret' = "cut_append"
    BY <1>11 DEF CutAppend, Reboot, Return
  <2> QED BY <1>a, <2>1
<1>12. CASE CutErase
  <2>1. pc' = "idle" /\ ret' = "cut_erase" BY <1>12 DEF CutErase, Reboot, Return
  <2>2. CASE UNCHANGED <<header, log, tail>>
    BY <2>1, <2>2 DEF SpaceInv, NoSpaceMeansFull
  <2>3. CASE header = "ours" /\ \E n \in 0..Len(log) : Damaged(log, n)
    <3>1. End(log) <= SectorSize BY <2>3 DEF SpaceInv
    <3>2. header' = "ours" => End(log') <= SectorSize BY <1>t, <2>3, <3>1, SpaceDamaged
    <3> QED BY <2>1, <3>2 DEF SpaceInv, NoSpaceMeansFull
  <2> QED BY <1>12, <2>2, <2>3 DEF CutErase
<1>13. CASE CutRewrite
  <2>1. pc' = "idle" /\ ret' = "cut_rewrite" BY <1>13 DEF CutRewrite, Reboot, Return
  <2>2. End(image) <= SectorSize BY <1>13 DEF CutRewrite, SpaceInv
  <2>3. PICK n \in 0..Len(image) : Damaged(image, n) BY <1>13 DEF CutRewrite
  <2>4. header' = "ours" => End(log') <= SectorSize BY <1>t, <2>2, <2>3, SpaceDamaged
  <2> QED BY <2>1, <2>4 DEF SpaceInv, NoSpaceMeansFull
<1>14. CASE UNCHANGED vars
  <2>1. /\ UNCHANGED <<header, log, pc, job, image, pos, overflow, ret, before>>
    BY <1>14 DEF vars
  <2>2. Walked' = Walked /\ After' = After BY <2>1 DEF Walked, After
  <2> QED BY <2>1, <2>2 DEF SpaceInv, NoSpaceMeansFull
<1> QED BY <1>1, <1>2, <1>3, <1>4, <1>5, <1>6, <1>7, <1>8, <1>9, <1>10, <1>11, <1>12, <1>13, <1>14
        DEF Next, Step

\* flash_kv_set() answers -ENOSPC only when the values that would be live do
\* not fit the sector, and collecting what the log holds never overflows: for
\* every set of keys, every length of values and every size of sector.
THEOREM NoSpaceIsHonest == Spec => []NoSpaceMeansFull
<1>1. Init => SpaceInv BY DEF Init, SpaceInv, NoSpaceMeansFull
<1>2. SpaceInv => NoSpaceMeansFull BY DEF SpaceInv
<1> QED BY <1>1, <1>2, KvInvInit, KvInvStep, SpaceStep, PTL DEF Spec

-----------------------------------------------------------------------------
(* The settings kept in the store: config_save(), config_reset() and the   *)
(* requests of camera_web.cpp, for every number of workers and networks.   *)

\* The steps of a setup before it has joined: it tries settings it has not stored.
Trial == {"off", "try", "poll", "back"}

\* The steps at which it has the settings it would put back.
Backed == Trial \cup {"body"}

Request == [pc : Apart \cup {"idle", "post", "save", "tell"}, next : Settings, backup : Settings,
            k : Nat, err : BOOLEAN, inside : BOOLEAN, val : BOOLEAN \cup Nets \cup {NoNet}]

AppTypes ==
    /\ ram \in Settings /\ kv \in Settings /\ web \in [Workers -> Request]
    /\ unsaved \in BOOLEAN /\ mixed \in BOOLEAN

\* The request is still to store the i-th key, to take back what it tried, or to erase.
Owes(r, i) ==
    \/ r.pc \in {"save", "joined"} /\ r.k <= i
    \/ r.pc \in Trial \cup {"erase"}

\* A setup or a reset runs beside requests that have touched nothing yet.
SetupAlone ==
    \A v, w \in Workers : (web[w].pc \in Apart /\ v # w) => web[v].pc \in {"idle", "post"}

\* A key that differs from the settings in RAM is owed by some request; what a setup
\* would put back is what is stored.
KvFollows ==
    /\ \A w \in Workers : web[w].pc \in Backed => kv = web[w].backup
    /\ \A w \in Workers : web[w].pc = "erase" => ram = Defaults
    /\ \A i \in 1..3 : kv[Fields[i]] = ram[Fields[i]] \/ \E w \in Workers : Owes(web[w], i)

\* A value on its way to the store is one of the key it is stored under.
Carries ==
    \A w \in Workers : web[w].inside =>
        /\ web[w].pc \in {"save", "joined"} /\ web[w].k \in 1..3
        /\ \E d \in Settings : web[w].val = d[Fields[web[w].k]]

\* It is the one in RAM.
Fresh == \A w \in Workers : web[w].inside => web[w].val = ram[Fields[web[w].k]]

AppInv ==
    /\ AppTypes /\ Carries
    /\ \A w \in Workers : web[w].err => unsaved
    /\ \A w \in Workers : web[w].pc = "save" => web[w].k \in 1..3
    /\ \A w \in Workers : web[w].pc = "joined" => web[w].k \in 1..4
    /\ ~mixed => (SetupAlone /\ Fresh)
    /\ (~mixed /\ ~unsaved) => KvFollows

\* config_save() stores three keys, and they are all there is.
LEMMA FieldsAre ==
    /\ Len(Fields) = 3 /\ Fields[1] = "ap" /\ Fields[2] = "net" /\ Fields[3] = "sta"
    /\ \A c, d \in Settings : (\A i \in 1..3 : c[Fields[i]] = d[Fields[i]]) => c = d
<1>1. Len(Fields) = 3 /\ Fields[1] = "ap" /\ Fields[2] = "net" /\ Fields[3] = "sta"
  BY DEF Fields
<1>2. ASSUME NEW c \in Settings, NEW d \in Settings, \A i \in 1..3 : c[Fields[i]] = d[Fields[i]]
      PROVE  c = d
  <2>1. c.ap = d.ap /\ c.net = d.net /\ c.sta = d.sta
    BY <1>1, <1>2
  <2> QED BY <2>1 DEF Settings
<1> QED BY <1>1, <1>2

\* The constants of the model are of their types.
LEMMA AppConstants ==
    /\ Defaults \in Settings /\ NoRequest \in Request
    /\ NoRequest.pc = "idle" /\ ~NoRequest.err /\ ~NoRequest.inside
  BY DEF Defaults, Settings, NoRequest, Request

\* A worker's step changes its own request.
LEMMA WebChanges ==
    ASSUME AppInv, NEW w \in Workers, NEW r \in Request, SetWeb(w, r)
    PROVE  /\ web' \in [Workers -> Request] /\ web'[w] = r
           /\ \A v \in Workers \ {w} : web'[v] = web[v]
  BY DEF SetWeb, AppInv, AppTypes

\* The main task, the station's events and a step of a setup that leaves the settings
\* and the stored ones alone.
LEMMA AppFrame ==
    ASSUME AppInv, UNCHANGED <<ram, kv, web, unsaved, mixed>>
    PROVE  AppInv'
  BY DEF AppInv, AppTypes, Carries, Fresh, SetupAlone, KvFollows

\* A step after which the worker has no value on its way leaves those of the others
\* alone, or there is none.
LEMMA HandsFree ==
    ASSUME AppInv, NEW w \in Workers, NEW r \in Request, SetWeb(w, r), ~r.inside,
           (ram' = ram /\ mixed' = mixed) \/ mixed' = (mixed \/ Overlaps(w))
    PROVE  Carries' /\ (~mixed' => Fresh')
<1>1. /\ web' \in [Workers -> Request] /\ web'[w] = r
      /\ \A v \in Workers \ {w} : web'[v] = web[v]
  BY WebChanges
<1>2. \A v \in Workers : web'[v].inside => v # w /\ web'[v] = web[v]
  BY <1>1
<1>3. Carries'
  BY <1>2 DEF AppInv, Carries
<1>4. CASE ram' = ram /\ mixed' = mixed
  BY <1>2, <1>3, <1>4 DEF AppInv, Fresh
<1>5. CASE mixed' = (mixed \/ Overlaps(w))
  <2>1. ~mixed' => \A v \in Workers \ {w} : ~web[v].inside
    BY <1>5, Zenon DEF Overlaps
  <2> QED BY <1>2, <1>3, <2>1 DEF Fresh
<1> QED BY <1>4, <1>5

\* A POST that has copied the settings has changed nothing yet.
LEMMA PostReadKeeps ==
    ASSUME AppInv, NEW w \in Workers, PostRead(w)
    PROVE  AppInv'
<1>1. PICK next \in Settings : SetWeb(w, [NoRequest EXCEPT !.pc = "post", !.next = next])
  BY CameraAppAssumption, Zenon DEF PostRead
<1> DEFINE r == [NoRequest EXCEPT !.pc = "post", !.next = next]
<1>2. r \in Request /\ r.pc = "post" /\ ~r.err /\ ~r.inside
  BY AppConstants DEF Request
<1> HIDE DEF r
<1>3. /\ web' \in [Workers -> Request] /\ web'[w] = r
      /\ \A v \in Workers \ {w} : web'[v] = web[v]
  BY <1>1, <1>2, WebChanges DEF r
<1>4. web[w].pc = "idle" /\ UNCHANGED <<ram, kv, unsaved, mixed>>
  BY DEF PostRead, Takes
<1>5. Carries' /\ (~mixed' => Fresh')
  BY <1>1, <1>2, <1>4, HandsFree DEF r
<1> QED BY <1>2, <1>3, <1>4, <1>5 DEF AppInv, AppTypes, SetupAlone, KvFollows, Owes, Backed, Trial, Apart

\* config_save() goes on to the next key.
LEMMA NextKey ==
    ASSUME NEW s \in Request, NEW err \in BOOLEAN
    PROVE  LET r == [s EXCEPT !.k = @ + 1, !.err = err, !.inside = FALSE, !.val = FALSE]
           IN  /\ r \in Request /\ r.pc = s.pc /\ r.k = s.k + 1 /\ r.err = err
               /\ r.backup = s.backup /\ ~r.inside
<1> DEFINE r == [s EXCEPT !.k = @ + 1, !.err = err, !.inside = FALSE, !.val = FALSE]
           q == [s EXCEPT !.k = @ + 1]
<1>1. q \in Request /\ q.pc = s.pc /\ q.k = s.k + 1 /\ q.backup = s.backup
  BY DEF Request
<1>2. r = [q EXCEPT !.err = err, !.inside = FALSE, !.val = FALSE]
  OBVIOUS
<1> HIDE DEF q, r
<1>3. r \in Request /\ r.pc = q.pc /\ r.k = q.k /\ r.err = err /\ r.backup = q.backup /\ ~r.inside
  BY <1>1, <1>2 DEF Request
<1> QED BY <1>1, <1>3 DEF r

\* A worker that has read a value for the store carries the one in RAM.
LEMMA SaveReadKeeps ==
    ASSUME AppInv, NEW w \in Workers, SaveRead(w)
    PROVE  AppInv'
<1>1. /\ web[w] \in Request /\ web[w].pc \in {"save", "joined"} /\ web[w].k \in 1..3
      /\ ram \in Settings /\ UNCHANGED <<ram, kv, unsaved>>
      /\ mixed' = (mixed \/ \E v \in Workers \ {w} : web[v].inside)
  BY FieldsAre DEF AppInv, AppTypes, Request, SaveRead
<1>2. PICK x \in BOOLEAN \cup Nets \cup {NoNet} : x = ram[Fields[web[w].k]]
  BY <1>1, FieldsAre DEF Settings
<1> DEFINE r == [web[w] EXCEPT !.inside = TRUE, !.val = x]
<1>3. /\ r \in Request /\ r.pc = web[w].pc /\ r.k = web[w].k /\ r.err = web[w].err
      /\ r.backup = web[w].backup /\ r.val = x
  BY <1>1 DEF Request
<1>4. SetWeb(w, r)
  BY <1>2 DEF SaveRead
<1> HIDE DEF r
<1>5. /\ web' \in [Workers -> Request] /\ web'[w] = r
      /\ \A v \in Workers \ {w} : web'[v] = web[v]
  BY <1>3, <1>4, WebChanges
<1>6. mixed' \in BOOLEAN /\ (mixed => mixed')
  <2>1. mixed' \in BOOLEAN BY <1>1 DEF AppInv, AppTypes
  <2>2. mixed => mixed' BY <1>1, Zenon
  <2> QED BY <2>1, <2>2
<1>7. Carries'
  <2>1. \E d \in Settings : web'[w].val = d[Fields[web'[w].k]]
    BY <1>1, <1>2, <1>3, <1>5
  <2> QED BY <1>1, <1>3, <1>5, <2>1 DEF AppInv, Carries
<1>8. ~mixed' => Fresh'
  BY <1>1, <1>2, <1>3, <1>5, <1>6 DEF AppInv, Fresh
<1>9. ~mixed' => SetupAlone'
  BY <1>1, <1>3, <1>5, <1>6 DEF AppInv, SetupAlone
<1>10. \A v \in Workers : /\ web'[v].pc = web[v].pc /\ web'[v].k = web[v].k
                          /\ web'[v].err = web[v].err /\ web'[v].backup = web[v].backup
  BY <1>3, <1>5
<1>11. (~mixed' /\ ~unsaved') => KvFollows'
  BY <1>1, <1>6, <1>10 DEF AppInv, KvFollows, Owes
<1> QED BY <1>1, <1>5, <1>6, <1>7, <1>8, <1>9, <1>10, <1>11 DEF AppInv, AppTypes

\* flash_kv_set() stores the value it was given, which is the one in RAM as long as no
\* other worker changed that meanwhile.
LEMMA SaveFieldKeeps ==
    ASSUME AppInv, NEW w \in Workers, SaveField(w)
    PROVE  AppInv'
<1>1. /\ web[w] \in Request /\ web[w].inside /\ web[w].k \in 1..3
      /\ web[w].pc \in {"save", "joined"} /\ UNCHANGED <<ram, mixed>>
  BY DEF AppInv, AppTypes, Carries, SaveField
<1>2. PICK err \in BOOLEAN :
        /\ Saved(w, err)
        /\ \/ kv' = [kv EXCEPT ![Fields[web[w].k]] = web[w].val] /\ UNCHANGED unsaved /\ err = web[w].err
           \/ unsaved' = TRUE /\ UNCHANGED kv /\ err = TRUE
  BY <1>1 DEF SaveField, Request
<1> DEFINE last == web[w].pc = "save" /\ web[w].k = 3
           r == IF last THEN NoRequest
                ELSE [web[w] EXCEPT !.k = @ + 1, !.err = err, !.inside = FALSE, !.val = FALSE]
<1>3. /\ r \in Request /\ ~r.inside
      /\ last => r.pc = "idle" /\ ~r.err
      /\ ~last => r.pc = web[w].pc /\ r.k = web[w].k + 1 /\ r.err = err /\ r.backup = web[w].backup
  <2>1. CASE last BY <2>1, AppConstants
  <2>2. CASE ~last
    <3> DEFINE q == [web[w] EXCEPT !.k = @ + 1, !.err = err, !.inside = FALSE, !.val = FALSE]
    <3>1. /\ q \in Request /\ q.pc = web[w].pc /\ q.k = web[w].k + 1 /\ q.err = err
          /\ q.backup = web[w].backup /\ ~q.inside
      BY <1>1, NextKey, Zenon
    <3>2. r = q BY <2>2
    <3> HIDE DEF q, r
    <3> QED BY <2>2, <3>1, <3>2
  <2> QED BY <2>1, <2>2
<1>4. SetWeb(w, r)
  BY <1>2, FieldsAre DEF Saved
<1> HIDE DEF r
<1>5. /\ web' \in [Workers -> Request] /\ web'[w] = r
      /\ \A v \in Workers \ {w} : web'[v] = web[v]
  BY <1>3, <1>4, WebChanges
<1>6. Carries' /\ (~mixed' => Fresh')
  BY <1>1, <1>3, <1>4, HandsFree
<1>7. ~mixed => SetupAlone'
  BY <1>1, <1>3, <1>5 DEF AppInv, SetupAlone, Apart
<1>8. \A v \in Workers :
        /\ web'[v].pc = "save" => web'[v].k \in 1..3
        /\ web'[v].pc = "joined" => web'[v].k \in 1..4
  BY <1>1, <1>3, <1>5 DEF AppInv
<1>9. CASE unsaved' = TRUE /\ UNCHANGED kv
  BY <1>1, <1>5, <1>6, <1>7, <1>8, <1>9 DEF AppInv, AppTypes
<1>10. CASE kv' = [kv EXCEPT ![Fields[web[w].k]] = web[w].val] /\ UNCHANGED unsaved /\ err = web[w].err
  <2> DEFINE n == web[w].k
  <2>1. PICK d \in Settings : web[w].val = d[Fields[n]]
    BY <1>1 DEF AppInv, Carries
  <2>2. /\ kv' \in Settings /\ kv'[Fields[n]] = web[w].val
        /\ \A i \in 1..3 \ {n} : kv'[Fields[i]] = kv[Fields[i]]
    BY <1>1, <1>10, <2>1, FieldsAre DEF Settings, AppInv, AppTypes
  <2>3. (~mixed /\ ~unsaved) => \A v \in Workers : web'[v].pc \notin Backed \cup {"erase"}
    BY <1>1, <1>3, <1>5 DEF AppInv, SetupAlone, Backed, Trial, Apart
  <2>4. \A i \in 1..3 \ {n} : Owes(web[w], i) => Owes(web'[w], i)
    BY <1>1, <1>3, <1>5 DEF Owes, Trial
  <2>5. ~mixed => kv'[Fields[n]] = ram[Fields[n]]
    BY <1>1, <2>2 DEF AppInv, Fresh
  <2>6. (~mixed /\ ~unsaved) => KvFollows'
    BY <1>1, <1>5, <2>2, <2>3, <2>4, <2>5 DEF AppInv, KvFollows
  <2>7. (web[w].err => unsaved) /\ web[w].err \in BOOLEAN
    BY <1>1 DEF AppInv, Request
  <2>8. \A v \in Workers : web'[v].err => unsaved
    BY <1>3, <1>5, <1>10, <2>7 DEF AppInv
  <2>9. UNCHANGED <<ram, unsaved, mixed>>
    BY <1>1, <1>10
  <2>10. AppTypes'
    BY <1>5, <2>2, <2>9 DEF AppInv, AppTypes
  <2>11. \A v \in Workers : web'[v].err => unsaved'
    BY <2>8, <2>9
  <2>12. /\ ~mixed' => SetupAlone' /\ Fresh'
         /\ (~mixed' /\ ~unsaved') => KvFollows'
    BY <1>6, <1>7, <2>6, <2>9
  <2> QED BY <1>6, <1>8, <2>10, <2>11, <2>12 DEF AppInv
<1> QED BY <1>2, <1>9, <1>10

\* A setup or a reset that starts while no other request is under way finds the stored
\* settings in RAM.
LEMMA StartsStored ==
    ASSUME AppInv, NEW w \in Workers, web[w].pc = "idle", ~mixed, ~unsaved, ~Overlaps(w)
    PROVE  kv = ram /\ \A v \in Workers : web[v].pc = "idle"
<1>1. \A v \in Workers : web[v].pc = "idle"
  BY DEF Overlaps
<1>2. \A i \in 1..3 : kv[Fields[i]] = ram[Fields[i]]
  BY <1>1 DEF AppInv, KvFollows, Owes, Trial
<1>3. kv = ram
  BY <1>2, FieldsAre DEF AppInv, AppTypes
<1> QED BY <1>1, <1>3

\* A setup keeps the settings it found, which are the stored ones.
LEMMA SetupReadKeeps ==
    ASSUME AppInv, NEW w \in Workers, SetupRead(w)
    PROVE  AppInv'
<1> DEFINE r == [NoRequest EXCEPT !.pc = "body", !.backup = ram]
<1>1. /\ web[w].pc = "idle" /\ mixed' = (mixed \/ Overlaps(w)) /\ UNCHANGED <<ram, kv, unsaved>>
      /\ ram \in Settings /\ SetWeb(w, r)
  BY DEF SetupRead, Takes, AppInv, AppTypes
<1>2. r \in Request /\ r.pc = "body" /\ r.backup = ram /\ ~r.err /\ ~r.inside
  BY <1>1, AppConstants DEF Request, Apart
<1> HIDE DEF r
<1>3. /\ web' \in [Workers -> Request] /\ web'[w] = r
      /\ \A v \in Workers \ {w} : web'[v] = web[v]
  BY <1>1, <1>2, WebChanges
<1>4. mixed' \in BOOLEAN
  BY <1>1 DEF Overlaps, AppInv, AppTypes
<1>5. ~mixed' => SetupAlone'
  BY <1>1, <1>3 DEF SetupAlone, Overlaps
<1>6. Carries' /\ (~mixed' => Fresh')
  BY <1>1, <1>2, HandsFree
<1>7. (~mixed' /\ ~unsaved') => KvFollows'
  <2> SUFFICES ASSUME ~mixed', ~unsaved' PROVE KvFollows'
    OBVIOUS
  <2>1. kv = ram /\ \A v \in Workers : web[v].pc = "idle"
    BY <1>1, StartsStored
  <2> QED BY <1>1, <1>2, <1>3, <2>1 DEF KvFollows, Backed, Trial
<1> QED BY <1>1, <1>2, <1>3, <1>4, <1>5, <1>6, <1>7 DEF AppInv, AppTypes

\* A setup goes on: whatever it tries, what it would put back is what is stored.
LEMMA TrialGoesOn ==
    ASSUME AppInv, NEW w \in Workers, NEW r \in Request, SetWeb(w, r), web[w].pc \in Backed,
           r.pc \in Trial, r.backup = web[w].backup, r.err = web[w].err, ~r.inside,
           UNCHANGED <<kv, unsaved>>, ram' \in Settings,
           (ram' = ram /\ mixed' = mixed) \/ mixed' = (mixed \/ Overlaps(w))
    PROVE  AppInv'
<1>1. /\ web' \in [Workers -> Request] /\ web'[w] = r
      /\ \A v \in Workers \ {w} : web'[v] = web[v]
  BY WebChanges
<1>2. mixed' \in BOOLEAN /\ (mixed => mixed')
  <2>1. mixed' \in BOOLEAN BY DEF Overlaps, AppInv, AppTypes
  <2>2. mixed => mixed' BY Zenon
  <2> QED BY <2>1, <2>2
<1>3. /\ Backed \subseteq Apart /\ Trial \subseteq Backed
      /\ Backed \cap {"erase", "save", "joined", "idle", "post"} = {}
  BY DEF Backed, Trial, Apart
<1>4. ~mixed' => SetupAlone'
  BY <1>1, <1>2, <1>3 DEF AppInv, SetupAlone
<1>5. Carries' /\ (~mixed' => Fresh')
  BY HandsFree
<1>6. (~mixed' /\ ~unsaved') => KvFollows'
  <2> SUFFICES ASSUME ~mixed', ~unsaved' PROVE KvFollows'
    OBVIOUS
  <2>1. \A v \in Workers \ {w} : web[v].pc \in {"idle", "post"}
    BY <1>2, <1>3 DEF AppInv, SetupAlone
  <2>2. \A i \in 1..3 : Owes(web'[w], i)
    BY <1>1 DEF Owes
  <2>3. kv = web[w].backup
    BY <1>2 DEF AppInv, KvFollows
  <2> QED BY <1>1, <1>3, <2>1, <2>2, <2>3 DEF KvFollows
<1> QED BY <1>1, <1>2, <1>3, <1>4, <1>5, <1>6 DEF AppInv, AppTypes

\* The station goes down, the network is tried, and the setup gives up.
LEMMA SetupGoesOn ==
    ASSUME AppInv, NEW w \in Workers, SetupOff(w) \/ SetupTry(w) \/ SetupFails(w)
    PROVE  AppInv'
<1>1. PICK l \in Trial : SetWeb(w, [web[w] EXCEPT !.pc = l])
  BY DEF SetupOff, SetupTry, SetupFails, Goto, Trial
<1>2. /\ web[w].pc \in Trial /\ web[w] \in Request /\ UNCHANGED <<kv, unsaved>>
      /\ (ram' = ram /\ mixed' = mixed) \/ (ram' = web[w].next /\ mixed' = (mixed \/ Overlaps(w)))
  BY DEF SetupOff, SetupTry, SetupFails, Goto, Trial, SetRam, AppInv, AppTypes
<1>3. ~web[w].inside
  BY <1>2 DEF AppInv, Carries, Trial
<1> DEFINE r == [web[w] EXCEPT !.pc = l]
<1>4. /\ r \in Request /\ r.pc \in Trial /\ r.backup = web[w].backup /\ r.err = web[w].err
      /\ ~r.inside /\ ram' \in Settings
  BY <1>2, <1>3 DEF Request, Trial, Apart, AppInv, AppTypes
<1>5. SetWeb(w, r) BY <1>1
<1> HIDE DEF r
<1>6. web[w].pc \in Backed BY <1>2 DEF Backed
<1> QED BY <1>2, <1>4, <1>5, <1>6, TrialGoesOn

\* A setup that has joined gives up what it would put back and has yet to store the
\* settings it tried.
LEMMA SetupJoinedKeeps ==
    ASSUME AppInv, NEW w \in Workers, SetupJoined(w)
    PROVE  AppInv'
<1>1. /\ web[w].pc = "poll" /\ web[w] \in Request /\ UNCHANGED <<kv, unsaved>>
      /\ mixed' = (mixed \/ Overlaps(w)) /\ ram' = [web[w].next EXCEPT !.ap = FALSE]
      /\ SetWeb(w, [web[w] EXCEPT !.pc = "joined", !.k = 1, !.next.ap = FALSE, !.backup = Defaults])
  BY DEF SetupJoined, SetRam, AppInv, AppTypes
<1>2. ram' \in Settings
  <2>1. web[w].next \in Settings BY <1>1 DEF Request
  <2> QED BY <1>1, <2>1 DEF Settings
<1> DEFINE r == [web[w] EXCEPT !.pc = "joined", !.k = 1, !.next.ap = FALSE, !.backup = Defaults]
<1>3. r \in Request /\ r.pc = "joined" /\ r.k = 1 /\ r.err = web[w].err /\ ~r.inside
  <2>1. PICK s \in Request : s = web[w] /\ ~s.inside BY <1>1 DEF AppInv, Carries
  <2>2. s.next \in Settings BY DEF Request
  <2>3. PICK c \in Settings : c = [s.next EXCEPT !.ap = FALSE] BY <2>2 DEF Settings
  <2>4. r = [s EXCEPT !.pc = "joined", !.k = 1, !.next = c, !.backup = Defaults] BY <2>1, <2>3
  <2> HIDE DEF r
  <2> QED BY <2>1, <2>4, AppConstants DEF Request, Apart
<1>4. /\ web' \in [Workers -> Request] /\ web'[w] = r
      /\ \A v \in Workers \ {w} : web'[v] = web[v]
  BY <1>1, <1>3, WebChanges
<1> HIDE DEF r
<1>5. mixed' \in BOOLEAN
  BY <1>1 DEF Overlaps, AppInv, AppTypes
<1>6. ~mixed' => \A v \in Workers \ {w} : web[v].pc = "idle"
  BY <1>1 DEF Overlaps, Apart
<1>7. \A i \in 1..3 : Owes(web'[w], i)
  BY <1>3, <1>4 DEF Owes
<1>8. Carries' /\ (~mixed' => Fresh')
  <2>1. SetWeb(w, r) BY <1>1 DEF r
  <2> QED BY <1>1, <1>3, <2>1, HandsFree
<1> QED BY <1>1, <1>2, <1>3, <1>4, <1>5, <1>6, <1>7, <1>8
        DEF AppInv, AppTypes, SetupAlone, KvFollows, Backed, Trial, Apart

\* A request that ends has nothing to store any more: it stored every key, or put back
\* what is stored, or a save failed.
LEMMA RequestEnds ==
    ASSUME AppInv, NEW w \in Workers, NEW r \in Request, SetWeb(w, r), r.pc \in {"idle", "tell"}, ~r.err, ~r.inside,
           r.pc = "idle" \/ web[w].pc \notin {"idle", "post"},
           (ram' = ram /\ mixed' = mixed) \/ mixed' = (mixed \/ Overlaps(w)),
           ram' \in Settings, kv' \in Settings, unsaved' \in BOOLEAN, mixed' \in BOOLEAN,
           unsaved => unsaved', mixed => mixed',
           (~mixed' /\ ~unsaved') =>
             \/ kv' = ram' /\ \A v \in Workers \ {w} : web[v].pc \in {"idle", "post"}
             \/ UNCHANGED <<ram, kv>> /\ \A i \in 1..3 : ~Owes(web[w], i)
    PROVE  AppInv'
<1>1. /\ web' \in [Workers -> Request] /\ web'[w] = r
      /\ \A v \in Workers \ {w} : web'[v] = web[v]
  BY WebChanges
<1>2. AppTypes'
  BY <1>1 DEF AppTypes
<1>3. ~mixed' => SetupAlone'
  BY <1>1 DEF AppInv, SetupAlone, Apart
<1>4. (~mixed' /\ ~unsaved') => KvFollows'
  <2> SUFFICES ASSUME ~mixed', ~unsaved' PROVE KvFollows'
    OBVIOUS
  <2>1. CASE kv' = ram' /\ \A v \in Workers \ {w} : web[v].pc \in {"idle", "post"}
    <3>1. \A v \in Workers : web'[v].pc \notin Backed \cup {"erase"}
      BY <1>1, <2>1 DEF Backed, Trial
    <3> QED BY <2>1, <3>1 DEF KvFollows
  <2>2. CASE UNCHANGED <<ram, kv>> /\ \A i \in 1..3 : ~Owes(web[w], i)
    <3>1. KvFollows BY DEF AppInv
    <3>2. \A v \in Workers : web'[v].pc \in Backed \cup {"erase"} => web'[v] = web[v]
      BY <1>1 DEF Backed, Trial
    <3> QED BY <1>1, <2>2, <3>1, <3>2 DEF KvFollows
  <2> QED BY <2>1, <2>2
<1>5. \A v \in Workers :
        /\ web'[v].err => unsaved'
        /\ web'[v].pc = "save" => web'[v].k \in 1..3
        /\ web'[v].pc = "joined" => web'[v].k \in 1..4
  BY <1>1 DEF AppInv
<1>6. Carries' /\ (~mixed' => Fresh')
  BY HandsFree
<1> QED BY <1>2, <1>3, <1>4, <1>5, <1>6 DEF AppInv

\* A POST applies its settings and has yet to store all of them.
LEMMA PostApplyKeeps ==
    ASSUME AppInv, NEW w \in Workers, PostApply(w), web'[w].pc # "idle"
    PROVE  AppInv'
<1>1. /\ web[w].pc = "post" /\ ram' = web[w].next /\ UNCHANGED <<kv, unsaved>>
      /\ mixed' = (mixed \/ Overlaps(w))
      /\ SetWeb(w, [NoRequest EXCEPT !.pc = "save", !.k = 1])
  <2>1. ~SetWeb(w, NoRequest)
    BY AppConstants, WebChanges
  <2> QED BY <2>1 DEF PostApply, SetRam
<1> DEFINE r == [NoRequest EXCEPT !.pc = "save", !.k = 1]
<1>2. r \in Request /\ r.pc = "save" /\ r.k = 1 /\ ~r.err /\ ~r.inside
  BY AppConstants DEF Request
<1> HIDE DEF r
<1>3. /\ web' \in [Workers -> Request] /\ web'[w] = r
      /\ \A v \in Workers \ {w} : web'[v] = web[v]
  BY <1>1, <1>2, WebChanges DEF r
<1>4. Carries' /\ (~mixed' => Fresh')
  BY <1>1, <1>2, HandsFree DEF r
<1>5. ram' \in Settings /\ mixed' \in BOOLEAN
  BY <1>1 DEF AppInv, AppTypes, Request, Overlaps
<1>6. ~mixed' => \A v \in Workers : web'[v].pc \notin Apart
  BY <1>1, <1>2, <1>3 DEF Overlaps, Apart
<1>7. Backed \subseteq Apart /\ "erase" \in Apart
  BY DEF Backed, Trial, Apart
<1>8. \A i \in 1..3 : Owes(web'[w], i)
  BY <1>2, <1>3 DEF Owes
<1> QED BY <1>1, <1>2, <1>3, <1>4, <1>5, <1>6, <1>7, <1>8 DEF AppInv, AppTypes, SetupAlone, KvFollows

\* A POST whose body is bad ends and leaves everything as it is.
LEMMA PostEnds ==
    ASSUME AppInv, NEW w \in Workers, PostApply(w), web'[w].pc = "idle"
    PROVE  AppInv'
<1>1. /\ web[w].pc = "post" /\ SetWeb(w, NoRequest) /\ UNCHANGED <<ram, kv, unsaved, mixed>>
  <2> DEFINE r == [NoRequest EXCEPT !.pc = "save", !.k = 1]
  <2>1. r \in Request /\ r.pc = "save"
    BY AppConstants DEF Request
  <2> HIDE DEF r
  <2>2. ~SetWeb(w, r)
    BY <2>1, WebChanges
  <2> QED BY <2>2 DEF PostApply, r
<1>2. /\ ram' \in Settings /\ kv' \in Settings /\ unsaved' \in BOOLEAN /\ mixed' \in BOOLEAN
      /\ (unsaved => unsaved') /\ (mixed => mixed')
  BY <1>1 DEF AppInv, AppTypes
<1>3. \A i \in 1..3 : ~Owes(web[w], i)
  BY <1>1 DEF Owes, Trial
<1> QED BY <1>1, <1>2, <1>3, AppConstants, RequestEnds

\* The body of a setup has come; a bad one ends it with nothing tried.
LEMMA SetupBodyKeeps ==
    ASSUME AppInv, NEW w \in Workers, SetupBody(w)
    PROVE  AppInv'
<1>1. /\ web[w].pc = "body" /\ web[w] \in Request /\ UNCHANGED <<kv, unsaved>>
      /\ ~web[w].inside /\ web[w].pc \in Backed
  BY DEF SetupBody, AppInv, AppTypes, Carries, Backed
<1>2. PICK old \in Settings : old = web[w].backup
  BY <1>1 DEF Request
<1>3. CASE SetWeb(w, NoRequest) /\ UNCHANGED <<ram, mixed>>
  <2>1. /\ ram' \in Settings /\ kv' \in Settings /\ unsaved' \in BOOLEAN /\ mixed' \in BOOLEAN
        /\ (unsaved => unsaved') /\ (mixed => mixed')
    BY <1>1, <1>3 DEF AppInv, AppTypes
  <2>2. \A i \in 1..3 : ~Owes(web[w], i)
    BY <1>1 DEF Owes, Trial
  <2> QED BY <1>1, <1>3, <2>1, <2>2, AppConstants, RequestEnds
<1>4. ASSUME NEW n \in Nets, NEW l \in {"off", "try"}, ram' \in Settings,
             (ram' = ram /\ mixed' = mixed) \/ mixed' = (mixed \/ Overlaps(w)),
             SetWeb(w, [web[w] EXCEPT !.pc = l, !.next = [old EXCEPT !.net = n, !.sta = TRUE]])
      PROVE  AppInv'
  <2>1. PICK c \in Settings : c = [old EXCEPT !.net = n, !.sta = TRUE]
    BY DEF Settings
  <2> DEFINE r == [web[w] EXCEPT !.pc = l, !.next = c]
  <2>2. /\ r \in Request /\ r.pc = l /\ r.backup = web[w].backup /\ r.err = web[w].err /\ ~r.inside
    BY <1>1 DEF Request, Apart
  <2>3. SetWeb(w, r) BY <1>4, <2>1
  <2> HIDE DEF r
  <2>4. r.pc \in Trial BY <2>2 DEF Trial
  <2> QED BY <1>1, <1>4, <2>2, <2>3, <2>4, TrialGoesOn
<1>5. \/ SetWeb(w, NoRequest) /\ UNCHANGED <<ram, mixed>>
      \/ \E n \in Nets :
            /\ SetWeb(w, [web[w] EXCEPT !.pc = "off", !.next = [old EXCEPT !.net = n, !.sta = TRUE]])
            /\ ram' = [old EXCEPT !.sta = FALSE] /\ mixed' = (mixed \/ Overlaps(w))
      \/ \E n \in Nets :
            /\ SetWeb(w, [web[w] EXCEPT !.pc = "try", !.next = [old EXCEPT !.net = n, !.sta = TRUE]])
            /\ ram' = ram /\ mixed' = mixed
  BY <1>2, CameraAppAssumption, Zenon DEF SetupBody, SetRam
<1>6. ram \in Settings /\ [old EXCEPT !.sta = FALSE] \in Settings
  BY DEF AppInv, AppTypes, Settings
<1> QED BY <1>3, <1>4, <1>5, <1>6

\* The request of a worker that has only its answer to send.
LEMMA TellRequest ==
    LET r == [NoRequest EXCEPT !.pc = "tell"]
    IN  r \in Request /\ r.pc = "tell" /\ ~r.err /\ ~r.inside
  BY AppConstants DEF Request

\* The setup has stored all keys; if one could not be stored, a save failed.
LEMMA SetupSavedKeeps ==
    ASSUME AppInv, NEW w \in Workers, SetupSaved(w)
    PROVE  AppInv'
<1>1. /\ web[w].pc = "joined" /\ web[w].k > 3 /\ web[w] \in Request /\ UNCHANGED <<kv, unsaved>>
      /\ web[w].err => unsaved
  BY FieldsAre DEF SetupSaved, AppInv, AppTypes
<1>2. kv' \in Settings /\ unsaved' \in BOOLEAN
  BY <1>1 DEF AppInv, AppTypes
<1>3. CASE web[w].err
  <2>1. /\ ram' = [web[w].next EXCEPT !.ap = TRUE] /\ mixed' = (mixed \/ Overlaps(w))
        /\ SetWeb(w, NoRequest)
    BY <1>3 DEF SetupSaved, SetRam
  <2>2. web[w].next \in Settings BY <1>1 DEF Request
  <2>3. ram' \in Settings BY <2>1, <2>2 DEF Settings
  <2>4. mixed' \in BOOLEAN BY <2>1 DEF Overlaps, AppInv, AppTypes
  <2>5. mixed => mixed' BY <2>1, Zenon
  <2>6. unsaved' BY <1>1, <1>3
  <2>7. SetWeb(w, NoRequest) BY <2>1
  <2>8. mixed' = (mixed \/ Overlaps(w)) BY <2>1
  <2> QED BY <1>1, <1>2, <2>3, <2>4, <2>5, <2>6, <2>7, <2>8, AppConstants, RequestEnds
<1>4. CASE ~web[w].err
  <2> DEFINE r == [NoRequest EXCEPT !.pc = "tell"]
  <2>1. SetWeb(w, r) /\ UNCHANGED <<ram, mixed>>
    BY <1>4 DEF SetupSaved
  <2>2. ram' \in Settings /\ mixed' \in BOOLEAN /\ (mixed => mixed') /\ (unsaved => unsaved')
    BY <1>1, <2>1 DEF AppInv, AppTypes
  <2>3. \A i \in 1..3 : ~Owes(web[w], i)
    BY <1>1 DEF Owes, Trial, Request
  <2>4. r \in Request /\ r.pc = "tell" /\ ~r.err /\ ~r.inside BY TellRequest
  <2> HIDE DEF r
  <2> QED BY <1>1, <1>2, <2>1, <2>2, <2>3, <2>4, RequestEnds
<1> QED BY <1>3, <1>4

\* The answer is sent, or the old settings are back.
LEMMA TellKeeps ==
    ASSUME AppInv, NEW w \in Workers, Tell(w) \/ SetupBack(w)
    PROVE  AppInv'
<1>1. /\ SetWeb(w, NoRequest) /\ UNCHANGED <<kv, unsaved>> /\ web[w] \in Request
  BY DEF Tell, SetupBack, AppInv, AppTypes
<1>2. kv' \in Settings /\ unsaved' \in BOOLEAN /\ (unsaved => unsaved')
  BY <1>1 DEF AppInv, AppTypes
<1>3. CASE Tell(w)
  <2>1. web[w].pc = "tell" /\ UNCHANGED <<ram, mixed>>
    BY <1>3 DEF Tell
  <2>2. ram' \in Settings /\ mixed' \in BOOLEAN /\ (mixed => mixed')
    BY <2>1 DEF AppInv, AppTypes
  <2>3. \A i \in 1..3 : ~Owes(web[w], i)
    BY <2>1 DEF Owes, Trial
  <2> QED BY <1>1, <1>2, <2>1, <2>2, <2>3, AppConstants, RequestEnds
<1>4. CASE SetupBack(w)
  <2>1. web[w].pc = "back" /\ ram' = web[w].backup /\ mixed' = (mixed \/ Overlaps(w))
    BY <1>4 DEF SetupBack, SetRam
  <2>2. ram' \in Settings BY <1>1, <2>1 DEF Request
  <2>3. mixed' \in BOOLEAN BY <2>1 DEF Overlaps, AppInv, AppTypes
  <2>4. mixed => mixed' BY <2>1, Zenon
  <2>5. "back" \in Backed /\ "back" \in Apart BY DEF Backed, Trial, Apart
  <2>6. (~mixed' /\ ~unsaved') => kv' = ram'
    BY <1>1, <1>2, <2>1, <2>4, <2>5 DEF AppInv, KvFollows
  <2>7. ~mixed' => \A v \in Workers \ {w} : web[v].pc \in {"idle", "post"}
    BY <2>1, <2>4, <2>5 DEF AppInv, SetupAlone
  <2>8. web[w].pc \notin {"idle", "post"} BY <2>1
  <2>9. mixed' = (mixed \/ Overlaps(w)) BY <2>1
  <2> QED BY <1>1, <1>2, <2>2, <2>3, <2>4, <2>6, <2>7, <2>8, <2>9, AppConstants, RequestEnds
<1> QED BY <1>3, <1>4

\* A reset has yet to erase the store.
LEMMA ResetKeeps ==
    ASSUME AppInv, NEW w \in Workers, Reset(w)
    PROVE  AppInv'
<1> DEFINE r == [NoRequest EXCEPT !.pc = "erase"]
<1>1. r \in Request /\ r.pc = "erase" /\ ~r.err /\ ~r.inside
  BY AppConstants DEF Request, Apart
<1>2. /\ web[w].pc = "idle" /\ ram' = Defaults /\ mixed' = (mixed \/ Overlaps(w))
      /\ SetWeb(w, r) /\ UNCHANGED <<kv, unsaved>>
  BY DEF Reset, Takes, SetRam
<1> HIDE DEF r
<1>3. /\ web' \in [Workers -> Request] /\ web'[w] = r
      /\ \A v \in Workers \ {w} : web'[v] = web[v]
  BY <1>1, <1>2, WebChanges
<1>4. mixed' \in BOOLEAN
  BY <1>2 DEF Overlaps, AppInv, AppTypes
<1>5. ~mixed' => \A v \in Workers \ {w} : web'[v].pc = "idle"
  BY <1>2, <1>3 DEF Overlaps
<1>6. \A i \in 1..3 : Owes(web'[w], i)
  BY <1>1, <1>3 DEF Owes
<1>7. Carries' /\ (~mixed' => Fresh')
  BY <1>1, <1>2, HandsFree
<1> QED BY <1>1, <1>2, <1>3, <1>4, <1>5, <1>6, <1>7, AppConstants
        DEF AppInv, AppTypes, SetupAlone, KvFollows, Backed, Trial, Apart

\* The store is erased, and then every key has its default, as in RAM.
LEMMA EraseKeeps ==
    ASSUME AppInv, NEW w \in Workers, Erase(w)
    PROVE  AppInv'
<1> DEFINE r == [web[w] EXCEPT !.pc = "tell"]
<1>1. web[w] \in Request /\ web[w].pc = "erase" /\ SetWeb(w, r) /\ UNCHANGED <<ram, mixed>>
  BY DEF Erase, Goto, AppInv, AppTypes
<1>2. r \in Request /\ r.pc = "tell" /\ r.err = web[w].err /\ r.backup = web[w].backup /\ ~r.inside
  <2>1. ~web[w].inside BY <1>1 DEF AppInv, Carries
  <2> QED BY <1>1, <2>1 DEF Request
<1> HIDE DEF r
<1>3. /\ web' \in [Workers -> Request] /\ web'[w] = r
      /\ \A v \in Workers \ {w} : web'[v] = web[v]
  BY <1>1, <1>2, WebChanges
<1>4. "erase" \in Apart
  BY DEF Apart
<1>5. ~mixed => \A v \in Workers \ {w} : web[v].pc \in {"idle", "post"}
  BY <1>1, <1>4 DEF AppInv, SetupAlone
<1>6. ~mixed => SetupAlone'
  BY <1>2, <1>3, <1>5 DEF SetupAlone, Apart
<1>7. Carries' /\ (~mixed' => Fresh')
  BY <1>1, <1>2, HandsFree
<1>8. CASE kv' = Defaults /\ UNCHANGED unsaved
  <2>1. (~mixed /\ ~unsaved) => kv' = ram
    BY <1>1, <1>8 DEF AppInv, KvFollows
  <2>2. (~mixed /\ ~unsaved) => KvFollows'
    BY <1>1, <1>2, <1>3, <1>5, <2>1 DEF KvFollows, Backed, Trial
  <2> QED BY <1>1, <1>2, <1>3, <1>6, <1>8, <1>7, <2>2, AppConstants DEF AppInv, AppTypes
<1>9. CASE unsaved' = TRUE /\ UNCHANGED kv
  BY <1>1, <1>2, <1>3, <1>6, <1>9, <1>7 DEF AppInv, AppTypes
<1> QED BY <1>8, <1>9 DEF Erase

\* A restart loads what is stored.
LEMMA CutKeeps == AppInv /\ Cut => AppInv'
<1> SUFFICES ASSUME AppInv, Cut PROVE AppInv'
  OBVIOUS
<1>1. /\ ram' = kv /\ kv' = kv /\ unsaved' = FALSE /\ mixed' = FALSE
      /\ web' \in [Workers -> Request] /\ \A w \in Workers : web'[w] = NoRequest
  BY AppConstants DEF Cut
<1> QED BY <1>1, AppConstants DEF AppInv, AppTypes, Carries, Fresh, SetupAlone, KvFollows, Apart, Backed, Trial

\* At the first boot nothing is stored and every setting has its default.
LEMMA AppStarts == AppInit => AppInv
<1> SUFFICES ASSUME AppInit PROVE AppInv
  OBVIOUS
<1>1. /\ ram = Defaults /\ kv = Defaults /\ unsaved = FALSE /\ mixed = FALSE
      /\ web \in [Workers -> Request] /\ \A w \in Workers : web[w] = NoRequest
  BY AppConstants DEF AppInit
<1> QED BY <1>1, AppConstants DEF AppInv, AppTypes, Carries, Fresh, SetupAlone, KvFollows, Apart, Backed, Trial

\* No step of the application breaks the invariant.
LEMMA AppStep == AppInv /\ [AppNext]_appVars => AppInv'
<1> SUFFICES ASSUME AppInv, [AppNext]_appVars PROVE AppInv'
  OBVIOUS
<1>1. CASE MainTask
  BY <1>1, AppFrame DEF MainTask, Build, PollAp, PollSta, StaStart, StaSend, Wait
<1>2. CASE Resolve \/ Lease \/ LinkLost
  BY <1>2, AppFrame DEF Resolve, Lease, LinkLost
<1>3. CASE Cut
  BY <1>3, CutKeeps
<1>4. CASE \E w \in Workers : PostRead(w) \/ SetupRead(w) \/ Reset(w) \/ Handle(w)
  <2>1. PICK w \in Workers : PostRead(w) \/ SetupRead(w) \/ Reset(w) \/ Handle(w)
    BY <1>4
  <2>2. CASE PostRead(w) BY <2>2, PostReadKeeps
  <2>3. CASE SetupRead(w) BY <2>3, SetupReadKeeps
  <2>4. CASE Reset(w) BY <2>4, ResetKeeps
  <2>5. CASE Handle(w)
    BY <2>5, PostApplyKeeps, PostEnds, SaveReadKeeps, SaveFieldKeeps, SetupBodyKeeps, SetupGoesOn,
       SetupJoinedKeeps, SetupSavedKeeps, TellKeeps, EraseKeeps, Zenon DEF Handle
  <2> QED BY <2>1, <2>2, <2>3, <2>4, <2>5
<1>5. CASE UNCHANGED appVars
  BY <1>5, AppFrame DEF appVars
<1> QED BY <1>1, <1>2, <1>3, <1>4, <1>5 DEF AppNext

\* What a restart loads is what the camera does now: between requests the stored
\* settings are those in RAM, for every number of workers and networks, whichever POSTs
\* took turns and whatever setups tried, unless a save failed, a request overlapped a
\* setup or a reset, or one changed or stored settings while another worker was inside
\* flash_kv_set() with a value copied before.
THEOREM SettingsStored == AppSpec => []RamStored
<1>1. AppInv => RamStored
  <2> SUFFICES ASSUME AppInv, Quiet, ~unsaved, ~mixed PROVE kv = ram
    BY DEF RamStored
  <2>1. \A i \in 1..3 : kv[Fields[i]] = ram[Fields[i]]
    BY DEF Quiet, AppInv, KvFollows, Owes, Trial
  <2> QED BY <2>1, FieldsAre DEF AppInv, AppTypes
<1> QED BY <1>1, AppStarts, AppStep, PTL DEF AppSpec
=============================================================================
