------------------------------ MODULE FlashKv ------------------------------
(***************************************************************************)
(* The flash key-value store: one erase sector that holds a header and a   *)
(* log of records (key, length, value, crc).  A key's newest record wins,  *)
(* a record without a value removes its key, and a full or damaged log is  *)
(* compacted into a RAM image that replaces the sector.                    *)
(*                                                                         *)
(* The sector is kept as what a reader can tell apart: the header, the     *)
(* longest prefix of records with a correct crc (log), and what lies       *)
(* behind it (tail).  Power may be cut inside every flash operation named  *)
(* in CutPoints; the store has one caller, as flash_kv.c has no lock.      *)
(***************************************************************************)
EXTENDS Integers, Sequences, SequencesExt

CONSTANTS
    Keys,           \* the keys callers use (FLASH_KV_KEY_NONE is not one)
    Values,         \* the values callers store
    None,           \* "no value": a removed key, or a record with len 0
    ValueLen,       \* the length in bytes of every value
    SectorSize,     \* bytes in the sector
    CutPoints,      \* where power may fail: subset of {"append","erase","rewrite"}
    MallocMayFail   \* whether malloc() may return NULL

ASSUME KvAssumption ==
    /\ Keys # {} /\ IsFiniteSet(Keys)
    /\ None \notin Values
    /\ ValueLen \in [Values -> Nat \ {0}]
    /\ SectorSize \in Nat /\ SectorSize >= 8
    /\ CutPoints \subseteq {"append", "erase", "rewrite"}
    /\ MallocMayFail \in BOOLEAN

VARIABLES
    header,     \* "blank" (all 0xFF), "ours", "foreign"
    log,        \* the records walk() visits, oldest first
    tail,       \* behind the log: "blank", "broken" (a bad record), "hidden" (junk behind a blank head)
    protected,  \* the flash ignores erases and writes (status register)
    pc,         \* where the running operation is
    job,        \* the running or last operation: [op, key, val]
    image,      \* rebuild(): the records of the RAM copy
    pos,        \* rebuild(): records of the log collected so far
    overflow,   \* rebuild(): img.overflow
    ret,        \* how the last operation ended
    before      \* history: the store's contents when the last operation began

flash == <<header, log, tail, protected>>
heap  == <<image, pos, overflow>>
vars  == <<header, log, tail, protected, pc, job, image, pos, overflow, ret, before>>

Record == [key : Keys, val : Values \cup {None}]
Job    == [op : {"put", "wipe"}, key : Keys, val : Values \cup {None}]

HeaderSize == 8

-----------------------------------------------------------------------------
(* Reading the sector.                                                     *)

\* Bytes of a record: key and len, the value padded to 4, the crc.
RecordSize(v) == IF v = None THEN 8 ELSE 8 + ((ValueLen[v] + 3) \div 4) * 4

\* Offset of the first byte behind records of these sizes.
Behind(sizes) ==
    LET upto[n \in 0..Len(sizes)] == IF n = 0 THEN HeaderSize ELSE upto[n - 1] + sizes[n]
    IN  upto[Len(sizes)]

\* Offset of the first byte behind a run of records.
End(s) == Behind([i \in 1..Len(s) |-> RecordSize(s[i].val)])

Positions(s, k) == {i \in 1..Len(s) : s[i].key = k}

IsLastPos(s, k, i) == i \in Positions(s, k) /\ \A j \in Positions(s, k) : j <= i

LastPos(s, k) == CHOOSE i \in 1..Len(s) : IsLastPos(s, k, i)

\* lookup_visit(): later records overwrite the answer of earlier ones.
Newest(s, k) ==
    IF \E i \in 1..Len(s) : IsLastPos(s, k, i) THEN s[LastPos(s, k)].val ELSE None

\* walk() reads the log only behind a header of ours.
Walked == IF header = "ours" THEN log ELSE <<>>

\* flash_kv_get(); None is -ENOENT.
Get(k) == Newest(Walked, k)

Contents == [k \in Keys |-> Get(k)]

\* walk() fails on a broken record, tail_is_blank() on junk behind a clean end.
Scan ==
    CASE header = "blank"   -> "BLANK"
      [] header = "foreign" -> "FOREIGN"
      [] OTHER              -> IF tail # "blank" THEN "TORN" ELSE "VALID"

\* Offset of the n-th record, as walk() counts it.
Offset(s, n) == End(SubSeq(s, 1, n - 1))

\* latest_visit() that leaves an entry as it is once the key has one.
LatestVisitKeeps(table, k, off) == IF table[k] = 0 THEN [table EXCEPT ![k] = off] ELSE table

\* latest_visit(): the key's entry takes this offset, a new entry or not.  No
\* record is at offset 0, which stands for a key without an entry.
LatestVisit(table, k, off) == [table EXCEPT ![k] = off]

\* The first pass of flash_kv_foreach(): the table of newest records.
Latest(s) ==
    LET table[n \in 0..Len(s)] ==
            IF n = 0 THEN [k \in Keys |-> 0]
            ELSE LatestVisit(table[n - 1], s[n].key, Offset(s, n))
    IN  table[Len(s)]

\* The second pass: report_visit() calls the record at its key's entry live
\* unless it has no value.
LiveRecords(s) ==
    {i \in 1..Len(s) : s[i].val # None /\ Latest(s)[s[i].key] = Offset(s, i)}

-----------------------------------------------------------------------------
(* The RAM image of rebuild().                                             *)

\* image_put()'s loop: drop the record of k (the image never has two).
DropKey(s, k) ==
    IF Positions(s, k) = {} THEN s
    ELSE LET p == LastPos(s, k)
         IN  SubSeq(s, 1, p - 1) \o SubSeq(s, p + 1, Len(s))

\* Whether image_put() finds room for the value after the drop.
Fits(s, v) == v = None \/ End(s) + RecordSize(v) <= SectorSize

PutRecord(s, k, v) ==
    IF v # None /\ Fits(s, v) THEN Append(s, [key |-> k, val |-> v]) ELSE s

\* image_put() that leaves the old record of the key where it is.
ImagePutKeepsOld(s, k, v) == [img |-> PutRecord(s, k, v), ok |-> Fits(s, v)]

\* image_put() that treats a record without a value as nothing to do.
ImagePutSkipsRemoved(s, k, v) ==
    IF v = None THEN [img |-> s, ok |-> TRUE]
    ELSE [img |-> PutRecord(DropKey(s, k), k, v), ok |-> Fits(DropKey(s, k), v)]

ImagePut(s, k, v) ==
    [img |-> PutRecord(DropKey(s, k), k, v), ok |-> Fits(DropKey(s, k), v)]

-----------------------------------------------------------------------------
(* Operations.                                                             *)

Return(code) ==
    /\ pc' = "idle"
    /\ ret' = code

Begin(op, k, v) ==
    /\ pc = "idle"
    /\ job' = [op |-> op, key |-> k, val |-> v]
    /\ before' = Contents

\* append(): the record goes behind the log if the log is sound and it fits.
AppendsInPlace(v) == Scan = "VALID" /\ End(log) + RecordSize(v) <= SectorSize

\* The decision of append(), with the allocation either path starts with.
StartAppend(v) ==
    \/ /\ AppendsInPlace(v)
       /\ pc' = "append" /\ ret' = "none"
       /\ UNCHANGED heap
    \/ /\ ~AppendsInPlace(v)
       /\ pc' = "collect" /\ ret' = "none"
       /\ image' = <<>> /\ pos' = 0 /\ overflow' = FALSE

OutOfMemory ==
    /\ MallocMayFail
    /\ Return("ENOMEM")
    /\ UNCHANGED heap

\* flash_kv_set() with at least one byte.
Set(k, v) ==
    /\ Begin("put", k, v)
    /\ \/ OutOfMemory
       \/ Get(k) = v /\ Return("ok") /\ UNCHANGED heap
       \/ Get(k) # v /\ StartAppend(v)
    /\ UNCHANGED flash

\* flash_kv_erase_key(), and flash_kv_set() with no bytes.
EraseKey(k) ==
    /\ Begin("put", k, None)
    /\ \/ Get(k) = None /\ Return("ok") /\ UNCHANGED heap
       \/ Get(k) # None /\ (OutOfMemory \/ StartAppend(None))
    /\ UNCHANGED flash

\* encode() that leaves the key field as the buffer was.
AppendRecordNoKey ==
    /\ pc = "append"
    /\ log' = Append(log, [key |-> None, val |-> job.val])
    /\ Return("ok")
    /\ UNCHANGED <<header, tail, protected, job, heap, before>>

\* write_verified() of one record.  A protected flash ignores it, and bytes
\* programmed over junk do not read back.
AppendRecord ==
    /\ pc = "append"
    /\ IF protected
       THEN Return("EIO") /\ UNCHANGED <<log, tail>>
       ELSE IF tail = "blank"
       THEN /\ log' = Append(log, [key |-> job.key, val |-> job.val])
            /\ Return("ok")
            /\ UNCHANGED tail
       ELSE tail' = "broken" /\ Return("EIO") /\ UNCHANGED log
    /\ UNCHANGED <<header, protected, job, heap, before>>

\* One record of walk(collect_visit).
CollectStep ==
    /\ pc = "collect"
    /\ pos < Len(Walked)
    /\ LET r   == Walked[pos + 1]
           put == ImagePut(image, r.key, r.val)
       IN  /\ image' = put.img
           /\ overflow' = (overflow \/ ~put.ok)
    /\ pos' = pos + 1
    /\ UNCHANGED <<flash, pc, job, ret, before>>

\* The rest of rebuild() up to the erase: the new value joins the image.
CollectDone ==
    /\ pc = "collect"
    /\ pos = Len(Walked)
    /\ LET put == ImagePut(image, job.key, job.val)
       IN  /\ image' = put.img
           /\ IF overflow \/ ~put.ok
              THEN Return("ENOSPC")
              ELSE pc' = "erase" /\ UNCHANGED ret
    /\ UNCHANGED <<flash, job, pos, overflow, before>>

\* flash_erase_sector(): a protected flash ignores it.
EraseSector ==
    /\ pc = "erase"
    /\ pc' = "rewrite"
    /\ IF protected
       THEN UNCHANGED <<header, log, tail>>
       ELSE header' = "blank" /\ log' = <<>> /\ tail' = "blank"
    /\ UNCHANGED <<protected, job, heap, ret, before>>

\* rebuild() that writes the whole buffer, and not the used part of it.
RewriteWholeBuffer ==
    /\ pc = "rewrite"
    /\ header' = "ours" /\ log' = image /\ tail' = "hidden"
    /\ Return("ok")
    /\ UNCHANGED <<protected, job, heap, before>>

\* write_verified() of the image: the sector must begin with it afterwards.
Rewrite ==
    /\ pc = "rewrite"
    /\ IF protected
       THEN /\ Return(IF header = "ours" /\ IsPrefix(image, log) THEN "ok" ELSE "EIO")
            /\ UNCHANGED <<header, log, tail>>
       ELSE /\ header' = "ours" /\ log' = image /\ tail' = "blank"
            /\ Return("ok")
    /\ UNCHANGED <<protected, job, heap, before>>

\* flash_kv_erase(): the status register may be locked, and then the flash
\* stays protected.
StartErase(k) ==
    /\ Begin("wipe", k, None)
    /\ pc' = "wipe" /\ ret' = "none"
    /\ protected' \in {protected, FALSE}
    /\ UNCHANGED <<header, log, tail, heap>>

\* The erase, and the check that the whole sector is blank: behind a blank
\* header there may be junk.
FinishErase ==
    /\ pc = "wipe"
    /\ IF protected
       THEN /\ \/ header = "blank" /\ Return("ok")
               \/ Return("EIO")
            /\ UNCHANGED <<header, log, tail>>
       ELSE /\ header' = "blank" /\ log' = <<>> /\ tail' = "blank"
            /\ Return("ok")
    /\ UNCHANGED <<protected, job, heap, before>>

\* flash_unprotect(), which config_save() calls before it stores anything.
Unprotect ==
    /\ pc = "idle"
    /\ protected /\ protected' = FALSE
    /\ ret' = "none"
    /\ UNCHANGED <<header, log, tail, pc, job, heap, before>>

\* The board restarts under a boot loader that sets the protection bits
\* (docs/hardware/flash_spi_mode.md: "SR = 0x7C is observed after a normal boot").
Reprotect ==
    /\ pc = "idle"
    /\ ~protected /\ protected' = TRUE
    /\ ret' = "none"
    /\ UNCHANGED <<header, log, tail, pc, job, heap, before>>

-----------------------------------------------------------------------------
(* Power loss inside a flash operation, and the reboot after it.           *)

Reboot(code) ==
    /\ Return(code)
    /\ image' = <<>> /\ pos' = 0 /\ overflow' = FALSE
    /\ UNCHANGED <<protected, job, before>>

\* A cut append leaves nothing, junk, or the whole record.
CutAppend ==
    /\ "append" \in CutPoints
    /\ pc = "append" /\ ~protected
    /\ \/ UNCHANGED <<log, tail>>
       \/ tail' \in {"hidden", "broken"} /\ UNCHANGED log
       \/ log' = Append(log, [key |-> job.key, val |-> job.val]) /\ UNCHANGED tail
    /\ UNCHANGED header
    /\ Reboot("cut_append")

\* The readable records left in a sector that lost the ones behind n.  Behind
\* a header that is not ours nothing is ever read, so nothing is kept.
Damaged(s, n) ==
    \/ /\ header' \in {"blank", "foreign"}
       /\ log' = <<>> /\ tail' = "blank"
    \/ /\ header' = "ours"
       /\ log' = SubSeq(s, 1, n)
       /\ tail' \in {"blank", "hidden", "broken"}

\* A cut sector erase (rebuild() or flash_kv_erase()) leaves any part of the log.
CutErase ==
    /\ "erase" \in CutPoints
    /\ pc \in {"erase", "wipe"} /\ ~protected
    /\ \/ UNCHANGED <<header, log, tail>>
       \/ header = "ours" /\ \E n \in 0..Len(log) : Damaged(log, n)
    /\ Reboot("cut_erase")

\* A cut rewrite leaves the records of the image that were already written.
CutRewrite ==
    /\ "rewrite" \in CutPoints
    /\ pc = "rewrite" /\ ~protected
    /\ \E n \in 0..Len(image) : Damaged(image, n)
    /\ Reboot("cut_rewrite")

-----------------------------------------------------------------------------
Init ==
    /\ header \in {"blank", "foreign"}
    /\ log = <<>> /\ tail = "blank"
    /\ protected \in BOOLEAN
    /\ pc = "idle" /\ ret = "none"
    /\ job \in [op : {"wipe"}, key : Keys, val : {None}]
    /\ image = <<>> /\ pos = 0 /\ overflow = FALSE
    /\ before = [k \in Keys |-> None]

\* The caller's next step inside an operation.
Step ==
    \/ AppendRecord \/ CollectStep \/ CollectDone
    \/ EraseSector \/ Rewrite \/ FinishErase

Next ==
    \/ \E k \in Keys, v \in Values : Set(k, v)
    \/ \E k \in Keys : EraseKey(k)
    \/ \E k \in Keys : StartErase(k)
    \/ Unprotect \/ Reprotect
    \/ Step
    \/ CutAppend \/ CutErase \/ CutRewrite

Spec == Init /\ [][Next]_vars

-----------------------------------------------------------------------------
(* Correctness.                                                            *)

\* What the store holds if the last operation took effect.
After ==
    IF job.op = "wipe" THEN [k \in Keys |-> None]
    ELSE [before EXCEPT ![job.key] = job.val]

Errors == {"ENOMEM", "ENOSPC", "EIO"}

\* The variables have their types.
TypeOK ==
    /\ header \in {"blank", "ours", "foreign"}
    /\ log \in Seq(Record) /\ image \in Seq(Record)
    /\ tail \in {"blank", "broken", "hidden"}
    /\ protected \in BOOLEAN /\ overflow \in BOOLEAN
    /\ pc \in {"idle", "append", "collect", "erase", "rewrite", "wipe"}
    /\ job \in Job
    /\ pos \in Nat
    /\ ret \in {"none", "ok", "cut_append", "cut_erase", "cut_rewrite"} \cup Errors
    /\ before \in [Keys -> Values \cup {None}]

\* flash_kv_set() and flash_kv_erase_key() do all or nothing: an operation that
\* returned 0 changed exactly its own key, through an append or through a
\* compaction of the whole sector, and one that returned an error changed no
\* key at all, whichever step of it failed.  On a protected flash a rebuild may
\* also return 0 and change nothing (see the README).
AllOrNothing ==
    pc = "idle" =>
        /\ ret = "ok" => Contents = After \/ (protected /\ Contents = before)
        /\ ret \in Errors => Contents = before

\* Power lost while a record is appended: after the reboot the store holds
\* either the old contents or the new, and every other key is untouched.
\* Power lost while the image is written back: a key may be gone, but none
\* comes back with a value that had been replaced or removed.
CutOutcome ==
    pc = "idle" =>
        /\ ret = "cut_append" => Contents \in {before, After}
        /\ ret = "cut_rewrite" => \A k \in Keys : Contents[k] \in {After[k], None}

\* Bytes a key needs for its value.
LiveSize(v) == IF v = None THEN 0 ELSE RecordSize(v)

\* -ENOSPC means "the sector cannot hold all keys": the values that would be
\* live, without the replaced and removed records the log still carried, do
\* not fit.  In particular collecting them never overflows by itself.
NoSpaceMeansFull ==
    pc = "idle" /\ ret = "ENOSPC" =>
        LET key == SetToSeq(Keys)
        IN  /\ ~overflow
            /\ Behind([i \in 1..Len(key) |-> LiveSize(After[key[i]])]) > SectorSize

\* A torn log is repaired by the next write: whenever an operation changed a
\* key and returned 0, scan() finds a sound log.
WriteRepairs ==
    pc = "idle" /\ ret = "ok" /\ job.op = "put" /\ before # Contents => Scan = "VALID"

\* flash_kv_foreach() and flash_kv_get() agree on what the store holds: the
\* records whose offset the table of the first pass ends up with are exactly the
\* ones a lookup would read, in every log that writes, compactions and cuts leave.
ForeachAgreesWithGet ==
    \A k \in Keys :
        {Walked[i].val : i \in {j \in LiveRecords(Walked) : Walked[j].key = k}}
            = {Get(k)} \ {None}

\* A run of records with at most one record of each key.
Unique(s) == \A i, j \in 1..Len(s) : s[i].key = s[j].key => i = j

\* The inductive invariant behind AllOrNothing: until the sector is erased the
\* flash still reads as it did before the operation, and the image grows into
\* exactly what the operation is to leave behind.
KvInv ==
    /\ TypeOK
    /\ AllOrNothing
    /\ pc \in {"append", "collect", "erase", "wipe"} => Contents = before
    /\ pc = "rewrite" => IF protected THEN Contents = before ELSE header = "blank"
    /\ pc \in {"append", "collect", "erase", "rewrite"} => job.op = "put"
    /\ pc = "wipe" => job.op = "wipe"
    /\ pc = "append" => header = "ours"
    /\ pc = "collect" =>
          /\ pos <= Len(Walked)
          /\ Unique(image)
          /\ ~overflow => \A k \in Keys : Newest(image, k) = Newest(SubSeq(Walked, 1, pos), k)
    /\ pc \in {"erase", "rewrite"} => \A k \in Keys : Newest(image, k) = After[k]

(***************************************************************************)
(* The store implements KvStore.  Between the erase and the end of the     *)
(* rewrite the sector is empty and the contents live in the image.         *)
(***************************************************************************)
StoreMap ==
    IF pc = "rewrite" /\ ~protected THEN [k \in Keys |-> Newest(image, k)] ELSE Contents

Abstract == INSTANCE KvStore WITH map <- StoreMap

\* Every step of the log-structured store is one whole operation on a map or
\* changes nothing, power cuts inside an append included.  Only a cut between the
\* start of an erase and the end of the rewrite may do otherwise (see CutOutcome).
ImplementsKvStore ==
    Abstract!Init /\ [][Abstract!Next \/ CutErase \/ CutRewrite]_StoreMap
=============================================================================
