------------------------------ MODULE KvStore ------------------------------
(***************************************************************************)
(* What the flash key-value store promises its callers, with the sector,   *)
(* the log and the compaction left out: one map from keys to values that   *)
(* changes by whole operations only.                                       *)
(***************************************************************************)
CONSTANTS Keys, Values, None

VARIABLE map       \* what flash_kv_get() answers for every key

\* A key is set to a value: flash_kv_set() returned 0.
Put(k, v) == map' = [map EXCEPT ![k] = v]

\* A key is removed: flash_kv_erase_key(), or flash_kv_set() with no bytes.
Remove(k) == map' = [map EXCEPT ![k] = None]

\* The whole store is wiped: flash_kv_erase().
Clear == map' = [k \in Keys |-> None]

TypeOK == map \in [Keys -> Values \cup {None}]

Init == TypeOK

Next ==
    \/ \E k \in Keys, v \in Values : Put(k, v)
    \/ \E k \in Keys : Remove(k)
    \/ Clear

Spec == Init /\ [][Next]_map
=============================================================================
