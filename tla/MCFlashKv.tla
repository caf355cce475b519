----------------------------- MODULE MCFlashKv -----------------------------
(* Two keys, a short value (12-byte record) and a longer one (28 bytes).  A  *)
(* sector of 60 bytes takes up to four short records or a long one and two   *)
(* short ones, and cannot hold both keys at their longest.                   *)
EXTENDS FlashKv

CONSTANTS short, long

MCValues   == {short, long}
MCValueLen == [v \in MCValues |-> IF v = short THEN 1 ELSE 17]
=============================================================================
