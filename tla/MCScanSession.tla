--------------------------- MODULE MCScanSession ---------------------------
(* The main task scans, below the kmsg task and the timer. *)
EXTENDS ScanSession
CONSTANT main
MCRank == [a \in {main} \cup Finishers |-> CASE a = "timer" -> 4 [] a = "kmsg" -> 3 [] a = main -> 2]
=============================================================================
