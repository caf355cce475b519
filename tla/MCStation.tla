----------------------------- MODULE MCStation -----------------------------
(* The tasks of the camera application that use the station. *)
EXTENDS Station

CONSTANTS main, shell, worker

\* configMAX_PRIORITIES - 1 for the timer down to - 4 for the supplicant.
MCRank == [a \in Actors |->
    CASE a = "timer" -> 4 [] a \in {"kmsg", shell} -> 3 [] a \in {main, worker} -> 2 [] a = "wpa2" -> 1]

=============================================================================
