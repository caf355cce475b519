----------------------------- MODULE FrameFifo -----------------------------
(***************************************************************************)
(* What the camera stream promises its caller: finished frames wait in the *)
(* order they were taken, the caller takes the oldest one, and a frame the *)
(* caller holds stays the frame it was until it is given back.             *)
(***************************************************************************)
EXTENDS Naturals, Sequences, FiniteSets

CONSTANTS
    Frames,     \* the pictures the encoder can produce
    Capacity    \* frames that can wait or be held at the same time

VARIABLES
    waiting,    \* finished frames nobody has taken, oldest first
    taken       \* the frames the caller holds, by the ticket it got

fifoVars == <<waiting, taken>>

Init == waiting = <<>> /\ taken = <<>>

Total == Len(waiting) + Cardinality(DOMAIN taken)

Arrive(f) ==
    /\ Total < Capacity
    /\ waiting' = Append(waiting, f)
    /\ UNCHANGED taken

Take(t) ==
    /\ waiting # <<>> /\ t \notin DOMAIN taken
    /\ taken' = [u \in DOMAIN taken \cup {t} |->
                    IF u = t THEN Head(waiting) ELSE taken[u]]
    /\ waiting' = Tail(waiting)

GiveBack(t) ==
    /\ t \in DOMAIN taken
    /\ taken' = [u \in DOMAIN taken \ {t} |-> taken[u]]
    /\ UNCHANGED waiting

\* Stopping the stream, and starting it again, forgets every frame.
Forget == waiting' = <<>> /\ taken' = <<>>

Next ==
    \/ \E f \in Frames : Arrive(f)
    \/ \E t \in 0..Capacity : Take(t) \/ GiveBack(t)
    \/ Forget

Spec == Init /\ [][Next]_fifoVars
=============================================================================
