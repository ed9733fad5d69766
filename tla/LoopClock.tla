----------------------------- MODULE LoopClock -----------------------------
(***************************************************************************)
(* What the audio engine owes IOAudioFamily: a count of the loops of its   *)
(* ring.  The framework computes the play position, the erase head and the *)
(* clients' wake-up times from it, so that every loop that was played is   *)
(* counted, once, and no other.                                            *)
(***************************************************************************)
EXTENDS Integers

CONSTANT LoopMod

VARIABLES
    running,  \* the ring is being played
    due,      \* it has looped and the loop is not counted
    loop      \* the loop count, modulo LoopMod

vars == <<running, due, loop>>

Init == running = FALSE /\ due = FALSE /\ loop = 0

\* A run begins at the beginning of the ring with nothing to count.
Run ==
    /\ ~running
    /\ running' = TRUE /\ due' = FALSE
    /\ loop' = loop

\* A run ends; its last loop may still be counted.
Halt ==
    /\ running
    /\ running' = FALSE
    /\ UNCHANGED <<due, loop>>

Wrap ==
    /\ running /\ ~due
    /\ due' = TRUE
    /\ UNCHANGED <<running, loop>>

Count ==
    /\ due
    /\ due' = FALSE
    /\ loop' = (loop + 1) % LoopMod
    /\ running' = running

\* A new engine takes the place of the old one.
Renew ==
    /\ ~running
    /\ due' = FALSE /\ loop' = 0
    /\ running' = running

Next == Run \/ Halt \/ Wrap \/ Count \/ Renew

\* No other loop is counted.
Spec == Init /\ [][Next]_vars

\* A loop of a ring that plays on is counted.
Liveness == WF_vars(running /\ Count)
=============================================================================
