---------------------------- MODULE CodecWrites ----------------------------
(***************************************************************************)
(* What the mixer and card_init expect of the ways to a codec: a register  *)
(* that was asked for gets the byte it was asked to get, in the order      *)
(* asked, once, and no other register of any codec changes.  A write may   *)
(* still be on its way when the next one is asked for.  Only after a       *)
(* controller was busy for longer than the driver waits (late) may a write *)
(* be lost or reach the wrong register, still of a device it talks to.     *)
(***************************************************************************)
EXTENDS Sequences, SequencesExt

CONSTANT Writes     \* the writes: records with the fields chip, reg, data

VARIABLES
    queue,  \* the writes asked for that have not landed
    regs,   \* the codecs' registers, by <<chip, reg>>
    late    \* the driver gave up waiting for a controller

vars == <<queue, regs, late>>

Init == queue = <<>> /\ late = FALSE

Ask(w) ==
    /\ Len(queue) < 2
    /\ queue' = Append(queue, w)
    /\ UNCHANGED <<regs, late>>

Land ==
    /\ queue # <<>>
    /\ LET w == Head(queue)
       IN  regs' = [regs EXCEPT ![<<w.chip, w.reg>>] = w.data]
    /\ queue' = Tail(queue)
    /\ late' = late

TimeOut == late' = TRUE /\ UNCHANGED <<queue, regs>>

Lose ==
    /\ late
    /\ \E i \in DOMAIN queue : queue' = RemoveAt(queue, i)
    /\ UNCHANGED <<regs, late>>

Stray ==
    /\ late /\ queue # <<>>
    /\ \A r \in DOMAIN regs : r[1] # Head(queue).chip => regs'[r] = regs[r]
    /\ queue' = Tail(queue)
    /\ late' = late

Next == (\E w \in Writes : Ask(w)) \/ Land \/ TimeOut \/ Lose \/ Stray

Spec == Init /\ [][Next]_vars
=============================================================================
