----------------------------- MODULE AudioFifo -----------------------------
(***************************************************************************)
(* What the sound ring of the mainboard promises to a listener: between    *)
(* two resets it is a bounded first-in first-out queue.  A sample that was *)
(* accepted is heard once, after every sample accepted before it; a reset  *)
(* may lose whatever is waiting, and once it is over nothing from before   *)
(* it is left to be heard.                                                 *)
(*                                                                         *)
(* Samples are numbered from 1 in the order in which they are accepted     *)
(* since the last reset, and each waits in a place of its own, so that one *)
(* that waits twice is not the same as one that waits.  Silence is not a   *)
(* sample: a ring that plays silence for a while is a queue that takes a   *)
(* stuttering step.                                                        *)
(***************************************************************************)
EXTENDS Integers, FiniteSets

CONSTANTS
    Places,     \* where a sample may wait
    Capacity    \* how many samples may wait at once

VARIABLES
    waiting,    \* the samples accepted and not heard yet, each in its place
    accepted,   \* how many samples were accepted since the last reset
    heard,      \* the last sample heard since the last reset
    flushing    \* whether a reset is under way

fifoVars == <<waiting, accepted, heard, flushing>>

Entry(p, s) == [place |-> p, sample |-> s]

Init ==
    /\ waiting = {}
    /\ accepted = 0 /\ heard = 0
    /\ flushing = FALSE

Accept ==
    /\ ~flushing
    /\ Cardinality(waiting) < Capacity
    /\ \E p \in Places :
          /\ \A e \in waiting : e.place # p
          /\ waiting' = waiting \cup {Entry(p, accepted + 1)}
    /\ accepted' = accepted + 1
    /\ UNCHANGED <<heard, flushing>>

\* The oldest is heard first.
Hear ==
    /\ \E e \in waiting :
          /\ \A f \in waiting \ {e} : e.sample < f.sample
          /\ waiting' = waiting \ {e}
          /\ heard' = e.sample
    /\ UNCHANGED <<accepted, flushing>>

StartFlush ==
    /\ ~flushing
    /\ flushing' = TRUE
    /\ UNCHANGED <<waiting, accepted, heard>>

Lose ==
    /\ flushing
    /\ \E e \in waiting : waiting' = waiting \ {e}
    /\ UNCHANGED <<accepted, heard, flushing>>

EndFlush ==
    /\ flushing
    /\ waiting = {}
    /\ flushing' = FALSE
    /\ accepted' = 0 /\ heard' = 0
    /\ UNCHANGED waiting

Next == Accept \/ Hear \/ StartFlush \/ Lose \/ EndFlush

Spec == Init /\ [][Next]_fifoVars
=============================================================================
