----------------------------- MODULE FdcPhases -----------------------------
(***************************************************************************)
(* What the floppy controller promises its host: a command is a command    *)
(* phase, an optional execution phase and an optional result phase, in     *)
(* this order, and a phase that has begun has at least one byte to pass    *)
(* and ends with its last byte.  A stopped motor may cut an execution      *)
(* short; it does not suppress the results.                                *)
(***************************************************************************)
EXTENDS Naturals

CONSTANTS
    MostParams,     \* most bytes that follow the first byte of a command
    ResultLengths,  \* lengths of a result phase
    TransferLengths \* lengths of an execution phase

VARIABLES phase, left   \* the phase and the bytes it has still to pass

phaseVars == <<phase, left>>

Idle == phase = "idle" /\ left = 0

Init == Idle

Enters(p, lengths) == phase' = p /\ left' \in lengths

Begin ==
    /\ Idle
    /\ \/ Enters("command", 1 .. MostParams)
       \/ Enters("result", ResultLengths)

Pass ==
    /\ left > 1
    /\ left' = left - 1
    /\ UNCHANGED phase

Finish ==
    /\ left = 1
    /\ \/ /\ phase = "command"
          /\ \/ Enters("idle", {0})
             \/ Enters("execution", TransferLengths)
             \/ Enters("result", ResultLengths)
       \/ phase = "execution" /\ Enters("result", ResultLengths)
       \/ phase = "result" /\ Enters("idle", {0})

CutShort == phase = "execution" /\ Enters("result", ResultLengths)

Reset == Enters("idle", {0})

Next == Begin \/ Pass \/ Finish \/ CutShort \/ Reset

Spec == Init /\ [][Next]_phaseVars
=============================================================================
