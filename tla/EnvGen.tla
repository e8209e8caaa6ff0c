------------------------------- MODULE EnvGen -------------------------------
(***************************************************************************)
(* The envelope generator of the sound chip (psg/psg-core.cc): a level, a  *)
(* phase and a table of 16 shapes by 2 phases, stepped by clock() and      *)
(* rewritten by a program between two clocks.                              *)
(*                                                                         *)
(* steps is history: the steps of the envelope since the shape was         *)
(* written, counted up to Horizon.                                         *)
(***************************************************************************)
EXTENDS Envelope

CONSTANTS
    EnvPeriods, \* periods of the envelope
    Horizon     \* bound: the steps after which no more are taken

ASSUME EnvGenAssumption ==
    EnvPeriods \subseteq Nat /\ 0 \in EnvPeriods /\ Horizon \in Nat

VARIABLES
    period, counter, shape, phase, amplitude,   \* _envelope
    steps   \* history: steps since the shape was written; -1 after a reset

envVars == <<period, counter, shape, phase, amplitude, steps>>

\* The shape 0.
NoBits == [continue |-> FALSE, attack |-> FALSE, alternate |-> FALSE,
           hold |-> FALSE]

EnvInit ==
    /\ period = 0 /\ counter = 0
    /\ shape = NoBits /\ phase = 0 /\ amplitude = 0
    /\ steps = -1

\* cycles[shape][phase]
Cycle(bits, second) ==
    CASE ~second -> IF bits.attack THEN "up" ELSE "down"
      [] second /\ ~bits.continue -> "low"
      [] second /\ bits.continue /\ bits.hold ->
            IF bits.attack # bits.alternate THEN "high" ELSE "low"
      [] OTHER -> IF bits.attack # bits.alternate THEN "up" ELSE "down"

Mutant_RampUnwrapped ==
    /\ counter' = 0
    /\ amplitude' = CASE Cycle(shape, phase = 1) = "up" -> amplitude + 1
                      [] Cycle(shape, phase = 1) = "down" -> amplitude - 1
                      [] Cycle(shape, phase = 1) = "high" -> Top
                      [] Cycle(shape, phase = 1) = "low" -> 0
    /\ phase' = IF amplitude' \in {0, Top} THEN 1 - phase ELSE phase

\* The phase turns when a ramp arrives, which a held level never does.
EnvStep ==
    LET cycle == Cycle(shape, phase = 1)
    IN /\ counter' = 0
       /\ amplitude' = CASE cycle = "up" -> (amplitude + 1) % (Top + 1)
                         [] cycle = "down" -> (amplitude + Top) % (Top + 1)
                         [] cycle = "high" -> Top
                         [] cycle = "low" -> 0
       /\ phase' = IF \/ cycle = "up" /\ amplitude' = Top
                      \/ cycle = "down" /\ amplitude' = 0
                   THEN 1 - phase ELSE phase

\* EnvelopeTraits::clock()
EnvClock ==
    /\ IF counter + 1 >= period
       THEN /\ steps < Horizon
            /\ EnvStep
            /\ steps' = IF steps = -1 THEN -1 ELSE steps + 1
       ELSE counter' = counter + 1 /\ UNCHANGED <<phase, amplitude, steps>>
    /\ UNCHANGED <<period, shape>>

\* set_fine_tune(), set_coarse_tune(): a period is written as two bytes, and
\* any may be there for a moment.
SetEnvPeriod(p) ==
    /\ period' = p
    /\ UNCHANGED <<counter, shape, phase, amplitude, steps>>

Mutant_ShapeKeepsPhase(bits) ==
    /\ shape' = bits
    /\ amplitude' = IF bits.attack THEN 0 ELSE Top
    /\ steps' = 0
    /\ UNCHANGED <<period, counter, phase>>

SetShape(bits) ==
    /\ shape' = bits /\ phase' = 0
    /\ amplitude' = IF bits.attack THEN 0 ELSE Top
    /\ steps' = 0
    /\ UNCHANGED <<period, counter>>

EnvReset ==
    /\ period' = 0 /\ counter' = 0
    /\ shape' = NoBits /\ phase' = 0 /\ amplitude' = 0
    /\ steps' = -1

EnvNext ==
    \/ EnvClock
    \/ \E p \in EnvPeriods : SetEnvPeriod(p)
    \/ \E bits \in Shapes : SetShape(bits)
    \/ EnvReset

EnvSpec == EnvInit /\ [][EnvNext]_envVars

EnvTypeOK ==
    /\ period \in EnvPeriods /\ counter \in Nat
    /\ shape \in Shapes /\ phase \in {0, 1} /\ amplitude \in 0 .. Top
    /\ steps \in -1 .. Horizon

\* The level is the one the shape promises for the steps taken since it was
\* written, whatever the periods were meanwhile and wherever the envelope
\* before it stood.
EnvelopeAsPromised == steps >= 0 => amplitude = EnvelopeAt(shape, steps)
=============================================================================
