------------------------------ MODULE Envelope ------------------------------
(***************************************************************************)
(* The waveform that the shape register of the sound generator selects, as *)
(* the four bits of the shape describe it: the level after a number of     *)
(* steps.  EnvelopeAt is the promise; psg/psg-core.cc keeps a level and a  *)
(* phase instead, and a table of 16 shapes by 2 phases (module EnvGen). *)
(***************************************************************************)
EXTENDS Integers

CONSTANT Top    \* the highest level: 31

ASSUME TopAssumption == Top \in Nat \ {0}

Shapes == [continue : BOOLEAN, attack : BOOLEAN, alternate : BOOLEAN,
           hold : BOOLEAN]

Slope(attack, n) == IF attack THEN n ELSE Top - n

\* A sawtooth starts again at its first level; a triangle turns at its
\* extremes without repeating them.
EnvelopeAt(shape, n) ==
    IF n <= Top THEN Slope(shape.attack, n)
    ELSE IF ~shape.continue THEN 0
    ELSE IF shape.hold
         THEN IF shape.attack # shape.alternate THEN Top ELSE 0
    ELSE IF shape.alternate
         THEN LET m == n % (2 * Top)
              IN Slope(shape.attack, IF m <= Top THEN m ELSE 2 * Top - m)
    ELSE Slope(shape.attack, n % (Top + 1))
=============================================================================
