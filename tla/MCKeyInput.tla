----------------------------- MODULE MCKeyInput -----------------------------
(***************************************************************************)
(* A host keyboard with a shift key, a direction, Home, and a key that     *)
(* bears = and +, two keys of the machine, each with shift; with AltGr it  *)
(* bears - for =, the key of the machine that = is the shift of, so that   *)
(* AltGr does to it what Caps Lock does to a letter.  Home decodes to no   *)
(* key.                                                                    *)
(***************************************************************************)
EXTENDS KeyInput

At(position, isShifted) == [at |-> position, shift |-> isShifted]

MCLegend ==
    [k \in Keys |-> [m \in Modifiers |-> [s \in BOOLEAN |->
       CASE k = "shift" -> At("SHIFT", FALSE)
         [] k = "equal" -> IF s THEN At(";", TRUE) ELSE At("-", m # "altgr")
         [] k = "up" -> At("UP", FALSE)
         [] OTHER -> At(Nowhere, FALSE)]]]

MCJoyAt == [d \in Directions |-> "JOY0"]

\* A bound on the user: Home is held with one other key at most.
HomeBound == Down(Toggle) => Cardinality({k \in Keys : Down(k)}) <= 2

MCSpec == Init /\ [][Next /\ HomeBound']_vars /\ WF_vars(Timeout)
=============================================================================
