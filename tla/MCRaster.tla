------------------------------ MODULE MCRaster ------------------------------
(***************************************************************************)
(* A machine whose lines have 2 characters, whose rows have 2 lines and    *)
(* whose frame has 5 rows: two periods of the interrupt counter.           *)
(***************************************************************************)
EXTENDS Raster

\* The names of Vdc, spelt out: what is given to a constant of Vdc
\* cannot be defined through an instance of it.
MCNames == {"R0", "R2", "R3", "R4", "R5", "R7", "R9"}

MCMask == [r \in MCNames |-> 8]

MCDefaults ==
    [R0 |-> 1, R2 |-> 1, R3 |-> 1, R4 |-> 4, R5 |-> 0, R7 |-> 1, R9 |-> 1]

\* Frames of 10 lines or of 4, which restart the count before Period.
MCValues == [r \in MCNames |-> IF r = "R4" THEN {1, 4} ELSE {0, 1}]
=============================================================================
