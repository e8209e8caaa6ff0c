------------------------------- MODULE MCVdc -------------------------------
(***************************************************************************)
(* Vdc with counters of 2 bits and sync counters of 1 bit; every register  *)
(* but R2 is under the program's control.                                  *)
(***************************************************************************)
EXTENDS Vdc

\* R0 and R2 are whole bytes, the others narrower, as in reset_mask().
MCMask == [r \in Names |-> IF r \in {"R0", "R2"} THEN 4 ELSE 2]

\* Lines of 3 characters, 2 rows of 2 scanlines.
MCDefaults ==
    [R0 |-> 2, R2 |-> 1, R3 |-> 0, R4 |-> 1, R5 |-> 0, R7 |-> 1, R9 |-> 1]

\* The totals may fall below the counters and the sync positions outside the
\* frame; a value of R0 that fills the byte is a total of 0.
MCValues == [r \in Names |->
    CASE r = "R0" -> {2, 3}
      [] r = "R2" -> {1, 3}
      [] r = "R3" -> {1}
      [] r = "R4" -> {1, 2}
      [] OTHER    -> {0, 1}]
=============================================================================
