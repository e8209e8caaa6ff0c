------------------------------- MODULE CpuInt -------------------------------
(***************************************************************************)
(* The interrupt side of the Z80 (cpu/cpu-core.cc, cpu-microcode.inc).     *)
(*                                                                         *)
(* clock() is called at every T-state.  It does the whole of an            *)
(* instruction at its first T-state, when the counter i_period is 0, and   *)
(* only counts down at the others; interrupts are looked at on that first  *)
(* T-state.  Pulses come from the outside at any moment and are latched.   *)
(*                                                                         *)
(* Of the instructions, those that touch the interrupt state are kept by   *)
(* name; "other" stands for all the rest.  served and saved are history.   *)
(***************************************************************************)
EXTENDS Integers

CONSTANTS
    Longest,    \* T-states of the longest instruction
    Word,       \* values of i_period: 2^32
    Ops,        \* the instructions a program uses: a subset of the names below
    NmiWired    \* whether something pulses the NMI line (nothing does in a CPC)

OpNames == {"other", "ei", "di", "halt", "retn", "im0", "im0/1", "im1", "im2"}

ASSUME PeriodAssumption == Longest \in Nat \ {0} /\ Word \in Nat /\ Word > Longest
ASSUME OpsAssumption == Ops \subseteq OpNames /\ NmiWired \in BOOLEAN

VARIABLES
    iff1, iff2, \* ST_IFF1, ST_IFF2
    im,         \* ST_IM1 and ST_IM2: 0, 1, 2, or 3 when both are set
    aei,        \* ST_AEI: the last instruction was EI
    nmi, int,   \* ST_NMI, ST_INT: latched requests
    hlt,        \* ST_HLT
    period,     \* i_period: T-states left of the instruction under way
    served,     \* history: what the last first T-state did
    saved       \* history: IFF1 as the outermost NMI found it

Enable(b) == IF b THEN "enabled" ELSE "disabled"

flags == <<iff1, iff2, im, aei, hlt>>
cpuVars == <<flags, nmi, int, period, served, saved>>

Init ==
    /\ iff1 = FALSE /\ iff2 = FALSE
    /\ im = 0
    /\ aei = FALSE
    /\ nmi = FALSE /\ int = FALSE
    /\ hlt = FALSE
    /\ period = 0
    /\ served = "nothing"
    /\ saved = "none"

-----------------------------------------------------------------------------
(* clock()                                                                 *)

Mutant_LastsUnwrapped(n) == period' = n - 1

\* An instruction of n T-states begins: epilog counts the first of them.
Lasts(n) == period' = (n - 1) % Word

Wait ==
    /\ period # 0
    /\ period' = period - 1
    /\ UNCHANGED <<flags, nmi, int, served, saved>>

Mutant_EiNotShielded == period = 0

\* m_after_ei(): the instruction after EI runs whatever is pending.
Interruptible == period = 0 /\ ~aei

Mutant_NmiClearsBoth ==
    /\ Interruptible
    /\ nmi
    /\ nmi' = FALSE /\ hlt' = FALSE /\ iff1' = FALSE /\ iff2' = FALSE
    /\ \E n \in 1 .. Longest : Lasts(n)
    /\ served' = "nmi"
    /\ saved' = IF saved = "none" THEN Enable(iff1) ELSE saved
    /\ UNCHANGED <<im, aei, int>>

TakeNmi ==
    /\ Interruptible
    /\ nmi
    /\ nmi' = FALSE /\ hlt' = FALSE /\ iff1' = FALSE
    /\ \E n \in 1 .. Longest : Lasts(n)
    /\ served' = "nmi"
    /\ saved' = IF saved = "none" THEN Enable(iff1) ELSE saved
    /\ UNCHANGED <<iff2, im, aei, int>>

IntTaken == Interruptible /\ ~nmi /\ iff1 /\ int

Mutant_TakeIntStaysHalted ==
    /\ IntTaken
    /\ int' = FALSE /\ iff1' = FALSE /\ iff2' = FALSE
    /\ \E n \in 1 .. Longest : Lasts(n)
    /\ served' = "int"
    /\ UNCHANGED <<im, aei, hlt, nmi, saved>>

\* Modes 0, 1 and 2 acknowledge the request and enter a handler; the switch has
\* no other case, and then no T-state is added to i_period.
TakeInt ==
    /\ IntTaken
    /\ int' = FALSE /\ hlt' = FALSE /\ iff1' = FALSE /\ iff2' = FALSE
    /\ IF im = 3 THEN Lasts(0) ELSE \E n \in 1 .. Longest : Lasts(n)
    /\ served' = IF im = 3 THEN "dropped" ELSE "int"
    /\ UNCHANGED <<im, aei, nmi, saved>>

Acknowledges == IntTaken /\ im # 3

\* check_hlt: no request is taken.
CarriesOn == period = 0 /\ (aei \/ (~nmi /\ ~(iff1 /\ int)))

Halted ==
    /\ CarriesOn
    /\ hlt
    /\ aei' = FALSE
    /\ \E n \in 1 .. Longest : Lasts(n)
    /\ served' = "halt"
    /\ UNCHANGED <<iff1, iff2, im, hlt, nmi, int, saved>>

NewIff1(op) == CASE op = "ei" -> TRUE
                 [] op = "di" -> FALSE
                 [] op = "retn" -> iff2
                 [] OTHER -> iff1
NewIff2(op) == CASE op = "ei" -> TRUE [] op = "di" -> FALSE [] OTHER -> iff2
NewIm(op)   == CASE op = "im0" -> 0 [] op = "im1" -> 1 [] op = "im2" -> 2
                 [] op = "im0/1" -> 3
                 [] OTHER -> im

Execute(op) ==
    /\ CarriesOn
    /\ ~hlt
    /\ iff1' = NewIff1(op) /\ iff2' = NewIff2(op)
    /\ im' = NewIm(op)
    /\ aei' = (op = "ei")
    /\ hlt' = (op = "halt")
    /\ \E n \in 1 .. Longest : Lasts(n)
    /\ served' = op
    /\ saved' = IF op \in {"ei", "di", "retn"} THEN "none" ELSE saved
    /\ UNCHANGED <<nmi, int>>

Clock ==
    \/ Wait \/ TakeNmi \/ TakeInt \/ Halted
    \/ \E op \in Ops : Execute(op)

-----------------------------------------------------------------------------
(* pulse_int(), pulse_nmi(), reset()                                       *)

PulseInt == int' = TRUE /\ UNCHANGED <<flags, nmi, period, served, saved>>

PulseNmi ==
    /\ NmiWired
    /\ nmi' = TRUE
    /\ UNCHANGED <<flags, int, period, served, saved>>

Reset ==
    /\ iff1' = FALSE /\ iff2' = FALSE
    /\ im' = 0
    /\ aei' = FALSE
    /\ nmi' = FALSE /\ int' = FALSE
    /\ hlt' = FALSE
    /\ period' = 0
    /\ served' = "nothing"
    /\ saved' = "none"

Next == Clock \/ PulseInt \/ PulseNmi \/ Reset

Spec == Init /\ [][Next]_cpuVars

\* The mainboard clocks the CPU; no program is obliged to do anything else.
FairSpec == Spec /\ WF_cpuVars(Clock)

-----------------------------------------------------------------------------
(* Properties                                                              *)

TypeOK ==
    /\ {iff1, iff2, aei, nmi, int, hlt} \subseteq BOOLEAN
    /\ im \in 0 .. 3
    /\ period \in 0 .. Word - 1
    /\ served \in OpNames \cup {"nothing", "nmi", "int", "dropped", "halt"}
    /\ saved \in {"none", "enabled", "disabled"}

\* Outside an NMI handler the two flip-flops agree, and inside it IFF2 keeps
\* what the NMI found, however many NMIs interrupt the handler itself; an INT
\* is never taken inside it.  So RETN gives the interrupted program its enable
\* back.
NmiKeepsEnable ==
    IF saved = "none" THEN iff1 = iff2 ELSE ~iff1 /\ Enable(iff2) = saved

\* The instruction that follows EI (the RET of a handler) is executed before
\* any request is taken: a request that is pending all the time does not pile
\* up return addresses.
EiShieldsOne == [][TakeInt \/ TakeNmi => served # "ei"]_cpuVars

\* i_period counts the T-states of one instruction: the next one is fetched
\* when those are over.
NeverStalls == period < Longest

\* A halted program that has interrupts enabled goes on when one comes.
HaltEnds == (hlt /\ iff1 /\ int) ~> ~hlt
=============================================================================
