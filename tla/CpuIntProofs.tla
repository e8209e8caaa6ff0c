---------------------------- MODULE CpuIntProofs ----------------------------
(***************************************************************************)
(* Proofs about the interrupt state of the CPU, for every program, every   *)
(* length of its instructions and every pattern of pulses.                 *)
(***************************************************************************)
EXTENDS CpuInt, TLAPS

\* What the two results rest on: the flip-flops are Boolean, and ST_AEI is the
\* memory of one EI.
FlagsInv ==
    /\ iff1 \in BOOLEAN /\ iff2 \in BOOLEAN /\ aei \in BOOLEAN
    /\ aei = (served = "ei")
    /\ NmiKeepsEnable

\* Each kind of clock keeps it.
LEMMA ClockKeepsFlags ==
    ASSUME FlagsInv, Clock
    PROVE  FlagsInv'
<1> USE DEF FlagsInv, NmiKeepsEnable, Enable
<1>1. CASE Wait
  BY <1>1, Zenon DEF Wait, flags
<1>2. CASE TakeNmi
  <2>1. /\ iff1' = FALSE /\ iff2' = iff2 /\ aei' = FALSE /\ served' = "nmi"
        /\ saved' = IF saved = "none" THEN Enable(iff1) ELSE saved
    BY <1>2, Zenon DEF TakeNmi, Interruptible
  <2> QED
    BY <2>1
<1>3. CASE TakeInt
  <2>1. /\ iff1' = FALSE /\ iff2' = FALSE /\ aei' = FALSE /\ saved' = saved
        /\ served' # "ei" /\ iff1
    BY <1>3 DEF TakeInt, IntTaken, Interruptible
  <2>2. saved = "none"
    BY <2>1
  <2> QED
    BY <2>1, <2>2
<1>4. CASE Halted
  <2>1. iff1' = iff1 /\ iff2' = iff2 /\ aei' = FALSE /\ saved' = saved
    BY <1>4, Zenon DEF Halted
  <2>2. served' # "ei"
    BY <1>4 DEF Halted
  <2> QED
    BY <2>1, <2>2
<1>5. ASSUME NEW op \in Ops, Execute(op)
      PROVE  FlagsInv'
  <2>1. /\ iff1' = NewIff1(op) /\ iff2' = NewIff2(op)
        /\ aei' = (op = "ei") /\ served' = op
        /\ saved' = IF op \in {"ei", "di", "retn"} THEN "none" ELSE saved
    BY <1>5, Zenon DEF Execute
  <2>2. CASE op = "ei"
    BY <2>1, <2>2 DEF NewIff1, NewIff2
  <2>3. CASE op = "di"
    BY <2>1, <2>3 DEF NewIff1, NewIff2
  <2>4. CASE op = "retn"
    BY <2>1, <2>4 DEF NewIff1, NewIff2
  <2>5. CASE op \notin {"ei", "di", "retn"}
    BY <2>1, <2>5 DEF NewIff1, NewIff2
  <2> QED
    BY <2>2, <2>3, <2>4, <2>5
<1> QED
  BY <1>1, <1>2, <1>3, <1>4, <1>5 DEF Clock

LEMMA FlagsInvariant == Spec => []FlagsInv
<1>1. Init => FlagsInv
  BY DEF Init, FlagsInv, NmiKeepsEnable
<1>2. FlagsInv /\ [Next]_cpuVars => FlagsInv'
  <2> SUFFICES ASSUME FlagsInv, [Next]_cpuVars
               PROVE  FlagsInv'
    OBVIOUS
  <2>1. CASE Clock
    BY <2>1, ClockKeepsFlags
  <2>2. CASE PulseInt \/ PulseNmi \/ UNCHANGED cpuVars
    <3>1. UNCHANGED <<iff1, iff2, aei, served, saved>>
      BY <2>2 DEF PulseInt, PulseNmi, cpuVars, flags
    <3> QED
      BY <3>1 DEF FlagsInv, NmiKeepsEnable, Enable
  <2>3. CASE Reset
    BY <2>3 DEF Reset, FlagsInv, NmiKeepsEnable
  <2> QED
    BY <2>1, <2>2, <2>3 DEF Next
<1> QED
  BY <1>1, <1>2, PTL DEF Spec

\* RETN gives back the enable the outermost NMI found, however NMIs nest.
THEOREM NmiTransparent == Spec => []NmiKeepsEnable
<1>1. FlagsInv => NmiKeepsEnable
  BY DEF FlagsInv
<1> QED
  BY <1>1, FlagsInvariant, PTL

\* No request is taken between an EI and the instruction after it.
THEOREM EiShields == Spec => EiShieldsOne
<1>1. FlagsInv => [TakeInt \/ TakeNmi => served # "ei"]_cpuVars
  BY DEF FlagsInv, TakeInt, TakeNmi, IntTaken, Interruptible
<1> QED
  BY <1>1, FlagsInvariant, PTL DEF Spec, EiShieldsOne

\* The counter of T-states: an instruction of no T-state, which only an
\* interrupt in no mode has, makes it wrap, and it stays a value of its width.
LEMMA LastsType ==
    ASSUME NEW n \in 0 .. Longest, Lasts(n)
    PROVE  period' \in 0 .. Word - 1
BY PeriodAssumption DEF Lasts

\* The part of the type the flip-flops leave, number by number.
NumbersOK ==
    /\ im \in 0 .. 3 /\ period \in 0 .. Word - 1
    /\ served \in OpNames \cup {"nothing", "nmi", "int", "dropped", "halt"}
    /\ saved \in {"none", "enabled", "disabled"}
LatchesOK == nmi \in BOOLEAN /\ int \in BOOLEAN /\ hlt \in BOOLEAN

\* A clock keeps the counter, the mode and the two histories in their ranges.
LEMMA ClockKeepsNumbers ==
    ASSUME NumbersOK, Clock
    PROVE  NumbersOK'
<1>1. CASE Wait
  <2>1. UNCHANGED <<im, served, saved>> /\ period # 0 /\ period' = period - 1
    BY <1>1 DEF Wait, flags
  <2> QED
    BY <2>1, PeriodAssumption DEF NumbersOK
<1>2. CASE TakeNmi
  <2>1. /\ \E n \in 1 .. Longest : Lasts(n)
        /\ im' = im /\ served' = "nmi"
        /\ saved' = IF saved = "none" THEN Enable(iff1) ELSE saved
    BY <1>2 DEF TakeNmi
  <2>2. period' \in 0 .. Word - 1
    BY <2>1, LastsType, PeriodAssumption
  <2> QED
    BY <2>1, <2>2 DEF NumbersOK, Enable
<1>3. CASE TakeInt
  <2>1. /\ Lasts(0) \/ \E n \in 1 .. Longest : Lasts(n)
        /\ im' = im /\ served' \in {"dropped", "int"} /\ saved' = saved
    BY <1>3 DEF TakeInt
  <2>2. period' \in 0 .. Word - 1
    BY <2>1, LastsType, PeriodAssumption
  <2> QED
    BY <2>1, <2>2 DEF NumbersOK
<1>4. CASE Halted
  <2>1. /\ \E n \in 1 .. Longest : Lasts(n)
        /\ im' = im /\ served' = "halt" /\ saved' = saved
    BY <1>4 DEF Halted
  <2>2. period' \in 0 .. Word - 1
    BY <2>1, LastsType, PeriodAssumption
  <2> QED
    BY <2>1, <2>2 DEF NumbersOK
<1>5. ASSUME NEW op \in Ops, Execute(op)
      PROVE  NumbersOK'
  <2>1. /\ \E n \in 1 .. Longest : Lasts(n)
        /\ im' = NewIm(op) /\ served' = op
        /\ saved' \in {"none", saved}
    BY <1>5 DEF Execute
  <2>2. period' \in 0 .. Word - 1
    BY <2>1, LastsType, PeriodAssumption
  <2>3. im' \in 0 .. 3
    BY <2>1 DEF NewIm, NumbersOK
  <2> QED
    BY <2>1, <2>2, <2>3, OpsAssumption DEF NumbersOK
<1> QED
  BY <1>1, <1>2, <1>3, <1>4, <1>5 DEF Clock

\* A clock keeps the latches Boolean.
LEMMA ClockKeepsLatches ==
    ASSUME LatchesOK, Clock
    PROVE  LatchesOK'
<1>1. CASE Wait
  BY <1>1, Zenon DEF Wait, flags, LatchesOK
<1>2. CASE TakeNmi
  BY <1>2, Zenon DEF TakeNmi, LatchesOK
<1>3. CASE TakeInt
  BY <1>3, Zenon DEF TakeInt, LatchesOK
<1>4. CASE Halted
  BY <1>4, Zenon DEF Halted, LatchesOK
<1>5. ASSUME NEW op \in Ops, Execute(op)
      PROVE  LatchesOK'
  <2>1. nmi' = nmi /\ int' = int /\ hlt' = (op = "halt")
    BY <1>5, Zenon DEF Execute
  <2>2. CASE op = "halt"
    BY <2>1, <2>2, Zenon DEF LatchesOK
  <2>3. CASE op # "halt"
    <3>1. hlt' = FALSE
      BY <2>1, <2>3, Zenon
    <3> QED
      BY <2>1, <3>1, Zenon DEF LatchesOK
  <2> QED
    BY <2>2, <2>3
<1> QED
  BY <1>1, <1>2, <1>3, <1>4, <1>5 DEF Clock

\* The state of the interrupts keeps its type, for every program and whatever
\* the length of its instructions.
THEOREM CpuTypeCorrect == Spec => []TypeOK
<1> DEFINE Inv == NumbersOK /\ LatchesOK
<1>1. Init => Inv
  <2>1. Init => NumbersOK
    BY PeriodAssumption DEF Init, NumbersOK
  <2>2. Init => LatchesOK
    BY Zenon DEF Init, LatchesOK
  <2> QED
    BY <2>1, <2>2
<1>2. Inv /\ [Next]_cpuVars => Inv'
  <2> SUFFICES ASSUME Inv, [Next]_cpuVars
               PROVE  Inv'
    OBVIOUS
  <2>1. CASE Clock
    BY <2>1, ClockKeepsNumbers, ClockKeepsLatches
  <2>2. CASE PulseInt \/ PulseNmi \/ UNCHANGED cpuVars
    <3>1. UNCHANGED <<im, period, served, saved>>
      BY <2>2 DEF PulseInt, PulseNmi, cpuVars, flags
    <3>2. LatchesOK /\ PulseInt => LatchesOK'
      BY Zenon DEF PulseInt, flags, LatchesOK
    <3>3. LatchesOK /\ PulseNmi => LatchesOK'
      BY Zenon DEF PulseNmi, flags, LatchesOK
    <3>4. LatchesOK /\ UNCHANGED cpuVars => LatchesOK'
      BY Zenon DEF cpuVars, flags, LatchesOK
    <3> QED
      BY <2>2, <3>1, <3>2, <3>3, <3>4 DEF NumbersOK
  <2>3. CASE Reset
    <3>1. Reset => NumbersOK'
      BY PeriodAssumption DEF Reset, NumbersOK
    <3>2. Reset => LatchesOK'
      BY Zenon DEF Reset, LatchesOK
    <3> QED
      BY <2>3, <3>1, <3>2
  <2> QED
    BY <2>1, <2>2, <2>3 DEF Next
<1>3. Inv /\ FlagsInv => TypeOK
  BY DEF NumbersOK, LatchesOK, FlagsInv, TypeOK
<1> QED
  BY <1>1, <1>2, <1>3, FlagsInvariant, PTL DEF Spec
=============================================================================
