---------------------------- MODULE RasterProofs ----------------------------
(***************************************************************************)
(* The machine's CRTC, gate array and CPU together implement Vga: whatever *)
(* the program writes and however the clocks fall, the gate array is       *)
(* driven as its specification allows.  What VgaProofs shows of Vga        *)
(* therefore holds in the machine.                                         *)
(***************************************************************************)
EXTENDS Raster, TLAPS

\* The levels of the CRTC are levels.
Levels == hsync \in BOOLEAN /\ vsync \in BOOLEAN

LEMMA ClockLevels ==
    ASSUME Levels, Crtc!Clock
    PROVE  Levels'
<1>1. hsync' \in BOOLEAN
  BY Zenon DEF Crtc!Clock, Crtc!Horizontal
<1>2. vsync' \in BOOLEAN
  BY Zenon DEF Crtc!Clock, Crtc!Vertical, Levels
<1> QED
  BY <1>1, <1>2 DEF Levels

\* Every step of the machine is a step of the gate array or leaves it alone.
LEMMA StepOfGate ==
    ASSUME Levels, [Next]_vars
    PROVE  Levels' /\ [Gate!Next]_(Gate!vars)
<1> USE DEF Gate!vars, Gate!vgaVars, Gate!paletteVars, Gate!counterVars,
            Gate!frameVars, gateVars, syncs
<1>1. CASE VdcClock
  <2>1. Levels' /\ Gate!Sync
    BY <1>1, ClockLevels DEF VdcClock
  <2>2. CASE <<hsync', vsync'>> # <<hsync, vsync>>
    BY <2>1, <2>2 DEF Levels, Gate!SyncChanges, Gate!Next
  <2>3. CASE hsync' = hsync /\ vsync' = vsync
    <3>1. ~Gate!HsyncRises /\ ~Gate!HsyncFalls /\ ~Gate!VsyncRises
      BY <2>3 DEF Gate!HsyncRises, Gate!HsyncFalls, Gate!VsyncRises
    <3>2. UNCHANGED <<frame_y, scanline>>
      BY <2>1, <3>1 DEF Gate!Sync, Gate!Frame
    <3>3. UNCHANGED <<r52, r02, sinceRaise>>
      BY <2>1, <3>1 DEF Gate!Sync, Gate!Counters, Gate!Restarts, Gate!Raise
    <3> QED
      BY <2>1, <2>3, <3>2, <3>3 DEF Gate!Sync
  <2> QED
    BY <2>2, <2>3
<1>2. CASE CpuTakesInt
  <2>1. Levels' /\ UNCHANGED syncs
    BY <1>2 DEF CpuTakesInt, Levels
  <2>2. CASE Cpu!Acknowledges
    BY <1>2, <2>1, <2>2 DEF CpuTakesInt, Gate!CpuAcks, Gate!Next
  <2>3. CASE ~Cpu!Acknowledges
    BY <1>2, <2>1, <2>3 DEF CpuTakesInt
  <2> QED
    BY <2>2, <2>3, <2>1
<1>3. CASE CpuRuns
  BY <1>3 DEF CpuRuns, Levels
<1>4. CASE CpuWrites
  <2>1. UNCHANGED syncs
    BY <1>4 DEF CpuWrites, GateWrite, CrtcWrite, Crtc!SetIndex, Crtc!SetValue,
                Gate!SelectPen, Gate!SetInk, Gate!SetRmr
  <2>2. GateWrite => Gate!Next
    BY DEF GateWrite, Gate!Next
  <2>3. GateWrite \/ UNCHANGED gateVars
    BY <1>4 DEF CpuWrites
  <2> QED
    BY <2>1, <2>2, <2>3 DEF Levels
<1>5. CASE Reset
  <2>1. Levels'
    BY <1>5, Zenon DEF Reset, Gate!Reset, Levels
  <2> QED
    BY <1>5, <2>1 DEF Reset, Gate!Next
<1>6. CASE UNCHANGED vars
  BY <1>6 DEF vars, Levels
<1> QED
  BY <1>1, <1>2, <1>3, <1>4, <1>5, <1>6 DEF Next

\* The machine implements the specification of the gate array.
THEOREM MachineDrivesGateArray == Spec => GateArrayAsSpecified
<1>1. Init => Levels /\ Gate!Init
  BY DEF Init, Gate!Init, Levels
<1>2. Levels /\ [Next]_vars => Levels' /\ [Gate!Next]_(Gate!vars)
  BY StepOfGate
<1> QED
  BY <1>1, <1>2, PTL DEF Spec, Gate!Spec, GateArrayAsSpecified

GateProofs == INSTANCE VgaProofs

\* The instance of the proofs is about the same gate array.
LEMMA SameGate ==
    /\ Gate!Init => GateProofs!Init
    /\ [Gate!Next]_(Gate!vars) => [GateProofs!Next]_(GateProofs!vars)
    /\ GateProofs!TypeOK => Gate!TypeOK
<1> USE ChipsAssumption
    DEF Gate!vars, Gate!vgaVars, Gate!paletteVars, Gate!counterVars,
        Gate!frameVars, GateProofs!vars, GateProofs!vgaVars,
        GateProofs!paletteVars, GateProofs!counterVars, GateProofs!frameVars
<1>1. Gate!Init => GateProofs!Init
  BY DEF Gate!Init, GateProofs!Init, Gate!AnyPen, GateProofs!AnyPen
<1>2. [Gate!Next]_(Gate!vars) => [GateProofs!Next]_(GateProofs!vars)
  <2>1. Gate!SyncChanges => GateProofs!SyncChanges
    BY DEF Gate!SyncChanges, GateProofs!SyncChanges, Gate!Sync, GateProofs!Sync,
           Gate!Frame, GateProofs!Frame, Gate!Counters, GateProofs!Counters,
           Gate!LineBelow, GateProofs!LineBelow, Gate!Recorded,
           GateProofs!Recorded, Gate!Counted, GateProofs!Counted,
           Gate!Restarts, GateProofs!Restarts, Gate!Raise, GateProofs!Raise,
           Gate!HsyncRises, GateProofs!HsyncRises, Gate!HsyncFalls,
           GateProofs!HsyncFalls, Gate!VsyncRises, GateProofs!VsyncRises
  <2>2. Gate!SelectPen => GateProofs!SelectPen
    BY DEF Gate!SelectPen, GateProofs!SelectPen, Gate!AnyPen, GateProofs!AnyPen
  <2>3. Gate!SetInk => GateProofs!SetInk
    BY DEF Gate!SetInk, GateProofs!SetInk
  <2>4. \A restart \in BOOLEAN :
          Gate!SetRmr(restart) => GateProofs!SetRmr(restart)
    BY DEF Gate!SetRmr, GateProofs!SetRmr
  <2>5. Gate!CpuAcks => GateProofs!CpuAcks
    BY DEF Gate!CpuAcks, GateProofs!CpuAcks, Gate!AckInterrupt,
           GateProofs!AckInterrupt
  <2>6. Gate!Reset => GateProofs!Reset
    BY DEF Gate!Reset, GateProofs!Reset, Gate!AnyPen, GateProofs!AnyPen
  <2> QED
    BY <2>1, <2>2, <2>3, <2>4, <2>5, <2>6 DEF Gate!Next, GateProofs!Next
<1>3. GateProofs!TypeOK => Gate!TypeOK
  BY DEF GateProofs!TypeOK, Gate!TypeOK, GateProofs!AnyPen, Gate!AnyPen,
         GateProofs!Palette, Gate!Palette
<1> QED
  BY <1>1, <1>2, <1>3

\* So its interrupt requests are at least Threshold lines apart, for every
\* program and every geometry.
THEOREM MachineRequestsApart == Spec => Gate!RequestsApart
<1> USE ChipsAssumption
    DEF Gate!vars, Gate!vgaVars, Gate!paletteVars, Gate!counterVars,
        Gate!frameVars, GateProofs!vars, GateProofs!vgaVars,
        GateProofs!paletteVars, GateProofs!counterVars, GateProofs!frameVars
<1>1. [GateProofs!Raise => sinceRaise + 1 >= Threshold]_(GateProofs!vars)
        => [Gate!Raise => sinceRaise + 1 >= Threshold]_(Gate!vars)
  BY DEF Gate!Raise, GateProofs!Raise, Gate!Counted, GateProofs!Counted,
         Gate!HsyncFalls, GateProofs!HsyncFalls
<1> QED
  BY <1>1, SameGate, MachineDrivesGateArray, GateProofs!Apart, PTL
     DEF GateArrayAsSpecified, Gate!Spec, GateProofs!Spec,
         Gate!RequestsApart, GateProofs!RequestsApart

-----------------------------------------------------------------------------
(* The types of the composition                                            *)

CrtcNumbers ==
    /\ addr \in {"R0"} \cup Registers \cup {Other}
    /\ regs \in [Crtc!Names -> 0 .. Byte - 1]
    /\ \A r \in Crtc!Names : regs[r] < Mask[r]
    /\ hcc \in 0 .. Byte - 1 /\ slc \in 0 .. Byte - 1 /\ vcc \in 0 .. Byte - 1
    /\ hsc \in 0 .. SyncMod - 1 /\ vsc \in 0 .. SyncMod - 1
    /\ lines \in 0 .. MaxLines /\ settled \in 0 .. Settling

\* A counter of the CRTC wraps at its width.
LEMMA CounterWraps ==
    ASSUME ChipsAssumption
    PROVE  /\ \A c \in 0 .. Byte - 1 : Crtc!Inc(c) \in 0 .. Byte - 1
           /\ \A c \in 0 .. SyncMod - 1 : (c + 1) % SyncMod \in 0 .. SyncMod - 1
           /\ 0 \in 0 .. Byte - 1 /\ 0 \in 0 .. SyncMod - 1
           /\ MaxLines \in Nat /\ Settling \in Nat
BY DEF ChipsAssumption, Crtc!WidthAssumption, Crtc!HistoryAssumption, Crtc!Inc

LEMMA ClockNumbers ==
    ASSUME ChipsAssumption, CrtcNumbers, Crtc!Clock
    PROVE  CrtcNumbers'
<1>1. hcc' \in 0 .. Byte - 1 /\ slc' \in 0 .. Byte - 1 /\ vcc' \in 0 .. Byte - 1
  <2>1. /\ hcc' \in {0, Crtc!Inc(hcc)} /\ slc' \in {0, Crtc!Inc(slc), slc}
        /\ vcc' \in {0, Crtc!Inc(vcc), vcc}
    BY DEF Crtc!Clock, Crtc!Horizontal, Crtc!Vertical
  <2>2. /\ Crtc!Inc(hcc) \in 0 .. Byte - 1 /\ Crtc!Inc(slc) \in 0 .. Byte - 1
        /\ Crtc!Inc(vcc) \in 0 .. Byte - 1
    BY CounterWraps DEF CrtcNumbers
  <2> QED BY <2>1, <2>2, CounterWraps DEF CrtcNumbers
<1>2. hsc' \in 0 .. SyncMod - 1 /\ vsc' \in 0 .. SyncMod - 1
  <2>1. hsc' \in {0, (hsc + 1) % SyncMod, hsc} /\ vsc' \in {0, (vsc + 1) % SyncMod, vsc}
    BY Zenon DEF Crtc!Clock, Crtc!Horizontal, Crtc!Vertical
  <2>2. (hsc + 1) % SyncMod \in 0 .. SyncMod - 1 /\ (vsc + 1) % SyncMod \in 0 .. SyncMod - 1
    BY CounterWraps DEF CrtcNumbers
  <2> QED BY <2>1, <2>2, CounterWraps DEF CrtcNumbers
<1>3. lines' \in 0 .. MaxLines /\ settled' \in 0 .. Settling
  <2>1. /\ (lines' = 0 \/ lines' = lines \/ (lines < MaxLines /\ lines' = lines + 1))
        /\ (settled' = settled \/ (settled < Settling /\ settled' = settled + 1))
    BY Zenon DEF Crtc!Clock, Crtc!History
  <2> QED BY <2>1, CounterWraps DEF CrtcNumbers
<1>4. addr' = addr /\ regs' = regs
  BY DEF Crtc!Clock
<1> QED BY <1>1, <1>2, <1>3, <1>4 DEF CrtcNumbers

LEMMA WriteNumbers ==
    ASSUME ChipsAssumption, CrtcNumbers, CrtcWrite
    PROVE  CrtcNumbers'
<1>1. CASE Crtc!SetIndex
  BY <1>1 DEF Crtc!SetIndex, Crtc!counters, CrtcNumbers
<1>2. CASE Crtc!SetValue
  <2>1. PICK v \in Values[addr] : regs' = [regs EXCEPT ![addr] = v % Mask[addr]]
    BY <1>2, Zenon DEF Crtc!SetValue
  <2>2. addr \in Crtc!Names /\ v \in Nat /\ Mask[addr] \in 1 .. Byte
    BY <1>2, <2>1 DEF Crtc!SetValue, ChipsAssumption, Crtc!RegisterAssumption,
                      Crtc!WidthAssumption
  <2>3. v % Mask[addr] \in 0 .. Mask[addr] - 1
    BY <2>2
  <2>4. Byte \in Nat
    BY DEF ChipsAssumption, Crtc!WidthAssumption
  <2>5. regs' \in [Crtc!Names -> 0 .. Byte - 1] /\ \A r \in Crtc!Names : regs'[r] < Mask[r]
    BY <2>1, <2>2, <2>3, <2>4 DEF CrtcNumbers
  <2>6. /\ settled' = 0
        /\ UNCHANGED <<addr, hcc, slc, vcc, hsc, vsc, lines>>
    BY <1>2 DEF Crtc!SetValue, Crtc!counters
  <2> QED BY <2>5, <2>6, CounterWraps DEF CrtcNumbers
<1> QED BY <1>1, <1>2 DEF CrtcWrite

LEMMA StartNumbers ==
    ChipsAssumption => (Crtc!Init => CrtcNumbers) /\ (Crtc!Reset => CrtcNumbers')
<1> SUFFICES ASSUME ChipsAssumption
             PROVE  (Crtc!Init => CrtcNumbers) /\ (Crtc!Reset => CrtcNumbers')
  OBVIOUS
<1>1. /\ Defaults \in [Crtc!Names -> 0 .. Byte - 1]
      /\ \A r \in Crtc!Names : Defaults[r] < Mask[r]
  BY DEF ChipsAssumption, Crtc!RegisterAssumption, Crtc!WidthAssumption
<1>2. Crtc!Init => CrtcNumbers
  BY <1>1, CounterWraps DEF Crtc!Init, CrtcNumbers
<1>3. Crtc!Reset => CrtcNumbers'
  BY <1>1, CounterWraps DEF Crtc!Reset, CrtcNumbers
<1> QED BY <1>2, <1>3

\* The CRTC keeps its types in every step of the machine, and its clock divider
\* stays within the ratio of the two clocks.
CrtcTyped == CrtcNumbers /\ Levels /\ phase \in 0 .. Ratio

LEMMA StepKeepsCrtc ==
    ASSUME ChipsAssumption, CrtcTyped, [Next]_vars
    PROVE  CrtcTyped'
<1>1. Levels'
  BY StepOfGate DEF CrtcTyped
<1>2. phase' \in 0 .. Ratio
  BY RatioAssumption DEF CrtcTyped, Next, VdcClock, CpuTakesInt, CpuRuns,
     CpuWrites, NextPhase, Reset, vars
<1>3. UNCHANGED crtcVars => CrtcNumbers'
  BY DEF crtcVars, CrtcTyped, CrtcNumbers
<1>4. VdcClock => CrtcNumbers'
  BY ClockNumbers DEF VdcClock, CrtcTyped
<1>5. CpuTakesInt \/ CpuRuns => UNCHANGED crtcVars
  BY DEF CpuTakesInt, CpuRuns
<1>6. CpuWrites => CrtcNumbers'
  BY <1>3, WriteNumbers DEF CpuWrites, CrtcTyped
<1>7. Reset => CrtcNumbers'
  BY StartNumbers DEF Reset
<1>8. UNCHANGED vars => CrtcNumbers'
  BY <1>3 DEF vars, crtcVars
<1> QED
  BY <1>1, <1>2, <1>3, <1>4, <1>5, <1>6, <1>7, <1>8 DEF Next, CrtcTyped

\* Every step of the machine is a step of the CPU or leaves it alone.
LEMMA StepOfCpu ==
    ASSUME ChipsAssumption, [Next]_vars
    PROVE  [Cpu!Next]_(Cpu!cpuVars)
<1> USE DEF Cpu!cpuVars, Cpu!flags, cpuVars
<1>1. VdcClock => Cpu!PulseInt \/ UNCHANGED cpuVars
  BY DEF VdcClock
<1>2. CpuTakesInt => Cpu!Clock
  BY DEF CpuTakesInt, Cpu!Clock
<1>3. CpuRuns => Cpu!Clock
  BY DEF CpuRuns, Cpu!Clock
<1>4. CpuWrites => Cpu!Clock
  BY DEF CpuWrites, Cpu!Clock, ChipsAssumption
<1>5. Reset => Cpu!Reset
  BY DEF Reset
<1>6. UNCHANGED vars => UNCHANGED cpuVars
  BY DEF vars
<1> QED
  BY <1>1, <1>2, <1>3, <1>4, <1>5, <1>6 DEF Next, Cpu!Next

CpuProofs == INSTANCE CpuIntProofs

\* The types of the CPU hold in the machine: what is proved of CpuInt holds for
\* the steps the mainboard lets it take.
LEMMA MachineCpuTyped == Spec => []Cpu!TypeOK
<1> USE ChipsAssumption
    DEF Cpu!cpuVars, Cpu!flags, CpuProofs!cpuVars, CpuProofs!flags
<1>1. Init => CpuProofs!Init
  BY DEF Init, Cpu!Init, CpuProofs!Init
<1>2. [Cpu!Next]_(Cpu!cpuVars) => [CpuProofs!Next]_(CpuProofs!cpuVars)
  <2> USE DEF Cpu!Lasts, CpuProofs!Lasts, Cpu!Enable, CpuProofs!Enable,
              Cpu!Interruptible, CpuProofs!Interruptible, Cpu!CarriesOn,
              CpuProofs!CarriesOn
  <2>1. Cpu!Wait => CpuProofs!Wait
    BY DEF Cpu!Wait, CpuProofs!Wait
  <2>2. Cpu!TakeNmi => CpuProofs!TakeNmi
    BY DEF Cpu!TakeNmi, CpuProofs!TakeNmi
  <2>3. Cpu!TakeInt => CpuProofs!TakeInt
    BY DEF Cpu!TakeInt, CpuProofs!TakeInt, Cpu!IntTaken, CpuProofs!IntTaken
  <2>4. Cpu!Halted => CpuProofs!Halted
    BY DEF Cpu!Halted, CpuProofs!Halted
  <2>5. \A op \in Ops : Cpu!Execute(op) => CpuProofs!Execute(op)
    BY Zenon DEF Cpu!Execute, CpuProofs!Execute, Cpu!NewIff1, CpuProofs!NewIff1,
           Cpu!NewIff2, CpuProofs!NewIff2, Cpu!NewIm, CpuProofs!NewIm
  <2>6. Cpu!PulseInt => CpuProofs!PulseInt
    BY DEF Cpu!PulseInt, CpuProofs!PulseInt
  <2>7. Cpu!PulseNmi => CpuProofs!PulseNmi
    BY DEF Cpu!PulseNmi, CpuProofs!PulseNmi
  <2>8. Cpu!Reset => CpuProofs!Reset
    BY DEF Cpu!Reset, CpuProofs!Reset
  <2> QED
    BY <2>1, <2>2, <2>3, <2>4, <2>5, <2>6, <2>7, <2>8
       DEF Cpu!Next, CpuProofs!Next, Cpu!Clock, CpuProofs!Clock
<1>3. CpuProofs!TypeOK => Cpu!TypeOK
  BY DEF CpuProofs!TypeOK, Cpu!TypeOK, CpuProofs!OpNames, Cpu!OpNames
<1>4. [Next]_vars => [CpuProofs!Next]_(CpuProofs!cpuVars)
  BY <1>2, StepOfCpu
<1>5. CpuProofs!Spec => []CpuProofs!TypeOK
  BY CpuProofs!CpuTypeCorrect
     DEF ChipsAssumption, Cpu!PeriodAssumption, Cpu!OpsAssumption, Cpu!OpNames,
         CpuProofs!PeriodAssumption, CpuProofs!OpsAssumption, CpuProofs!OpNames
<1> QED
  BY <1>1, <1>3, <1>4, <1>5, PTL
     DEF Spec, CpuProofs!Spec

\* So do those of the gate array.
LEMMA MachineGateTyped == Spec => []Gate!TypeOK
BY SameGate, MachineDrivesGateArray, GateProofs!TypeCorrect, ChipsAssumption, PTL
   DEF GateArrayAsSpecified, Gate!Spec, GateProofs!Spec

\* The whole machine keeps its types, whatever the program writes to the two
\* chips and whenever it is interrupted or reset: the counters of the CRTC wrap
\* at their widths, its registers stay within their masks, and the gate array
\* records lines only within its table.
THEOREM RasterTypeCorrect == Spec => []TypeOK
<1>1. Init => CrtcTyped
  <2>1. Init => CrtcNumbers
    BY ChipsAssumption, StartNumbers DEF Init
  <2>2. Init => phase \in 0 .. Ratio
    BY RatioAssumption DEF Init
  <2>3. Init => Levels
    BY Zenon DEF Init, Crtc!Init, Levels
  <2> QED
    BY <2>1, <2>2, <2>3 DEF CrtcTyped
<1>2. CrtcTyped /\ [Next]_vars => CrtcTyped'
  BY ChipsAssumption, StepKeepsCrtc
<1>3. CrtcTyped => phase \in 0 .. Ratio /\ Crtc!TypeOK
  BY DEF CrtcTyped, CrtcNumbers, Levels, Crtc!TypeOK
<1> QED
  BY <1>1, <1>2, <1>3, MachineCpuTyped, MachineGateTyped, PTL DEF Spec, TypeOK

-----------------------------------------------------------------------------
(* The frames of the machine                                               *)

\* Every step of the machine is a step of the CRTC or leaves it alone.
LEMMA StepOfCrtc ==
    ASSUME [Next]_vars
    PROVE  [Crtc!Next]_(Crtc!vars)
<1> USE DEF Crtc!vars, Crtc!vdcVars, Crtc!counters, crtcVars, syncs
<1>1. VdcClock => Crtc!Clock
  BY DEF VdcClock
<1>2. CpuTakesInt \/ CpuRuns => UNCHANGED <<syncs, crtcVars>>
  BY DEF CpuTakesInt, CpuRuns
<1>3. CpuWrites => CrtcWrite \/ UNCHANGED <<syncs, crtcVars>>
  <2>1. GateWrite => UNCHANGED syncs
    BY DEF GateWrite, Gate!SelectPen, Gate!SetInk, Gate!SetRmr
  <2> QED BY <2>1, Zenon DEF CpuWrites
<1>4. Reset => Crtc!Reset
  BY DEF Reset
<1>5. UNCHANGED vars => UNCHANGED <<syncs, crtcVars>>
  BY DEF vars
<1> QED BY <1>1, <1>2, <1>3, <1>4, <1>5 DEF Next, Crtc!Next, CrtcWrite

CrtcProofs == INSTANCE VdcProofs

\* The geometry of the CRTC is the one VdcProofs is about.
LEMMA SameCrtc ==
    /\ Crtc!Init => CrtcProofs!Init
    /\ [Crtc!Next]_(Crtc!vars) => [CrtcProofs!Next]_(CrtcProofs!vars)
<1> USE DEF Crtc!vars, Crtc!vdcVars, Crtc!counters, CrtcProofs!vars,
            CrtcProofs!vdcVars, CrtcProofs!counters
<1>1. Crtc!Init => CrtcProofs!Init
  BY DEF Crtc!Init, CrtcProofs!Init
<1>2. Crtc!Clock => CrtcProofs!Clock
  <2> USE DEF Crtc!LineEnds, Crtc!HorizontalTotal, Crtc!VerticalTotal,
              Crtc!ScanlineTotal, Crtc!Inc, Crtc!RowEnds, Crtc!FrameEnds,
              CrtcProofs!LineEnds, CrtcProofs!HorizontalTotal,
              CrtcProofs!VerticalTotal, CrtcProofs!ScanlineTotal,
              CrtcProofs!Inc, CrtcProofs!RowEnds, CrtcProofs!FrameEnds
  <2>1. Crtc!Horizontal => CrtcProofs!Horizontal
    BY DEF Crtc!Horizontal, CrtcProofs!Horizontal
  <2>2. Crtc!Vertical => CrtcProofs!Vertical
    BY Zenon DEF Crtc!Vertical, CrtcProofs!Vertical
  <2>3. Crtc!History => CrtcProofs!History
    BY Zenon DEF Crtc!History, CrtcProofs!History, Crtc!HsyncRises,
             CrtcProofs!HsyncRises, Crtc!VsyncRises, CrtcProofs!VsyncRises
  <2> QED BY <2>1, <2>2, <2>3 DEF Crtc!Clock, CrtcProofs!Clock
<1>3. Crtc!SetIndex => CrtcProofs!SetIndex
  BY DEF Crtc!SetIndex, CrtcProofs!SetIndex
<1>4. Crtc!SetValue => CrtcProofs!SetValue
  BY DEF Crtc!SetValue, CrtcProofs!SetValue
<1>5. Crtc!Reset => CrtcProofs!Reset
  BY DEF Crtc!Reset, CrtcProofs!Reset
<1> QED BY <1>1, <1>2, <1>3, <1>4, <1>5 DEF Crtc!Next, CrtcProofs!Next

\* So the frames of the machine are those the registers describe, once its
\* program has left the CRTC alone for three frames, whenever it was
\* interrupted and whatever it wrote to the gate array meanwhile.
THEOREM MachineFramesExact ==
    ASSUME Crtc!MaskAssumption
    PROVE  Spec => Crtc!FrameExact
<1>1. Init => CrtcProofs!Init
  BY SameCrtc DEF Init
<1>2. [Next]_vars => [CrtcProofs!Next]_(CrtcProofs!vars)
  BY SameCrtc, StepOfCrtc
<1>3. CrtcProofs!Spec => CrtcProofs!FrameExact
  BY CrtcProofs!VdcFramesExact, ChipsAssumption, Crtc!MaskAssumption
     DEF ChipsAssumption, Crtc!WidthAssumption, Crtc!RegisterAssumption,
         Crtc!HistoryAssumption, Crtc!MaskAssumption,
         CrtcProofs!WidthAssumption, CrtcProofs!RegisterAssumption,
         CrtcProofs!HistoryAssumption, CrtcProofs!MaskAssumption,
         Crtc!Names, CrtcProofs!Names
<1> DEFINE Exact == Crtc!VsyncRises /\ settled = 3 /\ Crtc!Regular
                       /\ Crtc!FrameLines <= MaxLines
                     => lines + (IF Crtc!HsyncRises THEN 1 ELSE 0)
                          = Crtc!FrameLines
           ExactThere == CrtcProofs!VsyncRises /\ settled = 3
                            /\ CrtcProofs!Regular
                            /\ CrtcProofs!FrameLines <= MaxLines
                          => lines + (IF CrtcProofs!HsyncRises THEN 1 ELSE 0)
                               = CrtcProofs!FrameLines
<1>4. [ExactThere]_(CrtcProofs!vars) => [Exact]_(Crtc!vars)
  <2>1. CrtcProofs!FrameLines = Crtc!FrameLines
    BY DEF Crtc!FrameLines, CrtcProofs!FrameLines
  <2>2. CrtcProofs!Regular <=> Crtc!Regular
    BY <2>1, Zenon DEF Crtc!Regular, CrtcProofs!Regular, Crtc!RowLines,
       CrtcProofs!RowLines, Crtc!HsyncWidth, CrtcProofs!HsyncWidth
  <2>3. /\ CrtcProofs!VsyncRises <=> Crtc!VsyncRises
        /\ CrtcProofs!HsyncRises <=> Crtc!HsyncRises
    BY DEF Crtc!VsyncRises, CrtcProofs!VsyncRises, Crtc!HsyncRises,
           CrtcProofs!HsyncRises
  <2>4. UNCHANGED CrtcProofs!vars => UNCHANGED Crtc!vars
    BY DEF Crtc!vars, Crtc!vdcVars, Crtc!counters, CrtcProofs!vars,
           CrtcProofs!vdcVars, CrtcProofs!counters
  <2> QED BY <2>1, <2>2, <2>3, <2>4
<1> QED
  BY <1>1, <1>2, <1>3, <1>4, PTL
     DEF Spec, CrtcProofs!Spec, CrtcProofs!FrameExact, Crtc!FrameExact
=============================================================================
