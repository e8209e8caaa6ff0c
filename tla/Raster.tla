------------------------------- MODULE Raster -------------------------------
(***************************************************************************)
(* CRTC, gate array and CPU as the mainboard wires them                    *)
(* (cpc/cpc-mainboard.cc).                                                 *)
(*                                                                         *)
(* Mainboard::clock() clocks the CRTC once for every Ratio clocks of the   *)
(* CPU, the CRTC first when both are due.  A change of a sync level calls  *)
(* the gate array back at once, and the gate array pulses the interrupt of *)
(* the CPU from inside that call.  The CPU acknowledges a request when it  *)
(* takes it, and writes to the gate array, the CRTC or both (a port that   *)
(* selects both reaches both) from inside an instruction.                  *)
(***************************************************************************)
EXTENDS Integers

CONSTANTS
    Ratio,      \* clocks of the CPU for one of the CRTC: 4
    Byte, SyncMod, Registers, Other, Values, Mask, Defaults, MaxLines,
    Settling,
    Period, Threshold, Lines, Pens, Border, Colours, Modes, Blank, Patience,
    FirstPen, FirstColour, FirstMode,
    Longest, Word, Ops, NmiWired

ASSUME RatioAssumption == Ratio \in Nat \ {0}

VARIABLES
    phase,      \* clocks of the CPU since the last one of the CRTC
    hsync, vsync,
    addr, regs, hcc, slc, vcc, hsc, vsc, lines, settled,
    pen, ink, mode, r52, r02, frame_y, scanline, sinceRaise,
    iff1, iff2, im, aei, nmi, int, hlt, period, served, saved

Crtc == INSTANCE Vdc
Gate == INSTANCE Vga
Cpu  == INSTANCE CpuInt

\* The constants are such as the three chips need.
ASSUME ChipsAssumption ==
    /\ Gate!PeriodAssumption /\ Gate!LinesAssumption
    /\ Gate!PatienceAssumption /\ Gate!ResetAssumption
    /\ Crtc!WidthAssumption /\ Crtc!RegisterAssumption /\ Crtc!HistoryAssumption
    /\ Cpu!PeriodAssumption /\ Cpu!OpsAssumption /\ "other" \in Ops

syncs == <<hsync, vsync>>
crtcVars == <<addr, regs, hcc, slc, vcc, hsc, vsc, lines, settled>>
gateVars == <<pen, ink, mode, r52, r02, sinceRaise, frame_y, scanline>>
cpuVars  == <<iff1, iff2, im, aei, hlt, nmi, int, period, served, saved>>
vars == <<phase, syncs, crtcVars, gateVars, cpuVars>>

Init == phase = 0 /\ Crtc!Init /\ Gate!Init /\ Cpu!Init

-----------------------------------------------------------------------------
Mutant_OneCallbackPerClock ==
    /\ phase = Ratio - 1
    /\ phase' = Ratio
    /\ Crtc!Clock
    /\ IF Gate!VsyncRises
       THEN /\ frame_y' = 0 /\ r02' = 2
            /\ UNCHANGED <<pen, ink, mode, r52, sinceRaise, scanline>>
       ELSE Gate!Sync
    /\ IF Gate!Raise THEN Cpu!PulseInt ELSE UNCHANGED cpuVars

\* vdc_hsync(), vdc_vsync() and vga_raise_int() within one clock of the CRTC.
VdcClock ==
    /\ phase = Ratio - 1
    /\ phase' = Ratio
    /\ Crtc!Clock
    /\ Gate!Sync
    /\ IF Gate!Raise THEN Cpu!PulseInt ELSE UNCHANGED cpuVars

Mutant_PhaseRunsOn == phase' = phase + 1

NextPhase == phase' = IF phase = Ratio THEN 0 ELSE phase + 1

\* cpu_iorq_m1() is the acknowledge; NMI has no source.
CpuTakesInt ==
    /\ phase # Ratio - 1
    /\ NextPhase
    /\ Cpu!TakeInt
    /\ IF Cpu!Acknowledges THEN Gate!AckInterrupt ELSE UNCHANGED gateVars
    /\ UNCHANGED <<syncs, crtcVars>>

CpuRuns ==
    /\ phase # Ratio - 1
    /\ NextPhase
    /\ \/ Cpu!Wait
       \/ Cpu!Halted
       \/ \E op \in Ops : Cpu!Execute(op)
    /\ UNCHANGED <<syncs, crtcVars, gateVars>>

GateWrite ==
    \/ Gate!SelectPen
    \/ Gate!SetInk
    \/ \E restart \in BOOLEAN : Gate!SetRmr(restart)

CrtcWrite == Crtc!SetIndex \/ Crtc!SetValue

\* cpu_iorq_wr(): bit 15 of the port selects the gate array, bit 14 the CRTC.
CpuWrites ==
    /\ phase # Ratio - 1
    /\ NextPhase
    /\ Cpu!Execute("other")
    /\ \/ GateWrite /\ UNCHANGED crtcVars
       \/ CrtcWrite /\ UNCHANGED gateVars
       \/ CrtcWrite /\ GateWrite

\* Mainboard::reset() from the user interface, between two frames.
Reset ==
    /\ phase' = 0
    /\ Crtc!Reset
    /\ Gate!Reset
    /\ Cpu!Reset

Next == VdcClock \/ CpuTakesInt \/ CpuRuns \/ CpuWrites \/ Reset

Spec == Init /\ [][Next]_vars

\* The loop of Mainboard::clock() goes on; what the program does is its own
\* affair.
FairSpec == Spec /\ WF_vars(VdcClock) /\ WF_vars(CpuTakesInt \/ CpuRuns)

-----------------------------------------------------------------------------
(* Properties                                                              *)

TypeOK ==
    /\ phase \in 0 .. Ratio
    /\ Crtc!TypeOK /\ Gate!TypeOK /\ Cpu!TypeOK

\* Whatever the program writes to the CRTC, the gate array sees a sequence of
\* sync edges it is specified for: what is proved of Vga holds in the machine.
GateArrayAsSpecified == Gate!Spec

\* From some moment on the program writes to neither chip and nobody resets.
Undisturbed == <>[][~CpuWrites /\ ~Reset]_vars

\* Requests never stop: a frame of at least Threshold lines is enough, however
\* late the program is with its acknowledges.
RequestsGoOn == Undisturbed => []<><<Gate!Raise>>_vars

\* No request is left pending long enough for its acknowledge to clear a bit
\* that is set.
Prompt == ~(int /\ r52 >= Threshold)

\* In a frame of a whole number of Periods, a program that is prompt gets its
\* requests exactly Period lines apart, restart of the count included.
SteadyRate ==
    Undisturbed /\ <>[](Prompt /\ Crtc!FrameLines % Period = 0)
        => <>[][Gate!Raise => sinceRaise + 1 = Period]_vars
=============================================================================
