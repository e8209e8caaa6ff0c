-------------------------------- MODULE Vga --------------------------------
(***************************************************************************)
(* The gate array (vga/vga-core.cc): the palette and the mode it records   *)
(* for every line of the frame, and the counter r52 by which it raises     *)
(* the CPU interrupt.                                                      *)
(*                                                                         *)
(* hsync and vsync are the levels the CRTC drives.  One clock of the CRTC  *)
(* may change both; vdc::Instance::clock() then reports hsync before       *)
(* vsync, and Sync is the two calls in that order.  An interrupt request   *)
(* is the call vga_raise_int(), here the action Raise; ack_interrupt() is  *)
(* the CPU taking it.                                                      *)
(*                                                                         *)
(* sinceRaise is history: the lines that ended since the last request,     *)
(* counted up to Patience.                                                 *)
(***************************************************************************)
EXTENDS Integers

CONSTANTS
    Period,     \* lines between two interrupts: 52
    Threshold,  \* 32: weight of the bit of r52 that an acknowledge clears
    Lines,      \* entries of the scanline table: 576
    Pens,       \* the pens, Border excluded
    Border,     \* pen 16
    Colours,    \* the colours an ink may have
    Modes,      \* the two low bits of the mode and ROM register
    Blank,      \* a line no one has recorded since the reset
    Patience    \* bound: where the history sinceRaise stops counting

ASSUME PeriodAssumption ==
    /\ Period \in Nat /\ Threshold \in Nat /\ Threshold > 0
    /\ Threshold < Period /\ Period <= 2 * Threshold
ASSUME LinesAssumption == Lines \in Nat \ {0, 1}
ASSUME PatienceAssumption == Patience \in Nat /\ Patience >= Period

CONSTANTS FirstPen, FirstColour, FirstMode  \* the zeros of reset()

ASSUME ResetAssumption ==
    FirstPen \in Pens /\ FirstColour \in Colours /\ FirstMode \in Modes

VARIABLES
    hsync,      \* level of the horizontal sync of the CRTC
    vsync,      \* level of its vertical sync
    pen,        \* _state.pen
    ink,        \* _state.ink
    mode,       \* _state.rmr, the bits a line depends on
    r52,        \* lines counted towards the next interrupt
    r02,        \* lines until the vertical sync restarts the count
    frame_y,    \* the line of the frame being displayed
    scanline,   \* the recorded lines
    sinceRaise  \* history: lines since the last request

paletteVars == <<pen, ink, mode>>
counterVars == <<r52, r02, sinceRaise>>
frameVars   == <<frame_y, scanline>>
vgaVars == <<paletteVars, counterVars, frameVars>>
vars == <<hsync, vsync, vgaVars>>

AnyPen == Pens \cup {Border}
Palette == [mode : Modes, ink : [AnyPen -> Colours]]

Init ==
    /\ hsync = FALSE /\ vsync = FALSE
    /\ pen = FirstPen
    /\ ink = [p \in AnyPen |-> FirstColour]
    /\ mode = FirstMode
    /\ r52 = 0 /\ r02 = 0
    /\ frame_y = 0
    /\ scanline = [y \in 0 .. Lines - 1 |-> Blank]
    /\ sinceRaise = 0

HsyncRises == ~hsync /\ hsync'
HsyncFalls == hsync /\ ~hsync'
VsyncRises == ~vsync /\ vsync'

-----------------------------------------------------------------------------
(* assert_hsync() and assert_vsync()                                       *)

Mutant_LineNotClamped == frame_y + 1

\* The line a rising hsync moves to; the counter stays on the last entry.
LineBelow == IF frame_y + 1 < Lines THEN frame_y + 1 ELSE Lines - 1

Recorded == [mode |-> mode, ink |-> ink]

Frame ==
    /\ frame_y' = IF VsyncRises THEN 0
                  ELSE IF HsyncRises THEN LineBelow ELSE frame_y
    /\ scanline' = IF HsyncRises /\ frame_y + 1 < Lines
                   THEN [scanline EXCEPT ![frame_y + 1] = Recorded]
                   ELSE scanline

Mutant_RestartKeepsCount == FALSE

Counted == IF r52 + 1 = Period THEN 0 ELSE r52 + 1

\* A falling hsync ends the second line of the vertical sync.
Restarts == HsyncFalls /\ r02 = 1

Mutant_RaiseAtEveryVsync ==
    /\ HsyncFalls
    /\ r52 + 1 = Period \/ r02 = 1

Mutant_RaiseOnlyAtPeriod == HsyncFalls /\ r52 + 1 = Period

Raise ==
    /\ HsyncFalls
    /\ \/ r52 + 1 = Period
       \/ r02 = 1 /\ Counted >= Threshold

Counters ==
    /\ r52' = IF Restarts THEN 0 ELSE IF HsyncFalls THEN Counted ELSE r52
    /\ r02' = IF VsyncRises THEN 2
              ELSE IF HsyncFalls /\ r02 # 0 THEN r02 - 1 ELSE r02
    /\ sinceRaise' = IF Raise THEN 0
                     ELSE IF HsyncFalls /\ sinceRaise < Patience
                          THEN sinceRaise + 1 ELSE sinceRaise

Sync == Frame /\ Counters /\ UNCHANGED paletteVars

\* Any change of the levels: what a CRTC under any program may report.
SyncChanges ==
    /\ hsync' \in BOOLEAN /\ vsync' \in BOOLEAN
    /\ <<hsync', vsync'>> # <<hsync, vsync>>
    /\ Sync

-----------------------------------------------------------------------------
(* set_value(), ack_interrupt(), reset()                                   *)

SelectPen ==
    /\ pen' \in AnyPen
    /\ UNCHANGED <<hsync, vsync, ink, mode, counterVars, frameVars>>

SetInk ==
    /\ \E c \in Colours : ink' = [ink EXCEPT ![pen] = c]
    /\ UNCHANGED <<hsync, vsync, pen, mode, counterVars, frameVars>>

\* Bit 4 of the value restarts the count and is not a request.
SetRmr(restart) ==
    /\ mode' \in Modes
    /\ r52' = IF restart THEN 0 ELSE r52
    /\ UNCHANGED <<hsync, vsync, pen, ink, r02, sinceRaise, frameVars>>

Mutant_AckClearsCount ==
    /\ r52' = 0
    /\ UNCHANGED <<paletteVars, r02, sinceRaise, frameVars>>

\* r52 &= 0b11011111.
AckInterrupt ==
    /\ r52' = r52 % Threshold
    /\ UNCHANGED <<paletteVars, r02, sinceRaise, frameVars>>

CpuAcks == AckInterrupt /\ UNCHANGED <<hsync, vsync>>

\* Mainboard::reset() resets the CRTC too, and calls no one back.
Reset ==
    /\ hsync' = FALSE /\ vsync' = FALSE
    /\ pen' = FirstPen
    /\ ink' = [p \in AnyPen |-> FirstColour]
    /\ mode' = FirstMode
    /\ r52' = 0 /\ r02' = 0
    /\ frame_y' = 0
    /\ scanline' = [y \in 0 .. Lines - 1 |-> Blank]
    /\ UNCHANGED sinceRaise

Next ==
    \/ SyncChanges
    \/ SelectPen
    \/ SetInk
    \/ \E restart \in BOOLEAN : SetRmr(restart)
    \/ CpuAcks
    \/ Reset

Spec == Init /\ [][Next]_vars

-----------------------------------------------------------------------------
(* Properties                                                              *)

TypeOK ==
    /\ hsync \in BOOLEAN /\ vsync \in BOOLEAN
    /\ pen \in AnyPen
    /\ ink \in [AnyPen -> Colours]
    /\ mode \in Modes
    /\ r52 \in 0 .. Period - 1
    /\ r02 \in 0 .. 2
    /\ frame_y \in 0 .. Lines - 1
    /\ scanline \in [0 .. Lines - 1 -> Palette \cup {Blank}]
    /\ sinceRaise \in 0 .. Patience

\* r52 never runs ahead of the lines displayed since the last request: neither
\* a restart, nor an acknowledge however late, nor a reset can bring the next
\* request forward.
CounterNotAhead == r52 <= sinceRaise

\* Two requests are at least Threshold lines apart, so that a handler that
\* lasts less than that is never asked for again before it has returned.
RequestsApart == [][Raise => sinceRaise + 1 >= Threshold]_vars
=============================================================================
