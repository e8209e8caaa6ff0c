-------------------------------- MODULE Vdc --------------------------------
(***************************************************************************)
(* The CRTC (vdc/vdc-core.cc): at each character clock it counts           *)
(* characters (hcc), scanlines of a row (slc) and rows (vcc), and drives   *)
(* the two sync levels.  A counter is compared for EQUALITY with a total   *)
(* that the program may rewrite at any moment, so it may find the total    *)
(* behind it; it then runs to the end of its byte and comes back to zero.  *)
(*                                                                         *)
(* Only the registers that steer a counter are kept; Other stands for the  *)
(* registers that do not, and for an index without a register.  lines and  *)
(* settled are history: the hsync pulses since the last vsync began, and   *)
(* the frames begun since a register was written last.                     *)
(***************************************************************************)
EXTENDS Integers

CONSTANTS
    Byte,       \* values of a byte: 256
    SyncMod,    \* values of a sync counter: 16
    Registers,  \* the registers a program writes: a subset of the names below
    Other,      \* an index that selects none of them
    Values,     \* [name -> the values a program writes]
    Mask,       \* [name -> how many values the register holds, a power of 2]
    Defaults,   \* [name -> its value after a reset]
    MaxLines,   \* bound: where the history lines stops counting
    Settling    \* bound: where the history settled does: 3, or 0 without it

Names == {"R0", "R2", "R3", "R4", "R5", "R7", "R9"}

ASSUME WidthAssumption == Byte \in Nat \ {0, 1} /\ SyncMod \in Nat \ {0, 1}
ASSUME RegisterAssumption ==
    /\ Registers \subseteq Names /\ Other \notin Names
    /\ Mask \in [Names -> 1 .. Byte]
    /\ Defaults \in [Names -> Nat] /\ \A r \in Names : Defaults[r] < Mask[r]
    /\ \A r \in Registers : Values[r] \subseteq 0 .. Byte - 1
ASSUME HistoryAssumption == MaxLines \in Nat /\ Settling \in 0 .. 3
\* reset_mask(): R3 holds the width of hsync alone, R4 fewer rows than a byte
\* counts, and a row with its adjustment no more scanlines than that.
ASSUME MaskAssumption ==
    /\ Mask["R3"] <= SyncMod /\ Mask["R4"] < Byte
    /\ Mask["R9"] + Mask["R5"] - 1 <= Byte

VARIABLES
    addr,       \* regs.named.address_register
    regs,       \* regs.array
    hcc,        \* character of the line
    slc,        \* scanline of the row
    vcc,        \* row of the frame
    hsc,        \* characters since hsync rose
    vsc,        \* scanlines since vsync rose
    hsync,      \* core.hsync_signal
    vsync,      \* core.vsync_signal
    lines,      \* history: hsync pulses since vsync rose
    settled     \* history: frames begun since a register was written

counters == <<hcc, slc, vcc, hsc, vsc>>
vdcVars == <<addr, regs, counters, lines, settled>>
vars == <<hsync, vsync, vdcVars>>

Init ==
    /\ addr = "R0"
    /\ regs = Defaults
    /\ hcc = 0 /\ slc = 0 /\ vcc = 0 /\ hsc = 0 /\ vsc = 0
    /\ hsync = FALSE /\ vsync = FALSE
    /\ lines = 0 /\ settled = 0

-----------------------------------------------------------------------------
(* clock()                                                                 *)

Mutant_IncClamps(c) == IF c + 1 < Byte THEN c + 1 ELSE c

Inc(c) == (c + 1) % Byte

\* The totals are bytes too: a register of 255 is a total of 0.
HorizontalTotal == Inc(regs["R0"])
VerticalTotal   == Inc(regs["R4"])

Mutant_AdjustsEveryRow == (regs["R9"] + 1 + regs["R5"]) % Byte

\* The last row of the frame has R5 scanlines more.
ScanlineTotal ==
    IF vcc + 1 = VerticalTotal
    THEN (regs["R9"] + 1 + regs["R5"]) % Byte
    ELSE Inc(regs["R9"])

LineEnds == Inc(hcc) = HorizontalTotal
RowEnds  == LineEnds /\ Inc(slc) = ScanlineTotal
FrameEnds == RowEnds /\ Inc(vcc) = VerticalTotal

Horizontal ==
    /\ hcc' = IF LineEnds THEN 0 ELSE Inc(hcc)
    /\ \/ /\ hsync
          /\ LET h == (hsc + 1) % SyncMod
                 ends == h = regs["R3"] % SyncMod
             IN  /\ hsync' = ~ends
                 /\ hsc' = IF ends THEN 0 ELSE h
       \/ /\ ~hsync
          /\ hsync' = (hcc' = regs["R2"])
          /\ hsc' = IF hsync' THEN 0 ELSE hsc

\* The mask of R3 keeps its low half: vsync always lasts SyncMod scanlines.
Vertical ==
    /\ slc' = IF RowEnds THEN 0 ELSE IF LineEnds THEN Inc(slc) ELSE slc
    /\ vcc' = IF FrameEnds THEN 0 ELSE IF RowEnds THEN Inc(vcc) ELSE vcc
    /\ \/ /\ LineEnds /\ vsync
          /\ vsc' = (vsc + 1) % SyncMod
          /\ vsync' = (vsc' # regs["R3"] \div SyncMod)
       \/ /\ LineEnds /\ ~vsync
          /\ vsync' = (vcc = regs["R7"])
          /\ vsc' = IF vsync' THEN 0 ELSE vsc
       \/ /\ ~LineEnds
          /\ UNCHANGED <<vsc, vsync>>

HsyncRises == ~hsync /\ hsync'
VsyncRises == ~vsync /\ vsync'

History ==
    LET l == IF HsyncRises /\ lines < MaxLines THEN lines + 1 ELSE lines
    IN  /\ lines' = IF VsyncRises THEN 0 ELSE l
        /\ settled' = IF FrameEnds /\ settled < Settling THEN settled + 1 ELSE settled

Clock == Horizontal /\ Vertical /\ History /\ UNCHANGED <<addr, regs>>

-----------------------------------------------------------------------------
(* set_index(), set_value(), reset()                                       *)

SetIndex ==
    /\ addr' \in Registers \cup {Other}
    /\ UNCHANGED <<regs, counters, hsync, vsync, lines, settled>>

Mutant_SetValueUnmasked ==
    /\ addr \in Registers
    /\ \E v \in Values[addr] : regs' = [regs EXCEPT ![addr] = v]
    /\ settled' = 0
    /\ UNCHANGED <<addr, counters, hsync, vsync, lines>>

SetValue ==
    /\ addr \in Registers
    /\ \E v \in Values[addr] : regs' = [regs EXCEPT ![addr] = v % Mask[addr]]
    /\ settled' = 0
    /\ UNCHANGED <<addr, counters, hsync, vsync, lines>>

\* The levels drop without a callback.
Reset ==
    /\ addr' = "R0"
    /\ regs' = Defaults
    /\ hcc' = 0 /\ slc' = 0 /\ vcc' = 0 /\ hsc' = 0 /\ vsc' = 0
    /\ hsync' = FALSE /\ vsync' = FALSE
    /\ lines' = 0 /\ settled' = 0

Next == Clock \/ SetIndex \/ SetValue \/ Reset

Spec == Init /\ [][Next]_vars

\* The mainboard clocks the CRTC whatever the program does.
FairSpec == Spec /\ WF_vars(Clock)

-----------------------------------------------------------------------------
(* Properties                                                              *)

TypeOK ==
    /\ addr \in {"R0"} \cup Registers \cup {Other}
    /\ regs \in [Names -> 0 .. Byte - 1]
    /\ \A r \in Names : regs[r] < Mask[r]
    /\ {hcc, slc, vcc} \subseteq 0 .. Byte - 1
    /\ {hsc, vsc} \subseteq 0 .. SyncMod - 1
    /\ hsync \in BOOLEAN /\ vsync \in BOOLEAN
    /\ lines \in 0 .. MaxLines
    /\ settled \in 0 .. Settling

\* The geometry the registers describe, where they describe one: both syncs lie
\* in the frame, hsync ends before the next one is due, and the row that starts
\* vsync is over when vsync is (the comparison with R7 is made on every
\* scanline of the row, so a taller row would start it twice).  A vsync that
\* was started late, on the last scanline of that row, must still be over when
\* the next is due, or it delays that one, and so on from frame to frame.
RowLines(r) == regs["R9"] + 1 + IF r = regs["R4"] THEN regs["R5"] ELSE 0
FrameLines  == (regs["R4"] + 1) * (regs["R9"] + 1) + regs["R5"]
HsyncWidth  == IF regs["R3"] % SyncMod = 0 THEN SyncMod ELSE regs["R3"] % SyncMod

Regular ==
    /\ regs["R2"] <= regs["R0"] /\ HsyncWidth <= regs["R0"]
    /\ regs["R7"] <= regs["R4"]
    /\ RowLines(regs["R7"]) <= SyncMod + 1
    /\ RowLines(regs["R7"]) + SyncMod <= FrameLines

\* Once a program leaves the registers alone, from the third frame on every
\* frame has the lines the registers say, whatever state the writes left the
\* counters in.
FrameExact ==
    [][VsyncRises /\ settled = 3 /\ Regular /\ FrameLines <= MaxLines
          => lines + (IF HsyncRises THEN 1 ELSE 0) = FrameLines]_vars

\* However the program moved the totals, once it stops the frames go on: a
\* counter that was overtaken wraps and finds its total again.
FramesGoOn == <>[][Clock]_vars => []<><<Clock /\ FrameEnds>>_vars
=============================================================================
