----------------------------- MODULE VdcProofs -----------------------------
(***************************************************************************)
(* The CRTC's types, and that its frames have exactly the lines the        *)
(* registers say once a program leaves them alone, for every width of the  *)
(* counters, every geometry and every history of writes before it.         *)
(***************************************************************************)
EXTENDS Vdc, TLAPS

-----------------------------------------------------------------------------
(* Types                                                                   *)

\* A counter wraps at its width.
LEMMA CounterWraps ==
    /\ \A c \in 0 .. Byte - 1 : Inc(c) \in 0 .. Byte - 1
    /\ \A c \in 0 .. SyncMod - 1 : (c + 1) % SyncMod \in 0 .. SyncMod - 1
    /\ 0 \in 0 .. Byte - 1 /\ 0 \in 0 .. SyncMod - 1
    /\ MaxLines \in Nat /\ Settling \in Nat
BY WidthAssumption, HistoryAssumption DEF WidthAssumption, HistoryAssumption, Inc

\* What one clock may do to each counter, whatever the registers hold.
LEMMA ClockTypes ==
    ASSUME TypeOK, Clock
    PROVE  TypeOK'
<1>1. {hcc', slc', vcc'} \subseteq 0 .. Byte - 1
  <2>1. /\ hcc' \in {0, Inc(hcc)} /\ slc' \in {0, Inc(slc), slc}
        /\ vcc' \in {0, Inc(vcc), vcc}
    BY DEF Clock, Horizontal, Vertical
  <2>2. {Inc(hcc), Inc(slc), Inc(vcc)} \subseteq 0 .. Byte - 1
    BY CounterWraps DEF TypeOK
  <2> QED BY <2>1, <2>2, CounterWraps DEF TypeOK
<1>2. {hsc', vsc'} \subseteq 0 .. SyncMod - 1
  <2>1. hsc' \in {0, (hsc + 1) % SyncMod, hsc} /\ vsc' \in {0, (vsc + 1) % SyncMod, vsc}
    BY Zenon DEF Clock, Horizontal, Vertical
  <2>2. {(hsc + 1) % SyncMod, (vsc + 1) % SyncMod} \subseteq 0 .. SyncMod - 1
    BY CounterWraps DEF TypeOK
  <2> QED BY <2>1, <2>2, CounterWraps DEF TypeOK
<1>3. hsync' \in BOOLEAN /\ vsync' \in BOOLEAN
  <2>1. hsync' \in BOOLEAN
    BY Zenon DEF Clock, Horizontal
  <2>2. vsync' \in BOOLEAN
    BY Zenon DEF Clock, Vertical, TypeOK
  <2> QED BY <2>1, <2>2
<1>4. lines' \in 0 .. MaxLines /\ settled' \in 0 .. Settling
  <2>1. /\ (lines' = 0 \/ lines' = lines \/ (lines < MaxLines /\ lines' = lines + 1))
        /\ (settled' = settled \/ (settled < Settling /\ settled' = settled + 1))
    BY Zenon DEF Clock, History
  <2> QED BY <2>1, CounterWraps DEF TypeOK
<1>5. addr' = addr /\ regs' = regs
  BY DEF Clock
<1> QED BY <1>1, <1>2, <1>3, <1>4, <1>5 DEF TypeOK

\* A register holds what its mask lets through.
LEMMA WriteTypes ==
    ASSUME TypeOK, SetValue
    PROVE  TypeOK'
<1>1. PICK v \in Values[addr] : regs' = [regs EXCEPT ![addr] = v % Mask[addr]]
  BY Zenon DEF SetValue
<1>2. addr \in Names /\ v \in Nat /\ Mask[addr] \in 1 .. Byte /\ Byte \in Nat
  BY <1>1, WidthAssumption, RegisterAssumption
     DEF SetValue, WidthAssumption, RegisterAssumption
<1>3. v % Mask[addr] \in 0 .. Mask[addr] - 1
  BY <1>2
<1>4. regs' \in [Names -> 0 .. Byte - 1] /\ \A r \in Names : regs'[r] < Mask[r]
  BY <1>1, <1>2, <1>3 DEF TypeOK
<1>5. settled' = 0 /\ 0 \in 0 .. Settling
  BY CounterWraps DEF SetValue
<1>6. UNCHANGED <<addr, hcc, slc, vcc, hsc, vsc, hsync, vsync, lines>>
  BY DEF SetValue, counters
<1> QED BY <1>4, <1>5, <1>6 DEF TypeOK

LEMMA StartTypes ==
    ASSUME regs = Defaults, addr = "R0", hcc = 0, slc = 0, vcc = 0, hsc = 0,
           vsc = 0, hsync = FALSE, vsync = FALSE, lines = 0, settled = 0
    PROVE  TypeOK
<1>1. regs \in [Names -> 0 .. Byte - 1] /\ \A r \in Names : regs[r] < Mask[r]
  BY WidthAssumption, RegisterAssumption DEF WidthAssumption, RegisterAssumption
<1>2. hsync \in BOOLEAN /\ vsync \in BOOLEAN
  BY Zenon
<1> QED BY <1>1, <1>2, CounterWraps DEF TypeOK

\* The state of the CRTC keeps its types whatever a program writes: no
\* register of it is wider than its mask, no counter than its byte.
THEOREM VdcTypes == Spec => []TypeOK
<1>1. Init => TypeOK
  BY StartTypes, Zenon DEF Init
<1>2. TypeOK /\ [Next]_vars => TypeOK'
  <2> SUFFICES ASSUME TypeOK, [Next]_vars PROVE TypeOK'
    OBVIOUS
  <2>1. CASE Clock
    BY <2>1, ClockTypes
  <2>2. CASE SetIndex
    <3>1. addr' \in {"R0"} \cup Registers \cup {Other}
      BY <2>2 DEF SetIndex
    <3>2. UNCHANGED <<regs, hcc, slc, vcc, hsc, vsc, hsync, vsync, lines, settled>>
      BY <2>2 DEF SetIndex, counters
    <3> QED BY <3>1, <3>2 DEF TypeOK
  <2>3. CASE SetValue
    BY <2>3, WriteTypes
  <2>4. CASE Reset
    <3>1. regs' \in [Names -> 0 .. Byte - 1] /\ \A r \in Names : regs'[r] < Mask[r]
      BY <2>4, WidthAssumption, RegisterAssumption
         DEF Reset, WidthAssumption, RegisterAssumption
    <3>2. hsync' \in BOOLEAN /\ vsync' \in BOOLEAN
      BY <2>4, Zenon DEF Reset
    <3>3. /\ addr' = "R0" /\ hcc' = 0 /\ slc' = 0 /\ vcc' = 0 /\ hsc' = 0
          /\ vsc' = 0 /\ lines' = 0 /\ settled' = 0
      BY <2>4 DEF Reset
    <3> QED BY <3>1, <3>2, <3>3, CounterWraps DEF TypeOK
  <2>5. CASE UNCHANGED vars
    BY <2>5 DEF vars, vdcVars, counters, TypeOK
  <2> QED BY <2>1, <2>2, <2>3, <2>4, <2>5 DEF Next
<1> QED BY <1>1, <1>2, PTL DEF Spec
-----------------------------------------------------------------------------
(* Where the counters are in a frame, and where the syncs may be           *)

\* The number of the line in the frame, and of the line at whose end vsync is
\* due.
Line     == vcc * (regs["R9"] + 1) + slc
SyncLine == regs["R7"] * (regs["R9"] + 1)

\* No counter has run past its total.
InFrame ==
    /\ hcc <= regs["R0"] /\ vcc <= regs["R4"] /\ slc < RowLines(vcc)

\* The first line without the vsync that is going on.
VsyncUntil == Line + SyncMod - vsc

\* The first full frame: the writes may have left a vsync behind, and one may
\* begin late, on any scanline of the row of R7.
VsyncMayBeLate ==
    vsync => \/ VsyncUntil <= SyncMod
             \/ /\ Line > SyncLine
                /\ VsyncUntil <= SyncLine + RowLines(regs["R7"]) + SyncMod

\* Later frames: vsync is over when it is due, begins then, and lasts SyncMod.
VsyncInPlace ==
    /\ Line <= SyncLine /\ vsync => VsyncUntil <= SyncLine
    /\ Line > SyncLine => /\ vsync <=> Line <= SyncLine + SyncMod
                          /\ vsync => vsc = Line - SyncLine - 1

\* The characters since hcc was R2.
SinceR2 ==
    IF hcc >= regs["R2"] THEN hcc - regs["R2"]
                         ELSE hcc + regs["R0"] + 1 - regs["R2"]

HsyncInPlace == hsync => hsc = SinceR2 /\ hsc < HsyncWidth

\* The characters the hsync that is going on will last.
HsyncLeft == (IF hsc < HsyncWidth THEN 0 ELSE SyncMod) + HsyncWidth - hsc

\* An hsync the writes left behind is over within a frame.
HsyncMayBeLeft == hsync => HsyncInPlace \/ HsyncLeft + Line <= SyncMod

\* The lines begun since vsync was due, and whether this line has had its pulse.
Begun ==
    (IF Line > SyncLine THEN 0 ELSE FrameLines) + Line - SyncLine - 1
Pulse == IF regs["R2"] > 0 /\ hcc >= regs["R2"] THEN 1 ELSE 0

LinesCounted == FrameLines <= MaxLines => lines = Begun + Pulse

\* What the frames since the last write have brought about.
Settled ==
    Regular =>
        /\ settled >= 1 => InFrame
        /\ settled = 1 => VsyncMayBeLate /\ HsyncMayBeLeft
        /\ settled >= 2 => VsyncInPlace /\ HsyncInPlace
        /\ settled = 3 \/ (settled = 2 /\ Line > SyncLine) => LinesCounted

-----------------------------------------------------------------------------
(* One clock in a frame                                                    *)

LEMMA Times ==
    ASSUME NEW a \in Nat, NEW b \in Nat, NEW k \in Nat, a < b
    PROVE  a * k \in Nat /\ b * k \in Nat /\ a * k + k <= b * k
<1>1. PICK d \in Nat : b = a + 1 + d
  <2>1. b - a - 1 \in Nat /\ b = a + 1 + (b - a - 1)
    OBVIOUS
  <2> QED BY <2>1
<1>2. (a + 1 + d) * k = a * k + k + d * k
  OBVIOUS
<1>3. d * k \in Nat /\ a * k \in Nat
  OBVIOUS
<1> QED BY <1>1, <1>2, <1>3

LEMMA LeftOver ==
    ASSUME NEW k \in Nat \ {0}, NEW w \in 1 .. k, NEW c \in 0 .. k - 1
    PROVE  /\ (IF c < w THEN 0 ELSE k) + w - c \in 1 .. k
           /\ 0 + k - c <= k
OBVIOUS

LEMMA IncSame ==
    ASSUME NEW c \in 0 .. Byte - 1, NEW d \in 0 .. Byte - 1
    PROVE  /\ Inc(c) = Inc(d) <=> c = d
           /\ c < d => Inc(c) = c + 1
           /\ c < Byte - 1 => Inc(c) = c + 1
BY WidthAssumption DEF WidthAssumption, Inc

\* The numbers the lemmas below are about.
LEMMA Numbers ==
    ASSUME TypeOK
    PROVE  /\ Byte \in Nat \ {0, 1} /\ SyncMod \in Nat \ {0, 1}
           /\ \A r \in Names : regs[r] \in 0 .. Byte - 1
           /\ regs["R3"] < SyncMod /\ regs["R4"] < Byte - 1
           /\ regs["R9"] + 1 + regs["R5"] <= Byte
           /\ hcc \in 0 .. Byte - 1 /\ slc \in 0 .. Byte - 1 /\ vcc \in 0 .. Byte - 1
           /\ hsc \in 0 .. SyncMod - 1 /\ vsc \in 0 .. SyncMod - 1
           /\ lines \in 0 .. MaxLines /\ settled \in 0 .. Settling
           /\ MaxLines \in Nat /\ Settling \in 0 .. 3
           /\ HsyncWidth \in 1 .. SyncMod
           /\ \A r \in Nat : RowLines(r) \in Nat \ {0} /\ RowLines(r) >= regs["R9"] + 1
<1>1. Byte \in Nat \ {0, 1} /\ SyncMod \in Nat \ {0, 1}
  BY WidthAssumption DEF WidthAssumption
<1>2. \A r \in Names : regs[r] \in 0 .. Byte - 1 /\ regs[r] < Mask[r] /\ Mask[r] \in 1 .. Byte
  BY RegisterAssumption DEF TypeOK, RegisterAssumption
<1>3. /\ regs["R3"] \in Nat /\ regs["R4"] \in Nat /\ regs["R5"] \in Nat /\ regs["R9"] \in Nat
      /\ regs["R3"] < Mask["R3"] /\ regs["R4"] < Mask["R4"]
      /\ regs["R5"] < Mask["R5"] /\ regs["R9"] < Mask["R9"]
      /\ Mask["R3"] \in Nat /\ Mask["R4"] \in Nat /\ Mask["R5"] \in Nat
      /\ Mask["R9"] \in Nat
  BY <1>1, <1>2 DEF Names
<1>4. /\ regs["R3"] < SyncMod /\ regs["R4"] < Byte - 1
      /\ regs["R9"] + 1 + regs["R5"] <= Byte
  BY <1>1, <1>3, MaskAssumption DEF MaskAssumption
<1>5. HsyncWidth \in 1 .. SyncMod
  BY <1>1, <1>3 DEF HsyncWidth
<1>6. \A r \in Nat : RowLines(r) \in Nat \ {0} /\ RowLines(r) >= regs["R9"] + 1
  BY <1>3 DEF RowLines
<1> QED BY <1>1, <1>2, <1>4, <1>5, <1>6, HistoryAssumption DEF TypeOK, HistoryAssumption

\* A counter that is not past its total ends at it.
LEMMA Ends ==
    ASSUME TypeOK, InFrame
    PROVE  /\ LineEnds <=> hcc = regs["R0"]
           /\ RowEnds <=> hcc = regs["R0"] /\ slc + 1 = RowLines(vcc)
           /\ FrameEnds <=> /\ hcc = regs["R0"] /\ slc + 1 = RowLines(vcc)
                            /\ vcc = regs["R4"]
           /\ hcc < regs["R0"] => Inc(hcc) = hcc + 1
           /\ slc + 1 < RowLines(vcc) => Inc(slc) = slc + 1
           /\ vcc < regs["R4"] => Inc(vcc) = vcc + 1
<1>1. /\ regs["R0"] \in 0 .. Byte - 1 /\ regs["R4"] \in 0 .. Byte - 1
      /\ regs["R9"] \in 0 .. Byte - 1 /\ regs["R5"] \in 0 .. Byte - 1
      /\ regs["R4"] < Byte - 1 /\ regs["R9"] + 1 + regs["R5"] <= Byte
      /\ Byte \in Nat \ {0, 1}
      /\ hcc \in 0 .. Byte - 1 /\ slc \in 0 .. Byte - 1 /\ vcc \in 0 .. Byte - 1
  BY Numbers DEF Names
<1>2. LineEnds <=> hcc = regs["R0"]
  BY <1>1, IncSame DEF LineEnds, HorizontalTotal
<1>3. VerticalTotal = regs["R4"] + 1
  BY <1>1, IncSame DEF VerticalTotal
<1>4. /\ RowLines(vcc) \in 1 .. Byte /\ RowLines(vcc) - 1 \in 0 .. Byte - 1
      /\ ScanlineTotal = Inc(RowLines(vcc) - 1)
  BY <1>1, <1>3 DEF ScanlineTotal, Inc, RowLines
<1>5. RowEnds <=> LineEnds /\ slc + 1 = RowLines(vcc)
  BY <1>1, <1>4, IncSame DEF RowEnds
<1>6. FrameEnds <=> RowEnds /\ vcc = regs["R4"]
  BY <1>1, IncSame DEF FrameEnds, VerticalTotal
<1>7. hcc < regs["R0"] => Inc(hcc) = hcc + 1
  BY <1>1, IncSame
<1>8. vcc < regs["R4"] => Inc(vcc) = vcc + 1
  BY <1>1, IncSame
<1>9. slc + 1 < RowLines(vcc) => Inc(slc) = slc + 1
  BY <1>1, <1>4, IncSame
<1> QED BY <1>2, <1>5, <1>6, <1>7, <1>8, <1>9

\* The row of R7 is the lines from SyncLine on.
LEMMA RowOfSync ==
    ASSUME TypeOK, InFrame, regs["R7"] <= regs["R4"]
    PROVE  /\ Line \in Nat /\ SyncLine \in Nat /\ FrameLines \in Nat
           /\ RowLines(regs["R7"]) \in Nat \ {0}
           /\ vcc = regs["R7"] <=> /\ SyncLine <= Line
                                   /\ Line < SyncLine + RowLines(regs["R7"])
           /\ SyncLine + RowLines(regs["R7"]) <= FrameLines /\ Line < FrameLines
           /\ vcc = regs["R4"] => Line = FrameLines - RowLines(vcc) + slc
<1>1. /\ regs["R4"] \in Nat /\ regs["R7"] \in Nat /\ regs["R9"] \in Nat /\ regs["R5"] \in Nat
      /\ vcc \in Nat /\ slc \in Nat
  BY Numbers DEF Names
<1> DEFINE h == regs["R9"] + 1
<1> DEFINE a == vcc * h  b == regs["R7"] * h  c == regs["R4"] * h
<1>2. h \in Nat /\ a \in Nat /\ b \in Nat /\ c \in Nat
  BY <1>1, Times
<1>3. (regs["R4"] + 1) * h = c + h
  BY <1>1
<1>4. Line = a + slc /\ SyncLine = b /\ FrameLines = c + h + regs["R5"]
  BY <1>3 DEF Line, SyncLine, FrameLines
<1>5. /\ vcc < regs["R7"] => a + h <= b
      /\ regs["R7"] < vcc => b + h <= a
      /\ regs["R7"] < regs["R4"] => b + h <= c
      /\ vcc < regs["R4"] => a + h <= c
      /\ vcc = regs["R7"] => a = b
      /\ vcc = regs["R4"] => a = c
      /\ regs["R7"] = regs["R4"] => b = c
  BY <1>1, <1>2, Times
<1>6. /\ RowLines(vcc) = h + IF vcc = regs["R4"] THEN regs["R5"] ELSE 0
      /\ RowLines(regs["R7"]) = h + IF regs["R7"] = regs["R4"] THEN regs["R5"] ELSE 0
      /\ h > 0 /\ slc < RowLines(vcc) /\ vcc <= regs["R4"]
  BY <1>1 DEF RowLines, InFrame
<1> HIDE DEF h, a, b, c
<1>7. CASE vcc < regs["R7"]
  BY <1>7, <1>1, <1>2, <1>4, <1>5, <1>6
<1>8. CASE vcc = regs["R7"]
  BY <1>8, <1>1, <1>2, <1>4, <1>5, <1>6
<1>9. CASE vcc > regs["R7"]
  BY <1>9, <1>1, <1>2, <1>4, <1>5, <1>6
<1> QED BY <1>1, <1>7, <1>8, <1>9

\* A clock moves along the line, or to the next line, or to the first one of
\* the next frame.
LEMMA ClockInFrame ==
    ASSUME TypeOK, InFrame, Clock, regs["R7"] <= regs["R4"]
    PROVE  /\ InFrame'
           /\ hcc < regs["R0"] => /\ hcc' = hcc + 1 /\ Line' = Line
                                  /\ ~LineEnds /\ ~FrameEnds
           /\ hcc = regs["R0"] => /\ hcc' = 0 /\ LineEnds
                                  /\ \/ FrameEnds /\ Line = FrameLines - 1 /\ Line' = 0
                                     \/ /\ ~FrameEnds /\ Line' = Line + 1
                                        /\ Line < FrameLines - 1
<1>1. /\ \A r \in Names : regs[r] \in Nat
      /\ regs["R4"] \in Nat /\ regs["R9"] \in Nat /\ regs["R5"] \in Nat /\ regs["R0"] \in Nat
      /\ hcc \in Nat /\ slc \in Nat /\ vcc \in Nat
      /\ \A r \in Nat : RowLines(r) \in Nat \ {0}
  BY Numbers DEF Names
<1>2. /\ hcc' = IF LineEnds THEN 0 ELSE Inc(hcc)
      /\ slc' = IF RowEnds THEN 0 ELSE IF LineEnds THEN Inc(slc) ELSE slc
      /\ vcc' = IF FrameEnds THEN 0 ELSE IF RowEnds THEN Inc(vcc) ELSE vcc
      /\ regs' = regs
  BY DEF Clock, Horizontal, Vertical
<1>3. (\A r \in Nat : RowLines(r)' = RowLines(r))
      /\ Line' = vcc' * (regs["R9"] + 1) + slc'
  BY <1>2 DEF RowLines, Line
<1>4. CASE hcc < regs["R0"]
  <2>1. ~LineEnds /\ ~RowEnds /\ ~FrameEnds /\ Inc(hcc) = hcc + 1
    BY <1>4, <1>1, Ends
  <2>2. hcc' = hcc + 1 /\ slc' = slc /\ vcc' = vcc
    BY <1>2, <2>1
  <2> QED BY <1>1, <1>2, <1>3, <1>4, <2>1, <2>2 DEF InFrame, Line, RowLines
<1>5. CASE hcc = regs["R0"] /\ slc + 1 < RowLines(vcc)
  <2>1. LineEnds /\ ~RowEnds /\ ~FrameEnds /\ Inc(slc) = slc + 1
    BY <1>5, <1>1, Ends
  <2>2. hcc' = 0 /\ slc' = slc + 1 /\ vcc' = vcc
    BY <1>2, <2>1
  <2>3. vcc * (regs["R9"] + 1) \in Nat
    BY <1>1
  <2>4. Line' = Line + 1
    BY <1>1, <1>3, <2>2, <2>3 DEF Line
  <2>5. Line + 1 < FrameLines
    <3>1. CASE vcc = regs["R4"]
      BY <3>1, <1>1, <1>5, RowOfSync
    <3>2. CASE vcc < regs["R4"]
      <4>1. vcc * (regs["R9"] + 1) + (regs["R9"] + 1) <= regs["R4"] * (regs["R9"] + 1)
            /\ regs["R4"] * (regs["R9"] + 1) \in Nat
        BY <3>2, <1>1, Times
      <4>2. RowLines(vcc) = regs["R9"] + 1
        BY <3>2, <1>1 DEF RowLines
      <4>3. FrameLines = regs["R4"] * (regs["R9"] + 1) + (regs["R9"] + 1) + regs["R5"]
        BY <1>1 DEF FrameLines
      <4> QED BY <1>1, <1>5, <2>3, <4>1, <4>2, <4>3 DEF Line
    <3> QED BY <1>1, <3>1, <3>2 DEF InFrame
  <2>6. InFrame'
    BY <1>1, <1>2, <1>3, <1>5, <2>2 DEF InFrame, RowLines
  <2>7. Line \in Nat /\ FrameLines \in Nat
    BY RowOfSync
  <2> QED BY <1>1, <1>5, <2>1, <2>2, <2>4, <2>5, <2>6, <2>7
<1>6. CASE hcc = regs["R0"] /\ slc + 1 = RowLines(vcc) /\ vcc < regs["R4"]
  <2>1. LineEnds /\ RowEnds /\ ~FrameEnds /\ Inc(vcc) = vcc + 1
    BY <1>6, <1>1, Ends
  <2>2. hcc' = 0 /\ slc' = 0 /\ vcc' = vcc + 1
    BY <1>2, <2>1
  <2>3. RowLines(vcc) = regs["R9"] + 1
    BY <1>6, <1>1 DEF RowLines
  <2>4. (vcc + 1) * (regs["R9"] + 1) = vcc * (regs["R9"] + 1) + (regs["R9"] + 1)
        /\ vcc * (regs["R9"] + 1) \in Nat
    BY <1>1
  <2>5. Line' = Line + 1
    BY <1>1, <1>3, <1>6, <2>2, <2>3, <2>4 DEF Line
  <2>6. Line + 1 < FrameLines
    <3>1. vcc * (regs["R9"] + 1) + (regs["R9"] + 1) <= regs["R4"] * (regs["R9"] + 1)
          /\ regs["R4"] * (regs["R9"] + 1) \in Nat
      BY <1>6, <1>1, Times
    <3>2. FrameLines = regs["R4"] * (regs["R9"] + 1) + (regs["R9"] + 1) + regs["R5"]
      BY <1>1 DEF FrameLines
    <3> QED BY <1>1, <1>6, <2>3, <2>4, <3>1, <3>2 DEF Line
  <2>7. InFrame'
    BY <1>1, <1>2, <1>3, <1>6, <2>2 DEF InFrame, RowLines
  <2>8. Line \in Nat /\ FrameLines \in Nat
    BY RowOfSync
  <2> QED BY <1>1, <1>6, <2>1, <2>2, <2>5, <2>6, <2>7, <2>8
<1>7. CASE hcc = regs["R0"] /\ slc + 1 = RowLines(vcc) /\ vcc = regs["R4"]
  <2>1. LineEnds /\ RowEnds /\ FrameEnds
    BY <1>7, <1>1, Ends
  <2>2. hcc' = 0 /\ slc' = 0 /\ vcc' = 0
    BY <1>2, <2>1
  <2>3. Line' = 0
    BY <1>1, <1>3, <2>2
  <2>4. Line = FrameLines - 1
    BY <1>1, <1>7, RowOfSync
  <2>5. InFrame'
    <3>1. RowLines(0) > 0 /\ RowLines(0) \in Nat
      BY <1>1
    <3> QED BY <1>1, <1>2, <2>2, <3>1 DEF InFrame, RowLines
  <2> QED BY <1>1, <1>7, <2>1, <2>2, <2>3, <2>4, <2>5
<1>8. /\ hcc < regs["R0"] \/ hcc = regs["R0"]
      /\ slc + 1 < RowLines(vcc) \/ slc + 1 = RowLines(vcc)
      /\ vcc < regs["R4"] \/ vcc = regs["R4"]
  BY <1>1 DEF InFrame
<1> QED BY <1>4, <1>5, <1>6, <1>7, <1>8
\* What a clock does to vsync.
LEMMA ClockVsync ==
    ASSUME TypeOK, Clock
    PROVE  /\ ~LineEnds => (vsync' <=> vsync) /\ vsc' = vsc
           /\ LineEnds /\ vsync => /\ vsync' <=> vsc < SyncMod - 1
                                   /\ vsync' => vsc' = vsc + 1
           /\ LineEnds /\ ~vsync => /\ vsync' <=> vcc = regs["R7"]
                                    /\ vsync' => vsc' = 0
<1>1. /\ SyncMod \in Nat \ {0, 1} /\ vsc \in 0 .. SyncMod - 1
      /\ regs["R3"] \in Nat /\ regs["R3"] < SyncMod
  BY Numbers DEF Names
<1>2. regs["R3"] \div SyncMod = 0
  BY <1>1
<1>3. ASSUME ~LineEnds PROVE (vsync' <=> vsync) /\ vsc' = vsc
  <2>1. UNCHANGED <<vsc, vsync>>
    BY <1>3, Zenon DEF Clock, Vertical
  <2> QED BY <2>1
<1>4. ASSUME LineEnds, vsync
      PROVE  (vsync' <=> vsc < SyncMod - 1) /\ (vsync' => vsc' = vsc + 1)
  <2>1. vsc' = (vsc + 1) % SyncMod /\ (vsync' <=> vsc' # regs["R3"] \div SyncMod)
    BY <1>4, Zenon DEF Clock, Vertical
  <2>2. vsync' <=> vsc' # 0
    BY <2>1, <1>2
  <2>3. vsc' # 0 <=> vsc < SyncMod - 1
    BY <2>1, <1>1
  <2>4. vsc < SyncMod - 1 => vsc' = vsc + 1
    BY <2>1, <1>1
  <2> QED BY <2>2, <2>3, <2>4
<1>5. ASSUME LineEnds, ~vsync
      PROVE  (vsync' <=> vcc = regs["R7"]) /\ (vsync' => vsc' = 0)
  BY <1>5, Zenon DEF Clock, Vertical
<1> QED BY <1>3, <1>4, <1>5

\* What a clock does to hsync.
LEMMA ClockHsync ==
    ASSUME TypeOK, Clock
    PROVE  /\ HsyncLeft \in Nat \ {0} /\ HsyncLeft <= SyncMod
           /\ hsync => /\ hsync' <=> HsyncLeft # 1
                       /\ hsync' => HsyncLeft' = HsyncLeft - 1
                       /\ hsync' /\ hsc < HsyncWidth
                            => hsc' = hsc + 1 /\ hsc' < HsyncWidth'
           /\ ~hsync => /\ hsync' <=> hcc' = regs["R2"]
                        /\ hsync' => hsc' = 0
           /\ HsyncWidth' = HsyncWidth
<1>1. /\ SyncMod \in Nat \ {0, 1} /\ hsc \in 0 .. SyncMod - 1
      /\ HsyncWidth \in 1 .. SyncMod
      /\ regs["R3"] \in Nat /\ regs["R3"] < SyncMod
  BY Numbers DEF Names
<1>2. regs["R3"] % SyncMod = regs["R3"]
      /\ HsyncWidth = (IF regs["R3"] = 0 THEN SyncMod ELSE regs["R3"])
  BY <1>1 DEF HsyncWidth
<1>3. HsyncLeft \in Nat \ {0} /\ HsyncLeft <= SyncMod
  BY <1>1 DEF HsyncLeft
<1>4. HsyncWidth' = HsyncWidth
  BY DEF Clock, HsyncWidth
<1>5. HsyncLeft' = (IF hsc' < HsyncWidth THEN 0 ELSE SyncMod) + HsyncWidth - hsc'
  BY <1>4 DEF HsyncLeft
<1>6. ASSUME hsync
      PROVE  /\ hsync' <=> HsyncLeft # 1
             /\ hsync' => HsyncLeft' = HsyncLeft - 1
             /\ hsync' /\ hsc < HsyncWidth => hsc' = hsc + 1 /\ hsc' < HsyncWidth'
  <2> DEFINE h == (hsc + 1) % SyncMod
  <2>1. /\ hsync' <=> h # regs["R3"] % SyncMod
        /\ hsync' => hsc' = h
    BY <1>6, Zenon DEF Clock, Horizontal
  <2>2. h = (IF hsc = SyncMod - 1 THEN 0 ELSE hsc + 1)
    BY <1>1
  <2> HIDE DEF h
  <2>3. h # regs["R3"] <=> HsyncLeft # 1
    BY <1>1, <1>2, <2>2 DEF HsyncLeft
  <2>4. hsync' <=> HsyncLeft # 1
    BY <1>2, <2>1, <2>3
  <2>5. HsyncLeft # 1 /\ hsc' = h => HsyncLeft' = HsyncLeft - 1
    BY <1>1, <1>2, <1>5, <2>2 DEF HsyncLeft
  <2>6. HsyncLeft # 1 /\ hsc' = h /\ hsc < HsyncWidth => hsc' = hsc + 1 /\ hsc' < HsyncWidth'
    BY <1>1, <1>2, <1>4, <2>2 DEF HsyncLeft
  <2> QED BY <2>1, <2>4, <2>5, <2>6
<1>7. ASSUME ~hsync
      PROVE  (hsync' <=> hcc' = regs["R2"]) /\ (hsync' => hsc' = 0)
  BY <1>7, Zenon DEF Clock, Horizontal
<1> QED BY <1>3, <1>4, <1>6, <1>7

-----------------------------------------------------------------------------
(* The frames after the last write                                         *)

\* Nothing of the geometry changes with a clock.
LEMMA SameGeometry ==
    ASSUME Clock
    PROVE  /\ regs' = regs /\ SyncLine' = SyncLine /\ FrameLines' = FrameLines
           /\ RowLines(regs["R7"])' = RowLines(regs["R7"])
           /\ HsyncWidth' = HsyncWidth
           /\ Regular' <=> Regular
<1>1. regs' = regs
  BY DEF Clock
<1>2. SyncLine' = SyncLine /\ FrameLines' = FrameLines /\ HsyncWidth' = HsyncWidth
  BY <1>1 DEF SyncLine, FrameLines, HsyncWidth
<1>3. RowLines(regs["R7"])' = RowLines(regs["R7"])
  BY <1>1 DEF RowLines
<1>4. Regular' <=> Regular
  BY <1>1, <1>2, <1>3 DEF Regular
<1> QED BY <1>1, <1>2, <1>3, <1>4

\* The arithmetic of one clock in a frame of a regular geometry.
LEMMA ClockRegular ==
    ASSUME TypeOK, InFrame, Regular, Clock
    PROVE  /\ SyncMod \in Nat \ {0, 1} /\ vsc \in 0 .. SyncMod - 1
           /\ Line \in Nat /\ SyncLine \in Nat /\ FrameLines \in Nat
           /\ RowLines(regs["R7"]) \in 1 .. SyncMod + 1
           /\ RowLines(regs["R7"]) + SyncMod <= FrameLines
           /\ SyncLine + RowLines(regs["R7"]) <= FrameLines /\ Line < FrameLines
           /\ vcc = regs["R7"] <=> /\ SyncLine <= Line
                                   /\ Line < SyncLine + RowLines(regs["R7"])
           /\ ~LineEnds => Line' = Line /\ ~FrameEnds
           /\ LineEnds /\ FrameEnds => Line = FrameLines - 1 /\ Line' = 0
           /\ LineEnds /\ ~FrameEnds => Line' = Line + 1 /\ Line < FrameLines - 1
           /\ FrameEnds => LineEnds
<1>1. /\ SyncMod \in Nat \ {0, 1} /\ vsc \in 0 .. SyncMod - 1
      /\ hcc \in Nat /\ regs["R0"] \in Nat
  BY Numbers DEF Names
<1>2. /\ regs["R7"] <= regs["R4"] /\ RowLines(regs["R7"]) <= SyncMod + 1
      /\ RowLines(regs["R7"]) + SyncMod <= FrameLines
  BY DEF Regular
<1>3. /\ Line \in Nat /\ SyncLine \in Nat /\ FrameLines \in Nat
      /\ RowLines(regs["R7"]) \in Nat \ {0}
      /\ SyncLine + RowLines(regs["R7"]) <= FrameLines /\ Line < FrameLines
      /\ vcc = regs["R7"] <=> /\ SyncLine <= Line
                              /\ Line < SyncLine + RowLines(regs["R7"])
  BY <1>2, RowOfSync
<1>4. hcc < regs["R0"] \/ hcc = regs["R0"]
  BY <1>1 DEF InFrame
<1>5. /\ ~LineEnds => Line' = Line /\ ~FrameEnds
      /\ LineEnds /\ FrameEnds => Line = FrameLines - 1 /\ Line' = 0
      /\ LineEnds /\ ~FrameEnds => Line' = Line + 1 /\ Line < FrameLines - 1
  <2>1. CASE hcc < regs["R0"]
    BY <2>1, <1>1, <1>2, ClockInFrame
  <2>2. CASE hcc = regs["R0"]
    <3>1. LineEnds /\ \/ FrameEnds /\ Line = FrameLines - 1 /\ Line' = 0
                      \/ ~FrameEnds /\ Line' = Line + 1 /\ Line < FrameLines - 1
      BY <2>2, <1>2, ClockInFrame
    <3> QED BY <3>1, <1>3
  <2> QED BY <2>1, <2>2, <1>4
<1>6. FrameEnds => LineEnds
  BY DEF FrameEnds, RowEnds
<1> QED BY <1>1, <1>2, <1>3, <1>5, <1>6

\* A vsync that was left behind, or began late, is over when it is next due.
LEMMA VsyncRecovers ==
    ASSUME TypeOK, InFrame, Regular, Clock, VsyncMayBeLate
    PROVE  /\ VsyncMayBeLate'
           /\ FrameEnds => VsyncInPlace'
<1> DEFINE r == RowLines(regs["R7"])
<1>1. /\ SyncLine' = SyncLine /\ SyncMod' = SyncMod /\ r' = r
      /\ VsyncUntil' = Line' + SyncMod - vsc'
  BY SameGeometry DEF VsyncUntil
<1>2. VsyncMayBeLate' <=>
        (vsync' => \/ VsyncUntil' <= SyncMod
                   \/ Line' > SyncLine /\ VsyncUntil' <= SyncLine + r + SyncMod)
  BY <1>1 DEF VsyncMayBeLate
<1>3. VsyncInPlace' <=>
        /\ Line' <= SyncLine /\ vsync' => VsyncUntil' <= SyncLine
        /\ Line' > SyncLine => /\ vsync' <=> Line' <= SyncLine + SyncMod
                               /\ vsync' => vsc' = Line' - SyncLine - 1
  BY <1>1 DEF VsyncInPlace
<1> HIDE DEF r
<1>4. CASE ~LineEnds
  BY <1>4, <1>1, <1>2, ClockRegular, ClockVsync DEF VsyncMayBeLate, VsyncUntil, r
<1>5. CASE LineEnds /\ vsync
  <2>1. CASE ~FrameEnds
    BY <1>5, <2>1, <1>1, <1>2, ClockRegular, ClockVsync DEF VsyncMayBeLate, VsyncUntil, r
  <2>2. CASE FrameEnds
    BY <1>5, <2>2, <1>1, <1>3, ClockRegular, ClockVsync DEF VsyncMayBeLate, VsyncUntil, r
  <2> QED BY <2>1, <2>2
<1>6. CASE LineEnds /\ ~vsync
  <2>1. CASE ~FrameEnds
    BY <1>6, <2>1, <1>1, <1>2, ClockRegular, ClockVsync DEF r
  <2>2. CASE FrameEnds
    BY <1>6, <2>2, <1>1, <1>2, <1>3, ClockRegular, ClockVsync DEF r
  <2> QED BY <2>1, <2>2
<1> QED BY <1>4, <1>5, <1>6

\* From then on it begins at the end of SyncLine and at no other time.
LEMMA VsyncKeepsPlace ==
    ASSUME TypeOK, InFrame, Regular, Clock, VsyncInPlace
    PROVE  /\ VsyncInPlace'
           /\ VsyncRises <=> LineEnds /\ Line = SyncLine
<1>1. SyncLine' = SyncLine /\ VsyncUntil' = Line' + SyncMod - vsc'
  BY SameGeometry DEF VsyncUntil
<1>2. VsyncInPlace' <=>
        /\ Line' <= SyncLine /\ vsync' => VsyncUntil' <= SyncLine
        /\ Line' > SyncLine => /\ vsync' <=> Line' <= SyncLine + SyncMod
                               /\ vsync' => vsc' = Line' - SyncLine - 1
  BY <1>1 DEF VsyncInPlace
<1>3. CASE ~LineEnds
  BY <1>3, <1>1, <1>2, ClockRegular, ClockVsync DEF VsyncInPlace, VsyncUntil, VsyncRises
<1>4. CASE LineEnds /\ vsync
  BY <1>4, <1>1, <1>2, ClockRegular, ClockVsync DEF VsyncInPlace, VsyncUntil, VsyncRises
<1>5. CASE LineEnds /\ ~vsync
  BY <1>5, <1>1, <1>2, ClockRegular, ClockVsync DEF VsyncInPlace, VsyncUntil, VsyncRises
<1> QED BY <1>3, <1>4, <1>5
\* One clock along the line, for hsync.
LEMMA ClockAlong ==
    ASSUME TypeOK, InFrame, Regular, Clock
    PROVE  /\ hcc \in Nat /\ regs["R0"] \in Nat /\ regs["R2"] \in Nat
           /\ hcc <= regs["R0"] /\ regs["R2"] <= regs["R0"]
           /\ HsyncWidth \in 1 .. regs["R0"] /\ hsc \in Nat
           /\ LineEnds <=> hcc = regs["R0"]
           /\ hcc' = IF hcc = regs["R0"] THEN 0 ELSE hcc + 1
           /\ SinceR2 \in 0 .. regs["R0"]
           /\ SinceR2' = IF hcc' = regs["R2"] THEN 0 ELSE SinceR2 + 1
           /\ SinceR2 = regs["R0"] <=> hcc' = regs["R2"]
<1>1. /\ hcc \in Nat /\ regs["R0"] \in Nat /\ regs["R2"] \in Nat /\ hsc \in Nat
      /\ HsyncWidth \in Nat \ {0}
  BY Numbers DEF Names
<1>2. hcc <= regs["R0"] /\ regs["R2"] <= regs["R0"] /\ HsyncWidth <= regs["R0"]
  BY DEF InFrame, Regular
<1>3. LineEnds <=> hcc = regs["R0"]
  BY Ends
<1>4. hcc' = IF hcc = regs["R0"] THEN 0 ELSE hcc + 1
  <2>1. hcc' = IF LineEnds THEN 0 ELSE Inc(hcc)
    BY DEF Clock, Horizontal
  <2> QED BY <1>1, <1>2, <1>3, <2>1, Ends
<1>5. SinceR2' = IF hcc' >= regs["R2"] THEN hcc' - regs["R2"]
                                       ELSE hcc' + regs["R0"] + 1 - regs["R2"]
  BY SameGeometry DEF SinceR2
<1>6. SinceR2 \in 0 .. regs["R0"] /\ (SinceR2 = regs["R0"] <=> hcc' = regs["R2"])
  BY <1>1, <1>2, <1>4 DEF SinceR2
<1>7. SinceR2' = IF hcc' = regs["R2"] THEN 0 ELSE SinceR2 + 1
  BY <1>1, <1>2, <1>4, <1>5 DEF SinceR2
<1> QED BY <1>1, <1>2, <1>3, <1>4, <1>6, <1>7

\* An hsync in its place stays there, and begins on R2 and at no other time.
LEMMA HsyncKeepsPlace ==
    ASSUME TypeOK, InFrame, Regular, Clock, HsyncInPlace
    PROVE  /\ HsyncInPlace'
           /\ HsyncRises <=> hcc' = regs["R2"]
<1>1. HsyncInPlace' <=> (hsync' => hsc' = SinceR2' /\ hsc' < HsyncWidth')
  BY DEF HsyncInPlace
<1>2. CASE hsync
  <2>1. hcc' # regs["R2"]
    BY <1>2, ClockAlong DEF HsyncInPlace
  <2>2. ~HsyncRises
    BY <1>2 DEF HsyncRises
  <2>3. hsync' => hsc' = hsc + 1 /\ hsc' < HsyncWidth'
    BY <1>2, ClockHsync DEF HsyncInPlace
  <2> QED BY <1>1, <1>2, <2>1, <2>2, <2>3, ClockAlong DEF HsyncInPlace
<1>3. CASE ~hsync
  <2>1. hsync' <=> hcc' = regs["R2"]
    BY <1>3, ClockHsync
  <2>2. HsyncRises <=> hcc' = regs["R2"]
    BY <1>3, <2>1 DEF HsyncRises
  <2>3. hsync' => hsc' = 0 /\ SinceR2' = 0
    BY <1>3, <2>1, ClockHsync, ClockAlong
  <2>4. HsyncWidth' = HsyncWidth /\ HsyncWidth \in Nat \ {0}
    BY SameGeometry, ClockAlong
  <2> QED BY <1>1, <2>2, <2>3, <2>4
<1> QED BY <1>2, <1>3

\* An hsync that was left behind is over within the frame.
LEMMA HsyncRecovers ==
    ASSUME TypeOK, InFrame, Regular, Clock, HsyncMayBeLeft
    PROVE  /\ HsyncMayBeLeft'
           /\ FrameEnds => HsyncInPlace'
<1>1. HsyncMayBeLeft' <=>
        (hsync' => HsyncInPlace' \/ HsyncLeft' + Line' <= SyncMod)
  BY DEF HsyncMayBeLeft
<1>2. CASE HsyncInPlace
  BY <1>1, <1>2, HsyncKeepsPlace
<1>3. CASE ~hsync
  <2>1. HsyncInPlace
    BY <1>3 DEF HsyncInPlace
  <2> QED BY <1>1, <2>1, HsyncKeepsPlace
<1>4. CASE hsync /\ HsyncLeft + Line <= SyncMod
  <2>1. HsyncLeft \in Nat \ {0} /\ (hsync' => HsyncLeft' = HsyncLeft - 1)
    BY <1>4, ClockHsync
  <2>2. /\ Line \in Nat /\ SyncMod \in Nat /\ FrameLines > SyncMod /\ FrameLines \in Nat
        /\ Line' \in {Line, Line + 1, 0}
        /\ FrameEnds => Line = FrameLines - 1
    BY ClockRegular
  <2>3. ~FrameEnds
    BY <1>4, <2>1, <2>2
  <2>4. ASSUME hsync' PROVE HsyncLeft' + Line' <= SyncMod
    <3>1. HsyncLeft' = HsyncLeft - 1
      BY <2>1, <2>4
    <3>2. CASE Line' = Line + 1
      BY <1>4, <2>1, <2>2, <3>1, <3>2
    <3>3. CASE Line' = Line
      BY <1>4, <2>1, <2>2, <3>1, <3>3
    <3>4. CASE Line' = 0
      BY <1>4, <2>1, <2>2, <3>1, <3>4
    <3> QED BY <2>2, <3>2, <3>3, <3>4
  <2> QED BY <1>1, <2>3, <2>4
<1> QED BY <1>2, <1>3, <1>4 DEF HsyncMayBeLeft

\* Every line that begins has its pulse once, and brings the count one on.
LEMMA PulseOncePerLine ==
    ASSUME TypeOK, InFrame, Regular, Clock, HsyncInPlace, VsyncInPlace,
           FrameLines <= MaxLines, lines = Begun + Pulse, ~VsyncRises
    PROVE  lines' = Begun' + Pulse'
<1>1. /\ Line \in Nat /\ SyncLine \in Nat /\ FrameLines \in Nat /\ MaxLines \in Nat
      /\ SyncLine < FrameLines /\ Line < FrameLines
  BY ClockRegular, Numbers
<1>2. /\ hcc \in Nat /\ regs["R0"] \in Nat /\ regs["R2"] \in Nat
      /\ hcc <= regs["R0"] /\ regs["R2"] <= regs["R0"]
      /\ LineEnds <=> hcc = regs["R0"]
      /\ hcc' = IF hcc = regs["R0"] THEN 0 ELSE hcc + 1
  BY ClockAlong
<1>3. /\ Begun' = (IF Line' > SyncLine THEN 0 ELSE FrameLines) + Line' - SyncLine - 1
      /\ Pulse' = IF regs["R2"] > 0 /\ hcc' >= regs["R2"] THEN 1 ELSE 0
  BY SameGeometry DEF Begun, Pulse
<1>4. /\ Begun \in 0 .. FrameLines - 1 /\ Pulse \in {0, 1}
      /\ hcc' = regs["R2"] => Pulse = 0 \/ regs["R2"] = 0
      /\ regs["R2"] = 0 => Pulse = 0
  BY <1>1, <1>2 DEF Begun, Pulse
<1>5. lines' = IF hcc' = regs["R2"] THEN lines + 1 ELSE lines
  <2>1. lines' = IF HsyncRises /\ lines < MaxLines THEN lines + 1 ELSE lines
    BY DEF Clock, History
  <2>2. HsyncRises <=> hcc' = regs["R2"]
    BY HsyncKeepsPlace
  <2>3. hcc' = regs["R2"] => lines < MaxLines
    BY <1>1, <1>4
  <2> QED BY <2>1, <2>2, <2>3
<1>6. CASE ~LineEnds
  <2>1. Begun' = Begun
    BY <1>3, <1>6, ClockRegular DEF Begun
  <2>2. Pulse' = IF hcc' = regs["R2"] THEN Pulse + 1 ELSE Pulse
    BY <1>2, <1>3, <1>6 DEF Pulse
  <2> QED BY <1>1, <1>4, <1>5, <2>1, <2>2
<1>7. CASE LineEnds
  <2>1. Line # SyncLine
    BY <1>7, VsyncKeepsPlace
  <2>2. Begun' = Begun + 1
    BY <1>1, <1>3, <1>7, <2>1, ClockRegular DEF Begun
  <2>3. Pulse' = IF hcc' = regs["R2"] THEN Pulse ELSE Pulse - 1
    BY <1>2, <1>3, <1>7 DEF Pulse
  <2> QED BY <1>1, <1>4, <1>5, <2>2, <2>3
<1> QED BY <1>6, <1>7

\* When vsync begins the count begins.
LEMMA CountBegins ==
    ASSUME TypeOK, InFrame, Regular, Clock, VsyncInPlace, VsyncRises
    PROVE  LinesCounted'
<1>1. LineEnds /\ Line = SyncLine
  BY VsyncKeepsPlace
<1>2. hcc' = 0
  BY <1>1, ClockAlong
<1>3. lines' = 0
  BY DEF Clock, History
<1>4. Pulse' = 0
  BY <1>2, ClockAlong, SameGeometry DEF Pulse
<1>5. Begun' = (IF Line' > SyncLine THEN 0 ELSE FrameLines) + Line' - SyncLine - 1
  BY SameGeometry DEF Begun
<1>6. Begun' = 0
  <2>1. CASE FrameEnds
    BY <1>1, <1>5, <2>1, ClockRegular
  <2>2. CASE ~FrameEnds
    BY <1>1, <1>5, <2>2, ClockRegular
  <2> QED BY <2>1, <2>2
<1> QED BY <1>3, <1>4, <1>6 DEF LinesCounted
\* What the frames have brought about is a matter of the state alone.
LEMMA SettledOfState ==
    ASSUME UNCHANGED <<regs, counters, hsync, vsync, lines, settled>>
    PROVE  Settled' <=> Settled
<1>1. UNCHANGED <<regs, hcc, slc, vcc, hsc, vsc, hsync, vsync, lines, settled>>
  BY DEF counters
<1>2. /\ Line' = Line /\ SyncLine' = SyncLine /\ FrameLines' = FrameLines
      /\ RowLines(regs["R7"])' = RowLines(regs["R7"])
      /\ RowLines(vcc)' = RowLines(vcc)
      /\ HsyncWidth' = HsyncWidth /\ SinceR2' = SinceR2 /\ Pulse' = Pulse
  BY <1>1 DEF Line, SyncLine, FrameLines, RowLines, HsyncWidth, SinceR2, Pulse
<1>3. VsyncUntil' = VsyncUntil /\ HsyncLeft' = HsyncLeft /\ Begun' = Begun
  BY <1>1, <1>2 DEF VsyncUntil, HsyncLeft, Begun
<1>4. Regular' <=> Regular
  BY <1>1, <1>2 DEF Regular
<1>5. InFrame' <=> InFrame
  BY <1>1, <1>2 DEF InFrame
<1>6. VsyncMayBeLate' <=> VsyncMayBeLate
  BY <1>1, <1>2, <1>3 DEF VsyncMayBeLate
<1>7. VsyncInPlace' <=> VsyncInPlace
  BY <1>1, <1>2, <1>3 DEF VsyncInPlace
<1>8. HsyncInPlace' <=> HsyncInPlace
  BY <1>1, <1>2, <1>3 DEF HsyncInPlace
<1>9. HsyncMayBeLeft' <=> HsyncMayBeLeft
  BY <1>1, <1>2, <1>3, <1>8 DEF HsyncMayBeLeft
<1>10. LinesCounted' <=> LinesCounted
  BY <1>1, <1>2, <1>3 DEF LinesCounted
<1> QED BY <1>1, <1>2, <1>4, <1>5, <1>6, <1>7, <1>8, <1>9, <1>10 DEF Settled

\* One step keeps what the frames have brought about, and a vsync that begins
\* in a settled frame finds the count complete.
LEMMA SettledStep ==
    ASSUME TypeOK, TypeOK', Settled, [Next]_vars
    PROVE  /\ Settled'
           /\ VsyncRises /\ settled = 3 /\ Regular /\ FrameLines <= MaxLines
                => lines + (IF HsyncRises THEN 1 ELSE 0) = FrameLines
<1>1. CASE Clock
  <2>0. Settled' <=>
          (Regular =>
             /\ settled' >= 1 => InFrame'
             /\ settled' = 1 => VsyncMayBeLate' /\ HsyncMayBeLeft'
             /\ settled' >= 2 => VsyncInPlace' /\ HsyncInPlace'
             /\ settled' = 3 \/ (settled' = 2 /\ Line' > SyncLine') => LinesCounted')
    <3>1. Regular' <=> Regular
      BY <1>1, SameGeometry
    <3> QED BY <3>1 DEF Settled
  <2> SUFFICES ASSUME Regular
      PROVE  /\ settled' >= 1 => InFrame'
             /\ settled' = 1 => VsyncMayBeLate' /\ HsyncMayBeLeft'
             /\ settled' >= 2 => VsyncInPlace' /\ HsyncInPlace'
             /\ settled' = 3 \/ (settled' = 2 /\ Line' > SyncLine') => LinesCounted'
             /\ VsyncRises /\ settled = 3 /\ FrameLines <= MaxLines
                  => lines + (IF HsyncRises THEN 1 ELSE 0) = FrameLines
    BY <2>0
  <2>1. /\ settled \in 0 .. 3 /\ settled' = IF FrameEnds /\ settled < Settling
                                            THEN settled + 1 ELSE settled
        /\ Settling \in 0 .. 3
    BY <1>1, Numbers DEF Clock, History
  <2>2. ASSUME settled = 0
        PROVE  /\ settled' >= 1 => InFrame'
               /\ settled' = 1 => VsyncMayBeLate' /\ HsyncMayBeLeft'
               /\ settled' < 2
    <3>1. ASSUME FrameEnds PROVE InFrame' /\ VsyncMayBeLate' /\ HsyncMayBeLeft'
      <4>1. hcc' = 0 /\ slc' = 0 /\ vcc' = 0
        BY <1>1, <3>1 DEF Clock, Horizontal, Vertical, FrameEnds, RowEnds
      <4>2. Line' = 0
        <5>1. regs["R9"]' \in Nat
          BY Numbers, SameGeometry, <1>1 DEF Names
        <5> QED BY <4>1, <5>1 DEF Line
      <4>3. /\ regs'["R0"] \in Nat /\ regs'["R4"] \in Nat /\ regs'["R9"] \in Nat
            /\ regs'["R5"] \in Nat
            /\ SyncMod \in Nat \ {0}
            /\ hsc' \in 0 .. SyncMod - 1 /\ vsc' \in 0 .. SyncMod - 1
            /\ HsyncWidth' \in 1 .. SyncMod
        <5>1. /\ regs["R0"] \in Nat /\ regs["R4"] \in Nat /\ regs["R9"] \in Nat
              /\ regs["R5"] \in Nat /\ SyncMod \in Nat \ {0}
              /\ HsyncWidth \in 1 .. SyncMod
          BY Numbers DEF Names
        <5>2. hsc' \in 0 .. SyncMod - 1 /\ vsc' \in 0 .. SyncMod - 1
          BY DEF TypeOK
        <5> QED BY <1>1, <5>1, <5>2, SameGeometry
      <4>4. InFrame'
        BY <4>1, <4>3 DEF InFrame, RowLines
      <4>5. VsyncMayBeLate'
        <5>1. 0 + SyncMod - vsc' <= SyncMod
          BY <4>3, LeftOver
        <5>2. VsyncUntil' = 0 + SyncMod - vsc'
          BY <4>2 DEF VsyncUntil
        <5> QED BY <5>1, <5>2 DEF VsyncMayBeLate
      <4>6. HsyncLeft' \in 1 .. SyncMod
        BY <4>3, LeftOver DEF HsyncLeft
      <4>7. HsyncLeft' + Line' <= SyncMod
        <5>1. \A n \in 1 .. SyncMod : n + 0 <= SyncMod
          BY <4>3
        <5> QED BY <4>2, <4>6, <5>1
      <4> QED BY <4>4, <4>5, <4>7 DEF HsyncMayBeLeft
    <3> QED BY <2>1, <2>2, <3>1
  <2>3. ASSUME settled >= 1 PROVE InFrame /\ InFrame'
    <3>1. InFrame
      BY <2>3 DEF Settled
    <3> QED BY <1>1, <3>1, ClockInFrame DEF Regular
  <2>4. ASSUME settled = 1
        PROVE  /\ settled' = 1 => VsyncMayBeLate' /\ HsyncMayBeLeft'
               /\ settled' >= 2 => VsyncInPlace' /\ HsyncInPlace' /\ FrameEnds
               /\ settled' < 3
    <3>1. VsyncMayBeLate /\ HsyncMayBeLeft
      BY <2>4 DEF Settled
    <3>2. /\ VsyncMayBeLate' /\ HsyncMayBeLeft'
          /\ FrameEnds => VsyncInPlace' /\ HsyncInPlace'
      BY <1>1, <2>3, <2>4, <3>1, VsyncRecovers, HsyncRecovers
    <3>3. CASE FrameEnds
      BY <2>1, <2>4, <3>2, <3>3
    <3>4. CASE ~FrameEnds
      BY <2>1, <2>4, <3>2, <3>4
    <3> QED BY <3>3, <3>4
  <2>5. ASSUME settled >= 2
        PROVE  VsyncInPlace /\ HsyncInPlace /\ VsyncInPlace' /\ HsyncInPlace'
    <3>1. VsyncInPlace /\ HsyncInPlace
      BY <2>5 DEF Settled
    <3> QED BY <1>1, <2>1, <2>3, <2>5, <3>1, VsyncKeepsPlace, HsyncKeepsPlace
  <2>6. settled' = 3 \/ (settled' = 2 /\ Line' > SyncLine') => LinesCounted'
    <3> SUFFICES ASSUME settled' = 3 \/ (settled' = 2 /\ Line' > SyncLine')
                 PROVE  LinesCounted'
      OBVIOUS
    <3>1. settled = 2 \/ settled = 3
      <4>1. ASSUME settled = 1 PROVE FALSE
        <5>1. settled' = 2 /\ FrameEnds
          BY <2>1, <2>4, <4>1
        <5>2. Line' = 0 /\ SyncLine' = SyncLine /\ SyncLine \in Nat
          BY <1>1, <2>3, <4>1, <5>1, ClockRegular, SameGeometry
        <5> QED BY <5>1, <5>2
      <4> QED BY <2>1, <2>2, <4>1
    <3>2. InFrame /\ VsyncInPlace /\ HsyncInPlace
      BY <2>1, <2>3, <2>5, <3>1
    <3>3. CASE VsyncRises
      BY <1>1, <3>2, <3>3, CountBegins
    <3>4. CASE ~VsyncRises
      <4>1. settled = 3 \/ (settled = 2 /\ Line > SyncLine)
        <5>1. SUFFICES ASSUME settled = 2 PROVE Line > SyncLine
          BY <3>1
        <5>2. ~(LineEnds /\ Line = SyncLine)
          BY <1>1, <3>2, <3>4, VsyncKeepsPlace
        <5>3. /\ Line \in Nat /\ SyncLine \in Nat /\ SyncLine < FrameLines
              /\ FrameLines \in Nat /\ SyncLine' = SyncLine
          BY <1>1, <3>2, ClockRegular, SameGeometry
        <5>4. CASE FrameEnds
          BY <1>1, <3>2, <5>2, <5>3, <5>4, ClockRegular
        <5>5. CASE ~FrameEnds
          <6>1. Line' > SyncLine
            BY <2>1, <5>1, <5>3, <5>5
          <6>2. CASE LineEnds
            BY <1>1, <3>2, <5>2, <5>3, <5>5, <6>1, <6>2, ClockRegular
          <6>3. CASE ~LineEnds
            BY <1>1, <3>2, <6>1, <6>3, ClockRegular
          <6> QED BY <6>2, <6>3
        <5> QED BY <5>4, <5>5
      <4>2. LinesCounted
        BY <4>1 DEF Settled
      <4>3. FrameLines' = FrameLines /\ MaxLines \in Nat
        BY <1>1, SameGeometry, Numbers
      <4>4. FrameLines <= MaxLines => lines' = Begun' + Pulse'
        BY <1>1, <3>2, <3>4, <4>2, PulseOncePerLine DEF LinesCounted
      <4> QED BY <4>3, <4>4 DEF LinesCounted
    <3> QED BY <3>3, <3>4
  <2>7. ASSUME VsyncRises, settled = 3, FrameLines <= MaxLines
        PROVE  lines + (IF HsyncRises THEN 1 ELSE 0) = FrameLines
    <3>1. InFrame /\ VsyncInPlace /\ HsyncInPlace
      BY <2>3, <2>5, <2>7
    <3>2. LineEnds /\ Line = SyncLine
      BY <1>1, <2>7, <3>1, VsyncKeepsPlace
    <3>3. lines = Begun + Pulse
      BY <2>7 DEF Settled, LinesCounted
    <3>4. FrameLines \in Nat /\ Line \in Nat /\ SyncLine \in Nat
      BY <1>1, <3>1, ClockRegular
    <3>5. Begun = FrameLines - 1
      BY <3>2, <3>4 DEF Begun
    <3>6. HsyncRises <=> regs["R2"] = 0
      BY <1>1, <3>1, <3>2, HsyncKeepsPlace, ClockAlong
    <3>7. Pulse = IF regs["R2"] = 0 THEN 0 ELSE 1
      BY <1>1, <3>1, <3>2, ClockAlong DEF Pulse
    <3> QED BY <3>3, <3>4, <3>5, <3>6, <3>7
  <2>8. /\ settled' >= 1 => InFrame'
        /\ settled' = 1 => VsyncMayBeLate' /\ HsyncMayBeLeft'
        /\ settled' >= 2 => VsyncInPlace' /\ HsyncInPlace'
    <3>1. CASE settled = 0
      BY <2>1, <2>2, <3>1
    <3>2. CASE settled = 1
      BY <2>1, <2>3, <2>4, <3>2
    <3>3. CASE settled >= 2
      BY <2>1, <2>3, <2>5, <3>3
    <3> QED BY <2>1, <3>1, <3>2, <3>3
  <2> QED BY <2>6, <2>7, <2>8
<1>2. ASSUME UNCHANGED <<regs, counters, hsync, vsync, lines, settled>>
      PROVE  /\ Settled' <=> Settled
             /\ ~VsyncRises
  BY <1>2, SettledOfState DEF VsyncRises
<1>3. ASSUME settled' = 0, UNCHANGED vsync \/ vsync' = FALSE
      PROVE  Settled' /\ ~VsyncRises
  <2>1. ~VsyncRises
    BY <1>3, Zenon DEF VsyncRises
  <2>2. Settled'
    BY <1>3 DEF Settled
  <2> QED BY <2>1, <2>2
<1>4. CASE SetIndex
  BY <1>2, <1>4 DEF SetIndex
<1>5. CASE SetValue
  BY <1>3, <1>5 DEF SetValue
<1>6. CASE Reset
  BY <1>3, <1>6, Zenon DEF Reset
<1>7. CASE UNCHANGED vars
  BY <1>2, <1>7 DEF vars, vdcVars
<1> QED BY <1>1, <1>4, <1>5, <1>6, <1>7 DEF Next

\* Once a program leaves a regular geometry alone, from the third frame on
\* every frame has the lines the registers say: for every width of the
\* counters and every geometry that Regular admits, whatever was written.
THEOREM VdcFramesExact == Spec => FrameExact
<1>1. Init => Settled
  <2>1. Init => settled = 0
    BY DEF Init
  <2>2. settled = 0 => Settled
    BY DEF Settled
  <2> QED BY <2>1, <2>2
<1>2. TypeOK /\ TypeOK' /\ Settled /\ [Next]_vars => Settled'
  BY SettledStep
<1>3. TypeOK /\ TypeOK' /\ Settled /\ [Next]_vars =>
        [VsyncRises /\ settled = 3 /\ Regular /\ FrameLines <= MaxLines
           => lines + (IF HsyncRises THEN 1 ELSE 0) = FrameLines]_vars
  BY SettledStep
<1> QED BY <1>1, <1>2, <1>3, VdcTypes, PTL DEF Spec, FrameExact
=============================================================================
