----------------------------- MODULE VgaProofs -----------------------------
(***************************************************************************)
(* Proofs about the gate array, for every period, threshold, palette and   *)
(* number of lines, and for every sequence of sync edges, writes and       *)
(* acknowledges.                                                           *)
(***************************************************************************)
EXTENDS Vga, TLAPS

USE PeriodAssumption, LinesAssumption, PatienceAssumption

\* An acknowledge never moves the counter forward, nor out of its range.
LEMMA AckLowers ==
    ASSUME NEW r \in 0 .. Period - 1
    PROVE  r % Threshold \in 0 .. r
<1>1. CASE r < Threshold
  <2>1. r % Threshold = r
    BY <1>1
  <2> QED
    BY <2>1
<1>2. CASE r >= Threshold
  <2>1. r % Threshold \in 0 .. Threshold - 1
    OBVIOUS
  <2> QED
    BY <1>2, <2>1
<1> QED
  BY <1>1, <1>2

\* A line counted moves the counter by one at most, and never to Period.
LEMMA CountedRange ==
    ASSUME r52 \in 0 .. Period - 1
    PROVE  Counted \in 0 .. Period - 1 /\ Counted <= r52 + 1
BY DEF Counted

-----------------------------------------------------------------------------
(* Type correctness                                                        *)

\* The four call-backs of the two sync levels keep the types, whatever edges
\* they report: the line recorded is an entry of the table, also when a frame
\* has more lines than the table.
LEMMA SyncKeepsType ==
    ASSUME TypeOK, hsync' \in BOOLEAN, vsync' \in BOOLEAN, Sync
    PROVE  TypeOK'
<1> USE DEF TypeOK
<1>1. Counted \in 0 .. Period - 1
  BY CountedRange
<1>2. r52' \in 0 .. Period - 1
  BY <1>1 DEF Sync, Counters
<1>3. r02' \in 0 .. 2 /\ sinceRaise' \in 0 .. Patience
  BY DEF Sync, Counters
<1>4. frame_y' \in 0 .. Lines - 1
  BY DEF Sync, Frame, LineBelow
<1>5. scanline' \in [0 .. Lines - 1 -> Palette \cup {Blank}]
  <2>1. Recorded \in Palette
    BY DEF Recorded, Palette
  <2> QED
    BY <2>1 DEF Sync, Frame
<1>6. pen' \in AnyPen /\ ink' \in [AnyPen -> Colours] /\ mode' \in Modes
  BY DEF Sync, paletteVars
<1> QED
  BY <1>2, <1>3, <1>4, <1>5, <1>6, hsync' \in BOOLEAN

\* Every value the gate array holds stays in its range.
THEOREM TypeCorrect == Spec => []TypeOK
<1>1. Init => TypeOK
  <2> SUFFICES ASSUME Init
               PROVE  TypeOK
    OBVIOUS
  <2>1. pen \in AnyPen /\ mode \in Modes
    BY ResetAssumption DEF Init, AnyPen
  <2>2. ink \in [AnyPen -> Colours]
    BY ResetAssumption DEF Init
  <2>3. scanline \in [0 .. Lines - 1 -> Palette \cup {Blank}]
    BY DEF Init
  <2>4. r52 \in 0 .. Period - 1 /\ r02 \in 0 .. 2 /\ frame_y \in 0 .. Lines - 1
    BY DEF Init
  <2>5. sinceRaise \in 0 .. Patience
    BY DEF Init
  <2>6. hsync \in BOOLEAN /\ vsync \in BOOLEAN
    BY Zenon DEF Init
  <2> QED
    BY <2>1, <2>2, <2>3, <2>4, <2>5, <2>6 DEF TypeOK
<1>2. TypeOK /\ [Next]_vars => TypeOK'
  <2> SUFFICES ASSUME TypeOK, [Next]_vars
               PROVE  TypeOK'
    OBVIOUS
  <2>1. CASE SyncChanges
    BY <2>1, SyncKeepsType DEF SyncChanges
  <2>2. CASE SelectPen
    BY <2>2 DEF SelectPen, TypeOK, counterVars, frameVars
  <2>3. CASE SetInk
    BY <2>3 DEF SetInk, TypeOK, counterVars, frameVars
  <2>4. ASSUME NEW restart \in BOOLEAN, SetRmr(restart)
        PROVE  TypeOK'
    <3>1. r52' \in 0 .. Period - 1
      BY <2>4 DEF SetRmr, TypeOK
    <3>2. mode' \in Modes
      BY <2>4 DEF SetRmr
    <3> QED
      BY <2>4, <3>1, <3>2 DEF SetRmr, TypeOK, frameVars
  <2>5. CASE CpuAcks
    <3>1. r52' \in 0 .. Period - 1
      BY <2>5, AckLowers DEF CpuAcks, AckInterrupt, TypeOK
    <3> QED
      BY <2>5, <3>1 DEF CpuAcks, AckInterrupt, TypeOK, paletteVars, frameVars
  <2>6. CASE Reset
    <3>1. pen' \in AnyPen /\ mode' \in Modes
      BY <2>6, ResetAssumption DEF Reset, AnyPen
    <3>2. ink' \in [AnyPen -> Colours]
      BY <2>6, ResetAssumption DEF Reset
    <3>3. scanline' \in [0 .. Lines - 1 -> Palette \cup {Blank}]
      BY <2>6 DEF Reset
    <3>4. r52' \in 0 .. Period - 1 /\ r02' \in 0 .. 2
      BY <2>6 DEF Reset
    <3>5. frame_y' \in 0 .. Lines - 1
      BY <2>6 DEF Reset
    <3>6. hsync' \in BOOLEAN /\ vsync' \in BOOLEAN
      BY <2>6, Zenon DEF Reset
    <3>7. sinceRaise' \in 0 .. Patience
      BY <2>6 DEF Reset, TypeOK
    <3> QED
      BY <3>1, <3>2, <3>3, <3>4, <3>5, <3>6, <3>7 DEF TypeOK
  <2>7. CASE UNCHANGED vars
    BY <2>7 DEF TypeOK, vars, vgaVars, paletteVars, counterVars, frameVars
  <2> QED
    BY <2>1, <2>2, <2>3, <2>4, <2>5, <2>6, <2>7 DEF Next
<1> QED
  BY <1>1, <1>2, PTL DEF Spec

-----------------------------------------------------------------------------
(* Two requests are Threshold lines apart                                  *)

\* The counter never runs ahead of the lines since the last request: a request
\* leaves it at 0, a line moves both by one (the history stops at Patience,
\* beyond the range of the counter), everything else can only lower it.
LEMMA StepNotAhead ==
    ASSUME TypeOK, CounterNotAhead, [Next]_vars
    PROVE  CounterNotAhead'
<1> USE DEF TypeOK, CounterNotAhead
<1>1. CASE SyncChanges
  <2>1. Counted \in 0 .. Period - 1 /\ Counted <= r52 + 1
    BY CountedRange
  <2>2. CASE Raise
    <3>1. r52' = 0
      BY <1>1, <2>2 DEF SyncChanges, Sync, Counters, Raise, Counted, Restarts
    <3> QED
      BY <1>1, <2>2, <3>1 DEF SyncChanges, Sync, Counters
  <2>3. CASE ~Raise /\ HsyncFalls
    BY <1>1, <2>1, <2>3 DEF SyncChanges, Sync, Counters
  <2>4. CASE ~HsyncFalls
    BY <1>1, <2>4 DEF SyncChanges, Sync, Counters, Restarts, Raise
  <2> QED
    BY <2>2, <2>3, <2>4
<1>2. CASE SelectPen \/ SetInk
  BY <1>2 DEF SelectPen, SetInk, counterVars
<1>3. ASSUME NEW restart \in BOOLEAN, SetRmr(restart)
      PROVE  CounterNotAhead'
  BY <1>3 DEF SetRmr
<1>4. CASE CpuAcks
  BY <1>4, AckLowers DEF CpuAcks, AckInterrupt
<1>5. CASE Reset
  BY <1>5 DEF Reset
<1>6. CASE UNCHANGED vars
  BY <1>6 DEF vars, vgaVars, counterVars
<1> QED
  BY <1>1, <1>2, <1>3, <1>4, <1>5, <1>6 DEF Next

\* At no moment has the counter counted more lines than were displayed since
\* the last request.
THEOREM NotAhead == Spec => []CounterNotAhead
<1>1. Init => CounterNotAhead
  BY DEF Init, CounterNotAhead
<1>2. TypeOK /\ CounterNotAhead /\ [Next]_vars => CounterNotAhead'
  BY StepNotAhead
<1> QED
  BY <1>1, <1>2, TypeCorrect, PTL DEF Spec

\* A request is raised at Period lines, or at the restart when at least
\* Threshold lines were counted; those lines were all displayed since the last
\* request, so no two requests are closer than Threshold.
THEOREM Apart == Spec => RequestsApart
<1>1. TypeOK /\ CounterNotAhead /\ [Next]_vars
        => [Raise => sinceRaise + 1 >= Threshold]_vars
  <2> SUFFICES ASSUME TypeOK, CounterNotAhead, Raise
               PROVE  sinceRaise + 1 >= Threshold
    OBVIOUS
  <2>1. r52 + 1 = Period \/ Counted >= Threshold
    BY DEF Raise
  <2>2. Counted \in Nat /\ Counted <= r52 + 1
    BY CountedRange DEF TypeOK
  <2>3. r52 + 1 >= Threshold
    BY <2>1, <2>2 DEF TypeOK
  <2> QED
    BY <2>3 DEF TypeOK, CounterNotAhead
<1> QED
  BY <1>1, TypeCorrect, NotAhead, PTL DEF Spec, RequestsApart
=============================================================================
