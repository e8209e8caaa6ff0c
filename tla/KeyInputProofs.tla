--------------------------- MODULE KeyInputProofs ---------------------------
(***************************************************************************)
(* The way of a key, for every keyboard, every ring and every typing: its  *)
(* types, that a tap is seen, and that no position stays pressed but by    *)
(* one of the five mishaps.                                                *)
(***************************************************************************)
EXTENDS KeyInput, FiniteSetTheorems, SequenceTheorems, WellFoundedInduction, TLAPS

-----------------------------------------------------------------------------
(* The run of events that a frame takes from the ring                      *)

\* A set of numbers has a least one.
LEMMA LeastNat ==
    ASSUME NEW T \in SUBSET Nat, T # {}
    PROVE  \E x \in T : \A y \in T : x <= y
<1>1. PICK t \in T : TRUE
  OBVIOUS
<1> DEFINE Family == {1 .. x : x \in {y \in T : y <= t}}
           Smaller == StrictSubsetOrdering(1 .. t)
<1>2. IsWellFoundedOn(Smaller, SUBSET (1 .. t))
  <2>1. FiniteSubsetsOf(1 .. t) = SUBSET (1 .. t)
    BY FS_Interval, FS_FiniteSubsetsOfFinite
  <2>2. IsWellFoundedOn(Smaller, FiniteSubsetsOf(1 .. t))
    BY FS_StrictSubsetOrderingWellFounded
  <2> QED BY <2>1, <2>2
<1>3. Family \in SUBSET (SUBSET (1 .. t)) /\ Family # {}
  OBVIOUS
<1>4. \E m \in Family : \A o \in Family : ~ (<<o, m>> \in Smaller)
  <2> HIDE DEF Family, Smaller
  <2> QED BY <1>2, <1>3, WFMin
<1>5. PICK x \in T : x <= t /\ \A o \in Family : ~ (<<o, 1 .. x>> \in Smaller)
  <2> HIDE DEF Smaller
  <2> QED BY <1>4
<1>6. ASSUME NEW y \in T, y < x PROVE FALSE
  <2>1. 1 .. y \in Family
    BY <1>5, <1>6
  <2>2. 1 .. y \subseteq 1 .. x /\ 1 .. y # 1 .. x
    <3>1. x \in 1 .. x /\ x \notin 1 .. y
      BY <1>6
    <3> QED BY <1>6, <3>1
  <2>3. 1 .. y \in SUBSET (1 .. t) /\ 1 .. x \in SUBSET (1 .. t)
    BY <1>5, <1>6
  <2> HIDE DEF Family
  <2>4. <<1 .. y, 1 .. x>> \in Smaller
    BY <2>2, <2>3, Zenon DEF StrictSubsetOrdering
  <2> QED BY <2>1, <2>4, <1>5
<1> QED BY <1>6

\* How many events the run at the head has.
RunEnds(n) ==
    /\ n \in 1 .. Len(list)
    /\ \A i \in 1 .. n : list[i].type = list[1].type
    /\ n = Len(list) \/ list[n + 1].type # list[1].type

\* The run is well defined: the first event of another type ends it.
LEMMA RunExists ==
    ASSUME list \in Seq(Event), list # <<>>
    PROVE  \E n \in 1 .. Len(list) :
              RunEnds(n) /\ Run = SubSeq(list, 1, n) /\ Len(Run) = n
<1> DEFINE Last == {n \in 1 .. Len(list) :
                      n = Len(list) \/ list[n + 1].type # list[1].type}
<1>1. Len(list) \in Nat \ {0}
  BY EmptySeq, LenProperties
<1>2. PICK x \in Last : \A y \in Last : x <= y
  <2>1. Last \in SUBSET Nat /\ Len(list) \in Last
    BY <1>1
  <2> HIDE DEF Last
  <2> QED BY <2>1, LeastNat
<1>3. \A i \in 1 .. x : list[i].type = list[1].type
  <2> SUFFICES ASSUME NEW i \in 1 .. x, i # 1 PROVE list[i].type = list[1].type
    OBVIOUS
  <2>1. i - 1 \notin Last
    <3>1. x \in Nat /\ ~(x <= i - 1)
      BY <1>1
    <3> QED BY <1>2, <3>1
  <2>2. i - 1 \in 1 .. Len(list) /\ i - 1 # Len(list) /\ (i - 1) + 1 = i
    BY <1>1, <1>2
  <2> QED BY <2>1, <2>2
<1>4. RunEnds(x)
  BY <1>2, <1>3 DEF RunEnds
<1> DEFINE n == CHOOSE m \in 1 .. Len(list) :
                    /\ \A i \in 1 .. m : list[i].type = list[1].type
                    /\ m = Len(list) \/ list[m + 1].type # list[1].type
<1>5. RunEnds(n)
  BY <1>4 DEF RunEnds
<1>6. Run = SubSeq(list, 1, n)
  BY DEF Run
<1> HIDE DEF n
<1>7. n \in 1 .. Len(list)
  BY <1>5 DEF RunEnds
<1>8. Len(SubSeq(list, 1, n)) = n
  BY <1>1, <1>7, SubSeqProperties
<1> QED BY <1>5, <1>6, <1>7, <1>8
-----------------------------------------------------------------------------
(* Types                                                                   *)

Places ==
    {ShiftAt} \cup {legend.at : legend \in Legends} \cup {JoyAt[d] : d \in Directions}

\* Only the machine's shift key and the key of the legend move.
LEMMA PositionsAreReal ==
    ASSUME NEW event \in Event
    PROVE  Positions(event) \subseteq Places \ {Nowhere}
<1>1. event.legend \in Legends
  BY DEF Event
<1> QED BY <1>1, ShiftAssumption DEF Positions, Decoded, Places, ShiftAssumption

LEMMA LegendOfKey ==
    ASSUME NEW k \in Keys, held \in [Keys -> SUBSET Legends], mods \in Modifiers
    PROVE  Selected(k) \in Legends
<1>1. Shifted \in BOOLEAN
  BY DEF Shifted, Down
<1> QED BY <1>1 DEF Legends, Selected

\* What a frame does with the events of the ring: those of the run are applied,
\* the others stay.
LEMMA ProcessTakesRun ==
    ASSUME list \in Seq(Event), list # <<>>, Process
    PROVE  \E n \in 1 .. Len(list) :
              /\ \A i \in 1 .. n : list[i].type = list[1].type
              /\ list' \in Seq(Event) /\ Len(list') = Len(list) - n
              /\ \A i \in 1 .. Len(list') : list'[i] = list[n + i]
              /\ list[1].type = "press" =>
                   matrix' = matrix \cup UNION {Positions(list[i]) : i \in 1 .. n}
              /\ list[1].type # "press" =>
                   matrix' = matrix \ UNION {Positions(list[i]) : i \in 1 .. n}
              /\ row15' = LastShift(Run)
<1>1. PICK n \in 1 .. Len(list) : RunEnds(n) /\ Run = SubSeq(list, 1, n) /\ Len(Run) = n
  BY RunExists
<1>2. /\ Len(list) \in Nat \ {0} /\ n \in 1 .. Len(list)
      /\ \A i \in 1 .. Len(list) : list[i] \in Event
  BY EmptySeq, LenProperties
<1>3. /\ matrix' = Applied(list[1].type, Run) /\ row15' = LastShift(Run)
      /\ list' = SubSeq(list, n + 1, Len(list))
  BY <1>1 DEF Process
<1>4. /\ list' \in Seq(Event) /\ Len(list') = Len(list) - n
      /\ \A i \in 1 .. Len(list') : list'[i] = list[n + i]
  <2>1. /\ SubSeq(list, n + 1, Len(list)) \in Seq(Event)
        /\ Len(SubSeq(list, n + 1, Len(list)))
             = IF n + 1 <= Len(list) THEN Len(list) - (n + 1) + 1 ELSE 0
        /\ \A i \in 1 .. Len(list) - (n + 1) + 1 :
              SubSeq(list, n + 1, Len(list))[i] = list[(n + 1) + i - 1]
    BY <1>2, SubSeqProperties
  <2>2. Len(SubSeq(list, n + 1, Len(list))) = Len(list) - n
    BY <1>2, <2>1
  <2>3. \A i \in 1 .. Len(list) - n :
           SubSeq(list, n + 1, Len(list))[i] = list[n + i]
    BY <1>2, <2>1
  <2> QED BY <1>3, <2>1, <2>2, <2>3
<1>5. PositionsOf(Run) = UNION {Positions(list[i]) : i \in 1 .. n}
  <2>1. /\ SubSeq(list, 1, n) \in Seq(Event) /\ Len(SubSeq(list, 1, n)) = n
        /\ \A i \in 1 .. n : SubSeq(list, 1, n)[i] = list[i]
    <3>1. /\ SubSeq(list, 1, n) \in Seq(Event)
          /\ \A i \in 1 .. n - 1 + 1 : SubSeq(list, 1, n)[i] = list[1 + i - 1]
      BY <1>2, SubSeqProperties
    <3>2. \A i \in 1 .. n : i \in 1 .. n - 1 + 1 /\ 1 + i - 1 = i
      BY <1>2
    <3> QED BY <1>1, <3>1, <3>2
  <2>2. DOMAIN Run = 1 .. n /\ \A i \in 1 .. n : Run[i] = list[i]
    BY <1>1, <2>1, LenProperties
  <2> QED BY <2>2 DEF PositionsOf
<1>6. \A i \in 1 .. n : list[i].type = list[1].type
  BY <1>1 DEF RunEnds
<1> QED BY <1>3, <1>4, <1>5, <1>6 DEF Applied
\* An event that finds room is the last of the ring; one that does not is lost.
LEMMA ThrottleKeepsRing ==
    ASSUME list \in Seq(Event), Len(list) < RingSize, NEW event \in Event,
           Throttle(event)
    PROVE  /\ list' \in Seq(Event) /\ Len(list') < RingSize
           /\ \/ ~Room /\ list' = list
              \/ /\ Room /\ Len(list') = Len(list) + 1
                 /\ \A i \in 1 .. Len(list) : list'[i] = list[i]
                 /\ list'[Len(list) + 1] = event
<1>1. Len(list) \in Nat /\ RingSize \in Nat
  BY KeysAssumption, LenProperties DEF KeysAssumption
<1>2. CASE Room
  BY <1>1, <1>2, AppendProperties DEF Throttle, Room
<1>3. CASE ~Room
  BY <1>3 DEF Throttle
<1> QED BY <1>2, <1>3

\* The queue the widget hands over keeps its type whoever types.
LEMMA StepTypes ==
    ASSUME TypeOK, [Next]_vars
    PROVE  TypeOK'
<1>1. /\ list \in Seq(Event) /\ Len(list) < RingSize /\ matrix \subseteq Places
      /\ held \in [Keys -> SUBSET Legends]
      /\ mods \in Modifiers /\ row15 \in BOOLEAN
  BY DEF TypeOK, Places
<1>2. \A d \in Directions : Moved(d) \subseteq Places
  BY <1>1 DEF Moved, Places
<1>3. Moved(Nowhere) \subseteq Places
  BY <1>1 DEF Moved, Places
<1>4. ASSUME NEW k \in Keys, KeyPress(k) PROVE TypeOK'
  <2>1. Selected(k) \in Legends
    BY <1>1, LegendOfKey
  <2>2. held' \in [Keys -> SUBSET Legends]
    BY <1>1, <1>4, <2>1 DEF KeyPress
  <2>3. mishap' \in {mishap, "toggled"} /\ mods' = mods
    BY <1>4, Zenon DEF KeyPress, AfterToggle
  <2>4. CASE UNCHANGED <<widgetVars, keyboardVars>>
    BY <2>2, <2>3, <2>4 DEF TypeOK, widgetVars, keyboardVars
  <2>5. CASE ToggleJoystick
    <3>1. js_enabled' \in BOOLEAN
      BY <2>5, Zenon DEF ToggleJoystick
    <3> QED BY <2>2, <2>3, <2>5, <3>1 DEF TypeOK, ToggleJoystick, keyboardVars
  <2>6. CASE k \in Directions /\ Joystick(k)
    <3>1. matrix' \subseteq Places
      BY <1>2, <2>6 DEF Joystick
    <3> QED BY <2>2, <2>3, <2>6, <3>1 DEF TypeOK, Joystick, Places
  <2>7. CASE QueuePress(k)
    <3>1. [type |-> "press", legend |-> Selected(k)] \in Event
      BY <2>1 DEF Event
    <3>2. list' \in Seq(Event) /\ Len(list') < RingSize
      BY <1>1, <2>7, <3>1, ThrottleKeepsRing DEF QueuePress
    <3>3. last' = k /\ UNCHANGED <<js_enabled, matrix, row15>>
      BY <2>7 DEF QueuePress, keyboardVars
    <3> QED BY <2>2, <2>3, <3>2, <3>3 DEF TypeOK
  <2> QED BY <1>4, <2>4, <2>5, <2>6, <2>7 DEF KeyPress
<1>5. ASSUME NEW k \in Keys, KeyRelease(k) PROVE TypeOK'
  <2>1. Selected(k) \in Legends
    BY <1>1, LegendOfKey
  <2>2. held' \in [Keys -> SUBSET Legends]
    BY <1>1, <1>5 DEF KeyRelease
  <2>3. mishap' \in {mishap, "relabelled", "dropped"} /\ mods' = mods
    BY <1>5, Zenon DEF KeyRelease
  <2>4. CASE Joystick(Nowhere)
    <3>1. matrix' \subseteq Places
      BY <1>3, <2>4 DEF Joystick
    <3> QED BY <2>2, <2>3, <2>4, <3>1 DEF TypeOK, Joystick, Places
  <2>5. CASE QueueRelease(k)
    <3>1. [type |-> "release", legend |-> Selected(k)] \in Event
      BY <2>1 DEF Event
    <3>2. list' \in Seq(Event) /\ Len(list') < RingSize
      BY <1>1, <2>5, <3>1, ThrottleKeepsRing DEF QueueRelease
    <3>3. last' = Nowhere /\ UNCHANGED <<js_enabled, matrix, row15>>
      BY <2>5 DEF QueueRelease, keyboardVars
    <3> QED BY <2>2, <2>3, <3>2, <3>3 DEF TypeOK
  <2> QED BY <1>5, <2>4, <2>5 DEF KeyRelease
<1>6. CASE FocusOut
  BY <1>6 DEF FocusOut, TypeOK, widgetVars, keyboardVars
<1>7. CASE Timeout
  <2>1. UNCHANGED <<held, last, js_enabled, mods, mishap>>
    BY <1>7 DEF Timeout
  <2>2. CASE list = <<>>
    BY <1>7, <2>1, <2>2 DEF Timeout, Process, TypeOK, keyboardVars
  <2>3. CASE list # <<>>
    <3>1. PICK n \in 1 .. Len(list) :
             /\ list' \in Seq(Event) /\ Len(list') = Len(list) - n
             /\ \/ matrix' = matrix \cup UNION {Positions(list[i]) : i \in 1 .. n}
                \/ matrix' = matrix \ UNION {Positions(list[i]) : i \in 1 .. n}
             /\ row15' = LastShift(Run)
      BY <1>1, <1>7, <2>3, ProcessTakesRun DEF Timeout
    <3>2. Len(list) \in Nat /\ \A i \in 1 .. Len(list) : Positions(list[i]) \subseteq Places
      BY <1>1, LenProperties, PositionsAreReal
    <3>3. \A i \in 1 .. n : i \in 1 .. Len(list)
      BY <3>2
    <3>4. matrix' \subseteq Places
      BY <1>1, <3>1, <3>2, <3>3
    <3>5. Len(list') < RingSize
      BY <1>1, <3>1, <3>2, KeysAssumption DEF KeysAssumption
    <3>6. row15' \in BOOLEAN
      BY <1>1, <3>1, Zenon DEF LastShift
    <3> QED BY <2>1, <3>1, <3>4, <3>5, <3>6 DEF TypeOK, Places
  <2> QED BY <2>2, <2>3
<1>8. CASE MachineReset
  BY <1>8 DEF MachineReset, TypeOK, widgetVars
<1>9. CASE UNCHANGED vars
  BY <1>9 DEF vars, widgetVars, keyboardVars, TypeOK
<1>10. ASSUME NEW enabled \in BOOLEAN, SetJoystickEmulation(enabled) PROVE TypeOK'
  <2>1. mishap' \in {mishap, "toggled"}
    BY <1>10, Zenon DEF SetJoystickEmulation, AfterToggle
  <2> QED BY <1>10, <2>1 DEF SetJoystickEmulation, TypeOK, keyboardVars
<1>11. ASSUME NEW m \in Modifiers, ModifiersChange(m) PROVE TypeOK'
  <2>1. mishap' \in {mishap, "relocked"}
    BY <1>11, Zenon DEF ModifiersChange
  <2> QED BY <1>11, <2>1 DEF ModifiersChange, TypeOK, widgetVars, keyboardVars
<1> QED BY <1>4, <1>5, <1>6, <1>7, <1>8, <1>9, <1>10, <1>11 DEF Next

\* The ring of events never holds more than it has slots for, one spared, and
\* the matrix nothing but positions that exist.
THEOREM KeysTypeCorrect == Spec => []TypeOK
<1>1. Init => TypeOK
  <2>1. <<>> \in Seq(Event) /\ Len(<<>>) = 0
    BY EmptySeq
  <2>2. RingSize > 0
    BY KeysAssumption DEF KeysAssumption
  <2>3. Init => js_enabled \in BOOLEAN
    BY Zenon DEF Init
  <2> QED BY <2>1, <2>2, <2>3 DEF Init, TypeOK
<1> QED BY <1>1, StepTypes, PTL DEF Spec

\* A key tapped faster than a frame is down for one whole frame: what a frame
\* applies is presses or releases, never both.
THEOREM TapIsSeen == Spec => PressSeen
<1>1. ASSUME TypeOK, Timeout, NEW i \in 1 .. Len(list) - Len(list'),
             list[i].type = "press"
      PROVE  Positions(list[i]) \subseteq matrix'
  <2>1. list \in Seq(Event)
    BY <1>1 DEF TypeOK
  <2>2. CASE list = <<>>
    BY <1>1, <2>2, EmptySeq DEF Timeout, Process
  <2>3. CASE list # <<>>
    <3>1. PICK n \in 1 .. Len(list) :
             /\ \A j \in 1 .. n : list[j].type = list[1].type
             /\ Len(list') = Len(list) - n
             /\ list[1].type = "press" =>
                  matrix' = matrix \cup UNION {Positions(list[j]) : j \in 1 .. n}
      BY <1>1, <2>1, <2>3, ProcessTakesRun DEF Timeout
    <3>2. Len(list) \in Nat
      BY <2>1, LenProperties
    <3>3. i \in 1 .. n
      BY <1>1, <3>1, <3>2
    <3> QED BY <1>1, <3>1, <3>3
  <2> QED BY <2>2, <2>3
<1>2. TypeOK =>
        [Timeout => \A i \in 1 .. Len(list) - Len(list') :
           list[i].type = "press" => Positions(list[i]) \subseteq matrix']_vars
  BY <1>1
<1> QED BY <1>2, KeysTypeCorrect, PTL DEF Spec, PressSeen
-----------------------------------------------------------------------------
(* Why a position is pressed                                               *)

\* A direction that the joystick emulation takes.
Handled(k) == js_enabled /\ k \in Directions

\* Pressed, and the ring holds nothing about it.
Standing(p) ==
    p \in matrix /\ \A i \in 1 .. Len(list) : p \notin Positions(list[i])

\* Pressed by an event of the ring, and released by none after it.
Coming(p) ==
    \E i \in 1 .. Len(list) :
        /\ list[i].type = "press" /\ p \in Positions(list[i])
        /\ \A j \in i + 1 .. Len(list) :
              list[j].type = "release" => p \notin Positions(list[j])

\* The legend of a key without the left shift key.
Unshifted(k) == Legend[k][mods][FALSE]

\* A key that is down accounts for it: the key of its legend, shift itself, or
\* a key whose legend without shift is one with shift in the machine.
HeldByKey(p) ==
    \/ p = ShiftAt /\ Shifted
    \/ \E k \in Keys :
          /\ ~Handled(k)
          /\ \/ \E was \in held[k] : was.at = p
             \/ /\ p = ShiftAt
                /\ Unshifted(k) \in held[k]
                /\ Unshifted(k).shift /\ Unshifted(k).at # Nowhere

HeldByJoystick(p) ==
    js_enabled /\ \E d \in Directions : Down(d) /\ JoyAt[d] = p

\* Whatever is pressed, or about to be, is accounted for by a key that is down.
Accounted ==
    /\ Nowhere \notin matrix
    /\ \A p \in Places : Coming(p) => HeldByKey(p)
    /\ \A p \in Places : Standing(p) => HeldByKey(p) \/ HeldByJoystick(p)

KeyInv == mishap = "none" => Accounted

\* More keys down account for more.
LEMMA MoreHeld ==
    ASSUME NEW p, js_enabled' = js_enabled, mods' = mods,
           \A k \in Keys : held[k] \subseteq held'[k]
    PROVE  /\ HeldByKey(p) => HeldByKey(p)'
           /\ HeldByJoystick(p) => HeldByJoystick(p)'
<1>1. Directions \subseteq Keys /\ Shift \in Keys
  BY KeysAssumption DEF KeysAssumption
<1>2. \A k \in Keys : Handled(k)' <=> Handled(k)
  BY DEF Handled
<1>3. \A k \in Keys : Down(k) => Down(k)'
  BY DEF Down
<1>4. Shifted => Shifted'
  BY <1>1, <1>3 DEF Shifted
<1>5. HeldByKey(p) => HeldByKey(p)'
  BY <1>2, <1>4 DEF HeldByKey, Unshifted
<1>6. HeldByJoystick(p) => HeldByJoystick(p)'
  BY <1>1, <1>3 DEF HeldByJoystick
<1> QED BY <1>5, <1>6

\* A press that is queued is accounted for by its key, the shift of its legend
\* by the shift key or by the legend itself.
LEMMA PressAccounted ==
    ASSUME NEW k \in Keys, ~Handled(k), held \in [Keys -> SUBSET Legends],
           held' = [held EXCEPT ![k] = @ \cup {Selected(k)}],
           js_enabled' = js_enabled, mods' = mods, NEW event \in Event,
           event.legend = Selected(k), NEW p \in Positions(event)
    PROVE  HeldByKey(p)'
<1>1. held'[k] = held[k] \cup {Selected(k)} /\ ~Handled(k)'
  BY DEF Handled
<1>2. /\ p = Selected(k).at \/ (p = ShiftAt /\ Selected(k).shift)
      /\ Selected(k).at # Nowhere
  BY DEF Positions, Decoded
<1>3. CASE p = Selected(k).at
  BY <1>1, <1>3 DEF HeldByKey
<1>4. CASE p = ShiftAt /\ Shifted
  <2>1. Shift \in Keys /\ Shifted'
    BY <1>4, KeysAssumption DEF KeysAssumption, Shifted, Down
  <2> QED BY <1>4, <2>1 DEF HeldByKey
<1>5. CASE p = ShiftAt /\ Selected(k).shift /\ ~Shifted
  <2>1. Shifted = FALSE
    BY <1>5, Zenon DEF Shifted, Down
  <2>2. Selected(k) = Unshifted(k) /\ Unshifted(k)' = Unshifted(k)
    BY <2>1 DEF Selected, Unshifted
  <2>3. /\ Unshifted(k)' \in held'[k]
        /\ Unshifted(k)'.shift /\ Unshifted(k)'.at # Nowhere
    BY <1>1, <1>2, <1>5, <2>2
  <2> QED BY <1>1, <1>5, <2>3 DEF HeldByKey
<1> QED BY <1>2, <1>3, <1>4, <1>5

\* The release of a key takes back all that only this key accounts for.
LEMMA ReleaseAccounted ==
    ASSUME NEW k \in Keys, ~Handled(k), held \in [Keys -> SUBSET Legends],
           held' = [held EXCEPT ![k] = {}], js_enabled' = js_enabled,
           mods \in Modifiers, mods' = mods,
           ~LegendChanged(k), NEW event \in Event,
           event.legend = Selected(k),
           NEW p, p # Nowhere, p \notin Positions(event)
    PROVE  /\ HeldByKey(p) => HeldByKey(p)'
           /\ HeldByJoystick(p) => HeldByJoystick(p)'
<1>1. /\ \A l \in Keys : l # k => held'[l] = held[l]
      /\ \A l \in Keys : Handled(l)' <=> Handled(l)
      /\ Shift \in Keys /\ Directions \subseteq Keys
  BY KeysAssumption DEF KeysAssumption, Handled
<1>2. /\ p # Selected(k).at
      /\ Selected(k).shift /\ Selected(k).at # Nowhere => p # ShiftAt
  BY DEF Positions, Decoded
<1>3. ASSUME p = ShiftAt, Shifted PROVE Shifted'
  <2>1. Shifted = TRUE
    BY <1>3, Zenon DEF Shifted, Down
  <2>2. k # Shift
    BY <1>2, <1>3, <2>1, ShiftAssumption DEF ShiftAssumption, Selected
  <2> QED BY <1>1, <1>3, <2>2 DEF Shifted, Down
<1>4. ASSUME NEW l \in Keys, ~Handled(l), NEW was \in held[l], was.at = p
      PROVE  HeldByKey(p)'
  <2>1. l # k
    BY <1>2, <1>4 DEF LegendChanged
  <2> QED BY <1>1, <1>4, <2>1 DEF HeldByKey
<1>5. ASSUME NEW l \in Keys, ~Handled(l), p = ShiftAt,
             Unshifted(l) \in held[l],
             Unshifted(l).shift, Unshifted(l).at # Nowhere
      PROVE  HeldByKey(p)'
  <2>1. CASE Shifted
    BY <1>3, <1>5, <2>1 DEF HeldByKey
  <2>2. CASE ~Shifted
    <3>1. Shifted = FALSE
      BY <2>2, Zenon DEF Shifted, Down
    <3>2. l # k
      BY <1>2, <1>5, <3>1 DEF Selected, Unshifted
    <3>3. Unshifted(l)' = Unshifted(l)
      BY DEF Unshifted
    <3> QED BY <1>1, <1>5, <3>2, <3>3 DEF HeldByKey
  <2> QED BY <2>1, <2>2
<1>6. HeldByKey(p) => HeldByKey(p)'
  <2>1. p = ShiftAt /\ Shifted => HeldByKey(p)'
    BY <1>3 DEF HeldByKey
  <2> QED BY <1>4, <1>5, <2>1 DEF HeldByKey
<1>7. HeldByJoystick(p) => HeldByJoystick(p)'
  BY <1>1 DEF HeldByJoystick, Down, Handled
<1> QED BY <1>6, <1>7
\* The joystick at rest, or in one direction, clears the positions of all.
LEMMA MovedClears ==
    ASSUME NEW direction, Joystick(direction), Nowhere \notin matrix
    PROVE  /\ list' = list /\ js_enabled' = js_enabled
           /\ \A p : p \in matrix' =>
                \/ p \in matrix /\ \A d \in Directions : p # JoyAt[d]
                \/ direction # Nowhere /\ p = JoyAt[direction]
BY DEF Joystick, Moved

\* What stands or comes depends on the ring and the matrix alone.
LEMMA SameRing ==
    ASSUME NEW p, list' = list
    PROVE  /\ Coming(p)' <=> Coming(p)
           /\ matrix' \subseteq matrix => (Standing(p)' => Standing(p))
BY DEF Coming, Standing, Positions, Decoded

LEMMA QueuedEvent ==
    ASSUME TypeOK, NEW event \in Event, Throttle(event), matrix' = matrix, NEW p
    PROVE  /\ Standing(p)' => Standing(p) /\ (Room => p \notin Positions(event))
           /\ Coming(p)' => \/ event.type = "press" /\ p \in Positions(event)
                            \/ Coming(p) /\ (Room /\ event.type = "release"
                                               => p \notin Positions(event))
<1>1. list \in Seq(Event) /\ Len(list) < RingSize /\ Len(list) \in Nat
  BY LenProperties DEF TypeOK
<1>2. CASE ~Room /\ list' = list
  BY <1>2, SameRing
<1>3. CASE /\ Room /\ Len(list') = Len(list) + 1
           /\ \A i \in 1 .. Len(list) : list'[i] = list[i]
           /\ list'[Len(list) + 1] = event
  <2> DEFINE n == Len(list)
  <2>1. /\ n \in Nat /\ Len(list') = n + 1 /\ n + 1 \in 1 .. n + 1
        /\ \A i \in 1 .. n : i \in 1 .. n + 1 /\ list'[i] = list[i]
        /\ list'[n + 1] = event
    BY <1>1, <1>3
  <2>3. Standing(p)' => Standing(p) /\ p \notin Positions(event)
    <3> SUFFICES ASSUME Standing(p)' PROVE Standing(p) /\ p \notin Positions(event)
      OBVIOUS
    <3>1. \A i \in 1 .. n + 1 : p \notin Positions(list'[i])
      BY <2>1 DEF Standing, Positions, Decoded
    <3> QED BY <2>1, <3>1 DEF Standing
  <2>4. Coming(p)' => \/ event.type = "press" /\ p \in Positions(event)
                      \/ Coming(p) /\ (event.type = "release" => p \notin Positions(event))
    <3> SUFFICES ASSUME Coming(p)', ~(event.type = "press" /\ p \in Positions(event))
                 PROVE  Coming(p) /\ (event.type = "release" => p \notin Positions(event))
      OBVIOUS
    <3>1. PICK i \in 1 .. n + 1 :
             /\ list'[i].type = "press" /\ p \in Positions(list'[i])
             /\ \A j \in i + 1 .. n + 1 :
                   list'[j].type = "release" => p \notin Positions(list'[j])
      BY <2>1 DEF Coming, Positions, Decoded
    <3>2. i # n + 1 /\ i \in 1 .. n /\ n + 1 \in i + 1 .. n + 1
      BY <2>1, <3>1
    <3>3. /\ list[i].type = "press" /\ p \in Positions(list[i])
          /\ \A j \in i + 1 .. n : list[j].type = "release" => p \notin Positions(list[j])
      <4>1. \A j \in i + 1 .. n : j \in i + 1 .. n + 1 /\ list'[j] = list[j]
        BY <2>1, <3>2
      <4> QED BY <2>1, <3>1, <3>2, <4>1
    <3> QED BY <2>1, <3>1, <3>2, <3>3 DEF Coming
  <2> QED BY <1>3, <2>3, <2>4
<1> QED BY <1>1, <1>2, <1>3, ThrottleKeepsRing

\* A frame presses nothing that was not coming, and forgets no release.
LEMMA FrameAccounted ==
    ASSUME TypeOK, Process, NEW p
    PROVE  /\ Coming(p)' => Coming(p)
           /\ Standing(p)' => Standing(p) \/ Coming(p)
           /\ p \in matrix' => p \in matrix \/ \E e \in Event : p \in Positions(e)
<1>1. list \in Seq(Event) /\ Len(list) \in Nat /\ \A i \in 1 .. Len(list) : list[i] \in Event
  BY LenProperties DEF TypeOK
<1>2. CASE list = <<>>
  BY <1>2, SameRing DEF Process, keyboardVars
<1>3. CASE list # <<>>
  <2>1. PICK n \in 1 .. Len(list) :
           /\ \A i \in 1 .. n : list[i].type = list[1].type
           /\ list' \in Seq(Event) /\ Len(list') = Len(list) - n
           /\ \A i \in 1 .. Len(list') : list'[i] = list[n + i]
           /\ list[1].type = "press" =>
                matrix' = matrix \cup UNION {Positions(list[i]) : i \in 1 .. n}
           /\ list[1].type # "press" =>
                matrix' = matrix \ UNION {Positions(list[i]) : i \in 1 .. n}
    BY <1>1, <1>3, ProcessTakesRun
  <2> DEFINE m == Len(list) - n
  <2>2. /\ m \in Nat /\ n \in Nat /\ Len(list') = m
        /\ \A i \in 1 .. m : n + i \in 1 .. Len(list) /\ list'[i] = list[n + i]
        /\ \A i \in 1 .. Len(list) : i \in 1 .. n \/ (i - n \in 1 .. m /\ n + (i - n) = i)
        /\ \A i \in 1 .. n : i \in 1 .. Len(list)
    BY <1>1, <2>1
  <2> HIDE DEF m
  <2>3. Coming(p)' => Coming(p)
    <3> SUFFICES ASSUME Coming(p)' PROVE Coming(p)
      OBVIOUS
    <3>1. PICK i \in 1 .. m :
             /\ list'[i].type = "press" /\ p \in Positions(list'[i])
             /\ \A j \in i + 1 .. m :
                   list'[j].type = "release" => p \notin Positions(list'[j])
      BY <2>2 DEF Coming, Positions, Decoded
    <3>2. ASSUME NEW j \in (n + i) + 1 .. Len(list), list[j].type = "release"
          PROVE  p \notin Positions(list[j])
      <4>1. j - n \in i + 1 .. m /\ n + (j - n) = j /\ j - n \in 1 .. m
        BY <1>1, <2>2, <3>1
      <4> QED BY <2>2, <3>1, <3>2, <4>1
    <3> QED BY <2>2, <3>1, <3>2 DEF Coming
  <2>4. Standing(p)' => Standing(p) \/ Coming(p)
    <3> SUFFICES ASSUME Standing(p)' PROVE Standing(p) \/ Coming(p)
      OBVIOUS
    <3>1. p \in matrix' /\ \A i \in 1 .. m : p \notin Positions(list'[i])
      BY <2>2 DEF Standing, Positions, Decoded
    <3>2. \A j \in 1 .. Len(list) : j \in 1 .. n \/ p \notin Positions(list[j])
      BY <2>2, <3>1
    <3>3. CASE \E i \in 1 .. n : p \in Positions(list[i])
      <4>1. PICK i \in 1 .. n : p \in Positions(list[i])
        BY <3>3
      <4>2. list[1].type = "press"
        BY <2>1, <3>1, <4>1
      <4>3. ASSUME NEW j \in i + 1 .. Len(list), list[j].type = "release"
            PROVE  p \notin Positions(list[j])
        <5>1. j \in 1 .. Len(list) /\ "press" # "release"
          BY <1>1, <2>2
        <5>2. j \notin 1 .. n
          BY <2>1, <4>2, <4>3, <5>1
        <5> QED BY <3>2, <5>1, <5>2
      <4> QED BY <2>1, <2>2, <4>1, <4>2, <4>3 DEF Coming
    <3>4. CASE \A i \in 1 .. n : p \notin Positions(list[i])
      <4>1. p \in matrix
        BY <2>1, <3>1, <3>4
      <4> QED BY <3>2, <3>4, <4>1 DEF Standing
    <3> QED BY <3>3, <3>4
  <2>5. p \in matrix' => p \in matrix \/ \E e \in Event : p \in Positions(e)
    BY <1>1, <2>1, <2>2
  <2> QED BY <2>3, <2>4, <2>5
<1> QED BY <1>2, <1>3
LEMMA KeyInvStep ==
    ASSUME TypeOK, KeyInv, [Next]_vars
    PROVE  KeyInv'
<1> SUFFICES ASSUME mishap' = "none" PROVE Accounted'
  BY DEF KeyInv
<1>1. Shift \in Keys /\ Toggle \in Keys /\ Directions \subseteq Keys /\ Toggle \notin Directions
  BY KeysAssumption DEF KeysAssumption
<1>2. held \in [Keys -> SUBSET Legends] /\ mods \in Modifiers
  BY DEF TypeOK
<1>3. ASSUME NEW k \in Keys, KeyPress(k) PROVE Accounted'
  <2>1. /\ mishap = "none" /\ held' = [held EXCEPT ![k] = @ \cup {Selected(k)}]
        /\ mods' = mods
    BY <1>3 DEF KeyPress
  <2>2. Accounted
    BY <2>1 DEF KeyInv
  <2>3. \A l \in Keys : held[l] \subseteq held'[l]
    BY <1>2, <2>1
  <2>4. CASE UNCHANGED <<widgetVars, keyboardVars>>
    <3>1. list' = list /\ matrix' = matrix /\ js_enabled' = js_enabled
      BY <2>4 DEF widgetVars, keyboardVars
    <3> QED BY <2>1, <2>2, <2>3, <3>1, SameRing, MoreHeld DEF Accounted
  <2>5. CASE k = Toggle /\ ToggleJoystick
    <3>1. list' = list /\ matrix' = matrix /\ js_enabled' = ~js_enabled
      BY <2>5 DEF ToggleJoystick, keyboardVars
    <3>2. \A d \in Directions : ~Down(d)
      <4>1. (js_enabled' # js_enabled /\ \E d \in Directions : Down(d)) => mishap' = "toggled"
        BY <1>3, Zenon DEF KeyPress, AfterToggle
      <4>2. js_enabled' # js_enabled
        BY <3>1, Zenon DEF TypeOK
      <4> QED BY <4>1, <4>2
    <3>3. \A d \in Directions : held[d] = {} /\ held'[d] = {}
      BY <1>1, <1>2, <2>1, <2>5, <3>2 DEF Down
    <3>4. ASSUME NEW p, HeldByKey(p) PROVE HeldByKey(p)'
      <4>1. Shifted => Shifted'
        BY <1>1, <2>3 DEF Shifted, Down
      <4>2. \A l \in Keys : held[l] # {} => ~Handled(l)'
        BY <3>3 DEF Handled
      <4> QED BY <2>1, <2>3, <3>4, <4>1, <4>2 DEF HeldByKey, Unshifted
    <3>5. \A p : ~HeldByJoystick(p)
      BY <3>2 DEF HeldByJoystick
    <3> QED BY <2>2, <3>1, <3>4, <3>5, SameRing DEF Accounted
  <2>6. CASE js_enabled /\ k \in Directions /\ Joystick(k)
    <3>1. /\ list' = list /\ js_enabled' = js_enabled
          /\ \A p : p \in matrix' => (p \in matrix /\ \A d \in Directions : p # JoyAt[d])
                                     \/ p = JoyAt[k]
      BY <2>2, <2>6, MovedClears DEF Accounted
    <3>2. Nowhere \notin matrix'
      BY <2>2, <2>6, <3>1, ShiftAssumption DEF Accounted, ShiftAssumption
    <3>3. ASSUME NEW p \in Places, Standing(p)' PROVE (HeldByKey(p) \/ HeldByJoystick(p))'
      <4>1. CASE p = JoyAt[k]
        <5>1. Down(k)'
          BY <1>2, <2>1 DEF Down
        <5> QED BY <2>6, <3>1, <4>1, <5>1 DEF HeldByJoystick
      <4>2. CASE p # JoyAt[k]
        <5>1. Standing(p)
          BY <3>1, <3>3, <4>2 DEF Standing, Positions, Decoded
        <5> QED BY <2>1, <2>2, <2>3, <3>1, <5>1, MoreHeld DEF Accounted
      <4> QED BY <4>1, <4>2
    <3>4. ASSUME NEW p \in Places, Coming(p)' PROVE HeldByKey(p)'
      <4>1. Coming(p)
        BY <3>1, <3>4, SameRing
      <4> QED BY <2>1, <2>2, <2>3, <3>1, <4>1, MoreHeld DEF Accounted
    <3> QED BY <3>2, <3>3, <3>4 DEF Accounted, Places, Legends
  <2>7. CASE k # Toggle /\ ~Handled(k) /\ QueuePress(k)
    <3> DEFINE event == [type |-> "press", legend |-> Selected(k)]
    <3>1. /\ event \in Event /\ event.legend = Selected(k) /\ event.type = "press"
          /\ Throttle(event) /\ matrix' = matrix /\ js_enabled' = js_enabled
      BY <1>2, <2>7, LegendOfKey DEF QueuePress, Event, keyboardVars
    <3> HIDE DEF event
    <3>2. ASSUME NEW p \in Places, Coming(p)' PROVE HeldByKey(p)'
      <4>1. p \in Positions(event) \/ Coming(p)
        BY <3>1, <3>2, QueuedEvent
      <4>2. p \in Positions(event) => HeldByKey(p)'
        BY <1>2, <2>1, <2>7, <3>1, PressAccounted
      <4> QED BY <2>1, <2>2, <2>3, <3>1, <4>1, <4>2, MoreHeld DEF Accounted
    <3>3. ASSUME NEW p \in Places, Standing(p)' PROVE (HeldByKey(p) \/ HeldByJoystick(p))'
      <4>1. Standing(p)
        BY <3>1, <3>3, QueuedEvent
      <4> QED BY <2>1, <2>2, <2>3, <3>1, <4>1, MoreHeld DEF Accounted
    <3> QED BY <2>2, <3>1, <3>2, <3>3 DEF Accounted, Places, Legends
  <2> QED BY <1>3, <2>4, <2>5, <2>6, <2>7 DEF KeyPress, Handled
<1>4. ASSUME NEW k \in Keys, KeyRelease(k) PROVE Accounted'
  <2>1. mishap = "none" /\ held' = [held EXCEPT ![k] = {}] /\ mods' = mods
    BY <1>4 DEF KeyRelease
  <2>2. Accounted
    BY <2>1 DEF KeyInv
  <2>3. CASE js_enabled /\ k \in Directions
    <3>1. Joystick(Nowhere)
      BY <1>4, <2>3 DEF KeyRelease
    <3>2. /\ list' = list /\ js_enabled' = js_enabled
          /\ \A p : p \in matrix' => p \in matrix /\ \A d \in Directions : p # JoyAt[d]
      BY <2>2, <3>1, MovedClears DEF Accounted
    <3>3. ASSUME NEW p, HeldByKey(p) PROVE HeldByKey(p)'
      <4>1. Handled(k) /\ \A l \in Keys : (Handled(l)' <=> Handled(l))
                                          /\ (l # k => held'[l] = held[l])
        BY <1>2, <2>1, <2>3, <3>2 DEF Handled
      <4>2. Shifted => Shifted'
        BY <1>1, <2>3, <4>1, KeysAssumption DEF KeysAssumption, Shifted, Down
      <4> QED BY <2>1, <3>3, <4>1, <4>2 DEF HeldByKey, Unshifted
    <3>4. ASSUME NEW p \in Places, Standing(p)' PROVE HeldByKey(p)'
      <4>1. Standing(p) /\ ~HeldByJoystick(p)
        BY <3>2, <3>4 DEF Standing, Positions, Decoded, HeldByJoystick
      <4> QED BY <2>2, <3>3, <4>1 DEF Accounted
    <3>5. ASSUME NEW p \in Places, Coming(p)' PROVE HeldByKey(p)'
      BY <2>2, <3>2, <3>3, <3>5, SameRing DEF Accounted
    <3> QED BY <2>2, <3>2, <3>4, <3>5 DEF Accounted, Places, Legends
  <2>4. CASE ~Handled(k)
    <3> DEFINE event == [type |-> "release", legend |-> Selected(k)]
    <3>1. /\ event \in Event /\ event.legend = Selected(k) /\ event.type = "release"
          /\ Throttle(event) /\ matrix' = matrix /\ js_enabled' = js_enabled
      BY <1>2, <1>4, <2>4, LegendOfKey DEF KeyRelease, Handled, QueueRelease, Event, keyboardVars
    <3> HIDE DEF event
    <3>2. ~LegendChanged(k) /\ Room
      <4>1. mishap' = CASE Handled(k) -> mishap
                        [] LegendChanged(k) -> "relabelled"
                        [] ~Room -> "dropped"
                        [] OTHER -> mishap
        BY <1>4, Zenon DEF KeyRelease, Handled
      <4> QED BY <2>4, <4>1, Zenon
    <3>3. ASSUME NEW p \in Places, Coming(p)' PROVE HeldByKey(p)'
      <4>1. Coming(p) /\ p \notin Positions(event)
        BY <3>1, <3>2, <3>3, QueuedEvent
      <4>2. p # Nowhere
        BY <4>1, ShiftAssumption DEF Coming, Positions, Decoded, ShiftAssumption
      <4>3. HeldByKey(p)
        BY <2>2, <4>1 DEF Accounted
      <4> QED BY <1>2, <2>1, <2>4, <3>1, <3>2, <4>1, <4>2, <4>3, ReleaseAccounted
    <3>4. ASSUME NEW p \in Places, Standing(p)' PROVE (HeldByKey(p) \/ HeldByJoystick(p))'
      <4>1. Standing(p) /\ p \notin Positions(event)
        BY <3>1, <3>2, <3>4, QueuedEvent
      <4>2. p # Nowhere
        BY <2>2, <4>1 DEF Accounted, Standing
      <4>3. HeldByKey(p) \/ HeldByJoystick(p)
        BY <2>2, <4>1 DEF Accounted
      <4> QED BY <1>2, <2>1, <2>4, <3>1, <3>2, <4>1, <4>2, <4>3, ReleaseAccounted
    <3> QED BY <2>2, <3>1, <3>3, <3>4 DEF Accounted, Places, Legends
  <2> QED BY <2>3, <2>4 DEF Handled
<1>5. CASE FocusOut
  BY <1>5 DEF FocusOut
<1>6. CASE Timeout
  <2>1. Process /\ UNCHANGED <<held, last, js_enabled, mods, mishap>>
    BY <1>6 DEF Timeout
  <2>2. Accounted
    BY <2>1 DEF KeyInv
  <2>3. \A p : (HeldByKey(p)' <=> HeldByKey(p)) /\ (HeldByJoystick(p)' <=> HeldByJoystick(p))
    BY <2>1 DEF HeldByKey, Unshifted, HeldByJoystick, Handled, Shifted, Down
  <2>4. Nowhere \notin matrix'
    BY <2>1, <2>2, FrameAccounted, PositionsAreReal DEF Accounted
  <2> QED BY <2>1, <2>2, <2>3, <2>4, FrameAccounted DEF Accounted, Places, Legends
<1>7. CASE MachineReset
  <2>1. matrix' = {} /\ list' = list /\ UNCHANGED <<held, js_enabled, mods, mishap>>
    BY <1>7 DEF MachineReset, widgetVars
  <2>2. Accounted
    BY <2>1 DEF KeyInv
  <2>3. \A p : HeldByKey(p)' <=> HeldByKey(p)
    BY <2>1 DEF HeldByKey, Unshifted, Handled, Shifted, Down
  <2>4. \A p : ~Standing(p)'
    BY <2>1 DEF Standing
  <2> QED BY <2>1, <2>2, <2>3, <2>4, SameRing DEF Accounted, Places, Legends
<1>8. CASE UNCHANGED vars
  <2>1. UNCHANGED <<held, last, js_enabled, list, matrix, mods, mishap>>
    BY <1>8 DEF vars, widgetVars, keyboardVars
  <2>2. \A p : (HeldByKey(p)' <=> HeldByKey(p)) /\ (HeldByJoystick(p)' <=> HeldByJoystick(p))
    BY <2>1 DEF HeldByKey, Unshifted, HeldByJoystick, Handled, Shifted, Down
  <2> QED BY <2>1, <2>2, SameRing DEF KeyInv, Accounted, Places, Legends
<1>9. ASSUME NEW enabled \in BOOLEAN, SetJoystickEmulation(enabled) PROVE Accounted'
  <2>1. /\ mishap = "none" /\ js_enabled' = enabled
        /\ list' = list /\ matrix' = matrix /\ held' = held /\ mods' = mods
    BY <1>9 DEF SetJoystickEmulation, keyboardVars
  <2>2. Accounted
    BY <2>1 DEF KeyInv
  <2>3. CASE js_enabled' = js_enabled
    <3>1. \A p : (HeldByKey(p)' <=> HeldByKey(p)) /\ (HeldByJoystick(p)' <=> HeldByJoystick(p))
      BY <2>1, <2>3 DEF HeldByKey, Unshifted, HeldByJoystick, Handled, Shifted, Down
    <3> QED BY <2>1, <2>2, <3>1, SameRing DEF Accounted, Places, Legends
  <2>4. CASE js_enabled' # js_enabled
    <3>1. \A d \in Directions : held[d] = {}
      BY <1>9, <2>4, Zenon DEF SetJoystickEmulation, AfterToggle, Down
    <3>2. ASSUME NEW p, HeldByKey(p) PROVE HeldByKey(p)'
      <4>1. \A l \in Keys : held[l] # {} => ~Handled(l)'
        BY <3>1 DEF Handled
      <4> QED BY <2>1, <3>2, <4>1 DEF HeldByKey, Unshifted, Shifted, Down
    <3>3. \A p : ~HeldByJoystick(p)
      BY <3>1 DEF HeldByJoystick, Down
    <3> QED BY <2>1, <2>2, <3>2, <3>3, SameRing DEF Accounted, Places, Legends
  <2> QED BY <2>3, <2>4
<1>10. ASSUME NEW m \in Modifiers, ModifiersChange(m) PROVE Accounted'
  <2>1. /\ mishap = "none" /\ mods' = m /\ js_enabled' = js_enabled
        /\ list' = list /\ matrix' = matrix /\ held' = held
    BY <1>10 DEF ModifiersChange, widgetVars, keyboardVars
  <2>2. Accounted
    BY <2>1 DEF KeyInv
  <2>3. \A k \in Keys : held[k] # {} => Legend[k][m] = Legend[k][mods]
    BY <1>10, Zenon DEF ModifiersChange, Down
  <2>4. \A k \in Keys : held[k] # {} => Unshifted(k)' = Unshifted(k)
    BY <2>1, <2>3 DEF Unshifted
  <2>5. ASSUME NEW p
        PROVE  (HeldByKey(p) => HeldByKey(p)') /\ (HeldByJoystick(p) => HeldByJoystick(p)')
    BY <2>1, <2>4 DEF HeldByKey, HeldByJoystick, Handled, Shifted, Down
  <2> QED BY <2>1, <2>2, <2>5, SameRing DEF Accounted, Places, Legends
<1> QED BY <1>3, <1>4, <1>5, <1>6, <1>7, <1>8, <1>9, <1>10 DEF Next

\* Whatever is typed, no position stays pressed once all keys are up and the
\* ring is empty, but by a toggle with a direction down, a lock or a modifier
\* that changed under a key, a legend that left shift moved under it, a release
\* that found the ring full, or a lost focus: whatever else is pressed is
\* accounted for by a key that is down.
THEOREM NoKeyStaysDown == Spec => []NoKeyStuck
<1>1. Init => KeyInv
  <2> SUFFICES ASSUME Init PROVE Accounted
    BY DEF KeyInv
  <2>1. list = <<>> /\ matrix = {} /\ Len(<<>>) = 0
    BY EmptySeq DEF Init
  <2> QED BY <2>1 DEF Accounted, Coming, Standing
<1>2. TypeOK /\ KeyInv => NoKeyStuck
  <2> SUFFICES ASSUME TypeOK, KeyInv, mishap = "none", \A k \in Keys : ~Down(k),
                      list = <<>>, NEW p \in matrix
               PROVE  FALSE
    BY DEF NoKeyStuck
  <2>1. p \in Places
    BY DEF TypeOK, Places
  <2>2. Standing(p)
    BY EmptySeq DEF Standing
  <2>3. ~Shifted /\ Directions \subseteq Keys
    BY KeysAssumption DEF KeysAssumption, Shifted
  <2> QED BY <2>1, <2>2, <2>3 DEF KeyInv, Accounted, HeldByKey, HeldByJoystick, Down
<1> QED BY <1>1, <1>2, KeyInvStep, KeysTypeCorrect, PTL DEF Spec
=============================================================================
