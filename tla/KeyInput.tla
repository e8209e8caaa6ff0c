------------------------------ MODULE KeyInput ------------------------------
(***************************************************************************)
(* The way of a key from the host to the machine: the GTK widget           *)
(* (src/gtk3ui/gtkemulatorx11.c), which discards repeats, turns some keys  *)
(* into a joystick, and queues the rest in a ring that it empties between  *)
(* frames, one kind of event at a time; and the keyboard                   *)
(* (amstrad/kbd/kbd-core.cc), which decodes an event into a position of    *)
(* the matrix that the machine scans.                                      *)
(*                                                                         *)
(* An event holds a key code and the state of shift, the locks and the     *)
(* other modifiers, from which a press and a release are decoded alike:    *)
(* here the legend they select.  The machine's control key, which some     *)
(* legends hold down as others do its shift key, is left out.  The keys in *)
(* Directions are those of one axis of the joystick; js_axis_y is the      *)
(* direction reported last and is not kept.                                *)
(*                                                                         *)
(* held and mishap are history.  mishap names the first of five things     *)
(* that no handler makes up for; the user stops after it.                  *)
(***************************************************************************)
EXTENDS Sequences, FiniteSets, Integers

CONSTANTS
    Keys,       \* the keys of the host
    Shift,      \* its left shift key
    Toggle,     \* Home or End: switches the joystick emulation
    Directions, \* the keys of an axis of the emulated joystick
    Modifiers,  \* states of the locks and of the modifiers but left shift
    Nowhere,    \* the position of a key that decodes to none; no direction
    Legend,     \* [Keys -> [Modifiers -> [BOOLEAN -> the position and whether
                \* it is shifted]]], the last by the left shift key
    ShiftAt,    \* the position of the machine's shift key
    JoyAt,      \* the position of each direction of the joystick
    RingSize    \* slots of the ring: 256

ASSUME KeysAssumption ==
    /\ Shift \in Keys /\ Toggle \in Keys /\ Directions \subseteq Keys
    /\ Shift # Toggle /\ {Shift, Toggle} \cap Directions = {}
    /\ RingSize \in Nat /\ RingSize > 1
\* The left shift key is the machine's shift key whatever it is pressed with.
\* (The right one is a modifier that selects legends but decodes to no key.)
ASSUME ShiftAssumption ==
    /\ ShiftAt # Nowhere
    /\ \A m \in Modifiers, shifted \in BOOLEAN : Legend[Shift][m][shifted].at = ShiftAt
    /\ \A d \in Directions : JoyAt[d] # Nowhere

Legends ==
    {Legend[k][m][shifted] : k \in Keys, m \in Modifiers, shifted \in BOOLEAN}
Event == [type : {"press", "release"}, legend : Legends]

VARIABLES
    held,       \* history: the legends a key that is down was pressed with
    last,       \* last_key_event, where it is a press
    js_enabled, \* the joystick emulation
    list,       \* the ring, from head to tail
    matrix,     \* the positions pressed in the rows that have keys
    row15,      \* keys[0x0f]: the legend decoded last is a shifted one
    mods,       \* the state of the locks and modifiers of the host
    mishap      \* history: what can leave a position pressed

widgetVars == <<last, js_enabled, list>>
keyboardVars == <<matrix, row15>>
vars == <<held, widgetVars, keyboardVars, mods, mishap>>

Down(k) == held[k] # {}
Shifted == Down(Shift)

\* The legend that XLookupString() selects.
Selected(k) == Legend[k][mods][Shifted]

Init ==
    /\ held = [k \in Keys |-> {}]
    /\ last = Nowhere
    /\ js_enabled = FALSE
    /\ list = <<>>
    /\ matrix = {} /\ row15 = FALSE
    /\ mods \in Modifiers
    /\ mishap = "none"

-----------------------------------------------------------------------------
(* The keyboard                                                            *)

\* decode_english(), decode_french(): SET_KEY and SFT_KEY, or neither.
Decoded(event) == event.legend.at # Nowhere

Positions(event) ==
    IF Decoded(event)
    THEN {event.legend.at} \cup IF event.legend.shift THEN {ShiftAt} ELSE {}
    ELSE {}

PositionsOf(events) == UNION {Positions(events[i]) : i \in DOMAIN events}

Mutant_ShiftNotReleased(type, events) ==
    IF type = "press" THEN matrix \cup PositionsOf(events)
    ELSE matrix \ {events[i].legend.at : i \in DOMAIN events}

\* on_key_press(), on_key_release()
Applied(type, events) ==
    IF type = "press" THEN matrix \cup PositionsOf(events)
    ELSE matrix \ PositionsOf(events)

\* Presses and releases alike leave the shift of their legend in row 15.
LastShift(events) ==
    LET decoded == {i \in DOMAIN events : Decoded(events[i])}
    IN IF decoded = {} THEN row15
       ELSE \E i \in decoded :
               events[i].legend.shift /\ \A j \in decoded : j <= i

\* on_motion_notify(): the row follows the axis.
Moved(direction) ==
    (matrix \ {JoyAt[d] : d \in Directions})
        \cup IF direction = Nowhere THEN {} ELSE {JoyAt[direction]}

-----------------------------------------------------------------------------
(* The widget                                                              *)

Mutant_NoSlotSpared == Len(list) < RingSize

\* A ring of RingSize slots is full with one to spare.
Room == Len(list) < RingSize - 1

\* gem_events_x11_throttle()
Throttle(event) == list' = IF Room THEN Append(list, event) ELSE list

\* A direction of the emulated joystick goes to the machine at once.
Joystick(direction) ==
    /\ matrix' = Moved(direction)
    /\ UNCHANGED <<last, js_enabled, list, row15>>

\* gem_keyboard_x11_preprocess() of Home or End.  No event tells the machine
\* that the axis is back at rest.
ToggleJoystick ==
    /\ js_enabled' = ~js_enabled
    /\ UNCHANGED <<last, list, keyboardVars>>

QueuePress(k) ==
    /\ last' = k
    /\ Throttle([type |-> "press", legend |-> Selected(k)])
    /\ UNCHANGED <<js_enabled, keyboardVars>>

QueueRelease(k) ==
    /\ last' = Nowhere
    /\ Throttle([type |-> "release", legend |-> Selected(k)])
    /\ UNCHANGED <<js_enabled, keyboardVars>>

AfterToggle ==
    IF js_enabled' # js_enabled /\ \E d \in Directions : Down(d)
    THEN "toggled" ELSE mishap

\* impl_widget_key_press_event(), the repeats of a key that is down included.
\* A press of the key pressed last counts as a repeat if little time passed.
KeyPress(k) ==
    /\ mishap = "none"
    /\ held' = [held EXCEPT ![k] = @ \cup {Selected(k)}]
    /\ \/ last = k /\ UNCHANGED <<widgetVars, keyboardVars>>
       \/ k = Toggle /\ ToggleJoystick
       \/ js_enabled /\ k \in Directions /\ Joystick(k)
       \/ k # Toggle /\ ~(js_enabled /\ k \in Directions) /\ QueuePress(k)
    /\ mishap' = AfterToggle
    /\ UNCHANGED mods

\* gtk_emulator_x11_set_joystick_emulation(): the switch in the menu.
SetJoystickEmulation(enabled) ==
    /\ mishap = "none"
    /\ js_enabled' = enabled
    /\ mishap' = AfterToggle
    /\ UNCHANGED <<held, last, list, keyboardVars, mods>>

LegendChanged(k) ==
    \E was \in held[k] : was.at # Selected(k).at

\* impl_widget_key_release_event()
KeyRelease(k) ==
    /\ mishap = "none" /\ Down(k)
    /\ held' = [held EXCEPT ![k] = {}]
    /\ IF js_enabled /\ k \in Directions THEN Joystick(Nowhere)
       ELSE QueueRelease(k)
    /\ mishap' = CASE js_enabled /\ k \in Directions -> mishap
                   [] LegendChanged(k) -> "relabelled"
                   [] ~Room -> "dropped"
                   [] OTHER -> mishap
    /\ UNCHANGED mods

\* A lock goes on or off, or a modifier goes up or down: no handler looks at
\* it, but the legend of a key that is down may be another one from now on.
ModifiersChange(m) ==
    /\ mishap = "none" /\ m # mods
    /\ mods' = m
    /\ mishap' = IF \E k \in Keys : Down(k) /\ Legend[k][m] # Legend[k][mods]
                 THEN "relocked" ELSE mishap
    /\ UNCHANGED <<held, widgetVars, keyboardVars>>

\* The window loses the focus: the keys go up elsewhere.
FocusOut ==
    /\ mishap = "none" /\ \E k \in Keys : Down(k)
    /\ held' = [k \in Keys |-> {}]
    /\ mishap' = "unfocused"
    /\ UNCHANGED <<widgetVars, keyboardVars, mods>>

\* The events at the head that are of one type.
Run ==
    LET n == CHOOSE n \in 1 .. Len(list) :
                /\ \A i \in 1 .. n : list[i].type = list[1].type
                /\ n = Len(list) \/ list[n + 1].type # list[1].type
    IN SubSeq(list, 1, n)

Mutant_ProcessAll ==
    /\ LET state[i \in 0 .. Len(list)] ==
             IF i = 0 THEN matrix
             ELSE IF list[i].type = "press"
                  THEN state[i - 1] \cup Positions(list[i])
                  ELSE state[i - 1] \ Positions(list[i])
       IN matrix' = state[Len(list)]
    /\ list' = <<>> /\ row15' = LastShift(list)

Mutant_RestDropped ==
    IF list = <<>> THEN UNCHANGED <<list, keyboardVars>>
    ELSE /\ matrix' = Applied(list[1].type, Run)
         /\ row15' = LastShift(Run)
         /\ list' = <<>>

\* gem_events_x11_process()
Process ==
    IF list = <<>> THEN UNCHANGED <<list, keyboardVars>>
    ELSE /\ matrix' = Applied(list[1].type, Run)
         /\ row15' = LastShift(Run)
         /\ list' = SubSeq(list, Len(Run) + 1, Len(list))

\* timeout_handler(): a frame, in which the machine scans the matrix, then
\* the events.
Timeout ==
    /\ Process
    /\ UNCHANGED <<held, last, js_enabled, mods, mishap>>

\* kbd::Instance::reset()
MachineReset ==
    /\ matrix' = {} /\ row15' = FALSE
    /\ UNCHANGED <<held, widgetVars, mods, mishap>>

Next ==
    \/ \E k \in Keys : KeyPress(k)
    \/ \E k \in Keys : KeyRelease(k)
    \/ \E enabled \in BOOLEAN : SetJoystickEmulation(enabled)
    \/ \E m \in Modifiers : ModifiersChange(m)
    \/ FocusOut
    \/ Timeout
    \/ MachineReset

Spec == Init /\ [][Next]_vars

\* The main loop of GTK runs the timeout again and again.
FairSpec == Spec /\ WF_vars(Timeout)

-----------------------------------------------------------------------------
(* Properties                                                              *)

TypeOK ==
    /\ held \in [Keys -> SUBSET Legends]
    /\ last \in Keys \cup {Nowhere}
    /\ js_enabled \in BOOLEAN
    /\ list \in Seq(Event) /\ Len(list) < RingSize
    /\ matrix \subseteq
          {ShiftAt} \cup {legend.at : legend \in Legends} \cup {JoyAt[d] : d \in Directions}
    /\ row15 \in BOOLEAN /\ mods \in Modifiers
    /\ mishap \in {"none", "toggled", "relocked", "relabelled", "dropped", "unfocused"}

\* Whatever is typed, with or without the joystick, no position stays pressed
\* once all keys are up and the ring is empty, unless one of five things
\* happened: the emulation was toggled with a direction down, a lock or a
\* modifier changed under a key whose legends depend on it (Caps Lock under a
\* letter, whose shift then stays), left shift changed between press and
\* release the position of a key, a release found the ring full, or the window
\* lost the focus with a key down.
NoKeyStuck ==
    /\ mishap = "none"
    /\ \A k \in Keys : ~Down(k)
    /\ list = <<>>
    => matrix = {}

\* A key tapped faster than a frame is still down for one whole frame: its
\* press and its release are never applied between the same two frames.
PressSeen ==
    [][Timeout => \A i \in 1 .. Len(list) - Len(list') :
          list[i].type = "press" => Positions(list[i]) \subseteq matrix']_vars

\* A key that goes up and stays up is up in the matrix in the end, whatever
\* other keys do: its release is neither lost nor applied before its press.
\* As above, until one of the five things happens.
\* The machine's shift key is left out, which several keys may hold.
ReleaseArrives ==
    \A k \in Keys :
       (~Down(k) /\ mishap = "none")
          ~> \/ Down(k) \/ mishap # "none"
             \/ {Legend[k][m][shifted].at : m \in Modifiers, shifted \in BOOLEAN}
                  \cap matrix \subseteq {ShiftAt}
=============================================================================
