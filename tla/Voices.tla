------------------------------- MODULE Voices -------------------------------
(***************************************************************************)
(* The three square waves of the sound chip (psg/psg-core.cc): counters    *)
(* that clock() steps, kept together when their periods are equal, and     *)
(* periods that a program rewrites between two clocks.  Amplitudes, mixer  *)
(* and noise, whose values are data, are left out, and so is the division  *)
(* of the clock by 8.                                                      *)
(***************************************************************************)
EXTENDS Integers

CONSTANTS
    Periods,    \* periods of the square waves
    Widest      \* the greatest of them

ASSUME PeriodsAssumption ==
    Widest \in Nat /\ Periods \subseteq 0 .. Widest /\ 0 \in Periods

VARIABLES
    sound,  \* _sound: the period, counter and phase of each channel
    alone,  \* history: clocks since a period was written, or the reset
    held    \* history: of these, those since the phase of each channel changed

voicesVars == <<sound, alone, held>>

Channels == 0 .. 2
Wave == [period : Periods, counter : 0 .. Widest, phase : {0, 1}]
Silent == [period |-> 0, counter |-> 0, phase |-> 0]

NotYet == [c \in Channels |-> 0]

VoicesInit ==
    /\ sound = [c \in Channels |-> Silent]
    /\ alone = 0 /\ held = NotYet

\* The histories count no further than a property looks.
UpTo(bound, n) == IF n > bound THEN bound ELSE n

Mutant_NotFixed(s, l, r) == s

\* fixup(): of two equal periods the second follows the first.
Fixed(s, l, r) ==
    IF s[l].period = s[r].period /\ s[l].counter # s[r].counter
    THEN [s EXCEPT ![r].counter = s[l].counter, ![r].phase = s[l].phase]
    ELSE s

Prepared == Fixed(Fixed(Fixed(sound, 0, 1), 0, 2), 1, 2)

Mutant_FlipsAtEquality(w) ==
    CASE w.period = 0 \/ w.counter >= Widest -> w
      [] w.period # 0 /\ w.counter + 1 = w.period ->
            [w EXCEPT !.counter = 0, !.phase = 1 - @]
      [] OTHER -> [w EXCEPT !.counter = @ + 1]

\* SoundTraits::clock(): a period of 0 stands still.
Ticked(w) ==
    CASE w.period = 0 -> w
      [] w.period # 0 /\ w.counter + 1 >= w.period ->
            [w EXCEPT !.counter = 0, !.phase = 1 - @]
      [] OTHER -> [w EXCEPT !.counter = @ + 1]

VoicesClock ==
    /\ sound' = [c \in Channels |-> Ticked(Prepared[c])]
    /\ alone' = UpTo(Widest + 1, alone + 1)
    /\ held' = [c \in Channels |->
                  IF sound'[c].phase # sound[c].phase THEN 0
                  ELSE UpTo(Widest, held[c] + 1)]

\* set_fine_tune(), set_coarse_tune(): a period is written as two bytes, and
\* any may be there for a moment.
SetPeriod(c, p) ==
    /\ sound' = [sound EXCEPT ![c].period = p]
    /\ alone' = 0 /\ held' = NotYet

VoicesReset ==
    /\ sound' = [c \in Channels |-> Silent]
    /\ alone' = 0 /\ held' = NotYet

VoicesNext ==
    \/ VoicesClock
    \/ \E c \in Channels, p \in Periods : SetPeriod(c, p)
    \/ VoicesReset

VoicesSpec == VoicesInit /\ [][VoicesNext]_voicesVars

VoicesTypeOK ==
    /\ sound \in [Channels -> Wave]
    /\ alone \in 0 .. Widest + 1 /\ held \in [Channels -> 0 .. Widest]

\* Once the periods have been left alone for longer than the period of a wave,
\* the wave holds each level for exactly that many clocks: it does not miss
\* its flip, whatever the count was when its period was written (a count
\* beyond the new period is not waited for to come round again), and the
\* fixups do not move it any more.
FlipsInTime ==
    [][VoicesClock => \A c \in Channels :
          LET clocks == sound[c].period
          IN clocks > 0 /\ alone > clocks =>
                (sound'[c].phase # sound[c].phase <=> held[c] + 1 >= clocks)]_voicesVars

\* Channels of one period count together from the next clock on, so that
\* voices set to one note do not drift against each other; the fixups of one
\* pair do not undo those of another.
VoicesTogether ==
    [][VoicesClock => \A c, d \in Channels :
          sound[c].period = sound[d].period
             => sound'[c].counter = sound'[d].counter]_voicesVars
=============================================================================
