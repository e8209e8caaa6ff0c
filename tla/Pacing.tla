------------------------------- MODULE Pacing -------------------------------
(***************************************************************************)
(* The pace of the machine (cpc/cpc-mainboard.cc, on_clock()): one frame a *)
(* call, a deadline that moves by the time of a frame, a delay to the next *)
(* call that the timer of the widget respects, frames that are not drawn   *)
(* when the machine is late, and the count of frames whose end gives the   *)
(* statistics.  Time is relative to the deadline; the host's clock is      *)
(* taken to go forward.                                                    *)
(***************************************************************************)
EXTENDS Integers

CONSTANTS
    Millisecond,    \* 1000 us
    Second,         \* 1000000 us
    Rates,          \* frame rates: 50 and 60
    FrameTimes,     \* [Rates -> the time of a frame]: 20000 and 16667 us
    Speedups,       \* factors the settings may ask for, 1 .. 100
    Delays          \* what a call may come later than it was asked for

ASSUME PacingAssumption ==
    /\ Millisecond \in Nat \ {0}
    /\ Second \in Nat /\ Second > Millisecond
    /\ Rates \subseteq Nat \ {0}
    /\ FrameTimes \in [Rates -> 1 .. Second - 1]
    /\ Speedups \subseteq Nat \ {0} /\ Delays \subseteq Nat

VARIABLES
    rate,       \* _video.frame_rate
    speedup,    \* _setup.speedup
    lag,        \* currtime - deadline, when on_clock() returns
    delay,      \* the timeout it returns, in milliseconds
    count,      \* _stats.frame_count
    drawn       \* _stats.frame_drawn

pacingVars == <<rate, speedup, lag, delay, count, drawn>>

FrameTime == FrameTimes[rate] \div speedup

PacingInit ==
    /\ rate \in Rates /\ speedup \in Speedups
    /\ lag = 0 /\ delay = 0
    /\ count = 0 /\ drawn = 0

-----------------------------------------------------------------------------

\* The first frame of each count is always drawn.
Draws(late) == count = 0 \/ (late <= 0 /\ speedup < 10)

Mutant_NeverGivesUp(late) == late

\* A drift of a second is given up: the deadline starts again from now.
Resynced(late) == IF late >= Second THEN -FrameTime ELSE late

\* The timeout is the time left, in whole milliseconds; 0 asks to be called
\* at once, except before the first frame of a count.
Timeout_ms(late, isFirst) ==
    LET left == IF late > 0 THEN 0 ELSE (-late) \div Millisecond
    IN IF left = 0 /\ isFirst THEN 1 ELSE left

\* on_clock(), which comes `later` after the delay asked for.
OnClock(later) ==
    LET late == lag + delay * Millisecond + later - FrameTime
        ends == count + 1 = rate
        drawnNow == drawn + IF Draws(late) THEN 1 ELSE 0
    IN
    /\ lag' = Resynced(late)
    /\ count' = IF ends THEN 0 ELSE count + 1
    /\ drawn' = IF ends THEN 0 ELSE drawnNow
    /\ delay' = Timeout_ms(Resynced(late), ends)
    /\ UNCHANGED <<rate, speedup>>

\* A reset takes the time anew, some time after the last call; the timer
\* that was set then still runs.
PacingReset ==
    /\ lag' = 0
    /\ \E left \in 0 .. delay : delay' = left
    /\ count' = 0 /\ drawn' = 0
    /\ UNCHANGED <<rate, speedup>>

Mutant_RateKeepsStats(r) ==
    /\ rate' = r /\ lag' = 0
    /\ UNCHANGED <<speedup, delay, count, drawn>>

\* set_refresh_rate() to another rate resets the machine.
SetRefreshRate(r) ==
    /\ r # rate
    /\ rate' = r /\ lag' = 0
    /\ \E left \in 0 .. delay : delay' = left
    /\ count' = 0 /\ drawn' = 0
    /\ UNCHANGED speedup

PacingNext ==
    \/ \E later \in Delays : OnClock(later)
    \/ PacingReset
    \/ \E r \in Rates : SetRefreshRate(r)

PacingSpec == PacingInit /\ [][PacingNext]_pacingVars

-----------------------------------------------------------------------------
(* Properties                                                              *)

PacingTypeOK ==
    /\ rate \in Rates /\ speedup \in Speedups
    /\ lag \in Int /\ delay \in Nat /\ count \in Nat /\ drawn \in 0 .. count

\* However long the host was busy or suspended, the machine is less than a
\* second behind its deadline after the next frame, and it never runs ahead
\* of it by more than a frame and the fraction of a millisecond that the
\* timer drops, however the fractions add up.
Paced == -(FrameTime + Millisecond) < lag /\ lag < Second

\* In every count of frames one was drawn, late or sped up as the machine
\* may be, and every count ends: the test for exactly the frame rate is never
\* stepped over, whenever the rate changes.
PictureGoesOn == count < rate /\ (count > 0 => drawn > 0)
=============================================================================
