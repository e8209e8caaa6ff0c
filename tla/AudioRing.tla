----------------------------- MODULE AudioRing -----------------------------
(***************************************************************************)
(* The sound ring of the mainboard (cpc-mainboard.cc) and the two threads  *)
(* that share it.                                                          *)
(*                                                                         *)
(* The main thread emulates one video frame per Mainboard::clock(), under  *)
(* the mutex of the audio processor, and stores a sample at each tick of   *)
(* the sound clock when the ring is not full.  The audio thread runs       *)
(* Mainboard::process() under the same mutex and plays until the ring is   *)
(* empty or the device has what it asked for.  Mainboard::reset(), on the  *)
(* main thread, rewrites the ring WITHOUT the mutex, so each of its stores *)
(* may fall between two accesses of a process() that is under way.  That   *)
(* is a data race: an access of process() to an index may then use the     *)
(* value in memory or the one it already holds in a register.              *)
(*                                                                         *)
(* A sample is its rank among those accepted since the last reset; 0 is    *)
(* the 0.0f that reset() writes over the channels.  made and heard count   *)
(* the samples accepted and played: they are history, not code.            *)
(***************************************************************************)
EXTENDS Integers, FiniteSets

CONSTANTS
    Size,        \* SND_BUFSIZE
    FrameTicks,  \* most ticks of the sound clock in one Mainboard::clock()
    Count,       \* frames the device asks for in one callback
    Channels,    \* playback channels of the device
    MaxSamples   \* bound: samples accepted between two resets

ASSUME SizeAssumption == Size \in Nat \ {0, 1}
ASSUME BoundAssumption ==
    /\ FrameTicks \in Nat
    /\ Count \in Nat
    /\ Channels \in Nat
    /\ MaxSamples \in Nat

VARIABLES
    slots,       \* _audio.channel0/1/2
    rd,          \* _audio.rd_index
    wr,          \* _audio.wr_index
    mutex,       \* AudioProcessor::_mutex: "free" or its holder
    mpc,         \* main thread: "idle", "clock", then the stores of reset()
    ticks,       \* main thread: sound ticks left in this clock()
    zeroed,      \* main thread: the slot reset() clears next
    apc,         \* audio thread: "out", "check", "mix", "advance"
    left,        \* audio thread: frames still to render
    rdReg,       \* audio thread: its last value of rd_index
    wrReg,       \* audio thread: its last value of wr_index
    made,        \* history: samples accepted since the last reset
    heard        \* history: the last sample played since the last reset

mainVars  == <<mpc, ticks, zeroed>>
audioVars == <<apc, left, rdReg, wrReg>>
vars == <<slots, rd, wr, mutex, mainVars, audioVars, made, heard>>

Index   == 0 .. Size - 1
Silence == 0

Mutant_AdvanceWithoutWrap(i) == i + 1

Advance(i) == (i + 1) % Size

\* The steps from i to j around the ring.
Distance(i, j) == IF i <= j THEN j - i ELSE Size - i + j

Resetting == mpc \in {"zero", "clear_rd", "clear_wr"}

Mutant_RendersStereoOnly == Channels = 2

\* render() has a case for 1, 2 and 4 channels and plays nothing otherwise.
Renders == Channels \in {1, 2, 4}

Init ==
    /\ slots = [i \in Index |-> Silence]
    /\ rd = 0 /\ wr = 0
    /\ mutex = "free"
    /\ mpc = "idle" /\ ticks = 0 /\ zeroed = 0
    /\ apc = "out" /\ left = 0 /\ rdReg = 0 /\ wrReg = 0
    /\ made = 0 /\ heard = 0

-----------------------------------------------------------------------------
(* Main thread: Mainboard::clock()                                         *)

\* A paused machine returns at once: it has no tick of the sound clock.
ClockEnter ==
    /\ mpc = "idle"
    /\ mutex = "free"
    /\ mutex' = "main"
    /\ mpc' = "clock"
    /\ ticks' \in {0, FrameTicks}
    /\ UNCHANGED <<slots, rd, wr, zeroed, audioVars, made, heard>>

Mutant_FullNever == FALSE

Full == Advance(wr) = rd

\* clock_snd with room in the ring.
StoreSample ==
    /\ mpc = "clock" /\ ticks > 0
    /\ made < MaxSamples
    /\ ~Full
    /\ slots' = [slots EXCEPT ![wr] = made + 1]
    /\ wr' = Advance(wr)
    /\ made' = made + 1
    /\ ticks' = ticks - 1
    /\ UNCHANGED <<rd, mutex, mpc, zeroed, audioVars, heard>>

\* clock_snd with a full ring: the accumulated sample is dropped.
DropSample ==
    /\ mpc = "clock" /\ ticks > 0
    /\ Full
    /\ ticks' = ticks - 1
    /\ UNCHANGED <<slots, rd, wr, mutex, mpc, zeroed, audioVars, made, heard>>

ClockLeave ==
    /\ mpc = "clock"
    /\ ticks = 0 \/ made = MaxSamples
    /\ mutex' = "free"
    /\ mpc' = "idle"
    /\ ticks' = 0
    /\ UNCHANGED <<slots, rd, wr, zeroed, audioVars, made, heard>>

-----------------------------------------------------------------------------
(* Main thread: Mainboard::reset(), no lock taken                          *)

ResetBegin ==
    /\ mpc = "idle"
    /\ mpc' = "zero"
    /\ zeroed' = 0
    /\ UNCHANGED <<slots, rd, wr, mutex, ticks, audioVars, made, heard>>

Mutant_ResetKeepsSlot ==
    /\ mpc = "zero"
    /\ zeroed' = Advance(zeroed)
    /\ mpc' = IF zeroed = Size - 1 THEN "clear_rd" ELSE "zero"
    /\ UNCHANGED <<slots, rd, wr, mutex, ticks, audioVars, made, heard>>

ResetSlot ==
    /\ mpc = "zero"
    /\ slots' = [slots EXCEPT ![zeroed] = Silence]
    /\ zeroed' = Advance(zeroed)
    /\ mpc' = IF zeroed = Size - 1 THEN "clear_rd" ELSE "zero"
    /\ UNCHANGED <<rd, wr, mutex, ticks, audioVars, made, heard>>

ResetRd ==
    /\ mpc = "clear_rd"
    /\ rd' = 0
    /\ mpc' = "clear_wr"
    /\ UNCHANGED <<slots, wr, mutex, ticks, zeroed, audioVars, made, heard>>

ResetWr ==
    /\ mpc = "clear_wr"
    /\ wr' = 0
    /\ mpc' = "idle"
    /\ made' = 0 /\ heard' = 0
    /\ UNCHANGED <<slots, rd, mutex, ticks, zeroed, audioVars>>

-----------------------------------------------------------------------------
(* Audio thread: Mainboard::process()                                      *)

Mutant_ProcessEnterUnlocked ==
    /\ apc = "out"
    /\ apc' = "check"
    /\ left' = Count
    /\ rdReg' = rd /\ wrReg' = wr
    /\ UNCHANGED <<slots, rd, wr, mutex, mainVars, made, heard>>

ProcessEnter ==
    /\ apc = "out"
    /\ mutex = "free"
    /\ mutex' = "audio"
    /\ apc' = "check"
    /\ left' = Count
    /\ rdReg' = rd /\ wrReg' = wr
    /\ UNCHANGED <<slots, rd, wr, mainVars, made, heard>>

\* index < count and rd_index != wr_index: go on with the loop.
CheckMore ==
    /\ apc = "check" /\ Renders /\ left > 0
    /\ \E r \in {rd, rdReg}, w \in {wr, wrReg} :
          /\ r # w
          /\ rdReg' = r /\ wrReg' = w
    /\ apc' = "mix"
    /\ UNCHANGED <<slots, rd, wr, mutex, mainVars, left, made, heard>>

\* The end of process(): nothing left to render, or an empty ring.
ProcessLeave ==
    /\ apc = "check"
    /\ \/ ~Renders
       \/ left = 0
       \/ \E r \in {rd, rdReg}, w \in {wr, wrReg} : r = w
    /\ mutex' = "free"
    /\ apc' = "out"
    /\ left' = 0 /\ rdReg' = 0 /\ wrReg' = 0
    /\ UNCHANGED <<slots, rd, wr, mainVars, made, heard>>

\* mix_mono, mix_stereo, mix_surround40: the slot at rd_index is played.
Mix ==
    /\ apc = "mix"
    /\ \E r \in {rd, rdReg} :
          /\ rdReg' = r
          /\ heard' = IF slots[r] = Silence THEN heard ELSE slots[r]
    /\ apc' = "advance"
    /\ UNCHANGED <<slots, rd, wr, mutex, mainVars, left, wrReg, made>>

\* rd_index = (rd_index + 1) % SND_BUFSIZE: a load, then the store.
AdvanceRd ==
    /\ apc = "advance"
    /\ \E r \in {rd, rdReg} :
          /\ rd' = Advance(r)
          /\ rdReg' = Advance(r)
    /\ left' = left - 1
    /\ apc' = "check"
    /\ UNCHANGED <<slots, wr, mutex, mainVars, wrReg, made, heard>>

-----------------------------------------------------------------------------
Main  == \/ ClockEnter \/ StoreSample \/ DropSample \/ ClockLeave
         \/ ResetBegin \/ ResetSlot \/ ResetRd \/ ResetWr
Audio == ProcessEnter \/ CheckMore \/ ProcessLeave \/ Mix \/ AdvanceRd

Next == Main \/ Audio

Spec == Init /\ [][Next]_vars

(***************************************************************************)
(* A thread that is running goes on.  The device calls back for ever, and  *)
(* the main thread sleeps in the event loop between two frames, so the     *)
(* audio thread does get the mutex when it is free again and again.  No    *)
(* user is obliged to reset or to play: ClockEnter and ResetBegin are not  *)
(* fair.                                                                   *)
(***************************************************************************)
Fairness ==
    /\ WF_vars(StoreSample \/ DropSample \/ ClockLeave)
    /\ WF_vars(ResetSlot \/ ResetRd \/ ResetWr)
    /\ WF_vars(CheckMore \/ ProcessLeave \/ Mix \/ AdvanceRd)
    /\ SF_vars(ProcessEnter)

FairSpec == Spec /\ Fairness

-----------------------------------------------------------------------------
(* Properties                                                              *)

TypeOK ==
    /\ slots \in [Index -> 0 .. MaxSamples]
    /\ rd \in Index /\ wr \in Index
    /\ mutex \in {"free", "main", "audio"}
    /\ mpc \in {"idle", "clock", "zero", "clear_rd", "clear_wr"}
    /\ ticks \in 0 .. FrameTicks
    /\ zeroed \in Index
    /\ apc \in {"out", "check", "mix", "advance"}
    /\ left \in 0 .. Count
    /\ apc \in {"mix", "advance"} => left > 0
    /\ rdReg \in Index /\ wrReg \in Index
    /\ made \in 0 .. MaxSamples
    /\ heard \in 0 .. MaxSamples

\* Where the next sample will be read: between Mix and AdvanceRd the slot at
\* rd_index has been played already.
NextRd == IF apc = "advance" THEN Advance(rdReg) ELSE rd

Occupied(i) == Distance(i, wr) \in 1 .. Distance(NextRd, wr)

\* Outside reset() the samples not heard yet are the newest slots of the ring,
\* in the order clock() stored them, and whatever a reset() that raced with
\* process() left between rd_index and them is silence: indices torn by the
\* missing lock delay the sound, they never lose, repeat or reorder it.
WaitingInOrder ==
    ~Resetting =>
        /\ made - heard \in 0 .. Distance(NextRd, wr)
        /\ \A i \in Index : Occupied(i) =>
              slots[i] = IF Distance(i, wr) <= made - heard
                         THEN made + 1 - Distance(i, wr)
                         ELSE Silence

\* The invariant WaitingInOrder needs.  Blank is the ring after a reset() and
\* before the next frame: while process() holds the lock it may still go round
\* with the indices of before, but there is nothing left to hear.
Blank ==
    /\ made = 0 /\ heard = 0
    /\ \A i \in Index : slots[i] = Silence

LockHeld ==
    /\ mutex = "main" <=> mpc = "clock"
    /\ mutex = "audio" <=> apc # "out"

Cleared ==
    /\ mpc = "zero" => \A i \in Index : i < zeroed => slots[i] = Silence
    /\ mpc \in {"clear_rd", "clear_wr"} => \A i \in Index : slots[i] = Silence

RegistersCurrent ==
    mpc \notin {"clear_rd", "clear_wr"} /\ apc # "out" =>
        \/ Blank
        \/ /\ rdReg = rd /\ wrReg = wr
           /\ apc \in {"mix", "advance"} => rd # wr

\* While reset() blanks the ring, the samples it did not reach yet are where
\* they were.
InPlace ==
    \A i \in Index :
        Occupied(i) => slots[i] \in {Silence, made + 1 - Distance(i, wr)}

\* What process() holds in registers is the ring in memory, or the ring is
\* blank: the race of reset() with process() never reaches a sample.
RingInv ==
    LockHeld /\ Cleared /\ RegistersCurrent /\ InPlace /\ WaitingInOrder

\* process() plays the samples clock() stored one by one, none skipped and none
\* twice, whatever reset() did to the indices before.
HeardInOrder ==
    [][~Resetting /\ ~Resetting' => heard' \in {heard, heard + 1}]_vars

\* The slots between rd_index and wr_index that hold a sample.
Waiting ==
    {[place |-> i, sample |-> slots[i]] :
        i \in {j \in Index : Occupied(j) /\ slots[j] # Silence}}

Fifo == INSTANCE AudioFifo WITH
    Places   <- Index,
    Capacity <- Size - 1,
    waiting  <- Waiting,
    accepted <- made,
    flushing <- Resetting

\* The ring, its two threads and the unlocked reset() implement AudioFifo.
RingIsFifo == Fifo!Spec

\* A sample accepted by clock() is played, unless a reset() comes first: the
\* audio thread does not miss it however the frames and the callbacks fall.
EverySampleHeard ==
    \A n \in 1 .. MaxSamples : (made = n) ~> (heard >= n \/ Resetting)
=============================================================================
