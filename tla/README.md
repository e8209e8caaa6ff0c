# A verification project for the Xcpc emulator core

Xcpc emulates the Amstrad CPC home computers (464, 664, 6128).  The program is a
GTK application around a C++ library that emulates the machine chip by chip.
This directory models the library's control logic in TLA+, checks it with TLC on
small instances, and proves the results that matter for every value of the
constants with TLAPS.

Paths below are relative to `src/lib/xcpc/amstrad` unless they start with `src/`.

## 1. Inventory

The machine is single threaded, with one exception: the audio device calls back
on a thread of its own.  Everything else (emulation of a frame, user interface,
disk insertion, snapshots, reset) runs on the GTK main thread, one handler after
the other; inside a frame the chips call each other through `Interface`
callbacks, so the hazards there are about the *order* of calls and about state
that one chip changes under another.

| component | state | operations | interacts with |
|---|---|---|---|
| mainboard `cpc/cpc-mainboard.cc` | clock accumulators, RAM/ROM configuration, `pal_rd`/`pal_wr` banks, flags, setup | `play`, `pause`, `reset`, `clock`, snapshots, disks, machine/monitor/refresh/company/renderer selection, port decoding | owns every chip, serves all their callbacks |
| sound ring (mainboard, `libxcpc.cc`) | three sample channels, `rd_index`, `wr_index`, accumulators, mutex | `clock` stores, `process` plays, `reset` clears | main thread and audio thread |
| gate array `vga/vga-core.cc` | pen, inks, mode, `r52`, `r02`, `frame_y`, recorded scanlines | `set_value`, `ack_interrupt`, `assert_hsync`, `assert_vsync`, `reset` | driven by the CRTC, raises the CPU interrupt |
| CRTC `vdc/vdc-core.cc` | 18 registers, character/line/scanline counters, sync counters | `clock`, `set_index`, `set_value`, `get_value`, `reset` | drives the gate array and `PPI` port B |
| CPU `cpu/cpu-core.cc` | registers, `IFF1/2`, pending INT/NMI, HALT, after-EI | `clock`, `pulse_int`, `pulse_nmi` | memory banks, I/O ports, interrupt acknowledge |
| floppy controller `fdc/fdc-core.cc`, `src/lib/lib765/765fdc.c` | command, parameter and result buffers with their positions and lengths, main status, ST0-ST3, current drive | `fdc_write_data`, `fdc_read_data`, `fdc_read_ctrl`, `fdc_set_motor`, `fdc_reset` | the drives |
| floppy drive `src/lib/lib765/765drive.c`, `765ldsk.c` | motor, ready, cylinder, file name, open image | seek, read, write, format, eject, insert | image files through libdsk |
| PPI `ppi/ppi-core.cc` | three ports, directions, control | port reads and writes, control word | PSG bus control, keyboard line, tape |
| PSG `psg/psg-core.cc` | 16 registers, three tone generators, noise, envelope | `clock`, `set_index`, `set_value`, `get_value` | PPI, keyboard matrix through port A |
| keyboard `kbd/kbd-core.cc` | 16 matrix lines, selected line | key press/release, joystick, `set_line`, `get_data` | PSG port A, window events |
| memory `mem/mem-core.cc` | 16 KiB banks | load, fetch, store, reset | `pal_rd`/`pal_wr` |
| snapshots `src/lib/xcpc/formats/sna` | header and RAM image | load, save | mainboard |
| disk images `src/lib/xcpc/formats/dsk` | image builder | create | insert disk |
| machine, backend, audio device `cpc/cpc-machine.cc`, `libxcpc.cc` | callbacks, attached processor, device | start, stop, attach, detach, event entry points | GTK widget, miniaudio |
| GTK emulator widget `src/src/gtk3ui/gtkemulatorx11.c`, `gtkemulatorogl.c` | timer, throttled event ring, joystick emulation | timeout handler, event throttle and dispatch | machine backend |
| application `src/src/gtk3ui/xcpc-application.cc` | menus, play/pause state | user commands | machine |
| renderers, settings, command line, dialogs | display buffers, options | draw, parse | no control logic of their own |

### What makes each component correct, and what is hard about it

* **Sound ring.**  A sample that was accepted is played once and in order, and
  nothing from before a reset is played after it.  Hard: `reset()` stores to
  the indices and the channels without the lock `process()` holds, so each of
  its stores may fall between two accesses of the audio thread.
* **Gate array and CRTC.**  The interrupt counter `r52` sees every horizontal
  sync; interrupts keep a minimum distance (two for one screen line would
  corrupt every raster program) and do come while syncs come; no frame writes
  past the 576 recorded lines.  Hard: registers change while counters run, a late
  acknowledge clears bit 5 of the counter, vertical sync restarts the count two
  lines later.
* **CPU interrupt.**  A pulse is latched until it is taken, `EI` delays it by one
  instruction, `HALT` ends with it.
* **Floppy controller.**  The host sees the phases idle, command, execution,
  result in that order, each with exactly the bytes the command has.  Hard: the
  host drives it one byte at a time and may be out of step, the motor can stop in
  any phase, a disk can be inserted or removed between two bytes, a transfer can
  have zero bytes.
* **Memory map.**  `pal_rd`/`pal_wr` are what RAM configuration, ROM
  configuration and machine say, after every operation that changes any of them.
  Hard: eight call sites must all recompute; unsupported configurations keep the
  old banks, over which ROMs are switched on and off.
* **PPI and PSG bus.**  The wires behind an output port carry what the port
  holds, and a read reaches the keyboard line and the register selected *now*.
  Hard: a byte written to an input port waits until the direction changes; each
  change of port C moves the control lines of the sound chip, which latches the
  byte that port A drives at that moment; a snapshot restores through the same
  handlers.
* **Envelope and square waves.**  The level is the one the shape describes,
  a wave holds each level for its period, equal voices stay together.  Hard: shape
  and period are rewritten in the middle of a ramp or a count.
* **Keyboard and widget.**  A released key leaves the matrix; a tap is seen.
  Hard: release is decoded from the keysym at release time, by the shift, locks
  and modifiers of that time; shift is shared by many keys, the throttled event
  ring drops events when it is full, the joystick emulation by-passes the ring.
* **Snapshots.**  What is saved is restored, and gives the same machine again
  whatever ran in between.
* **Pace.**  The machine neither falls behind nor runs ahead, and a picture is
  drawn.  Hard: a late or suspended host, whole milliseconds, a frame count that
  ends on equality with a rate the user may change.

## 2. Plan

The order is that of the damage a fault does and of how little a test sees of
it: first the only true concurrency, then the control loop every program
depends on, then the component that writes to the user's files.

| step | modules | content | state |
|---|---|---|---|
| 1 | `AudioRing`, `AudioFifo`, `AudioRingProofs` | sound ring between two threads; refinement of a queue | done |
| 2 | `Vga`, `Vdc`, `CpuInt`, composed in `Raster`; `VgaProofs`, `VdcProofs`, `CpuIntProofs`, `RasterProofs` | gate array, CRTC, CPU interrupts, their wiring | done |
| 3 | `Fdc765`, `FdcPhases`, `FdcProofs` | floppy controller and drives; refinement of the phases, checked and proved | done |
| 4 | `PalMap` | memory windows after every call that changes a part of the configuration, snapshots included | done |
| 5 | `KeyInput`, `KeyInputProofs` | decoding at press and release, joystick emulation, throttled event ring of the widget | done |
| 6 | `Ports` | PPI directions, bus and register file of the sound chip, keyboard line, what a snapshot does with them | done |
| 7 | `Envelope`, `EnvGen`, `Voices` | envelope generator against the waveform its shape promises; square waves | done |
| 8 | `Pacing` | deadline, delay and drawn frames of `on_clock()` | done |
| 9 | types of the composed machine in `RasterProofs` | CRTC, gate array and CPU side by side | done |
| 10 | `BoardProofs` | the parts of `MCBoard` (steps 4, 6, 7, 8) and their composition, proved | done |
| 11 | proofs of the ring's refinement, the frames of the CRTC, the keys | `RingImplementsFifo`, `VdcFramesExact`, `NoKeyStaysDown` | done |

What could come next: the part of `SteadyRate` that is safety, two requests of a
machine left alone being no further apart than the counter's period; the
status registers and the head positions of the floppy controller; the noise
generator.

## 3. Modules and the code

**`AudioRing`** (`cpc/cpc-mainboard.cc`).  `rd` and `wr` are `rd_index` and
`wr_index`, `slots` stands for the three channel arrays, which are always
accessed at one index; `Channels` is what the playback device has.  The main thread has a program counter and takes the steps
of `clock()` (`ClockEnter`, `StoreSample` or `DropSample`, `ClockLeave`, under the
mutex) and of `reset()` (`ResetBegin`, one `ResetSlot` per array entry,
`ResetRd`, `ResetWr`, without it).  A `ResetSlot` clears the entry in all three
arrays in one step, where the code stores them one after the other.  The audio thread takes those of `process()`:
`ProcessEnter` locks, `CheckMore`, `Mix` and `AdvanceRd` are the loop,
`ProcessLeave` unlocks.  A sample is its serial number.  **`AudioFifo`** is the
queue it implements: the samples that wait, each in a place of its own, and the
last one heard.  Under the mapping the places are the indices of the ring, and
only the slots that hold a sample count, since a reset leaves silence behind.

**`Vga`** (`vga/vga-core.cc`).  The sync levels are inputs: `SyncChanges` is any
change a CRTC may report, `Sync` the two calls it makes.  `Raise` is the call
that requests an interrupt.  The other actions are the four handlers
`set_value()` (three functions of it), `ack_interrupt()` and `reset()`.

**`Vdc`** (`vdc/vdc-core.cc`).  `Clock` is `clock()`, split into `Horizontal` and
`Vertical`; bytes wrap at `Byte`, the sync counters at `SyncMod`.
`SetIndex`, `SetValue` and `Reset` are the other operations.  `Regular` says for which
registers a frame can be exact.  One of its conjuncts, that a vsync begun at
the end of R7's row is over before that row comes again, was found in the
proof: without it a vsync that a write made late delays the one of the next
frame, frame after frame, with registers that nobody touches.

**`CpuInt`** (`cpu/cpu-core.cc`, `cpu-microcode.inc`).  `Clock` is one call of
`clock()`: `Wait` while `i_period` counts, otherwise the labels `check_nmi`
(`TakeNmi`), `check_int` (`TakeInt`), `check_hlt` (`Halted`) and the execution of
one instruction (`Execute`).  `PulseInt`, `PulseNmi` and `Reset` come from outside.

**`Raster`** composes the three with INSTANCE, the sync levels shared.
`VdcClock` is one clock of the CRTC with every callback it causes: the gate
array's two handlers and the pulse of the CPU's interrupt.  `CpuTakesInt`
acknowledges to the gate array; `CpuWrites` is an output instruction, which may
select both chips; `phase` is the position in the loop of `Mainboard::clock()`.

**`Fdc765`** (`src/lib/lib765/765fdc.c`, `765ldsk.c`, `fdc/fdc-core.cc`).
`WriteData` and `ReadData` are the two accesses to the data register, with one
action for each branch in them (`PassByte`, `GiveUp`, `FirstByte`, `NextByte`,
`ReadResult`); `Execute` dispatches the commands, each an action of its own.
`MotorOn` and `MotorOff` are `fdc_set_motor()` as the mainboard calls it, for both
drives at once; `ChangeDisk` is the user, `Reset` the reset of controller and
drives.  `mainstat` names the five values of the main status.  An image is opened
when `fdl_isready()` is asked with the motor running, and forgotten when it cannot
be opened: `Asked` is that question, put by a command that addresses a drive,
by SENSE DRIVE, and by the start of the motor for the drive addressed last.
**`FdcPhases`** is what a host may rely on: phases in order, each with its bytes.
A reset, or a stop of the motor that cuts a command off, may come in any of its
states, whoever makes it.

**`Ports`** (`ppi/ppi-core.cc`, `psg/psg-core.cc`, the wires in
`cpc/cpc-mainboard.cc`).  `port`, `ctrl` and `dir` are the latches, `ctrl_p` and
the directions of the 8255; `bus` and `data` are the wires behind ports C and A;
`psg` is the register file, in which the mixer says which of the I/O ports A
(the keyboard) and B (not connected) are outputs.  There is one action for each register access
(`ReadA` ... `WriteC`) and for each kind of control word (`SetMode`, `SetBit`), and
each contains every callback it causes: `DriveC` moves the control lines and
`Latched` is what `psg_update()` then does.  `PortsRestore` is `load_cpc()` of what
`save_cpc()` takes: all registers come back but those of I/O ports that the mixer
makes outputs, into which `set_port0()` and `set_port1()` store the 0xff that the
mainboard's callbacks return, as they do when a program writes there (`Kept`).
A keyboard line is the set of its bits, which bit words set one at a time.

**`PalMap`** (`cpc/cpc-mainboard.cc`).  `conf` is what `update_pal()` reads, `pal`
the two tables of four windows; a bank is a name.  `UpdatePal` is the function,
and the actions are its callers: the three set-ups a port write reaches, reset,
change of machine type, and the load of a snapshot.  `Configured` is the loop of
`load_expansions_roms()`.  The history `filed` is a snapshot on the user's disk:
`PalSave` writes it, `PalLoad` reads it or another one, any number of steps later.
It remembers the machine (memory size, expansion ROMs) and the windows it stands
for, and whether it stands for any: one saved under an unknown RAM configuration
does not, until it was loaded once.

**`EnvGen`** (`psg/psg-core.cc`) is the envelope generator as the code has it: a
level, a phase and the table `cycles` of 16 shapes by 2 phases.  **`Envelope`** is
what the four bits of a shape mean: `EnvelopeAt`, the level after n steps.
**`Voices`** are the three square waves with the fixups that keep voices of one
period together; `alone` and `held` are histories, the clocks since a period was
written and since each level was taken.

**`Pacing`** (`cpc/cpc-mainboard.cc`).  `OnClock` is one call of `on_clock()`; time is
relative to the deadline, and each call comes later than it was asked to by one
of `Delays`.  `PacingReset` and `SetRefreshRate` are the two other operations that
touch the deadline.

**`KeyInput`** (`kbd/kbd-core.cc`, `src/src/gtk3ui/gtkemulatorx11.c`).  `KeyPress` and
`KeyRelease` are the handlers of the widget, each followed to its end: a repeat,
a direction of the emulated joystick, a switch of the emulation, or an event in
the ring `list`.  `Selected` is the legend that `XLookupString()` takes from the state
in the event: by the left shift key, which is a key of `Keys`, and by `mods`, the
locks (Caps, Num), AltGr, the right shift key and the rest, which change with
`ModifiersChange`.  `SetJoystickEmulation` is the switch in the menu.  `Timeout` is the
timer: a frame, then `Process`, which passes the run of equal events at the head
of the ring to the keyboard's `matrix` and to `row15`, where the code keeps the shift
of the legend it decoded last, of a press and of a release alike (`keys[0x0f]`; a
program may read it as a sixteenth line, and it stays until the next legend).
`held` and `mishap` are history.  `ShiftAssumption` makes the shift key of the model the
left one.

`MCBoard` puts `Ports`, `PalMap`, `EnvGen`, `Voices` and `Pacing`, which share no state,
side by side in one run: `part` says which of them a behaviour is about, the
others rest.  `MCVdc`, `MCRaster` and `MCKeyInput` give the constants that are
functions their values.  The
definitions named `Mutant_...` are faults put in on purpose: each property is
checked to fail when a definition is replaced by one of them.

## 4. Runs

| run | bounds | shows |
|---|---|---|
| `audio_ring` | ring of 4, a device of 4 channels that asks for 2 frames a call, up to 3 sound ticks a frame, 8 samples | `HeardInOrder`, `RingInv`, `EverySampleHeard`, refinement `RingIsFifo` of `AudioFifo`; the ring fills, wraps twice and is reset at every point of `process()` |
| `gate_array` | period 5, threshold 3 (of 52 and 32), 3 lines, history to 9 lines | `CounterNotAhead`, `RequestsApart` |
| `crtc` | bytes of 2 bits, sync counters of 1 bit, six registers rewritten at any time with one or two values each (R2, the place of the hsync, stays) | `FrameExact`, `FramesGoOn` |
| `cpu_interrupts` | instructions of up to 3 T-states, word of 8 | `NmiKeepsEnable`, `EiShieldsOne`, `HaltEnds` |
| `raster` | 2 CPU clocks per character, 2 characters a line, 4 or 10 lines a frame, no history of the CRTC | `GateArrayAsSpecified`, `RequestsGoOn`, `SteadyRate` |
| `fdc` | one drive, two disks, sectors of 2 and 4 bytes, data length of 1 or none, a host that follows the status | refinement `PhasesAsPromised` of `FdcPhases`, `HostGetsDone` |
| `fdc_any_host` | two drives, two disks, six commands (SENSE DRIVE, which opens and forgets images, and READ TRACK, WRITE, FORMAT, SCAN, SENSE INT), counts to one below zero, a host that passes bytes at any time | `TransferHasCommand`, `WritesHitTarget` |
| `board`, ports | three byte values, three registers (mixer and both I/O ports), two keyboard lines, directions of port C whole or half; `PortsBound` | `BusFollowsPorts`, `ReadsSelectedLine`, `RestoreKeepsPorts` |
| `board`, memory | RAM values 0, 3, 8 (unknown) and 196 (masked to 4), ROM values 0 and 8, ROMs 7 and 8 named or not, any number of steps between save and load | `ReadsWhatItWrites`, `WindowsDisjoint`, `SnapshotGivesMap` |
| `board`, envelope | the true 32 levels, all 16 shapes, 130 steps after each write of the shape: two full periods of a triangle | `EnvelopeAsPromised` |
| `board`, voices | three channels, periods 0 (which stands still), 2 and 3 | `FlipsInTime`, `VoicesTogether` |
| `board`, pace | a second of 48 units, a millisecond of 3, rates 3 and 4, speed-up 1 and 10, calls late by up to two seconds | `Paced`, `PictureGoesOn` |
| `keyboard` | four keys (shift, the key of = and +, a direction, Home), two states of the modifiers, a ring of 3 slots; `HomeBound` | `NoKeyStuck`, `PressSeen`, `ReleaseArrives` |

The bounds keep the ratios that matter: the threshold lies above half of the
period and below it; a frame is shorter than a period (the restart decides) or
a whole number of them; totals can be put below, on and above their counter; a
transfer has from one to eight bytes, so that first, inner and last byte differ.
The parameter bytes of the controller are few enough to be kept in their true
number.  Nothing caps the number of commands, frames, resets or pulses; where a
history counts it stops at its bound (`Patience`, `MaxLines`, `Settling`, `MaxSamples`, `Horizon`).
In `fdc_any_host` a count is followed to `-Slack`: below zero it only falls.
In `board` a millisecond is no divisor of a frame, so that fractions are dropped;
in `keyboard` the user stops typing at the first of five mishaps (`mishap`), which no
handler makes up for, while frames and resets go on after it: the emulation
switched with a direction down (`toggled`), a lock or a modifier changed under a key
whose legend depends on it (`relocked`), shift changed under a key (`relabelled`), a
release that found the ring full (`dropped`), the focus lost with a key down
(`unfocused`).  In the run the key of = is shifted without AltGr and the same key
unshifted with it, as a letter is with and without Caps Lock.

Two runs bound what comes from outside in the next-state relation of the MC
module, not in the models.  `PortsBound` uses port B of the 8255, on which nothing
depends, only while port A and the sound chip are as a reset leaves them, and
keeps the registers of the I/O ports at 0 or 255, one of them at 0.  `HomeBound`
lets the user hold Home with one other key at most.
The state counts on a desk machine: about 476,000 distinct states in
`fdc_any_host`, 191,000 in `board`, 190,000 in `keyboard`.

`fdc` leaves out READ TRACK and FORMAT, whose result phases are the subject of
`fdc_results`; `fdc_any_host` has them.  Both stop the motor only when idle or in
a transfer: what happens elsewhere is the finding of `fdc_motor`.  A READ or
FORMAT has at least one sector (`Counts`, `Tracks`): with none (a last sector
before the first) the transfer starts with a count of 0, its first byte takes
it to -1, and the test for exactly 0 does not end the phase, which is the code's
behaviour and is seen without a run.

Runs that end in a counterexample, each against a sentence of the repository:

| run | disagreement |
|---|---|
| `cpu_im_0_1` | `IM 0/1` (ED 4E) selects a mode that interrupts do not handle; the T-state counter wraps and the CPU stands still. `doc/FEATURES.md` promises the undocumented instructions |
| `fdc_results` | READ TRACK, and FORMAT on a drive that is not ready, enter a result phase without results ("Ready to return results") |
| `fdc_motor` | stopping the motor in the command phase of WRITE writes the buffer to the disk ("Called when execution phase finishes") |

Read beside it, without a run: `fdc_write()` and `fdc_scan()` honour the data
length DTL for every size code (`765fdc.c:504`), while the comment in `fdc_read()`
(`765fdc.c:439`) says it counts only where the size code is 0.  `WriteLen` and
`ReadLen` are as the code has them.

What the mishaps of the keyboard look like in the code.  Caps Lock on, press a
letter: the press is decoded as `XK_A` with `SFT_KEY` (`kbd-core.cc:257`), which holds the
machine's shift.  Caps Lock off, release it: `XK_a` with `SET_KEY` (`kbd-core.cc:353`) gives
back the letter only, and the machine's shift stays pressed until the left
shift key or a legend that needs it is typed.  Num Lock does so to the keypad,
AltGr to a key with a third legend.  The right shift key too: it selects the
second legend of a key, but has no place in the matrix.  Hold it, press the key
of 5 and %, let go of shift, then of the key: the press was that of %, the release
that of 5.  With the left shift key its own release lifts it.

Three more facts, about snapshots and set-up.  A snapshot saved after a bit
word of port C holds that word where the mode word was (`ppi-core.cc:177`) and loses
the directions; `RestoreKeepsPorts` is stated for the others.  Without an option
for expansion 7 the loop at `cpc-mainboard.cc:1476` goes on without its index, so
that later options have no effect; `Configured` has it so.  A host clock that is
set back makes `on_clock()` wait for it (`cpc-mainboard.cc:1165`); `Pacing` takes the
clock to go forward.

## 5. Fairness

* `audio_ring`: the device goes on calling `process()` and a call that has
  begun goes on; nothing is assumed of the main thread beyond finishing what it
  holds the mutex for.
* `crtc`, `cpu_interrupts`, `raster`: the loop of `Mainboard::clock()` goes
  on clocking CRTC and CPU.  No program is obliged to write, enable or
  acknowledge; `RequestsGoOn` and `SteadyRate` say what follows if it stops
  writing registers, and the latter if it acknowledges before the counter has
  reached the threshold.
* `keyboard`: the main loop of GTK runs the timer again and again (`WF_vars(Timeout)`);
  a resize of the window only postpones it.  Nothing is assumed of the user.
* `fdc`: the controller does nothing by itself, so the property is
  conditional on the host: `DiligentHost` says that one that can pass a byte in
  the direction the status asks for does so in the end.

## 6. Proofs

All results below are for every value of the constants that satisfies the named
assumptions (`ASSUME` in the module that declares them); TLC evaluates those on
the runs.

Every safety property that a run checks on the models is stated by a theorem.

* **`AudioRingProofs`**: `TypeCorrect`, `RingInvariant`, `PlayedInOrder`.  The inductive
  invariant relates the slots between `rd` and `wr` to the serial numbers
  accepted, says which program counters may hold the mutex, and bounds what a
  half-done reset has put out of step; `HeardInOrder` alone is not inductive,
  because it says nothing about the slots that will be read next.
  `RingImplementsFifo` maps each access of either thread to a step of `AudioFifo` or a
  stutter.  For it the invariant needs `InPlace`: while a reset blanks the ring, each
  slot between the indices holds silence or the very sample of its place.
  Without it the audio thread could take, in the middle of a reset, a sample
  that is not the oldest.
* **`VgaProofs`**: `TypeCorrect`, `NotAhead`, `Apart`.  The argument: each action
  either adds one to the counter and to the lines since the last request, or
  lowers the counter, so it stays behind; a request needs the counter at the
  threshold, hence as many lines.
* **`VdcProofs`**: `VdcTypes`; `VdcFramesExact`, from the invariant `Settled`.  A write may leave
  every counter beyond its total, so the invariant says what is known one, two
  and three frames after the last write: the counters are within the frame
  (`InFrame`), the vsync that was under way may be late once (`VsyncMayBeLate`) and then
  is in its place, the hsync likewise, and the history has counted the lines of
  the frame (`LinesCounted`).  Beside `Regular` it takes `MaskAssumption`, the widths that
  `reset_mask()` gives the registers.
* **`CpuIntProofs`**: `NmiTransparent`, `EiShields`, from one invariant on the flags
  (the shadow is set exactly when EI was the last instruction); `CpuTypeCorrect`,
  of which the counter of T-states is the part with something to show.
* **`RasterProofs`**: `MachineDrivesGateArray` shows that every step of the
  composition is a step or a stutter of `Vga`; the one lemma it needs is that
  the CRTC's clock keeps the levels Boolean.  `MachineRequestsApart` transfers
  `Apart` to the machine, and `MachineFramesExact` does so with `VdcFramesExact`, each step of
  the machine being one of the CRTC or leaving it alone.  The latter names
  `MaskAssumption` as a hypothesis, since `MCRaster` runs with smaller registers that
  do not keep it.  `RasterTypeCorrect` is the type of the whole machine, transferred from the
  modules of the three chips.  `ChipsAssumption` collects what they ask of the constants.
* **`FdcProofs`**: `TransferOwned` for any host (the property is inductive as it
  stands); `WritesReachTarget` from the strengthening `WriteInv`: during a write
  transfer of WRITE or FORMAT an open image is the target, because changing a
  disk closes it, and nothing opens one again before the transfer ends: no command
  begins, and the motor, which runs all the time, does not start.  In a SCAN, which
  transfers with the motor stopped too and writes nothing, a starting motor may
  open another disk.  It assumes `MotorStopsInTransfer`; `fdc_motor` shows that it
  cannot do without.  `FdcTypeCorrect` holds for any host: a count of command bytes
  left never falls below zero.  `ImplementsPhases` proves the refinement
  of `FdcPhases` for a careful host (`CarefulHost`: it follows the status, keeps away from READ
  TRACK and FORMAT, stops the motor only when idle or in a transfer, and
  transfers something with each READ and WRITE);
  every step maps to a step of the phases or a stutter.  `PowerAssumption`, that a
  power of two of a size code is a positive number, is a fact of arithmetic which
  the provers have no induction for.
* **`KeyInputProofs`**: `KeysTypeCorrect`; `TapIsSeen`, since a frame takes a run of equal events
  from the ring; `NoKeyStaysDown`.  That no key is stuck when all are up says nothing
  about the way there, so `KeyInv` accounts for every position of the matrix at all times: by
  a key that is down, by a direction of the joystick, or by a release still in
  the ring behind it.  A key that is down accounts for the positions of the legends
  it was pressed with, which its release gives back unless a mishap happens, and for
  the machine's shift key if its legend without the left shift key holds it.  Where the run of equal events ends is the least
  number of a set (`WFMin`), which exists without an induction over the ring.
* **`BoardProofs`**, part by part:
  - ports: `PortsTypeCorrect`; `WiresFollowPorts`, from which `KeyboardLineRead`
    follows, since the line the bus carries is then that of port C; `RestoreExact`,
    from any state whose ports agree with their wires, for every set of registers
    and every mixer value;
  - memory: `PalTypeCorrect`, `MapFollowsConfiguration`, `BanksApart`,
    all from `PalInv`: the windows are those of the present configuration if it is
    known, and no two of them write to one bank if it is not, because they are
    then those of an earlier one that was.  `SnapshotBringsMapBack` needs more, since
    anything may happen between a save and a load: `FiledGood`, that the windows
    filed are a function of the registers and the machine filed beside them (the
    windows of a reset where the configuration is unknown), which no later step
    disturbs;
  - pace: `PacingTypeCorrect`, `PaceKept`, `PictureKept`.  `Paced` is not inductive: it
    has to be known that the delay asked for covers the time ahead but for the
    fraction of a millisecond it drops (`DelayCoversLead`);
  - voices: `VoicesTypeCorrect`, `VoicesStayTogether`; `VoicesFlipInTime`, from an invariant
    that ties the counter of each wave to the clocks for which its level was held
    (`LevelCounted`).  It holds from one clock after the last write, which brings every
    count below its period and equal voices together (`CountTogether`), so that the
    fixups rest; the level under way may still be cut short, and is over when a
    whole period has passed;
  - envelope: `EnvelopeTypeCorrect`; `EnvelopeKept`, for every number of levels and all 16 shapes.
    The level alone is not inductive: `PhaseFits` adds that the phase is the one the
    steps taken so far have reached, which is arithmetic of remainders;
  - `BoardIsItsParts`: a behaviour of the composition is one of each part, so that all
    of the above hold in it; `BoardTypeCorrect` is the type of the whole.

Only model-checked is what is temporal under fairness, which the prover does not
reach: `EverySampleHeard`, `FramesGoOn`, `HaltEnds`, `RequestsGoOn`, `SteadyRate`,
`HostGetsDone`, `ReleaseArrives`.

## 7. What the models leave out

Of the modelled components: sample values and mixing; colours and pixel tables;
the CRTC registers that steer no counter, the cursor and the light pen; the
effect of instructions on registers and memory; ST0-ST3 and the contents of
sectors, head positions, and the digital output register, which the machine
never uses; units 2 and 3, to which no drive is attached; write protection and
the controller's interrupt line, which the machine never sets up; the bytes in
the memory banks; the tape bits and the group modes of the 8255; noise,
amplitudes and mixer of the sound chip; the buttons of the joystick, which are
handled like keys, the machine's control key, which some legends hold (`EXT_KEY`) as
others hold its shift key, and the change of keyboard type; of a snapshot, the
registers of CPU, gate array and CRTC, which are copied one by one.

The order of the hsync and vsync callbacks of one CRTC clock is as in the code,
but no property depends on it: `GateArrayAsSpecified` sees a callback too many or
too few.  The CPU's non-maskable interrupt is modelled as `cpu-core.cc` handles it;
nothing in the emulator makes one, so `NmiKeepsEnable` is about a user of that class.

Two facts outside the models are worth knowing: row 0 of the line table is never
recorded, since the first hsync of a frame moves to row 1 while the renderers
start at 0; and a snapshot may load two interrupt flip-flops that differ, which
is why `NmiKeepsEnable` is stated from a reset.

Not modelled at all: the instruction set of the CPU, the second drive type of the
library, which the machine never creates, display and renderers, the image
builder, the tape stub, machine and backend, application, wrappers, and the
vendored libraries, which are the greater part of the source.  The reasons are
in `PROJECT.json`: they transform data in sequence, pass calls on, or are not part
of the emulator's own logic.
