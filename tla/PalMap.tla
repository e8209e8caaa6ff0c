------------------------------- MODULE PalMap -------------------------------
(***************************************************************************)
(* The memory map of the machine: the four windows of 16K through which    *)
(* the CPU reads and writes (cpu_mreq_rd(), cpu_mreq_wr()), and the        *)
(* configuration they are computed from.  update_pal() is called by every  *)
(* handler that changes a part of the configuration, and keeps the windows *)
(* it finds when the RAM configuration is one it does not know.            *)
(*                                                                         *)
(* A snapshot holds the registers of the configuration, and neither the    *)
(* windows nor the machine.  The two firmware ROMs exist since the         *)
(* constructor; an expansion ROM exists once it was loaded.                *)
(***************************************************************************)
EXTENDS Integers

CONSTANTS
    RamValues,  \* bytes written to the RAM configuration or held by a snapshot
    RomValues,  \* bytes written to the ROM selection
    Options     \* expansions the settings may name

ASSUME PalAssumption ==
    /\ RamValues \subseteq 0 .. 255 /\ 0 \in RamValues
    /\ RomValues \subseteq 0 .. 255 /\ 0 \in RomValues
    /\ Options \subseteq 0 .. 15

VARIABLES
    conf,   \* the configuration, a record
    pal,    \* [rd, wr]: the bank behind each window for a read and a write
    filed   \* history: the snapshot saved or loaded last, the machine it was
            \* for, and the windows it stands for

palVars == <<conf, pal, filed>>

\* wide: memory_size is 128K; ram and rom: _state.ram_conf and rom_conf;
\* lower and upper: bits 2 and 3 of vga->rmr, TRUE is ROM on; exp: the
\* expansions that have a ROM.
Configuration ==
    [wide : BOOLEAN, ram : 0 .. 255, rom : 0 .. 255,
     lower : BOOLEAN, upper : BOOLEAN, exp : SUBSET (0 .. 255)]

Windows == 0 .. 3
Ram(n) == [kind |-> "ram", n |-> n]
Lower == [kind |-> "lower", n |-> 0]
Upper == [kind |-> "upper", n |-> 0]
Expansion(n) == [kind |-> "exp", n |-> n]
RamBanks == {Ram(n) : n \in 0 .. 7}
RomBanks == {Lower, Upper} \cup {Expansion(n) : n \in 0 .. 255}

\* What a snapshot holds of a configuration.
MapRegisters == [ram : 0 .. 255, rom : 0 .. 255, lower : BOOLEAN, upper : BOOLEAN]

-----------------------------------------------------------------------------
(* update_pal()                                                            *)

Masked(value) == value % 64
Known(c) == c.wide => Masked(c.ram) \in 0 .. 7

RamMap(c) ==
    LET ram == IF c.wide THEN Masked(c.ram) ELSE 0
    IN [w \in Windows |->
          Ram(CASE ram = 2 -> w + 4
                [] ram = 3 /\ w = 1 -> 3
                [] ram \in {1, 3} /\ w = 3 -> 7
                [] ram \in 4 .. 7 /\ w = 1 -> ram
                [] OTHER -> w)]

UpperRom(c) == IF c.rom \in c.exp THEN Expansion(c.rom) ELSE Upper

WithRoms(c, map) ==
    [w \in Windows |->
       CASE w = 0 /\ c.lower -> Lower
         [] w = 3 /\ c.upper -> UpperRom(c)
         [] OTHER -> map[w]]

Mutant_RomsOnlyAdded(c, p) ==
    [wr |-> IF Known(c) THEN RamMap(c) ELSE p.wr, rd |-> WithRoms(c, p.rd)]

Mutant_UnknownShares(c, p) ==
    IF Known(c)
    THEN [wr |-> RamMap(c), rd |-> WithRoms(c, RamMap(c))]
    ELSE [wr |-> [p.wr EXCEPT ![1] = Ram(Masked(c.ram) % 8)],
          rd |-> WithRoms(c, p.rd)]

\* An unknown RAM configuration leaves the windows p as they are.
UpdatePal(c, p) ==
    IF Known(c)
    THEN [wr |-> RamMap(c), rd |-> WithRoms(c, RamMap(c))]
    ELSE [wr |-> p.wr, rd |-> WithRoms(c, p.rd)]

Setup(c) == conf' = c /\ pal' = UpdatePal(c, pal) /\ UNCHANGED filed

-----------------------------------------------------------------------------
(* Set-up                                                                  *)

\* A configuration with the registers regs: what a program and a snapshot set.
WithRegs(isWide, roms, regs) ==
    [wide |-> isWide, ram |-> regs.ram, rom |-> regs.rom,
     lower |-> regs.lower, upper |-> regs.upper, exp |-> roms]

\* The registers after a reset.  The windows they give do not depend on those
\* before, the RAM configuration 0 being known.
ResetRegs == [ram |-> 0, rom |-> 0, lower |-> TRUE, upper |-> TRUE]
Cleared(c) == WithRegs(c.wide, c.exp, ResetRegs)

\* save_cpc(): what a snapshot takes of a configuration.
Saved(c) == [ram |-> c.ram, rom |-> c.rom, lower |-> c.lower, upper |-> c.upper]

\* The snapshot of a machine in configuration c with the windows p.  It does
\* not stand for windows that an unknown configuration kept.
Filed(c, p, certain) ==
    [regs |-> Saved(c), wide |-> c.wide, exp |-> c.exp,
     map |-> p, certain |-> certain]

\* load_expansions_roms(): without an option for expansion 7 the loop keeps
\* that one and never gets past it.
Configured(before, named) ==
    IF 7 \in named THEN named
    ELSE (named \cap 0 .. 6) \cup (before \cap 7 .. 255)

NoWindows == [rd |-> [w \in Windows |-> Ram(0)], wr |-> [w \in Windows |-> Ram(0)]]

\* configure(): set_machine_type() loads AMSDOS as expansion 7 before the
\* options are looked at; then a reset, which replaces the null pointers.
PalInit ==
    \E isWide \in BOOLEAN, named \in SUBSET Options :
       /\ conf = WithRegs(isWide, Configured({7}, named), ResetRegs)
       /\ pal = UpdatePal(conf, NoWindows)
       /\ filed = Filed(conf, pal, TRUE)

-----------------------------------------------------------------------------
(* What changes the configuration                                          *)

\* vga_setup_ram(), vga_setup_rom(), vga_setup_rmr()
SetupRam(value) == Setup([conf EXCEPT !.ram = Masked(value)])
SetupRom(value) == Setup([conf EXCEPT !.rom = value])

SetupRmr(isLower, isUpper) ==
    Setup([conf EXCEPT !.lower = isLower, !.upper = isUpper])

PalReset == Setup(Cleared(conf))

\* set_machine_type() to another type: memory only grows, AMSDOS comes back,
\* then a reset.
SetMachineType(type) ==
    Setup(WithRegs(conf.wide \/ type = "cpc6128", conf.exp \cup {7}, ResetRegs))

PalSave ==
    /\ filed' = Filed(conf, pal, Known(conf))
    /\ UNCHANGED <<conf, pal>>

Mutant_LoadWithoutReset(snapshot) ==
    /\ conf' = WithRegs(conf.wide, conf.exp, snapshot)
    /\ pal' = UpdatePal(conf', pal)
    /\ filed' = Filed(conf', pal', TRUE)

\* load_cpc(): a reset, then the registers as the snapshot holds them, without
\* the mask of vga_setup_ram(), then update_pal().
PalLoad(snapshot) ==
    LET loaded == WithRegs(conf.wide, conf.exp, snapshot)
    IN /\ conf' = loaded
       /\ pal' = UpdatePal(loaded, UpdatePal(Cleared(conf), pal))
       /\ filed' = Filed(loaded, pal', TRUE)

Snapshots ==
    [ram : RamValues, rom : RomValues, lower : BOOLEAN, upper : BOOLEAN]

PalNext ==
    \/ \E value \in RamValues : SetupRam(value)
    \/ \E value \in RomValues : SetupRom(value)
    \/ \E isLower, isUpper \in BOOLEAN : SetupRmr(isLower, isUpper)
    \/ PalReset
    \/ \E type \in {"cpc464", "cpc664", "cpc6128"} : SetMachineType(type)
    \/ PalSave
    \/ \E snapshot \in Snapshots \cup {filed.regs} : PalLoad(snapshot)

PalSpec == PalInit /\ [][PalNext]_palVars

-----------------------------------------------------------------------------
(* Properties                                                              *)

PalTypeOK ==
    /\ conf \in Configuration
    /\ pal \in [rd : [Windows -> RamBanks \cup RomBanks],
                wr : [Windows -> RamBanks]]
    /\ filed.regs \in MapRegisters /\ filed.certain \in BOOLEAN

\* Where update_pal() knows the RAM configuration, a read finds the bank that
\* a write to the same address goes to, except where a ROM that is switched
\* on now lies over it: no change of the configuration leaves behind a ROM
\* that was switched off, or a bank of an earlier configuration.
ReadsWhatItWrites ==
    Known(conf) =>
       \A w \in Windows :
          /\ pal.wr[w] = RamMap(conf)[w]
          /\ pal.rd[w] = CASE w = 0 /\ conf.lower -> Lower
                           [] w = 3 /\ conf.upper -> UpperRom(conf)
                           [] OTHER -> pal.wr[w]

\* No two windows write to the same bank, even those that an unknown
\* configuration kept.
WindowsDisjoint ==
    \A v, w \in Windows : pal.wr[v] = pal.wr[w] => v = w

\* Loading a snapshot again on the same machine gives the windows it stands
\* for, whatever programs, resets and other snapshots did in between: those in
\* which it was saved, and where the RAM configuration is an unknown one, the
\* windows the first load gave.
SnapshotGivesMap ==
    [][/\ PalLoad(filed.regs) /\ filed.certain
       /\ conf.wide = filed.wide /\ conf.exp = filed.exp
       => pal' = filed.map]_palVars
=============================================================================
