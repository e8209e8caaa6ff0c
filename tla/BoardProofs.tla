---------------------------- MODULE BoardProofs ----------------------------
(***************************************************************************)
(* What holds of the five parts of the mainboard that share no state, for  *)
(* every value of their constants: first of each part by itself, then of   *)
(* the five together (module MCBoard).                                     *)
(***************************************************************************)
EXTENDS MCBoard, TLAPS

-----------------------------------------------------------------------------
(***************************************************************************)
(* What holds of the ports for every width of the bus, every set of        *)
(* registers and every matrix (module Ports).                              *)
(*                                                                         *)
(* A snapshot keeps the control word and not the directions, so that what  *)
(* it brings back depends on an invariant of its own: a mode word in       *)
(* ctrl_p is the one the directions come from.                             *)
(***************************************************************************)

DirsOfMode == ctrl.mode => dir = [a |-> ctrl.a, b |-> ctrl.b, c |-> ctrl.c]

PortsInv == PortsTypeOK /\ BusFollowsPorts /\ DirsOfMode

USE BytesAssumption, LinesAssumption, DirsAssumption

-----------------------------------------------------------------------------
(* The operators of the bus keep their types.                              *)

\* Whatever the bus does with a byte, the generator keeps its type.
LEMMA LatchedType ==
    ASSUME NEW pins \in PortC, NEW byte \in Bytes,
           NEW p \in [index : Bytes, regs : [Registers -> Bytes]]
    PROVE  Latched(pins, byte, p) \in [index : Bytes, regs : [Registers -> Bytes]]
<1>1. Kept(byte, p) \in Bytes
  BY DEF Kept
<1>2. CASE pins["bdir"] /\ pins["bc1"]
  BY <1>2 DEF Latched
<1>3. CASE pins["bdir"] /\ ~pins["bc1"] /\ p.index \in Registers
  BY <1>1, <1>3 DEF Latched
<1>4. CASE /\ ~(pins["bdir"] /\ pins["bc1"])
           /\ ~(pins["bdir"] /\ ~pins["bc1"] /\ p.index \in Registers)
  BY <1>4 DEF Latched
<1> QED BY <1>2, <1>3, <1>4

\* What port C holds names a keyboard line.
LEMMA LineType == \A c \in PortC : Line(c) \in Lines
BY DEF Line, Lines, PortC, Pins

\* A read of port A yields a byte.
LEMMA PortAReadType ==
    ASSUME PortsTypeOK, NEW given \in Bytes
    PROVE  PortARead(given) \in Bytes
<1>1. Line(bus) \in Lines /\ psg.regs \in [Registers -> Bytes]
  BY LineType DEF PortsTypeOK
<1>2. Matrix[Line(bus)] \in Bytes
  BY <1>1
<1>3. Driven(psg) \subseteq IoPorts
  BY DEF Driven
<1>4. RegisterRead(given) \in Bytes
  <2>1. CASE psg.index \in IoPorts \ Driven(psg)
    BY <1>2, <2>1 DEF RegisterRead
  <2>2. CASE psg.index \in (Registers \ IoPorts) \cup Driven(psg)
    <3>1. psg.regs[psg.index] \in Bytes
      BY <1>1, <1>3, <2>2
    <3> QED BY <2>2, <3>1 DEF RegisterRead
  <2>3. CASE psg.index \notin IoPorts \cup Registers
    BY <1>3, <2>3 DEF RegisterRead
  <2> QED BY <2>1, <2>2, <2>3
<1> QED BY <1>4 DEF PortARead

\* The two values that reset and reads leave in port C are values of port C.
LEMMA LevelsType == AllLow \in PortC /\ AllHigh \in PortC
BY DEF AllLow, AllHigh, PortC

\* Setting a bit of port C leaves a value of port C.
LEMMA WithBitType ==
    ASSUME NEW c \in PortC, NEW word \in BitWords
    PROVE  WithBit(c, word) \in PortC
<1>1. word.bit \in Pins /\ word.to \in BOOLEAN
  BY DEF BitWords
<1> QED BY <1>1, Zenon DEF WithBit, PortC

-----------------------------------------------------------------------------
(* The invariant                                                           *)

LEMMA PortsInitInv == PortsInit => PortsInv
<1> SUFFICES ASSUME PortsInit PROVE PortsInv
  OBVIOUS
<1>1. ClearBit0 \in BitWords /\ ~ClearBit0.mode
  BY DEF ClearBit0, BitWords, Pins
<1>2. NoRegisters \in [index : Bytes, regs : [Registers -> Bytes]]
  BY DEF NoRegisters
<1>3. AllOutputs \in [a : BOOLEAN, b : BOOLEAN, c : DirsC]
  BY DEF AllOutputs
<1>4. PortsTypeOK
  BY <1>1, <1>2, <1>3, LevelsType DEF PortsInit, PortsTypeOK
<1>5. BusFollowsPorts /\ DirsOfMode
  BY <1>1 DEF PortsInit, BusFollowsPorts, DirsOfMode, AllOutputs
<1> QED BY <1>4, <1>5 DEF PortsInv

\* Accesses to the three ports.
LEMMA AccessInv ==
    ASSUME PortsInv,
           \/ ReadA \/ ReadB \/ ReadC
           \/ \E byte \in Bytes : WriteA(byte) \/ WriteB(byte)
           \/ \E c \in PortC : WriteC(c)
    PROVE  PortsInv'
<1> USE DEF PortsInv
<1>1. CASE ReadA
  <2>1. PortARead(Zero) \in Bytes
    BY PortAReadType
  <2> QED BY <1>1, <2>1 DEF ReadA, NothingDriven, PortsTypeOK, BusFollowsPorts, DirsOfMode
<1>2. CASE ReadB
  BY <1>2 DEF ReadB, NothingDriven, PortsTypeOK, BusFollowsPorts, DirsOfMode
<1>3. CASE ReadC
  BY <1>3, LevelsType DEF ReadC, NothingDriven, PortsTypeOK, BusFollowsPorts, DirsOfMode
<1>4. ASSUME NEW byte \in Bytes, WriteA(byte) PROVE PortsInv'
  <2>1. Latched(bus, byte, psg) \in [index : Bytes, regs : [Registers -> Bytes]]
    BY LatchedType DEF PortsTypeOK
  <2> QED BY <1>4, <2>1 DEF WriteA, NothingDriven, DriveA, PortsTypeOK, BusFollowsPorts, DirsOfMode
<1>5. ASSUME NEW byte \in Bytes, WriteB(byte) PROVE PortsInv'
  BY <1>5 DEF WriteB, NothingDriven, PortsTypeOK, BusFollowsPorts, DirsOfMode
<1>6. ASSUME NEW c \in PortC, WriteC(c) PROVE PortsInv'
  <2>1. Latched(c, data, psg) \in [index : Bytes, regs : [Registers -> Bytes]]
    BY LatchedType DEF PortsTypeOK
  <2> QED BY <1>6, <2>1 DEF WriteC, NothingDriven, DriveC, PortsTypeOK, BusFollowsPorts, DirsOfMode
<1> QED BY <1>1, <1>2, <1>3, <1>4, <1>5, <1>6

\* A mode word: a port that becomes an output drives what it holds.
LEMMA SetModeInv ==
    ASSUME PortsInv, NEW word \in ModeWords, SetMode(word)
    PROVE  PortsInv'
<1> DEFINE Generators == [index : Bytes, regs : [Registers -> Bytes]]
           outA == dir.a /\ ~word.a
           outC == dir.c # {} /\ word.c = {}
           withA == IF outA THEN Latched(bus, port.a, psg) ELSE psg
<1>1. PortsTypeOK
  BY DEF PortsInv
<1>2. word.a \in BOOLEAN /\ word.b \in BOOLEAN /\ word.c \in DirsC /\ word.mode
  BY DEF ModeWords
<1>3. port.a \in Bytes /\ port.b \in Bytes /\ port.c \in PortC /\ bus \in PortC
      /\ data \in Bytes /\ psg \in Generators
  BY <1>1 DEF PortsTypeOK
<1>4. data' \in Bytes /\ bus' \in PortC
  BY <1>3 DEF SetMode
<1>5. withA \in Generators
  BY <1>3, LatchedType
<1>6. psg' \in Generators
  BY <1>3, <1>4, <1>5, LatchedType DEF SetMode
<1>7. PortARead(port.a) \in Bytes
  BY <1>1, <1>3, PortAReadType
<1>8. port' \in [a : Bytes, b : Bytes, c : PortC]
  BY <1>3, <1>7, LevelsType DEF SetMode
<1>9. PortsTypeOK'
  BY <1>2, <1>4, <1>6, <1>8 DEF PortsTypeOK, SetMode
<1>10. BusFollowsPorts'
  <2>1. ASSUME word.c = {} PROVE bus' = port'.c
    <3>1. port'.c = port.c
      BY <2>1 DEF SetMode
    <3>2. CASE dir.c = {}
      BY <2>1, <3>1, <3>2 DEF SetMode, PortsInv, BusFollowsPorts
    <3>3. CASE dir.c # {}
      BY <2>1, <3>1, <3>3 DEF SetMode
    <3> QED BY <3>2, <3>3
  <2>2. ASSUME ~word.a PROVE data' = port'.a
    <3>1. port'.a = port.a
      BY <2>2 DEF SetMode
    <3>2. CASE dir.a
      BY <2>2, <3>1, <3>2 DEF SetMode
    <3>3. CASE ~dir.a
      BY <2>2, <3>1, <3>3 DEF SetMode, PortsInv, BusFollowsPorts
    <3> QED BY <3>2, <3>3
  <2> QED BY <2>1, <2>2 DEF SetMode, BusFollowsPorts
<1>11. DirsOfMode'
  BY DEF SetMode, DirsOfMode
<1> QED BY <1>9, <1>10, <1>11 DEF PortsInv

\* A bit word.
LEMMA SetBitInv ==
    ASSUME PortsInv, NEW word \in BitWords, SetBit(word)
    PROVE  PortsInv'
<1>1. PortsTypeOK /\ BusFollowsPorts
  BY DEF PortsInv
<1>2. WithBit(port.c, word) \in PortC
  BY <1>1, WithBitType DEF PortsTypeOK
<1>3. Latched(WithBit(port.c, word), data, psg)
        \in [index : Bytes, regs : [Registers -> Bytes]]
  BY <1>1, <1>2, LatchedType DEF PortsTypeOK
<1>4. ~word.mode
  BY DEF BitWords
<1>5. CASE dir.c # {}
  BY <1>1, <1>4, <1>5
     DEF SetBit, NothingDriven, PortsTypeOK, BusFollowsPorts, DirsOfMode, PortsInv
<1>6. CASE dir.c = {}
  BY <1>1, <1>2, <1>3, <1>4, <1>6
     DEF SetBit, DriveC, PortsTypeOK, BusFollowsPorts, DirsOfMode, PortsInv
<1> QED BY <1>5, <1>6

\* A snapshot saved here and loaded.
LEMMA RestoreInv ==
    ASSUME PortsInv, PortsRestore
    PROVE  PortsInv'
<1> DEFINE written == IF ctrl.mode THEN port.c ELSE WithBit(port.c, ctrl)
<1>1. PortsTypeOK
  BY DEF PortsInv
<1>2. ctrl \in BitWords \/ (ctrl \in ModeWords /\ ctrl.mode)
  BY <1>1 DEF PortsTypeOK, ModeWords
<1>3. written \in PortC
  BY <1>1, <1>2, WithBitType DEF PortsTypeOK, BitWords
<1>4. dir' \in [a : BOOLEAN, b : BOOLEAN, c : DirsC]
  BY <1>2 DEF PortsRestore, AllOutputs, ModeWords, BitWords
<1>5. port' \in [a : Bytes, b : Bytes, c : PortC]
  BY <1>1, <1>3, LevelsType DEF PortsRestore, PortsTypeOK
<1>6. psg' \in [index : Bytes, regs : [Registers -> Bytes]]
  BY <1>1 DEF PortsRestore, PortsTypeOK
<1>7. PortsTypeOK'
  BY <1>1, <1>3, <1>4, <1>5, <1>6 DEF PortsRestore, PortsTypeOK
<1>8. BusFollowsPorts'
  BY DEF PortsRestore, BusFollowsPorts
<1>9. DirsOfMode'
  BY DEF PortsRestore, DirsOfMode
<1> QED BY <1>7, <1>8, <1>9 DEF PortsInv

LEMMA PortsStepInv == PortsInv /\ [PortsNext]_portsVars => PortsInv'
<1> SUFFICES ASSUME PortsInv, [PortsNext]_portsVars PROVE PortsInv'
  OBVIOUS
<1>1. CASE ReadA \/ ReadB \/ ReadC \/ (\E byte \in Bytes : WriteA(byte) \/ WriteB(byte))
             \/ (\E c \in PortC : WriteC(c))
  BY <1>1, AccessInv
<1>2. CASE \E word \in ModeWords : SetMode(word)
  BY <1>2, SetModeInv
<1>3. CASE \E word \in BitWords : SetBit(word)
  BY <1>3, SetBitInv
<1>4. CASE PortsReset
  <2>1. PortsInit'
    BY <1>4 DEF PortsReset, PortsInit
  <2> QED BY <2>1, PortsInitInv, PTL
<1>5. CASE PortsRestore
  BY <1>5, RestoreInv
<1>6. CASE UNCHANGED portsVars
  BY <1>6 DEF portsVars, ppiVars, PortsInv, PortsTypeOK, BusFollowsPorts, DirsOfMode
<1> QED BY <1>1, <1>2, <1>3, <1>4, <1>5, <1>6 DEF PortsNext

-----------------------------------------------------------------------------
(* Theorems                                                                *)

\* The ports, the bus and the generator keep their types, whatever a program
\* writes, resets and snapshots included.
THEOREM PortsTypeCorrect == PortsSpec => []PortsTypeOK
<1>1. PortsInv => PortsTypeOK
  BY DEF PortsInv
<1> QED BY PortsInitInv, PortsStepInv, <1>1, PTL DEF PortsSpec

\* While a port is an output, what lies behind it carries what it holds.
THEOREM WiresFollowPorts == PortsSpec => []BusFollowsPorts
<1>1. PortsInv => BusFollowsPorts
  BY DEF PortsInv
<1> QED BY PortsInitInv, PortsStepInv, <1>1, PTL DEF PortsSpec

\* A program that selected the keyboard's port and asks for a read gets the
\* line that port C names.
THEOREM KeyboardLineRead == PortsSpec => ReadsSelectedLine
<1> DEFINE Asks == /\ ReadA
                   /\ dir.a /\ dir.c = {} /\ ~port.c["bdir"] /\ port.c["bc1"]
                   /\ psg.index = IoPortA /\ IoPortA \notin Driven(psg)
           Gets == port'.a = Matrix[Line(port.c)]
<1>1. PortsInv => [Asks => Gets]_portsVars
  <2> SUFFICES ASSUME PortsInv, Asks PROVE Gets
    OBVIOUS
  <2>1. bus = port.c /\ port \in [a : Bytes, b : Bytes, c : PortC]
    BY DEF PortsInv, BusFollowsPorts, PortsTypeOK
  <2>2. PortARead(Zero) = Matrix[Line(port.c)]
    <3>1. psg.index \in IoPorts \ Driven(psg)
      BY DEF IoPorts
    <3>2. RegisterRead(Zero) = Matrix[Line(bus)]
      BY <3>1 DEF RegisterRead
    <3> QED BY <2>1, <3>2 DEF PortARead
  <2> QED BY <2>1, <2>2 DEF ReadA
<1> QED BY PortsInitInv, PortsStepInv, <1>1, PTL DEF PortsSpec, ReadsSelectedLine

\* A snapshot whose control word is a mode word brings back the directions,
\* the selected register, the outputs and every register but those of the I/O
\* ports that the mixer makes outputs.
THEOREM RestoreExact == PortsSpec => RestoreKeepsPorts
<1> DEFINE Kept_ == /\ dir' = dir
                    /\ psg'.index = psg.index
                    /\ \A r \in Registers \ Driven(psg) : psg'.regs[r] = psg.regs[r]
                    /\ dir.c = {} => bus' = bus /\ port'.c = port.c
                    /\ ~dir.a => data' = data /\ port'.a = port.a
<1>1. PortsInv => [PortsRestore /\ ctrl.mode => Kept_]_portsVars
  <2> SUFFICES ASSUME PortsInv, PortsRestore, ctrl.mode PROVE Kept_
    OBVIOUS
  <2>1. PortsTypeOK /\ BusFollowsPorts /\ DirsOfMode
    BY DEF PortsInv
  <2>2. dir' = dir
    BY <2>1 DEF PortsRestore, DirsOfMode
  <2>3. /\ psg'.index = psg.index
        /\ \A r \in Registers \ Driven(psg) : psg'.regs[r] = psg.regs[r]
    BY <2>1 DEF PortsRestore, PortsTypeOK
  <2>4. dir.c = {} => bus' = bus /\ port'.c = port.c
    BY <2>1, <2>2 DEF PortsRestore, BusFollowsPorts
  <2>5. ~dir.a => data' = data /\ port'.a = port.a
    BY <2>1, <2>2 DEF PortsRestore, BusFollowsPorts
  <2> QED BY <2>2, <2>3, <2>4, <2>5
<1> QED BY PortsInitInv, PortsStepInv, <1>1, PTL DEF PortsSpec, RestoreKeepsPorts

-----------------------------------------------------------------------------
(***************************************************************************)
(* What holds of the memory map for every set of values a program may      *)
(* write and every set of expansions (module PalMap).                      *)
(*                                                                         *)
(* That the windows do not depend on the history is inductive with their   *)
(* type alone, because each handler passes the windows it finds to         *)
(* update_pal(); that they stay apart under an unknown configuration needs *)
(* that they were apart before.                                            *)
(***************************************************************************)

Map == [Windows -> RamBanks]
ReadMap == [Windows -> RamBanks \cup RomBanks]
Maps == [rd : ReadMap, wr : Map]
Apart(p) == \A v, w \in Windows : p.wr[v] = p.wr[w] => v = w

\* The windows p are those of the configuration c.
Agrees(c, p) ==
    Known(c) => p = [wr |-> RamMap(c), rd |-> WithRoms(c, RamMap(c))]

\* The windows of a reset, and those of a snapshot loaded after it: they are
\* a matter of the machine and the snapshot alone.
ResetMap(c) == [wr |-> RamMap(Cleared(c)), rd |-> WithRoms(Cleared(c), RamMap(Cleared(c)))]
LoadedMap(isWide, roms, regs) ==
    LET loaded == WithRegs(isWide, roms, regs) IN UpdatePal(loaded, ResetMap(loaded))

\* The snapshot filed stands for the windows that loading it gives.
Standing(f) ==
    /\ f.regs \in MapRegisters /\ f.certain \in BOOLEAN
    /\ f.certain => f.map = LoadedMap(f.wide, f.exp, f.regs)

FiledGood == Standing(filed)

PalInv ==
    /\ conf \in Configuration /\ pal \in Maps
    /\ Agrees(conf, pal) /\ Apart(pal)
    /\ FiledGood

USE PalAssumption

-----------------------------------------------------------------------------
(* update_pal()                                                            *)

\* The banks of a configuration are four different ones.
LEMMA RamMapApart ==
    ASSUME NEW c \in Configuration, Known(c)
    PROVE  /\ RamMap(c) \in Map
           /\ \A v, w \in Windows : RamMap(c)[v] = RamMap(c)[w] => v = w
<1> DEFINE ram == IF c.wide THEN Masked(c.ram) ELSE 0
           Bank(w) == CASE ram = 2 -> w + 4
                        [] ram = 3 /\ w = 1 -> 3
                        [] ram \in {1, 3} /\ w = 3 -> 7
                        [] ram \in 4 .. 7 /\ w = 1 -> ram
                        [] OTHER -> w
<1>1. ram \in 0 .. 7
  BY DEF Known, Configuration
<1> HIDE DEF ram
<1>2. \A w \in Windows : Bank(w) \in 0 .. 7
  BY <1>1 DEF Windows
<1>3. \A v, w \in Windows : Bank(v) = Bank(w) => v = w
  BY <1>1 DEF Windows
<1> HIDE DEF Bank
<1>4. RamMap(c) = [w \in Windows |-> Ram(Bank(w))]
  BY DEF RamMap, Bank, ram
<1>5. RamMap(c) \in Map
  BY <1>2, <1>4 DEF Map, RamBanks
<1>6. ASSUME NEW v \in Windows, NEW w \in Windows, RamMap(c)[v] = RamMap(c)[w]
      PROVE  v = w
  <2>1. Ram(Bank(v)) = Ram(Bank(w))
    BY <1>4, <1>6
  <2>2. Bank(v) = Bank(w)
    BY <2>1 DEF Ram
  <2> QED BY <1>3, <2>2
<1> QED BY <1>5, <1>6

\* ROMs are laid over windows that stay those of a read.
LEMMA WithRomsType ==
    ASSUME NEW c \in Configuration, NEW map \in ReadMap
    PROVE  WithRoms(c, map) \in ReadMap
<1>1. UpperRom(c) \in RomBanks /\ Lower \in RomBanks
  BY DEF UpperRom, RomBanks, Configuration
<1> QED BY <1>1 DEF WithRoms, ReadMap

\* Whatever windows it finds, update_pal() leaves windows of the right type,
\* four different banks, and those of the configuration where it knows it.
LEMMA UpdatePalGood ==
    ASSUME NEW c \in Configuration, NEW p \in Maps,
           Known(c) \/ Apart(p)
    PROVE  /\ UpdatePal(c, p) \in Maps
           /\ Agrees(c, UpdatePal(c, p)) /\ Apart(UpdatePal(c, p))
<1>1. CASE Known(c)
  <2>1. RamMap(c) \in Map /\ RamMap(c) \in ReadMap
    BY <1>1, RamMapApart DEF Map, ReadMap
  <2>2. WithRoms(c, RamMap(c)) \in ReadMap
    BY <2>1, WithRomsType
  <2> QED BY <1>1, <2>1, <2>2, RamMapApart DEF UpdatePal, Maps, Agrees, Apart
<1>2. CASE ~Known(c)
  <2>1. WithRoms(c, p.rd) \in ReadMap
    BY WithRomsType DEF Maps
  <2> QED BY <1>2, <2>1 DEF UpdatePal, Maps, Agrees, Apart
<1> QED BY <1>1, <1>2

\* A snapshot that is kept stands for the same windows.
LEMMA FiledStays ==
    ASSUME FiledGood, filed' = filed
    PROVE  FiledGood'
<1>1. ASSUME NEW f, NEW g, Standing(f), g = f PROVE Standing(g)
  BY <1>1
<1> QED BY <1>1 DEF FiledGood

\* A handler that ends with update_pal() keeps the invariant.
LEMMA SetupInv ==
    ASSUME PalInv, NEW c \in Configuration, Setup(c)
    PROVE  PalInv'
<1>1. UpdatePal(c, pal) \in Maps /\ Agrees(c, UpdatePal(c, pal)) /\ Apart(UpdatePal(c, pal))
  BY UpdatePalGood DEF PalInv
<1>2. conf' = c /\ pal' = UpdatePal(c, pal) /\ filed' = filed
  BY DEF Setup
<1>3. FiledGood'
  BY <1>2, FiledStays DEF PalInv
<1> QED BY <1>1, <1>2, <1>3 DEF PalInv

-----------------------------------------------------------------------------
(* The invariant is inductive                                              *)

\* Registers of their types make a configuration.
LEMMA WithRegsType ==
    ASSUME NEW isWide \in BOOLEAN, NEW roms \in SUBSET (0 .. 255),
           NEW regs \in MapRegisters
    PROVE  WithRegs(isWide, roms, regs) \in Configuration
BY DEF WithRegs, Configuration, MapRegisters

\* A reset leaves registers that update_pal() knows.
LEMMA ResetKnown ==
    ASSUME NEW isWide \in BOOLEAN, NEW roms \in SUBSET (0 .. 255)
    PROVE  /\ WithRegs(isWide, roms, ResetRegs) \in Configuration
           /\ Known(WithRegs(isWide, roms, ResetRegs))
BY DEF WithRegs, ResetRegs, Configuration, Known, Masked

\* A configuration keeps the memory and the expansions over a reset.
LEMMA ClearedKnown ==
    ASSUME NEW c \in Configuration
    PROVE  Cleared(c) \in Configuration /\ Known(Cleared(c))
<1>1. c.wide \in BOOLEAN /\ c.exp \in SUBSET (0 .. 255)
  BY DEF Configuration
<1> QED BY <1>1, ResetKnown DEF Cleared

\* What a configuration is made of: the machine, and what a snapshot takes.
LEMMA ConfigurationParts ==
    ASSUME NEW c \in Configuration
    PROVE  /\ Saved(c) \in MapRegisters
           /\ WithRegs(c.wide, c.exp, Saved(c)) = c
<1>1. Saved(c) \in MapRegisters
  BY DEF Saved, MapRegisters, Configuration
<1>2. WithRegs(c.wide, c.exp, Saved(c)) = c
  BY DEF Saved, WithRegs, Configuration
<1> QED BY <1>1, <1>2

\* A configuration that update_pal() knows gives the windows of its snapshot,
\* whatever windows it finds.
LEMMA KnownIsLoaded ==
    ASSUME NEW c \in Configuration, NEW p, Known(c), Agrees(c, p)
    PROVE  p = LoadedMap(c.wide, c.exp, Saved(c))
<1>1. LoadedMap(c.wide, c.exp, Saved(c)) = UpdatePal(c, ResetMap(c))
  BY ConfigurationParts DEF LoadedMap
<1> QED BY <1>1 DEF Agrees, UpdatePal

\* load_cpc() gives the windows of the snapshot, whatever windows it finds,
\* because the configuration of the reset is one that update_pal() knows.
LEMMA LoadIsLoaded ==
    ASSUME NEW c \in Configuration, NEW p, NEW regs
    PROVE  UpdatePal(WithRegs(c.wide, c.exp, regs), UpdatePal(Cleared(c), p))
             = LoadedMap(c.wide, c.exp, regs)
<1> DEFINE loaded == WithRegs(c.wide, c.exp, regs)
<1>1. UpdatePal(Cleared(c), p) = ResetMap(c)
  BY ClearedKnown DEF UpdatePal, ResetMap
<1>2. Cleared(loaded) = Cleared(c)
  BY DEF WithRegs, Cleared
<1>3. ResetMap(loaded) = ResetMap(c)
  BY <1>2 DEF ResetMap
<1> QED BY <1>1, <1>3 DEF LoadedMap

\* What is filed of a machine: the windows it stands for are certain after a
\* load, and after a save where the configuration is known.
LEMMA FilingGood ==
    ASSUME NEW c \in Configuration, NEW p, NEW certain \in BOOLEAN,
           certain => p = LoadedMap(c.wide, c.exp, Saved(c)),
           filed' = Filed(c, p, certain)
    PROVE  FiledGood'
<1> DEFINE f == Filed(c, p, certain)
<1>1. /\ f.regs = Saved(c) /\ f.wide = c.wide /\ f.exp = c.exp
      /\ f.map = p /\ f.certain = certain
  BY DEF Filed
<1>2. Saved(c) \in MapRegisters
  BY ConfigurationParts
<1>3. Standing(f)
  BY <1>1, <1>2 DEF Standing
<1> HIDE DEF f
<1>4. filed' = f
  BY DEF f
<1> QED BY <1>3, <1>4 DEF FiledGood

LEMMA PalInitInv == PalInit => PalInv
<1> SUFFICES ASSUME PalInit PROVE PalInv
  OBVIOUS
<1>1. PICK isWide \in BOOLEAN, named \in SUBSET Options :
        /\ conf = WithRegs(isWide, Configured({7}, named), ResetRegs)
        /\ pal = UpdatePal(conf, NoWindows)
        /\ filed = Filed(conf, pal, TRUE)
  BY DEF PalInit
<1>2. Configured({7}, named) \in SUBSET (0 .. 255)
  BY <1>1 DEF Configured
<1>3. conf \in Configuration /\ Known(conf)
  BY <1>1, <1>2, ResetKnown
<1>4. NoWindows \in Maps
  <2>1. Ram(0) \in RamBanks
    BY DEF RamBanks
  <2> QED BY <2>1 DEF NoWindows, Maps, Map, ReadMap
<1>5. pal \in Maps /\ Agrees(conf, pal) /\ Apart(pal)
  BY <1>1, <1>3, <1>4, UpdatePalGood
<1>6. FiledGood
  <2>1. /\ filed.regs = Saved(conf) /\ filed.wide = conf.wide
        /\ filed.exp = conf.exp /\ filed.map = pal /\ filed.certain = TRUE
    BY <1>1 DEF Filed
  <2>2. Saved(conf) \in MapRegisters
    BY <1>3, ConfigurationParts
  <2>3. pal = LoadedMap(conf.wide, conf.exp, Saved(conf))
    BY <1>3, <1>5, KnownIsLoaded
  <2> QED BY <2>1, <2>2, <2>3 DEF FiledGood, Standing
<1> QED BY <1>3, <1>5, <1>6 DEF PalInv

\* load_cpc() goes through the windows of a reset, which are four different
\* banks even if the configuration of the snapshot is then an unknown one.
LEMMA LoadInv ==
    ASSUME PalInv, NEW snapshot \in Snapshots \cup {filed.regs}, PalLoad(snapshot)
    PROVE  PalInv'
<1> DEFINE loaded == WithRegs(conf.wide, conf.exp, snapshot)
           cleared == UpdatePal(Cleared(conf), pal)
<1>1. snapshot \in MapRegisters
  <2>1. Snapshots \subseteq MapRegisters
    BY ZenonT(60) DEF Snapshots, MapRegisters
  <2> QED BY <2>1 DEF PalInv, FiledGood, Standing
<1>2. loaded \in Configuration
  <2>1. conf.wide \in BOOLEAN /\ conf.exp \in SUBSET (0 .. 255)
    BY DEF PalInv, Configuration
  <2> QED BY <1>1, <2>1, WithRegsType
<1>3. Cleared(conf) \in Configuration /\ Known(Cleared(conf))
  BY ClearedKnown DEF PalInv
<1>4. cleared \in Maps /\ Apart(cleared)
  BY <1>3, UpdatePalGood DEF PalInv
<1>5. /\ conf' = loaded /\ pal' = UpdatePal(loaded, cleared)
      /\ filed' = Filed(loaded, pal', TRUE)
  BY DEF PalLoad
<1>6. pal' = LoadedMap(loaded.wide, loaded.exp, Saved(loaded))
  <2>1. conf \in Configuration
    BY DEF PalInv
  <2>2. pal' = LoadedMap(conf.wide, conf.exp, snapshot)
    BY <1>5, <2>1, LoadIsLoaded
  <2>3. loaded.wide = conf.wide /\ loaded.exp = conf.exp /\ Saved(loaded) = snapshot
    BY <1>1 DEF WithRegs, Saved, MapRegisters
  <2> QED BY <2>2, <2>3
<1> HIDE DEF loaded, cleared
<1>7. /\ UpdatePal(loaded, cleared) \in Maps
      /\ Agrees(loaded, UpdatePal(loaded, cleared))
      /\ Apart(UpdatePal(loaded, cleared))
  BY <1>2, <1>4, UpdatePalGood
<1>8. FiledGood'
  BY <1>2, <1>5, <1>6, FilingGood
<1> QED BY <1>2, <1>5, <1>7, <1>8 DEF PalInv

\* save_cpc() files the windows of a known configuration.
LEMMA SaveInv ==
    ASSUME PalInv, PalSave
    PROVE  PalInv'
<1>1. /\ filed' = Filed(conf, pal, Known(conf))
      /\ conf' = conf /\ pal' = pal
  BY DEF PalSave
<1>2. conf \in Configuration /\ Agrees(conf, pal)
  BY DEF PalInv
<1>3. Known(conf) \in BOOLEAN
  BY <1>2 DEF Known, Configuration
<1>4. FiledGood'
  BY <1>1, <1>2, <1>3, KnownIsLoaded, FilingGood
<1>5. Agrees(conf, pal)' /\ Apart(pal)'
  BY <1>1 DEF PalInv, Agrees, Apart, Known, Masked, RamMap, WithRoms, UpperRom
<1> QED BY <1>1, <1>4, <1>5 DEF PalInv

LEMMA PalStepInv == PalInv /\ [PalNext]_palVars => PalInv'
<1> SUFFICES ASSUME PalInv, [PalNext]_palVars PROVE PalInv'
  OBVIOUS
<1>1. conf \in Configuration
  BY DEF PalInv
<1>2. ASSUME NEW value \in RamValues, SetupRam(value) PROVE PalInv'
  <2>1. [conf EXCEPT !.ram = Masked(value)] \in Configuration
    BY <1>1 DEF Configuration, Masked
  <2> QED BY <1>2, <2>1, SetupInv DEF SetupRam
<1>3. ASSUME NEW value \in RomValues, SetupRom(value) PROVE PalInv'
  <2>1. [conf EXCEPT !.rom = value] \in Configuration
    BY <1>1 DEF Configuration
  <2> QED BY <1>3, <2>1, SetupInv DEF SetupRom
<1>4. ASSUME NEW isLower \in BOOLEAN, NEW isUpper \in BOOLEAN,
             SetupRmr(isLower, isUpper)
      PROVE  PalInv'
  <2>1. [conf EXCEPT !.lower = isLower, !.upper = isUpper] \in Configuration
    BY <1>1, ZenonT(60) DEF Configuration
  <2> QED BY <1>4, <2>1, SetupInv DEF SetupRmr
<1>5. CASE PalReset
  BY <1>1, <1>5, ClearedKnown, SetupInv DEF PalReset
<1>6. ASSUME NEW type \in {"cpc464", "cpc664", "cpc6128"}, SetMachineType(type)
      PROVE  PalInv'
  <2> DEFINE isWide == conf.wide \/ type = "cpc6128"
             roms == conf.exp \cup {7}
  <2>1. isWide \in BOOLEAN
    OBVIOUS
  <2>2. roms \in SUBSET (0 .. 255)
    BY <1>1 DEF Configuration
  <2>3. Setup(WithRegs(isWide, roms, ResetRegs))
    BY <1>6 DEF SetMachineType
  <2> HIDE DEF isWide, roms
  <2> QED BY <2>1, <2>2, <2>3, ResetKnown, SetupInv
<1>7. ASSUME NEW snapshot \in Snapshots \cup {filed.regs}, PalLoad(snapshot)
      PROVE  PalInv'
  BY <1>7, LoadInv
<1>8. CASE UNCHANGED palVars
  <2>1. FiledGood' /\ conf' = conf /\ pal' = pal
    BY <1>8, FiledStays DEF palVars, PalInv
  <2>2. Agrees(conf, pal)' /\ Apart(pal)'
    BY <2>1 DEF PalInv, Agrees, Apart, Known, Masked, RamMap, WithRoms, UpperRom
  <2> QED BY <2>1, <2>2 DEF PalInv
<1>9. CASE PalSave
  BY <1>9, SaveInv
<1> QED BY <1>2, <1>3, <1>4, <1>5, <1>6, <1>7, <1>8, <1>9 DEF PalNext

\* The windows agree with the configuration and are apart, in every behaviour.
THEOREM MapInvariant == PalSpec => []PalInv
BY PalInitInv, PalStepInv, PTL DEF PalSpec

-----------------------------------------------------------------------------
(* What it says                                                            *)

\* Configuration and windows keep their types (update_pal() and its callers).
THEOREM PalTypeCorrect == PalSpec => []PalTypeOK
<1>1. PalInv => PalTypeOK
  BY DEF PalInv, FiledGood, Standing, PalTypeOK, Maps, Map, ReadMap
<1> QED BY <1>1, MapInvariant, PTL

\* Under a known configuration the windows are those update_pal() computes
\* from it, whatever programs, resets and snapshots did before.
THEOREM MapFollowsConfiguration == PalSpec => []ReadsWhatItWrites
<1>1. PalInv => ReadsWhatItWrites
  BY DEF PalInv, Agrees, ReadsWhatItWrites, WithRoms, Maps, Map
<1> QED BY <1>1, MapInvariant, PTL

\* No two windows write to one bank, in a configuration that update_pal()
\* does not know either.
THEOREM BanksApart == PalSpec => []WindowsDisjoint
<1>1. PalInv => WindowsDisjoint
  BY DEF PalInv, Apart, WindowsDisjoint
<1> QED BY <1>1, MapInvariant, PTL

\* load_cpc() of a snapshot gives the windows that the machine had when it was
\* saved, or when it was loaded before, whatever came in between.
THEOREM SnapshotBringsMapBack == PalSpec => SnapshotGivesMap
<1> DEFINE Again == /\ PalLoad(filed.regs) /\ filed.certain
                    /\ conf.wide = filed.wide /\ conf.exp = filed.exp
<1>1. PalInv => [Again => pal' = filed.map]_palVars
  <2> SUFFICES ASSUME PalInv, Again PROVE pal' = filed.map
    OBVIOUS
  <2>1. conf \in Configuration
    BY DEF PalInv
  <2>2. pal' = LoadedMap(conf.wide, conf.exp, filed.regs)
    BY <2>1, LoadIsLoaded DEF PalLoad
  <2> QED BY <2>2 DEF PalInv, FiledGood, Standing
<1> QED BY <1>1, MapInvariant, PTL DEF PalSpec, SnapshotGivesMap

-----------------------------------------------------------------------------
(***************************************************************************)
(* What holds of the pace for every frame rate, frame time and speed-up,   *)
(* and however late the host calls (module Pacing).                        *)
(*                                                                         *)
(* The bound on the time ahead is not inductive: the next call comes after *)
(* the delay that was asked for, and that delay covers the time ahead but  *)
(* for the fraction of a millisecond it drops.                             *)
(***************************************************************************)

\* When the delay asked for has gone by, at most that fraction is left.
DelayCoversLead == lag + delay * Millisecond > -Millisecond

PacingInv == PacingTypeOK /\ Paced /\ PictureGoesOn /\ DelayCoversLead

USE PacingAssumption

-----------------------------------------------------------------------------
(* The parts of on_clock()                                                 *)

\* A frame takes less than a second.
LEMMA FrameTimeType == PacingTypeOK => FrameTime \in 0 .. Second - 1
<1> SUFFICES ASSUME PacingTypeOK PROVE FrameTime \in 0 .. Second - 1
  OBVIOUS
<1> DEFINE time == FrameTimes[rate]
<1>1. time \in 1 .. Second - 1 /\ speedup \in Nat \ {0}
  BY DEF PacingTypeOK
<1> HIDE DEF time
<1>2. time \div speedup \in 0 .. time
  BY <1>1
<1> QED BY <1>1, <1>2 DEF FrameTime, time

\* The delay is a whole number of milliseconds that leaves less than one.
LEMMA TimeoutCovers ==
    ASSUME NEW late \in Int, NEW isFirst \in BOOLEAN
    PROVE  /\ Timeout_ms(late, isFirst) \in Nat
           /\ late + Timeout_ms(late, isFirst) * Millisecond > -Millisecond
<1> DEFINE left == (-late) \div Millisecond
<1>1. CASE late > 0
  <2>1. Timeout_ms(late, isFirst) \in {0, 1}
    BY <1>1 DEF Timeout_ms
  <2> QED BY <1>1, <2>1
<1>2. CASE late <= 0
  <2>1. left \in Nat /\ -late < (left + 1) * Millisecond
    BY <1>2
  <2> HIDE DEF left
  <2>2. (left + 1) * Millisecond = left * Millisecond + Millisecond
    BY <2>1
  <2>3. late + left * Millisecond > -Millisecond
    BY <2>1, <2>2
  <2>4. CASE left = 0 /\ isFirst
    <3>1. Timeout_ms(late, isFirst) = 1
      BY <1>2, <2>4 DEF Timeout_ms, left
    <3> QED BY <3>1, <2>3, <2>4
  <2>5. CASE ~(left = 0 /\ isFirst)
    <3>1. Timeout_ms(late, isFirst) = left
      BY <1>2, <2>5 DEF Timeout_ms, left
    <3> QED BY <3>1, <2>1, <2>3
  <2> QED BY <2>4, <2>5
<1> QED BY <1>1, <1>2

-----------------------------------------------------------------------------
(* The invariant is inductive                                              *)

LEMMA PacingInitInv == PacingInit => PacingInv
<1> SUFFICES ASSUME PacingInit PROVE PacingInv
  OBVIOUS
<1>1. rate \in Nat \ {0} /\ FrameTimes[rate] \in 1 .. Second - 1
  BY DEF PacingInit
<1>2. PacingTypeOK
  BY DEF PacingInit, PacingTypeOK
<1>3. FrameTime \in 0 .. Second - 1
  BY <1>2, FrameTimeType
<1> QED BY <1>1, <1>2, <1>3 DEF PacingInit, PacingInv, Paced, PictureGoesOn, DelayCoversLead

LEMMA OnClockInv ==
    ASSUME PacingInv, NEW later \in Delays, OnClock(later)
    PROVE  PacingInv'
<1> DEFINE late == lag + delay * Millisecond + later - FrameTime
           ends == count + 1 = rate
           drawnNow == drawn + IF Draws(late) THEN 1 ELSE 0
<1>1. /\ lag \in Int /\ delay \in Nat /\ count \in Nat /\ drawn \in 0 .. count
      /\ rate \in Nat \ {0} /\ later \in Nat
      /\ count < rate /\ (count > 0 => drawn > 0)
      /\ FrameTime \in 0 .. Second - 1
  BY FrameTimeType DEF PacingInv, PacingTypeOK, PictureGoesOn
<1>2. late \in Int /\ late > -(FrameTime + Millisecond)
  <2>1. delay * Millisecond \in Int
    BY <1>1
  <2>2. lag + delay * Millisecond > -Millisecond
    BY DEF PacingInv, DelayCoversLead
  <2> QED BY <1>1, <2>1, <2>2
<1>3. /\ Resynced(late) \in Int /\ Resynced(late) < Second
      /\ Resynced(late) > -(FrameTime + Millisecond)
  BY <1>1, <1>2 DEF Resynced
<1>4. /\ lag' = Resynced(late) /\ delay' = Timeout_ms(Resynced(late), ends)
      /\ count' = (IF ends THEN 0 ELSE count + 1)
      /\ drawn' = (IF ends THEN 0 ELSE drawnNow)
      /\ rate' = rate /\ speedup' = speedup
  BY DEF OnClock
<1>5. ends \in BOOLEAN /\ drawnNow \in 0 .. count + 1 /\ drawnNow > 0
  BY <1>1 DEF Draws
<1> HIDE DEF late, ends, drawnNow
<1>6. delay' \in Nat /\ lag' + delay' * Millisecond > -Millisecond
  BY <1>3, <1>4, <1>5, TimeoutCovers
<1>7. FrameTime' = FrameTime
  BY <1>4 DEF FrameTime
<1>8. count' \in Nat /\ count' < rate /\ drawn' \in 0 .. count'
      /\ (count' > 0 => drawn' > 0)
  BY <1>1, <1>4, <1>5 DEF ends
<1>9. rate \in Rates /\ speedup \in Speedups
  BY DEF PacingInv, PacingTypeOK
<1> QED BY <1>3, <1>4, <1>6, <1>7, <1>8, <1>9
        DEF PacingInv, PacingTypeOK, Paced, PictureGoesOn, DelayCoversLead

\* A reset takes the time anew; the delay that still runs is no negative one.
LEMMA RestartInv ==
    ASSUME PacingInv, lag' = 0, NEW left \in 0 .. delay, delay' = left,
           count' = 0, drawn' = 0, rate' \in Rates, speedup' = speedup
    PROVE  PacingInv'
<1>1. PacingTypeOK'
  BY DEF PacingInv, PacingTypeOK
<1>2. FrameTime' \in 0 .. Second - 1
  <2>1. FrameTimes[rate'] \in 1 .. Second - 1 /\ speedup \in Nat \ {0}
    BY DEF PacingInv, PacingTypeOK
  <2>2. FrameTimes[rate'] \div speedup \in 0 .. FrameTimes[rate']
    BY <2>1
  <2> QED BY <2>1, <2>2 DEF FrameTime
<1>3. left * Millisecond \in Nat
  <2>1. left \in Nat
    BY DEF PacingInv, PacingTypeOK
  <2> QED BY <2>1
<1>4. DelayCoversLead'
  BY <1>3 DEF DelayCoversLead
<1>5. Paced'
  <2>1. PICK time \in Nat : FrameTime' = time
    BY <1>2
  <2>2. -(time + Millisecond) < 0
    BY <2>1
  <2> QED BY <2>1, <2>2 DEF Paced
<1>6. PictureGoesOn'
  BY DEF PictureGoesOn
<1> QED BY <1>1, <1>4, <1>5, <1>6 DEF PacingInv

LEMMA PacingStepInv == PacingInv /\ [PacingNext]_pacingVars => PacingInv'
<1> SUFFICES ASSUME PacingInv, [PacingNext]_pacingVars PROVE PacingInv'
  OBVIOUS
<1>1. ASSUME NEW later \in Delays, OnClock(later) PROVE PacingInv'
  BY <1>1, OnClockInv
<1>2. CASE PacingReset
  BY <1>2, RestartInv DEF PacingReset, PacingInv, PacingTypeOK
<1>3. ASSUME NEW r \in Rates, SetRefreshRate(r) PROVE PacingInv'
  BY <1>3, RestartInv DEF SetRefreshRate
<1>4. CASE UNCHANGED pacingVars
  BY <1>4 DEF pacingVars, PacingInv, PacingTypeOK, Paced, PictureGoesOn,
              DelayCoversLead, FrameTime
<1> QED BY <1>1, <1>2, <1>3, <1>4 DEF PacingNext

\* The pace keeps its invariant in every behaviour.
THEOREM PaceInvariant == PacingSpec => []PacingInv
BY PacingInitInv, PacingStepInv, PTL DEF PacingSpec

-----------------------------------------------------------------------------
(* What it says                                                            *)

\* Deadline, delay and counts keep their types (on_clock(), reset()).
THEOREM PacingTypeCorrect == PacingSpec => []PacingTypeOK
<1>1. PacingInv => PacingTypeOK
  BY DEF PacingInv
<1> QED BY <1>1, PaceInvariant, PTL

\* on_clock() is never a second late after a frame, and never ahead of its
\* deadline by more than a frame and a millisecond.
THEOREM PaceKept == PacingSpec => []Paced
<1>1. PacingInv => Paced
  BY DEF PacingInv
<1> QED BY <1>1, PaceInvariant, PTL

\* Every count of frames ends, and one frame of it was drawn.
THEOREM PictureKept == PacingSpec => []PictureGoesOn
<1>1. PacingInv => PictureGoesOn
  BY DEF PacingInv
<1> QED BY <1>1, PaceInvariant, PTL

-----------------------------------------------------------------------------
(***************************************************************************)
(* What holds of the square waves for every set of periods (module         *)
(* Voices).                                                                *)
(***************************************************************************)

USE PeriodsAssumption

LEMMA WaveNumbers ==
    ASSUME NEW w \in Wave
    PROVE  w.counter \in Nat /\ w.period \in Nat
<1>1. w.counter \in 0 .. Widest /\ w.period \in Periods
  BY DEF Wave
<1>2. w.period \in 0 .. Widest
  BY <1>1
<1> QED BY <1>1, <1>2

\* What fixup() makes of the second channel.
Following(w, v) == [w EXCEPT !.counter = v.counter, !.phase = v.phase]

LEMMA FollowingType ==
    ASSUME NEW w \in Wave, NEW v \in Wave
    PROVE  /\ Following(w, v) \in Wave
           /\ Following(w, v).period = w.period
           /\ Following(w, v).counter = v.counter
BY DEF Wave, Following

\* fixup() writes the second channel only, and never its period: after it the
\* two count together if their periods are equal.
LEMMA FixedFollows ==
    ASSUME NEW s \in [Channels -> Wave],
           NEW l \in Channels, NEW r \in Channels, l # r
    PROVE  /\ Fixed(s, l, r) \in [Channels -> Wave]
           /\ \A c \in Channels : Fixed(s, l, r)[c].period = s[c].period
           /\ \A c \in Channels \ {r} : Fixed(s, l, r)[c] = s[c]
           /\ IF s[l].period = s[r].period
              THEN Fixed(s, l, r)[r].counter = s[l].counter
              ELSE Fixed(s, l, r)[r] = s[r]
<1>1. CASE s[l].period = s[r].period /\ s[l].counter # s[r].counter
  <2>1. Fixed(s, l, r) = [s EXCEPT ![r] = Following(s[r], s[l])]
    BY <1>1 DEF Fixed, Following
  <2>2. s[r] \in Wave /\ s[l] \in Wave
    OBVIOUS
  <2>3. /\ Following(s[r], s[l]) \in Wave
        /\ Following(s[r], s[l]).period = s[r].period
        /\ Following(s[r], s[l]).counter = s[l].counter
    BY <2>2, FollowingType
  <2> QED BY <1>1, <2>1, <2>3
<1>2. CASE ~(s[l].period = s[r].period /\ s[l].counter # s[r].counter)
  BY <1>2 DEF Fixed
<1> QED BY <1>1, <1>2

\* The three fixups leave every period alone, and channels of one period at
\* one count: the later ones do not undo the earlier ones.
LEMMA PreparedTogether ==
    ASSUME VoicesTypeOK
    PROVE  /\ Prepared \in [Channels -> Wave]
           /\ \A c \in Channels : Prepared[c].period = sound[c].period
           /\ \A c, d \in Channels :
                 sound[c].period = sound[d].period
                    => Prepared[c].counter = Prepared[d].counter
<1> DEFINE first == Fixed(sound, 0, 1)
           second == Fixed(first, 0, 2)
           third == Fixed(second, 1, 2)
<1>1. /\ first \in [Channels -> Wave]
      /\ \A c \in Channels : first[c].period = sound[c].period
      /\ first[0] = sound[0] /\ first[2] = sound[2]
      /\ IF sound[0].period = sound[1].period
         THEN first[1].counter = sound[0].counter ELSE first[1] = sound[1]
  BY FixedFollows DEF VoicesTypeOK, Channels
<1> HIDE DEF first
<1>2. /\ second \in [Channels -> Wave]
      /\ \A c \in Channels : second[c].period = first[c].period
      /\ second[0] = first[0] /\ second[1] = first[1]
      /\ IF first[0].period = first[2].period
         THEN second[2].counter = first[0].counter ELSE second[2] = first[2]
  BY <1>1, FixedFollows DEF Channels
<1> HIDE DEF second
<1>3. /\ third \in [Channels -> Wave]
      /\ \A c \in Channels : third[c].period = second[c].period
      /\ third[0] = second[0] /\ third[1] = second[1]
      /\ IF second[1].period = second[2].period
         THEN third[2].counter = second[1].counter ELSE third[2] = second[2]
  BY <1>2, FixedFollows DEF Channels
<1>4. Prepared = third
  BY DEF Prepared, first, second
<1> HIDE DEF third
<1>5. \A c \in Channels : third[c].period = sound[c].period
  BY <1>1, <1>2, <1>3
<1>6. /\ sound[0].period = sound[1].period => third[0].counter = third[1].counter
      /\ sound[0].period = sound[2].period => third[0].counter = third[2].counter
      /\ sound[1].period = sound[2].period => third[1].counter = third[2].counter
  BY <1>1, <1>2, <1>3 DEF Channels
<1>7. \A c \in Channels : c = 0 \/ c = 1 \/ c = 2
  BY DEF Channels
<1> QED BY <1>3, <1>4, <1>5, <1>6, <1>7

\* SoundTraits::clock() keeps a count within the greatest period, and either
\* flips and starts over or stays below the period and at its level.
LEMMA TickedFlips ==
    ASSUME NEW w \in Wave
    PROVE  /\ Ticked(w) \in Wave /\ Ticked(w).period = w.period
           /\ w.period = 0 => Ticked(w) = w
           /\ w.period # 0 /\ w.counter + 1 >= w.period =>
                 Ticked(w).counter = 0 /\ Ticked(w).phase # w.phase
           /\ w.period # 0 /\ ~(w.counter + 1 >= w.period) =>
                 Ticked(w).counter = w.counter + 1 /\ Ticked(w).phase = w.phase
<1>1. CASE w.period = 0
  <2>1. Ticked(w) = w
    BY <1>1 DEF Ticked
  <2> QED BY <1>1, <2>1
<1>2. CASE w.period # 0 /\ w.counter + 1 >= w.period
  <2>1. Ticked(w) = [w EXCEPT !.counter = 0, !.phase = 1 - w.phase]
    BY <1>2 DEF Ticked
  <2>2. /\ w = [period |-> w.period, counter |-> w.counter,
                phase |-> w.phase]
        /\ w.period \in Periods /\ w.phase \in {0, 1}
    BY DEF Wave
  <2>3. Ticked(w) = [period |-> w.period, counter |-> 0,
                     phase |-> 1 - w.phase]
    BY <2>1, <2>2
  <2> QED BY <1>2, <2>2, <2>3 DEF Wave
<1>3. CASE w.period # 0 /\ ~(w.counter + 1 >= w.period)
  <2>1. Ticked(w) = [w EXCEPT !.counter = @ + 1]
    BY <1>3, Zenon DEF Ticked
  <2> QED BY <1>3, <2>1 DEF Wave
<1> QED BY <1>1, <1>2, <1>3

\* A history stays within its bound.
LEMMA UpToType ==
    ASSUME NEW bound \in Nat, NEW n \in Nat
    PROVE  /\ UpTo(bound, n) \in 0 .. bound
           /\ UpTo(bound, n) <= n
           /\ n <= bound => UpTo(bound, n) = n
BY DEF UpTo

\* The voices keep their types, whatever is written between two clocks.
LEMMA VoicesStepTypes == VoicesTypeOK /\ [VoicesNext]_voicesVars => VoicesTypeOK'
<1> SUFFICES ASSUME VoicesTypeOK, [VoicesNext]_voicesVars PROVE VoicesTypeOK'
  OBVIOUS
<1>1. Silent \in Wave /\ NotYet \in [Channels -> 0 .. Widest] /\ 0 \in 0 .. Widest + 1
  BY DEF Silent, Wave, NotYet
<1>2. CASE VoicesClock
  <2>1. sound' \in [Channels -> Wave]
    BY <1>2, PreparedTogether, TickedFlips DEF VoicesClock
  <2>2. alone + 1 \in Nat /\ Widest + 1 \in Nat
    BY DEF VoicesTypeOK
  <2>3. alone' \in 0 .. Widest + 1
    BY <1>2, <2>2, UpToType DEF VoicesClock
  <2>4. \A c \in Channels : held[c] + 1 \in Nat
    BY DEF VoicesTypeOK
  <2>5. \A c \in Channels : UpTo(Widest, held[c] + 1) \in 0 .. Widest
    BY <2>4, UpToType
  <2>6. held' \in [Channels -> 0 .. Widest]
    BY <1>2, <2>5 DEF VoicesClock
  <2> QED BY <2>1, <2>3, <2>6 DEF VoicesTypeOK
<1>3. ASSUME NEW c \in Channels, NEW p \in Periods, SetPeriod(c, p)
      PROVE  VoicesTypeOK'
  BY <1>1, <1>3 DEF SetPeriod, VoicesTypeOK, Wave
<1>4. CASE VoicesReset
  BY <1>1, <1>4 DEF VoicesReset, VoicesTypeOK
<1>5. CASE UNCHANGED voicesVars
  BY <1>5 DEF VoicesTypeOK, voicesVars
<1> QED BY <1>2, <1>3, <1>4, <1>5 DEF VoicesNext

LEMMA VoicesInitTypes == VoicesInit => VoicesTypeOK
BY DEF VoicesInit, VoicesTypeOK, Silent, Wave, NotYet

\* The voices keep their types (clock(), set_fine_tune(), reset()).
THEOREM VoicesTypeCorrect == VoicesSpec => []VoicesTypeOK
BY VoicesInitTypes, VoicesStepTypes, PTL DEF VoicesSpec

\* Since the first clock after a write each count is below its period, and it
\* says how long the level has been held as soon as it began after the write.
LevelCounted(c) ==
    sound[c].period > 0 =>
       /\ sound[c].counter < sound[c].period
       /\ held[c] = sound[c].counter \/ sound[c].counter + 1 >= alone

CountTogether ==
    \A c, d \in Channels :
       sound[c].period = sound[d].period => sound[c].counter = sound[d].counter

VoicesInv ==
    /\ VoicesTypeOK
    /\ alone > 0 => CountTogether /\ \A c \in Channels : LevelCounted(c)

\* Counts that go together are left alone by the fixups.
LEMMA FixupsRest ==
    ASSUME CountTogether
    PROVE  Prepared = sound
<1>1. \A l, r \in Channels : Fixed(sound, l, r) = sound
  BY DEF Fixed, CountTogether
<1>2. Fixed(sound, 0, 1) = sound /\ Fixed(sound, 0, 2) = sound /\ Fixed(sound, 1, 2) = sound
  BY <1>1 DEF Channels
<1> QED BY <1>2, Zenon DEF Prepared

\* What a clock makes of one channel.
LEMMA ClockMoves ==
    ASSUME VoicesTypeOK, VoicesClock, NEW c \in Channels
    PROVE  /\ sound'[c] = Ticked(Prepared[c]) /\ Prepared[c] \in Wave
           /\ held'[c] = IF sound'[c].phase # sound[c].phase THEN 0
                         ELSE UpTo(Widest, held[c] + 1)
BY PreparedTogether DEF VoicesClock

LEMMA ClockTogether ==
    ASSUME VoicesTypeOK, VoicesClock
    PROVE  /\ CountTogether'
           /\ \A c, d \in Channels :
                 sound[c].period = sound[d].period
                    => sound'[c].counter = sound'[d].counter
<1>1. ASSUME NEW c \in Channels, NEW d \in Channels,
             sound[c].period = sound[d].period
      PROVE  sound'[c].counter = sound'[d].counter
  <2> DEFINE v == Prepared[c]
             w == Prepared[d]
  <2>1. /\ v \in Wave /\ w \in Wave
        /\ v.period = w.period /\ v.counter = w.counter
        /\ sound'[c] = Ticked(v) /\ sound'[d] = Ticked(w)
    BY <1>1, PreparedTogether, ClockMoves
  <2> HIDE DEF v, w
  <2> QED BY <2>1, TickedFlips
<1>2. \A c \in Channels : sound'[c].period = sound[c].period
  BY PreparedTogether, TickedFlips, ClockMoves
<1> QED BY <1>1, <1>2 DEF CountTogether

\* A clock that follows a write brings every count below its period.
LEMMA FirstClock ==
    ASSUME VoicesTypeOK, VoicesClock, NEW c \in Channels, alone = 0
    PROVE  LevelCounted(c)'
<1> DEFINE w == Prepared[c]
           v == sound'[c]
<1>1. w \in Wave /\ v = Ticked(w)
  BY ClockMoves
<1>2. w.counter \in Nat /\ w.period \in Nat
  BY <1>1, WaveNumbers
<1>3. alone' <= 1
  BY UpToType DEF VoicesClock, VoicesTypeOK
<1> HIDE DEF w
<1>4. v \in Wave /\ v.counter \in Nat
  BY <1>1, TickedFlips, WaveNumbers
<1>5. v.period > 0 => v.counter < v.period
  BY <1>1, <1>2, TickedFlips
<1>6. alone' \in Nat
  BY VoicesStepTypes DEF VoicesTypeOK, VoicesNext
<1>7. v.counter + 1 >= alone'
  BY <1>3, <1>4, <1>6
<1> HIDE DEF v
<1>8. sound'[c] = v
  BY DEF v
<1> QED BY <1>5, <1>7, <1>8 DEF LevelCounted

\* Every later clock counts the level on, or starts the next one.
LEMMA LaterClock ==
    ASSUME VoicesInv, VoicesClock, NEW c \in Channels, alone > 0
    PROVE  LevelCounted(c)'
<1> DEFINE w == sound[c]
           v == sound'[c]
<1>1. /\ w \in Wave /\ v = Ticked(w)
      /\ held'[c] = IF v.phase # w.phase THEN 0 ELSE UpTo(Widest, held[c] + 1)
  BY FixupsRest, ClockMoves DEF VoicesInv
<1>2. w.period > 0 => /\ w.counter < w.period
                      /\ held[c] = w.counter \/ w.counter + 1 >= alone
  BY DEF VoicesInv, LevelCounted
<1>3. alone \in Nat /\ held[c] \in Nat /\ alone' \in Nat /\ alone' <= alone + 1
  BY UpToType, VoicesStepTypes DEF VoicesClock, VoicesInv, VoicesTypeOK, VoicesNext
<1> HIDE DEF w
<1>4. /\ w.counter \in Nat /\ w.period \in Nat /\ w.period <= Widest
      /\ v.period = w.period
  BY <1>1, WaveNumbers, TickedFlips DEF Wave
<1> HIDE DEF v
<1>5. ASSUME w.period > 0
      PROVE  v.counter < v.period /\ (held'[c] = v.counter \/ v.counter + 1 >= alone')
  <2>1. CASE w.counter + 1 >= w.period
    <3>1. v.counter = 0 /\ v.phase # w.phase
      BY <1>1, <1>4, <1>5, <2>1, TickedFlips
    <3> QED BY <1>1, <1>4, <1>5, <3>1
  <2>2. CASE ~(w.counter + 1 >= w.period)
    <3>1. v.counter = w.counter + 1 /\ v.phase = w.phase
      BY <1>1, <1>4, <1>5, <2>2, TickedFlips
    <3>2. held'[c] = UpTo(Widest, held[c] + 1)
      BY <1>1, <3>1
    <3>3. CASE held[c] = w.counter
      <4>1. held[c] + 1 \in Nat /\ held[c] + 1 <= Widest
        BY <1>3, <1>4, <2>2, <3>3
      <4>2. held'[c] = held[c] + 1
        BY <3>2, <4>1, UpToType
      <4> QED BY <1>3, <1>4, <2>2, <3>1, <3>3, <4>2
    <3>4. CASE w.counter + 1 >= alone
      BY <1>3, <1>4, <2>2, <3>1, <3>4
    <3> QED BY <1>2, <1>5, <3>3, <3>4
  <2> QED BY <2>1, <2>2
<1>6. sound'[c] = v
  BY DEF v
<1> QED BY <1>4, <1>5, <1>6 DEF LevelCounted

LEMMA VoicesStepInv == VoicesInv /\ [VoicesNext]_voicesVars => VoicesInv'
<1> SUFFICES ASSUME VoicesInv, [VoicesNext]_voicesVars PROVE VoicesInv'
  OBVIOUS
<1>1. VoicesTypeOK'
  BY VoicesStepTypes DEF VoicesInv
<1>2. CASE VoicesClock
  <2>1. ASSUME NEW c \in Channels PROVE LevelCounted(c)'
    <3>1. alone = 0 \/ alone > 0
      BY DEF VoicesInv, VoicesTypeOK
    <3> QED BY <1>2, <3>1, FirstClock, LaterClock DEF VoicesInv
  <2> QED BY <1>1, <1>2, <2>1, ClockTogether DEF VoicesInv
<1>3. CASE VoicesReset \/ \E c \in Channels, p \in Periods : SetPeriod(c, p)
  <2>1. alone' = 0
    BY <1>3 DEF VoicesReset, SetPeriod
  <2> QED BY <1>1, <2>1 DEF VoicesInv
<1>4. CASE UNCHANGED voicesVars
  BY <1>1, <1>4 DEF VoicesInv, voicesVars, CountTogether, LevelCounted
<1> QED BY <1>2, <1>3, <1>4 DEF VoicesNext

\* Once its period is left alone a wave holds each level for exactly so many
\* clocks, a period lowered under its count included.
THEOREM VoicesFlipInTime == VoicesSpec => FlipsInTime
<1> DEFINE Exact(c) ==
        sound[c].period > 0 /\ alone > sound[c].period =>
           (sound'[c].phase # sound[c].phase <=> held[c] + 1 >= sound[c].period)
<1>1. VoicesInv => [VoicesClock => \A c \in Channels : Exact(c)]_voicesVars
  <2> SUFFICES ASSUME VoicesInv, VoicesClock, NEW c \in Channels,
                      sound[c].period > 0, alone > sound[c].period
               PROVE  sound'[c].phase # sound[c].phase
                         <=> held[c] + 1 >= sound[c].period
    OBVIOUS
  <2> DEFINE w == sound[c]
  <2>1. w \in Wave /\ w.counter \in Nat /\ w.period \in Nat /\ alone \in Nat
    BY WaveNumbers DEF VoicesInv, VoicesTypeOK
  <2>2. alone > 0
    BY <2>1
  <2>3. sound'[c] = Ticked(w)
    BY <2>2, FixupsRest, ClockMoves DEF VoicesInv
  <2>4. w.counter < w.period /\ (held[c] = w.counter \/ w.counter + 1 >= alone)
    BY <2>2 DEF VoicesInv, LevelCounted
  <2>5. w.period > 0 /\ alone > w.period
    OBVIOUS
  <2> HIDE DEF w
  <2>6. held[c] = w.counter
    BY <2>1, <2>4, <2>5
  <2>7. Ticked(w).phase # w.phase <=> w.counter + 1 >= w.period
    <3>1. w.period # 0
      BY <2>1, <2>5
    <3> QED BY <2>1, <3>1, TickedFlips, Zenon
  <2> QED BY <2>3, <2>6, <2>7 DEF w
<1>2. VoicesInit => VoicesInv
  BY VoicesInitTypes DEF VoicesInit, VoicesInv
<1>3. VoicesSpec => []VoicesInv
  BY <1>2, VoicesStepInv, PTL DEF VoicesSpec
<1>4. [VoicesClock => \A c \in Channels : Exact(c)]_voicesVars
      => [VoicesClock => \A c \in Channels :
            LET clocks == sound[c].period
            IN clocks > 0 /\ alone > clocks =>
                  (sound'[c].phase # sound[c].phase <=> held[c] + 1 >= clocks)]_voicesVars
  OBVIOUS
<1> QED BY <1>1, <1>3, <1>4, PTL DEF VoicesSpec, FlipsInTime

\* Channels of one period count together from the next clock on.
THEOREM VoicesStayTogether == VoicesSpec => VoicesTogether
<1>1. VoicesTypeOK
         => [VoicesClock => \A c, d \in Channels :
               sound[c].period = sound[d].period
                  => sound'[c].counter = sound'[d].counter]_voicesVars
  BY ClockTogether
<1> QED BY VoicesTypeCorrect, <1>1, PTL DEF VoicesSpec, VoicesTogether

-----------------------------------------------------------------------------
(***************************************************************************)
(* What holds of the envelope generator for every height of the ramp and   *)
(* every set of periods (modules Envelope and EnvGen).                     *)
(*                                                                         *)
(* The level by itself is not inductive: whether it goes up or down next   *)
(* is in the phase, which has to be the one of the steps taken.            *)
(***************************************************************************)

\* The phase after n steps: 0 on the first ramp; then 1 for good, or 1 on the
\* way back of a triangle.  That of a sawtooth does not matter.
PhaseFits(bits, n, ph) ==
    /\ n < Top => ph = 0
    /\ n >= Top /\ (~bits.continue \/ bits.hold) => ph = 1
    /\ bits.continue /\ ~bits.hold /\ bits.alternate =>
          IF n % (2 * Top) >= Top THEN ph = 1 ELSE ph = 0

EnvInv ==
    /\ EnvTypeOK /\ EnvelopeAsPromised
    /\ steps >= 0 => PhaseFits(shape, steps, phase)

USE TopAssumption, EnvGenAssumption

-----------------------------------------------------------------------------
(* Remainders                                                              *)

LEMMA Div0 ==
   ASSUME NEW b \in Nat \ {0}, NEW d \in Int, b*d < b, -b < b*d PROVE d = 0
<1>1. d >= 1 => b*d >= b
  OBVIOUS
<1>2. d <= -1 => b*d <= -b
  OBVIOUS
<1> QED BY <1>1, <1>2
LEMMA ModUnique ==
    ASSUME NEW m \in Nat \ {0}, NEW n \in Nat, NEW q \in Int, NEW r \in 0 .. m - 1, n = m * q + r
    PROVE  n % m = r
<1>1. n = m * (n \div m) + (n % m) /\ n % m \in 0 .. m - 1 /\ n \div m \in Int
  OBVIOUS
<1>2. m * (n \div m - q) = r - (n % m)
  BY <1>1
<1>3. n \div m - q = 0
  BY <1>1, <1>2, Div0
<1> QED BY <1>1, <1>3
LEMMA ModStep ==
    ASSUME NEW m \in Nat \ {0}, NEW n \in Nat
    PROVE  (n + 1) % m = IF n % m = m - 1 THEN 0 ELSE (n % m) + 1
<1>1. n = m * (n \div m) + (n % m) /\ n % m \in 0 .. m - 1 /\ n \div m \in Int
  OBVIOUS
<1>2. n % m = m - 1 => n + 1 = m * (n \div m + 1) + 0
  BY <1>1
<1>3. n % m # m - 1 => n + 1 = m * (n \div m) + ((n % m) + 1)
  BY <1>1
<1>4. n % m = m - 1 => (n + 1) % m = 0
  <2> SUFFICES ASSUME n % m = m - 1 PROVE (n + 1) % m = 0
    OBVIOUS
  <2>1. n + 1 \in Nat /\ n \div m + 1 \in Int /\ 0 \in 0 .. m - 1
    BY <1>1
  <2> QED BY <1>2, <2>1, ModUnique
<1>5. n % m # m - 1 => (n + 1) % m = (n % m) + 1
  <2> SUFFICES ASSUME n % m # m - 1 PROVE (n + 1) % m = (n % m) + 1
    OBVIOUS
  <2>1. n + 1 \in Nat /\ n \div m \in Int /\ (n % m) + 1 \in 0 .. m - 1
    BY <1>1
  <2> QED BY <1>3, <2>1, ModUnique
<1> QED BY <1>4, <1>5

LEMMA ModSmall ==
    ASSUME NEW m \in Nat \ {0}, NEW n \in 0 .. m - 1
    PROVE  n % m = n
<1>1. n \in Nat /\ n = m * 0 + n
  OBVIOUS
<1> QED BY <1>1, ModUnique

\* A level goes up and down by a step modulo the height of the ramp.
LEMMA Wraps ==
    ASSUME NEW a \in 0 .. Top
    PROVE  /\ (a + 1) % (Top + 1) = IF a = Top THEN 0 ELSE a + 1
           /\ (a + Top) % (Top + 1) = IF a = 0 THEN Top ELSE a - 1
<1>1. (a + 1) % (Top + 1) = IF a = Top THEN 0 ELSE a + 1
  <2>1. a % (Top + 1) = a
    BY ModSmall
  <2>2. (a + 1) % (Top + 1) = IF a % (Top + 1) = (Top + 1) - 1 THEN 0
                              ELSE (a % (Top + 1)) + 1
    <3>1. Top + 1 \in Nat \ {0} /\ a \in Nat
      OBVIOUS
    <3> HIDE TopAssumption
    <3> QED BY <3>1, ModStep
  <2> QED BY <2>1, <2>2
<1>2. CASE a = 0
  BY <1>1, <1>2, ModSmall
<1>3. CASE a # 0
  <2>1. /\ a + Top \in Nat /\ a - 1 \in 0 .. (Top + 1) - 1
        /\ a + Top = (Top + 1) * 1 + (a - 1)
    BY <1>3
  <2>2. (a + Top) % (Top + 1) = a - 1
    BY <2>1, ModUnique
  <2> QED BY <1>1, <1>3, <2>2
<1> QED BY <1>2, <1>3

-----------------------------------------------------------------------------
(* One step of the envelope                                                *)

\* The level after a step of a cycle, and whether the ramp arrives there.
Moved(cycle, a) ==
    CASE cycle = "up" -> (a + 1) % (Top + 1)
      [] cycle = "down" -> (a + Top) % (Top + 1)
      [] cycle = "high" -> Top
      [] cycle = "low" -> 0

Arrives(cycle, a) ==
    \/ cycle = "up" /\ a = Top
    \/ cycle = "down" /\ a = 0

LEMMA ArrivesUpDown ==
    ASSUME NEW a
    PROVE  /\ Arrives("up", a) <=> a = Top
           /\ Arrives("down", a) <=> a = 0
BY DEF Arrives

\* The cycle that goes the way of the first ramp, and the way back.
Along(attack) == IF attack THEN "up" ELSE "down"

\* x is the way gone on the ramp, from either end.
LEMMA MovesAlong ==
    ASSUME NEW attack \in BOOLEAN, NEW x \in 0 .. Top,
           NEW y \in 0 .. Top, y = IF x = Top THEN 0 ELSE x + 1
    PROVE  /\ Moved(Along(attack), Slope(attack, x)) = Slope(attack, y)
           /\ Arrives(Along(attack), Slope(attack, y)) <=> y = Top
<1>1. CASE attack = TRUE
  <2>1. Along(attack) = "up" /\ Slope(attack, x) = x /\ Slope(attack, y) = y
    BY <1>1 DEF Along, Slope
  <2>2. Moved("up", x) = y
    BY Wraps DEF Moved
  <2>3. Arrives("up", y) <=> y = Top
    BY ArrivesUpDown
  <2> QED BY <2>1, <2>2, <2>3
<1>2. CASE attack = FALSE
  <2>1. /\ Along(attack) = "down"
        /\ Slope(attack, x) = Top - x /\ Slope(attack, y) = Top - y
    BY <1>2 DEF Along, Slope
  <2>2. Moved("down", Top - x) = ((Top - x) + Top) % (Top + 1)
    BY DEF Moved
  <2>3. Top - x \in 0 .. Top
    OBVIOUS
  <2>4. Moved("down", Top - x) = IF Top - x = 0 THEN Top ELSE Top - x - 1
    BY <2>2, <2>3, Wraps
  <2>5. Moved("down", Top - x) = Top - y
    BY <2>4
  <2>6. Arrives("down", Top - y) <=> y = Top
    BY ArrivesUpDown
  <2> QED BY <2>1, <2>5, <2>6
<1> QED BY <1>1, <1>2

LEMMA MovesBack ==
    ASSUME NEW attack \in BOOLEAN, NEW x \in 1 .. Top
    PROVE  /\ Moved(Along(~attack), Slope(attack, x)) = Slope(attack, x - 1)
           /\ Arrives(Along(~attack), Slope(attack, x - 1)) <=> x - 1 = 0
<1> DEFINE y == x - 1
<1>0. y \in 0 .. Top /\ y = x - 1
  OBVIOUS
<1> HIDE DEF y
<1>1. CASE attack = TRUE
  <2>1. /\ Along(~attack) = "down"
        /\ Slope(attack, x) = x /\ Slope(attack, y) = y
    BY <1>1 DEF Along, Slope
  <2>2. (x + Top) % (Top + 1) = y
    BY <1>0, Wraps
  <2>3. Moved("down", x) = y
    BY <2>2 DEF Moved
  <2>4. Arrives("down", y) <=> y = 0
    BY ArrivesUpDown
  <2> QED BY <1>0, <2>1, <2>3, <2>4
<1>2. CASE attack = FALSE
  <2>1. /\ Along(~attack) = "up"
        /\ Slope(attack, x) = Top - x /\ Slope(attack, y) = Top - y
    BY <1>2 DEF Along, Slope
  <2>2. Moved("up", Top - x) = ((Top - x) + 1) % (Top + 1)
    BY DEF Moved
  <2>3. Top - x \in 0 .. Top
    OBVIOUS
  <2>4. ((Top - x) + 1) % (Top + 1) = IF Top - x = Top THEN 0
                                      ELSE (Top - x) + 1
    BY <2>3, Wraps
  <2>5. Moved("up", Top - x) = Top - y
    BY <1>0, <2>2, <2>4
  <2>6. Arrives("up", Top - y) <=> y = 0
    BY <1>0, ArrivesUpDown
  <2> QED BY <1>0, <2>1, <2>5, <2>6
<1> QED BY <1>1, <1>2

\* How the promised level lies on the ramp.
LEMMA PromisedRamp ==
    ASSUME NEW bits \in Shapes, NEW n \in 0 .. Top
    PROVE  EnvelopeAt(bits, n) = Slope(bits.attack, n)
BY DEF EnvelopeAt

LEMMA PromisedTriangle ==
    ASSUME NEW bits \in Shapes, NEW n \in Nat,
           bits.continue, ~bits.hold, bits.alternate
    PROVE  LET m == n % (2 * Top)
           IN /\ m \in 0 .. 2 * Top - 1
              /\ EnvelopeAt(bits, n) =
                    Slope(bits.attack, IF m <= Top THEN m ELSE 2 * Top - m)
<1>1. 2 * Top \in Nat \ {0} /\ n % (2 * Top) \in 0 .. 2 * Top - 1
  OBVIOUS
<1>2. CASE n <= Top
  <2>1. n % (2 * Top) = n
    BY <1>1, <1>2, ModSmall
  <2> QED BY <1>1, <1>2, <2>1 DEF EnvelopeAt
<1>3. CASE ~(n <= Top)
  BY <1>1, <1>3 DEF EnvelopeAt
<1> QED BY <1>2, <1>3

LEMMA PromisedSawtooth ==
    ASSUME NEW bits \in Shapes, NEW n \in Nat,
           bits.continue, ~bits.hold, ~bits.alternate
    PROVE  /\ n % (Top + 1) \in 0 .. Top
           /\ EnvelopeAt(bits, n) = Slope(bits.attack, n % (Top + 1))
<1>1. n % (Top + 1) \in 0 .. Top
  OBVIOUS
<1>2. CASE n <= Top
  <2>1. n % (Top + 1) = n
    BY <1>2, ModSmall
  <2> QED BY <1>1, <1>2, <2>1 DEF EnvelopeAt
<1>3. CASE ~(n <= Top)
  BY <1>1, <1>3 DEF EnvelopeAt
<1> QED BY <1>2, <1>3

\* cycles[shape][phase]: the first ramp, and the second of a triangle or a
\* sawtooth.
LEMMA CycleOfPhase ==
    ASSUME NEW bits \in Shapes, NEW ph \in {0, 1}
    PROVE  /\ ph = 0 => Cycle(bits, ph = 1) = Along(bits.attack)
           /\ ph = 1 /\ bits.continue /\ ~bits.hold /\ bits.alternate =>
                 Cycle(bits, ph = 1) = Along(~bits.attack)
           /\ bits.continue /\ ~bits.hold /\ ~bits.alternate =>
                 Cycle(bits, ph = 1) = Along(bits.attack)
<1>1. bits.attack = TRUE \/ bits.attack = FALSE
  BY DEF Shapes
<1>2. CASE ph = 0
  BY <1>1, <1>2 DEF Cycle, Along
<1>3. CASE ph = 1
  <2>1. bits.continue /\ ~bits.hold =>
           Cycle(bits, ph = 1) =
              IF bits.attack # bits.alternate THEN "up" ELSE "down"
    BY <1>3 DEF Cycle
  <2>2. /\ bits.alternate => (IF bits.attack # bits.alternate THEN "up"
                               ELSE "down") = Along(~bits.attack)
        /\ ~bits.alternate => (IF bits.attack # bits.alternate THEN "up"
                                ELSE "down") = Along(bits.attack)
    <3>1. bits.alternate = TRUE \/ bits.alternate = FALSE
      BY DEF Shapes
    <3> QED BY <1>1, <3>1 DEF Along
  <2>3. ~(ph = 0)
    BY <1>3
  <2> QED BY <2>1, <2>2, <2>3, Zenon
<1> QED BY <1>2, <1>3

\* A step from the promised level in its phase leads to the next promised
\* level and its phase, over both ends of a triangle and the end of a ramp.
LEMMA StepAsPromised ==
    ASSUME NEW bits \in Shapes, NEW n \in Nat, NEW ph \in {0, 1},
           PhaseFits(bits, n, ph),
           NEW cycle, cycle = Cycle(bits, ph = 1),
           NEW next, next = Moved(cycle, EnvelopeAt(bits, n)),
           NEW turned, turned = IF Arrives(cycle, next) THEN 1 - ph ELSE ph
    PROVE  next = EnvelopeAt(bits, n + 1) /\ PhaseFits(bits, n + 1, turned)
<1> DEFINE attack == bits.attack
<1>1. attack \in BOOLEAN
  BY DEF Shapes
<1>3. CASE n < Top
  <2>1. ph = 0 /\ cycle = Along(attack) /\ n + 1 \in 0 .. Top
    BY <1>3, CycleOfPhase DEF PhaseFits
  <2>2. EnvelopeAt(bits, n) = Slope(attack, n)
    BY <1>3, PromisedRamp
  <2>3. EnvelopeAt(bits, n + 1) = Slope(attack, n + 1)
    BY <2>1, PromisedRamp
  <2> HIDE DEF attack
  <2>4. /\ Moved(Along(attack), Slope(attack, n)) = Slope(attack, n + 1)
        /\ Arrives(Along(attack), Slope(attack, n + 1)) <=> n + 1 = Top
    BY <1>1, <1>3, <2>1, MovesAlong
  <2>5. next = EnvelopeAt(bits, n + 1)
    BY <2>1, <2>2, <2>3, <2>4
  <2>6. turned = IF n + 1 = Top THEN 1 ELSE 0
    BY <2>1, <2>3, <2>4, <2>5
  <2>7. (n + 1) % (2 * Top) = n + 1
    <3>1. 2 * Top \in Nat \ {0} /\ n + 1 \in 0 .. 2 * Top - 1
      BY <1>3
    <3> QED BY <3>1, ModSmall
  <2> QED BY <1>3, <2>5, <2>6, <2>7 DEF PhaseFits
<1>4. CASE n >= Top /\ (~bits.continue \/ bits.hold)
  <2>1. ph = 1
    BY <1>4 DEF PhaseFits
  <2>2. /\ cycle \in {"high", "low"}
        /\ next = EnvelopeAt(bits, n + 1)
    <3>1. CASE ~bits.continue
      <4>1. cycle = "low"
        BY <2>1, <3>1 DEF Cycle
      <4> QED BY <1>4, <3>1, <4>1 DEF Moved, EnvelopeAt
    <3>2. CASE bits.continue /\ bits.hold
      <4>1. cycle = IF attack # bits.alternate THEN "high" ELSE "low"
        BY <2>1, <3>2 DEF Cycle
      <4> QED BY <1>4, <3>2, <4>1 DEF Moved, EnvelopeAt
    <3> QED BY <1>4, <3>1, <3>2
  <2>3. turned = 1
    BY <2>1, <2>2 DEF Arrives
  <2> QED BY <1>4, <2>2, <2>3 DEF PhaseFits
<1>5. CASE n >= Top /\ bits.continue /\ ~bits.hold /\ ~bits.alternate
  <2> DEFINE x == n % (Top + 1)
             y == (n + 1) % (Top + 1)
  <2>1. cycle = Along(attack)
    BY <1>5, CycleOfPhase
  <2>2. /\ x \in 0 .. Top /\ EnvelopeAt(bits, n) = Slope(attack, x)
        /\ y \in 0 .. Top /\ EnvelopeAt(bits, n + 1) = Slope(attack, y)
    <3>1. n + 1 \in Nat
      OBVIOUS
    <3> QED BY <1>5, <3>1, PromisedSawtooth
  <2>3. y = IF x = Top THEN 0 ELSE x + 1
    <3>1. Top + 1 \in Nat \ {0} /\ (Top + 1) - 1 = Top
      OBVIOUS
    <3> QED BY <3>1, ModStep
  <2> HIDE DEF x, y, attack
  <2>4. next = EnvelopeAt(bits, n + 1)
    BY <1>1, <2>1, <2>2, <2>3, MovesAlong
  <2> QED BY <1>5, <2>4 DEF PhaseFits
<1>6. CASE n >= Top /\ bits.continue /\ ~bits.hold /\ bits.alternate
  <2> DEFINE m == n % (2 * Top)
             k == (n + 1) % (2 * Top)
             x == IF m <= Top THEN m ELSE 2 * Top - m
             y == IF k <= Top THEN k ELSE 2 * Top - k
  <2>1. /\ m \in 0 .. 2 * Top - 1 /\ EnvelopeAt(bits, n) = Slope(attack, x)
        /\ k \in 0 .. 2 * Top - 1
        /\ EnvelopeAt(bits, n + 1) = Slope(attack, y)
    <3>1. n + 1 \in Nat
      OBVIOUS
    <3>2. /\ m \in 0 .. 2 * Top - 1
          /\ EnvelopeAt(bits, n) = Slope(attack, x)
      BY <1>6, PromisedTriangle
    <3>3. /\ k \in 0 .. 2 * Top - 1
          /\ EnvelopeAt(bits, n + 1) = Slope(attack, y)
      BY <1>6, <3>1, PromisedTriangle
    <3> QED BY <3>2, <3>3
  <2>2. k = IF m = 2 * Top - 1 THEN 0 ELSE m + 1
    <3>1. 2 * Top \in Nat \ {0}
      OBVIOUS
    <3> QED BY <3>1, ModStep
  <2>3. IF m >= Top THEN ph = 1 ELSE ph = 0
    BY <1>6 DEF PhaseFits
  <2>4. next = EnvelopeAt(bits, n + 1)
        /\ turned = IF k >= Top THEN 1 ELSE 0
    <3> HIDE DEF m, k
    <3>1. CASE m < Top
      <4>1. ph = 0 /\ cycle = Along(attack)
        <5>1. ph = 0
          BY <2>1, <2>3, <3>1
        <5> QED BY <5>1, CycleOfPhase
      <4>2. /\ x = m /\ y = m + 1 /\ k = m + 1
            /\ x \in 0 .. Top /\ y \in 0 .. Top
        BY <2>1, <2>2, <3>1
      <4> HIDE DEF x, y, attack
      <4>3. /\ Moved(Along(attack), Slope(attack, x)) = Slope(attack, y)
            /\ Arrives(Along(attack), Slope(attack, y)) <=> y = Top
        BY <1>1, <2>1, <3>1, <4>2, MovesAlong
      <4>4. next = EnvelopeAt(bits, n + 1)
        BY <2>1, <4>1, <4>3
      <4>5. turned = IF y = Top THEN 1 ELSE 0
        BY <2>1, <4>1, <4>3, <4>4
      <4> QED BY <2>1, <3>1, <4>2, <4>4, <4>5
    <3>2. CASE m >= Top
      <4>1. ph = 1 /\ cycle = Along(~attack)
        BY <1>6, <2>3, <3>2, CycleOfPhase
      <4>2. /\ x = 2 * Top - m /\ x \in 1 .. Top
            /\ y = x - 1 /\ (x - 1 = 0 <=> k = 0)
            /\ k # 0 => k >= Top
        BY <2>1, <2>2, <3>2
      <4> HIDE DEF x, y, attack
      <4>3. /\ Moved(Along(~attack), Slope(attack, x)) = Slope(attack, x - 1)
            /\ Arrives(Along(~attack), Slope(attack, x - 1)) <=> x - 1 = 0
        BY <1>1, <4>2, MovesBack
      <4>4. next = EnvelopeAt(bits, n + 1)
        BY <2>1, <4>1, <4>2, <4>3
      <4>5. turned = IF k = 0 THEN 0 ELSE 1
        BY <2>1, <4>1, <4>2, <4>3, <4>4
      <4> QED BY <2>1, <4>2, <4>4, <4>5
    <3> QED BY <2>1, <3>1, <3>2
  <2> QED BY <1>6, <2>1, <2>4 DEF PhaseFits
<1> QED BY <1>3, <1>4, <1>5, <1>6 DEF Shapes

-----------------------------------------------------------------------------
(* The actions                                                             *)

\* EnvStep is a move of the level and a turn of the phase.
LEMMA EnvStepMoves ==
    ASSUME EnvTypeOK, EnvStep,
           NEW cycle, cycle = Cycle(shape, phase = 1)
    PROVE  /\ counter' = 0
           /\ amplitude' = Moved(cycle, amplitude)
           /\ phase' = IF Arrives(cycle, amplitude') THEN 1 - phase ELSE phase
           /\ amplitude' \in 0 .. Top /\ phase' \in {0, 1}
<1>1. /\ counter' = 0
      /\ amplitude' = Moved(cycle, amplitude)
      /\ phase' = IF Arrives(cycle, amplitude') THEN 1 - phase ELSE phase
  BY Zenon DEF EnvStep, Moved, Arrives
<1>2. cycle \in {"up", "down", "high", "low"}
  BY DEF Cycle, EnvTypeOK
<1>3. Moved(cycle, amplitude) \in 0 .. Top
  <2>1. amplitude \in 0 .. Top
    BY DEF EnvTypeOK
  <2> QED BY <1>2, <2>1 DEF Moved
<1>4. phase' \in {0, 1}
  BY <1>1 DEF EnvTypeOK
<1> QED BY <1>1, <1>3, <1>4

LEMMA EnvClockInv ==
    ASSUME EnvInv, EnvClock
    PROVE  EnvInv'
<1> USE DEF EnvInv
<1>1. CASE counter + 1 >= period
  <2> DEFINE cycle == Cycle(shape, phase = 1)
  <2>1. /\ steps < Horizon /\ EnvStep
        /\ steps' = IF steps = -1 THEN -1 ELSE steps + 1
        /\ period' = period /\ shape' = shape
    BY <1>1 DEF EnvClock
  <2>2. /\ counter' = 0
        /\ amplitude' = Moved(cycle, amplitude)
        /\ phase' = IF Arrives(cycle, amplitude') THEN 1 - phase ELSE phase
        /\ amplitude' \in 0 .. Top /\ phase' \in {0, 1}
    BY <2>1, EnvStepMoves
  <2>3. EnvTypeOK'
    BY <2>1, <2>2 DEF EnvTypeOK
  <2>4. CASE steps = -1
    <3>1. ~(steps' >= 0)
      BY <2>1, <2>4
    <3> QED BY <2>3, <3>1 DEF EnvelopeAsPromised
  <2>5. CASE steps >= 0
    <3>1. /\ shape \in Shapes /\ steps \in Nat /\ phase \in {0, 1}
          /\ amplitude = EnvelopeAt(shape, steps)
          /\ PhaseFits(shape, steps, phase)
      BY <2>5 DEF EnvTypeOK, EnvelopeAsPromised
    <3> HIDE DEF cycle
    <3>2. steps' = steps + 1
      BY <2>1, <2>5
    <3>3. /\ amplitude' = EnvelopeAt(shape, steps + 1)
          /\ PhaseFits(shape, steps + 1, phase')
      <4>1. cycle = Cycle(shape, phase = 1)
        BY DEF cycle
      <4> HIDE DEF EnvInv
      <4> QED BY <2>2, <3>1, <4>1, StepAsPromised
    <3> QED BY <2>1, <2>3, <3>2, <3>3, Zenon DEF EnvelopeAsPromised
  <2> QED BY <2>4, <2>5 DEF EnvTypeOK
<1>2. CASE ~(counter + 1 >= period)
  <2>1. /\ counter' = counter + 1
        /\ UNCHANGED <<phase, amplitude, steps, period, shape>>
    BY <1>2 DEF EnvClock
  <2> QED BY <2>1 DEF EnvTypeOK, EnvelopeAsPromised, PhaseFits
<1> QED BY <1>1, <1>2

\* Nothing was stepped yet: the first level in the first phase.
LEMMA ShapeStarts ==
    ASSUME NEW bits \in Shapes
    PROVE  /\ EnvelopeAt(bits, 0) = IF bits.attack THEN 0 ELSE Top
           /\ PhaseFits(bits, 0, 0)
<1>1. 0 % (2 * Top) = 0
  <2>1. 2 * Top \in Nat \ {0} /\ 0 \in 0 .. 2 * Top - 1
    OBVIOUS
  <2> QED BY <2>1, ModSmall
<1> QED BY <1>1 DEF EnvelopeAt, PhaseFits, Slope

LEMMA NoBitsShape == NoBits \in Shapes
BY DEF NoBits, Shapes

LEMMA EnvInitInv == EnvInit => EnvInv
BY NoBitsShape DEF EnvInit, EnvInv, EnvTypeOK, EnvelopeAsPromised

LEMMA EnvStepInv == EnvInv /\ [EnvNext]_envVars => EnvInv'
<1> SUFFICES ASSUME EnvInv, [EnvNext]_envVars PROVE EnvInv'
  OBVIOUS
<1>1. CASE EnvClock
  BY <1>1, EnvClockInv
<1>2. ASSUME NEW p \in EnvPeriods, SetEnvPeriod(p) PROVE EnvInv'
  BY <1>2 DEF SetEnvPeriod, EnvInv, EnvTypeOK, EnvelopeAsPromised, PhaseFits
<1>3. ASSUME NEW bits \in Shapes, SetShape(bits) PROVE EnvInv'
  <2>1. /\ shape' = bits /\ phase' = 0 /\ steps' = 0
        /\ amplitude' = IF bits.attack THEN 0 ELSE Top
        /\ period' = period /\ counter' = counter
    BY <1>3 DEF SetShape
  <2>2. EnvTypeOK'
    BY <2>1 DEF EnvInv, EnvTypeOK
  <2>3. amplitude' = EnvelopeAt(bits, 0) /\ PhaseFits(bits, 0, 0)
    BY <2>1, ShapeStarts
  <2> QED BY <2>1, <2>2, <2>3, Zenon DEF EnvInv, EnvelopeAsPromised
<1>4. CASE EnvReset
  BY <1>4, NoBitsShape DEF EnvReset, EnvInv, EnvTypeOK, EnvelopeAsPromised
<1>5. CASE UNCHANGED envVars
  BY <1>5 DEF envVars, EnvInv, EnvTypeOK, EnvelopeAsPromised, PhaseFits
<1> QED BY <1>1, <1>2, <1>3, <1>4, <1>5 DEF EnvNext

\* The registers and the state of the generator keep their types (clock(),
\* set_shape(), reset()).
THEOREM EnvelopeTypeCorrect == EnvSpec => []EnvTypeOK
<1>1. EnvInv => EnvTypeOK
  BY DEF EnvInv
<1> QED BY EnvInitInv, EnvStepInv, <1>1, PTL DEF EnvSpec

\* The table of shapes and phases gives the promised waveform for all time,
\* whatever periods are written meanwhile.
THEOREM EnvelopeKept == EnvSpec => []EnvelopeAsPromised
<1>1. EnvInv => EnvelopeAsPromised
  BY DEF EnvInv
<1> QED BY EnvInitInv, EnvStepInv, <1>1, PTL DEF EnvSpec

-----------------------------------------------------------------------------
(***************************************************************************)
(* The five parts together (module MCBoard): they share no state, so that  *)
(* each goes its own way, and what holds of each by itself holds of all.   *)
(***************************************************************************)

\* A step of the board is a step of one part and leaves the others alone.
LEMMA OnePartMoves ==
    ASSUME [MCNext]_boardVars
    PROVE  /\ [PortsNext]_portsVars /\ [PalNext]_palVars /\ [EnvNext]_envVars
           /\ [VoicesNext]_voicesVars /\ [PacingNext]_pacingVars
<1>1. CASE PortsStep
  BY <1>1, Zenon DEF PortsStep
<1>2. CASE MemoryStep
  BY <1>2, Zenon DEF MemoryStep
<1>3. CASE EnvelopeStep
  BY <1>3, Zenon DEF EnvelopeStep
<1>4. CASE VoicesStep
  BY <1>4, Zenon DEF VoicesStep
<1>5. CASE PaceStep
  BY <1>5, Zenon DEF PaceStep
<1>6. CASE UNCHANGED boardVars
  BY <1>6, Zenon DEF boardVars
<1> QED BY <1>1, <1>2, <1>3, <1>4, <1>5, <1>6 DEF MCNext

\* Every behaviour of the board is one of each of its parts, so that the
\* theorems above are about the board too: the ports, the memory map, the
\* envelope, the square waves and the pace keep no common state.
THEOREM BoardIsItsParts ==
    MCSpec => PortsSpec /\ PalSpec /\ EnvSpec /\ VoicesSpec /\ PacingSpec
<1>1. MCInit => /\ PortsInit /\ PalInit /\ EnvInit /\ VoicesInit
                /\ PacingInit
  BY Zenon DEF MCInit
<1> QED BY <1>1, OnePartMoves, PTL
        DEF MCSpec, PortsSpec, PalSpec, EnvSpec, VoicesSpec, PacingSpec

\* The five parts keep their types together.
THEOREM BoardTypeCorrect == MCSpec => []BoardTypeOK
<1>1. PortsTypeOK /\ PalTypeOK /\ EnvTypeOK /\ VoicesTypeOK /\ PacingTypeOK
         => BoardTypeOK
  BY DEF BoardTypeOK
<1> QED BY BoardIsItsParts, PortsTypeCorrect, PalTypeCorrect,
           EnvelopeTypeCorrect, VoicesTypeCorrect, PacingTypeCorrect, <1>1, PTL
=============================================================================
