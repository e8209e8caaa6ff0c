------------------------------- MODULE Ports -------------------------------
(***************************************************************************)
(* The way a program reaches the sound generator and the keyboard: the     *)
(* 8255 (ppi/ppi-core.cc), whose port A carries bytes to and from the      *)
(* sound generator and whose port C drives the generator's bus control     *)
(* lines and the keyboard line, the wires between them in                  *)
(* cpc/cpc-mainboard.cc, the register file of the generator                *)
(* (psg/psg-core.cc), whose I/O port A reads the keyboard matrix and whose *)
(* I/O port B is not connected, and what a snapshot keeps of all this.     *)
(*                                                                         *)
(* A byte written to port A is an index or a register value; the unused    *)
(* bits a register masks are left out.  Of port C the tape bits are left   *)
(* out, and of port B everything but the fact that it is an input or keeps *)
(* what was written.  BC2 is wired to 1.                                   *)
(***************************************************************************)
EXTENDS Integers

CONSTANTS
    Bytes,      \* what port A and a register may hold
    Zero,       \* the byte 0
    High,       \* the byte 0xff, read from a bus nobody drives
    Registers,  \* the indices below 16
    Mixer,      \* index 7; its value also holds the directions of I/O ports
    IoPortA,    \* index 14
    IoPortB,    \* index 15
    Outputs,    \* the mixer values that make each I/O port an output: those
                \* with bit 6 set for port A, with bit 7 set for port B
    LineBits,   \* the bits of port C that name a keyboard line
    Bit0,       \* bit 0, one of them
    Matrix,     \* the byte the keyboard returns on each line
    DirsC       \* the directions of port C: the halves that are inputs

IoPorts == {IoPortA, IoPortB}
Lines == [LineBits -> BOOLEAN]

ASSUME BytesAssumption ==
    /\ Registers \subseteq Bytes /\ {Zero, Mixer} \cup IoPorts \subseteq Registers
    /\ {Mixer, Zero} \cap IoPorts = {} /\ IoPortA # IoPortB /\ High \in Bytes
    /\ Outputs \in [IoPorts -> SUBSET (Bytes \ {Zero})]
ASSUME LinesAssumption ==
    /\ LineBits \cap {"bdir", "bc1"} = {} /\ Bit0 \in LineBits
    /\ Matrix \in [Lines -> Bytes]
ASSUME DirsAssumption == {} \in DirsC

\* The bits of port C: two are the control lines of the generator's bus.
Pins == {"bdir", "bc1"} \cup LineBits
PortC == [Pins -> BOOLEAN]

\* The keyboard line that the bits name.
Line(c) == [b \in LineBits |-> c[b]]

\* Control words: a mode word holds the three directions (TRUE is input), a
\* bit word sets or clears one bit of port C.
ModeWords == [mode : {TRUE}, a : BOOLEAN, b : BOOLEAN, c : DirsC]
BitWords == [mode : {FALSE}, bit : Pins, to : BOOLEAN]

\* The byte 0 left in ctrl_p by a reset is a bit word.
ClearBit0 == [mode |-> FALSE, bit |-> Bit0, to |-> FALSE]

VARIABLES
    port,   \* [a, b, c]: the latches of the 8255
    ctrl,   \* ctrl_p
    dir,    \* [a, b, c]: dir_a, dir_b, dir_c
    bus,    \* psg_bdir, psg_bc1 and the line of the keyboard, pin by pin
    data,   \* psg_data
    psg     \* [index, regs]: the selected register and the registers

ppiVars == <<port, ctrl, dir>>
portsVars == <<ppiVars, bus, data, psg>>

AllLow == [pin \in Pins |-> FALSE]
AllHigh == [pin \in Pins |-> TRUE]
NoRegisters == [index |-> Zero, regs |-> [r \in Registers |-> Zero]]
AllOutputs == [a |-> FALSE, b |-> FALSE, c |-> {}]

PortsInit ==
    /\ port = [a |-> Zero, b |-> Zero, c |-> AllLow]
    /\ ctrl = ClearBit0
    /\ dir = AllOutputs
    /\ bus = AllLow /\ data = Zero /\ psg = NoRegisters

-----------------------------------------------------------------------------
(* The bus of the sound generator                                          *)

\* The I/O ports that the mixer makes outputs.
Driven(p) == {r \in IoPorts : p.regs[Mixer] \in Outputs[r]}

\* set_port0(), set_port1(): as an output an I/O port drives nothing, and its
\* register takes what psg_port_a_wr() and psg_port_b_wr() return.
Kept(byte, p) == IF p.index \in Driven(p) THEN High ELSE byte

\* psg_update() for a byte that goes to a generator in state p.
Latched(pins, byte, p) ==
    CASE pins["bdir"] /\ pins["bc1"] -> [p EXCEPT !.index = byte]
      [] pins["bdir"] /\ ~pins["bc1"] /\ p.index \in Registers ->
            [p EXCEPT !.regs[p.index] = Kept(byte, p)]
      [] OTHER -> p

Mutant_MixerIgnored(given) ==
    IF psg.index \in Registers THEN psg.regs[psg.index] ELSE given

\* get_value(): an I/O port that is an input reads the keyboard, or nothing;
\* an index above 15 leaves the byte it is given.
RegisterRead(given) ==
    CASE psg.index \in IoPorts \ Driven(psg) ->
            IF psg.index = IoPortA THEN Matrix[Line(bus)] ELSE High
      [] psg.index \in (Registers \ IoPorts) \cup Driven(psg) ->
            psg.regs[psg.index]
      [] OTHER -> given

\* ppi_port_a_rd()
PortARead(given) ==
    IF ~bus["bdir"] /\ bus["bc1"] THEN RegisterRead(given) ELSE High

\* ppi_port_a_wr() and ppi_port_c_wr()
DriveA(byte) ==
    data' = byte /\ psg' = Latched(bus, byte, psg) /\ UNCHANGED bus

DriveC(c) ==
    bus' = c /\ psg' = Latched(c, data, psg) /\ UNCHANGED data

NothingDriven == UNCHANGED <<bus, data, psg>>

-----------------------------------------------------------------------------
(* Reads and writes of the 8255                                            *)

ReadA ==
    /\ port' = IF dir.a THEN [port EXCEPT !.a = PortARead(Zero)] ELSE port
    /\ NothingDriven /\ UNCHANGED <<ctrl, dir>>

WriteA(byte) ==
    /\ port' = [port EXCEPT !.a = byte]
    /\ IF dir.a THEN NothingDriven ELSE DriveA(byte)
    /\ UNCHANGED <<ctrl, dir>>

\* The tape, the printer, the links and vsync: any byte.
ReadB ==
    /\ \E byte \in Bytes :
          port' = IF dir.b THEN [port EXCEPT !.b = byte] ELSE port
    /\ NothingDriven /\ UNCHANGED <<ctrl, dir>>

\* ppi_port_b_wr() ignores the byte.
WriteB(byte) ==
    /\ port' = [port EXCEPT !.b = byte]
    /\ NothingDriven /\ UNCHANGED <<ctrl, dir>>

ReadC ==
    /\ port' = IF dir.c # {} THEN [port EXCEPT !.c = AllHigh] ELSE port
    /\ NothingDriven /\ UNCHANGED <<ctrl, dir>>

WriteC(c) ==
    /\ port' = [port EXCEPT !.c = c]
    /\ IF dir.c # {} THEN NothingDriven ELSE DriveC(c)
    /\ UNCHANGED <<ctrl, dir>>

Mutant_TurnedPortNotDriven(word) ==
    /\ ctrl' = word
    /\ dir' = [a |-> word.a, b |-> word.b, c |-> word.c]
    /\ UNCHANGED <<port, bus, data, psg>>

\* A port that becomes an input is read; one that becomes an output drives
\* what it holds, port A before port C: the byte is out before the bus
\* control lines move.  A direction that stays does nothing.
SetMode(word) ==
    LET outA == dir.a /\ ~word.a
        outC == dir.c # {} /\ word.c = {}
        withA == IF outA THEN Latched(bus, port.a, psg) ELSE psg
    IN
    /\ ctrl' = word
    /\ dir' = [a |-> word.a, b |-> word.b, c |-> word.c]
    /\ data' = IF outA THEN port.a ELSE data
    /\ bus' = IF outC THEN port.c ELSE bus
    /\ psg' = IF outC THEN Latched(port.c, data', withA) ELSE withA
    /\ \E b \in IF word.b /\ ~dir.b THEN Bytes ELSE {port.b} :
          port' = [a |-> IF word.a /\ ~dir.a THEN PortARead(port.a)
                         ELSE port.a,
                   b |-> b,
                   c |-> IF word.c \notin {{}, dir.c} THEN AllHigh ELSE port.c]

WithBit(c, word) == [c EXCEPT ![word.bit] = word.to]

\* The word stays in ctrl_p where a mode word was.
SetBit(word) ==
    /\ ctrl' = word
    /\ IF dir.c # {} THEN NothingDriven /\ UNCHANGED port
       ELSE LET c == WithBit(port.c, word)
            IN port' = [port EXCEPT !.c = c] /\ DriveC(c)
    /\ UNCHANGED dir

-----------------------------------------------------------------------------
(* Reset and snapshots                                                     *)

PortsReset ==
    /\ port' = [a |-> Zero, b |-> Zero, c |-> AllLow]
    /\ ctrl' = ClearBit0
    /\ dir' = AllOutputs
    /\ bus' = AllLow /\ data' = Zero /\ psg' = NoRegisters

Mutant_RestoreRegistersFirst ==
    /\ UNCHANGED <<port, ctrl, dir, bus, data>>
    /\ psg' = Latched(port.c, port.a, psg)

\* load_cpc() of what save_cpc() takes from this state.  It begins with a
\* reset, so that what comes out depends on the snapshot alone.  The ports
\* are written while all are outputs, then the control word; the registers
\* of the generator come last and in order, the mixer before the I/O ports,
\* and its index after them.
PortsRestore ==
    LET written == IF ctrl.mode THEN port.c ELSE WithBit(port.c, ctrl)
        reads == ~written["bdir"] /\ written["bc1"]
    IN
    /\ ctrl' = ctrl
    /\ dir' = IF ctrl.mode THEN [a |-> ctrl.a, b |-> ctrl.b, c |-> ctrl.c]
              ELSE AllOutputs
    /\ data' = port.a
    /\ bus' = written
    /\ psg' = [psg EXCEPT !.regs =
                [r \in Registers |-> IF r \in Driven(psg) THEN High ELSE @[r]]]
    /\ \E b \in IF dir'.b THEN Bytes ELSE {port.b} :
          port' = [a |-> IF ~dir'.a THEN port.a
                         ELSE IF reads THEN Zero ELSE High,
                   b |-> b,
                   c |-> IF dir'.c # {} THEN AllHigh ELSE written]

PortsNext ==
    \/ ReadA
    \/ \E byte \in Bytes : WriteA(byte)
    \/ ReadB
    \/ \E byte \in Bytes : WriteB(byte)
    \/ ReadC
    \/ \E c \in PortC : WriteC(c)
    \/ \E word \in ModeWords : SetMode(word)
    \/ \E word \in BitWords : SetBit(word)
    \/ PortsReset
    \/ PortsRestore

PortsSpec == PortsInit /\ [][PortsNext]_portsVars

-----------------------------------------------------------------------------
(* Properties                                                              *)

PortsTypeOK ==
    /\ port \in [a : Bytes, b : Bytes, c : PortC]
    /\ ctrl \in ModeWords \cup BitWords
    /\ dir \in [a : BOOLEAN, b : BOOLEAN, c : DirsC]
    /\ bus \in PortC
    /\ data \in Bytes
    /\ psg \in [index : Bytes, regs : [Registers -> Bytes]]

\* While a port is an output, the wires behind it carry what the port holds,
\* whatever directions it had before and however it came to hold it: port C
\* the bus control lines and the keyboard line, port A the byte that the next
\* move of the control lines latches.
BusFollowsPorts ==
    /\ dir.c = {} => bus = port.c
    /\ ~dir.a => data = port.a

\* A program that reads port A with the I/O port selected and port C asking
\* for a read gets the keyboard line that port C names, not one that an
\* earlier value of port C left behind.
ReadsSelectedLine ==
    [][/\ ReadA
       /\ dir.a /\ dir.c = {} /\ ~port.c["bdir"] /\ port.c["bc1"]
       /\ psg.index = IoPortA /\ IoPortA \notin Driven(psg)
       => port'.a = Matrix[Line(port.c)]]_portsVars

\* A snapshot whose control word is a mode word brings back the directions,
\* the registers, the selected one and the outputs: the word in ctrl_p still
\* tells the directions, and nothing that is written on the way sticks.  The
\* registers of the I/O ports that the mixer makes outputs are the exception:
\* set_port0() and set_port1() store 0xff there whatever the snapshot held.
RestoreKeepsPorts ==
    [][PortsRestore /\ ctrl.mode =>
          /\ dir' = dir
          /\ psg'.index = psg.index
          /\ \A r \in Registers \ Driven(psg) : psg'.regs[r] = psg.regs[r]
          /\ dir.c = {} => bus' = bus /\ port'.c = port.c
          /\ ~dir.a => data' = data /\ port'.a = port.a]_portsVars
=============================================================================
