------------------------------ MODULE MCBoard ------------------------------
(***************************************************************************)
(* Five parts of the mainboard that share no state, each checked by itself *)
(* in one run: the ports, the memory map, the envelope generator and the   *)
(* square waves of the sound chip, and the pace.  part says which of them  *)
(* a behaviour is about; the others rest where they start.                 *)
(***************************************************************************)
EXTENDS Ports, PalMap, EnvGen, Voices, Pacing

VARIABLE part

boardVars == <<portsVars, palVars, envVars, voicesVars, pacingVars, part>>

\* Every key of the line with its bits clear is down, none of another.
MCMatrix == [l \in Lines |-> IF \E b \in LineBits : l[b] THEN High ELSE Zero]

\* The mixer makes I/O port A an output with 1 and I/O port B with 2.
MCOutputs == [r \in IoPorts |-> IF r = IoPortA THEN {1} ELSE {2}]

MCFrameTimes == [r \in Rates |-> IF r = 3 THEN 16 ELSE 12]

MCInit ==
    /\ part \in {"ports", "memory", "envelope", "voices", "pace"}
    /\ PortsInit /\ EnvInit /\ VoicesInit
    /\ PalInit /\ (part # "memory" => ~conf.wide /\ conf.exp = {7})
    /\ PacingInit /\ (part # "pace" => rate = 3 /\ speedup = 1)

\* Bounds on what the program does: port B of the 8255, which nothing depends
\* on, is used only while port A and the generator are as a reset leaves them;
\* the registers of the I/O ports hold 0 or 255, and one of them 0.
PortsBound ==
    /\ dir.b \/ port.b # Zero => psg = NoRegisters /\ port.a = Zero /\ data = Zero
    /\ \A r \in IoPorts : psg.regs[r] \in {Zero, High}
    /\ \E r \in IoPorts : psg.regs[r] = Zero

PortsStep ==
    /\ part = "ports" /\ PortsNext /\ PortsBound'
    /\ UNCHANGED <<palVars, envVars, voicesVars, pacingVars, part>>

MemoryStep ==
    /\ part = "memory" /\ PalNext
    /\ UNCHANGED <<portsVars, envVars, voicesVars, pacingVars, part>>

EnvelopeStep ==
    /\ part = "envelope" /\ EnvNext
    /\ UNCHANGED <<portsVars, palVars, voicesVars, pacingVars, part>>

VoicesStep ==
    /\ part = "voices" /\ VoicesNext
    /\ UNCHANGED <<portsVars, palVars, envVars, pacingVars, part>>

PaceStep ==
    /\ part = "pace" /\ PacingNext
    /\ UNCHANGED <<portsVars, palVars, envVars, voicesVars, part>>

MCNext == PortsStep \/ MemoryStep \/ EnvelopeStep \/ VoicesStep \/ PaceStep

MCSpec == MCInit /\ [][MCNext]_boardVars

\* The types of the five modules.
BoardTypeOK ==
    PortsTypeOK /\ PalTypeOK /\ EnvTypeOK /\ VoicesTypeOK /\ PacingTypeOK
=============================================================================
