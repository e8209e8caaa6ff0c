------------------------------- MODULE Fdc765 -------------------------------
(***************************************************************************)
(* The floppy controller (lib765/765fdc.c), its two drives                 *)
(* (lib765/765ldsk.c) and what the mainboard and its user do to them.      *)
(*                                                                         *)
(* The host is the emulated program.  It passes one byte at a time through *)
(* the data register and sees the phase in the main status register.  The  *)
(* motor line serves both drives.  A disk is inserted or removed by the    *)
(* user at any moment; its image is opened, or forgotten, when the         *)
(* controller asks whether the drive is ready: for a command, and when the *)
(* motor of the drive addressed last starts.                               *)
(*                                                                         *)
(* No interrupt handler is installed, the drives are never write           *)
(* protected, and units 2 and 3 have no drive: none of these is modelled.  *)
(* The bytes of a command are kept as far as they size a transfer.         *)
(***************************************************************************)
EXTENDS Integers

CONSTANTS
    Commands,   \* the commands the host gives: a subset of Names
    Units,      \* the drives
    Images, NoImage,    \* the disk images a user inserts
    Block,      \* bytes of a sector of size code 0: 128
    Codes,      \* size codes the host gives
    Lengths,    \* data lengths (DTL) it gives; Unused or more says "no length"
    Unused,     \* 255
    Counts,     \* sectors of a READ: last sector - first sector + 1
    Tracks,     \* sectors of a FORMAT
    TrackLen,   \* bytes of a READ TRACK: MAX_SECTOR_LEN
    FollowsStatus,  \* whether the host passes bytes only as the status allows
    MotorStops, \* the phases in which the host may stop the motor
    Slack       \* bound: how far a count may run below zero

DataIn   == {"read", "read track"}
DataOut  == {"write", "format", "scan"}
Addressed == DataIn \cup DataOut \cup
             {"sense drive", "read id", "recalibrate", "seek"}
Names == Addressed \cup {"specify", "sense int", "unknown"}
Phases == {"idle", "command", "toHost", "toFdc", "result"}

ASSUME HostAssumption ==
    /\ Commands \subseteq Names /\ FollowsStatus \in BOOLEAN
    /\ MotorStops \subseteq Phases
ASSUME SizeAssumption ==
    /\ Block \in Nat \ {0} /\ Codes \subseteq Nat /\ Unused \in Nat
    /\ Lengths \subseteq Nat /\ Counts \subseteq Nat /\ Tracks \subseteq Nat
    /\ TrackLen \in Nat \ {0} /\ Slack \in Nat
\* A fact of arithmetic that the provers cannot find without induction.
ASSUME PowerAssumption == \A n \in Codes : 2 ^ n \in Nat \ {0}
ASSUME DriveAssumption == NoImage \notin Images /\ 0 \in Units

VARIABLES
    mainstat,       \* fdc_mainstat: 0x80, 0x90, 0xF0, 0xB0 or 0xD0
    busy,           \* fdc_cmd_id >= 0
    cmd,            \* the command in fdc_cmd_buf[0]
    cmd_len,        \* bytes of it still to come
    exec_len,       \* bytes of the transfer still to pass
    result_len,     \* bytes of the results still to pass
    interrupting,   \* fdc_interrupting: the reason
    curunit,        \* the drive addressed last
    motor,          \* fd_motor, of both drives
    disk,           \* the image in each drive, and whether it is open
    target,         \* history: the image the execution phase began with
    wrote           \* history: where the last write to an image went

protocol == <<mainstat, busy, cmd, cmd_len, exec_len, result_len, interrupting>>
drives == <<motor, disk>>
history == <<target, wrote>>
vars == <<protocol, curunit, drives, history>>

Empty == [image |-> NoImage, open |-> FALSE]

Init ==
    /\ mainstat = "idle" /\ busy = FALSE
    /\ cmd = "unknown" /\ cmd_len = 0
    /\ exec_len = 0 /\ result_len = 0
    /\ interrupting = "none"
    /\ curunit = 0
    /\ motor = FALSE
    /\ disk = [u \in Units |-> Empty]
    /\ target = NoImage /\ wrote = "nothing"

-----------------------------------------------------------------------------
(* The drive                                                               *)

Mutant_OpensUnnamed(u) == disk' = [disk EXCEPT ![u].open = TRUE]

\* fdl_isready() with the motor running: it opens the image, or forgets one
\* that it cannot open.
Opens(u) ==
    /\ disk[u].image # NoImage
    /\ disk' = [disk EXCEPT ![u].open = TRUE]

Forgets(u) ==
    /\ ~disk[u].open
    /\ disk' = [disk EXCEPT ![u] = Empty]

Ready(u) == motor /\ Opens(u)
NotReady(u) == IF motor THEN Forgets(u) ELSE UNCHANGED disk

\* fdl_drive_status(), whatever the answer.
Asked(u) == Ready(u) \/ NotReady(u)

\* fdl_write_sector(), fdl_format_track(): an image that is not open is not
\* written.  Formatting reads the geometry again and may lose the image.
WriteDisk(c) ==
    /\ wrote' = IF ~disk[curunit].open THEN wrote
                ELSE IF disk[curunit].image = target THEN "target" ELSE "other"
    /\ \/ UNCHANGED disk
       \/ /\ c = "format" /\ disk[curunit].open
          /\ disk' = [disk EXCEPT ![curunit] = Empty]

-----------------------------------------------------------------------------
(* The phases of a command                                                 *)

\* fdc_clear_pending_interrupt(): the end of a seek stays pending.
Pending == IF interrupting = "seek" THEN "seek" ELSE "none"

Results(n, why) ==
    /\ mainstat' = "result"
    /\ result_len' = n
    /\ interrupting' = why
    /\ target' = NoImage

Mutant_SwitchWithoutScan == {"read", "write", "format"}

\* The switch of fdc_end_execution_phase(): READ TRACK is not in it.
Switch == {"read", "write", "format", "scan"}

ResultsOf(c) == IF c \in Switch THEN 7 ELSE result_len

\* why is what it and its caller leave in fdc_interrupting.
EndExecutionPhase(c, why) ==
    /\ Results(ResultsOf(c), why)
    /\ IF c \in {"write", "format"} THEN WriteDisk(c) ELSE UNCHANGED <<disk, wrote>>

StartTransfer(direction, n) ==
    /\ mainstat' = direction
    /\ exec_len' = n
    /\ interrupting' = "exec"
    /\ target' = disk'[curunit'].image
    /\ UNCHANGED <<result_len, wrote>>

-----------------------------------------------------------------------------
(* The commands                                                            *)

Whole(n) == Block * 2 ^ n

\* DTL counts for a READ only where the size code is 0, elsewhere always.
ReadLen(n, dtl)  == IF n = 0 /\ dtl < Unused THEN dtl ELSE Whole(n)
WriteLen(n, dtl) == IF dtl < Unused THEN dtl ELSE Whole(n)

\* An error before the transfer; len is what the command leaves to transfer.
Ends(n, len) == Results(n, "result") /\ exec_len' = len /\ UNCHANGED wrote

\* The sectors are read at once, and an error in one ends the command; without
\* a sector to read the drive is not asked anything.
Read == \E n \in Codes, dtl \in Lengths, k \in Counts :
    \/ /\ IF k = 0 THEN UNCHANGED disk ELSE Ready(curunit')
       /\ StartTransfer("toHost", k * ReadLen(n, dtl))
    \/ /\ Asked(curunit')
       /\ \E done \in 0 .. k - 1 : Ends(7, done * ReadLen(n, dtl))

ReadTrack ==
    \/ Ready(curunit') /\ StartTransfer("toHost", TrackLen)
    \/ Asked(curunit') /\ Ends(result_len, TrackLen)

Write == \E n \in Codes, dtl \in Lengths :
    \/ Ready(curunit') /\ StartTransfer("toFdc", WriteLen(n, dtl))
    \/ NotReady(curunit') /\ Ends(7, WriteLen(n, dtl))

Format ==
    \/ \E k \in Tracks : Ready(curunit') /\ StartTransfer("toFdc", 4 * k)
    \/ NotReady(curunit') /\ Ends(result_len, exec_len)

\* SCAN reads the sector without asking whether the drive is ready.
Scan == \E n \in Codes, dtl \in Lengths :
    /\ UNCHANGED disk
    /\ \/ disk[curunit'].open /\ StartTransfer("toFdc", WriteLen(n, dtl))
       \/ Ends(7, WriteLen(n, dtl))

ReadId ==
    /\ Asked(curunit')
    /\ Ends(7, exec_len)

\* fdc_get_st3() asks the drive for its status.
SenseDrive ==
    /\ Asked(curunit')
    /\ Results(1, Pending)
    /\ UNCHANGED <<exec_len, wrote>>

\* SEEK and RECALIBRATE have no results; the host asks for them.
Seek ==
    /\ mainstat' = "idle"
    /\ interrupting' = "seek"
    /\ Asked(curunit')
    /\ UNCHANGED <<exec_len, result_len, history>>

SenseInt ==
    /\ Results(IF interrupting = "seek" THEN 2 ELSE 1, "none")
    /\ UNCHANGED <<exec_len, disk, wrote>>

Specify ==
    /\ mainstat' = "idle"
    /\ interrupting' = Pending
    /\ UNCHANGED <<exec_len, result_len, disk, history>>

Unknown ==
    /\ Results(1, Pending)
    /\ UNCHANGED <<exec_len, disk, wrote>>

\* fdc_execute() on the last byte of a command.
Execute(c) ==
    /\ busy' = (c \notin {"seek", "recalibrate", "specify"})
    /\ IF c \in Addressed THEN curunit' \in Units ELSE UNCHANGED curunit
    /\ \/ c = "read" /\ Read
       \/ c = "read track" /\ ReadTrack
       \/ c = "write" /\ Write
       \/ c = "format" /\ Format
       \/ c = "scan" /\ Scan
       \/ c = "read id" /\ ReadId
       \/ c = "sense drive" /\ SenseDrive
       \/ c \in {"seek", "recalibrate"} /\ Seek
       \/ c = "sense int" /\ SenseInt
       \/ c = "specify" /\ Specify
       \/ c = "unknown" /\ Unknown

-----------------------------------------------------------------------------
(* The data register                                                       *)

Transferring == mainstat \in {"toHost", "toFdc"}

Following(c) == CASE c \in {"read", "read track", "write", "scan"} -> 8
               [] c = "format" -> 5
               [] c \in {"specify", "seek"} -> 2
               [] c \in {"sense drive", "recalibrate", "read id"} -> 1
               [] OTHER -> 0

Mutant_PassByteUncounted ==
    /\ Transferring
    /\ exec_len' = IF mainstat = "toHost" THEN exec_len - 1 ELSE exec_len
    /\ \/ exec_len' = 0 /\ EndExecutionPhase(cmd, "result")
       \/ /\ exec_len' # 0
          /\ interrupting' = Pending
          /\ UNCHANGED <<mainstat, result_len, disk, history>>
    /\ UNCHANGED <<busy, cmd, cmd_len, curunit, motor>>

\* A byte of the execution phase, in whichever direction the host passes it.
\* READ TRACK takes its results interrupt from here.
PassByte ==
    /\ Transferring
    /\ exec_len > -Slack
    /\ exec_len' = exec_len - 1
    /\ \/ exec_len = 1 /\ EndExecutionPhase(cmd, "result")
       \/ /\ exec_len # 1
          /\ interrupting' = Pending
          /\ UNCHANGED <<mainstat, result_len, disk, history>>
    /\ UNCHANGED <<busy, cmd, cmd_len, curunit, motor>>

Mutant_GiveUpAnytime ==
    /\ busy /\ cmd_len <= 0
    /\ busy' = FALSE
    /\ interrupting' = Pending
    /\ UNCHANGED <<mainstat, cmd, cmd_len, exec_len, result_len, curunit,
                   drives, history>>

\* fdc_write_data(): a byte too many gives the command up, not its status.
GiveUp ==
    /\ ~Transferring /\ busy /\ cmd_len <= 0
    /\ busy' = FALSE
    /\ interrupting' = Pending
    /\ UNCHANGED <<mainstat, cmd, cmd_len, exec_len, result_len, curunit,
                   drives, history>>

FirstByte ==
    /\ ~Transferring /\ ~busy
    /\ cmd' \in Commands
    /\ cmd_len' = Following(cmd')
    /\ \/ cmd_len' = 0 /\ Execute(cmd')
       \/ /\ cmd_len' # 0
          /\ busy' = TRUE
          /\ mainstat' = IF mainstat = "idle" THEN "command" ELSE mainstat
          /\ interrupting' = Pending
          /\ UNCHANGED <<exec_len, result_len, curunit, disk, history>>
    /\ UNCHANGED motor

NextByte ==
    /\ ~Transferring /\ busy /\ cmd_len > 0
    /\ cmd_len' = cmd_len - 1
    /\ \/ cmd_len = 1 /\ Execute(cmd)
       \/ /\ cmd_len # 1
          /\ interrupting' = Pending
          /\ UNCHANGED <<mainstat, busy, exec_len, result_len, curunit,
                         disk, history>>
    /\ UNCHANGED <<cmd, motor>>

WriteData ==
    /\ FollowsStatus => mainstat \in {"idle", "command", "toFdc"}
    /\ PassByte \/ GiveUp \/ FirstByte \/ NextByte

\* fdc_read_data() outside an execution phase.
ReadResult ==
    /\ ~Transferring
    /\ result_len > -Slack
    /\ result_len' = result_len - 1
    /\ IF result_len = 1 THEN mainstat' = "idle" /\ busy' = FALSE
                         ELSE UNCHANGED <<mainstat, busy>>
    /\ interrupting' = Pending
    /\ UNCHANGED <<cmd, cmd_len, exec_len, curunit, drives, history>>

ReadData ==
    /\ FollowsStatus => mainstat \in {"toHost", "result"}
    /\ PassByte \/ ReadResult

-----------------------------------------------------------------------------
(* The motor, the user, the reset                                          *)

\* fdc_set_motor(): the drive addressed last is asked for its status when its
\* motor starts, in whatever phase the controller is.
MotorOn ==
    /\ motor' = TRUE
    /\ IF motor THEN UNCHANGED disk ELSE Opens(curunit) \/ Forgets(curunit)
    /\ UNCHANGED <<protocol, curunit, history>>

\* Whatever the controller is doing ends when it stops.
MotorOff ==
    /\ mainstat \in MotorStops
    /\ motor /\ motor' = FALSE
    /\ IF mainstat = "idle"
       THEN UNCHANGED <<mainstat, result_len, interrupting, disk, history>>
       ELSE EndExecutionPhase(cmd, IF cmd \in Switch THEN "result" ELSE interrupting)
    /\ UNCHANGED <<busy, cmd, cmd_len, exec_len, curunit>>

Mutant_ChangeDiskKeepsOpen ==
    /\ \E u \in Units, i \in Images \cup {NoImage} :
          disk' = [disk EXCEPT ![u].image = i]
    /\ UNCHANGED <<protocol, curunit, motor, history>>

\* insert_disk(), remove_disk(): the image that was open is closed first.
ChangeDisk ==
    /\ \E u \in Units, i \in Images \cup {NoImage} :
          disk' = [disk EXCEPT ![u] = [image |-> i, open |-> FALSE]]
    /\ UNCHANGED <<protocol, curunit, motor, history>>

\* FdcTraits::reset(), FddTraits::reset(): the motor is left as it is.
Reset ==
    /\ mainstat' = "idle" /\ busy' = FALSE
    /\ cmd' = "unknown" /\ cmd_len' = 0
    /\ exec_len' = 0 /\ result_len' = 0
    /\ interrupting' = "none"
    /\ curunit' = 0
    /\ disk' = [u \in Units |-> Empty]
    /\ target' = NoImage
    /\ UNCHANGED <<motor, wrote>>

Next == WriteData \/ ReadData \/ MotorOn \/ MotorOff \/ ChangeDisk \/ Reset

Spec == Init /\ [][Next]_vars

\* A host that does not leave a command half done: nothing in the emulator
\* makes it so, it is what HostGetsDone is conditional on.
DiligentHost == Spec /\ WF_vars(WriteData \/ ReadData)

-----------------------------------------------------------------------------
(* Properties                                                              *)

TypeOK ==
    /\ mainstat \in Phases /\ busy \in BOOLEAN
    /\ cmd \in Names /\ cmd_len \in 0 .. 8
    /\ exec_len \in Int /\ result_len \in Int
    /\ interrupting \in {"none", "result", "exec", "seek"}
    /\ curunit \in Units /\ motor \in BOOLEAN
    /\ disk \in [Units -> [image : Images \cup {NoImage}, open : BOOLEAN]]
    /\ \A u \in Units : disk[u].open => disk[u].image # NoImage
    /\ target \in Images \cup {NoImage}
    /\ wrote \in {"nothing", "target", "other"}

\* fdc_end_execution_phase() looks at the command byte again when the transfer
\* is over: it is still the command that started the transfer, whatever the
\* host passed and whatever was reset or stopped in between.
TransferHasCommand ==
    /\ mainstat = "toHost" => busy /\ cmd_len = 0 /\ cmd \in DataIn
    /\ mainstat = "toFdc" => busy /\ cmd_len = 0 /\ cmd \in DataOut

\* A sector is written to the image that was in the drive when the WRITE
\* began, or nowhere: not to a disk inserted since, and not by a command that
\* had not begun its transfer, nor twice.
WritesHitTarget == wrote # "other"

Promised == INSTANCE FdcPhases WITH
    MostParams <- 8,
    ResultLengths <- {1, 2, 7},
    TransferLengths <- Nat \ {0},
    phase <- IF Transferring THEN "execution" ELSE mainstat,
    left <- CASE mainstat = "command" -> cmd_len
              [] mainstat = "result" -> result_len
              [] Transferring -> exec_len
              [] OTHER -> 0

\* The phases follow each other as promised and each has its bytes.
PhasesAsPromised == Promised!Spec

\* A host that goes on passing bytes as the status asks gets back to idle; it
\* is not asked for bytes for ever.
HostGetsDone == mainstat # "idle" ~> mainstat = "idle"

\* In the result phase there is a result to read.
ResultsReady == mainstat = "result" => result_len > 0
=============================================================================
