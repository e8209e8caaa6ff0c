----------------------------- MODULE FdcProofs -----------------------------
(***************************************************************************)
(* Proofs about Fdc765, for every host, every set of commands and every    *)
(* length of a transfer.                                                   *)
(***************************************************************************)
EXTENDS Fdc765, TLAPS

\* What the controller does with the last byte of a command: it starts the
\* transfer that belongs to the command, or none.
LEMMA ExecuteOwnsTransfer ==
    ASSUME NEW c, Execute(c), cmd' = c, cmd_len' = 0
    PROVE  TransferHasCommand'
<1> USE DEF TransferHasCommand, DataIn, DataOut
<1>1. CASE c = "read" /\ Read
  BY <1>1, Zenon DEF Execute, Read, StartTransfer, Ends, Results
<1>2. CASE c = "read track" /\ ReadTrack
  BY <1>2, Zenon DEF Execute, ReadTrack, StartTransfer, Ends, Results
<1>3. CASE c = "write" /\ Write
  BY <1>3, Zenon DEF Execute, Write, StartTransfer, Ends, Results
<1>4. CASE c = "format" /\ Format
  BY <1>4, Zenon DEF Execute, Format, StartTransfer, Ends, Results
<1>5. CASE c = "scan" /\ Scan
  BY <1>5, Zenon DEF Execute, Scan, StartTransfer, Ends, Results
<1>6. CASE ReadId \/ SenseDrive \/ Seek \/ SenseInt \/ Specify \/ Unknown
  BY <1>6 DEF ReadId, SenseDrive, Seek, SenseInt, Specify, Unknown,
              Ends, Results
<1> QED
  BY <1>1, <1>2, <1>3, <1>4, <1>5, <1>6, Zenon DEF Execute

\* A byte of a transfer leaves the command alone or enters the result phase.
LEMMA PassByteOwnsTransfer ==
    ASSUME TransferHasCommand, PassByte
    PROVE  TransferHasCommand'
BY DEF TransferHasCommand, PassByte, EndExecutionPhase, Results

\* Every byte the host passes, whether the status asks for it or not, leaves a
\* transfer with the command that started it (fdc_write_data, fdc_read_data).
LEMMA ByteOwnsTransfer ==
    ASSUME TransferHasCommand, WriteData \/ ReadData
    PROVE  TransferHasCommand'
<1>1. CASE PassByte
  BY <1>1, PassByteOwnsTransfer
<1>2. CASE GiveUp
  BY <1>2 DEF GiveUp, TransferHasCommand, Transferring
<1>3. CASE FirstByte
  <2>1. CASE cmd_len' = 0 /\ Execute(cmd')
    BY <2>1, ExecuteOwnsTransfer
  <2>2. CASE mainstat' = IF mainstat = "idle" THEN "command" ELSE mainstat
    BY <1>3, <2>2 DEF FirstByte, TransferHasCommand, Transferring
  <2> QED
    BY <1>3, <2>1, <2>2, Zenon DEF FirstByte
<1>4. CASE NextByte
  <2>1. CASE cmd_len = 1 /\ Execute(cmd)
    <3>1. cmd' = cmd /\ cmd_len' = 0
      BY <1>4, <2>1 DEF NextByte
    <3> QED
      BY <2>1, <3>1, ExecuteOwnsTransfer
  <2>2. CASE mainstat' = mainstat
    BY <1>4, <2>2 DEF NextByte, TransferHasCommand, Transferring
  <2> QED
    BY <1>4, <2>1, <2>2, Zenon DEF NextByte
<1>5. CASE ReadResult
  BY <1>5 DEF ReadResult, TransferHasCommand, Transferring
<1> QED
  BY <1>1, <1>2, <1>3, <1>4, <1>5, Zenon DEF WriteData, ReadData

\* Neither does the motor, the user or a reset.
LEMMA StepOwnsTransfer ==
    ASSUME TransferHasCommand, [Next]_vars
    PROVE  TransferHasCommand'
<1>1. CASE WriteData \/ ReadData
  BY <1>1, ByteOwnsTransfer
<1>2. CASE MotorOn
  BY <1>2 DEF MotorOn, protocol, TransferHasCommand
<1>3. CASE MotorOff
  BY <1>3 DEF MotorOff, EndExecutionPhase, Results, TransferHasCommand
<1>4. CASE ChangeDisk
  BY <1>4 DEF ChangeDisk, protocol, TransferHasCommand
<1>5. CASE Reset
  BY <1>5 DEF Reset, TransferHasCommand
<1>6. CASE UNCHANGED vars
  BY <1>6 DEF vars, protocol, TransferHasCommand
<1> QED
  BY <1>1, <1>2, <1>3, <1>4, <1>5, <1>6, Zenon DEF Next

\* When a transfer ends, fdc_end_execution_phase() finds the command that began
\* it, whatever the host does.
THEOREM TransferOwned == Spec => []TransferHasCommand
<1>1. Init => TransferHasCommand
  BY DEF Init, TransferHasCommand
<1>2. TransferHasCommand /\ [Next]_vars => TransferHasCommand'
  BY StepOwnsTransfer
<1> QED
  BY <1>1, <1>2, PTL DEF Spec

-----------------------------------------------------------------------------
(* Where sectors are written                                               *)

DrivesTyped ==
    /\ disk \in [Units -> [image : Images \cup {NoImage}, open : BOOLEAN]]
    /\ curunit \in Units

\* While bytes for a sector come in the motor runs, so that nothing asks the
\* drive, and the image that is open in it is the one the command began with:
\* a disk inserted since is not open.  (SCAN transfers without the motor, and
\* the motor starting in its transfer may open another disk.)
TargetStays ==
    mainstat = "toFdc" /\ cmd \in {"write", "format"} =>
    /\ motor
    /\ disk[curunit].open => disk[curunit].image = target

WriteInv == TransferHasCommand /\ DrivesTyped /\ TargetStays /\ WritesHitTarget

\* Asking a drive whether it is ready, and writing to it.
LEMMA DriveStepsTyped ==
    ASSUME DrivesTyped
    PROVE  /\ \A u \in Units : Opens(u) \/ Forgets(u) \/ Asked(u)
                 => disk' \in [Units -> [image : Images \cup {NoImage}, open : BOOLEAN]]
           /\ \A c : WriteDisk(c)
                 => disk' \in [Units -> [image : Images \cup {NoImage}, open : BOOLEAN]]
<1> DEFINE Slot == [image : Images \cup {NoImage}, open : BOOLEAN]
<1>0. Empty \in Slot
  BY DEF Empty
<1>1. ASSUME NEW u \in Units, Opens(u)  PROVE disk' \in [Units -> Slot]
  <2>1. [disk[u] EXCEPT !.open = TRUE] \in Slot
    BY DEF DrivesTyped
  <2> QED
    BY <1>1, <2>1, Zenon DEF Opens, DrivesTyped
<1>2. ASSUME NEW u \in Units, Forgets(u)  PROVE disk' \in [Units -> Slot]
  BY <1>0, <1>2 DEF Forgets, DrivesTyped
<1>3. ASSUME NEW c, WriteDisk(c)  PROVE disk' \in [Units -> Slot]
  BY <1>0, <1>3 DEF WriteDisk, DrivesTyped
<1>4. \A u : Asked(u) => Opens(u) \/ Forgets(u) \/ disk' = disk
  BY Zenon DEF Asked, Ready, NotReady
<1> QED
  BY <1>1, <1>2, <1>3, <1>4, Zenon DEF DrivesTyped

\* A command asks the drive it addresses, or leaves the drives alone.
LEMMA ExecuteAsks ==
    ASSUME NEW c, Execute(c)
    PROVE  Asked(curunit') \/ UNCHANGED disk
<1>1. Read \/ ReadTrack \/ Write \/ Format \/ Scan \/ ReadId \/ SenseDrive \/ Seek
      => Asked(curunit') \/ UNCHANGED disk
  BY Zenon DEF Asked, Read, ReadTrack, Write, Format, Scan, ReadId, SenseDrive, Seek
<1>2. SenseInt \/ Specify \/ Unknown => UNCHANGED disk
  BY Zenon DEF SenseInt, Specify, Unknown
<1> QED
  BY <1>1, <1>2, Zenon DEF Execute

LEMMA ExecuteTyped ==
    ASSUME DrivesTyped, NEW c, Execute(c)
    PROVE  DrivesTyped'
<1>1. curunit' \in Units
  BY DEF Execute, DrivesTyped
<1>2. CASE Asked(curunit') \/ UNCHANGED disk
  BY <1>1, <1>2, DriveStepsTyped DEF DrivesTyped
<1> QED
  BY <1>2, ExecuteAsks, Zenon

\* The end of an execution phase.
LEMMA EndTyped ==
    ASSUME DrivesTyped, NEW c, NEW why, EndExecutionPhase(c, why), UNCHANGED curunit
    PROVE  DrivesTyped'
BY DriveStepsTyped DEF EndExecutionPhase, DrivesTyped

\* The drives keep their type whatever opens, loses or changes an image.
LEMMA StepTyped ==
    ASSUME DrivesTyped, [Next]_vars
    PROVE  DrivesTyped'
<1>1. CASE PassByte
  BY <1>1, EndTyped DEF PassByte, DrivesTyped
<1>2. CASE GiveUp \/ ReadResult \/ UNCHANGED vars
  BY <1>2 DEF GiveUp, ReadResult, vars, drives, DrivesTyped
<1>3. CASE FirstByte
  BY <1>3, ExecuteTyped DEF FirstByte, DrivesTyped
<1>4. CASE NextByte
  BY <1>4, ExecuteTyped DEF NextByte, DrivesTyped
<1>5. CASE MotorOff
  BY <1>5, EndTyped DEF MotorOff, DrivesTyped
<1>6. CASE ChangeDisk
  BY <1>6 DEF ChangeDisk, DrivesTyped
<1>7. CASE Reset
  BY <1>7, DriveAssumption DEF Reset, DrivesTyped, Empty
<1>8. CASE MotorOn
  BY <1>8, DriveStepsTyped, Zenon DEF MotorOn, DrivesTyped
<1> QED
  BY <1>1, <1>2, <1>3, <1>4, <1>5, <1>6, <1>7, <1>8, Zenon
     DEF Next, WriteData, ReadData

\* A transfer begins with the image that is in the drive; one that will be
\* written begins with the motor running (fdc_isready).
LEMMA ExecuteSetsTarget ==
    ASSUME NEW c, Execute(c), mainstat' = "toFdc"
    PROVE  /\ target' = disk'[curunit'].image
           /\ c \in {"write", "format"} => motor
<1>1. CASE Read \/ ReadTrack
  BY <1>1 DEF Read, ReadTrack, StartTransfer, Ends, Results
<1>2. CASE (c = "write" /\ Write) \/ (c = "format" /\ Format)
  BY <1>2 DEF Write, Format, StartTransfer, Ends, Results, Ready
<1>3. CASE c = "scan" /\ Scan
  BY <1>3 DEF Scan, StartTransfer, Ends, Results
<1>4. CASE ReadId \/ SenseDrive \/ Seek \/ SenseInt \/ Specify \/ Unknown
  BY <1>4 DEF ReadId, SenseDrive, Seek, SenseInt, Specify, Unknown,
              Ends, Results
<1> QED
  BY <1>1, <1>2, <1>3, <1>4, Zenon DEF Execute

\* No command writes an image as it begins: wrote changes when one ends.
LEMMA ExecuteWritesNothing ==
    ASSUME NEW c, Execute(c)
    PROVE  wrote' = wrote
<1>1. CASE Read \/ ReadTrack
  BY <1>1 DEF Read, ReadTrack, StartTransfer, Ends
<1>2. CASE Write \/ Format \/ Scan
  BY <1>2 DEF Write, Format, Scan, StartTransfer, Ends
<1>3. CASE ReadId \/ SenseDrive \/ Seek \/ SenseInt \/ Specify \/ Unknown
  BY <1>3 DEF ReadId, SenseDrive, Seek, SenseInt, Specify, Unknown,
              Ends, history
<1> QED
  BY <1>1, <1>2, <1>3, Zenon DEF Execute

\* A host that lets the motor run during the command and the result phase.
MotorStopsInTransfer == MotorStops \subseteq {"idle", "toHost", "toFdc"}

\* The end of an execution phase writes the target.
LEMMA EndHitsTarget ==
    ASSUME WriteInv, Transferring, NEW why, EndExecutionPhase(cmd, why)
    PROVE  WritesHitTarget' /\ mainstat' = "result"
<1>1. mainstat' = "result"
  BY DEF EndExecutionPhase, Results
<1>2. CASE cmd \in {"write", "format"}
  <2>1. mainstat = "toFdc"
    BY <1>2 DEF WriteInv, TransferHasCommand, Transferring, DataIn
  <2>2. WriteDisk(cmd)
    BY <1>2 DEF EndExecutionPhase
  <2> QED
    BY <1>1, <1>2, <2>1, <2>2 DEF WriteDisk, WriteInv, TargetStays, WritesHitTarget
<1>3. CASE cmd \notin {"write", "format"}
  BY <1>1, <1>3 DEF EndExecutionPhase, WriteInv, WritesHitTarget
<1> QED
  BY <1>2, <1>3

LEMMA StepHitsTarget ==
    ASSUME MotorStopsInTransfer, WriteInv, [Next]_vars
    PROVE  TargetStays' /\ WritesHitTarget'
<1>1. CASE PassByte
  <2>1. CASE EndExecutionPhase(cmd, "result")
    BY <1>1, <2>1, EndHitsTarget DEF PassByte, TargetStays
  <2>2. CASE UNCHANGED <<mainstat, cmd, disk, motor, history, curunit>>
    BY <2>2 DEF history, WriteInv, TargetStays, WritesHitTarget
  <2> QED
    BY <1>1, <2>1, <2>2 DEF PassByte
<1>2. CASE GiveUp \/ ReadResult \/ UNCHANGED vars
  BY <1>2 DEF GiveUp, ReadResult, vars, protocol, drives, history,
              WriteInv, TargetStays, WritesHitTarget
<1>3. CASE FirstByte
  <2>1. CASE Execute(cmd')
    <3>1. motor' = motor
      BY <1>3 DEF FirstByte
    <3> QED
      BY <2>1, <3>1, ExecuteSetsTarget, ExecuteWritesNothing
         DEF WriteInv, TargetStays, WritesHitTarget
  <2>2. CASE /\ mainstat' = IF mainstat = "idle" THEN "command" ELSE mainstat
             /\ UNCHANGED history
    BY <1>3, <2>2 DEF FirstByte, Transferring, history, WriteInv, TargetStays,
                      WritesHitTarget
  <2> QED
    BY <1>3, <2>1, <2>2, Zenon DEF FirstByte
<1>4. CASE NextByte
  <2>1. CASE Execute(cmd)
    <3>1. motor' = motor /\ cmd' = cmd
      BY <1>4 DEF NextByte
    <3> QED
      BY <2>1, <3>1, ExecuteSetsTarget, ExecuteWritesNothing
         DEF WriteInv, TargetStays, WritesHitTarget
  <2>2. CASE UNCHANGED <<mainstat, history>>
    BY <1>4, <2>2 DEF NextByte, Transferring, history, WriteInv, TargetStays,
                      WritesHitTarget
  <2> QED
    BY <1>4, <2>1, <2>2, Zenon DEF NextByte
<1>5. CASE MotorOff
  <2>1. CASE mainstat = "idle"
    BY <1>5, <2>1 DEF MotorOff, history, WriteInv, TargetStays, WritesHitTarget
  <2>2. CASE mainstat # "idle"
    <3>1. Transferring
      BY <1>5, <2>2 DEF MotorOff, MotorStopsInTransfer, Transferring
    <3>2. EndExecutionPhase(cmd, IF cmd \in Switch THEN "result" ELSE interrupting)
      BY <1>5, <2>2 DEF MotorOff
    <3> QED
      BY <3>1, <3>2, EndHitsTarget DEF TargetStays
  <2> QED
    BY <2>1, <2>2
<1>6. CASE ChangeDisk
  BY <1>6 DEF ChangeDisk, protocol, history, WriteInv, DrivesTyped, TargetStays,
              WritesHitTarget
<1>7. CASE Reset
  BY <1>7 DEF Reset, WriteInv, TargetStays, WritesHitTarget
<1>8. CASE MotorOn
  <2>1. /\ UNCHANGED <<mainstat, cmd, curunit, target, wrote>>
        /\ motor' = TRUE /\ (motor => disk' = disk)
    BY <1>8, Zenon DEF MotorOn, protocol, history
  <2> QED
    BY <2>1 DEF WriteInv, TargetStays, WritesHitTarget
<1> QED
  BY <1>1, <1>2, <1>3, <1>4, <1>5, <1>6, <1>7, <1>8, Zenon
     DEF Next, WriteData, ReadData

\* As long as the motor is not stopped in a command or result phase, a sector
\* or track goes to the disk its command found in the drive, or nowhere
\* (fdc_write_end, fdc_format_end, fdl_eject).
THEOREM WritesReachTarget ==
    ASSUME MotorStopsInTransfer
    PROVE  Spec => []WritesHitTarget
<1>1. Init => WriteInv
  BY DriveAssumption DEF Init, WriteInv, TransferHasCommand, DrivesTyped,
                         TargetStays, WritesHitTarget, Empty
<1>2. WriteInv /\ [Next]_vars => WriteInv'
  BY MotorStopsInTransfer, StepOwnsTransfer, StepTyped, StepHitsTarget, Zenon
     DEF WriteInv
<1>3. WriteInv => WritesHitTarget
  BY DEF WriteInv
<1> QED
  BY <1>1, <1>2, <1>3, PTL DEF Spec

-----------------------------------------------------------------------------
(* The types                                                               *)

Reasons == {"none", "result", "exec", "seek"}

ControlTyped ==
    /\ mainstat \in Phases /\ cmd \in Names /\ cmd_len \in 0 .. 8
    /\ exec_len \in Int /\ result_len \in Int
    /\ interrupting \in Reasons

FlagsTyped == busy \in BOOLEAN /\ motor \in BOOLEAN

HistoryTyped ==
    target \in Images \cup {NoImage} /\ wrote \in {"nothing", "target", "other"}

OpenIsNamed == \A u \in Units : disk[u].open => disk[u].image # NoImage

\* A sector has bytes, and the data length of a command is a number.
LEMMA SectorLengths ==
    ASSUME NEW n \in Codes, NEW dtl \in Lengths
    PROVE  /\ ReadLen(n, dtl) \in Nat /\ WriteLen(n, dtl) \in Nat
           /\ dtl # 0 => ReadLen(n, dtl) > 0 /\ WriteLen(n, dtl) > 0
<1> DEFINE power == 2 ^ n
<1>1. power \in Nat \ {0}
  BY PowerAssumption
<1> HIDE DEF power
<1>2. Block * power \in Nat /\ Block * power > 0
  BY <1>1, SizeAssumption
<1>3. Whole(n) \in Nat /\ Whole(n) > 0
  BY <1>2 DEF Whole, power
<1>4. dtl \in Nat
  BY SizeAssumption
<1> QED BY <1>3, <1>4 DEF ReadLen, WriteLen

\* Products of them are numbers of bytes.
LEMMA TransferLength ==
    ASSUME NEW n \in Codes, NEW dtl \in Lengths, NEW k \in Nat
    PROVE  /\ k * ReadLen(n, dtl) \in Nat
           /\ k > 0 /\ dtl # 0 => k * ReadLen(n, dtl) > 0
<1> DEFINE len == ReadLen(n, dtl)
<1>1. len \in Nat /\ (dtl # 0 => len > 0)
  BY SectorLengths
<1> HIDE DEF len
<1>2. k * len \in Nat /\ (k > 0 /\ len > 0 => k * len > 0)
  BY <1>1
<1> QED BY <1>1, <1>2 DEF len

\* The last byte of a command leaves the controller well typed.
LEMMA ExecuteControlTyped ==
    ASSUME ControlTyped, NEW c, Execute(c), cmd' \in Names, cmd_len' \in 0 .. 8
    PROVE  ControlTyped'
<1> USE DEF ControlTyped, Reasons, Phases
<1>1. CASE Read
  <2>1. PICK n \in Codes, dtl \in Lengths, k \in Counts :
          \/ StartTransfer("toHost", k * ReadLen(n, dtl))
          \/ \E done \in 0 .. k - 1 : Ends(7, done * ReadLen(n, dtl))
    BY <1>1, Zenon DEF Read
  <2>2. k \in Nat
    BY SizeAssumption
  <2>3. CASE StartTransfer("toHost", k * ReadLen(n, dtl))
    <3>1. k * ReadLen(n, dtl) \in Int
      BY <2>2, TransferLength
    <3> QED BY <2>3, <3>1 DEF StartTransfer
  <2>4. ASSUME NEW done \in 0 .. k - 1, Ends(7, done * ReadLen(n, dtl))
        PROVE  ControlTyped'
    <3>1. done \in Nat
      BY <2>2
    <3>2. done * ReadLen(n, dtl) \in Int
      BY <3>1, TransferLength
    <3> QED BY <2>4, <3>2 DEF Ends, Results
  <2> QED BY <2>1, <2>3, <2>4
<1>2. CASE ReadTrack
  BY <1>2, SizeAssumption DEF ReadTrack, StartTransfer, Ends, Results
<1>3. CASE Write \/ Scan
  <2>1. PICK n \in Codes, dtl \in Lengths :
          \/ StartTransfer("toFdc", WriteLen(n, dtl))
          \/ Ends(7, WriteLen(n, dtl))
    BY <1>3, Zenon DEF Write, Scan
  <2>2. WriteLen(n, dtl) \in Int
    BY SectorLengths
  <2> QED BY <2>1, <2>2 DEF StartTransfer, Ends, Results
<1>4. CASE Format
  <2>1. \/ \E k \in Tracks : StartTransfer("toFdc", 4 * k)
        \/ Ends(result_len, exec_len)
    BY <1>4, Zenon DEF Format
  <2>2. \A k \in Tracks : 4 * k \in Int
    BY SizeAssumption
  <2> QED BY <2>1, <2>2 DEF StartTransfer, Ends, Results
<1>5. CASE ReadId \/ SenseDrive \/ SenseInt \/ Unknown
  BY <1>5 DEF ReadId, SenseDrive, SenseInt, Unknown, Ends, Results, Pending
<1>6. CASE Seek \/ Specify
  BY <1>6 DEF Seek, Specify, Pending
<1> QED
  BY <1>1, <1>2, <1>3, <1>4, <1>5, <1>6, Zenon DEF Execute

\* A command is at most nine bytes long.
LEMMA FollowingType == \A c : Following(c) \in 0 .. 8
<1> SUFFICES ASSUME NEW c PROVE Following(c) \in 0 .. 8
  OBVIOUS
<1>1. Following(c) \in {8, 5, 2, 1, 0}
  BY Zenon DEF Following
<1> QED BY <1>1

\* Between two commands a byte, the motor, the user and a reset keep it so.
LEMMA StepControlTyped ==
    ASSUME ControlTyped, [Next]_vars
    PROVE  ControlTyped'
<1> USE DEF ControlTyped, Reasons, Phases
<1>1. CASE PassByte
  BY <1>1 DEF PassByte, EndExecutionPhase, Results, ResultsOf, Pending
<1>2. CASE GiveUp \/ ReadResult
  BY <1>2 DEF GiveUp, ReadResult, Pending
<1>3. CASE FirstByte
  <2>1. cmd' \in Names /\ cmd_len' = Following(cmd')
    BY <1>3, HostAssumption DEF FirstByte
  <2>2. cmd_len' \in 0 .. 8
    BY <2>1, FollowingType
  <2>3. CASE Execute(cmd')
    BY <2>1, <2>2, <2>3, ExecuteControlTyped
  <2>4. CASE ~Execute(cmd')
    BY <1>3, <2>1, <2>2, <2>4 DEF FirstByte, Pending
  <2> QED BY <2>3, <2>4
<1>4. CASE NextByte
  <2>1. cmd' = cmd /\ cmd_len' \in 0 .. 8
    BY <1>4 DEF NextByte
  <2>2. CASE Execute(cmd)
    BY <2>1, <2>2, ExecuteControlTyped
  <2>3. CASE ~Execute(cmd)
    BY <1>4, <2>1, <2>3 DEF NextByte, Pending
  <2> QED BY <2>2, <2>3
<1>5. CASE MotorOff
  BY <1>5 DEF MotorOff, EndExecutionPhase, Results, ResultsOf
<1>6. CASE MotorOn \/ ChangeDisk \/ UNCHANGED vars
  BY <1>6 DEF MotorOn, ChangeDisk, vars, protocol
<1>7. CASE Reset
  <2>1. /\ mainstat' = "idle" /\ cmd' = "unknown" /\ cmd_len' = 0
        /\ exec_len' = 0 /\ result_len' = 0 /\ interrupting' = "none"
    BY <1>7, Zenon DEF Reset
  <2>2. "unknown" \in Names
    BY DEF Names
  <2> QED BY <2>1, <2>2
<1> QED
  BY <1>1, <1>2, <1>3, <1>4, <1>5, <1>6, <1>7, Zenon
     DEF Next, WriteData, ReadData

\* Flags stay Boolean.
LEMMA StepFlagsTyped ==
    ASSUME FlagsTyped, [Next]_vars
    PROVE  FlagsTyped'
<1>1. busy' \in BOOLEAN
  <2>1. ASSUME NEW c, Execute(c) PROVE busy' \in BOOLEAN
    <3>1. CASE c \in {"seek", "recalibrate", "specify"}
      BY <2>1, <3>1, Zenon DEF Execute
    <3>2. CASE c \notin {"seek", "recalibrate", "specify"}
      BY <2>1, <3>2, Zenon DEF Execute
    <3> QED BY <3>1, <3>2
  <2>2. CASE FirstByte \/ NextByte
    BY <2>1, <2>2, Zenon DEF FirstByte, NextByte, FlagsTyped
  <2>3. CASE PassByte \/ GiveUp \/ ReadResult
    BY <2>3, Zenon DEF PassByte, GiveUp, ReadResult, FlagsTyped
  <2>4. CASE MotorOn \/ MotorOff \/ ChangeDisk \/ Reset \/ UNCHANGED vars
    BY <2>4, Zenon DEF MotorOn, MotorOff, ChangeDisk, Reset, vars, protocol,
                       FlagsTyped
  <2> QED
    BY <2>2, <2>3, <2>4, Zenon DEF Next, WriteData, ReadData
<1>2. motor' \in BOOLEAN
  <2>1. CASE WriteData \/ ReadData \/ ChangeDisk \/ Reset \/ UNCHANGED vars
    BY <2>1, Zenon DEF WriteData, ReadData, PassByte, GiveUp, FirstByte, NextByte,
                       ReadResult, ChangeDisk, Reset, vars, drives, FlagsTyped
  <2>2. CASE MotorOn \/ MotorOff
    BY <2>2, Zenon DEF MotorOn, MotorOff
  <2> QED
    BY <2>1, <2>2, Zenon DEF Next
<1> QED BY <1>1, <1>2, Zenon DEF FlagsTyped

\* Asking whether a drive is ready opens an image that has a name only.
LEMMA DriveStepsNamed ==
    ASSUME DrivesTyped, OpenIsNamed
    PROVE  /\ \A u \in Units : Opens(u) \/ Forgets(u) \/ Asked(u) => OpenIsNamed'
           /\ \A c : WriteDisk(c) => OpenIsNamed'
<1>1. ASSUME NEW u \in Units, Opens(u) PROVE OpenIsNamed'
  <2>1. disk' = [disk EXCEPT ![u].open = TRUE] /\ disk[u].image # NoImage
    BY <1>1, Zenon DEF Opens
  <2>2. \A v \in Units : v # u => disk'[v] = disk[v]
    BY <2>1 DEF DrivesTyped
  <2>3. disk'[u].image = disk[u].image
    BY <2>1 DEF DrivesTyped
  <2> QED BY <2>1, <2>2, <2>3 DEF OpenIsNamed
<1>2. ASSUME NEW u \in Units, Forgets(u) PROVE OpenIsNamed'
  <2>1. disk' = [disk EXCEPT ![u] = Empty] \/ disk' = disk
    BY <1>2, Zenon DEF Forgets
  <2> QED BY <2>1 DEF DrivesTyped, OpenIsNamed, Empty
<1>3. ASSUME NEW c, WriteDisk(c) PROVE OpenIsNamed'
  <2>1. disk' = [disk EXCEPT ![curunit] = Empty] \/ disk' = disk
    BY <1>3, Zenon DEF WriteDisk
  <2> QED BY <2>1 DEF DrivesTyped, OpenIsNamed, Empty
<1>4. disk' = disk => OpenIsNamed'
  BY Zenon DEF OpenIsNamed
<1>5. \A u : Asked(u) => Opens(u) \/ Forgets(u) \/ disk' = disk
  BY Zenon DEF Asked, Ready, NotReady
<1> QED BY <1>1, <1>2, <1>3, <1>4, <1>5, Zenon

LEMMA StepNamed ==
    ASSUME DrivesTyped, OpenIsNamed, [Next]_vars
    PROVE  OpenIsNamed'
<1>1. ASSUME UNCHANGED disk PROVE OpenIsNamed'
  BY <1>1 DEF OpenIsNamed
<1>2. ASSUME NEW c, Execute(c) PROVE OpenIsNamed'
  <2>1. curunit' \in Units
    BY <1>2 DEF Execute, DrivesTyped
  <2>2. Asked(curunit') \/ UNCHANGED disk
    BY <1>2, ExecuteAsks
  <2> QED BY <1>1, <2>1, <2>2, DriveStepsNamed, Zenon
<1>3. ASSUME NEW c, NEW why, EndExecutionPhase(c, why) PROVE OpenIsNamed'
  BY <1>1, <1>3, DriveStepsNamed, Zenon DEF EndExecutionPhase
<1>4. CASE PassByte \/ MotorOff
  BY <1>1, <1>3, <1>4, Zenon DEF PassByte, MotorOff
<1>5. CASE FirstByte \/ NextByte
  BY <1>1, <1>2, <1>5, Zenon DEF FirstByte, NextByte
<1>6. CASE GiveUp \/ ReadResult \/ UNCHANGED vars
  BY <1>1, <1>6, Zenon DEF GiveUp, ReadResult, vars, drives
<1>7. CASE ChangeDisk \/ Reset
  BY <1>7 DEF ChangeDisk, Reset, DrivesTyped, OpenIsNamed, Empty
<1>8. CASE MotorOn
  <2>1. curunit \in Units
    BY DEF DrivesTyped
  <2>2. Opens(curunit) \/ Forgets(curunit) \/ UNCHANGED disk
    BY <1>8, Zenon DEF MotorOn
  <2> QED
    BY <1>1, <2>1, <2>2, DriveStepsNamed, Zenon
<1> QED
  BY <1>4, <1>5, <1>6, <1>7, <1>8, Zenon DEF Next, WriteData, ReadData

\* The target of a transfer is an image that was in a drive, or none.
LEMMA ExecuteTarget ==
    ASSUME NEW c, Execute(c)
    PROVE  \/ target' = target \/ target' = NoImage
           \/ target' = disk'[curunit'].image
<1>1. CASE Read \/ ReadTrack \/ ReadId
  BY <1>1, Zenon DEF Read, ReadTrack, ReadId, StartTransfer, Ends, Results
<1>2. CASE Write \/ Format \/ Scan
  BY <1>2, Zenon DEF Write, Format, Scan, StartTransfer, Ends, Results
<1>3. CASE SenseDrive \/ Seek \/ SenseInt \/ Specify \/ Unknown
  BY <1>3 DEF SenseDrive, Seek, SenseInt, Specify, Unknown, Results, history
<1> QED
  BY <1>1, <1>2, <1>3, Zenon DEF Execute

LEMMA StepHistoryTyped ==
    ASSUME DrivesTyped, DrivesTyped', HistoryTyped, [Next]_vars
    PROVE  HistoryTyped'
<1>1. target' \in {target, NoImage, disk'[curunit'].image}
  <2>1. CASE FirstByte \/ NextByte
    <3>1. ASSUME NEW c, Execute(c)
          PROVE  target' \in {target, NoImage, disk'[curunit'].image}
      BY <3>1, ExecuteTarget
    <3>2. target' = target \/ \E c : Execute(c)
      BY <2>1, Zenon DEF FirstByte, NextByte, history
    <3> QED BY <3>1, <3>2
  <2>2. CASE PassByte \/ MotorOff
    BY <2>2 DEF PassByte, MotorOff, EndExecutionPhase, Results, history
  <2>3. CASE GiveUp \/ ReadResult \/ MotorOn \/ ChangeDisk \/ Reset \/ UNCHANGED vars
    BY <2>3 DEF GiveUp, ReadResult, MotorOn, ChangeDisk, Reset, vars, history
  <2> QED
    BY <2>1, <2>2, <2>3, Zenon DEF Next, WriteData, ReadData
<1>2. wrote' \in {wrote, "target", "other"}
  <2>1. CASE FirstByte \/ NextByte
    <3>1. wrote' = wrote \/ \E c : Execute(c)
      BY <2>1, Zenon DEF FirstByte, NextByte, history
    <3> QED BY <3>1, ExecuteWritesNothing
  <2>2. CASE PassByte \/ MotorOff
    <3>1. ASSUME NEW c, NEW why, EndExecutionPhase(c, why)
          PROVE  wrote' \in {wrote, "target", "other"}
      BY <3>1 DEF EndExecutionPhase, WriteDisk
    <3>2. wrote' = wrote \/ \E why : EndExecutionPhase(cmd, why)
      BY <2>2, Zenon DEF PassByte, MotorOff, history
    <3> QED BY <3>1, <3>2
  <2>3. CASE GiveUp \/ ReadResult \/ MotorOn \/ ChangeDisk \/ Reset \/ UNCHANGED vars
    BY <2>3 DEF GiveUp, ReadResult, MotorOn, ChangeDisk, Reset, vars, history
  <2> QED
    BY <2>1, <2>2, <2>3, Zenon DEF Next, WriteData, ReadData
<1>3. disk'[curunit'].image \in Images \cup {NoImage}
  BY DEF DrivesTyped
<1> QED BY <1>1, <1>2, <1>3 DEF HistoryTyped

TypeInv ==
    ControlTyped /\ FlagsTyped /\ DrivesTyped /\ OpenIsNamed /\ HistoryTyped

\* Controller, drives and history keep their types for every host, one that
\* passes bytes against the status included: a command counter never runs
\* below zero, and an image is open only in a drive that has one.
LEMMA TypeInvariant == Spec => []TypeInv
<1>1. Init => TypeInv
  <2> SUFFICES ASSUME Init PROVE TypeInv
    OBVIOUS
  <2>1. ControlTyped
    BY DEF Init, ControlTyped, Phases, Reasons, Names
  <2>2. FlagsTyped
    BY Zenon DEF Init, FlagsTyped
  <2>3. DrivesTyped /\ OpenIsNamed
    BY DriveAssumption DEF Init, DrivesTyped, OpenIsNamed, Empty
  <2>4. HistoryTyped
    BY DEF Init, HistoryTyped
  <2> QED BY <2>1, <2>2, <2>3, <2>4 DEF TypeInv
<1>2. TypeInv /\ [Next]_vars => TypeInv'
  BY StepControlTyped, StepFlagsTyped, StepTyped, StepNamed, StepHistoryTyped, Zenon
     DEF TypeInv
<1> QED BY <1>1, <1>2, PTL DEF Spec

\* The declared types (765fdc.c, 765ldsk.c) hold for every host.
THEOREM FdcTypeCorrect == Spec => []TypeOK
<1>1. TypeInv => TypeOK
  BY Zenon DEF TypeInv, ControlTyped, FlagsTyped, DrivesTyped, OpenIsNamed,
               HistoryTyped, Reasons, TypeOK
<1> QED BY <1>1, TypeInvariant, PTL

-----------------------------------------------------------------------------
(* The controller implements FdcPhases                                     *)

\* A host that follows the status, keeps away from the two commands whose
\* results are missing (READ TRACK and FORMAT), lets the motor run in command
\* and result phases, and transfers something with each READ and WRITE.
CarefulHost ==
    /\ FollowsStatus
    /\ Commands \cap {"read track", "format"} = {}
    /\ MotorStops \subseteq {"idle", "toHost", "toFdc"}
    /\ 0 \notin Lengths /\ 0 \notin Counts

\* What each value of the main status says of the command under way.
StatusTrue ==
    /\ mainstat = "idle" => busy = FALSE
    /\ mainstat = "command" => busy = TRUE /\ cmd_len > 0
    /\ Transferring => exec_len > 0 /\ cmd \in Switch
    /\ mainstat = "result" => result_len > 0
    /\ cmd \in Commands \cup {"unknown"}

Phase == IF Transferring THEN "execution" ELSE mainstat
Left == CASE mainstat = "command" -> cmd_len
          [] mainstat = "result" -> result_len
          [] Transferring -> exec_len
          [] OTHER -> 0

\* The phase and the bytes left, status by status.
LEMMA Mapping ==
    /\ mainstat = "idle" => Phase = "idle" /\ Left = 0
    /\ mainstat = "command" => Phase = "command" /\ Left = cmd_len
    /\ mainstat = "result" => Phase = "result" /\ Left = result_len
    /\ Transferring => Phase = "execution" /\ Left = exec_len
BY DEF Phase, Left, Transferring

LEMMA MappingNext ==
    /\ mainstat' = "idle" => Phase' = "idle" /\ Left' = 0
    /\ mainstat' = "command" => Phase' = "command" /\ Left' = cmd_len'
    /\ mainstat' = "result" => Phase' = "result" /\ Left' = result_len'
    /\ mainstat' \in {"toHost", "toFdc"} => Phase' = "execution" /\ Left' = exec_len'
BY DEF Phase, Left, Transferring

\* The last byte of a command of a careful host ends the command, begins a
\* transfer that has bytes, or leaves results.
LEMMA ExecutePhases ==
    ASSUME CarefulHost, NEW c \in Commands \cup {"unknown"}, Execute(c)
    PROVE  \/ /\ mainstat' = "idle" /\ busy' = FALSE
              /\ c \in {"specify", "seek", "recalibrate"}
           \/ /\ mainstat' \in {"toHost", "toFdc"}
              /\ exec_len' \in Nat \ {0} /\ c \in {"read", "write", "scan"}
           \/ mainstat' = "result" /\ result_len' \in {1, 2, 7}
<1>1. CASE c = "read" /\ Read
  <2>1. PICK n \in Codes, dtl \in Lengths, k \in Counts :
          \/ StartTransfer("toHost", k * ReadLen(n, dtl))
          \/ \E done \in 0 .. k - 1 : Ends(7, done * ReadLen(n, dtl))
    BY <1>1, Zenon DEF Read
  <2>2. k \in Nat /\ k > 0 /\ dtl # 0
    <3>1. 0 \notin Lengths /\ 0 \notin Counts
      BY Zenon DEF CarefulHost
    <3> QED BY <3>1, SizeAssumption
  <2>3. k * ReadLen(n, dtl) \in Nat \ {0}
    BY <2>2, TransferLength
  <2>4. CASE StartTransfer("toHost", k * ReadLen(n, dtl))
    <3>1. mainstat' = "toHost" /\ exec_len' = k * ReadLen(n, dtl)
      BY <2>4, Zenon DEF StartTransfer
    <3> QED BY <1>1, <2>3, <3>1, Zenon
  <2>5. CASE \E done \in 0 .. k - 1 : Ends(7, done * ReadLen(n, dtl))
    BY <2>5, Zenon DEF Ends, Results
  <2> QED BY <2>1, <2>4, <2>5, Zenon
<1>2. CASE c \in {"write", "scan"} /\ (Write \/ Scan)
  <2>1. PICK n \in Codes, dtl \in Lengths :
          \/ StartTransfer("toFdc", WriteLen(n, dtl))
          \/ Ends(7, WriteLen(n, dtl))
    BY <1>2, Zenon DEF Write, Scan
  <2>2. WriteLen(n, dtl) \in Nat \ {0}
    <3>1. dtl # 0
      BY Zenon DEF CarefulHost
    <3> QED BY <3>1, SectorLengths
  <2>3. CASE StartTransfer("toFdc", WriteLen(n, dtl))
    <3>1. mainstat' = "toFdc" /\ exec_len' = WriteLen(n, dtl)
      BY <2>3, Zenon DEF StartTransfer
    <3> QED BY <1>2, <2>2, <3>1, Zenon
  <2>4. CASE Ends(7, WriteLen(n, dtl))
    BY <2>4, Zenon DEF Ends, Results
  <2> QED BY <2>1, <2>3, <2>4, Zenon
<1>3. CASE ReadId \/ SenseDrive \/ SenseInt \/ Unknown
  BY <1>3 DEF ReadId, SenseDrive, SenseInt, Unknown, Ends, Results
<1>4. CASE c \in {"specify", "seek", "recalibrate"} /\ (Seek \/ Specify)
  <2>1. busy' = FALSE
    <3>1. busy' = (c \notin {"seek", "recalibrate", "specify"})
      BY Zenon DEF Execute
    <3> QED BY <1>4, <3>1
  <2>2. mainstat' = "idle"
    BY <1>4 DEF Seek, Specify
  <2> QED BY <1>4, <2>1, <2>2, Zenon
<1>5. c # "read track" /\ c # "format"
  BY DEF CarefulHost
<1> QED
  BY <1>1, <1>2, <1>3, <1>4, <1>5 DEF Execute

\* The moves of FdcPhases that the controller makes.
LEMMA Moves ==
    /\ /\ Phase = "idle" /\ Left = 0
       /\ \/ Phase' = "command" /\ Left' \in 1 .. 8
          \/ Phase' = "result" /\ Left' \in {1, 2, 7}
       => Promised!Next
    /\ Left > 1 /\ Left' = Left - 1 /\ Phase' = Phase => Promised!Next
    /\ /\ Phase = "command" /\ Left = 1
       /\ \/ Phase' = "execution" /\ Left' \in Nat \ {0}
          \/ Phase' = "result" /\ Left' \in {1, 2, 7}
       => Promised!Next
    /\ Phase = "execution" /\ Phase' = "result" /\ Left' \in {1, 2, 7}
       => Promised!Next
    /\ Phase' = "idle" /\ Left' = 0 => Promised!Next
<1> USE DEF Phase, Left, Promised!Next, Promised!Enters
<1>1. /\ Phase = "idle" /\ Left = 0
      /\ \/ Phase' = "command" /\ Left' \in 1 .. 8
         \/ Phase' = "result" /\ Left' \in {1, 2, 7}
      => Promised!Next
  BY Zenon DEF Promised!Begin, Promised!Idle
<1>2. Left > 1 /\ Left' = Left - 1 /\ Phase' = Phase => Promised!Next
  BY Zenon DEF Promised!Pass
<1>3. /\ Phase = "command" /\ Left = 1
      /\ \/ Phase' = "execution" /\ Left' \in Nat \ {0}
         \/ Phase' = "result" /\ Left' \in {1, 2, 7}
      => Promised!Next
  BY Zenon DEF Promised!Finish
<1>4. Phase = "execution" /\ Phase' = "result" /\ Left' \in {1, 2, 7}
      => Promised!Next
  BY Zenon DEF Promised!CutShort
<1>5. Phase' = "idle" /\ Left' = 0 => Promised!Next
  BY DEF Promised!Reset
<1> QED
  BY <1>1, <1>2, <1>3, <1>4, <1>5, Zenon

\* The last byte of a command: from the command phase, or from idle where the
\* command has no byte but the first.
LEMMA ExecuteMoves ==
    ASSUME CarefulHost, NEW c \in Commands \cup {"unknown"}, Execute(c), cmd' = c,
           \/ mainstat = "idle" /\ Following(c) = 0
           \/ mainstat = "command" /\ cmd_len = 1
    PROVE  StatusTrue' /\ Promised!Next
<1>1. CASE mainstat' = "idle" /\ busy' = FALSE
  BY <1>1, MappingNext, Moves, Zenon DEF StatusTrue, Transferring
<1>2. CASE /\ mainstat' \in {"toHost", "toFdc"}
           /\ exec_len' \in Nat \ {0} /\ c \in {"read", "write", "scan"}
  <2>1. Following(c) = 8
    BY <1>2 DEF Following
  <2>2. Phase = "command" /\ Left = 1
    BY <2>1, Mapping
  <2>3. Promised!Next
    BY <1>2, <2>2, MappingNext, Moves, Zenon
  <2>4. StatusTrue'
    BY <1>2 DEF StatusTrue, Transferring, Switch
  <2> QED BY <2>3, <2>4
<1>3. CASE mainstat' = "result" /\ result_len' \in {1, 2, 7}
  <2>1. Promised!Next
    BY <1>3, Mapping, MappingNext, Moves, Zenon
  <2>2. StatusTrue'
    BY <1>3 DEF StatusTrue, Transferring
  <2> QED BY <2>1, <2>2
<1> QED BY <1>1, <1>2, <1>3, ExecutePhases, Zenon

\* The host's bytes keep what the status says and pass the phases as promised.
LEMMA BytePhases ==
    ASSUME CarefulHost, ControlTyped, StatusTrue, WriteData \/ ReadData
    PROVE  StatusTrue' /\ Promised!Next
<1>1. CASE PassByte
  <2>1. /\ Transferring /\ exec_len > 0 /\ exec_len' = exec_len - 1
        /\ cmd' = cmd /\ cmd \in Switch
    BY <1>1 DEF PassByte, StatusTrue
  <2>2. CASE exec_len = 1 /\ EndExecutionPhase(cmd, "result")
    <3>1. mainstat' = "result" /\ result_len' = 7
      BY <2>1, <2>2 DEF EndExecutionPhase, Results, ResultsOf
    <3>2. Promised!Next
      BY <2>1, <3>1, Mapping, MappingNext, Moves, Zenon
    <3> QED BY <2>1, <3>1, <3>2 DEF StatusTrue, Transferring
  <2>3. CASE exec_len # 1 /\ mainstat' = mainstat
    <3>1. exec_len > 1 /\ exec_len' > 0
      BY <2>1, <2>3 DEF ControlTyped
    <3>2. Promised!Next
      <4>1. mainstat' \in {"toHost", "toFdc"}
        BY <2>1, <2>3 DEF Transferring
      <4> QED BY <2>1, <3>1, <4>1, Mapping, MappingNext, Moves
    <3> QED BY <2>1, <2>3, <3>1, <3>2 DEF StatusTrue, Transferring
  <2> QED BY <1>1, <2>2, <2>3 DEF PassByte
<1>2. CASE WriteData /\ GiveUp
  <2>1. mainstat \in {"idle", "command"} /\ cmd_len <= 0
    BY <1>2 DEF WriteData, GiveUp, CarefulHost, Transferring
  <2>2. mainstat # "idle"
    BY <1>2, Zenon DEF GiveUp, StatusTrue
  <2>3. mainstat # "command"
    BY <2>1 DEF StatusTrue, ControlTyped
  <2> QED BY <2>1, <2>2, <2>3
<1>3. CASE WriteData /\ FirstByte
  <2>1. mainstat = "idle" /\ cmd' \in Commands /\ cmd_len' = Following(cmd')
    BY <1>3 DEF WriteData, FirstByte, CarefulHost, StatusTrue, Transferring
  <2>2. CASE cmd_len' = 0 /\ Execute(cmd')
    BY <2>1, <2>2, ExecuteMoves
  <2>3. CASE /\ cmd_len' # 0 /\ busy' = TRUE
             /\ mainstat' = IF mainstat = "idle" THEN "command" ELSE mainstat
    <3>1. mainstat' = "command" /\ cmd_len' \in 1 .. 8
      BY <2>1, <2>3, FollowingType
    <3>2. Promised!Next
      BY <2>1, <3>1, Mapping, MappingNext, Moves, Zenon
    <3> QED BY <2>1, <2>3, <3>1, <3>2 DEF StatusTrue, Transferring
  <2> QED BY <1>3, <2>2, <2>3, Zenon DEF FirstByte
<1>4. CASE WriteData /\ NextByte
  <2>1. mainstat = "command" /\ cmd_len' = cmd_len - 1 /\ cmd' = cmd /\ cmd_len > 0
    BY <1>4 DEF WriteData, NextByte, CarefulHost, StatusTrue, Transferring
  <2>2. CASE cmd_len = 1 /\ Execute(cmd)
    BY <2>1, <2>2, ExecuteMoves DEF StatusTrue
  <2>3. CASE cmd_len # 1 /\ mainstat' = mainstat /\ busy' = busy
    <3>1. cmd_len > 1 /\ cmd_len' > 0
      BY <2>1, <2>3 DEF ControlTyped
    <3>2. Promised!Next
      BY <2>1, <2>3, <3>1, Mapping, MappingNext, Moves
    <3> QED BY <2>1, <2>3, <3>1, <3>2 DEF StatusTrue, Transferring
  <2> QED BY <1>4, <2>2, <2>3, Zenon DEF NextByte
<1>5. CASE ReadData /\ ReadResult
  <2>1. mainstat = "result" /\ result_len > 0 /\ cmd' = cmd
        /\ result_len' = result_len - 1
    BY <1>5 DEF ReadData, ReadResult, CarefulHost, StatusTrue, Transferring
  <2>2. CASE result_len = 1
    <3>1. mainstat' = "idle" /\ busy' = FALSE
      BY <1>5, <2>2 DEF ReadResult
    <3>2. Promised!Next
      BY <3>1, MappingNext, Moves, Zenon
    <3> QED BY <2>1, <3>1, <3>2 DEF StatusTrue, Transferring
  <2>3. CASE result_len # 1
    <3>1. mainstat' = "result" /\ result_len > 1 /\ result_len' > 0
      BY <1>5, <2>1, <2>3 DEF ReadResult, ControlTyped
    <3>2. Promised!Next
      BY <2>1, <3>1, Mapping, MappingNext, Moves
    <3> QED BY <2>1, <3>1, <3>2 DEF StatusTrue, Transferring
  <2> QED BY <2>2, <2>3
<1> QED
  BY <1>1, <1>2, <1>3, <1>4, <1>5, Zenon DEF WriteData, ReadData

\* Motor, user and reset: a stutter, an execution cut short, or a reset.
LEMMA StepPhases ==
    ASSUME CarefulHost, ControlTyped, StatusTrue, [Next]_vars
    PROVE  StatusTrue' /\ [Promised!Next]_<<Phase, Left>>
<1>1. CASE WriteData \/ ReadData
  BY <1>1, BytePhases
<1>2. CASE MotorOn \/ ChangeDisk \/ UNCHANGED vars
  <2>1. UNCHANGED protocol
    BY <1>2 DEF MotorOn, ChangeDisk, vars
  <2> QED BY <2>1 DEF protocol, StatusTrue, Transferring, Phase, Left
<1>3. CASE MotorOff
  <2>1. /\ mainstat \in {"idle", "toHost", "toFdc"}
        /\ UNCHANGED <<busy, cmd, cmd_len, exec_len>>
    BY <1>3 DEF MotorOff, CarefulHost
  <2>2. CASE mainstat = "idle"
    <3>1. UNCHANGED <<mainstat, result_len>>
      BY <1>3, <2>2 DEF MotorOff
    <3> QED BY <2>1, <3>1 DEF StatusTrue, Transferring, Phase, Left
  <2>3. CASE mainstat # "idle"
    <3>1. Transferring /\ cmd \in Switch
      BY <2>1, <2>3 DEF Transferring, StatusTrue
    <3>2. mainstat' = "result" /\ result_len' = 7
      BY <1>3, <2>3, <3>1 DEF MotorOff, EndExecutionPhase, Results, ResultsOf
    <3>3. Promised!Next
      BY <3>1, <3>2, Mapping, MappingNext, Moves, Zenon
    <3> QED BY <2>1, <3>2, <3>3 DEF StatusTrue, Transferring
  <2> QED BY <2>2, <2>3
<1>4. CASE Reset
  <2>1. mainstat' = "idle" /\ busy' = FALSE /\ cmd' = "unknown"
    BY <1>4, Zenon DEF Reset
  <2>2. Promised!Next
    BY <2>1, MappingNext, Moves, Zenon
  <2> QED BY <2>1, <2>2 DEF StatusTrue, Transferring
<1> QED
  BY <1>1, <1>2, <1>3, <1>4, Zenon DEF Next

\* For a careful host every step of the controller is a step of FdcPhases or
\* leaves phase and count alone: the phases come in order, each with at least
\* one byte, and a stopped motor does not swallow the results
\* (fdc_write_data, fdc_read_data, fdc_end_execution_phase, fdc_set_motor).
THEOREM ImplementsPhases ==
    ASSUME CarefulHost
    PROVE  Spec => PhasesAsPromised
<1>1. Init => StatusTrue /\ Promised!Init
  <2> SUFFICES ASSUME Init PROVE StatusTrue /\ Promised!Init
    OBVIOUS
  <2>1. mainstat = "idle" /\ busy = FALSE /\ cmd = "unknown"
    BY Zenon DEF Init
  <2>2. StatusTrue
    BY <2>1 DEF StatusTrue, Transferring
  <2>3. Phase = "idle" /\ Left = 0
    BY <2>1, Mapping
  <2>4. Promised!Init
    BY <2>3, Zenon DEF Promised!Init, Promised!Idle, Phase, Left
  <2> QED BY <2>2, <2>4
<1>2. ControlTyped /\ StatusTrue /\ [Next]_vars
      => StatusTrue' /\ [Promised!Next]_(Promised!phaseVars)
  <2>1. <<Phase, Left>>' = <<Phase, Left>> => Promised!phaseVars' = Promised!phaseVars
    BY Zenon DEF Promised!phaseVars, Phase, Left
  <2> QED BY CarefulHost, StepPhases, <2>1
<1>3. Spec => []ControlTyped
  BY TypeInvariant, PTL DEF TypeInv
<1> QED
  BY <1>1, <1>2, <1>3, PTL DEF Spec, PhasesAsPromised, Promised!Spec
=============================================================================
