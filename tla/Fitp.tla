-------------------------------- MODULE Fitp --------------------------------
(***************************************************************************)
(* The File Input Transfer Protocol object of the FILE_XFER app            *)
(* (src/apps/file_xfer/fsw/src/fitp.c): it receives a file from the ground *)
(* one numbered data segment at a time, keeps a running CRC and decides,   *)
(* when the finish command arrives, whether the file was transferred.      *)
(*                                                                         *)
(* The app is one task that handles one command at a time, so every        *)
(* command is one atomic action.  The commands come from anywhere: the     *)
(* environment may send any of them in any order, and the operating system *)
(* may fail an open or a write.                                            *)
(*                                                                         *)
(* Data.  A data segment carries a block of the file, either as it is      *)
(* ("text") or as the hex text of its bytes ("hex").  What is written to   *)
(* the file, or covered by a CRC, is one unit per segment:                 *)
(*   [fmt |-> "text", data |-> b]        the bytes of block b              *)
(*   [fmt |-> "hex",  data |-> Half[b]]  the first Len characters of the   *)
(*                                       hex text of b, which are the hex  *)
(*                                       text of the first half of b       *)
(* and a CRC is the sequence of units it covers: CRC-32C is taken to have  *)
(* no collisions between the files of interest.  A unit of a finish        *)
(* command's CRC may be "signed": a CRC that is computed with signed       *)
(* registers, as the ground system does it, agrees with none of FITP's.    *)
(***************************************************************************)
EXTENDS Integers, Sequences

CONSTANTS
  Names,       \* destination filenames FileUtil_VerifyFilenameStr accepts
  Blocks,      \* contents of a data segment
  Half,        \* Half[b]: a block with the same first half as b
  Size,        \* Size[b]: the number of bytes of block b, the segment's Len
  MaxLen,      \* FITP_DATA_SEG_MAX_LEN
  IdMax,       \* largest segment id, 65535 (uint16)
  CntMax,      \* largest FileTransferCnt, 255 (uint8)
  ErrMax,      \* largest DataSegmentErrCnt, 65535 (uint16)
  FinishCmds,  \* the finish commands the environment may send
  NoName,      \* DestFilename is FILE_XFER_UNDEF_TLM_STR
  NotReported  \* no success event since the file was last opened

Units == [fmt : {"text", "hex", "torn", "signed"}, data : Blocks]
Segments == [id : 0 .. IdMax, fmt : {"text", "hex"}, blk : Blocks]

ASSUME HalfAssumption   == Half \in [Blocks -> Blocks]
ASSUME SizeAssumption   == Size \in [Blocks -> Nat \ {0}]
ASSUME BoundsAssumption == /\ MaxLen \in Nat
                           /\ IdMax \in Nat
                           /\ CntMax \in Nat
                           /\ ErrMax \in Nat
ASSUME NamesAssumption  == NoName \notin Names
ASSUME ReportAssumption == NotReported \notin Seq(Units)
ASSUME FinishAssumption ==
  FinishCmds \subseteq [fileLen : Nat, fileCrc : Seq(Units),
                        lastDataSegmentId : 0 .. IdMax]

VARIABLES
  fileTransferActive,   \* Fitp->FileTransferActive
  binFile,              \* Fitp->BinFile
  destFilename,         \* Fitp->DestFilename, the name of Fitp->FileHandle
  lastDataSegmentId,    \* Fitp->LastDataSegmentId
  dataSegmentErrCnt,    \* Fitp->DataSegmentErrCnt
  fileTransferByteCnt,  \* Fitp->FileTransferByteCnt
  fileRunningCrc,       \* Fitp->FileRunningCrc
  fileTransferCnt,      \* Fitp->FileTransferCnt
  openFiles,            \* files this object holds open in OSAL
  disk,                 \* contents of the destination files
  reported              \* CRC of the last success event of each file

status == <<fileTransferActive, binFile, destFilename, lastDataSegmentId,
            dataSegmentErrCnt, fileTransferByteCnt, fileRunningCrc,
            fileTransferCnt>>
vars == <<status, openFiles, disk, reported>>

-----------------------------------------------------------------------------
(* What one segment writes and what it adds to the CRC.                    *)

\* The first Len bytes of the segment's Data field, as it came on the wire.
WireUnit(seg) ==
  [fmt |-> seg.fmt, data |-> IF seg.fmt = "text" THEN seg.blk ELSE Half[seg.blk]]

\* The bytes handed to OS_write: PktUtil_HexDecode undoes the hex text when
\* the transfer is binary.
WrittenUnit(bin, seg) ==
  IF bin THEN [fmt |-> "text", data |-> seg.blk] ELSE WireUnit(seg)

\* PktUtil_HexDecode gives no bytes for text that is not hex, and OS_write
\* refuses to write none.
Writable(bin, seg) == bin => seg.fmt = "hex"

\* FileRunningCrc is extended with the Data field of the command.
CrcUnit(seg) == WireUnit(seg)

LenAccepted(seg) == Size[seg.blk] <= MaxLen

IdExpected(seg) == seg.id = lastDataSegmentId + 1

\* What a write that stops half way leaves in the file.
Torn(seg) == [fmt |-> "torn", data |-> Half[seg.blk]]

-----------------------------------------------------------------------------
\* Counters of the housekeeping packet wrap at their width.
WrapInc(n, max) == IF n < max THEN n + 1 ELSE 0

\* OS_close(Fitp->FileHandle)
CloseFile == openFiles' = openFiles \ {destFilename}

\* Mutant: the transfer goes on.
StayActive == UNCHANGED fileTransferActive
\* Fitp->FileTransferActive = false
EndTransfer == fileTransferActive' = FALSE

Init ==
  /\ fileTransferActive = FALSE
  /\ binFile = FALSE
  /\ destFilename = NoName
  /\ lastDataSegmentId = 0
  /\ dataSegmentErrCnt = 0
  /\ fileTransferByteCnt = 0
  /\ fileRunningCrc = <<>>
  /\ fileTransferCnt = 0
  /\ openFiles = {}
  /\ disk = [n \in Names |-> <<>>]
  /\ reported = [n \in Names |-> NotReported]

\* FITP_ResetStatus once no transfer is active.
ClearStatus ==
  /\ destFilename' = NoName
  /\ lastDataSegmentId' = 0
  /\ dataSegmentErrCnt' = 0
  /\ fileTransferByteCnt' = 0
  /\ fileRunningCrc' = <<>>
  /\ fileTransferCnt' = 0

\* FITP_StartTransferCmd and FITP_StartBinTransferCmd set BinFile before
\* StartTransfer looks at the command: a rejected start keeps the new mode.
RejectStart(bin) ==
  /\ binFile' = bin
  /\ UNCHANGED <<fileTransferActive, destFilename, lastDataSegmentId,
                 dataSegmentErrCnt, fileTransferByteCnt, fileRunningCrc,
                 fileTransferCnt, openFiles, disk, reported>>

StartAllowed == ~fileTransferActive

\* OS_OpenCreate(CREATE | TRUNCATE) succeeds.
AcceptStart(name, bin) ==
  /\ binFile' = bin
  /\ destFilename' = name
  /\ lastDataSegmentId' = 0
  /\ dataSegmentErrCnt' = 0
  /\ fileTransferByteCnt' = 0
  /\ fileRunningCrc' = <<>>
  /\ fileTransferActive' = TRUE
  /\ openFiles' = openFiles \cup {name}
  /\ disk' = [disk EXCEPT ![name] = <<>>]
  /\ reported' = [reported EXCEPT ![name] = NotReported]
  /\ UNCHANGED fileTransferCnt

\* A rejection is for a transfer in progress, an invalid name or a failed
\* open, so it is possible in every state.
StartTransferCmd(name, bin) ==
  \/ StartAllowed /\ AcceptStart(name, bin)
  \/ RejectStart(bin)

\* The write succeeds: the transfer advances by one segment.
WriteSegment(seg) ==
  /\ Writable(binFile, seg)
  /\ lastDataSegmentId' = WrapInc(lastDataSegmentId, IdMax)
  /\ fileTransferByteCnt' = fileTransferByteCnt + Size[seg.blk]
  /\ fileRunningCrc' = Append(fileRunningCrc, CrcUnit(seg))
  /\ disk' = [disk EXCEPT ![destFilename] = Append(@, WrittenUnit(binFile, seg))]
  /\ UNCHANGED <<fileTransferActive, binFile, destFilename, dataSegmentErrCnt,
                 fileTransferCnt, openFiles, reported>>

\* OS_write writes none or some of the bytes: the file is closed and the
\* transfer is over.
FailSegment(seg) ==
  /\ CloseFile
  /\ EndTransfer
  /\ \/ UNCHANGED disk
     \/ /\ Writable(binFile, seg)
        /\ disk' = [disk EXCEPT ![destFilename] = Append(@, Torn(seg))]
  /\ UNCHANGED <<binFile, destFilename, lastDataSegmentId, dataSegmentErrCnt,
                 fileTransferByteCnt, fileRunningCrc, fileTransferCnt, reported>>

RejectSegment ==
  /\ dataSegmentErrCnt' = WrapInc(dataSegmentErrCnt, ErrMax)
  /\ UNCHANGED <<fileTransferActive, binFile, destFilename, lastDataSegmentId,
                 fileTransferByteCnt, fileRunningCrc, fileTransferCnt,
                 openFiles, disk, reported>>

DataSegmentCmd(seg) ==
  IF ~fileTransferActive THEN UNCHANGED vars
  ELSE IF LenAccepted(seg) /\ IdExpected(seg)
       THEN WriteSegment(seg) \/ FailSegment(seg)
       ELSE RejectSegment

\* Mutant: the CRC is not compared.
VerifiedNoCrc(cmd) ==
  /\ cmd.fileLen = fileTransferByteCnt
  /\ cmd.lastDataSegmentId = lastDataSegmentId
\* The commanded CRC, length and last segment id are those of the transfer.
Verified(cmd) ==
  /\ cmd.fileCrc = fileRunningCrc
  /\ cmd.fileLen = fileTransferByteCnt
  /\ cmd.lastDataSegmentId = lastDataSegmentId

\* The file is closed whatever the outcome of the verification.
FinishTransferCmd(cmd) ==
  IF ~fileTransferActive THEN UNCHANGED vars
  ELSE /\ CloseFile
       /\ EndTransfer
       /\ IF Verified(cmd)
          THEN /\ fileTransferCnt' = WrapInc(fileTransferCnt, CntMax)
               /\ reported' = [reported EXCEPT ![destFilename] = cmd.fileCrc]
          ELSE UNCHANGED <<fileTransferCnt, reported>>
       /\ UNCHANGED <<binFile, destFilename, lastDataSegmentId,
                      dataSegmentErrCnt, fileTransferByteCnt, fileRunningCrc, disk>>

CloseIfActive == IF fileTransferActive THEN CloseFile ELSE UNCHANGED openFiles

\* A blind cancel clears the status as well.
CancelTransferCmd ==
  /\ CloseIfActive
  /\ fileTransferActive' = FALSE
  /\ ClearStatus
  /\ UNCHANGED <<binFile, disk, reported>>

\* Mutant: the status of a transfer in progress is cleared too.
ResetAlways == TRUE
ResetAllowed == ~fileTransferActive

\* FILE_XFER_ResetAppCmd leaves a transfer in progress alone.
ResetStatus ==
  /\ ResetAllowed
  /\ ClearStatus
  /\ UNCHANGED <<fileTransferActive, binFile, openFiles, disk, reported>>

\* The app is deleted and started again: DestructorCallback, then the
\* constructor's memset.
RestartApp ==
  /\ CloseIfActive
  /\ fileTransferActive' = FALSE
  /\ binFile' = FALSE
  /\ ClearStatus
  /\ UNCHANGED <<disk, reported>>

Next ==
  \/ \E name \in Names, bin \in BOOLEAN : StartTransferCmd(name, bin)
  \/ \E seg \in Segments : DataSegmentCmd(seg)
  \/ \E cmd \in FinishCmds : FinishTransferCmd(cmd)
  \/ CancelTransferCmd
  \/ ResetStatus
  \/ RestartApp

Spec == Init /\ [][Next]_vars

-----------------------------------------------------------------------------
(* Properties                                                              *)

IsTextCrc(crc) == \A i \in DOMAIN crc : crc[i].fmt = "text"

\* The type of every variable: in particular each counter stays within its
\* field of the housekeeping packet (FITP's part of FILE_XFER_HkTlm).
TypeOK ==
  /\ fileTransferActive \in BOOLEAN
  /\ binFile \in BOOLEAN
  /\ destFilename \in Names \cup {NoName}
  /\ lastDataSegmentId \in 0 .. IdMax
  /\ dataSegmentErrCnt \in 0 .. ErrMax
  /\ fileTransferByteCnt \in Nat
  /\ fileRunningCrc \in Seq(Units)
  /\ fileTransferCnt \in 0 .. CntMax
  /\ openFiles \subseteq Names
  /\ disk \in [Names -> Seq(Units)]
  /\ reported \in [Names -> Seq(Units) \cup {NotReported}]

\* No handle leaks and none is closed twice: the object holds exactly its
\* destination open, and only while a transfer is active, whatever mix of
\* failed writes, finishes, cancels and restarts ended the earlier ones.
NoHandleLeak ==
  openFiles = IF fileTransferActive THEN {destFilename} ELSE {}

\* During a transfer the status describes the file: one unit per accepted
\* segment, none skipped or written twice, and every unit whose CRC was taken
\* over file bytes is in the file at its place.  A reset of the status, a
\* rejected start or a rejected segment in mid-transfer must not disturb it.
StatusTracksFile ==
  fileTransferActive =>
    /\ destFilename \in Names
    /\ Len(fileRunningCrc) = lastDataSegmentId
    /\ Len(disk[destFilename]) = lastDataSegmentId
    /\ \A i \in 1 .. lastDataSegmentId :
         fileRunningCrc[i].fmt = "text" => disk[destFilename][i] = fileRunningCrc[i]

\* The byte count is that of the accepted segments: each brought from one to
\* MaxLen bytes, so the uint32 count cannot overflow before the ids run out.
ByteCountBounded ==
  /\ fileTransferByteCnt >= lastDataSegmentId
  /\ fileTransferByteCnt <= lastDataSegmentId * MaxLen

\* A file that FITP reported as transferred holds the bytes the finish
\* command's CRC was computed over, if that CRC was taken over file bytes as
\* the ground tools do.
Integrity ==
  \A n \in Names :
    reported[n] # NotReported /\ IsTextCrc(reported[n]) => disk[n] = reported[n]

\* The destination of a transfer in progress is not reported: Integrity is not
\* inductive without it, for the next segment would change a reported file.
ActiveNotReported ==
  fileTransferActive => reported[destFilename] = NotReported

\* The inductive invariant.
IInv == TypeOK /\ NoHandleLeak /\ StatusTracksFile /\ ByteCountBounded
        /\ ActiveNotReported /\ Integrity

\* The handle, the status and the counters agree with the file, whatever mix
\* of commands, failed writes, resets and restarts there was.
StateOK == TypeOK /\ NoHandleLeak /\ StatusTracksFile /\ ByteCountBounded

\* After the success event nothing changes the file but a new transfer to it:
\* no late or duplicated segment, no cancel, no restart.
VerifiedFileIsFinal ==
  [][\A n \in Names :
       reported[n] # NotReported /\ reported'[n] = reported[n] => disk'[n] = disk[n]]_vars

\* The files whose contents the success events vouch for.
Known ==
  [n \in Names |-> IF reported[n] # NotReported /\ IsTextCrc(reported[n])
                   THEN disk[n] ELSE NotReported]

\* What FITP promises: VerifiedStore, where a file is known from the success
\* event until the next start for its name.
Store == INSTANCE VerifiedStore WITH
  Contents <- {d \in Seq(Units) : IsTextCrc(d)},
  Unknown <- NotReported,
  store <- Known
ImplementsStore == Store!Spec
=============================================================================
