-------------------------------- MODULE Fotp --------------------------------
(***************************************************************************)
(* The File Output Transfer Protocol object of the FILE_XFER app           *)
(* (src/apps/file_xfer/fsw/src/fotp.c): it sends a file to the ground in   *)
(* telemetry, a start packet, one segment per scheduler request and a      *)
(* finish packet with the CRC of the whole file.                           *)
(*                                                                         *)
(* The app is one task: it handles one command or one scheduler request    *)
(* (FOTP_Execute) at a time, so each is one atomic action.  The software   *)
(* bus may refuse a packet, a read may come up short and an open may fail. *)
(*                                                                         *)
(* Data.  A file is a sequence of blocks of DataSegmentLen bytes, its last *)
(* block perhaps shorter; lengths, offsets and byte counts are in blocks.  *)
(* A CRC is the sequence of blocks it covers.  A binary download asks for  *)
(* blocks whose hex text fits into a packet, as the ground does            *)
(* (filebrowser.py:312): the code tests one limit for both modes.          *)
(***************************************************************************)
EXTENDS Integers, Sequences

CONSTANTS
  Names,      \* names of the files on board
  Blocks,     \* what a data segment may hold
  Content,    \* Content[f]: the blocks of file f
  Offsets,    \* DataSegOffset of the start commands the environment sends
  IdMax,      \* largest NextDataSegmentId, 65535 (uint16)
  CntMax,     \* largest FileTransferCnt, 255 (uint8)
  AnyOrder,   \* FALSE: the operator pauses only a running transfer and resumes
              \*        only a paused one; TRUE: any command at any time
  NoName,     \* SrcFilename is FILE_XFER_UNDEF_TLM_STR
  NoBlock     \* the telemetry packet holds no segment yet

ASSUME ContentAssumption == Content \in [Names -> Seq(Blocks)]
\* The segment ids are not used twice: a file has at most IdMax blocks.
ASSUME LengthAssumption  == \A f \in Names : Len(Content[f]) <= IdMax
ASSUME BoundsAssumption  == IdMax \in Nat \ {0} /\ CntMax \in Nat
ASSUME OffsetsAssumption == Offsets \subseteq Nat
ASSUME NamesAssumption   == NoName \notin Names /\ NoBlock \notin Blocks
ASSUME OrderAssumption   == AnyOrder \in BOOLEAN

States == {"IDLE", "START", "SEND_DATA", "FINISH", "PAUSED"}

VARIABLES
  state,       \* Fotp->FileTransferState
  paused,      \* Fotp->PausedFileTransferState
  binFile,     \* Fotp->BinFile
  srcFilename, \* Fotp->SrcFilename, the name of Fotp->FileHandle
  offset,      \* Fotp->DataSegmentOffset
  nextId,      \* Fotp->NextDataSegmentId
  byteCnt,     \* Fotp->FileTransferByteCnt, in blocks
  runningCrc,  \* Fotp->FileRunningCrc
  lastSegment, \* Fotp->LastDataSegment
  sendFailed,  \* Fotp->PrevSendDataSegmentFailed
  transferCnt, \* Fotp->FileTransferCnt
  pkt,         \* the block in Fotp->DataSegmentPkt
  filePos,     \* read position of Fotp->FileHandle
  openFiles,   \* files this object holds open in OSAL
  out          \* packets sent since the last start command was accepted

progress == <<srcFilename, offset, nextId, byteCnt, runningCrc, lastSegment,
              sendFailed, pkt, filePos>>
vars == <<state, paused, binFile, transferCnt, openFiles, out, progress>>

FileLen == IF srcFilename = NoName THEN 0 ELSE Len(Content[srcFilename])
Remaining == FileLen - byteCnt

\* Packets.
StartPkt == [kind |-> "start", len |-> FileLen - offset, bin |-> binFile]
SegmentPkt(b) == [kind |-> "data", id |-> nextId, blk |-> b, bin |-> binFile]
FinishPkt == [kind |-> "finish", len |-> FileLen, crc |-> runningCrc,
              last |-> IF nextId = 0 THEN IdMax ELSE nextId - 1]

-----------------------------------------------------------------------------
\* Counters of the housekeeping packet wrap at their width.
WrapInc(n, max) == IF n < max THEN n + 1 ELSE 0

\* OS_close(Fotp->FileHandle); closing a closed file does nothing.
CloseFile == openFiles' = openFiles \ {srcFilename}

Init ==
  /\ state = "IDLE" /\ paused = "IDLE"
  /\ binFile = FALSE
  /\ srcFilename = NoName /\ offset = 0
  /\ nextId = 1 /\ byteCnt = 0 /\ runningCrc = <<>>
  /\ lastSegment = FALSE /\ sendFailed = FALSE
  /\ transferCnt = 0
  /\ pkt = NoBlock /\ filePos = 0
  /\ openFiles = {} /\ out = <<>>

-----------------------------------------------------------------------------
(* Commands.                                                               *)

\* FOTP_StartTransferCmd and FOTP_StartBinTransferCmd set BinFile first and
\* then validate: a rejected start keeps the new mode.
RejectStart(bin) ==
  /\ binFile' = bin
  /\ UNCHANGED <<state, paused, transferCnt, openFiles, out, progress>>

StartAllowed == state = "IDLE"

\* The file exists and is closed, and the offset is inside it.
Valid(f, off) == f \notin openFiles /\ off < Len(Content[f])

\* The CRC and the byte count take in the blocks before the offset, which are
\* read and not sent.  Reading them stops short at block n if a read fails.
BeginTransfer(f, off, n, bin) ==
  /\ binFile' = bin
  /\ srcFilename' = f
  /\ offset' = off
  /\ nextId' = 1
  /\ byteCnt' = n
  /\ runningCrc' = SubSeq(Content[f], 1, n)
  /\ filePos' = n
  /\ lastSegment' = FALSE
  /\ sendFailed' = FALSE
  /\ out' = <<>>
  /\ UNCHANGED <<paused, transferCnt, pkt>>

StartTransferCmd(f, off, bin) ==
  \/ RejectStart(bin)
  \/ /\ StartAllowed /\ Valid(f, off)
     /\ state' = "START"
     /\ openFiles' = openFiles \cup {f}
     /\ BeginTransfer(f, off, off, bin)
  \/ /\ StartAllowed /\ Valid(f, off)
     /\ \E n \in 0 .. off - 1 : BeginTransfer(f, off, n, bin)
     /\ UNCHANGED <<state, openFiles>>

CancelTransferCmd ==
  IF state = "IDLE" THEN UNCHANGED vars
  ELSE /\ CloseFile
       /\ state' = "IDLE"
       /\ UNCHANGED <<paused, binFile, transferCnt, out, progress>>

PauseTransferCmd ==
  IF state = "IDLE" THEN UNCHANGED vars
  ELSE /\ paused' = state
       /\ state' = "PAUSED"
       /\ UNCHANGED <<binFile, transferCnt, openFiles, out, progress>>

\* A resume takes the state from PausedFileTransferState, paused or not.
ResumeTarget == paused

ResumeTransferCmd ==
  IF state = "IDLE" THEN UNCHANGED vars
  ELSE /\ state' = ResumeTarget
       /\ UNCHANGED <<paused, binFile, transferCnt, openFiles, out, progress>>

\* FILE_XFER_ResetAppCmd: FOTP_ResetStatus, idle only.
ResetStatus ==
  /\ state = "IDLE"
  /\ paused' = "IDLE"
  /\ srcFilename' = NoName /\ offset' = 0
  /\ nextId' = 1 /\ byteCnt' = 0 /\ runningCrc' = <<>>
  /\ lastSegment' = FALSE /\ sendFailed' = FALSE
  /\ transferCnt' = 0
  /\ UNCHANGED <<state, binFile, pkt, filePos, openFiles, out>>

-----------------------------------------------------------------------------
(* FOTP_Execute, one scheduler request.                                    *)

\* SendFileTransferTlm: the software bus takes the packet, or refuses it.
Sent(p) == out' = Append(out, p)
Refused == UNCHANGED out

ExecuteStart ==
  /\ state = "START"
  /\ \/ Sent(StartPkt) /\ state' = "SEND_DATA"
     \/ Refused /\ UNCHANGED state
  /\ UNCHANGED <<paused, binFile, transferCnt, openFiles, progress>>

\* Mutant: off by one.
IsLastEarly == Remaining <= 2
IsLast == Remaining <= 1

\* After a segment was sent: the file is done when it was the last one.
Advance(last) ==
  /\ sendFailed' = FALSE
  /\ nextId' = WrapInc(nextId, IdMax)
  /\ byteCnt' = byteCnt + 1
  /\ IF last THEN CloseFile /\ state' = "FINISH"
             ELSE UNCHANGED <<openFiles, state>>

\* Mutant: the retried block is added to the CRC once more.
CrcTwice(b) == runningCrc' = Append(runningCrc, b)
CrcOnRetry(b) == UNCHANGED runningCrc

\* Read the next block and try to send it.  The CRC and the read position
\* advance before the send.
SendNext ==
  /\ state = "SEND_DATA" /\ ~sendFailed
  /\ srcFilename \in openFiles /\ Remaining > 0 /\ filePos < FileLen
  /\ LET b == Content[srcFilename][filePos + 1]
     IN  /\ pkt' = b
         /\ filePos' = filePos + 1
         /\ runningCrc' = Append(runningCrc, b)
         /\ lastSegment' = (lastSegment \/ IsLast)
         /\ \/ Sent(SegmentPkt(b)) /\ Advance(lastSegment \/ IsLast)
            \/ /\ Refused
               /\ sendFailed' = TRUE
               /\ UNCHANGED <<nextId, byteCnt, openFiles, state>>
  /\ UNCHANGED <<paused, binFile, srcFilename, offset, transferCnt>>

\* Mutant: the block whose packet was refused is skipped.
RetryNothing == Refused
\* Mutant: the software bus is not tried again.
RetryNever == FALSE
RetrySend == Sent(SegmentPkt(pkt))

\* The segment the software bus refused is sent again, as it was built.
Resend ==
  /\ state = "SEND_DATA" /\ sendFailed
  /\ CrcOnRetry(pkt)
  /\ \/ RetrySend /\ Advance(lastSegment)
     \/ Refused /\ UNCHANGED <<sendFailed, nextId, byteCnt, openFiles, state>>
  /\ UNCHANGED <<paused, binFile, srcFilename, offset, lastSegment,
                 transferCnt, pkt, filePos>>

\* The read fails or comes up short: the transfer is aborted.
Abort ==
  /\ state = "SEND_DATA" /\ ~sendFailed
  /\ CloseFile
  /\ state' = "IDLE"
  /\ lastSegment' = (lastSegment \/ IsLast)
  /\ UNCHANGED <<paused, binFile, srcFilename, offset, nextId, byteCnt,
                 runningCrc, sendFailed, transferCnt, pkt, filePos, out>>

ExecuteFinish ==
  /\ state = "FINISH"
  /\ \/ /\ Sent(FinishPkt)
        /\ transferCnt' = WrapInc(transferCnt, CntMax)
        /\ state' = "IDLE"
     \/ Refused /\ UNCHANGED <<transferCnt, state>>
  /\ UNCHANGED <<paused, binFile, openFiles, progress>>

Execute == ExecuteStart \/ SendNext \/ Resend \/ Abort \/ ExecuteFinish

\* The app is deleted and started again: DestructorCallback, the clean up of
\* the files the task still holds, then the constructor.
RestartApp ==
  /\ openFiles' = {}
  /\ state' = "IDLE" /\ paused' = "IDLE"
  /\ binFile' = FALSE
  /\ srcFilename' = NoName /\ offset' = 0
  /\ nextId' = 1 /\ byteCnt' = 0 /\ runningCrc' = <<>>
  /\ lastSegment' = FALSE /\ sendFailed' = FALSE
  /\ transferCnt' = 0
  /\ pkt' = NoBlock /\ filePos' = 0
  /\ UNCHANGED out

\* What the operator sends in order: no start while a transfer runs, a pause
\* of what runs and a resume of what is paused.
Start == /\ AnyOrder \/ state = "IDLE"
         /\ \E f \in Names, off \in Offsets, bin \in BOOLEAN : StartTransferCmd(f, off, bin)
Pause == (AnyOrder \/ state # "PAUSED") /\ PauseTransferCmd
Resume == (AnyOrder \/ state = "PAUSED") /\ ResumeTransferCmd

Next == Start \/ Pause \/ Resume \/ CancelTransferCmd \/ ResetStatus \/ Execute \/ RestartApp

Spec == Init /\ [][Next]_vars

\* The scheduler keeps requesting executes, and a packet offered to the
\* software bus again and again is taken at last.
Sending == Execute /\ out' # out
FairSpec == Spec /\ WF_vars(Execute) /\ SF_vars(Sending)

-----------------------------------------------------------------------------
(* Properties                                                              *)

\* The type of every variable.
TypeOK ==
  /\ state \in States /\ paused \in States
  /\ binFile \in BOOLEAN
  /\ srcFilename \in Names \cup {NoName}
  /\ offset \in Nat
  /\ nextId \in 0 .. IdMax
  /\ byteCnt \in Nat
  /\ runningCrc \in Seq(Blocks)
  /\ lastSegment \in BOOLEAN /\ sendFailed \in BOOLEAN
  /\ transferCnt \in 0 .. CntMax
  /\ pkt \in Blocks \cup {NoBlock}
  /\ filePos \in Nat
  /\ openFiles \subseteq Names

\* The state a transfer is in, seen through a pause.
Phase == IF state = "PAUSED" THEN paused ELSE state

\* The source file is open exactly while there is something of it to read:
\* whatever mix of pauses, refused packets, short reads and cancels there was.
HandleFollowsPhase ==
  openFiles = IF Phase \in {"START", "SEND_DATA"} THEN {srcFilename} ELSE {}

\* During a transfer of a file FOTP has read what it sent, plus the block
\* whose packet was refused; the CRC covers what was read, from the first
\* block even when the transfer starts at an offset.
ReadAheadByOne ==
  Phase \in {"START", "SEND_DATA", "FINISH"} =>
    /\ filePos = byteCnt + (IF sendFailed THEN 1 ELSE 0)
    /\ runningCrc = SubSeq(Content[srcFilename], 1, filePos)
    /\ sendFailed => pkt = Content[srcFilename][filePos]
    /\ Phase = "FINISH" <=> byteCnt = FileLen

\* The handle, the read position, the CRC and the counters agree with what was
\* sent, whatever pauses, refused packets, failed reads and cancels there were
\* (fotp.c:391 and 464).
StateOK == TypeOK /\ HandleFollowsPhase /\ ReadAheadByOne

\* The packets the ground must see for a whole transfer, modes aside.
Transcript(f, off) ==
  LET n == Len(Content[f]) - off
  IN  [i \in 1 .. n + 2 |->
         IF i = 1 THEN [kind |-> "start", len |-> n]
         ELSE IF i = n + 2
              THEN [kind |-> "finish", len |-> n + off, crc |-> Content[f], last |-> n]
              ELSE [kind |-> "data", id |-> i - 1, blk |-> Content[f][off + i - 1]]]
Plain(p) ==
  CASE p.kind = "start" -> [kind |-> "start", len |-> p.len]
    [] p.kind = "data" -> [kind |-> "data", id |-> p.id, blk |-> p.blk]
    [] p.kind = "finish" -> p

\* The packets sent so far are the beginning of the file's transcript: none is
\* missing, repeated or out of place, although refused packets were built
\* once and sent later, and the transfer was paused anywhere.
TranscriptInOrder ==
  Phase # "IDLE" =>
    LET t == Transcript(srcFilename, offset)
    IN  /\ Len(out) < Len(t)
        /\ \A i \in DOMAIN out : Plain(out[i]) = t[i]

Active == {"START", "SEND_DATA", "FINISH"}

Packets ==
  [kind : {"start"}, len : Int, bin : BOOLEAN]
    \cup [kind : {"data"}, id : Nat, blk : Blocks \cup {NoBlock}, bin : BOOLEAN]
    \cup [kind : {"finish"}, len : Nat, crc : Seq(Blocks), last : Int]

\* Segments sent, from the offset on.
SentCnt == byteCnt - offset

\* What keeps the transcript going: how far the transfer is in each phase, the
\* id of the next segment, and that LastDataSegment is only seen set while the
\* last segment is refused.
PhaseOK ==
  /\ out \in Seq(Packets)
  /\ state = "PAUSED" => paused \in Active
  /\ Phase # "IDLE" =>
       /\ srcFilename \in Names
       /\ offset < FileLen /\ offset <= byteCnt /\ byteCnt <= FileLen
       /\ nextId = IF SentCnt < IdMax THEN SentCnt + 1 ELSE 0
       /\ Len(out) = IF Phase = "START" THEN 0 ELSE SentCnt + 1
       /\ Phase = "START" => byteCnt = offset
       /\ Phase \in {"START", "FINISH"} => ~sendFailed
       /\ Phase # "FINISH" => lastSegment = (sendFailed /\ byteCnt + 1 = FileLen)

\* The inductive invariant, for an operator who keeps the order.
IInv == StateOK /\ PhaseOK /\ TranscriptInOrder

\* A transfer is counted exactly when its finish packet completes the
\* transcript, with the CRC of the whole file.
CountedWhenComplete ==
  [][transferCnt' # transferCnt /\ transferCnt' # 0 =>
       LET t == Transcript(srcFilename, offset)
       IN  Len(out') = Len(t) /\ \A i \in DOMAIN t : Plain(out'[i]) = t[i]]_vars

\* A transfer that is neither paused nor cancelled ends.
TransferEnds == (state = "START") ~> (state \in {"IDLE", "PAUSED"})

=============================================================================
