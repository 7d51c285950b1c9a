----------------------------- MODULE Fitp_proofs -----------------------------
(***************************************************************************)
(* Proofs about Fitp and FileUplink for every choice of their constants:   *)
(* the safety invariants that MCFitp checks, that Fitp implements          *)
(* VerifiedStore, that an upload is a behaviour of Fitp, and what faults   *)
(* of the link cannot do to uploads.  The inductive invariants are IInv of *)
(* Fitp and UInv of FileUplink.                                            *)
(***************************************************************************)
EXTENDS FileUplink, SequenceTheorems, WellFoundedInduction, TLAPS

-----------------------------------------------------------------------------
\* A counter that has not reached its limit counts; no counter leaves its field.
LEMMA WrapIncFact ==
  ASSUME NEW max \in Nat, NEW n \in 0 .. max
  PROVE  /\ WrapInc(n, max) \in 0 .. max
         /\ n < max => WrapInc(n, max) = n + 1
BY DEF WrapInc

\* What a segment puts on the disk and into the CRC is one unit of each.
LEMMA UnitFact ==
  ASSUME NEW seg \in Segments, NEW bin \in BOOLEAN
  PROVE  /\ WireUnit(seg) \in Units
         /\ WrittenUnit(bin, seg) \in Units
         /\ Torn(seg) \in Units
         /\ Writable(bin, seg) /\ CrcUnit(seg).fmt = "text"
              => WrittenUnit(bin, seg) = CrcUnit(seg)
BY HalfAssumption DEF Segments, Units, WireUnit, WrittenUnit, CrcUnit, Torn, Writable

LEMMA EmptyCrc == <<>> \in Seq(Units)
OBVIOUS

\* The bound on the byte count moves by MaxLen with every segment.
LEMMA OneMoreSegment ==
  ASSUME NEW n \in Nat, NEW m \in Nat
  PROVE  /\ n * m \in Nat
         /\ (n + 1) * m = n * m + m
BY SMT

-----------------------------------------------------------------------------
(* Initial states.                                                         *)
LEMMA InitIInv == Init => IInv
<1> SUFFICES ASSUME Init PROVE IInv
    OBVIOUS
<1>1. TypeOK
  <2>1. disk \in [Names -> Seq(Units)]
    BY EmptyCrc DEF Init
  <2>2. reported \in [Names -> Seq(Units) \cup {NotReported}]
    BY DEF Init
  <2>3. /\ lastDataSegmentId \in 0 .. IdMax
        /\ dataSegmentErrCnt \in 0 .. ErrMax
        /\ fileTransferByteCnt \in Nat
        /\ fileTransferCnt \in 0 .. CntMax
    BY BoundsAssumption DEF Init
  <2>4. fileRunningCrc \in Seq(Units)
    BY EmptyCrc DEF Init
  <2>5. /\ openFiles \subseteq Names
        /\ destFilename \in Names \cup {NoName}
        /\ fileTransferActive \in BOOLEAN
        /\ binFile \in BOOLEAN
    BY DEF Init
  <2> QED
    BY <2>1, <2>2, <2>3, <2>4, <2>5 DEF TypeOK
<1>2. NoHandleLeak /\ StatusTracksFile /\ ActiveNotReported /\ Integrity
  BY DEF Init, NoHandleLeak, StatusTracksFile, ActiveNotReported, Integrity
<1>3. ByteCountBounded
  <2>1. 0 * MaxLen \in Nat
    BY OneMoreSegment, BoundsAssumption
  <2> QED
    BY BoundsAssumption, SMT DEF Init, ByteCountBounded
<1> QED
  BY <1>1, <1>2, <1>3 DEF IInv

-----------------------------------------------------------------------------
(* Steps.  One lemma per kind of action; each has one step per conjunct of   *)
(* IInv the action can disturb.                                              *)

\* Actions that change neither a file, nor its report, nor what describes the
\* transfer in progress.
LEMMA QuietStep ==
  ASSUME IInv,
         binFile' \in BOOLEAN,
         dataSegmentErrCnt' \in 0 .. ErrMax,
         UNCHANGED <<fileTransferActive, destFilename, lastDataSegmentId,
                     fileTransferByteCnt, fileRunningCrc, fileTransferCnt,
                     openFiles, disk, reported>>
  PROVE  IInv'
BY DEF IInv, TypeOK, NoHandleLeak, StatusTracksFile, ByteCountBounded,
       ActiveNotReported, Integrity

\* An accepted start opens an empty file that is not reported yet.
LEMMA StartStep ==
  ASSUME IInv, NEW name \in Names, NEW bin \in BOOLEAN,
         StartAllowed, AcceptStart(name, bin)
  PROVE  IInv'
<1> USE DEF IInv, AcceptStart, StartAllowed
<1>1. TypeOK'
  BY BoundsAssumption DEF TypeOK
<1>2. /\ disk'[name] = <<>>
      /\ reported'[name] = NotReported
      /\ \A n \in Names \ {name} : disk'[n] = disk[n] /\ reported'[n] = reported[n]
  BY DEF TypeOK
<1>3. NoHandleLeak'
  BY DEF NoHandleLeak
<1>4. StatusTracksFile'
  BY <1>2 DEF StatusTracksFile
<1>5. ByteCountBounded'
  BY OneMoreSegment, BoundsAssumption, SMT DEF ByteCountBounded
<1>6. ActiveNotReported'
  BY <1>2 DEF ActiveNotReported
<1>7. Integrity'
  BY <1>2 DEF Integrity
<1> QED
  BY <1>1, <1>3, <1>4, <1>5, <1>6, <1>7

LEMMA WriteStep ==
  ASSUME IInv, fileTransferActive, NEW seg \in Segments,
         LenAccepted(seg), IdExpected(seg), WriteSegment(seg)
  PROVE  IInv'
<1> DEFINE u == CrcUnit(seg)
           w == WrittenUnit(binFile, seg)
<1>1. /\ u \in Units
      /\ w \in Units
      /\ u.fmt = "text" => w = u
  BY UnitFact DEF CrcUnit, WriteSegment, IInv, TypeOK
<1>2. /\ destFilename \in Names
      /\ disk[destFilename] \in Seq(Units)
      /\ fileRunningCrc \in Seq(Units)
      /\ lastDataSegmentId \in 0 .. IdMax
  BY DEF IInv, StatusTracksFile, TypeOK
<1>3. lastDataSegmentId' = lastDataSegmentId + 1 /\ lastDataSegmentId' \in 0 .. IdMax
  <2>1. lastDataSegmentId < IdMax
    BY <1>2, BoundsAssumption DEF IdExpected, Segments
  <2> QED
    BY <2>1, <1>2, WrapIncFact, BoundsAssumption DEF WriteSegment
<1>4. /\ fileRunningCrc' = Append(fileRunningCrc, u)
      /\ disk'[destFilename] = Append(disk[destFilename], w)
      /\ \A n \in Names \ {destFilename} : disk'[n] = disk[n]
  BY <1>2 DEF WriteSegment, IInv, TypeOK
<1>5. Size[seg.blk] \in Nat /\ Size[seg.blk] >= 1 /\ Size[seg.blk] <= MaxLen
  BY SizeAssumption DEF Segments, LenAccepted
<1>6. /\ Append(fileRunningCrc, u) \in Seq(Units)
      /\ Append(disk[destFilename], w) \in Seq(Units)
  BY <1>1, <1>2
<1>7. TypeOK'
  <2>1. disk' \in [Names -> Seq(Units)]
    BY <1>6 DEF WriteSegment, IInv, TypeOK
  <2>2. fileTransferByteCnt' \in Nat
    BY <1>5 DEF WriteSegment, IInv, TypeOK
  <2> QED
    BY <2>1, <2>2, <1>3, <1>4, <1>6 DEF WriteSegment, IInv, TypeOK
<1>8. NoHandleLeak'
  BY DEF WriteSegment, IInv, NoHandleLeak
<1>9. StatusTracksFile'
  <2>1. /\ Len(fileRunningCrc) = lastDataSegmentId
        /\ Len(disk[destFilename]) = lastDataSegmentId
        /\ \A i \in 1 .. lastDataSegmentId :
             fileRunningCrc[i].fmt = "text" => disk[destFilename][i] = fileRunningCrc[i]
    BY DEF IInv, StatusTracksFile
  <2>2. /\ Len(fileRunningCrc') = lastDataSegmentId + 1
        /\ Len(disk'[destFilename]) = lastDataSegmentId + 1
    BY <1>1, <1>2, <1>4, <2>1
  <2>3. ASSUME NEW i \in 1 .. lastDataSegmentId + 1, fileRunningCrc'[i].fmt = "text"
        PROVE  disk'[destFilename][i] = fileRunningCrc'[i]
    <3>1. CASE i \in 1 .. lastDataSegmentId
      <4>1. fileRunningCrc'[i] = fileRunningCrc[i] /\ disk'[destFilename][i] = disk[destFilename][i]
        BY <3>1, <1>1, <1>2, <1>4, <2>1
      <4> QED
        BY <4>1, <3>1, <2>1, <2>3
    <3>2. CASE i = lastDataSegmentId + 1
      <4>1. fileRunningCrc'[i] = u /\ disk'[destFilename][i] = w
        BY <3>2, <1>1, <1>2, <1>4, <2>1
      <4> QED
        BY <4>1, <1>1, <2>3
    <3> QED
      BY <3>1, <3>2, <1>2
  <2> QED
    BY <1>2, <1>3, <2>2, <2>3 DEF WriteSegment, StatusTracksFile
<1>10. ByteCountBounded'
  <2>1. lastDataSegmentId * MaxLen \in Nat
        /\ (lastDataSegmentId + 1) * MaxLen = lastDataSegmentId * MaxLen + MaxLen
    BY <1>2, OneMoreSegment, BoundsAssumption
  <2>2. fileTransferByteCnt' = fileTransferByteCnt + Size[seg.blk]
    BY DEF WriteSegment
  <2>3. /\ fileTransferByteCnt \in Nat
        /\ fileTransferByteCnt >= lastDataSegmentId
        /\ fileTransferByteCnt <= lastDataSegmentId * MaxLen
    BY DEF IInv, TypeOK, ByteCountBounded
  <2>4. lastDataSegmentId' * MaxLen = lastDataSegmentId * MaxLen + MaxLen
    BY <2>1, <1>3
  <2> DEFINE p == lastDataSegmentId * MaxLen
             q == lastDataSegmentId' * MaxLen
  <2>5. p \in Nat /\ q = p + MaxLen /\ fileTransferByteCnt <= p
    BY <2>1, <2>3, <2>4
  <2> HIDE DEF p, q
  <2>6. fileTransferByteCnt' >= lastDataSegmentId' /\ fileTransferByteCnt' <= q
    BY <2>2, <2>3, <2>5, <1>2, <1>3, <1>5, BoundsAssumption
  <2> QED
    BY <2>6 DEF ByteCountBounded, q
<1>11. ActiveNotReported' /\ Integrity'
  <2>1. reported' = reported /\ reported[destFilename] = NotReported
    BY DEF WriteSegment, IInv, ActiveNotReported
  <2> QED
    BY <2>1, <1>4 DEF WriteSegment, IInv, ActiveNotReported, Integrity
<1> QED
  BY <1>7, <1>8, <1>9, <1>10, <1>11 DEF IInv

LEMMA FailStep ==
  ASSUME IInv, fileTransferActive, NEW seg \in Segments, FailSegment(seg)
  PROVE  IInv'
<1>1. /\ destFilename \in Names
      /\ disk[destFilename] \in Seq(Units)
      /\ Torn(seg) \in Units
      /\ reported[destFilename] = NotReported
  BY UnitFact DEF IInv, StatusTracksFile, TypeOK, ActiveNotReported
<1>2. /\ disk' \in [Names -> Seq(Units)]
      /\ \A n \in Names \ {destFilename} : disk'[n] = disk[n]
  <2>1. CASE UNCHANGED disk
    BY <2>1 DEF IInv, TypeOK
  <2>2. CASE disk' = [disk EXCEPT ![destFilename] = Append(@, Torn(seg))]
    <3>1. Append(disk[destFilename], Torn(seg)) \in Seq(Units)
      BY <1>1
    <3> QED
      BY <3>1, <2>2 DEF IInv, TypeOK
  <2> QED
    BY <2>1, <2>2 DEF FailSegment
<1>3. TypeOK'
  BY <1>2 DEF FailSegment, EndTransfer, CloseFile, IInv, TypeOK
<1>4. NoHandleLeak' /\ StatusTracksFile' /\ ActiveNotReported'
  BY DEF FailSegment, EndTransfer, CloseFile, IInv, NoHandleLeak,
         StatusTracksFile, ActiveNotReported
<1>5. ByteCountBounded'
  BY DEF FailSegment, IInv, ByteCountBounded
<1>6. Integrity'
  BY <1>1, <1>2 DEF FailSegment, IInv, Integrity
<1> QED
  BY <1>3, <1>4, <1>5, <1>6 DEF IInv

\* Equal lengths and equal elements: the file is the CRC's text.
LEMMA FileIsCrc ==
  ASSUME IInv, fileTransferActive, IsTextCrc(fileRunningCrc)
  PROVE  disk[destFilename] = fileRunningCrc
<1>1. /\ fileRunningCrc \in Seq(Units)
      /\ disk[destFilename] \in Seq(Units)
      /\ Len(fileRunningCrc) = lastDataSegmentId
      /\ Len(disk[destFilename]) = lastDataSegmentId
  BY DEF IInv, TypeOK, StatusTracksFile
<1>2. \A i \in 1 .. lastDataSegmentId : disk[destFilename][i] = fileRunningCrc[i]
  BY <1>1 DEF IInv, StatusTracksFile, IsTextCrc
<1> QED
  BY <1>1, <1>2

LEMMA FinishStep ==
  ASSUME IInv, fileTransferActive, NEW cmd \in FinishCmds, FinishTransferCmd(cmd)
  PROVE  IInv'
<1>1. /\ destFilename \in Names
      /\ cmd.fileCrc \in Seq(Units)
      /\ fileTransferActive' = FALSE
      /\ UNCHANGED <<binFile, destFilename, lastDataSegmentId, dataSegmentErrCnt,
                     fileTransferByteCnt, fileRunningCrc, disk>>
      /\ openFiles' = openFiles \ {destFilename}
  BY FinishAssumption DEF FinishTransferCmd, EndTransfer, CloseFile, IInv, StatusTracksFile
<1>2. \/ Verified(cmd) /\ fileTransferCnt' = WrapInc(fileTransferCnt, CntMax)
                       /\ reported' = [reported EXCEPT ![destFilename] = cmd.fileCrc]
      \/ UNCHANGED <<fileTransferCnt, reported>>
  BY DEF FinishTransferCmd
<1>3. fileTransferCnt' \in 0 .. CntMax
  BY <1>2, WrapIncFact, BoundsAssumption DEF IInv, TypeOK
<1>4. reported' \in [Names -> Seq(Units) \cup {NotReported}]
  BY <1>1, <1>2 DEF IInv, TypeOK
<1>5. TypeOK'
  BY <1>1, <1>3, <1>4 DEF IInv, TypeOK
<1>6. NoHandleLeak' /\ StatusTracksFile' /\ ActiveNotReported'
  BY <1>1 DEF IInv, NoHandleLeak, StatusTracksFile, ActiveNotReported
<1>7. ByteCountBounded'
  BY <1>1 DEF IInv, ByteCountBounded
<1>8. Integrity'
  <2>1. CASE UNCHANGED reported
    BY <1>1, <2>1 DEF IInv, Integrity
  <2>2. CASE Verified(cmd) /\ reported' = [reported EXCEPT ![destFilename] = cmd.fileCrc]
    <3>1. cmd.fileCrc = fileRunningCrc
      BY <2>2 DEF Verified
    <3>2. reported'[destFilename] = fileRunningCrc
          /\ \A n \in Names \ {destFilename} : reported'[n] = reported[n]
      BY <1>1, <2>2, <3>1 DEF IInv, TypeOK
    <3>3. IsTextCrc(fileRunningCrc) => disk[destFilename] = fileRunningCrc
      BY FileIsCrc
    <3> QED
      BY <1>1, <3>2, <3>3 DEF IInv, Integrity
  <2> QED
    BY <1>2, <2>1, <2>2
<1> QED
  BY <1>5, <1>6, <1>7, <1>8 DEF IInv

\* A cancel, a status reset or a restart: nothing is active afterwards.
LEMMA ClearStep ==
  ASSUME IInv, ClearStatus, fileTransferActive' = FALSE, binFile' \in BOOLEAN,
         openFiles' = {}, UNCHANGED <<disk, reported>>
  PROVE  IInv'
<1> USE DEF ClearStatus
<1>1. TypeOK'
  <2>1. /\ lastDataSegmentId' \in 0 .. IdMax
        /\ dataSegmentErrCnt' \in 0 .. ErrMax
        /\ fileTransferByteCnt' \in Nat
        /\ fileTransferCnt' \in 0 .. CntMax
    BY BoundsAssumption
  <2> QED
    BY <2>1, EmptyCrc DEF IInv, TypeOK
<1>2. NoHandleLeak' /\ StatusTracksFile' /\ ActiveNotReported' /\ Integrity'
  BY DEF IInv, NoHandleLeak, StatusTracksFile, ActiveNotReported, Integrity
<1>3. ByteCountBounded'
  <2>1. 0 * MaxLen \in Nat
    BY OneMoreSegment, BoundsAssumption
  <2> QED
    BY BoundsAssumption, SMT DEF ByteCountBounded
<1> QED
  BY <1>1, <1>2, <1>3 DEF IInv

LEMMA ClosedAfter ==
  ASSUME IInv, CloseIfActive
  PROVE  openFiles' = {}
BY DEF IInv, NoHandleLeak, CloseIfActive, CloseFile

LEMMA NextIInv == IInv /\ [Next]_vars => IInv'
<1> SUFFICES ASSUME IInv, [Next]_vars PROVE IInv'
    OBVIOUS
<1>0. binFile \in BOOLEAN /\ dataSegmentErrCnt \in 0 .. ErrMax
  BY DEF IInv, TypeOK
<1>1. ASSUME NEW name \in Names, NEW bin \in BOOLEAN, StartTransferCmd(name, bin)
      PROVE  IInv'
  <2>1. CASE RejectStart(bin)
    BY <1>0, <2>1, QuietStep DEF RejectStart
  <2>2. CASE StartAllowed /\ AcceptStart(name, bin)
    BY <2>2, StartStep
  <2> QED
    BY <1>1, <2>1, <2>2 DEF StartTransferCmd
<1>2. ASSUME NEW seg \in Segments, DataSegmentCmd(seg)
      PROVE  IInv'
  <2>1. CASE UNCHANGED vars
    BY <1>0, <2>1, QuietStep DEF vars, status
  <2>2. CASE RejectSegment
    BY <1>0, <2>2, QuietStep, WrapIncFact, BoundsAssumption DEF RejectSegment
  <2>3. CASE fileTransferActive /\ LenAccepted(seg) /\ IdExpected(seg) /\ WriteSegment(seg)
    BY <2>3, WriteStep
  <2>4. CASE fileTransferActive /\ FailSegment(seg)
    BY <2>4, FailStep
  <2> QED
    BY <1>2, <2>1, <2>2, <2>3, <2>4 DEF DataSegmentCmd
<1>3. ASSUME NEW cmd \in FinishCmds, FinishTransferCmd(cmd)
      PROVE  IInv'
  <2>1. CASE fileTransferActive
    BY <1>3, <2>1, FinishStep
  <2>2. CASE ~fileTransferActive
    BY <1>0, <1>3, <2>2, QuietStep DEF FinishTransferCmd, vars, status
  <2> QED
    BY <2>1, <2>2
<1>4. CASE CancelTransferCmd
  BY <1>0, <1>4, ClosedAfter, ClearStep DEF CancelTransferCmd
<1>5. CASE ResetStatus
  <2>1. openFiles = {} /\ fileTransferActive = FALSE
    BY <1>5 DEF ResetStatus, ResetAllowed, IInv, NoHandleLeak, TypeOK
  <2> QED
    BY <1>0, <1>5, <2>1, ClearStep DEF ResetStatus
<1>6. CASE RestartApp
  BY <1>6, ClosedAfter, ClearStep DEF RestartApp
<1>7. CASE UNCHANGED vars
  BY <1>0, <1>7, QuietStep DEF vars, status
<1> QED
  BY <1>1, <1>2, <1>3, <1>4, <1>5, <1>6, <1>7 DEF Next

\* The inductive invariant holds in every reachable state, for any number of
\* files, segments and commands (fitp.c as a whole).
THEOREM Invariance == Spec => []IInv
<1> QED
  BY InitIInv, NextIInv, PTL DEF Spec

\* Every counter of FITP's housekeeping stays in its field.
THEOREM TypeCorrect == Spec => []TypeOK
BY Invariance, PTL DEF IInv

\* No file handle leaks, the status of a transfer in progress describes the
\* file being written, and no counter overflows.
THEOREM StatusCorrect == Spec => []StateOK
BY Invariance, PTL DEF IInv, StateOK

\* A file reported as transferred holds the bytes its CRC was computed over.
THEOREM IntegrityCorrect == Spec => []Integrity
BY Invariance, PTL DEF IInv

-----------------------------------------------------------------------------
(* Action properties and refinement: what a step does to the files.        *)

\* Where a step may change a file: the destination of the active transfer.
LEMMA OnlyDestinationChanges ==
  ASSUME IInv, [Next]_vars, NEW n \in Names,
         reported[n] # NotReported, disk'[n] # disk[n]
  PROVE  reported'[n] = NotReported
<1>1. fileTransferActive => n # destFilename
  BY DEF IInv, ActiveNotReported
<1>2. disk \in [Names -> Seq(Units)] /\ reported \in [Names -> Seq(Units) \cup {NotReported}]
  BY DEF IInv, TypeOK
<1>3. PICK name \in Names, bin \in BOOLEAN : AcceptStart(name, bin)
  <2>1. ASSUME NEW seg \in Segments, DataSegmentCmd(seg)
        PROVE  FALSE
    <3>1. ~WriteSegment(seg) \/ ~fileTransferActive
      BY <1>1, <1>2 DEF WriteSegment
    <3>2. ~FailSegment(seg) \/ ~fileTransferActive
      BY <1>1, <1>2 DEF FailSegment
    <3> QED
      BY <2>1, <3>1, <3>2 DEF DataSegmentCmd, RejectSegment, vars
  <2>2. ASSUME NEW cmd \in FinishCmds, FinishTransferCmd(cmd)
        PROVE  FALSE
    BY <2>2 DEF FinishTransferCmd, vars
  <2> QED
    BY <2>1, <2>2 DEF Next, StartTransferCmd, RejectStart, CancelTransferCmd,
                      ResetStatus, RestartApp, vars
<1>4. n = name
  BY <1>2, <1>3 DEF AcceptStart
<1> QED
  BY <1>2, <1>3, <1>4 DEF AcceptStart

\* After the success event only a new transfer to its name changes a file.
THEOREM FinalCorrect == Spec => VerifiedFileIsFinal
<1>1. IInv /\ [Next]_vars =>
        [\A n \in Names :
           reported[n] # NotReported /\ reported'[n] = reported[n] => disk'[n] = disk[n]]_vars
  BY OnlyDestinationChanges
<1> QED
  BY <1>1, Invariance, PTL DEF Spec, VerifiedFileIsFinal

-----------------------------------------------------------------------------
\* The steps of VerifiedStore that each step of Fitp takes.
LEMMA KnownInit == Init => Store!Init
BY DEF Init, Store!Init, Known

LEMMA KnownStep == IInv /\ IInv' /\ [Next]_vars => [Store!Next]_Known
<1> SUFFICES ASSUME IInv, IInv', [Next]_vars PROVE [Store!Next]_Known
    OBVIOUS
<1>1. /\ disk \in [Names -> Seq(Units)]
      /\ reported \in [Names -> Seq(Units) \cup {NotReported}]
      /\ disk' \in [Names -> Seq(Units)]
      /\ reported' \in [Names -> Seq(Units) \cup {NotReported}]
  BY DEF IInv, TypeOK
<1>2. ASSUME UNCHANGED <<disk, reported>>
      PROVE  UNCHANGED Known
  BY <1>2 DEF Known
<1>3. ASSUME NEW name \in Names, NEW bin \in BOOLEAN, AcceptStart(name, bin)
      PROVE  Store!Reopen(name) \/ UNCHANGED Known
  <2>1. Known' = [Known EXCEPT ![name] = NotReported]
    BY <1>1, <1>3 DEF AcceptStart, Known
  <2> QED
    BY <2>1 DEF Store!Reopen, Known
<1>4. ASSUME NEW seg \in Segments, fileTransferActive, WriteSegment(seg) \/ FailSegment(seg)
      PROVE  UNCHANGED Known
  <2>1. reported' = reported /\ reported[destFilename] = NotReported
    BY <1>4 DEF WriteSegment, FailSegment, IInv, ActiveNotReported
  <2>2. \A n \in Names \ {destFilename} : disk'[n] = disk[n]
    BY <1>1, <1>4 DEF WriteSegment, FailSegment
  <2> QED
    BY <2>1, <2>2 DEF Known
<1>5. ASSUME NEW cmd \in FinishCmds, fileTransferActive, FinishTransferCmd(cmd)
      PROVE  (destFilename \in Names /\ Store!Deliver(destFilename)) \/ UNCHANGED Known
  <2>1. destFilename \in Names /\ reported[destFilename] = NotReported /\ disk' = disk
    BY <1>5 DEF IInv, StatusTracksFile, ActiveNotReported, FinishTransferCmd
  <2>2. CASE UNCHANGED reported
    BY <1>2, <2>1, <2>2
  <2>3. CASE Verified(cmd) /\ reported' = [reported EXCEPT ![destFilename] = cmd.fileCrc]
    <3>1. reported'[destFilename] = fileRunningCrc /\ fileRunningCrc \in Seq(Units)
      BY <1>1, <2>1, <2>3 DEF Verified, IInv, TypeOK
    <3>2. CASE ~IsTextCrc(fileRunningCrc)
      BY <1>1, <2>1, <2>3, <3>1, <3>2 DEF Known
    <3>3. CASE IsTextCrc(fileRunningCrc)
      <4>1. Known'[destFilename] = fileRunningCrc
        BY <1>5, <2>1, <3>1, <3>3, FileIsCrc, ReportAssumption DEF Known
      <4>2. Known' = [Known EXCEPT ![destFilename] = Known'[destFilename]]
        BY <1>1, <2>1, <2>3 DEF Known
      <4>3. Known[destFilename] = NotReported
        BY <2>1 DEF Known
      <4> QED
        BY <2>1, <3>1, <3>3, <4>1, <4>2, <4>3 DEF Store!Deliver
    <3> QED
      BY <3>2, <3>3
  <2>4. \/ UNCHANGED reported
        \/ Verified(cmd) /\ reported' = [reported EXCEPT ![destFilename] = cmd.fileCrc]
    BY <1>5 DEF FinishTransferCmd
  <2> QED
    BY <2>2, <2>3, <2>4
<1>7. ASSUME UNCHANGED Known \/ \E n \in Names : Store!Deliver(n) \/ Store!Reopen(n)
      PROVE  [Store!Next]_Known
  BY <1>7 DEF Store!Next
<1>8. ASSUME NEW seg \in Segments, DataSegmentCmd(seg)
      PROVE  UNCHANGED Known
  BY <1>2, <1>4, <1>8 DEF DataSegmentCmd, RejectSegment, vars
<1>9. ASSUME NEW cmd \in FinishCmds, FinishTransferCmd(cmd)
      PROVE  UNCHANGED Known \/ \E n \in Names : Store!Deliver(n) \/ Store!Reopen(n)
  BY <1>2, <1>5, <1>9 DEF FinishTransferCmd, vars
<1>10. ASSUME NEW name \in Names, NEW bin \in BOOLEAN, StartTransferCmd(name, bin)
       PROVE  UNCHANGED Known \/ \E n \in Names : Store!Deliver(n) \/ Store!Reopen(n)
  BY <1>2, <1>3, <1>10 DEF StartTransferCmd, RejectStart
<1>11. ASSUME CancelTransferCmd \/ ResetStatus \/ RestartApp \/ UNCHANGED vars
       PROVE  UNCHANGED Known
  BY <1>2, <1>11 DEF CancelTransferCmd, ResetStatus, RestartApp, vars
<1> QED
  BY <1>7, <1>8, <1>9, <1>10, <1>11 DEF Next

\* FITP implements VerifiedStore: seen through its success events, a file is
\* delivered whole in one step and never replaced by anything else.
THEOREM Refinement == Spec => ImplementsStore
<1> QED
  BY KnownInit, KnownStep, Invariance, PTL DEF Spec, ImplementsStore, Store!Spec

-----------------------------------------------------------------------------
(* Uploading: lemmas about the operators FileUplink is built from.         *)

\* A nonempty set of numbers has a least one; the proofs about sequences
\* take the least counterexample.
LEMMA NatMin ==
  ASSUME NEW T \in SUBSET Nat, T # {}
  PROVE  \E t \in T : \A u \in T : t <= u
<1> DEFINE R == OpToRel(<, Nat)
<1>1. PICK t \in T : \A u \in T : ~ (<<u, t>> \in R)
  BY WFMin, NatLessThanWellFounded
<1>2. \A u \in T : ~(u < t)
  BY <1>1 DEF OpToRel
<1> QED
  BY <1>2

\* The parts of an upload and their types.
LEMMA UpFact ==
  ASSUME NEW k \in Ups
  PROVE  /\ Uploads[k].name \in Names
         /\ Uploads[k].bin \in BOOLEAN
         /\ Uploads[k].content \in Seq(Blocks)
         /\ NSegs(k) \in Nat
         /\ \A i \in 1 .. NSegs(k) : /\ Uploads[k].content[i] \in Blocks
                                     /\ Size[Uploads[k].content[i]] \in Nat \ {0}
         /\ k \in 1 .. Len(Uploads)
         /\ Len(Uploads) \in Nat
<1>2. k \in 1 .. Len(Uploads) /\ Len(Uploads) \in Nat
  BY UploadsAssumption DEF Ups
<1>1. Uploads[k] \in [name : Names, content : Seq(Blocks), bin : BOOLEAN]
  BY <1>2, UploadsAssumption, ElementOfSeq
<1>3. NSegs(k) \in Nat /\ \A i \in 1 .. NSegs(k) : Uploads[k].content[i] \in Blocks
  BY <1>1 DEF NSegs
<1> QED
  BY <1>1, <1>2, <1>3, SizeAssumption

\* A command leaves the link.
LEMMA RemoveAtFact ==
  ASSUME NEW S, NEW s \in Seq(S), NEW i \in 1 .. Len(s)
  PROVE  /\ RemoveAt(s, i) \in Seq(S)
         /\ Len(RemoveAt(s, i)) = Len(s) - 1
         /\ \A j \in 1 .. Len(s) - 1 :
              RemoveAt(s, i)[j] = IF j < i THEN s[j] ELSE s[j + 1]
<1> DEFINE a == SubSeq(s, 1, i - 1)
           b == SubSeq(s, i + 1, Len(s))
<1>0. Len(s) \in Nat /\ i \in Nat
  OBVIOUS
<1>1. a \in Seq(S) /\ Len(a) = i - 1 /\ \A j \in 1 .. i - 1 : a[j] = s[j]
  OBVIOUS
<1>2. /\ b \in Seq(S) /\ Len(b) = Len(s) - i
      /\ \A j \in 1 .. Len(s) - i : b[j] = s[i + j]
  OBVIOUS
<1>3. RemoveAt(s, i) = a \o b
  BY DEF RemoveAt
<1> HIDE DEF a, b
<1>4. /\ a \o b \in Seq(S) /\ Len(a \o b) = Len(s) - 1
      /\ \A j \in 1 .. Len(s) - 1 : (a \o b)[j] = IF j <= i - 1 THEN a[j] ELSE b[j - (i - 1)]
  <2>1. /\ a \o b \in Seq(S) /\ Len(a \o b) = Len(a) + Len(b)
        /\ \A j \in 1 .. Len(a) + Len(b) :
             (a \o b)[j] = IF j <= Len(a) THEN a[j] ELSE b[j - Len(a)]
    BY <1>1, <1>2, ConcatProperties
  <2> QED
    BY <1>0, <1>1, <1>2, <2>1
<1>5. ASSUME NEW j \in 1 .. Len(s) - 1
      PROVE  (a \o b)[j] = IF j < i THEN s[j] ELSE s[j + 1]
  <2>1. CASE j < i
    BY <1>0, <1>1, <1>4, <2>1
  <2>2. CASE j >= i
    BY <1>0, <1>2, <1>4, <2>2
  <2> QED
    <3>1. j < i \/ j >= i
      BY <1>0
    <3> QED
      BY <2>1, <2>2, <3>1, Zenon
<1> QED
  BY <1>3, <1>4, <1>5

\* A command comes twice.
LEMMA InsertAtFact ==
  ASSUME NEW S, NEW s \in Seq(S), NEW i \in 1 .. Len(s), NEW e \in S
  PROVE  /\ InsertAt(s, i, e) \in Seq(S)
         /\ Len(InsertAt(s, i, e)) = Len(s) + 1
         /\ \A j \in 1 .. Len(s) + 1 :
              InsertAt(s, i, e)[j] = IF j < i THEN s[j] ELSE IF j = i THEN e ELSE s[j - 1]
<1> DEFINE a == SubSeq(s, 1, i - 1)
           b == SubSeq(s, i, Len(s))
           d == a \o <<e>>
<1>0. Len(s) \in Nat /\ i \in Nat
  OBVIOUS
<1>1. a \in Seq(S) /\ Len(a) = i - 1 /\ \A j \in 1 .. i - 1 : a[j] = s[j]
  OBVIOUS
<1>2. /\ b \in Seq(S) /\ Len(b) = Len(s) - i + 1
      /\ \A j \in 1 .. Len(s) - i + 1 : b[j] = s[i + j - 1]
  OBVIOUS
<1>3. InsertAt(s, i, e) = d \o b
  BY DEF InsertAt
<1> HIDE DEF a, b
<1>4. d \in Seq(S) /\ Len(d) = i /\ d[i] = e /\ \A j \in 1 .. i - 1 : d[j] = s[j]
  BY <1>1
<1> HIDE DEF d
<1>5. /\ d \o b \in Seq(S) /\ Len(d \o b) = Len(s) + 1
      /\ \A j \in 1 .. Len(s) + 1 : (d \o b)[j] = IF j <= i THEN d[j] ELSE b[j - i]
  <2>1. /\ d \o b \in Seq(S) /\ Len(d \o b) = Len(d) + Len(b)
        /\ \A j \in 1 .. Len(d) + Len(b) :
             (d \o b)[j] = IF j <= Len(d) THEN d[j] ELSE b[j - Len(d)]
    BY <1>2, <1>4, ConcatProperties
  <2> QED
    BY <1>0, <1>2, <1>4, <2>1
<1>6. ASSUME NEW j \in 1 .. Len(s) + 1
      PROVE  (d \o b)[j] = IF j < i THEN s[j] ELSE IF j = i THEN e ELSE s[j - 1]
  <2>1. CASE j <= i
    BY <1>0, <1>4, <1>5, <2>1
  <2>2. CASE j > i
    BY <1>0, <1>2, <1>5, <2>2
  <2> QED
    <3>1. j <= i \/ j > i
      BY <1>0
    <3> QED
      BY <2>1, <2>2, <3>1, Zenon
<1> QED
  BY <1>3, <1>5, <1>6

-----------------------------------------------------------------------------
(* The commands of an upload are commands of Fitp's environment.           *)

LEMMA SegmentFact ==
  ASSUME NEW k \in Ups, NEW i \in 1 .. NSegs(k)
  PROVE  /\ Segment(k, i) \in Segments
         /\ Segment(k, i).id = i
         /\ LenAccepted(Segment(k, i))
         /\ i <= IdMax
         /\ WrittenUnit(Uploads[k].bin, Segment(k, i))
              = [fmt |-> "text", data |-> Segment(k, i).blk]
<1>1. NSegs(k) \in 0 .. IdMax
  <2>1. FinishCmd(k).lastDataSegmentId \in 0 .. IdMax
    BY SegmentsAssumption, FinishAssumption
  <2> QED
    BY <2>1 DEF FinishCmd
<1>2. Uploads[k].content[i] \in Blocks /\ AsText[Uploads[k].content[i]] \in Blocks
  BY UpFact, AsTextAssumption
<1>3. i \in 0 .. IdMax
  BY <1>1, BoundsAssumption
<1>4. Segment(k, i) \in Segments /\ Segment(k, i).id = i
  BY <1>2, <1>3 DEF Segment, SegmentId, Segments
<1>5. LenAccepted(Segment(k, i))
  BY SegmentsAssumption DEF LenAccepted
<1>6. WrittenUnit(Uploads[k].bin, Segment(k, i)) = [fmt |-> "text", data |-> Segment(k, i).blk]
  BY DEF WrittenUnit, WireUnit, Segment
<1> QED
  BY <1>3, <1>4, <1>5, <1>6, BoundsAssumption

LEMMA ArrivesFact ==
  ASSUME NEW k \in Ups
  PROVE  /\ Arrives(k) \in Seq(Units)
         /\ Len(Arrives(k)) = NSegs(k)
         /\ \A i \in 1 .. NSegs(k) :
              Arrives(k)[i] = [fmt |-> "text", data |-> Segment(k, i).blk]
<1>1. NSegs(k) \in Nat /\ \A i \in 1 .. NSegs(k) : Segment(k, i).blk \in Blocks
  BY UpFact, SegmentFact DEF Segments
<1>2. Arrives(k) \in [1 .. NSegs(k) -> Units]
  BY <1>1 DEF Arrives, Units
<1>3. Arrives(k) \in Seq(Units) /\ Len(Arrives(k)) = NSegs(k)
  BY <1>1, <1>2
<1>4. \A i \in 1 .. NSegs(k) : Arrives(k)[i] = [fmt |-> "text", data |-> Segment(k, i).blk]
  BY DEF Arrives
<1> QED
  BY <1>3, <1>4

\* A command the dispatcher hands to FITP is one of the upload's.
LEMMA DeliverCases ==
  ASSUME UTypeOK, Deliver
  PROVE  /\ link # <<>>
         /\ Head(link).up \in Ups
         /\ Head(link).part \in 0 .. NSegs(Head(link).up) + 1
         /\ \/ Head(link).part = 0 /\ DeliverStart(Head(link).up)
            \/ /\ Head(link).part \in 1 .. NSegs(Head(link).up)
               /\ DeliverSegment(Head(link).up, Head(link).part)
            \/ Head(link).part = NSegs(Head(link).up) + 1 /\ DeliverFinish(Head(link).up)
<1>1. link # <<>>
  BY DEF Deliver
<1>2. Head(link) \in {c \in Command : c.part <= NSegs(c.up) + 1}
  BY <1>1, HeadTailProperties DEF UTypeOK
<1> DEFINE k == Head(link).up
           i == Head(link).part
<1>3. k \in Ups /\ i \in Nat /\ i <= NSegs(k) + 1
  BY <1>2 DEF Command
<1>4. \/ i = 0 /\ DeliverStart(k)
      \/ i \in 1 .. NSegs(k) /\ DeliverSegment(k, i)
      \/ i > NSegs(k) /\ DeliverFinish(k)
  BY DEF Deliver
<1> HIDE DEF k, i
<1>5. NSegs(k) \in Nat
  BY <1>3, UpFact
<1>6. i \in 0 .. NSegs(k) + 1 /\ (i > NSegs(k) => i = NSegs(k) + 1)
  BY <1>3, <1>5
<1> QED
  BY <1>1, <1>3, <1>4, <1>6 DEF k, i

LEMMA DeliverIsFitp == UTypeOK /\ Deliver => Next
<1> SUFFICES ASSUME UTypeOK, Deliver PROVE Next
    OBVIOUS
<1> DEFINE k == Head(link).up
           i == Head(link).part
<1>0. k \in Ups
  BY DeliverCases
<1> HIDE DEF k, i
<1>1. CASE i = 0 /\ DeliverStart(k)
  BY <1>0, <1>1, UpFact DEF DeliverStart, Next
<1>2. CASE i \in 1 .. NSegs(k) /\ DeliverSegment(k, i)
  BY <1>0, <1>2, SegmentFact DEF DeliverSegment, Next
<1>3. CASE i = NSegs(k) + 1 /\ DeliverFinish(k)
  BY <1>0, <1>3, SegmentsAssumption DEF DeliverFinish, Next
<1> QED
  BY DeliverCases, <1>1, <1>2, <1>3 DEF k, i

LEMMA UplinkStep == UTypeOK /\ [UNext]_uvars => [Next]_vars
BY DeliverIsFitp DEF UNext, uvars, Send, Quit, Lose, Duplicate, Swap

-----------------------------------------------------------------------------
(* What the commands of a clean upload do to FITP.                         *)

LEMMA TakesStart ==
  ASSUME IInv, NEW k \in Ups, DeliverStart(k), k \notin hit',
         ~fileTransferActive \/ Took(k, 0)
  PROVE  Took(k, 0)'
<1>1. SubSeq(Arrives(k), 1, 0) = <<>>
  BY SubSeqEmpty
<1>0. Uploads[k].name \in Names
  BY UpFact
<1>2. CASE RejectStart(Uploads[k].bin)
  <2>1. UNCHANGED <<fileTransferActive, destFilename, lastDataSegmentId, disk>>
        /\ binFile' = Uploads[k].bin
    BY <1>2 DEF RejectStart
  <2>2. Took(k, 0)
    BY <2>1 DEF DeliverStart, StartAllowed
  <2> QED
    BY <2>1, <2>2 DEF Took
<1>3. CASE AcceptStart(Uploads[k].name, Uploads[k].bin)
  BY <1>0, <1>1, <1>3 DEF AcceptStart, Took, IInv, TypeOK
<1> QED
  BY <1>2, <1>3 DEF DeliverStart, StartTransferCmd

LEMMA TakesSegment ==
  ASSUME IInv, NEW k \in Ups, NEW i \in 1 .. NSegs(k), DeliverSegment(k, i),
         k \notin hit', Took(k, i - 1) \/ Took(k, i)
  PROVE  Took(k, i)'
<1> DEFINE seg == Segment(k, i)
<1>1. /\ i \in 1 .. IdMax /\ NSegs(k) \in Nat
      /\ seg.id = i /\ LenAccepted(seg)
      /\ WrittenUnit(Uploads[k].bin, seg) = Arrives(k)[i]
  <2>1. /\ seg.id = i /\ LenAccepted(seg) /\ i <= IdMax
        /\ WrittenUnit(Uploads[k].bin, seg) = [fmt |-> "text", data |-> seg.blk]
    BY SegmentFact, Zenon
  <2>2. NSegs(k) \in Nat /\ Arrives(k)[i] = [fmt |-> "text", data |-> seg.blk]
    BY UpFact, ArrivesFact, Zenon
  <2> HIDE DEF seg
  <2> QED
    BY <2>1, <2>2, BoundsAssumption
<1> HIDE DEF seg
<1>2. fileTransferActive
  BY DEF Took
<1>3. DataSegmentCmd(seg) /\ fileTransferActive'
  BY <1>2 DEF DeliverSegment, seg
<1>4. CASE lastDataSegmentId = i
  <2>1. RejectSegment /\ Took(k, i)
    BY <1>1, <1>2, <1>3, <1>4 DEF DataSegmentCmd, IdExpected, Took
  <2> QED
    BY <2>1 DEF RejectSegment, Took
<1>5. CASE lastDataSegmentId = i - 1
  <2>1. WriteSegment(seg)
    BY <1>1, <1>2, <1>3, <1>5 DEF DataSegmentCmd, IdExpected, FailSegment, EndTransfer
  <2>2. Took(k, i - 1)
    BY <1>1, <1>5 DEF Took
  <2>3. lastDataSegmentId' = i
    BY <1>1, <1>5, <2>1, BoundsAssumption DEF WriteSegment, WrapInc
  <2>4. destFilename \in Names /\ disk \in [Names -> Seq(Units)] /\ binFile = Uploads[k].bin
    BY <1>2, <2>2 DEF IInv, TypeOK, StatusTracksFile, Took
  <2>5. disk[destFilename]' = SubSeq(Arrives(k), 1, i)
    <3>1. disk[destFilename]' = Append(SubSeq(Arrives(k), 1, i - 1), Arrives(k)[i])
      BY <1>1, <2>1, <2>2, <2>4 DEF WriteSegment, Took
    <3>2. i \in 1 .. Len(Arrives(k)) /\ Arrives(k) \in Seq(Units)
      BY ArrivesFact
    <3> HIDE DEF IInv
    <3> QED
      BY <3>1, <3>2
  <2> QED
    BY <2>1, <2>2, <2>3, <2>5 DEF WriteSegment, Took
<1> QED
  BY <1>4, <1>5 DEF Took

LEMMA TakesFinish ==
  ASSUME IInv, NEW k \in Ups, DeliverFinish(k), Took(k, NSegs(k)) \/ Arrived(k)
  PROVE  Arrived(k)'
<1>1. CASE Arrived(k)
  BY <1>1 DEF Arrived, DeliverFinish
<1>2. CASE Took(k, NSegs(k))
  <2>1. SubSeq(Arrives(k), 1, NSegs(k)) = Arrives(k)
    BY ArrivesFact, SubSeqFull
  <2>2. fileTransferActive /\ Holds(k)
    BY <1>2, <2>1 DEF Took, Holds
  <2> QED
    BY <2>2 DEF DeliverFinish, Arrived
<1> QED
  BY <1>1, <1>2

\* No transfer outlives a finish command, whosever it is.
LEMMA FinishEnds ==
  ASSUME IInv, NEW k \in Ups, DeliverFinish(k)
  PROVE  ~fileTransferActive'
BY DEF DeliverFinish, FinishTransferCmd, EndTransfer, vars, status

-----------------------------------------------------------------------------
(* The line.                                                               *)

\* Where a command of the line lies as an upload sees it.
LEMMA RankFact ==
  ASSUME UTypeOK, NEW k \in Ups, NEW i \in 1 .. Len(link) + 1
  PROVE  /\ NSegs(k) \in Nat
         /\ Line(i).up \in Nat
         /\ Rank(k, Line(i)) \in -1 .. NSegs(k) + 2
         /\ Line(i).up < k => Rank(k, Line(i)) = -1
         /\ Line(i).up > k => Rank(k, Line(i)) = NSegs(k) + 2
         /\ Line(i).up = k => /\ Rank(k, Line(i)) = Line(i).part
                              /\ Line(i).part \in 0 .. NSegs(k) + 1
<1>1. NSegs(k) \in Nat /\ k \in 1 .. Len(Uploads) /\ Len(Uploads) \in Nat
  BY UpFact
<1>2. Len(link) \in Nat
  BY DEF UTypeOK
<1>3. /\ Line(i).up \in Nat
      /\ Line(i).up = k => Line(i).part \in 0 .. NSegs(k) + 1
  <2>1. CASE i <= Len(link)
    <3>1. i \in 1 .. Len(link) /\ Line(i) = link[i]
      BY <1>2, <2>1 DEF Line
    <3>2. link[i] \in {c \in Command : c.part <= NSegs(c.up) + 1}
      BY <3>1, ElementOfSeq DEF UTypeOK
    <3>3. link[i].up \in Ups /\ link[i].part \in Nat /\ link[i].part <= NSegs(link[i].up) + 1
      BY <3>2 DEF Command
    <3>4. link[i].up \in Nat
      BY <3>3, UpFact
    <3> QED
      BY <1>1, <3>1, <3>3, <3>4
  <2>2. CASE i = Len(link) + 1
    <3>1. Line(i) = [up |-> cur, part |-> next]
      BY <1>2, <2>2 DEF Line
    <3> QED
      BY <1>1, <3>1 DEF UTypeOK
  <2> QED
    BY <1>2, <2>1, <2>2
<1>4. CASE Line(i).up < k
  BY <1>1, <1>3, <1>4 DEF Rank
<1>5. CASE Line(i).up > k
  BY <1>1, <1>3, <1>5 DEF Rank
<1>6. CASE Line(i).up = k
  BY <1>1, <1>3, <1>6 DEF Rank
<1>7. Line(i).up < k \/ Line(i).up > k \/ Line(i).up = k
  BY <1>1, <1>3
<1> QED
  BY <1>1, <1>3, <1>4, <1>5, <1>6, <1>7

\* A command of another upload leaves: the rank still steps by at most one.
LEMMA StrideOverGap ==
  ASSUME UTypeOK, InOneStride, NEW k \in Ups \ hit, NEW i \in 2 .. Len(link),
         Line(i).up # k
  PROVE  Rank(k, Line(i + 1)) \in {Rank(k, Line(i - 1)), Rank(k, Line(i - 1)) + 1}
<1>1. Len(link) \in Nat
  BY DEF UTypeOK
<1>2. /\ i - 1 \in 1 .. Len(link) /\ i \in 1 .. Len(link)
      /\ i + 1 \in 1 .. Len(link) + 1 /\ i \in 1 .. Len(link) + 1
      /\ i - 1 \in 1 .. Len(link) + 1 /\ (i - 1) + 1 = i /\ k \in Ups
  BY <1>1
<1> DEFINE x == Rank(k, Line(i - 1))
           y == Rank(k, Line(i))
           z == Rank(k, Line(i + 1))
<1>3. y \in {x, x + 1} /\ z \in {y, y + 1}
  BY <1>2 DEF InOneStride
<1>4. /\ NSegs(k) \in Nat
      /\ x \in -1 .. NSegs(k) + 2 /\ z \in -1 .. NSegs(k) + 2
      /\ y = -1 \/ y = NSegs(k) + 2
  <2>1. Line(i).up \in Nat
    BY <1>2, RankFact
  <2>2. k \in Nat
    BY <1>2, UpFact
  <2>3. Line(i).up < k \/ Line(i).up > k
    BY <2>1, <2>2
  <2> QED
    BY <1>2, <2>3, RankFact
<1> HIDE DEF x, y, z
<1>5. z \in {x, x + 1}
  BY <1>3, <1>4
<1> QED
  BY <1>5 DEF x, z

\* Where the line reaches a clean upload, FITP has just seen the last command
\* of the one before it.
LEMMA BeforeClean ==
  ASSUME UTypeOK, InOneStride, NEW k \in Ups, Clean(k), link # <<>>,
         Rank(k, Line(1)) = -1, Rank(k, Line(2)) # -1
  PROVE  /\ k - 1 \in Ups \ hit
         /\ Line(1).up = k - 1
         /\ Line(1).part = NSegs(k - 1) + 1
         /\ Rank(k, Line(2)) = 0
<1>1. /\ Len(link) \in Nat \ {0}
      /\ 1 \in 1 .. Len(link) /\ 1 \in 1 .. Len(link) + 1 /\ 2 \in 1 .. Len(link) + 1
      /\ 1 + 1 = 2
  BY EmptySeq DEF UTypeOK
<1>2. k \in Ups \ hit /\ k \in 1 .. Len(Uploads) /\ Len(Uploads) \in Nat
  BY UpFact DEF Clean
<1>3. Rank(k, Line(2)) = 0
  BY <1>1, <1>2 DEF InOneStride
<1>4. Line(1).up \in Nat /\ Line(1).up < k
  BY <1>1, <1>2, <1>3, RankFact
<1>5. Line(2).up = k
  BY <1>1, <1>2, <1>3, RankFact
<1>6. Line(1).up \in Ups
  <2>1. Line(1) = link[1]
    BY <1>1 DEF Line
  <2>2. link[1] \in {c \in Command : c.part <= NSegs(c.up) + 1}
    BY <1>1, ElementOfSeq DEF UTypeOK
  <2> QED
    BY <2>1, <2>2 DEF Command
<1>7. Line(1).up \in 1 .. Len(Uploads)
  BY <1>6, UpFact
<1>8. k - 1 \in Ups \ hit
  <2>1. k > 1 /\ k - 1 \in 1 .. Len(Uploads)
    BY <1>2, <1>4, <1>7
  <2> QED
    BY <2>1, UploadsAssumption DEF Clean, Ups
<1> DEFINE j == k - 1
<1>9. /\ Rank(j, Line(2)) = NSegs(j) + 2
      /\ Rank(j, Line(2)) \in {Rank(j, Line(1)), Rank(j, Line(1)) + 1}
  <2>1. Line(2).up > j
    BY <1>2, <1>5
  <2> QED
    BY <1>1, <1>8, <2>1, RankFact DEF InOneStride
<1>10. Line(1).up = j
  <2>1. CASE Line(1).up < j
    BY <1>1, <1>8, <1>9, <2>1, RankFact
  <2> QED
    BY <1>2, <1>4, <2>1
<1>11. Line(1).part = NSegs(j) + 1
  BY <1>1, <1>8, <1>9, <1>10, RankFact
<1> QED
  BY <1>3, <1>8, <1>10, <1>11

-----------------------------------------------------------------------------
(* The ground and the link.                                                *)

\* The commands of the line.
LEMMA LinkFact ==
  ASSUME UTypeOK
  PROVE  /\ Len(link) \in Nat
         /\ \A i \in 1 .. Len(link) : Line(i) = link[i] /\ link[i].up \in Ups
         /\ Line(Len(link) + 1) = [up |-> cur, part |-> next]
<1>1. Len(link) \in Nat
  BY DEF UTypeOK
<1>2. ASSUME NEW i \in 1 .. Len(link)
      PROVE  Line(i) = link[i] /\ link[i].up \in Ups
  <2>1. link[i] \in {c \in Command : c.part <= NSegs(c.up) + 1}
    BY <1>2, ElementOfSeq DEF UTypeOK
  <2> QED
    BY <1>1, <2>1 DEF Command, Line
<1>3. Line(Len(link) + 1) = [up |-> cur, part |-> next]
  BY <1>1 DEF Line
<1> QED
  BY <1>1, <1>2, <1>3

\* FITP sees nothing of a step of the ground or the link.
LEMMA KeepsUpOnLine ==
  ASSUME KeepsUp, UNCHANGED vars, UNCHANGED arrived, hit \subseteq hit',
         \A k \in Ups : Clean(k)' => Rank(k, Line(1))' = Rank(k, Line(1))
  PROVE  KeepsUp'
<1> SUFFICES ASSUME NEW k \in Ups, Clean(k)'
             PROVE  Ready(k, Rank(k, Line(1)))'
  BY DEF KeepsUp
<1>1. Clean(k)
  BY DEF Clean
<1>2. PICK r : r = Rank(k, Line(1))
  OBVIOUS
<1>3. Ready(k, r)
  BY <1>1, <1>2 DEF KeepsUp
<1>4. Ready(k, r)'
  BY <1>3 DEF Ready, Took, Arrived, vars, status
<1>5. r = Rank(k, Line(1))'
  BY <1>2
<1> QED
  BY <1>4, <1>5

LEMMA SendStep ==
  ASSUME UTypeOK, InOneStride, KeepsUp, Send
  PROVE  UTypeOK' /\ InOneStride' /\ KeepsUp'
<1> DEFINE c == [up |-> cur, part |-> next]
           n == Len(link)
           Sendable == {d \in Command : d.part <= NSegs(d.up) + 1}
<1>1. /\ cur \in Ups /\ NSegs(cur) \in Nat /\ next \in 0 .. NSegs(cur) + 1
      /\ c \in Sendable
      /\ cur \in 1 .. Len(Uploads) /\ Len(Uploads) \in Nat
  BY UpFact DEF Send, UTypeOK, Command
<1>2. /\ link \in Seq(Sendable) /\ n \in Nat
      /\ link' = Append(link, c)
  BY DEF Send, UTypeOK
<1>3. /\ link' \in Seq(Sendable) /\ Len(link') = n + 1
      /\ \A i \in 1 .. n : link'[i] = link[i]
      /\ link'[n + 1] = c
  <2> HIDE DEF Sendable, c, n
  <2> QED
    BY <1>1, <1>2, AppendProperties DEF n
<1>4. /\ next > NSegs(cur) => cur' = cur + 1 /\ next' = 0
      /\ ~(next > NSegs(cur)) => cur' = cur /\ next' = next + 1
  BY DEF Send
<1>5. UTypeOK'
  <2>1. cur' \in 1 .. Len(Uploads) + 1 /\ next' \in Nat
    BY <1>1, <1>4
  <2>2. cur' \in Ups => next' <= NSegs(cur') + 1
    <3>1. CASE next > NSegs(cur)
      BY <1>4, <3>1, UpFact
    <3>2. CASE ~(next > NSegs(cur))
      BY <1>1, <1>4, <3>2
    <3> QED
      BY <3>1, <3>2
  <2> QED
    BY <1>3, <2>1, <2>2 DEF UTypeOK
<1>6. \A i \in 1 .. n + 2 :
        Line(i)' = IF i <= n + 1 THEN Line(i) ELSE [up |-> cur', part |-> next']
  <2> SUFFICES ASSUME NEW i \in 1 .. n + 2
               PROVE  Line(i)' = IF i <= n + 1 THEN Line(i)
                                               ELSE [up |-> cur', part |-> next']
      OBVIOUS
  <2>1. CASE i <= n
    BY <1>2, <1>3, <2>1 DEF Line
  <2>2. CASE i = n + 1
    BY <1>2, <1>3, <2>2 DEF Line
  <2>3. CASE i = n + 2
    BY <1>2, <1>3, <2>3 DEF Line
  <2>4. i <= n \/ i = n + 1 \/ i = n + 2
    BY <1>2
  <2> QED
    BY <2>1, <2>2, <2>3, <2>4
<1> HIDE DEF c, Sendable
<1>7. InOneStride'
  <2> SUFFICES ASSUME NEW k \in Ups \ hit', NEW i \in 1 .. Len(link')
               PROVE  (Rank(k, Line(i + 1)) \in {Rank(k, Line(i)), Rank(k, Line(i)) + 1})'
    BY DEF InOneStride
  <2>0. k \in Ups \ hit /\ k \in 1 .. Len(Uploads) /\ NSegs(k) \in Nat
    BY UpFact DEF Send
  <2>1. CASE i \in 1 .. n
    <3>1. Line(i)' = Line(i) /\ Line(i + 1)' = Line(i + 1)
      BY <1>2, <1>6, <2>1
    <3>2. Rank(k, Line(i + 1)) \in {Rank(k, Line(i)), Rank(k, Line(i)) + 1}
      BY <2>0, <2>1 DEF InOneStride
    <3> QED
      BY <3>1, <3>2 DEF Rank
  <2>2. CASE i = n + 1
    <3>0. i + 1 \in 1 .. n + 2 /\ i \in 1 .. n + 2 /\ i <= n + 1 /\ ~(i + 1 <= n + 1)
          /\ Line(i) = c
      BY <1>2, <2>2, LinkFact DEF c
    <3>1. Line(i)' = c /\ Line(i + 1)' = [up |-> cur', part |-> next']
      BY <1>6, <3>0
    <3>2. CASE next > NSegs(cur)
      <4>1. next = NSegs(cur) + 1 /\ cur' = cur + 1 /\ next' = 0
        BY <1>1, <1>4, <3>2
      <4> QED
        BY <1>1, <2>0, <3>1, <4>1 DEF Rank, c
    <3>3. CASE ~(next > NSegs(cur))
      BY <1>1, <1>4, <2>0, <3>1, <3>3 DEF Rank, c
    <3> QED
      BY <3>2, <3>3
  <2> QED
    BY <1>2, <1>3, <2>1, <2>2
<1>8. KeepsUp'
  <2>1. Line(1)' = Line(1)
    BY <1>2, <1>6
  <2>2. \A k \in Ups : Rank(k, Line(1))' = Rank(k, Line(1))
    BY <2>1 DEF Rank
  <2> QED
    BY <2>2, KeepsUpOnLine DEF Send
<1> QED
  BY <1>5, <1>7, <1>8

\* The ground drops the rest of an upload: the line goes on with the next one.
LEMMA QuitStep ==
  ASSUME UTypeOK, InOneStride, KeepsUp, Quit
  PROVE  UTypeOK' /\ InOneStride' /\ KeepsUp'
<1>0. PICK n : n = Len(link)
  OBVIOUS
<1>1. /\ cur \in Ups /\ cur \in 1 .. Len(Uploads) /\ Len(Uploads) \in Nat
      /\ NSegs(cur) \in Nat /\ next \in 0 .. NSegs(cur) + 1
      /\ cur' = cur + 1 /\ next' = 0 /\ link' = link /\ hit' = hit \cup {cur}
      /\ n \in Nat
  BY <1>0, UpFact DEF Quit, UTypeOK
<1>2. UTypeOK'
  <2>1. cur' \in 1 .. Len(Uploads) + 1 /\ next' \in Nat
    BY <1>1
  <2>2. cur' \in Ups => next' <= NSegs(cur') + 1
    BY <1>1, UpFact
  <2> QED
    BY <1>1, <2>1, <2>2 DEF UTypeOK
<1>3. /\ \A i \in 1 .. n : Line(i)' = Line(i)
      /\ Line(n + 1) = [up |-> cur, part |-> next]
      /\ Line(n + 1)' = [up |-> cur + 1, part |-> 0]
  BY <1>0, <1>1 DEF Line
<1>4. ASSUME NEW k \in Ups \ hit'
      PROVE  /\ k \in Ups \ hit
             /\ \/ Rank(k, Line(n + 1))' = Rank(k, Line(n + 1))
                \/ /\ k = cur + 1
                   /\ Rank(k, Line(n + 1)) = -1 /\ Rank(k, Line(n + 1))' = 0
  <2>1. k \in Nat /\ k # cur /\ k \in Ups \ hit /\ NSegs(k) \in Nat
    BY <1>1, UpFact
  <2>2. CASE k < cur
    BY <1>1, <1>3, <2>1, <2>2 DEF Rank
  <2>3. CASE k = cur + 1
    BY <1>1, <1>3, <2>1, <2>3 DEF Rank
  <2>4. CASE k > cur + 1
    BY <1>1, <1>3, <2>1, <2>4 DEF Rank
  <2> QED
    BY <1>1, <2>1, <2>2, <2>3, <2>4
<1>5. InOneStride'
  <2> SUFFICES ASSUME NEW k \in Ups \ hit', NEW i \in 1 .. n
               PROVE  (Rank(k, Line(i + 1)) \in {Rank(k, Line(i)), Rank(k, Line(i)) + 1})'
    BY <1>0, <1>1 DEF InOneStride
  <2>1. /\ Line(i)' = Line(i) /\ i \in Nat
        /\ Rank(k, Line(i + 1)) \in {Rank(k, Line(i)), Rank(k, Line(i)) + 1}
    BY <1>1, <1>3, <1>4, <1>0 DEF InOneStride
  <2>2. CASE i < n
    <3>1. i + 1 \in 1 .. n
      BY <1>1, <2>1, <2>2
    <3> QED
      BY <1>3, <2>1, <3>1 DEF Rank
  <2>3. CASE i = n
    <3>1. Rank(k, Line(i))' = Rank(k, Line(i))
      BY <2>1 DEF Rank
    <3>2. CASE Rank(k, Line(i + 1))' = Rank(k, Line(i + 1))
      BY <2>1, <3>1, <3>2
    <3>3. CASE Rank(k, Line(i + 1)) = -1 /\ Rank(k, Line(i + 1))' = 0
      <4>1. i \in 1 .. Len(link) + 1 /\ k \in Ups
        BY <1>0, <1>1, <2>1, <2>3
      <4>2. Rank(k, Line(i)) \in -1 .. NSegs(k) + 2 /\ NSegs(k) \in Nat
        BY <4>1, RankFact
      <4>3. Rank(k, Line(i)) = -1
        BY <2>1, <3>3, <4>2
      <4> QED
        BY <3>1, <3>3, <4>3
    <3> QED
      BY <1>4, <2>3, <3>2, <3>3
  <2> QED
    BY <1>1, <2>2, <2>3
<1>6. KeepsUp'
  <2>1. ASSUME NEW k \in Ups, Clean(k)'
        PROVE  Rank(k, Line(1))' = Rank(k, Line(1))
    <3>1. k \in Ups \ hit' /\ (k > 1 => k - 1 \notin hit')
      BY <2>1 DEF Clean
    <3>2. CASE n = 0
      <4>1. k # cur + 1
        <5> SUFFICES ASSUME k = cur + 1 PROVE FALSE
            OBVIOUS
        <5>1. k > 1 /\ k - 1 = cur
          BY <1>1
        <5> QED
          BY <1>1, <3>1, <5>1
      <4>2. n + 1 = 1
        BY <3>2
      <4> QED
        BY <1>4, <3>1, <4>1, <4>2
    <3>3. CASE n # 0
      <4>1. 1 \in 1 .. n
        BY <1>1, <3>3
      <4> QED
        BY <1>3, <4>1 DEF Rank
    <3> QED
      BY <3>2, <3>3
  <2> QED
    BY <1>1, <2>1, KeepsUpOnLine DEF Quit
<1> QED
  BY <1>2, <1>5, <1>6

LEMMA DuplicateStep ==
  ASSUME UTypeOK, InOneStride, KeepsUp, Duplicate
  PROVE  UTypeOK' /\ InOneStride' /\ KeepsUp'
<1> DEFINE n == Len(link)
           Sendable == {d \in Command : d.part <= NSegs(d.up) + 1}
<1>1. PICK i \in 1 .. n : link' = InsertAt(link, i, link[i])
  BY DEF Duplicate, UTypeOK
<1>2. link \in Seq(Sendable) /\ n \in Nat /\ link[i] \in Sendable
  BY ElementOfSeq DEF UTypeOK
<1>3. /\ link' \in Seq(Sendable) /\ Len(link') = n + 1
      /\ \A j \in 1 .. n + 1 :
           link'[j] = IF j < i THEN link[j] ELSE IF j = i THEN link[i] ELSE link[j - 1]
  <2> HIDE DEF Sendable
  <2>1. PICK e : e = link[i]
    OBVIOUS
  <2>2. link \in Seq(Sendable) /\ i \in 1 .. Len(link) /\ e \in Sendable
    BY <1>1, <1>2, <2>1
  <2>3. /\ InsertAt(link, i, e) \in Seq(Sendable)
        /\ Len(InsertAt(link, i, e)) = Len(link) + 1
        /\ \A j \in 1 .. Len(link) + 1 :
             InsertAt(link, i, e)[j] = IF j < i THEN link[j]
                                       ELSE IF j = i THEN e ELSE link[j - 1]
    BY <2>2, InsertAtFact
  <2> QED
    BY <1>1, <2>1, <2>3
<1>4. \A j \in 1 .. n + 2 : Line(j)' = IF j <= i THEN Line(j) ELSE Line(j - 1)
  BY <1>1, <1>2, <1>3 DEF Line, Duplicate, gnd
<1>5. UTypeOK'
  BY <1>3 DEF UTypeOK, Duplicate, gnd
<1>6. InOneStride'
  <2> SUFFICES ASSUME NEW k \in Ups \ hit', NEW j \in 1 .. Len(link')
               PROVE  (Rank(k, Line(j + 1)) \in {Rank(k, Line(j)), Rank(k, Line(j)) + 1})'
    BY DEF InOneStride
  <2>1. k \in Ups \ hit /\ j \in 1 .. n + 1
    BY <1>3 DEF Duplicate
  <2>2. CASE j < i
    <3>1. Line(j)' = Line(j) /\ Line(j + 1)' = Line(j + 1) /\ j \in 1 .. n
      BY <1>1, <1>2, <1>4, <2>1, <2>2
    <3> QED
      BY <2>1, <3>1 DEF Rank, InOneStride
  <2>3. CASE j = i
    <3>1. Line(j)' = Line(i) /\ Line(j + 1)' = Line(i)
      BY <1>1, <1>2, <1>4, <2>1, <2>3
    <3> QED
      BY <3>1 DEF Rank
  <2>4. CASE j > i
    <3>1. /\ j - 1 \in 1 .. n /\ (j - 1) + 1 = j /\ (j + 1) - 1 = j
          /\ j + 1 \in 1 .. n + 2 /\ j \in 1 .. n + 2
          /\ ~(j <= i) /\ ~(j + 1 <= i)
      BY <1>1, <1>2, <2>1, <2>4
    <3>2. Line(j)' = Line(j - 1) /\ Line(j + 1)' = Line(j)
      BY <1>4, <3>1
    <3>3. Rank(k, Line(j)) \in {Rank(k, Line(j - 1)), Rank(k, Line(j - 1)) + 1}
      BY <2>1, <3>1 DEF InOneStride
    <3> QED
      BY <3>2, <3>3 DEF Rank
  <2> QED
    BY <1>2, <2>1, <2>2, <2>3, <2>4
<1>7. KeepsUp'
  <2>1. Line(1)' = Line(1)
    BY <1>1, <1>2, <1>4
  <2>2. \A k \in Ups : Rank(k, Line(1))' = Rank(k, Line(1))
    BY <2>1 DEF Rank
  <2> QED
    BY <2>2, KeepsUpOnLine DEF Duplicate
<1> QED
  BY <1>5, <1>6, <1>7

LEMMA LoseStep ==
  ASSUME UTypeOK, InOneStride, KeepsUp, Lose
  PROVE  UTypeOK' /\ InOneStride' /\ KeepsUp'
<1> DEFINE n == Len(link)
           Sendable == {d \in Command : d.part <= NSegs(d.up) + 1}
<1>1. PICK i \in 1 .. n : link' = RemoveAt(link, i) /\ hit' = hit \cup {link[i].up}
  BY DEF Lose, UTypeOK
<1>2. /\ link \in Seq(Sendable) /\ n \in Nat
      /\ Line(i) = link[i] /\ link[i].up \in Ups
  BY LinkFact DEF UTypeOK
<1>3. /\ link' \in Seq(Sendable) /\ Len(link') = n - 1
      /\ \A j \in 1 .. n - 1 : link'[j] = IF j < i THEN link[j] ELSE link[j + 1]
  <2> HIDE DEF Sendable, n
  <2> QED
    BY <1>1, <1>2, RemoveAtFact DEF n
<1>4. \A j \in 1 .. n : Line(j)' = IF j < i THEN Line(j) ELSE Line(j + 1)
  BY <1>1, <1>2, <1>3 DEF Line, Lose, gnd
<1>5. UTypeOK'
  BY <1>3 DEF UTypeOK, Lose, gnd
<1>6. InOneStride'
  <2> SUFFICES ASSUME NEW k \in Ups \ hit', NEW j \in 1 .. Len(link')
               PROVE  (Rank(k, Line(j + 1)) \in {Rank(k, Line(j)), Rank(k, Line(j)) + 1})'
    BY DEF InOneStride
  <2>1. /\ k \in Ups \ hit /\ Line(i).up # k
        /\ j \in 1 .. n - 1 /\ j \in 1 .. n /\ j + 1 \in 1 .. n
    BY <1>1, <1>2, <1>3
  <2>2. CASE j + 1 < i
    <3>1. Line(j)' = Line(j) /\ Line(j + 1)' = Line(j + 1)
      BY <1>1, <1>2, <1>4, <2>1, <2>2
    <3> QED
      BY <2>1, <3>1 DEF Rank, InOneStride
  <2>3. CASE j + 1 = i
    <3>1. Line(j)' = Line(i - 1) /\ Line(j + 1)' = Line(i + 1) /\ i \in 2 .. n
      BY <1>1, <1>2, <1>4, <2>1, <2>3
    <3> QED
      BY <2>1, <3>1, StrideOverGap DEF Rank
  <2>4. CASE j >= i
    <3>1. Line(j)' = Line(j + 1) /\ Line(j + 1)' = Line((j + 1) + 1)
      BY <1>1, <1>2, <1>4, <2>1, <2>4
    <3>2. Rank(k, Line((j + 1) + 1)) \in {Rank(k, Line(j + 1)), Rank(k, Line(j + 1)) + 1}
      BY <2>1 DEF InOneStride
    <3> QED
      BY <3>1, <3>2 DEF Rank
  <2>5. j + 1 < i \/ j + 1 = i \/ j >= i
    BY <1>1, <1>2, <2>1
  <2> QED
    BY <2>2, <2>3, <2>4, <2>5
<1>7. KeepsUp'
  <2>1. ASSUME NEW k \in Ups, Clean(k)'
        PROVE  Rank(k, Line(1))' = Rank(k, Line(1))
    <3>1. Clean(k) /\ k \in Ups \ hit /\ Line(i).up # k /\ NSegs(k) \in Nat
      BY <1>1, <1>2, <2>1, UpFact DEF Clean
    <3>2. CASE i # 1
      <4>1. Line(1)' = Line(1)
        BY <1>1, <1>2, <1>4, <3>2
      <4> QED
        BY <4>1 DEF Rank
    <3>3. CASE i = 1
      <4>1. Line(1)' = Line(2) /\ 1 \in 1 .. n + 1 /\ 2 \in 1 .. n + 1 /\ link # <<>>
        BY <1>1, <1>2, <1>4, <3>3
      <4>2. \/ Rank(k, Line(1)) = -1
            \/ Rank(k, Line(1)) = NSegs(k) + 2
        <5>1. Line(1).up < k \/ Line(1).up > k
          BY <3>1, <3>3, <4>1, RankFact, UpFact
        <5> QED
          BY <4>1, <5>1, RankFact
      <4>3. CASE Rank(k, Line(1)) = -1
        <5>1. ~(k - 1 \in Ups \ hit' /\ Line(1).up = k - 1)
          BY <1>1, <1>2, <3>3
        <5>2. k > 1 => k - 1 \notin hit'
          BY <2>1 DEF Clean
        <5>3. Rank(k, Line(2)) = -1
          <6> SUFFICES ASSUME Rank(k, Line(2)) # -1 PROVE FALSE
              OBVIOUS
          <6>1. k - 1 \in Ups /\ Line(1).up = k - 1
            BY <3>1, <4>1, <4>3, BeforeClean
          <6>2. k > 1
            BY <6>1, UpFact
          <6> QED
            BY <5>1, <5>2, <6>1, <6>2
        <5> QED
          BY <4>1, <4>3, <5>3 DEF Rank
      <4>4. CASE Rank(k, Line(1)) = NSegs(k) + 2
        <5>1. Rank(k, Line(2)) \in {Rank(k, Line(1)), Rank(k, Line(1)) + 1}
          <6>1. 1 \in 1 .. n /\ 1 + 1 = 2
            BY <1>1, <1>2, <3>3
          <6> QED
            BY <3>1, <6>1 DEF InOneStride
        <5>2. Rank(k, Line(2)) \in -1 .. NSegs(k) + 2
          BY <4>1, RankFact
        <5>3. Rank(k, Line(2)) = NSegs(k) + 2
          BY <3>1, <4>4, <5>1, <5>2
        <5> QED
          BY <4>1, <4>4, <5>3 DEF Rank
      <4> QED
        BY <4>2, <4>3, <4>4
    <3> QED
      BY <3>2, <3>3
  <2>2. hit \subseteq hit'
    BY <1>1
  <2> QED
    BY <2>1, <2>2, KeepsUpOnLine DEF Lose
<1> QED
  BY <1>5, <1>6, <1>7

\* Two commands that are swapped belong to no untouched upload and lie on the
\* same side of each.
LEMMA SwapStep ==
  ASSUME UTypeOK, InOneStride, KeepsUp, Swap
  PROVE  UTypeOK' /\ InOneStride' /\ KeepsUp'
<1> DEFINE n == Len(link)
           Sendable == {d \in Command : d.part <= NSegs(d.up) + 1}
<1>1. PICK i \in 1 .. n - 1 :
        /\ link' = [link EXCEPT ![i] = link[i + 1], ![i + 1] = link[i]]
        /\ hit' = hit \cup {link[i].up, link[i + 1].up}
  BY DEF Swap
<1>2. /\ link \in Seq(Sendable) /\ n \in Nat
      /\ i \in 1 .. n /\ i + 1 \in 1 .. n
      /\ link[i] \in Sendable /\ link[i + 1] \in Sendable
  BY ElementOfSeq DEF UTypeOK
<1>3. /\ link' \in Seq(Sendable) /\ Len(link') = n
      /\ \A j \in 1 .. n : link'[j] = IF j = i THEN link[i + 1]
                                     ELSE IF j = i + 1 THEN link[i] ELSE link[j]
  <2> HIDE DEF Sendable, n
  <2>1. link \in [1 .. n -> Sendable] /\ link' \in [1 .. n -> Sendable]
    BY <1>1, <1>2 DEF n
  <2> QED
    BY <1>1, <1>2, <2>1 DEF n
<1>4. \A j \in 1 .. n + 1 : Line(j)' = IF j = i THEN Line(i + 1)
                                       ELSE IF j = i + 1 THEN Line(i) ELSE Line(j)
  BY <1>1, <1>2, <1>3 DEF Line, Swap, gnd
<1>5. UTypeOK'
  BY <1>3 DEF UTypeOK, Swap, gnd
<1>6. ASSUME NEW k \in Ups \ hit', NEW j \in 1 .. n + 1
      PROVE  Rank(k, Line(j))' = Rank(k, Line(j))
  <2>1. Line(i).up # k /\ Line(i + 1).up # k /\ k \in Ups \ hit
    BY <1>1, <1>2, LinkFact
  <2>2. i \in 1 .. n + 1 /\ i + 1 \in 1 .. n + 1 /\ NSegs(k) \in Nat
    BY <1>2, UpFact
  <2>3. /\ Rank(k, Line(i)) \in {-1, NSegs(k) + 2}
        /\ Rank(k, Line(i + 1)) \in {-1, NSegs(k) + 2}
    <3>1. /\ Line(i).up < k \/ Line(i).up > k
          /\ Line(i + 1).up < k \/ Line(i + 1).up > k
      <4>1. Line(i).up \in Nat /\ Line(i + 1).up \in Nat
        BY <2>1, <2>2, RankFact
      <4>2. k \in Nat
        BY <2>1, UpFact
      <4> QED
        BY <2>1, <4>1, <4>2
    <3> QED
      BY <2>2, <3>1, RankFact
  <2>4. Rank(k, Line(i + 1)) \in {Rank(k, Line(i)), Rank(k, Line(i)) + 1}
    BY <1>2, <2>1 DEF InOneStride
  <2>5. Rank(k, Line(i)) = Rank(k, Line(i + 1))
    BY <2>2, <2>3, <2>4
  <2>6. \/ Line(j)' = Line(j)
        \/ j = i /\ Line(j)' = Line(i + 1)
        \/ j = i + 1 /\ Line(j)' = Line(i)
    BY <1>4
  <2> QED
    BY <2>5, <2>6 DEF Rank
<1>7. InOneStride'
  <2> SUFFICES ASSUME NEW k \in Ups \ hit', NEW j \in 1 .. Len(link')
               PROVE  (Rank(k, Line(j + 1)) \in {Rank(k, Line(j)), Rank(k, Line(j)) + 1})'
    BY DEF InOneStride
  <2>1. k \in Ups \ hit /\ j \in 1 .. n /\ j \in 1 .. n + 1 /\ j + 1 \in 1 .. n + 1
    BY <1>1, <1>2, <1>3
  <2>2. Rank(k, Line(j))' = Rank(k, Line(j)) /\ Rank(k, Line(j + 1))' = Rank(k, Line(j + 1))
    BY <1>6, <2>1
  <2> QED
    BY <2>1, <2>2 DEF InOneStride
<1>8. KeepsUp'
  <2>1. 1 \in 1 .. n + 1 /\ hit \subseteq hit'
    BY <1>1, <1>2
  <2>2. \A k \in Ups : Clean(k)' => Rank(k, Line(1))' = Rank(k, Line(1))
    BY <1>6, <2>1 DEF Clean
  <2> QED
    BY <2>1, <2>2, KeepsUpOnLine DEF Swap
<1> QED
  BY <1>5, <1>7, <1>8

LEMMA DeliverStep ==
  ASSUME IInv, UTypeOK, InOneStride, KeepsUp, Deliver
  PROVE  UTypeOK' /\ InOneStride' /\ KeepsUp'
<1> DEFINE n == Len(link)
           Sendable == {d \in Command : d.part <= NSegs(d.up) + 1}
<1>1. /\ link \in Seq(Sendable) /\ link # <<>> /\ link' = Tail(link)
      /\ UNCHANGED gnd /\ hit \subseteq hit'
  BY DEF UTypeOK, Deliver, DeliverStart, DeliverSegment, DeliverFinish
<1>2. /\ n \in Nat \ {0} /\ link' \in Seq(Sendable) /\ Len(link') = n - 1
      /\ \A j \in 1 .. n - 1 : link'[j] = link[j + 1]
      /\ Head(link) = link[1]
  <2> HIDE DEF Sendable, n
  <2> QED
    BY <1>1, HeadTailProperties, EmptySeq DEF n
<1>3. \A j \in 1 .. n : Line(j)' = Line(j + 1)
  BY <1>1, <1>2 DEF Line, gnd
<1>4. UTypeOK'
  BY <1>1, <1>2 DEF UTypeOK, gnd
<1>5. InOneStride'
  <2> SUFFICES ASSUME NEW k \in Ups \ hit', NEW j \in 1 .. Len(link')
               PROVE  (Rank(k, Line(j + 1)) \in {Rank(k, Line(j)), Rank(k, Line(j)) + 1})'
    BY DEF InOneStride
  <2>1. k \in Ups \ hit /\ j \in 1 .. n /\ j + 1 \in 1 .. n
    BY <1>1, <1>2
  <2>2. Line(j)' = Line(j + 1) /\ Line(j + 1)' = Line((j + 1) + 1)
    BY <1>3, <2>1
  <2>3. Rank(k, Line((j + 1) + 1)) \in {Rank(k, Line(j + 1)), Rank(k, Line(j + 1)) + 1}
    BY <2>1 DEF InOneStride
  <2> QED
    BY <2>2, <2>3 DEF Rank
<1>6. KeepsUp'
  <2> SUFFICES ASSUME NEW k \in Ups, Clean(k)'
               PROVE  Ready(k, Rank(k, Line(1)))'
    BY DEF KeepsUp
  <2>1. /\ Clean(k) /\ k \in Ups \ hit /\ k \notin hit' /\ NSegs(k) \in Nat
        /\ k \in 1 .. Len(Uploads)
    BY <1>1, UpFact DEF Clean
  <2>2. PICK r : r = Rank(k, Line(1))
    OBVIOUS
  <2>3. PICK s : s = Rank(k, Line(2))
    OBVIOUS
  <2>4. /\ Line(1)' = Line(2) /\ 1 \in 1 .. n + 1 /\ 2 \in 1 .. n + 1 /\ 1 \in 1 .. n
        /\ 1 + 1 = 2 /\ Line(1) = Head(link)
    BY <1>2, <1>3, LinkFact
  <2>5. s = Rank(k, Line(1))'
    BY <2>3, <2>4 DEF Rank
  <2>6. /\ s \in {r, r + 1}
        /\ r \in -1 .. NSegs(k) + 2 /\ s \in -1 .. NSegs(k) + 2
    BY <2>1, <2>2, <2>3, <2>4, RankFact DEF InOneStride
  <2>7. Ready(k, r)
    BY <2>1, <2>2 DEF KeepsUp
  <2>8. r \in 0 .. NSegs(k) + 1 => Head(link).up = k /\ Head(link).part = r
    <3> SUFFICES ASSUME r \in 0 .. NSegs(k) + 1 PROVE Head(link).up = k /\ Head(link).part = r
        OBVIOUS
    <3>1. ~(Line(1).up < k) /\ ~(Line(1).up > k)
      BY <2>1, <2>2, <2>4, RankFact
    <3>2. Line(1).up = k
      BY <2>1, <2>4, <3>1, RankFact
    <3> QED
      BY <2>2, <2>4, <3>2, RankFact
  <2>9. Arrived(k) => Arrived(k)'
    BY DEF Arrived, Deliver, DeliverStart, DeliverSegment, DeliverFinish
  <2>10. CASE r = -1
    <3>1. CASE s = -1
      BY <2>5, <3>1 DEF Ready
    <3>2. CASE s # -1
      <4>1. /\ k - 1 \in Ups /\ Head(link).up = k - 1
            /\ Head(link).part = NSegs(k - 1) + 1 /\ s = 0
        BY <1>1, <2>1, <2>2, <2>3, <2>4, <2>10, <3>2, BeforeClean
      <4>2. NSegs(k - 1) \in Nat
        BY <4>1, UpFact
      <4>3. DeliverFinish(k - 1)
        BY <4>1, <4>2, DeliverCases
      <4>4. ~fileTransferActive'
        BY <4>1, <4>3, FinishEnds
      <4> QED
        BY <2>5, <4>1, <4>4 DEF Ready
    <3> QED
      BY <2>5, <3>1, <3>2 DEF Ready
  <2>11. CASE r = 0
    <3>1. DeliverStart(k)
      BY <2>1, <2>8, <2>11, DeliverCases
    <3>2. ~fileTransferActive \/ Took(k, 0)
      BY <2>1, <2>7, <2>11 DEF Ready
    <3>3. Took(k, 0)'
      BY <2>1, <3>1, <3>2, TakesStart
    <3>4. s = 0 \/ (s = 1 /\ NSegs(k) >= 1) \/ (s = 1 /\ NSegs(k) = 0)
      BY <2>1, <2>6, <2>11
    <3> QED
      BY <2>1, <2>5, <3>3, <3>4 DEF Ready
  <2>12. CASE r \in 1 .. NSegs(k)
    <3>1. DeliverSegment(k, r)
      BY <2>1, <2>8, <2>12, DeliverCases
    <3>2. Took(k, r - 1) \/ Took(k, r)
      BY <2>1, <2>7, <2>12 DEF Ready
    <3>3. Took(k, r)'
      BY <2>1, <2>12, <3>1, <3>2, TakesSegment
    <3>4. \/ s = r
          \/ s \in 1 .. NSegs(k) /\ s - 1 = r
          \/ s = NSegs(k) + 1 /\ r = NSegs(k)
      BY <2>1, <2>6, <2>12
    <3> QED
      BY <2>5, <2>12, <3>3, <3>4 DEF Ready
  <2>13. CASE r = NSegs(k) + 1
    <3>1. DeliverFinish(k)
      BY <2>1, <2>8, <2>13, DeliverCases
    <3>2. Took(k, NSegs(k)) \/ Arrived(k)
      BY <2>1, <2>7, <2>13 DEF Ready
    <3>3. Arrived(k)'
      BY <3>1, <3>2, TakesFinish
    <3>4. s = NSegs(k) + 1 \/ s = NSegs(k) + 2
      BY <2>1, <2>6, <2>13
    <3> QED
      BY <2>5, <3>3, <3>4 DEF Ready
  <2>14. CASE r = NSegs(k) + 2
    <3>1. Arrived(k) /\ s = NSegs(k) + 2
      BY <2>1, <2>6, <2>7, <2>14 DEF Ready
    <3> QED
      BY <2>5, <2>9, <3>1 DEF Ready
  <2> QED
    BY <2>1, <2>6, <2>10, <2>11, <2>12, <2>13, <2>14
<1> QED
  BY <1>4, <1>5, <1>6

-----------------------------------------------------------------------------
(* The theorems.                                                           *)

LEMMA UInvInit == UInit => UInv
<1> SUFFICES ASSUME UInit PROVE UInv
    OBVIOUS
<1>1. IInv
  BY InitIInv DEF UInit
<1>2. Len(Uploads) \in Nat /\ \A k \in Ups : NSegs(k) \in Nat /\ k \in 1 .. Len(Uploads)
  BY UploadsAssumption, UpFact
<1>3. link = <<>> /\ cur = 1 /\ next = 0 /\ ~fileTransferActive
  BY DEF UInit, Init
<1>4. UTypeOK
  BY <1>2, <1>3, EmptySeq DEF UTypeOK
<1>5. InOneStride
  BY <1>3 DEF InOneStride
<1>6. KeepsUp
  <2> SUFFICES ASSUME NEW k \in Ups PROVE Ready(k, Rank(k, Line(1)))
    BY DEF KeepsUp
  <2>1. Line(1) = [up |-> 1, part |-> 0]
    BY <1>3, LinkFact, <1>4
  <2>2. Rank(k, Line(1)) = -1 \/ Rank(k, Line(1)) = 0
    BY <1>2, <2>1 DEF Rank
  <2> QED
    BY <1>3, <2>2 DEF Ready
<1> QED
  BY <1>1, <1>4, <1>5, <1>6 DEF UInv

LEMMA UInvStep == UInv /\ [UNext]_uvars => UInv'
<1> SUFFICES ASSUME UInv, [UNext]_uvars PROVE UInv'
    OBVIOUS
<1>1. IInv /\ UTypeOK /\ InOneStride /\ KeepsUp
  BY DEF UInv
<1>2. IInv'
  BY <1>1, UplinkStep, NextIInv
<1>4. UTypeOK' /\ InOneStride' /\ KeepsUp'
  <2>1. CASE UNCHANGED uvars
    <3>1. UTypeOK' /\ InOneStride'
      BY <1>1, <2>1 DEF uvars, gnd, UTypeOK, InOneStride, Line
    <3>2. \A k \in Ups : Rank(k, Line(1))' = Rank(k, Line(1))
      BY <2>1 DEF uvars, gnd, Line, Rank
    <3> QED
      BY <1>1, <2>1, <3>1, <3>2, KeepsUpOnLine DEF uvars
  <2> QED
    BY <1>1, <2>1, SendStep, QuitStep, LoseStep, DuplicateStep, SwapStep, DeliverStep DEF UNext
<1> QED
  BY <1>2, <1>4 DEF UInv

\* Once the ground and the link are done with an untouched upload the line has
\* passed it: it cannot step over an upload.
LEMMA OverIsBehind ==
  ASSUME UTypeOK, InOneStride, NEW k \in Ups \ hit, Over(k)
  PROVE  Rank(k, Line(1)) = NSegs(k) + 2
<1> DEFINE n == Len(link)
           T == {i \in 1 .. n + 1 : Rank(k, Line(i)) # -1}
<1>1. /\ n \in Nat /\ NSegs(k) \in Nat /\ k \in Ups /\ k \in Nat
      /\ cur \in Nat /\ cur > k
      /\ \A i \in 1 .. n : Line(i).up # k
      /\ Line(n + 1).up = cur
  <2>1. n \in Nat /\ (\A i \in 1 .. n : Line(i) = link[i]) /\ Line(n + 1).up = cur
    BY LinkFact
  <2>2. NSegs(k) \in Nat /\ k \in Nat /\ cur \in Nat
    BY UpFact DEF UTypeOK
  <2>3. cur > k /\ \A i \in 1 .. n : link[i].up # k
    BY DEF Over, UTypeOK
  <2> QED
    BY <2>1, <2>2, <2>3
<1>2. \A i \in 1 .. n + 1 :
        Line(i).up # k /\ Rank(k, Line(i)) \in {-1, NSegs(k) + 2}
  <2> SUFFICES ASSUME NEW i \in 1 .. n + 1
               PROVE  Line(i).up # k /\ Rank(k, Line(i)) \in {-1, NSegs(k) + 2}
      OBVIOUS
  <2>1. Line(i).up # k
    BY <1>1
  <2>2. Line(i).up < k \/ Line(i).up > k
    BY <1>1, <2>1, RankFact
  <2> QED
    BY <1>1, <2>1, <2>2, RankFact
<1>3. n + 1 \in T
  BY <1>1, RankFact
<1>4. PICK i \in T : \A j \in T : i <= j
  <2>1. T \in SUBSET Nat /\ T # {}
    BY <1>1, <1>3
  <2> HIDE DEF T
  <2> QED
    BY <2>1, NatMin
<1>5. i = 1
  <2> SUFFICES ASSUME i # 1 PROVE FALSE
      OBVIOUS
  <2>1. i - 1 \in 1 .. n /\ i - 1 \in 1 .. n + 1 /\ (i - 1) + 1 = i /\ i \in 1 .. n + 1
    BY <1>1
  <2>2. i - 1 \notin T
    <3>1. ~(i <= i - 1)
      BY <2>1
    <3> HIDE DEF T
    <3> QED
      BY <1>4, <3>1
  <2>3. Rank(k, Line(i - 1)) = -1
    BY <2>1, <2>2
  <2>4. Rank(k, Line(i)) \in {Rank(k, Line(i - 1)), Rank(k, Line(i - 1)) + 1}
    BY <1>1, <2>1 DEF InOneStride
  <2>5. Rank(k, Line(i)) = NSegs(k) + 2
    BY <1>2
  <2> QED
    BY <1>1, <2>3, <2>4, <2>5
<1> QED
  BY <1>2, <1>5

\* The inductive invariant of uploading holds in every reachable state, for any
\* uploads and any faults of the link (filebrowser.py with fitp.c).
THEOREM UplinkInvariance == USpec => []UInv
<1> QED
  BY UInvInit, UInvStep, PTL DEF USpec

\* Whatever the ground and the link do, FITP behaves as Fitp says: its theorems
\* hold of every upload.
THEOREM UplinkRefinesFitp == USpec => Spec
<1>1. UInit => Init
  BY DEF UInit
<1>2. UInv /\ [UNext]_uvars => [Next]_vars
  BY UplinkStep DEF UInv
<1> QED
  BY <1>1, <1>2, UplinkInvariance, PTL DEF USpec, Spec

\* An upload that no fault touched, after one no fault touched, arrives whole
\* under its own name, as its segments bring it, text or binary.
THEOREM UploadCorrect == USpec => []UploadSafe
<1>1. UInv => UploadSafe
  <2> SUFFICES ASSUME UInv, NEW k \in Ups, Over(k), Clean(k)
               PROVE  Arrived(k)
    BY DEF UploadSafe
  <2>1. UTypeOK /\ InOneStride /\ k \in Ups \ hit /\ NSegs(k) \in Nat
    BY UpFact DEF UInv, Clean
  <2>2. PICK r : r = Rank(k, Line(1))
    OBVIOUS
  <2>3. Ready(k, r)
    BY <2>2 DEF UInv, KeepsUp
  <2>4. r = NSegs(k) + 2
    BY <2>1, <2>2, OverIsBehind
  <2> QED
    BY <2>1, <2>3, <2>4 DEF Ready
<1> QED
  BY <1>1, UplinkInvariance, PTL
====
