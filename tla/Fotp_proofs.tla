----------------------------- MODULE Fotp_proofs -----------------------------
(***************************************************************************)
(* Proofs about Fotp and FileDownlink for every choice of their constants  *)
(* and an operator who keeps the order (AnyOrder = FALSE): the state of a  *)
(* transfer agrees with its file, the packets are the beginning of the     *)
(* file's transcript, a transfer is counted only when its transcript is    *)
(* complete; a download is a behaviour of Fotp, and what a finish packet   *)
(* closes on the ground is the flight file.  The inductive invariants are  *)
(* IInv of Fotp and DInv of FileDownlink.                                  *)
(***************************************************************************)
EXTENDS FileDownlink, SequenceTheorems, TLAPS

-----------------------------------------------------------------------------
(* The transcript of a file.                                               *)

\* It is a start packet, the segments from the offset on, a finish packet.
LEMMA TranscriptFact ==
  ASSUME NEW f \in Names, NEW off \in Nat, off < Len(Content[f])
  PROVE  LET n == Len(Content[f]) - off
             t == Transcript(f, off)
         IN  /\ n \in Nat \ {0}
             /\ Len(t) = n + 2 /\ DOMAIN t = 1 .. n + 2
             /\ t[1] = [kind |-> "start", len |-> n]
             /\ t[n + 2] = [kind |-> "finish", len |-> n + off, crc |-> Content[f], last |-> n]
             /\ \A i \in 1 .. n :
                  t[i + 1] = [kind |-> "data", id |-> i, blk |-> Content[f][off + i]]
<1> DEFINE n == Len(Content[f]) - off
           t == Transcript(f, off)
           S == {t[i] : i \in 1 .. n + 2}
<1>1. Content[f] \in Seq(Blocks) /\ n \in Nat \ {0}
  BY ContentAssumption
<1>2. DOMAIN t = 1 .. n + 2
  BY DEF Transcript
<1>3. Len(t) = n + 2
  <2>1. t \in [1 .. n + 2 -> S]
    BY <1>2 DEF Transcript
  <2>2. t \in Seq(S)
    <3>1. n + 2 \in Nat
      BY <1>1
    <3>2. ASSUME NEW m \in Nat, t \in [1 .. m -> S] PROVE t \in Seq(S)
      <4> HIDE DEF t, S
      <4> QED BY <3>2
    <3> QED
      BY <2>1, <3>1, <3>2
  <2>3. DOMAIN t = 1 .. Len(t) /\ Len(t) \in Nat
    BY <2>2, LenProperties
  <2> QED
    BY <1>1, <1>2, <2>3
<1>4. /\ t[1] = [kind |-> "start", len |-> n]
      /\ t[n + 2] = [kind |-> "finish", len |-> n + off, crc |-> Content[f], last |-> n]
  BY <1>1 DEF Transcript
<1>5. ASSUME NEW i \in 1 .. n
      PROVE  t[i + 1] = [kind |-> "data", id |-> i, blk |-> Content[f][off + i]]
  <2>1. /\ i + 1 \in 1 .. n + 2 /\ i + 1 # 1 /\ i + 1 # n + 2
        /\ (i + 1) - 1 = i /\ off + (i + 1) - 1 = off + i
    BY <1>1
  <2>2. t[i + 1] = [kind |-> "data", id |-> (i + 1) - 1, blk |-> Content[f][off + (i + 1) - 1]]
    BY <2>1 DEF Transcript
  <2> HIDE DEF n, t
  <2> QED
    BY <2>1, <2>2
<1> QED
  BY <1>1, <1>2, <1>3, <1>4, <1>5

\* A packet that continues the transcript keeps the packets in order.
LEMMA OneMorePacket ==
  ASSUME NEW p \in Packets, NEW t, out \in Seq(Packets),
         \A i \in DOMAIN out : Plain(out[i]) = t[i],
         Plain(p) = t[Len(out) + 1], Sent(p)
  PROVE  /\ out' \in Seq(Packets) /\ Len(out') = Len(out) + 1
         /\ \A i \in DOMAIN out' : Plain(out'[i]) = t[i]
<1>1. out' = Append(out, p)
  BY DEF Sent
<1>2. /\ out' \in Seq(Packets) /\ Len(out') = Len(out) + 1
      /\ DOMAIN out' = 1 .. Len(out) + 1 /\ DOMAIN out = 1 .. Len(out)
      /\ Len(out) \in Nat
  BY <1>1
<1>3. ASSUME NEW i \in 1 .. Len(out) + 1
      PROVE  Plain(out'[i]) = t[i]
  <2>1. CASE i = Len(out) + 1
    BY <1>1, <2>1
  <2>2. CASE i # Len(out) + 1
    <3>1. i \in DOMAIN out /\ out'[i] = out[i]
      BY <1>1, <1>2, <2>2
    <3> QED
      BY <3>1
  <2> QED
    BY <2>1, <2>2
<1> QED
  BY <1>2, <1>3

\* The first blocks of a file, and one more.
LEMMA PrefixFact ==
  ASSUME NEW f \in Names, NEW n \in 0 .. Len(Content[f])
  PROVE  /\ SubSeq(Content[f], 1, n) \in Seq(Blocks)
         /\ n < Len(Content[f]) =>
              /\ Content[f][n + 1] \in Blocks
              /\ Append(SubSeq(Content[f], 1, n), Content[f][n + 1])
                   = SubSeq(Content[f], 1, n + 1)
         /\ SubSeq(Content[f], 1, Len(Content[f])) = Content[f]
<1> DEFINE c == Content[f]
<1>1. c \in Seq(Blocks) /\ Len(c) \in Nat
  BY ContentAssumption
<1>2. SubSeq(c, 1, n) \in Seq(Blocks)
  BY <1>1
<1>3. ASSUME n < Len(c)
      PROVE  c[n + 1] \in Blocks /\ Append(SubSeq(c, 1, n), c[n + 1]) = SubSeq(c, 1, n + 1)
  BY <1>1, <1>3
<1>4. SubSeq(c, 1, Len(c)) = c
  BY <1>1, SubSeqFull
<1> QED
  BY <1>2, <1>3, <1>4

LEMMA WrapIncFact ==
  ASSUME NEW max \in Nat, NEW n \in 0 .. max
  PROVE  WrapInc(n, max) \in 0 .. max /\ (n < max => WrapInc(n, max) = n + 1)
BY DEF WrapInc

-----------------------------------------------------------------------------
(* Initial states.                                                         *)
LEMMA InitIInv == Init => IInv
<1> SUFFICES ASSUME Init PROVE IInv
    OBVIOUS
<1> USE DEF Init
<1>1. TypeOK
  <2>1. binFile \in BOOLEAN /\ lastSegment \in BOOLEAN /\ sendFailed \in BOOLEAN
    OBVIOUS
  <2>2. runningCrc \in Seq(Blocks)
    OBVIOUS
  <2>3. nextId \in 0 .. IdMax /\ transferCnt \in 0 .. CntMax
    BY BoundsAssumption
  <2> QED
    BY <2>1, <2>2, <2>3 DEF TypeOK, States
<1>2. Phase = "IDLE" /\ out \in Seq(Packets)
  BY DEF Phase
<1>3. HandleFollowsPhase /\ ReadAheadByOne /\ PhaseOK /\ TranscriptInOrder
  BY <1>2 DEF HandleFollowsPhase, ReadAheadByOne, PhaseOK, TranscriptInOrder
<1> QED
  BY <1>1, <1>3 DEF IInv, StateOK

-----------------------------------------------------------------------------
(* Steps.                                                                  *)

\* What the invariant says of a transfer that is idle: nothing is open.
LEMMA IdleStep ==
  ASSUME TypeOK', state' = "IDLE", openFiles' = {}, out' \in Seq(Packets)
  PROVE  IInv'
BY DEF IInv, StateOK, HandleFollowsPhase, ReadAheadByOne, PhaseOK, TranscriptInOrder, Phase

\* A step that keeps the phase and the progress, like a pause or a resume.
LEMMA QuietStep ==
  ASSUME IInv, TypeOK', Phase' = Phase, state' = "PAUSED" => paused' \in Active,
         UNCHANGED <<openFiles, out, progress>>
  PROVE  IInv'
<1>1. FileLen' = FileLen /\ SentCnt' = SentCnt
  BY DEF progress, FileLen, SentCnt
<1>2. HandleFollowsPhase'
  BY DEF IInv, StateOK, HandleFollowsPhase, progress
<1>3. ReadAheadByOne'
  BY <1>1 DEF IInv, StateOK, ReadAheadByOne, progress
<1>4. PhaseOK'
  BY <1>1 DEF IInv, PhaseOK, progress
<1>5. TranscriptInOrder'
  BY DEF IInv, TranscriptInOrder, progress, Transcript
<1> QED
  BY <1>2, <1>3, <1>4, <1>5 DEF IInv, StateOK

\* What the actions of a running transfer read of the invariant.
LEMMA RunningFact ==
  ASSUME IInv, state \in Active
  PROVE  /\ Phase = state /\ srcFilename \in Names
         /\ Content[srcFilename] \in Seq(Blocks)
         /\ FileLen = Len(Content[srcFilename]) /\ FileLen \in Nat /\ FileLen <= IdMax
         /\ offset \in Nat /\ byteCnt \in Nat /\ filePos \in Nat /\ SentCnt \in Nat
         /\ offset < FileLen /\ offset <= byteCnt /\ byteCnt <= FileLen
         /\ nextId = IF SentCnt < IdMax THEN SentCnt + 1 ELSE 0
         /\ openFiles = IF state = "FINISH" THEN {} ELSE {srcFilename}
         /\ out \in Seq(Packets)
         /\ Len(out) = IF state = "START" THEN 0 ELSE SentCnt + 1
         /\ \A i \in DOMAIN out : Plain(out[i]) = Transcript(srcFilename, offset)[i]
<1> USE DEF Active
<1>1. Phase = state /\ Phase # "IDLE"
  BY DEF Phase
<1>2. srcFilename \in Names
  BY <1>1 DEF IInv, PhaseOK
<1>3. /\ Content[srcFilename] \in Seq(Blocks)
      /\ FileLen = Len(Content[srcFilename]) /\ FileLen \in Nat /\ FileLen <= IdMax
  BY <1>2, ContentAssumption, LengthAssumption, NamesAssumption DEF FileLen
<1>4. /\ offset \in Nat /\ byteCnt \in Nat /\ filePos \in Nat
      /\ offset < FileLen /\ offset <= byteCnt /\ byteCnt <= FileLen
      /\ nextId = IF SentCnt < IdMax THEN SentCnt + 1 ELSE 0
      /\ Len(out) = IF state = "START" THEN 0 ELSE SentCnt + 1
      /\ out \in Seq(Packets)
  BY <1>1 DEF IInv, StateOK, TypeOK, PhaseOK
<1>5. SentCnt \in Nat
  BY <1>4, <1>3 DEF SentCnt
<1>6. openFiles = IF state = "FINISH" THEN {} ELSE {srcFilename}
  BY <1>1 DEF IInv, StateOK, HandleFollowsPhase
<1>7. \A i \in DOMAIN out : Plain(out[i]) = Transcript(srcFilename, offset)[i]
  BY <1>1 DEF IInv, TranscriptInOrder
<1> QED
  BY <1>1, <1>2, <1>3, <1>4, <1>5, <1>6, <1>7

\* The packets of FOTP are packets, and the next one of a transfer continues
\* its transcript.
LEMMA PacketFact ==
  ASSUME IInv, state \in Active
  PROVE  LET t == Transcript(srcFilename, offset)
         IN  /\ Len(t) = FileLen - offset + 2 /\ DOMAIN t = 1 .. FileLen - offset + 2
             /\ state = "START" => StartPkt \in Packets /\ Plain(StartPkt) = t[Len(out) + 1]
             /\ state = "SEND_DATA" /\ byteCnt < FileLen =>
                  LET p == SegmentPkt(Content[srcFilename][byteCnt + 1])
                  IN  p \in Packets /\ Plain(p) = t[Len(out) + 1]
             /\ state = "FINISH" => FinishPkt \in Packets /\ Plain(FinishPkt) = t[Len(out) + 1]
<1> DEFINE t == Transcript(srcFilename, offset)
           c == Content[srcFilename]
           n == Len(c) - offset
<1>1. /\ srcFilename \in Names /\ c \in Seq(Blocks)
      /\ FileLen = Len(c) /\ FileLen \in Nat /\ FileLen <= IdMax
      /\ offset \in Nat /\ byteCnt \in Nat /\ SentCnt \in Nat
      /\ offset < FileLen /\ offset <= byteCnt /\ byteCnt <= FileLen
      /\ nextId = IF SentCnt < IdMax THEN SentCnt + 1 ELSE 0
      /\ Len(out) = IF state = "START" THEN 0 ELSE SentCnt + 1
      /\ Phase = state
  BY RunningFact
<1>2. /\ n \in Nat \ {0}
      /\ Len(t) = n + 2 /\ DOMAIN t = 1 .. n + 2
      /\ t[1] = [kind |-> "start", len |-> n]
      /\ t[n + 2] = [kind |-> "finish", len |-> n + offset, crc |-> c, last |-> n]
      /\ \A i \in 1 .. n : t[i + 1] = [kind |-> "data", id |-> i, blk |-> c[offset + i]]
  BY <1>1, TranscriptFact
<1>3. binFile \in BOOLEAN /\ runningCrc \in Seq(Blocks)
  BY DEF IInv, StateOK, TypeOK
<1> HIDE DEF t
<1>4. ASSUME state = "START"
      PROVE  StartPkt \in Packets /\ Plain(StartPkt) = t[Len(out) + 1]
  <2>1. StartPkt = [kind |-> "start", len |-> n, bin |-> binFile]
    BY <1>1 DEF StartPkt
  <2>2. StartPkt \in Packets
    BY <2>1, <1>2, <1>3 DEF Packets
  <2>3. Plain(StartPkt) = [kind |-> "start", len |-> n]
    BY <2>1 DEF Plain
  <2> QED
    BY <1>1, <1>2, <1>4, <2>2, <2>3
<1>5. ASSUME state = "SEND_DATA", byteCnt < FileLen
      PROVE  LET p == SegmentPkt(c[byteCnt + 1])
             IN  p \in Packets /\ Plain(p) = t[Len(out) + 1]
  <2> DEFINE i == SentCnt + 1
             p == SegmentPkt(c[byteCnt + 1])
  <2>1. i \in 1 .. n /\ nextId = i /\ byteCnt + 1 = offset + i /\ Len(out) = i
    BY <1>1, <1>5, BoundsAssumption DEF SentCnt
  <2>2. p = [kind |-> "data", id |-> i, blk |-> c[offset + i], bin |-> binFile]
    BY <2>1 DEF SegmentPkt
  <2>3. c[offset + i] \in Blocks
    BY <1>1, <2>1
  <2>4. p \in Packets
    BY <2>1, <2>2, <2>3, <1>3 DEF Packets
  <2>5. Plain(p) = [kind |-> "data", id |-> i, blk |-> c[offset + i]]
    BY <2>2 DEF Plain
  <2> QED
    BY <1>2, <2>1, <2>4, <2>5
<1>6. ASSUME state = "FINISH"
      PROVE  FinishPkt \in Packets /\ Plain(FinishPkt) = t[Len(out) + 1]
  <2>1. byteCnt = FileLen /\ ~sendFailed /\ filePos = byteCnt
        /\ runningCrc = SubSeq(c, 1, filePos)
    BY <1>1, <1>6 DEF IInv, StateOK, ReadAheadByOne, PhaseOK
  <2>2. runningCrc = c
    BY <1>1, <2>1, SubSeqFull
  <2>3. SentCnt = n /\ n <= IdMax
    <3>1. SentCnt = n
      BY <1>1, <2>1 DEF SentCnt
    <3>2. n <= Len(c) /\ Len(c) <= IdMax
      BY <1>1
    <3> QED
      BY <1>1, <3>1, <3>2, BoundsAssumption
  <2>4. (IF nextId = 0 THEN IdMax ELSE nextId - 1) = n
    BY <1>1, <1>2, <2>3, BoundsAssumption
  <2>5. FinishPkt = [kind |-> "finish", len |-> n + offset, crc |-> c, last |-> n]
    BY <1>1, <2>2, <2>4 DEF FinishPkt
  <2>6. FinishPkt \in Packets
    BY <1>1, <1>2, <2>5 DEF Packets
  <2>7. Plain(FinishPkt) = FinishPkt
    BY <2>5 DEF Plain
  <2>8. Len(out) + 1 = n + 2
    BY <1>1, <1>6, <2>3
  <2> QED
    BY <1>2, <2>5, <2>6, <2>7, <2>8
<1> QED
  <2>1. Len(t) = FileLen - offset + 2 /\ DOMAIN t = 1 .. FileLen - offset + 2
    BY <1>1, <1>2
  <2> QED
    BY <2>1, <1>4, <1>5, <1>6 DEF t

\* A start that is accepted; a rejected one and one whose read of the blocks
\* before the offset fails leave FOTP idle or as it was.
LEMMA StartStep ==
  ASSUME IInv, NEW f \in Names, NEW off \in Offsets, NEW bin \in BOOLEAN,
         StartTransferCmd(f, off, bin)
  PROVE  IInv'
<1> USE DEF IInv, StateOK
<1>1. CASE RejectStart(bin)
  <2>1. Phase' = Phase /\ (state' = "PAUSED" => paused' \in Active)
    BY <1>1 DEF RejectStart, Phase, PhaseOK
  <2>2. TypeOK'
    BY <1>1 DEF RejectStart, TypeOK, progress
  <2> QED
    BY <1>1, <2>1, <2>2, QuietStep DEF RejectStart
<1>2. ASSUME StartAllowed, Valid(f, off), NEW n \in 0 .. off, BeginTransfer(f, off, n, bin),
             state' \in States, openFiles' \subseteq Names
      PROVE  TypeOK' /\ out' \in Seq(Packets)
  <2>1. n \in 0 .. Len(Content[f]) /\ Len(Content[f]) \in Nat /\ off \in Nat /\ n \in Nat
    BY <1>2, OffsetsAssumption, ContentAssumption DEF Valid
  <2>2. SubSeq(Content[f], 1, n) \in Seq(Blocks)
    BY <2>1, PrefixFact
  <2>3. binFile' \in BOOLEAN /\ lastSegment' \in BOOLEAN /\ sendFailed' \in BOOLEAN
    BY <1>2 DEF BeginTransfer
  <2>4. nextId' \in 0 .. IdMax
    BY <1>2, BoundsAssumption DEF BeginTransfer
  <2>5. TypeOK'
    BY <1>2, <2>1, <2>2, <2>3, <2>4 DEF BeginTransfer, TypeOK
  <2> QED
    BY <1>2, <2>5 DEF BeginTransfer
<1>3. CASE /\ StartAllowed /\ Valid(f, off)
           /\ state' = "START"
           /\ openFiles' = openFiles \cup {f}
           /\ BeginTransfer(f, off, off, bin)
  <2>1. off \in Nat /\ off < Len(Content[f]) /\ Content[f] \in Seq(Blocks)
    BY <1>3, OffsetsAssumption, ContentAssumption DEF Valid
  <2>2. TypeOK' /\ out' \in Seq(Packets)
    <3>1. openFiles' \subseteq Names /\ state' \in States
      BY <1>3 DEF TypeOK, States
    <3> QED
      BY <1>2, <1>3, <2>1, <3>1
  <2>3. /\ Phase' = "START" /\ openFiles = {} /\ state' = "START"
        /\ FileLen' = Len(Content[f]) /\ SentCnt' = 0
    BY <1>3, <2>1, NamesAssumption
       DEF StartAllowed, Phase, HandleFollowsPhase, BeginTransfer, FileLen, SentCnt
  <2>4. HandleFollowsPhase'
    BY <1>3, <2>3 DEF HandleFollowsPhase, BeginTransfer
  <2>5. ReadAheadByOne'
    BY <1>3, <2>1, <2>3 DEF ReadAheadByOne, BeginTransfer
  <2>6. PhaseOK'
    <3>1. lastSegment' = FALSE /\ sendFailed' = FALSE
      BY <1>3 DEF BeginTransfer
    <3>2. lastSegment' = (sendFailed' /\ byteCnt' + 1 = FileLen')
      BY <3>1, Zenon
    <3>3. nextId' = (IF SentCnt' < IdMax THEN SentCnt' + 1 ELSE 0)
      BY <1>3, <2>3, BoundsAssumption DEF BeginTransfer
    <3>4. /\ srcFilename' \in Names /\ offset' < FileLen' /\ offset' <= byteCnt'
          /\ byteCnt' <= FileLen' /\ byteCnt' = offset' /\ Len(out') = 0
      BY <1>3, <2>1, <2>3 DEF BeginTransfer
    <3> QED
      BY <2>2, <2>3, <3>1, <3>2, <3>3, <3>4 DEF PhaseOK
  <2>7. TranscriptInOrder'
    <3>1. Len(Transcript(f, off)) > 0
      <4>1. Len(Transcript(f, off)) = Len(Content[f]) - off + 2
        BY <2>1, TranscriptFact
      <4> QED
        BY <2>1, <4>1
    <3> QED
      BY <1>3, <2>3, <3>1 DEF TranscriptInOrder, BeginTransfer
  <2> QED
    BY <2>2, <2>4, <2>5, <2>6, <2>7
<1>4. CASE /\ StartAllowed /\ Valid(f, off)
           /\ \E n \in 0 .. off - 1 : BeginTransfer(f, off, n, bin)
           /\ UNCHANGED <<state, openFiles>>
  <2>1. PICK n \in 0 .. off - 1 : BeginTransfer(f, off, n, bin)
    BY <1>4
  <2>2. n \in 0 .. off
    BY OffsetsAssumption
  <2>3. state = "IDLE" /\ openFiles = {}
    BY <1>4 DEF StartAllowed, HandleFollowsPhase, Phase
  <2>4. TypeOK' /\ out' \in Seq(Packets)
    BY <1>2, <1>4, <2>1, <2>2 DEF TypeOK
  <2> QED
    BY <1>4, <2>3, <2>4, IdleStep
<1> QED
  BY <1>1, <1>3, <1>4 DEF StartTransferCmd

\* A pause of what runs and a resume of what is paused keep the phase.
LEMMA PauseStep ==
  ASSUME IInv, state # "PAUSED", PauseTransferCmd
  PROVE  IInv'
<1> USE DEF IInv, StateOK
<1>1. CASE state = "IDLE"
  BY <1>1, QuietStep DEF PauseTransferCmd, vars, progress, TypeOK, Phase
<1>2. CASE state # "IDLE"
  <2>1. state \in Active
    BY <1>2 DEF TypeOK, States, Active
  <2>2. Phase' = Phase /\ paused' \in Active
    BY <1>2, <2>1 DEF PauseTransferCmd, Phase, Active
  <2>3. TypeOK'
    BY <1>2 DEF PauseTransferCmd, TypeOK, States, progress
  <2> QED
    BY <1>2, <2>2, <2>3, QuietStep DEF PauseTransferCmd
<1> QED
  BY <1>1, <1>2

LEMMA ResumeStep ==
  ASSUME IInv, state = "PAUSED", ResumeTransferCmd
  PROVE  IInv'
<1> USE DEF IInv, StateOK
<1>1. state' = paused /\ paused' = paused /\ paused \in Active
  BY DEF ResumeTransferCmd, ResumeTarget, PhaseOK
<1>2. Phase' = Phase /\ state' # "PAUSED"
  BY <1>1 DEF Phase, Active
<1>3. TypeOK'
  BY <1>1 DEF ResumeTransferCmd, TypeOK, States, progress
<1> QED
  BY <1>2, <1>3, QuietStep DEF ResumeTransferCmd

\* Whatever ends a transfer closes its file.
LEMMA Closes ==
  ASSUME IInv, CloseFile
  PROVE  openFiles' = {}
BY DEF IInv, StateOK, HandleFollowsPhase, CloseFile

LEMMA CancelStep ==
  ASSUME IInv, CancelTransferCmd
  PROVE  IInv'
<1> USE DEF IInv, StateOK
<1>1. CASE state = "IDLE"
  BY <1>1, QuietStep DEF CancelTransferCmd, vars, progress, TypeOK, Phase
<1>2. CASE state # "IDLE"
  <2>1. openFiles' = {} /\ state' = "IDLE" /\ out' \in Seq(Packets)
    BY <1>2, Closes DEF CancelTransferCmd, PhaseOK
  <2>2. TypeOK'
    BY <1>2, <2>1 DEF CancelTransferCmd, TypeOK, States, progress
  <2> QED
    BY <2>1, <2>2, IdleStep
<1> QED
  BY <1>1, <1>2

LEMMA ResetStep ==
  ASSUME IInv, ResetStatus \/ RestartApp
  PROVE  IInv'
<1> USE DEF IInv, StateOK
<1>1. state' = "IDLE" /\ openFiles' = {} /\ out' \in Seq(Packets)
  BY DEF ResetStatus, RestartApp, PhaseOK, HandleFollowsPhase, Phase
<1>2. TypeOK'
  <2>1. binFile' \in BOOLEAN /\ lastSegment' \in BOOLEAN /\ sendFailed' \in BOOLEAN
    BY DEF ResetStatus, RestartApp, TypeOK
  <2>2. nextId' \in 0 .. IdMax /\ transferCnt' \in 0 .. CntMax
    BY BoundsAssumption DEF ResetStatus, RestartApp
  <2>3. runningCrc' \in Seq(Blocks)
    <3>1. runningCrc' = <<>>
      BY DEF ResetStatus, RestartApp
    <3> QED
      BY <3>1
  <2>4. /\ state' \in States /\ paused' \in States /\ srcFilename' \in Names \cup {NoName}
        /\ offset' \in Nat /\ byteCnt' \in Nat
        /\ pkt' \in Blocks \cup {NoBlock} /\ filePos' \in Nat /\ openFiles' \subseteq Names
    BY <1>1 DEF ResetStatus, RestartApp, TypeOK, States
  <2> QED
    BY <2>1, <2>2, <2>3, <2>4 DEF TypeOK
<1> QED
  BY <1>1, <1>2, IdleStep

-----------------------------------------------------------------------------
(* FOTP_Execute.                                                           *)

\* What the segment steps read of the invariant while data is sent.
LEMMA SendingFact ==
  ASSUME IInv, state = "SEND_DATA"
  PROVE  /\ byteCnt < FileLen
         /\ filePos = byteCnt + (IF sendFailed THEN 1 ELSE 0)
         /\ runningCrc = SubSeq(Content[srcFilename], 1, filePos)
         /\ sendFailed => pkt = Content[srcFilename][byteCnt + 1]
         /\ lastSegment <=> (sendFailed /\ byteCnt + 1 = FileLen)
<1>1. /\ Phase = state /\ byteCnt \in Nat /\ FileLen \in Nat /\ byteCnt <= FileLen
  BY RunningFact DEF Active
<1>2. /\ filePos = byteCnt + (IF sendFailed THEN 1 ELSE 0)
      /\ runningCrc = SubSeq(Content[srcFilename], 1, filePos)
      /\ sendFailed => pkt = Content[srcFilename][filePos]
      /\ ~(byteCnt = FileLen)
  BY <1>1 DEF IInv, StateOK, ReadAheadByOne
<1>3. lastSegment <=> (sendFailed /\ byteCnt + 1 = FileLen)
  BY <1>1 DEF IInv, PhaseOK
<1> QED
  BY <1>1, <1>2, <1>3

\* A segment that was taken, at once or when it is sent again.
LEMMA SegmentSent ==
  ASSUME IInv, state = "SEND_DATA",
         Sent(SegmentPkt(Content[srcFilename][byteCnt + 1])),
         Advance(lastSegment'),
         lastSegment' <=> byteCnt + 1 = FileLen,
         filePos' = byteCnt + 1,
         runningCrc' = SubSeq(Content[srcFilename], 1, byteCnt + 1),
         pkt' = Content[srcFilename][byteCnt + 1],
         UNCHANGED <<paused, binFile, srcFilename, offset, transferCnt>>
  PROVE  IInv'
<1> DEFINE t == Transcript(srcFilename, offset)
           c == Content[srcFilename]
<1>1. /\ Phase = state /\ srcFilename \in Names
      /\ c \in Seq(Blocks) /\ FileLen = Len(c) /\ FileLen \in Nat /\ FileLen <= IdMax
      /\ offset \in Nat /\ byteCnt \in Nat /\ SentCnt \in Nat
      /\ offset < FileLen /\ offset <= byteCnt /\ byteCnt < FileLen
      /\ nextId = IF SentCnt < IdMax THEN SentCnt + 1 ELSE 0
      /\ openFiles = {srcFilename}
      /\ out \in Seq(Packets) /\ Len(out) = SentCnt + 1
      /\ \A i \in DOMAIN out : Plain(out[i]) = t[i]
  BY RunningFact, SendingFact DEF Active
<1>2. /\ SegmentPkt(c[byteCnt + 1]) \in Packets
      /\ Plain(SegmentPkt(c[byteCnt + 1])) = t[Len(out) + 1]
      /\ Len(t) = FileLen - offset + 2
  BY <1>1, PacketFact DEF Active
<1>3. /\ out' \in Seq(Packets) /\ Len(out') = Len(out) + 1
      /\ \A i \in DOMAIN out' : Plain(out'[i]) = t[i]
  BY <1>1, <1>2, OneMorePacket
<1>4. /\ FileLen' = FileLen /\ byteCnt' = byteCnt + 1 /\ SentCnt' = SentCnt + 1
      /\ sendFailed' = FALSE /\ t' = t
  <2>1. FileLen' = FileLen /\ byteCnt' = byteCnt + 1 /\ sendFailed' = FALSE /\ t' = t
    BY DEF Advance, FileLen, Transcript
  <2> QED
    BY <1>1, <2>1 DEF SentCnt
<1>5. /\ state' = IF lastSegment' THEN "FINISH" ELSE "SEND_DATA"
      /\ openFiles' = IF lastSegment' THEN {} ELSE {srcFilename}
      /\ Phase' = state'
  BY <1>1 DEF Advance, CloseFile, Phase
<1>6. nextId' = (IF SentCnt' < IdMax THEN SentCnt' + 1 ELSE 0)
  <2>1. SentCnt < IdMax /\ nextId = SentCnt + 1 /\ nextId \in 0 .. IdMax
    BY <1>1, BoundsAssumption DEF SentCnt
  <2> QED
    BY <1>4, <2>1, BoundsAssumption DEF Advance, WrapInc
<1>7. TypeOK'
  <2>1. runningCrc' \in Seq(Blocks) /\ pkt' \in Blocks
    <3>1. byteCnt \in 0 .. Len(c) /\ byteCnt + 1 \in 0 .. Len(c)
      BY <1>1
    <3> QED
      BY <1>1, <3>1, PrefixFact
  <2>2. nextId' \in 0 .. IdMax
    BY <1>1, <1>4, <1>6, BoundsAssumption
  <2>3. binFile' \in BOOLEAN /\ lastSegment' \in BOOLEAN /\ sendFailed' \in BOOLEAN
    <3>1. lastSegment' \in BOOLEAN
      BY <1>4
    <3> QED
      BY <1>4, <3>1 DEF IInv, StateOK, TypeOK
  <2>4. state' \in States /\ openFiles' \subseteq Names
    BY <1>1, <1>5 DEF States
  <2>5. byteCnt' \in Nat /\ filePos' \in Nat /\ pkt' \in Blocks \cup {NoBlock}
    BY <1>1, <1>4, <2>1
  <2>6. /\ paused' \in States /\ srcFilename' \in Names \cup {NoName} /\ offset' \in Nat
        /\ transferCnt' \in 0 .. CntMax
    BY DEF IInv, StateOK, TypeOK
  <2> QED
    BY <2>1, <2>2, <2>3, <2>4, <2>5, <2>6, Zenon DEF TypeOK
<1>8. HandleFollowsPhase'
  BY <1>5 DEF HandleFollowsPhase
<1>9. ReadAheadByOne'
  BY <1>1, <1>4, <1>5 DEF ReadAheadByOne
<1>10. PhaseOK'
  <2>1. lastSegment' \in BOOLEAN => (Phase' # "FINISH" => lastSegment' = (sendFailed' /\ byteCnt' + 1 = FileLen'))
    BY <1>4, <1>5, Zenon
  <2>2. /\ srcFilename' \in Names /\ offset' < FileLen' /\ offset' <= byteCnt'
        /\ byteCnt' <= FileLen' /\ Len(out') = SentCnt' + 1
    BY <1>1, <1>3, <1>4
  <2> QED
    BY <1>3, <1>4, <1>5, <1>6, <1>7, <2>1, <2>2 DEF PhaseOK, TypeOK
<1>11. TranscriptInOrder'
  <2>1. Len(out') < Len(t)
    BY <1>1, <1>2, <1>3 DEF SentCnt
  <2> QED
    BY <1>3, <1>4, <2>1 DEF TranscriptInOrder
<1> QED
  BY <1>7, <1>8, <1>9, <1>10, <1>11 DEF IInv, StateOK

\* A segment that was refused: it was read, and waits to be sent again.
LEMMA SegmentRefused ==
  ASSUME IInv, state = "SEND_DATA", Refused, sendFailed' = TRUE,
         lastSegment' <=> byteCnt + 1 = FileLen, lastSegment' \in BOOLEAN,
         filePos' = byteCnt + 1,
         runningCrc' = SubSeq(Content[srcFilename], 1, byteCnt + 1),
         pkt' = Content[srcFilename][byteCnt + 1],
         UNCHANGED <<nextId, byteCnt, openFiles, state,
                     paused, binFile, srcFilename, offset, transferCnt>>
  PROVE  IInv'
<1> DEFINE c == Content[srcFilename]
<1>1. /\ Phase = state /\ srcFilename \in Names /\ c \in Seq(Blocks) /\ FileLen = Len(c)
      /\ byteCnt \in Nat /\ byteCnt < FileLen /\ FileLen \in Nat
  BY RunningFact, SendingFact DEF Active
<1>2. FileLen' = FileLen /\ SentCnt' = SentCnt /\ Phase' = Phase
  BY DEF FileLen, SentCnt, Phase
<1>3. TypeOK'
  <2>1. runningCrc' \in Seq(Blocks) /\ pkt' \in Blocks
    <3>1. byteCnt \in 0 .. Len(c) /\ byteCnt + 1 \in 0 .. Len(c)
      BY <1>1
    <3> QED
      BY <1>1, <3>1, PrefixFact
  <2>2. sendFailed' \in BOOLEAN /\ filePos' \in Nat
    BY <1>1
  <2> QED
    BY <2>1, <2>2 DEF IInv, StateOK, TypeOK
<1>4. HandleFollowsPhase' /\ TranscriptInOrder'
  BY <1>2 DEF IInv, StateOK, HandleFollowsPhase, TranscriptInOrder, Refused, Transcript
<1>5. ReadAheadByOne'
  BY <1>1, <1>2 DEF IInv, StateOK, ReadAheadByOne
<1>6. PhaseOK'
  <2>1. lastSegment' = (sendFailed' /\ byteCnt' + 1 = FileLen')
    BY <1>2, Zenon
  <2> QED
    BY <1>1, <1>2, <2>1 DEF IInv, PhaseOK, Refused
<1> QED
  BY <1>3, <1>4, <1>5, <1>6 DEF IInv, StateOK

LEMMA SendNextStep ==
  ASSUME IInv, SendNext
  PROVE  IInv'
<1> DEFINE c == Content[srcFilename]
<1>1. /\ state = "SEND_DATA" /\ ~sendFailed /\ filePos = byteCnt /\ ~lastSegment
      /\ byteCnt \in Nat /\ byteCnt < FileLen /\ FileLen = Len(c) /\ FileLen \in Nat
      /\ runningCrc = SubSeq(c, 1, byteCnt) /\ srcFilename \in Names
  BY RunningFact, SendingFact DEF SendNext, Active
<1>2. runningCrc' = SubSeq(c, 1, byteCnt + 1)
  <2>1. byteCnt \in 0 .. Len(c)
    BY <1>1
  <2> QED
    BY <1>1, <2>1, PrefixFact DEF SendNext
<1>3. IsLast <=> byteCnt + 1 = FileLen
  BY <1>1 DEF IsLast, Remaining
<1>4. /\ filePos' = byteCnt + 1 /\ pkt' = c[byteCnt + 1]
      /\ lastSegment' = (lastSegment \/ IsLast) /\ lastSegment' \in BOOLEAN
      /\ lastSegment' <=> byteCnt + 1 = FileLen
  BY <1>1, <1>3 DEF SendNext
<1>5. CASE Sent(SegmentPkt(c[byteCnt + 1])) /\ Advance(lastSegment \/ IsLast)
  BY <1>1, <1>2, <1>4, <1>5, SegmentSent DEF SendNext
<1>6. CASE /\ Refused
           /\ sendFailed' = TRUE
           /\ UNCHANGED <<nextId, byteCnt, openFiles, state>>
  BY <1>1, <1>2, <1>4, <1>6, SegmentRefused DEF SendNext
<1> QED
  BY <1>1, <1>5, <1>6 DEF SendNext

LEMMA ResendStep ==
  ASSUME IInv, Resend
  PROVE  IInv'
<1> DEFINE c == Content[srcFilename]
<1>1. /\ state = "SEND_DATA" /\ sendFailed /\ filePos = byteCnt + 1 /\ pkt = c[byteCnt + 1]
      /\ runningCrc = SubSeq(c, 1, byteCnt + 1)
      /\ lastSegment <=> byteCnt + 1 = FileLen
  BY SendingFact DEF Resend
<1>2. lastSegment' = lastSegment /\ lastSegment' \in BOOLEAN
  BY DEF Resend, IInv, StateOK, TypeOK
<1>3. CASE RetrySend /\ Advance(lastSegment)
  BY <1>1, <1>2, <1>3, SegmentSent DEF Resend, CrcOnRetry, RetrySend
<1>4. CASE Refused /\ UNCHANGED <<sendFailed, nextId, byteCnt, openFiles, state>>
  <2>1. Phase' = Phase /\ TypeOK' /\ state' # "PAUSED"
    BY <1>1, <1>4 DEF Resend, CrcOnRetry, Phase, IInv, StateOK, TypeOK
  <2> QED
    BY <1>4, <2>1, QuietStep DEF Resend, CrcOnRetry, Refused, progress
<1> QED
  BY <1>3, <1>4 DEF Resend

LEMMA AbortStep ==
  ASSUME IInv, Abort
  PROVE  IInv'
<1>1. openFiles' = {} /\ state' = "IDLE" /\ out' \in Seq(Packets)
  BY Closes DEF Abort, IInv, PhaseOK
<1>2. lastSegment' \in BOOLEAN
  BY DEF Abort
<1>3. TypeOK'
  BY <1>1, <1>2 DEF Abort, IInv, StateOK, TypeOK, States
<1> QED
  BY <1>1, <1>3, IdleStep

LEMMA ExecuteStartStep ==
  ASSUME IInv, ExecuteStart
  PROVE  IInv'
<1> DEFINE t == Transcript(srcFilename, offset)
<1>1. state = "START" /\ state \in Active /\ Phase = state
  BY RunningFact DEF ExecuteStart, Active
<1>2. TypeOK'
  BY DEF ExecuteStart, IInv, StateOK, TypeOK, States, progress
<1>3. CASE Refused /\ UNCHANGED state
  <2>1. Phase' = Phase /\ state' # "PAUSED"
    BY <1>1, <1>3 DEF ExecuteStart, Phase
  <2> QED
    BY <1>2, <1>3, <2>1, QuietStep DEF ExecuteStart, Refused
<1>4. CASE Sent(StartPkt) /\ state' = "SEND_DATA"
  <2>1. /\ out \in Seq(Packets) /\ Len(out) = 0 /\ offset \in Nat /\ FileLen \in Nat
        /\ offset < FileLen /\ openFiles = {srcFilename}
        /\ \A i \in DOMAIN out : Plain(out[i]) = t[i]
    BY <1>1, RunningFact
  <2>2. /\ StartPkt \in Packets /\ Plain(StartPkt) = t[Len(out) + 1]
        /\ Len(t) = FileLen - offset + 2
    BY <1>1, PacketFact
  <2>3. /\ out' \in Seq(Packets) /\ Len(out') = 1
        /\ \A i \in DOMAIN out' : Plain(out'[i]) = t[i]
    BY <1>4, <2>1, <2>2, OneMorePacket
  <2>4. /\ FileLen' = FileLen /\ SentCnt' = SentCnt /\ t' = t
        /\ Phase' = "SEND_DATA"
        /\ UNCHANGED <<openFiles, progress>>
    BY <1>4 DEF ExecuteStart, progress, FileLen, SentCnt, Phase, Transcript
  <2>5. byteCnt = offset /\ SentCnt = 0
    BY <1>1, <2>1 DEF IInv, PhaseOK, SentCnt
  <2>6. HandleFollowsPhase' /\ ReadAheadByOne'
    BY <1>1, <2>4 DEF IInv, StateOK, HandleFollowsPhase, ReadAheadByOne, progress
  <2>7. PhaseOK'
    BY <1>1, <1>4, <2>3, <2>4, <2>5 DEF IInv, PhaseOK, progress
  <2>8. TranscriptInOrder'
    BY <2>1, <2>2, <2>3, <2>4 DEF TranscriptInOrder, progress
  <2> QED
    BY <1>2, <2>6, <2>7, <2>8 DEF IInv, StateOK
<1> QED
  BY <1>3, <1>4 DEF ExecuteStart

LEMMA ExecuteFinishStep ==
  ASSUME IInv, ExecuteFinish
  PROVE  IInv'
<1>1. state = "FINISH" /\ Phase = state /\ openFiles = {}
  BY RunningFact DEF ExecuteFinish, Active
<1>2. CASE Refused /\ UNCHANGED <<transferCnt, state>>
  <2>1. Phase' = Phase /\ state' # "PAUSED" /\ TypeOK'
    BY <1>1, <1>2 DEF ExecuteFinish, Phase, IInv, StateOK, TypeOK, progress
  <2> QED
    BY <1>2, <2>1, QuietStep DEF ExecuteFinish, Refused
<1>3. CASE /\ Sent(FinishPkt)
           /\ transferCnt' = WrapInc(transferCnt, CntMax)
           /\ state' = "IDLE"
  <2>1. transferCnt' \in 0 .. CntMax
    BY <1>3, WrapIncFact, BoundsAssumption DEF IInv, StateOK, TypeOK
  <2>2. TypeOK'
    BY <1>3, <2>1 DEF ExecuteFinish, IInv, StateOK, TypeOK, States, progress
  <2>3. out' \in Seq(Packets)
    BY <1>1, <1>3, PacketFact DEF IInv, PhaseOK, Sent, Active
  <2> QED
    BY <1>1, <1>3, <2>2, <2>3, IdleStep DEF ExecuteFinish
<1> QED
  BY <1>2, <1>3 DEF ExecuteFinish

LEMMA NextIInv ==
  ASSUME AnyOrder = FALSE
  PROVE  IInv /\ [Next]_vars => IInv'
<1> SUFFICES ASSUME IInv, [Next]_vars PROVE IInv'
    OBVIOUS
<1>1. CASE Start
  BY <1>1, StartStep DEF Start
<1>2. CASE Pause
  BY <1>2, PauseStep DEF Pause
<1>3. CASE Resume
  BY <1>3, ResumeStep DEF Resume
<1>4. CASE CancelTransferCmd
  BY <1>4, CancelStep
<1>5. CASE ResetStatus \/ RestartApp
  BY <1>5, ResetStep
<1>6. CASE Execute
  BY <1>6, ExecuteStartStep, SendNextStep, ResendStep, AbortStep, ExecuteFinishStep DEF Execute
<1>7. CASE UNCHANGED vars
  <2>1. Phase' = Phase /\ TypeOK' /\ (state' = "PAUSED" => paused' \in Active)
    BY <1>7 DEF vars, progress, IInv, StateOK, TypeOK, PhaseOK, Phase
  <2> QED
    BY <1>7, <2>1, QuietStep DEF vars
<1> QED
  BY <1>1, <1>2, <1>3, <1>4, <1>5, <1>6, <1>7 DEF Next

-----------------------------------------------------------------------------
(* Theorems, for an operator who pauses what runs and resumes what is paused. *)

THEOREM Invariance ==
  ASSUME AnyOrder = FALSE
  PROVE  Spec => []IInv
<1> QED
  BY InitIInv, NextIInv, PTL DEF Spec

\* The handle is open exactly while there is something to read, and position,
\* CRC and count differ by the refused block at most (fotp.c:391 and 464).
THEOREM StateCorrect ==
  ASSUME AnyOrder = FALSE
  PROVE  Spec => []StateOK
BY Invariance, PTL DEF IInv

\* Whatever is refused, paused or aborted, the packets sent are the beginning of
\* the file's transcript (fotp.c:464).
THEOREM TranscriptCorrect ==
  ASSUME AnyOrder = FALSE
  PROVE  Spec => []TranscriptInOrder
BY Invariance, PTL DEF IInv

\* A transfer is counted only with the packet that completes its transcript.
THEOREM CountCorrect ==
  ASSUME AnyOrder = FALSE
  PROVE  Spec => CountedWhenComplete
<1> DEFINE t == Transcript(srcFilename, offset)
           Counted == transferCnt' # transferCnt /\ transferCnt' # 0 =>
                        Len(out') = Len(t) /\ \A i \in DOMAIN t : Plain(out'[i]) = t[i]
<1>1. ASSUME IInv, Next, transferCnt' # transferCnt, transferCnt' # 0
      PROVE  Len(out') = Len(t) /\ \A i \in DOMAIN t : Plain(out'[i]) = t[i]
  <2>1. ExecuteFinish /\ Sent(FinishPkt)
    BY <1>1 DEF Next, Start, StartTransferCmd, RejectStart, BeginTransfer, Pause,
                PauseTransferCmd, Resume, ResumeTransferCmd, CancelTransferCmd, ResetStatus,
                RestartApp, Execute, ExecuteStart, SendNext, Resend, Abort, ExecuteFinish,
                vars
  <2>2. /\ out \in Seq(Packets) /\ Len(out) = SentCnt + 1 /\ state = "FINISH"
        /\ \A i \in DOMAIN out : Plain(out[i]) = t[i]
        /\ Phase = "FINISH" /\ byteCnt \in Nat /\ offset \in Nat /\ FileLen \in Nat
    BY <1>1, <2>1, RunningFact DEF ExecuteFinish, Active
  <2>3. byteCnt = FileLen
    BY <1>1, <2>2 DEF IInv, StateOK, ReadAheadByOne
  <2>4. /\ Len(t) = FileLen - offset + 2 /\ DOMAIN t = 1 .. FileLen - offset + 2
        /\ FinishPkt \in Packets /\ Plain(FinishPkt) = t[Len(out) + 1]
    BY <1>1, <2>2, PacketFact DEF Active
  <2>5. /\ out' \in Seq(Packets) /\ Len(out') = Len(out) + 1
        /\ \A i \in DOMAIN out' : Plain(out'[i]) = t[i]
    BY <2>1, <2>2, <2>4, OneMorePacket
  <2>6. Len(out') = Len(t)
    BY <2>2, <2>3, <2>4, <2>5 DEF SentCnt
  <2>7. DOMAIN out' = DOMAIN t
    BY <2>4, <2>5, <2>6, LenProperties
  <2> QED
    BY <2>5, <2>6, <2>7
<1>2. IInv /\ [Next]_vars => [Counted]_vars
  BY <1>1
<1> QED
  BY <1>2, Invariance, PTL DEF Spec, CountedWhenComplete
-----------------------------------------------------------------------------
(* Downloads: lemmas on the packets and on the copy on the ground.         *)

\* What Plain keeps of a packet.
LEMMA PlainFact ==
  ASSUME NEW p \in Packets
  PROVE  /\ Plain(p).kind = p.kind
         /\ p.kind \in {"start", "data", "finish"}
         /\ p.kind = "data" => Plain(p).blk = p.blk
         /\ p.kind # "finish" => p.bin \in BOOLEAN
BY DEF Packets, Plain

\* A scheduler request sends nothing, or the next packet of the transcript in
\* the mode of the transfer.
LEMMA ExecuteSends ==
  ASSUME IInv, Execute, offset = 0, state # "PAUSED"
  PROVE  /\ state \in Active /\ state' \in Active \cup {"IDLE"}
         /\ UNCHANGED <<srcFilename, offset, binFile>>
         /\ \/ out' = out
            \/ /\ Len(out) < Len(Transcript(srcFilename, 0))
               /\ \E p \in Packets :
                    /\ out' = Append(out, p)
                    /\ Plain(p) = Transcript(srcFilename, 0)[Len(out) + 1]
                    /\ p.kind # "finish" => p.bin = binFile
<1> DEFINE t == Transcript(srcFilename, 0)
           Sends(p) == /\ out' = Append(out, p)
                       /\ Plain(p) = t[Len(out) + 1]
                       /\ p.kind # "finish" => p.bin = binFile
           Keeps == UNCHANGED <<srcFilename, offset, binFile>>
<1>1. state \in Active /\ state' \in Active \cup {"IDLE"}
  BY DEF Execute, ExecuteStart, SendNext, Resend, Abort, ExecuteFinish, Advance, Active
<1>2. Len(out) < Len(t)
  BY <1>1 DEF IInv, TranscriptInOrder, Phase, Active
<1> HIDE DEF t
<1>3. CASE ExecuteStart
  <2>1. StartPkt \in Packets /\ Plain(StartPkt) = t[Len(out) + 1]
    BY <1>1, <1>3, PacketFact DEF ExecuteStart, t
  <2>2. StartPkt.bin = binFile
    BY DEF StartPkt
  <2>3. out' = out \/ Sends(StartPkt)
    BY <1>3, <2>1, <2>2 DEF ExecuteStart, Refused, Sent
  <2>4. Keeps
    BY <1>3 DEF ExecuteStart, progress
  <2> QED
    BY <1>1, <1>2, <2>1, <2>3, <2>4 DEF t
<1>4. CASE SendNext \/ Resend
  <2> DEFINE p == SegmentPkt(Content[srcFilename][byteCnt + 1])
  <2>1. state = "SEND_DATA"
    BY <1>4 DEF SendNext, Resend
  <2>2. p \in Packets /\ Plain(p) = t[Len(out) + 1]
    BY <1>1, <2>1, PacketFact, SendingFact DEF t
  <2>3. p.bin = binFile
    BY DEF SegmentPkt
  <2>4. out' = out \/ Sent(p)
    <3>1. CASE SendNext
      <4>1. filePos = byteCnt
        BY <2>1, <3>1, SendingFact DEF SendNext, IInv, StateOK, TypeOK
      <4> QED
        BY <3>1, <4>1 DEF SendNext, Refused
    <3>2. CASE Resend
      <4>1. pkt = Content[srcFilename][byteCnt + 1]
        BY <2>1, <3>2, SendingFact DEF Resend
      <4> QED
        BY <3>2, <4>1 DEF Resend, RetrySend, Refused
    <3> QED
      BY <1>4, <3>1, <3>2
  <2>5. Keeps
    BY <1>4 DEF SendNext, Resend
  <2> HIDE DEF p
  <2>6. out' = out \/ Sends(p)
    BY <2>2, <2>3, <2>4 DEF Sent
  <2> QED
    BY <1>1, <1>2, <2>2, <2>5, <2>6 DEF t
<1>5. CASE Abort
  BY <1>1, <1>5 DEF Abort
<1>6. CASE ExecuteFinish
  <2>1. FinishPkt \in Packets /\ Plain(FinishPkt) = t[Len(out) + 1]
    BY <1>1, <1>6, PacketFact DEF ExecuteFinish, t
  <2>2. FinishPkt.kind = "finish"
    BY DEF FinishPkt
  <2>3. out' = out \/ Sends(FinishPkt)
    BY <1>6, <2>1, <2>2 DEF ExecuteFinish, Refused, Sent
  <2>4. Keeps
    BY <1>6 DEF ExecuteFinish, progress
  <2> QED
    BY <1>1, <1>2, <2>1, <2>3, <2>4 DEF t
<1> QED
  BY <1>3, <1>4, <1>5, <1>6 DEF Execute

\* What the ground sees of a file, packet by packet.
LEMMA KindFact ==
  ASSUME NEW f \in Names, Len(Content[f]) > 0
  PROVE  LET n == Len(Content[f])
             t == Transcript(f, 0)
         IN  /\ n \in Nat \ {0} /\ Content[f] \in Seq(Blocks)
             /\ Len(t) = n + 2
             /\ t[1].kind = "start"
             /\ \A i \in 1 .. n : t[i + 1].kind = "data" /\ t[i + 1].blk = Content[f][i]
             /\ t[n + 2].kind = "finish"
<1> DEFINE n == Len(Content[f])
           t == Transcript(f, 0)
<1>1. n \in Nat /\ Content[f] \in Seq(Blocks)
  BY ContentAssumption
<1>2. /\ Len(t) = n - 0 + 2
      /\ t[1] = [kind |-> "start", len |-> n - 0]
      /\ t[n - 0 + 2] = [kind |-> "finish", len |-> n - 0 + 0, crc |-> Content[f], last |-> n - 0]
      /\ \A i \in 1 .. n - 0 :
           t[i + 1] = [kind |-> "data", id |-> i, blk |-> Content[f][0 + i]]
  BY <1>1, TranscriptFact
<1>3. n - 0 = n /\ \A i \in 1 .. n : 0 + i = i
  BY <1>1
<1>4. Len(t) = n + 2
  BY <1>2, <1>3
<1>5. t[1].kind = "start"
  BY <1>2
<1>6. t[n + 2].kind = "finish"
  BY <1>2, <1>3
<1>7. ASSUME NEW i \in 1 .. n
      PROVE  t[i + 1].kind = "data" /\ t[i + 1].blk = Content[f][i]
  <2>1. t[i + 1] = [kind |-> "data", id |-> i, blk |-> Content[f][i]]
    BY <1>2, <1>3
  <2> QED
    BY <2>1
<1>8. n \in Nat \ {0}
  BY <1>1
<1> HIDE DEF n, t
<1> QED
  BY <1>1, <1>4, <1>5, <1>6, <1>7, <1>8 DEF n, t

\* A stored copy grows by one block.
LEMMA CopyFact ==
  ASSUME NEW f \in Names, NEW n \in 0 .. Len(Content[f])
  PROVE  /\ Copy(f, n) \in Seq([blk : Blocks, hex : BOOLEAN])
         /\ n < Len(Content[f]) =>
              Append(Copy(f, n), [blk |-> Content[f][n + 1], hex |-> FALSE]) = Copy(f, n + 1)
<1> DEFINE S == [blk : Blocks, hex : BOOLEAN]
           e(i) == [blk |-> Content[f][i], hex |-> FALSE]
<1>1. Content[f] \in Seq(Blocks) /\ Len(Content[f]) \in Nat /\ n \in Nat
  BY ContentAssumption
<1>2. \A i \in 1 .. Len(Content[f]) : e(i) \in S
  BY <1>1
<1>3. ASSUME NEW m \in 0 .. Len(Content[f])
      PROVE  Copy(f, m) \in Seq(S) /\ Len(Copy(f, m)) = m
  <2>1. Copy(f, m) \in [1 .. m -> S] /\ m \in Nat
    BY <1>1, <1>2 DEF Copy
  <2> HIDE DEF S
  <2> QED
    BY <2>1
<1>4. ASSUME n < Len(Content[f])
      PROVE  Append(Copy(f, n), e(n + 1)) = Copy(f, n + 1)
  <2>1. n + 1 \in 0 .. Len(Content[f]) /\ n + 1 \in 1 .. Len(Content[f])
    BY <1>1, <1>4
  <2>2. e(n + 1) \in S
    BY <1>2, <2>1
  <2> DEFINE a == Append(Copy(f, n), e(n + 1))
             c == Copy(f, n + 1)
  <2>3. a \in Seq(S) /\ Len(a) = n + 1 /\ c \in Seq(S) /\ Len(c) = n + 1
    <3> HIDE DEF S, e
    <3> QED
      BY <1>1, <1>3, <2>1, <2>2
  <2>4. ASSUME NEW i \in 1 .. n + 1 PROVE a[i] = c[i]
    <3>1. c[i] = e(i)
      BY <1>1 DEF Copy
    <3>2. CASE i = n + 1
      <4> HIDE DEF S, e
      <4> QED
        BY <1>1, <1>3, <2>2, <3>1, <3>2
    <3>3. CASE i # n + 1
      <4>1. i \in 1 .. n
        BY <1>1, <3>3
      <4>2. Copy(f, n)[i] = e(i)
        BY <4>1 DEF Copy
      <4> HIDE DEF S, e
      <4> QED
        BY <1>1, <1>3, <2>2, <3>1, <4>1, <4>2
    <3> QED
      BY <3>2, <3>3
  <2> HIDE DEF a, c, S
  <2>5. a = c
    BY <1>1, <2>3, <2>4, SeqEqual
  <2> QED
    BY <2>5 DEF a, c
<1> QED
  BY <1>3, <1>4

-----------------------------------------------------------------------------
(* Steps of downloading, for an operator who waits.                        *)

LEMMA DInitInv == DInit => DInv
<1> SUFFICES ASSUME DInit PROVE DInv
    OBVIOUS
<1>1. IInv
  BY InitIInv DEF DInit
<1>2. offset = 0 /\ state = "IDLE" /\ ~Streaming
  BY DEF DInit, Init, Streaming
<1>3. DTypeOK
  <2>1. /\ <<>> \in Seq([blk : Blocks, hex : BOOLEAN]) /\ <<>> \in Seq(Packets)
    BY EmptySeq
  <2> QED
    BY <2>1 DEF DInit, DTypeOK
<1>4. CommandsInOrder /\ RequestWaits /\ LinkInOrder /\ GroundFollows
  BY <1>2 DEF DInit, CommandsInOrder, RequestWaits, LinkInOrder, GroundFollows
<1>5. DownloadSafe
  BY DEF DInit, DownloadSafe, DownloadIntact, ThreadEndsByModeOnly
<1> QED
  BY <1>1, <1>2, <1>3, <1>4, <1>5 DEF DInv, DownlinkOK

\* The command FOTP takes: a cancel, or the start of what was asked for while
\* nothing is going on.
LEMMA CommandFact ==
  ASSUME CommandsInOrder, cmds # <<>>
  PROVE  /\ Tail(cmds) \in Seq(DownCommands) /\ Len(Tail(cmds)) = Len(cmds) - 1
         /\ Len(cmds) \in Nat \ {0}
         /\ \A i \in DOMAIN Tail(cmds) : Tail(cmds)[i] = cmds[i + 1] /\ i + 1 \in DOMAIN cmds
         /\ \/ Head(cmds).cmd = "cancel"
            \/ /\ Head(cmds).cmd # "cancel"
               /\ \A i \in DOMAIN Tail(cmds) : Tail(cmds)[i] = CancelCmd
               /\ Head(cmds).name = recvName /\ recvName \in Names
               /\ Head(cmds).bin \in BOOLEAN
               /\ ~Streaming /\ request = {} /\ recvState \in {"IDLE", "FINISH"}
<1>1. cmds \in Seq(DownCommands)
  BY DEF CommandsInOrder, DownCommands
<1> HIDE DEF DownCommands
<1>2. /\ Len(cmds) \in Nat \ {0} /\ DOMAIN cmds = 1 .. Len(cmds) /\ Head(cmds) = cmds[1]
      /\ Tail(cmds) \in Seq(DownCommands) /\ Len(Tail(cmds)) = Len(cmds) - 1
      /\ \A i \in 1 .. Len(cmds) - 1 : Tail(cmds)[i] = cmds[i + 1]
      /\ cmds[1] \in DownCommands
  BY <1>1, HeadTailProperties, EmptySeq, LenProperties
<1>3. \A i \in DOMAIN Tail(cmds) : Tail(cmds)[i] = cmds[i + 1] /\ i + 1 \in DOMAIN cmds
  <2>1. DOMAIN Tail(cmds) = 1 .. Len(cmds) - 1
    BY <1>2, LenProperties
  <2> QED
    BY <1>2, <2>1
<1>4. CASE cmds[1] = CancelCmd
  BY <1>2, <1>3, <1>4 DEF CancelCmd
<1>5. CASE cmds[1] # CancelCmd
  <2>0. /\ cmds[1] \in {StartCmd(bin) : bin \in BOOLEAN}
        /\ \A j \in DOMAIN cmds : j # 1 => cmds[j] = CancelCmd
        /\ ~Streaming /\ request = {} /\ recvState \in {"IDLE", "FINISH"}
    BY <1>2, <1>5 DEF CommandsInOrder
  <2>1. PICK bin \in BOOLEAN : cmds[1] = StartCmd(bin)
    BY <2>0
  <2>2. cmds[1].cmd = "start" /\ cmds[1].name = recvName /\ cmds[1].bin = bin
    BY <2>1 DEF StartCmd
  <2>3. recvName \in Names
    BY <1>2, <2>2 DEF DownCommands
  <2>4. ASSUME NEW i \in DOMAIN Tail(cmds) PROVE Tail(cmds)[i] = CancelCmd
    <3>1. Tail(cmds)[i] = cmds[i + 1] /\ i + 1 \in DOMAIN cmds /\ i + 1 # 1
      <4>1. DOMAIN Tail(cmds) = 1 .. Len(cmds) - 1
        BY <1>2, LenProperties
      <4>2. i + 1 # 1
        BY <1>2, <4>1
      <4> QED
        BY <1>3, <4>2
    <3> QED
      BY <2>0, <3>1
  <2>5. cmds[1].cmd # "cancel"
    BY <2>2
  <2> QED
    BY <1>2, <1>3, <2>0, <2>2, <2>3, <2>4, <2>5
<1> QED
  BY <1>4, <1>5

LEMMA DownlinkStep ==
  ASSUME DownlinkOK, [DNext]_dvars
  PROVE  [Next]_vars
<1>1. CASE Command
  <2>1. CASE Head(cmds).cmd = "cancel"
    BY <1>1, <2>1 DEF Command, Next
  <2>2. CASE Head(cmds).cmd # "cancel"
    <3>1. /\ Head(cmds).name \in Names /\ Head(cmds).bin \in BOOLEAN /\ state = "IDLE"
      BY <1>1, <2>2, CommandFact DEF Command, DownlinkOK, Streaming
    <3> QED
      BY <1>1, <2>2, <3>1, DownlinkAssumption DEF Command, Next, Start
  <2> QED
    BY <2>1, <2>2
<1>2. CASE Fly
  BY <1>2 DEF Fly, Next
<1>3. CASE ~Command /\ ~Fly
  BY <1>3 DEF DNext, dvars, RecvBegin, RecvSend, CancelRecv, Receive
<1> QED
  BY <1>1, <1>2, <1>3

\* The GUI begins a download: nothing is going on.
LEMMA RecvBeginStep ==
  ASSUME Patient = TRUE, DownlinkOK, NEW f \in Names, NEW bin \in Modes, RecvBegin(f, bin)
  PROVE  DownlinkOK'
<1> USE DEF RecvBegin
<1>1. Quiet /\ bin \in BOOLEAN
  BY DownlinkAssumption
<1>2. ~Streaming /\ ~Streaming' /\ Quiet'
  BY <1>1 DEF Quiet, Streaming, vars
<1>3. offset' = 0 /\ state' # "PAUSED"
  BY DEF DownlinkOK, vars, progress
<1>4. DTypeOK'
  BY DEF DownlinkOK, DTypeOK
<1>5. CommandsInOrder'
  BY <1>1 DEF Quiet, DownlinkOK, CommandsInOrder
<1>6. RequestWaits'
  BY <1>1, <1>2 DEF RequestWaits, StartCmd
<1>7. LinkInOrder' /\ GroundFollows'
  BY <1>2 DEF LinkInOrder, GroundFollows
<1>8. DownloadSafe'
  BY DEF DownlinkOK, DownloadSafe, DownloadIntact, ThreadEndsByModeOnly
<1> QED
  BY <1>3, <1>4, <1>5, <1>6, <1>7, <1>8 DEF DownlinkOK

LEMMA RecvSendStep ==
  ASSUME DownlinkOK, RecvSend
  PROVE  DownlinkOK'
<1>1. PICK bin \in BOOLEAN : request = {StartCmd(bin)}
  BY DEF RecvSend, DownlinkOK, RequestWaits
<1>2. Quiet /\ ~Streaming /\ cmds = <<>>
  BY <1>1 DEF DownlinkOK, RequestWaits, Quiet, Streaming
<1> DEFINE unfinished == recvState \notin {"IDLE", "FINISH"}
           r == StartCmd(bin)
<1>3. /\ cmds' = cmds \o (IF unfinished THEN <<CancelCmd>> ELSE <<>>) \o <<r>>
      /\ recvState' = IF unfinished THEN "IDLE" ELSE recvState
      /\ request' = {}
      /\ UNCHANGED <<vars, tlm, requests, cancels, recvFile, recvBin, recvName, gndFiles,
                     complete, alive, startBin>>
  BY <1>1 DEF RecvSend
<1>4. cmds' = IF unfinished THEN <<CancelCmd, r>> ELSE <<r>>
  BY <1>2, <1>3
<1>5. recvState' \in {"IDLE", "FINISH"} /\ ~Streaming'
  BY <1>2, <1>3 DEF Streaming, vars
<1>6. r \in DownCommands /\ r = StartCmd(bin)' /\ CancelCmd \in DownCommands
  <2>1. recvName \in Names
    BY <1>1 DEF DownlinkOK, RequestWaits
  <2> QED
    BY <1>3, <2>1 DEF StartCmd, CancelCmd, DownCommands
<1>7. CommandsInOrder'
  <2>1. /\ cmds' \in Seq(DownCommands)
        /\ \A i \in DOMAIN cmds' : cmds'[i] # CancelCmd =>
             cmds'[i] = r /\ \A j \in DOMAIN cmds' : j # i => cmds'[j] = CancelCmd
    <3>1. CASE unfinished
      BY <1>4, <1>6, <3>1
    <3>2. CASE ~unfinished
      BY <1>4, <1>6, <3>2
    <3> QED
      BY <3>1, <3>2
  <2> QED
    BY <1>3, <1>5, <1>6, <2>1 DEF CommandsInOrder, DownCommands
<1>8. DTypeOK'
  BY <1>3, <1>5 DEF DownlinkOK, DTypeOK
<1>9. RequestWaits' /\ LinkInOrder' /\ GroundFollows'
  BY <1>3, <1>5 DEF RequestWaits, LinkInOrder, GroundFollows
<1>10. DownloadSafe' /\ offset' = 0 /\ state' # "PAUSED"
  BY <1>3 DEF DownlinkOK, DownloadSafe, DownloadIntact, ThreadEndsByModeOnly, vars, progress
<1> QED
  BY <1>7, <1>8, <1>9, <1>10 DEF DownlinkOK

\* Steps that leave FOTP, the packets on the link and the ground files alone.
LEMMA StreamKept ==
  ASSUME DownlinkOK, UNCHANGED <<vars, tlm, recvFile, recvBin, recvName, gndFiles,
                                 complete, alive, startBin>>
  PROVE  /\ offset' = 0 /\ state' # "PAUSED" /\ Streaming' = Streaming
         /\ LinkInOrder' /\ GroundFollows' /\ DownloadSafe'
<1>1. Streaming' = Streaming /\ FileLen' = FileLen /\ Received' = Received
  BY DEF Streaming, FileLen, Received, vars, progress
<1>2. LinkInOrder'
  BY <1>1 DEF DownlinkOK, LinkInOrder, vars, progress, Transcript
<1>3. GroundFollows'
  BY <1>1 DEF DownlinkOK, GroundFollows, vars, progress
<1> QED
  BY <1>1, <1>2, <1>3 DEF DownlinkOK, DownloadSafe, DownloadIntact, ThreadEndsByModeOnly,
                          vars, progress

LEMMA CancelRecvStep ==
  ASSUME DownlinkOK, CancelRecv
  PROVE  DownlinkOK'
<1>1. /\ offset' = 0 /\ state' # "PAUSED" /\ Streaming' = Streaming
      /\ LinkInOrder' /\ GroundFollows' /\ DownloadSafe'
  BY StreamKept DEF CancelRecv, FileAfterCancel
<1>2. DTypeOK'
  BY DEF CancelRecv, DownlinkOK, DTypeOK
<1>3. /\ cmds \in Seq(DownCommands) /\ CommandsInOrder
      /\ cmds' = Append(cmds, CancelCmd) /\ request = {} /\ request' = {}
      /\ recvState' = "IDLE"
      /\ \A bin : StartCmd(bin)' = StartCmd(bin)
  BY DEF CancelRecv, DownlinkOK, CommandsInOrder, DownCommands, StartCmd
<1>4. CancelCmd \in DownCommands
  BY DEF CancelCmd, DownCommands
<1>5. /\ cmds' \in Seq(DownCommands)
      /\ \A i \in DOMAIN cmds' :
           cmds'[i] = CancelCmd \/ (i \in DOMAIN cmds /\ cmds'[i] = cmds[i])
  <2> HIDE DEF DownCommands
  <2>2. /\ Len(cmds) \in Nat /\ DOMAIN cmds = 1 .. Len(cmds)
        /\ cmds' \in Seq(DownCommands) /\ DOMAIN cmds' = 1 .. Len(cmds) + 1
        /\ \A i \in 1 .. Len(cmds) : cmds'[i] = cmds[i]
        /\ cmds'[Len(cmds) + 1] = CancelCmd
    BY <1>3, <1>4, AppendProperties, LenProperties
  <2>3. ASSUME NEW i \in DOMAIN cmds'
        PROVE  cmds'[i] = CancelCmd \/ (i \in DOMAIN cmds /\ cmds'[i] = cmds[i])
    <3>1. i \in 1 .. Len(cmds) \/ i = Len(cmds) + 1
      BY <2>2
    <3> QED
      BY <2>2, <3>1
  <2> QED
    BY <2>2, <2>3
<1>6. CommandsInOrder'
  <2> SUFFICES ASSUME NEW i \in DOMAIN cmds', cmds'[i] # CancelCmd
               PROVE  /\ cmds'[i] \in {StartCmd(bin)' : bin \in BOOLEAN}
                      /\ \A j \in DOMAIN cmds' : j # i => cmds'[j] = CancelCmd
                      /\ ~Streaming'
    BY <1>3, <1>5 DEF CommandsInOrder, CancelCmd, DownCommands
  <2>1. i \in DOMAIN cmds /\ cmds[i] = cmds'[i] /\ cmds[i] # CancelCmd
    BY <1>5
  <2>2. /\ cmds[i] \in {StartCmd(bin) : bin \in BOOLEAN} /\ ~Streaming
        /\ \A j \in DOMAIN cmds : j # i => cmds[j] = CancelCmd
    BY <1>3, <2>1 DEF CommandsInOrder
  <2> QED
    BY <1>1, <1>3, <1>5, <2>1, <2>2
<1>7. RequestWaits'
  BY <1>3 DEF RequestWaits
<1> QED
  BY <1>1, <1>2, <1>6, <1>7 DEF DownlinkOK

LEMMA CommandStep ==
  ASSUME DownlinkOK, Command
  PROVE  DownlinkOK'
<1>1. /\ cmds # <<>> /\ cmds' = Tail(cmds)
      /\ UNCHANGED <<tlm, gui, gnd>>
  BY DEF Command
<1>2. /\ cmds' \in Seq(DownCommands) /\ Len(cmds') = Len(cmds) - 1
      /\ \A i \in DOMAIN cmds' : cmds'[i] = cmds[i + 1] /\ i + 1 \in DOMAIN cmds
      /\ Len(cmds) \in Nat \ {0}
  BY <1>1, CommandFact DEF DownlinkOK
<1>3. DTypeOK'
  BY <1>1 DEF DownlinkOK, DTypeOK, gnd
<1>4. RequestWaits'
  BY <1>1 DEF DownlinkOK, RequestWaits, Quiet, gui
<1>5. DownloadSafe'
  BY <1>1 DEF DownlinkOK, DownloadSafe, DownloadIntact, ThreadEndsByModeOnly, gnd
<1>6. CASE Head(cmds).cmd = "cancel"
  <2>1. CancelTransferCmd
    BY <1>6 DEF Command
  <2>2. /\ state' = "IDLE" /\ offset' = 0
        /\ UNCHANGED <<out, srcFilename, binFile>>
    BY <2>1 DEF CancelTransferCmd, vars, progress, DownlinkOK
  <2>3. Streaming' => Streaming
    BY <1>1, <2>2 DEF Streaming
  <2>4. CommandsInOrder'
    <3>0. \A bin : StartCmd(bin)' = StartCmd(bin)
      BY <1>1 DEF StartCmd, gnd
    <3> SUFFICES ASSUME NEW i \in DOMAIN cmds', cmds'[i] # CancelCmd
                 PROVE  /\ cmds'[i] \in {StartCmd(bin)' : bin \in BOOLEAN}
                        /\ \A j \in DOMAIN cmds' : j # i => cmds'[j] = CancelCmd
                        /\ ~Streaming' /\ request' = {} /\ recvState' \in {"IDLE", "FINISH"}
      BY <1>2 DEF CommandsInOrder, CancelCmd, DownCommands
    <3>1. i \in Nat /\ DOMAIN cmds' = 1 .. Len(cmds') /\ i + 1 \in DOMAIN cmds
          /\ cmds'[i] = cmds[i + 1]
      BY <1>2
    <3>2. /\ cmds[i + 1] \in {StartCmd(bin) : bin \in BOOLEAN}
          /\ \A j \in DOMAIN cmds : j # i + 1 => cmds[j] = CancelCmd
          /\ ~Streaming /\ request = {} /\ recvState \in {"IDLE", "FINISH"}
      BY <3>1 DEF DownlinkOK, CommandsInOrder
    <3>3. ASSUME NEW j \in DOMAIN cmds', j # i PROVE cmds'[j] = CancelCmd
      <4>1. j + 1 \in DOMAIN cmds /\ cmds'[j] = cmds[j + 1] /\ j + 1 # i + 1
        BY <1>2, <3>1, <3>3
      <4> QED
        BY <3>2, <4>1
    <3> QED
      BY <1>1, <2>3, <3>0, <3>1, <3>2, <3>3 DEF gui, gnd
  <2>5. FileLen' = FileLen /\ Received' = Received
    BY <1>1, <2>2 DEF FileLen, Received
  <2>6. LinkInOrder'
    BY <1>1, <2>2, <2>3, <2>5 DEF DownlinkOK, LinkInOrder, Transcript, gnd
  <2>7. GroundFollows'
    BY <1>1, <2>2, <2>3, <2>5 DEF DownlinkOK, GroundFollows, gnd
  <2> QED
    BY <1>3, <1>4, <1>5, <2>2, <2>4, <2>6, <2>7 DEF DownlinkOK
<1>7. CASE Head(cmds).cmd # "cancel"
  <2> DEFINE f == recvName
             bin == Head(cmds).bin
  <2>1. /\ \A i \in DOMAIN cmds' : cmds'[i] = CancelCmd
        /\ f \in Names /\ bin \in BOOLEAN
        /\ state = "IDLE" /\ tlm = <<>> /\ request = {} /\ ~Streaming
        /\ Head(cmds).name = f
    BY <1>1, <1>7, CommandFact DEF DownlinkOK, Streaming
  <2>2. CommandsInOrder'
    BY <2>1, <1>2 DEF CommandsInOrder, CancelCmd, DownCommands
  <2>3. StartTransferCmd(f, 0, bin)
    BY <1>7, <2>1 DEF Command
  <2>4. CASE RejectStart(bin)
    <3>1. ~Streaming' /\ offset' = 0 /\ state' # "PAUSED"
      BY <1>1, <2>1, <2>4 DEF RejectStart, Streaming, progress, DownlinkOK
    <3>2. LinkInOrder' /\ GroundFollows'
      BY <3>1 DEF LinkInOrder, GroundFollows
    <3> QED
      BY <1>3, <1>4, <1>5, <2>2, <3>1, <3>2 DEF DownlinkOK
  <2>5. CASE Valid(f, 0) /\ state' = "START" /\ BeginTransfer(f, 0, 0, bin)
    <3>1. /\ state' # "PAUSED" /\ offset' = 0 /\ srcFilename' = f /\ out' = <<>>
          /\ binFile' = bin /\ tlm' = <<>> /\ recvName' = f
      BY <1>1, <2>1, <2>5 DEF BeginTransfer, gnd
    <3>2. Received' = 0 /\ FileLen' > 0
      BY <2>1, <2>5, <3>1, NamesAssumption, ContentAssumption DEF Received, FileLen, Valid
    <3>3. LinkInOrder'
      <4>1. Len(Transcript(f, 0)) = Len(Content[f]) + 2 /\ Len(Content[f]) \in Nat
        BY <2>1, <2>5, KindFact, ContentAssumption DEF Valid
      <4>2. out' \in Seq(Packets) /\ Len(out') = 0 /\ DOMAIN out' = {}
        BY <3>1
      <4>3. Transcript(srcFilename, 0)' = Transcript(f, 0)
        BY <3>1 DEF Transcript
      <4> QED
        BY <2>1, <3>1, <3>2, <4>1, <4>2, <4>3 DEF LinkInOrder
    <3>4. GroundFollows'
      BY <3>2 DEF GroundFollows
    <3> QED
      BY <1>3, <1>4, <1>5, <2>2, <3>1, <3>3, <3>4 DEF DownlinkOK
  <2>6. \A n \in 0 .. 0 - 1 : FALSE
    OBVIOUS
  <2> QED
    BY <2>3, <2>4, <2>5, <2>6 DEF StartTransferCmd
<1> QED
  BY <1>6, <1>7

\* What a download under way is, seen from the link.
LEMMA StreamFact ==
  ASSUME DownlinkOK, Streaming
  PROVE  /\ \A i \in DOMAIN cmds : cmds[i] = CancelCmd
         /\ request = {}
         /\ srcFilename \in Names /\ srcFilename = recvName
         /\ FileLen = Len(Content[srcFilename]) /\ FileLen \in Nat \ {0}
         /\ out \in Seq(Packets) /\ tlm \in Seq(Packets)
         /\ Len(out) \in Nat /\ Len(tlm) \in Nat /\ Received \in Nat
         /\ Len(out) <= FileLen + 2
         /\ Len(Transcript(srcFilename, 0)) = FileLen + 2
         /\ \A i \in 1 .. Len(tlm) : tlm[i] = out[Received + i]
         /\ \A i \in 1 .. Len(out) : /\ Plain(out[i]) = Transcript(srcFilename, 0)[i]
                                     /\ out[i].kind # "finish" => out[i].bin = binFile
<1>1. \A i \in DOMAIN cmds : cmds[i] = CancelCmd
  BY DEF DownlinkOK, CommandsInOrder
<1>2. request = {}
  BY DEF DownlinkOK, RequestWaits, Quiet, Streaming
<1>3. /\ srcFilename \in Names /\ srcFilename = recvName /\ FileLen > 0
      /\ out \in Seq(Packets) /\ tlm \in Seq(Packets) /\ Len(tlm) <= Len(out)
      /\ Len(out) <= Len(Transcript(srcFilename, 0))
      /\ \A i \in DOMAIN tlm : tlm[i] = out[Received + i]
      /\ \A i \in DOMAIN out : /\ Plain(out[i]) = Transcript(srcFilename, 0)[i]
                               /\ out[i].kind # "finish" => out[i].bin = binFile
  BY DEF DownlinkOK, LinkInOrder, DTypeOK
<1>4. FileLen = Len(Content[srcFilename]) /\ Len(Content[srcFilename]) \in Nat
  BY <1>3, ContentAssumption, NamesAssumption DEF FileLen
<1>5. Len(Transcript(srcFilename, 0)) = FileLen + 2
  BY <1>3, <1>4, KindFact
<1>6. /\ Len(out) \in Nat /\ DOMAIN out = 1 .. Len(out)
      /\ Len(tlm) \in Nat /\ DOMAIN tlm = 1 .. Len(tlm)
  BY <1>3, LenProperties
<1>7. Received \in Nat
  BY <1>3, <1>6 DEF Received
<1>8. FileLen \in Nat \ {0} /\ Len(out) <= FileLen + 2
  BY <1>3, <1>4, <1>5
<1> QED
  BY <1>1, <1>2, <1>3, <1>4, <1>5, <1>6, <1>7, <1>8

\* Commands and the request while a download is under way.
LEMMA StreamCommands ==
  ASSUME DownlinkOK, Streaming, UNCHANGED <<cmds, request>>
  PROVE  CommandsInOrder' /\ RequestWaits'
BY StreamFact DEF DownlinkOK, CommandsInOrder, RequestWaits

\* A scheduler request: the next packet follows the others onto the link.
LEMMA FlyStep ==
  ASSUME IInv, DownlinkOK, Fly
  PROVE  DownlinkOK'
<1> DEFINE f == srcFilename
           t == Transcript(f, 0)
           Sends(p) == /\ out' = Append(out, p)
                       /\ Plain(p) = t[Len(out) + 1]
                       /\ p.kind # "finish" => p.bin = binFile
<1>1. /\ state \in Active /\ state' \in Active \cup {"IDLE"} /\ offset = 0
      /\ UNCHANGED <<srcFilename, offset, binFile, cmds, gui, gnd>>
      /\ \/ out' = out
         \/ Len(out) < Len(t) /\ \E p \in Packets : Sends(p)
  BY ExecuteSends DEF Fly, DownlinkOK
<1>2. Streaming /\ state' # "PAUSED" /\ offset' = 0
  BY <1>1 DEF Streaming, Active
<1>3. CommandsInOrder' /\ RequestWaits'
  BY <1>1, <1>2, StreamCommands DEF gui
<1>4. DownloadSafe'
  BY <1>1 DEF DownlinkOK, DownloadSafe, DownloadIntact, ThreadEndsByModeOnly, gnd
<1>5. /\ f \in Names /\ f = recvName /\ FileLen \in Nat \ {0}
      /\ out \in Seq(Packets) /\ tlm \in Seq(Packets)
      /\ Len(out) \in Nat /\ Len(tlm) \in Nat /\ Received \in Nat
      /\ Len(out) <= FileLen + 2 /\ Len(t) = FileLen + 2
      /\ \A i \in 1 .. Len(tlm) : tlm[i] = out[Received + i]
      /\ \A i \in 1 .. Len(out) : /\ Plain(out[i]) = t[i]
                                  /\ out[i].kind # "finish" => out[i].bin = binFile
  BY <1>2, StreamFact
<1>6. FileLen' = FileLen /\ t' = t /\ f' = f /\ recvName' = recvName /\ binFile' = binFile
  BY <1>1 DEF FileLen, Transcript, gnd
<1>7. /\ out' \in Seq(Packets) /\ tlm' \in Seq(Packets) /\ Received' = Received
      /\ Len(out') \in Nat /\ Len(tlm') \in Nat /\ Len(tlm') <= Len(out')
      /\ Len(out') <= Len(t)
      /\ \A i \in 1 .. Len(tlm') : tlm'[i] = out'[Received + i]
      /\ \A i \in 1 .. Len(out') : /\ Plain(out'[i]) = t[i]
                                   /\ out'[i].kind # "finish" => out'[i].bin = binFile
  <2> HIDE DEF t
  <2>1. CASE out' = out
    <3>1. tlm' = tlm
      BY <2>1 DEF Fly
    <3> QED
      BY <1>5, <2>1, <3>1 DEF Received
  <2>2. CASE Len(out) < Len(t) /\ \E p \in Packets : Sends(p)
    <3>1. PICK p \in Packets : Sends(p)
      BY <2>2
    <3>2. /\ out' \in Seq(Packets) /\ Len(out') = Len(out) + 1
          /\ out'[Len(out) + 1] = p
          /\ \A i \in 1 .. Len(out) : out'[i] = out[i]
      <4> HIDE DEF Sends
      <4>1. out' = Append(out, p)
        BY <3>1 DEF Sends
      <4> QED
        BY <1>5, <4>1, AppendProperties
    <3>3. tlm' = Append(tlm, p)
      <4>1. out' # out
        BY <1>5, <3>2
      <4>2. tlm' = Append(tlm, out'[Len(out')])
        BY <4>1 DEF Fly
      <4> QED
        BY <3>2, <4>2
    <3>4. /\ tlm' \in Seq(Packets) /\ Len(tlm') = Len(tlm) + 1
          /\ tlm'[Len(tlm) + 1] = p
          /\ \A i \in 1 .. Len(tlm) : tlm'[i] = tlm[i]
      BY <1>5, <3>3, AppendProperties
    <3>5. Received' = Received /\ Received + Len(tlm) = Len(out)
      BY <1>5, <3>2, <3>4 DEF Received
    <3>6. ASSUME NEW i \in 1 .. Len(tlm') PROVE tlm'[i] = out'[Received + i]
      <4>1. CASE i = Len(tlm) + 1
        BY <1>5, <3>2, <3>4, <3>5, <4>1
      <4>2. CASE i \in 1 .. Len(tlm)
        <5>1. Received + i \in 1 .. Len(out)
          BY <1>5, <3>5, <4>2
        <5> QED
          BY <1>5, <3>2, <3>4, <4>2, <5>1
      <4> QED
        BY <1>5, <3>4, <4>1, <4>2
    <3>7. ASSUME NEW i \in 1 .. Len(out')
          PROVE  Plain(out'[i]) = t[i] /\ (out'[i].kind # "finish" => out'[i].bin = binFile)
      <4>1. CASE i = Len(out) + 1
        BY <3>1, <3>2, <4>1
      <4>2. CASE i \in 1 .. Len(out)
        BY <1>5, <3>2, <4>2
      <4> QED
        BY <1>5, <3>2, <4>1, <4>2
    <3>8. Len(tlm') <= Len(out') /\ Len(out') <= Len(t)
      BY <1>5, <2>2, <3>2, <3>4, <3>5
    <3> QED
      BY <1>5, <3>2, <3>4, <3>5, <3>6, <3>7, <3>8
  <2> QED
    BY <1>1, <2>1, <2>2
<1>8. DTypeOK'
  BY <1>1, <1>7 DEF DownlinkOK, DTypeOK, gnd
<1>9. LinkInOrder'
  <2>1. DOMAIN tlm' = 1 .. Len(tlm') /\ DOMAIN out' = 1 .. Len(out')
    BY <1>7, LenProperties
  <2>2. Transcript(srcFilename, 0)' = t
    BY <1>6
  <2> HIDE DEF t
  <2> QED
    BY <1>5, <1>6, <1>7, <2>1, <2>2 DEF LinkInOrder
<1>10. GroundFollows'
  BY <1>1, <1>2, <1>6, <1>7 DEF DownlinkOK, GroundFollows, gnd
<1> QED
  BY <1>2, <1>3, <1>4, <1>8, <1>9, <1>10 DEF DownlinkOK

\* What tlm_callback makes of each packet, in an unfinished download.
LEMMA ReceiveStep ==
  ASSUME IInv, DownlinkOK, Receive
  PROVE  DownlinkOK'
<1> DEFINE f == srcFilename
           n == FileLen
           t == Transcript(f, 0)
           p == Head(tlm)
           r == Received
<1>1. /\ alive = TRUE /\ tlm # <<>> /\ tlm' = Tail(tlm)
      /\ OnStart(p) \/ OnSegment(p) \/ OnFinish(p)
      /\ UNCHANGED <<vars, cmds, gui, recvName>>
  BY DEF Receive, DownlinkOK, DTypeOK
<1>2. Streaming
  BY <1>1 DEF Streaming
<1>3. CommandsInOrder' /\ RequestWaits'
  BY <1>1, <1>2, StreamCommands DEF gui
<1>4. /\ f \in Names /\ f = recvName /\ n \in Nat \ {0} /\ n = Len(Content[f])
      /\ out \in Seq(Packets) /\ tlm \in Seq(Packets)
      /\ Len(out) \in Nat /\ Len(tlm) \in Nat /\ r \in Nat
      /\ Len(out) <= n + 2 /\ Len(t) = n + 2
      /\ \A i \in 1 .. Len(tlm) : tlm[i] = out[r + i]
      /\ \A i \in 1 .. Len(out) : /\ Plain(out[i]) = t[i]
                                  /\ out[i].kind # "finish" => out[i].bin = binFile
  BY <1>2, StreamFact
<1>5. /\ Len(tlm) \in Nat \ {0} /\ p = tlm[1] /\ p \in Packets
      /\ tlm' \in Seq(Packets) /\ Len(tlm') = Len(tlm) - 1
      /\ \A i \in 1 .. Len(tlm) - 1 : tlm'[i] = tlm[i + 1]
  <2>1. tlm \in Seq(Packets) /\ tlm # <<>> /\ tlm' = Tail(tlm)
    BY <1>1, <1>4
  <2>2. Len(tlm) \in Nat \ {0}
    BY <2>1, EmptySeq
  <2>3. 1 \in 1 .. Len(tlm)
    BY <2>2
  <2> QED
    BY <2>1, <2>2, <2>3, HeadTailProperties, ElementOfSeq
<1>6. /\ r + 1 \in 1 .. Len(out) /\ r + 1 <= n + 2
      /\ Plain(p) = t[r + 1] /\ (p.kind # "finish" => p.bin = binFile)
  <2>1. r + Len(tlm) = Len(out)
    BY <1>4 DEF Received
  <2>2. r + 1 \in 1 .. Len(out) /\ 1 \in 1 .. Len(tlm) /\ r + 1 <= n + 2
    BY <1>4, <1>5, <2>1
  <2>3. p = out[r + 1]
    BY <1>4, <1>5, <2>2
  <2> QED
    BY <1>4, <2>2, <2>3
<1>7. /\ r = 0 => p.kind = "start"
      /\ r \in 1 .. n => p.kind = "data" /\ p.blk = Content[f][r]
      /\ r = n + 1 => p.kind = "finish"
      /\ r = 0 \/ r \in 1 .. n \/ r = n + 1
  <2>1. /\ t[1].kind = "start" /\ t[n + 2].kind = "finish"
        /\ \A i \in 1 .. n : t[i + 1].kind = "data" /\ t[i + 1].blk = Content[f][i]
    BY <1>4, KindFact
  <2>2. Plain(p).kind = p.kind /\ (p.kind = "data" => Plain(p).blk = p.blk)
    BY <1>5, PlainFact
  <2>3. r = 0 \/ r \in 1 .. n \/ r = n + 1
    BY <1>4, <1>6
  <2>4. r = n + 1 => r + 1 = n + 2
    BY <1>4
  <2> HIDE DEF p, t, r, n
  <2> QED
    BY <1>6, <2>1, <2>2, <2>3, <2>4
<1>8. /\ FileLen' = n /\ Received' = r + 1 /\ t' = t
      /\ UNCHANGED <<state, offset, srcFilename, binFile, out, recvName>>
  <2>1. UNCHANGED <<state, offset, srcFilename, binFile, out, recvName>>
    BY <1>1 DEF vars, progress
  <2>2. FileLen' = n /\ t' = t
    BY <2>1 DEF FileLen, Transcript
  <2>3. Received' = r + 1
    BY <1>4, <1>5, <2>1 DEF Received
  <2> QED
    BY <2>1, <2>2, <2>3
<1>9. LinkInOrder'
  <2>1. DOMAIN tlm' = 1 .. Len(tlm) - 1 /\ DOMAIN out' = 1 .. Len(out)
    BY <1>4, <1>5, <1>8, LenProperties
  <2>2. ASSUME NEW i \in DOMAIN tlm' PROVE tlm'[i] = out'[Received' + i]
    <3>1. i \in 1 .. Len(tlm) - 1 /\ i + 1 \in 1 .. Len(tlm)
      BY <1>5, <2>1
    <3>2. tlm'[i] = tlm[i + 1] /\ tlm[i + 1] = out[r + (i + 1)]
      BY <1>4, <1>5, <3>1
    <3>3. r + (i + 1) = (r + 1) + i
      BY <1>4, <3>1
    <3> QED
      BY <1>8, <3>2, <3>3
  <2>3. Transcript(srcFilename, 0)' = t
    BY <1>8
  <2>4. Len(tlm') <= Len(out') /\ out' \in Seq(Packets) /\ Len(out') <= Len(t)
        /\ FileLen' > 0
    <3>1. r + Len(tlm) = Len(out)
      BY <1>4 DEF Received
    <3> QED
      BY <1>4, <1>5, <1>8, <3>1
  <2> HIDE DEF t
  <2> QED
    BY <1>4, <1>8, <2>1, <2>2, <2>3, <2>4 DEF LinkInOrder
<1>10. state' # "PAUSED" /\ offset' = 0
  BY <1>8 DEF DownlinkOK
<1>11. /\ gndFiles \in [Names -> Seq([blk : Blocks, hex : BOOLEAN])]
       /\ recvState' \in {"IDLE", "START", "RECV_DATA", "FINISH"} /\ complete \subseteq Names
       /\ recvBin \in BOOLEAN /\ startBin \in BOOLEAN /\ alive \in BOOLEAN
       /\ DownloadIntact
  BY <1>1 DEF DownlinkOK, DTypeOK, DownloadSafe, OnStart, OnSegment, OnFinish
<1>12. NoFile # [name |-> recvName, bin |-> binFile] /\ binFile \in BOOLEAN
  <2>1. binFile \in BOOLEAN
    BY DEF IInv, StateOK, TypeOK
  <2> QED
    BY <1>4, <2>1, DownlinkAssumption
<1>13. recvName \in Names /\ recvName' = recvName /\ binFile' = binFile
  BY <1>4, <1>8
<1>14. CASE r = 0
  <2>1. OnStart(p) /\ p.bin = binFile
    BY <1>1, <1>6, <1>7, <1>14 DEF OnSegment, OnFinish
  <2>2. /\ recvState' = "START" /\ recvBin' = (recvBin \/ binFile) /\ startBin' = binFile
        /\ recvFile' = [name |-> recvName, bin |-> binFile]
        /\ gndFiles' = [gndFiles EXCEPT ![recvName] = <<>>]
        /\ complete' = complete \ {recvName} /\ alive' = TRUE
    BY <1>1, <2>1 DEF OnStart, Opened
  <2>3. <<>> \in Seq([blk : Blocks, hex : BOOLEAN])
    BY EmptySeq
  <2>4. DTypeOK'
    BY <1>5, <1>11, <1>12, <1>13, <2>2, <2>3 DEF DTypeOK
  <2>5. GroundFollows'
    <3>1. Received' = 1 /\ Received' - 1 = 0
      BY <1>8, <1>14
    <3>2. gndFiles'[recvName] = Copy(recvName, 0)
      <4>1. Copy(recvName, 0) = <<>>
        BY DEF Copy
      <4> QED
        BY <1>11, <1>13, <2>2, <4>1
    <3>3. binFile => recvBin'
      BY <1>12, <2>2
    <3> QED
      BY <1>13, <2>2, <3>1, <3>2, <3>3 DEF GroundFollows
  <2>6. DownloadIntact'
    <3> SUFFICES ASSUME NEW g \in complete'
                 PROVE  gndFiles'[g] = [i \in DOMAIN Content[g] |-> [blk |-> Content[g][i], hex |-> FALSE]]
      BY DEF DownloadIntact
    <3>1. g \in complete /\ gndFiles'[g] = gndFiles[g]
      BY <1>11, <2>2
    <3> QED
      BY <1>11, <3>1 DEF DownloadIntact
  <2>7. DownloadSafe'
    BY <2>2, <2>6 DEF DownloadSafe, ThreadEndsByModeOnly
  <2> QED
    BY <1>3, <1>9, <1>10, <2>4, <2>5, <2>7 DEF DownlinkOK
<1>15. CASE r \in 1 .. n
  <2>1. OnSegment(p) /\ p.bin = binFile /\ p.blk = Content[f][r]
    BY <1>1, <1>6, <1>7, <1>15 DEF OnStart, OnFinish
  <2>2. /\ recvFile = [name |-> recvName, bin |-> binFile]
        /\ recvName \notin complete
        /\ gndFiles[recvName] = Copy(recvName, r - 1)
        /\ startBin = binFile /\ (binFile => recvBin)
    <3>1. Received \in 1 .. FileLen + 1
      BY <1>4, <1>15
    <3> QED
      BY <1>1, <1>2, <3>1 DEF DownlinkOK, GroundFollows
  <2>3. UNCHANGED <<recvBin, startBin, complete, recvFile>> /\ recvState' = "RECV_DATA"
    BY <2>1 DEF OnSegment, Dies
  <2>4. CASE CanWrite(p)
    <3>1. Stored(p) = [blk |-> Content[f][r], hex |-> FALSE]
      BY <1>11, <1>12, <2>1, <2>2 DEF Stored
    <3>2. /\ gndFiles' = [gndFiles EXCEPT ![recvName] = Append(@, Stored(p))]
          /\ alive' = TRUE
      BY <1>1, <2>1, <2>2, <2>4 DEF OnSegment
    <3>3. gndFiles'[recvName] = Append(Copy(f, r - 1), [blk |-> Content[f][r], hex |-> FALSE])
      BY <1>4, <1>11, <1>13, <2>2, <3>1, <3>2
    <3>4. /\ gndFiles'[recvName] = Copy(f, r)
          /\ Copy(f, r) \in Seq([blk : Blocks, hex : BOOLEAN])
      <4>1. r - 1 \in 0 .. Len(Content[f]) /\ r - 1 < Len(Content[f]) /\ (r - 1) + 1 = r
            /\ r \in 0 .. Len(Content[f])
        BY <1>4, <1>15
      <4> HIDE DEF f, r
      <4>2. Append(Copy(f, r - 1), [blk |-> Content[f][(r - 1) + 1], hex |-> FALSE])
              = Copy(f, (r - 1) + 1)
        BY <1>4, <4>1, CopyFact
      <4>3. Copy(f, r) \in Seq([blk : Blocks, hex : BOOLEAN])
        BY <1>4, <4>1, CopyFact
      <4> QED
        BY <3>3, <4>1, <4>2, <4>3
    <3>5. \A g \in Names \ {recvName} : gndFiles'[g] = gndFiles[g]
      BY <1>11, <3>2
    <3>6. gndFiles' \in [Names -> Seq([blk : Blocks, hex : BOOLEAN])]
      <4> DEFINE S == Seq([blk : Blocks, hex : BOOLEAN])
      <4>1. DOMAIN gndFiles' = Names /\ gndFiles' = [g \in Names |-> gndFiles'[g]]
        BY <1>11, <3>2
      <4>2. \A g \in Names : gndFiles'[g] \in S
        BY <1>11, <3>4, <3>5
      <4> HIDE DEF S
      <4> QED
        BY <4>1, <4>2 DEF S
    <3>7. DTypeOK'
      BY <1>5, <1>11, <1>13, <2>3, <3>2, <3>6 DEF DTypeOK
    <3>8. GroundFollows'
      <4>1. Received' - 1 = r
        BY <1>4, <1>8
      <4> QED
        BY <1>4, <1>13, <2>2, <2>3, <3>4, <4>1 DEF GroundFollows, Copy
    <3>9. DownloadIntact'
      <4> SUFFICES ASSUME NEW g \in complete'
                   PROVE  gndFiles'[g] = [i \in DOMAIN Content[g] |-> [blk |-> Content[g][i], hex |-> FALSE]]
        BY DEF DownloadIntact
      <4>1. g \in complete /\ g \in Names \ {recvName}
        BY <1>11, <2>2, <2>3
      <4> QED
        BY <1>11, <3>5, <4>1 DEF DownloadIntact
    <3>10. DownloadSafe'
      BY <3>2, <3>9 DEF DownloadSafe, ThreadEndsByModeOnly
    <3> QED
      BY <1>3, <1>9, <1>10, <3>7, <3>8, <3>10 DEF DownlinkOK
  <2>5. CASE ~CanWrite(p)
    <3>1. alive' = FALSE /\ gndFiles' = gndFiles
      BY <2>1, <2>5 DEF OnSegment, Dies
    <3>2. recvBin' = TRUE /\ startBin' = FALSE
      BY <1>11, <1>12, <2>1, <2>2, <2>3, <2>5 DEF CanWrite
    <3>3. DTypeOK'
      BY <1>5, <1>11, <1>13, <2>3, <3>1 DEF DTypeOK
    <3>4. GroundFollows'
      BY <3>1 DEF GroundFollows
    <3>5. DownloadSafe'
      BY <1>11, <2>3, <3>1, <3>2 DEF DownloadSafe, DownloadIntact, ThreadEndsByModeOnly
    <3> QED
      BY <1>3, <1>9, <1>10, <3>3, <3>4, <3>5 DEF DownlinkOK
  <2> QED
    BY <2>4, <2>5
<1>16. CASE r = n + 1
  <2>1. OnFinish(p)
    BY <1>1, <1>7, <1>16 DEF OnStart, OnSegment
  <2>2. /\ recvFile = [name |-> recvName, bin |-> binFile]
        /\ gndFiles[recvName] = Copy(recvName, r - 1)
    <3>1. Received \in 1 .. FileLen + 1
      BY <1>4, <1>16
    <3> QED
      BY <1>1, <1>2, <3>1 DEF DownlinkOK, GroundFollows
  <2>3. /\ recvState' = "FINISH" /\ complete' = complete \cup {recvName}
        /\ recvBin' = FALSE /\ alive' = TRUE /\ UNCHANGED <<gndFiles, startBin>>
    BY <1>1, <1>12, <2>1, <2>2 DEF OnFinish
  <2>4. DTypeOK'
    BY <1>5, <1>11, <1>13, <2>3 DEF DTypeOK
  <2>5. GroundFollows'
    <3>1. Received' \notin 1 .. n + 1
      BY <1>4, <1>8, <1>16
    <3> QED
      BY <1>8, <3>1 DEF GroundFollows
  <2>6. DownloadIntact'
    <3> SUFFICES ASSUME NEW g \in complete'
                 PROVE  gndFiles'[g] = [i \in DOMAIN Content[g] |-> [blk |-> Content[g][i], hex |-> FALSE]]
      BY DEF DownloadIntact
    <3>1. CASE g = recvName
      <4>1. r - 1 = n /\ DOMAIN Content[g] = 1 .. n
        BY <1>4, <1>16, <3>1, ContentAssumption
      <4> QED
        BY <2>2, <2>3, <3>1, <4>1 DEF Copy
    <3>2. CASE g # recvName
      BY <1>11, <2>3, <3>2 DEF DownloadIntact
    <3> QED
      BY <3>1, <3>2
  <2>7. DownloadSafe'
    BY <2>3, <2>6 DEF DownloadSafe, ThreadEndsByModeOnly
  <2> QED
    BY <1>3, <1>9, <1>10, <2>4, <2>5, <2>7 DEF DownlinkOK
<1> QED
  BY <1>7, <1>14, <1>15, <1>16

LEMMA DNextDInv ==
  ASSUME AnyOrder = FALSE, Patient = TRUE
  PROVE  DInv /\ [DNext]_dvars => DInv'
<1> SUFFICES ASSUME DInv, [DNext]_dvars PROVE DInv'
    OBVIOUS
<1>1. IInv /\ DownlinkOK
  BY DEF DInv
<1>2. IInv'
  BY <1>1, DownlinkStep, NextIInv
<1>3. DownlinkOK'
  <2>1. CASE \E f \in Names, bin \in Modes : RecvBegin(f, bin)
    BY <1>1, <2>1, RecvBeginStep
  <2>2. CASE RecvSend
    BY <1>1, <2>2, RecvSendStep
  <2>3. CASE CancelRecv
    BY <1>1, <2>3, CancelRecvStep
  <2>4. CASE Command
    BY <1>1, <2>4, CommandStep
  <2>5. CASE Fly
    BY <1>1, <2>5, FlyStep
  <2>6. CASE Receive
    BY <1>1, <2>6, ReceiveStep
  <2>7. CASE UNCHANGED dvars
    <3>1. UNCHANGED <<vars, tlm, recvFile, recvBin, recvName, gndFiles, complete, alive,
                      startBin, cmds, request, recvState>>
      BY <2>7 DEF dvars, gui, gnd
    <3>2. /\ offset' = 0 /\ state' # "PAUSED" /\ Streaming' = Streaming
          /\ LinkInOrder' /\ GroundFollows' /\ DownloadSafe'
      BY <1>1, <3>1, StreamKept
    <3>3. DTypeOK'
      BY <1>1, <3>1 DEF DownlinkOK, DTypeOK
    <3>4. Quiet' = Quiet /\ \A bin : StartCmd(bin)' = StartCmd(bin)
      BY <3>1 DEF Quiet, StartCmd, vars
    <3>5. CommandsInOrder' /\ RequestWaits'
      BY <1>1, <3>1, <3>2, <3>4 DEF DownlinkOK, CommandsInOrder, RequestWaits
    <3> QED
      BY <3>2, <3>3, <3>5 DEF DownlinkOK
  <2> QED
    BY <2>1, <2>2, <2>3, <2>4, <2>5, <2>6, <2>7 DEF DNext
<1> QED
  BY <1>2, <1>3 DEF DInv

-----------------------------------------------------------------------------
(* Theorems of downloading, for an operator who asks for a file only when    *)
(* nothing is going on and does not pause.                                 *)

\* FOTP, the link and the ground file stay in step through cancels, refused
\* packets and failed reads, although packets of a cancelled download still
\* arrive (filebrowser.py, start_recv_file and tlm_callback).
THEOREM DownlinkInvariance ==
  ASSUME AnyOrder = FALSE, Patient = TRUE
  PROVE  DSpec => []DInv
<1> QED
  BY DInitInv, DNextDInv, PTL DEF DSpec

\* The ground system drives FOTP as an operator does who keeps the order: what is
\* proved of FOTP's specification holds of the composition.
THEOREM DownlinkRefinesFotp ==
  ASSUME AnyOrder = FALSE, Patient = TRUE
  PROVE  DSpec => Spec
<1>1. DInit => Init
  BY DEF DInit
<1>2. DInv /\ [DNext]_dvars => [Next]_vars
  BY DownlinkStep DEF DInv
<1> QED
  BY <1>1, <1>2, DownlinkInvariance, PTL DEF DSpec, Spec

\* A file that a finish packet closes is the flight file, and packets left over
\* from an earlier download end the telemetry thread through recv_bin_file only
\* (filebrowser.py, tlm_callback).
THEOREM DownloadCorrect ==
  ASSUME AnyOrder = FALSE, Patient = TRUE
  PROVE  DSpec => []DownloadSafe
BY DownlinkInvariance, PTL DEF DInv, DownlinkOK
=============================================================================
