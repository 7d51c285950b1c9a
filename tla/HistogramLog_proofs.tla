-------------------------- MODULE HistogramLog_proofs --------------------------
(***************************************************************************)
(* Proofs about HistogramLog for every number of bins, all tables, samples *)
(* and limits, and any order of commands, samples and resets: what         *)
(* MCHistogramLog checks.  The inductive invariant is IInv.                *)
(***************************************************************************)
EXTENDS HistogramLog, SequenceTheorems, WellFoundedInduction, TLAPS

\* A bounded set of numbers has a maximum.
LEMMA MaxFact ==
  ASSUME NEW n \in Nat, NEW S \in SUBSET (0 .. n), S # {}
  PROVE  Max(S) \in S
<1> DEFINE R == OpToRel(<, Nat)
           T == {n - x : x \in S}
<1>1. T \subseteq Nat /\ T # {}
  <2>1. \A x \in S : n - x \in Nat
    OBVIOUS
  <2> QED
    BY <2>1
<1>2. PICK t \in T : \A u \in T : ~ (<<u, t>> \in R)
  <2> HIDE DEF T
  <2> QED
    BY <1>1, WFMin, NatLessThanWellFounded
<1>3. \A u \in T : ~(u < t)
  BY <1>1, <1>2 DEF OpToRel
<1>4. PICK x \in S : t = n - x
  OBVIOUS
<1>5. \A y \in S : x >= y
  BY <1>3, <1>4
<1> QED
  BY <1>5 DEF Max

-----------------------------------------------------------------------------
(* The invariant in two parts: the queue and the reset, and the log.       *)
FrameType ==
  /\ campaign \in Campaigns /\ histEna \in BOOLEAN /\ tbl \in Tables
  /\ pending \in Seq(Commands) /\ Len(pending) <= campaign.depth
  /\ running \in Commands \cup {Idle}
  /\ reset \in {"idle", "clearlog", "testplaybk", "clearplaybk"}

LogType ==
  /\ ena \in BOOLEAN /\ binNum \in Bins /\ cnt \in 0 .. MaxLines
  /\ maxEntries \in Maxima \cup {0} /\ filename \in 0 .. NoFile

PlaybkType ==
  /\ playbkEna \in BOOLEAN /\ playbkCnt \in 0 .. MaxLines
  /\ playbkTlm \in [entry : 0 .. MaxLines, text : Line \cup {NoLine, Garbled}]

FileType ==
  /\ handle \in [file : 0 .. NoFile, pos : 0 .. MaxLines]
  /\ files \in [Bins -> LogFile] /\ logged \in Seq(Line) /\ whole \in 0 .. MaxLines

Frame == FrameType /\ ResetWaits

Log ==
  /\ LogType /\ PlaybkType /\ FileType /\ OneOwnerOfHandle /\ CountIsLogged /\ FieldsOK
  /\ LogTracked /\ PlaybackFaithful /\ FileOfOneBin

LEMMA Parts == IInv <=> Frame /\ Log
BY DEF IInv, StateOK, TypeOK, Frame, Log, FrameType, LogType, PlaybkType, FileType

LEMMA PartsAfter ==
  ASSUME Frame', Log'
  PROVE  IInv'
BY DEF IInv, StateOK, TypeOK, Frame, Log, FrameType, LogType, PlaybkType, FileType

\* The fields of a command are those of its kind.
LEMMA CommandFact ==
  ASSUME FrameType
  PROVE  /\ running.op = "run" =>
              running # Idle /\ running.bin \in Bins /\ running.sample \in Samples
         /\ running.op = "startlog" =>
              running # Idle /\ running.bin \in 0 .. MaxBins /\ running.max \in Maxima
         /\ running.op \in {"stoplog", "startplaybk", "stopplaybk"} => running # Idle
BY DEF FrameType, Commands, StartLog, Plain, Sampled, Idle

LEMMA InitIInv == Init => IInv
<1> SUFFICES ASSUME Init PROVE IInv
    OBVIOUS
<1> USE LogAssumption DEF Init
<1>1. Frame
  <2>1. campaign.depth \in Nat
    BY CampaignAssumption DEF Campaign
  <2>2. pending \in Seq(Commands) /\ Len(pending) = 0
    OBVIOUS
  <2> HIDE DEF Init
  <2>3. campaign \in Campaigns /\ histEna = FALSE /\ tbl \in Tables /\ running = Idle /\ reset = "idle"
    BY DEF Init
  <2> QED
    <3>1. histEna \in BOOLEAN
      BY <2>3
    <3>2. Len(pending) <= campaign.depth
      BY <2>1, <2>2
    <3> QED
      BY <2>2, <2>3, <3>1, <3>2 DEF Frame, FrameType, ResetWaits
<1>2. LogType /\ PlaybkType
  <2>1. LogType
    <3>1. ena \in BOOLEAN
      OBVIOUS
    <3>2. binNum \in Bins /\ cnt \in 0 .. MaxLines /\ filename \in 0 .. NoFile
      BY DEF Bins, NoFile
    <3> QED
      BY <3>1, <3>2 DEF LogType
  <2>2. PlaybkType
    <3>1. NoPlayback \in [entry : 0 .. MaxLines, text : Line \cup {NoLine, Garbled}]
      BY DEF NoPlayback
    <3>2. playbkEna = FALSE /\ playbkCnt = 0 /\ playbkTlm = NoPlayback
      OBVIOUS
    <3> HIDE DEF Init
    <3>3. playbkEna \in BOOLEAN
      BY <3>2
    <3>4. playbkCnt \in 0 .. MaxLines
      BY <3>2
    <3> QED
      BY <3>1, <3>2, <3>3, <3>4 DEF PlaybkType
  <2> QED
    BY <2>1, <2>2
<1>3. FileType /\ OneOwnerOfHandle
  <2>1. files \in [Bins -> LogFile]
    <3>1. [lines |-> <<>>, frayed |-> FALSE] \in LogFile
      BY DEF LogFile
    <3> QED
      BY <3>1
  <2>2. OneOwnerOfHandle
    BY DEF OneOwnerOfHandle
  <2>3. handle \in [file : 0 .. NoFile, pos : 0 .. MaxLines] /\ logged \in Seq(Line) /\ whole \in 0 .. MaxLines
    BY DEF Closed, NoFile
  <2> QED
    BY <2>1, <2>2, <2>3 DEF FileType
<1>4. CountIsLogged /\ FieldsOK /\ LogTracked
  BY DEF CountIsLogged, FieldsOK, LogTracked, NoFile, NoPlayback
<1>5. PlaybackFaithful /\ FileOfOneBin
  BY DEF PlaybackFaithful, FileOfOneBin
<1> QED
  BY <1>1, <1>2, <1>3, <1>4, <1>5, Parts DEF Log

-----------------------------------------------------------------------------
(* Steps of the queue and of the reset.                                    *)

LEMMA DepthFact ==
  ASSUME FrameType
  PROVE  campaign.depth \in Nat
BY CampaignAssumption, LogAssumption DEF FrameType, Campaign

\* A command that is accepted is in the queue, and no reset is under way.
LEMMA InvokeFrame ==
  ASSUME Frame, NEW m \in Commands, Invoke(m)
  PROVE  Frame'
<1>1. /\ reset = "idle" /\ reset' = "idle" /\ running' = running /\ pending' = Append(pending, m)
      /\ InQueue < campaign.depth /\ UNCHANGED <<campaign, histEna, tbl>>
  BY DEF Invoke, Q!Accept, parentVars
<1>2. pending' \in Seq(Commands) /\ Len(pending') = Len(pending) + 1 /\ Len(pending) \in Nat
  BY <1>1, AppendProperties DEF Frame, FrameType
<1>3. Len(pending') <= campaign.depth
  BY <1>1, <1>2, DepthFact DEF InQueue, Frame
<1> QED
  BY <1>1, <1>2, <1>3 DEF Frame, FrameType, ResetWaits

\* A sample that matches has a bin of the histogram.
LEMMA SampleFact ==
  ASSUME FrameType, NEW s \in Samples, Matching(s) # {}
  PROVE  Max(Matching(s)) - 1 \in Bins
<1>1. tbl \in Seq([lo : Int, hi : Int]) /\ Len(tbl) <= MaxBins
  BY LogAssumption DEF FrameType
<1>2. Len(tbl) \in Nat /\ DOMAIN tbl = 1 .. Len(tbl)
  BY <1>1
<1>3. Matching(s) \in SUBSET (0 .. Len(tbl)) /\ Matching(s) \subseteq 1 .. Len(tbl)
  BY <1>2 DEF Matching
<1>4. Max(Matching(s)) \in Matching(s)
  BY <1>2, <1>3, MaxFact
<1> QED
  BY <1>1, <1>2, <1>3, <1>4, LogAssumption DEF Bins

LEMMA ParentFrame ==
  ASSUME Frame, Operator \/ (\E s \in Samples : Execute(s)) \/ TestPlaybk
  PROVE  Frame'
<1>1. ASSUME NEW m \in StartLog \cup Plain, Invoke(m)
      PROVE  Frame'
  BY <1>1, InvokeFrame DEF Commands
<1>2. ASSUME NEW s \in Samples, Execute(s)
      PROVE  Frame'
  <2>1. [op |-> "run", bin |-> Max(Matching(s)) - 1, sample |-> s] \in Commands
    BY <1>2, SampleFact DEF Execute, Frame, Commands, Sampled
  <2> QED
    BY <1>2, <2>1, InvokeFrame DEF Execute
<1>3. ASSUME NEW on \in BOOLEAN, SetHistogram(on)
      PROVE  Frame'
  BY <1>3 DEF SetHistogram, Frame, FrameType, ResetWaits, queueVars, logVars, playbkVars
<1>4. ASSUME NEW t \in Tables, AcceptNewTbl(t)
      PROVE  Frame'
  BY <1>4 DEF AcceptNewTbl, Frame, FrameType, ResetWaits, queueVars, logVars, playbkVars
<1>5. CASE ResetStatus
  BY <1>5 DEF ResetStatus, ResetAllowed, LogClearable, Frame, FrameType, ResetWaits,
              parentVars, queueVars, logVars, playbkVars
<1>6. CASE TestPlaybk
  BY <1>6 DEF TestPlaybk, Frame, FrameType, ResetWaits, parentVars, queueVars, logVars, playbkVars
<1> QED
  BY <1>1, <1>2, <1>3, <1>4, <1>5, <1>6 DEF Operator

LEMMA ClearFrame ==
  ASSUME Frame, ClearLog \/ ClearPlaybk
  PROVE  Frame'
<1>1. CASE ClearLog
  BY <1>1 DEF ClearLog, Frame, FrameType, ResetWaits, parentVars, queueVars, playbkVars
<1>2. CASE ClearPlaybk
  BY <1>2 DEF ClearPlaybk, Frame, FrameType, ResetWaits, parentVars, queueVars, logVars
<1> QED
  BY <1>1, <1>2

LEMMA BeginFrame ==
  ASSUME Frame, Begin
  PROVE  Frame'
<1>1. /\ pending # <<>> /\ running' = Head(pending) /\ pending' = Tail(pending)
      /\ UNCHANGED <<campaign, histEna, tbl, reset, ena, playbkEna>>
  BY DEF Begin, Q!Begin, parentVars, logVars, playbkVars
<1>2. running' \in Commands /\ pending' \in Seq(Commands) /\ Len(pending') = Len(pending) - 1
      /\ Len(pending) \in Nat
  BY <1>1, HeadTailProperties DEF Frame, FrameType
<1>3. Len(pending') <= campaign.depth
  BY <1>2, DepthFact DEF Frame, FrameType
<1> QED
  BY <1>1, <1>2, <1>3 DEF Frame, FrameType, ResetWaits

\* A handler runs while no reset that waits is under way.
LEMMA HandlerFrame ==
  ASSUME Frame, NEW op \in {"startlog", "stoplog", "startplaybk", "stopplaybk", "run"}, Handles(op)
  PROVE  Frame' /\ campaign' = campaign
<1>1. running # Idle /\ running' = Idle /\ UNCHANGED <<campaign, histEna, tbl, pending, reset>>
  BY DEF Handles, Q!End, parentVars
<1> QED
  BY <1>1 DEF Frame, FrameType, ResetWaits

-----------------------------------------------------------------------------
(* Steps of the log.                                                       *)
LEMMA QuietLog ==
  ASSUME Log, UNCHANGED <<campaign, logVars, playbkVars, fileVars>>
  PROVE  Log'
BY DEF Log, LogType, PlaybkType, FileType, OneOwnerOfHandle, CountIsLogged, FieldsOK, LogTracked,
       PlaybackFaithful, FileOfOneBin, logVars, playbkVars, fileVars

\* What a step keeps that leaves files, log and playback telemetry alone.
LEMMA KeepContents ==
  ASSUME Log, UNCHANGED <<campaign, files, logged, whole, playbkTlm>>
  PROVE  PlaybackFaithful' /\ FileOfOneBin'
BY DEF Log, PlaybackFaithful, FileOfOneBin

LEMMA NoPlaybackFact == NoPlayback \in [entry : 0 .. MaxLines, text : Line \cup {NoLine, Garbled}]
BY LogAssumption DEF NoPlayback

LEMMA KeepLogType ==
  ASSUME Log, UNCHANGED logVars
  PROVE  LogType'
BY DEF Log, LogType, logVars

LEMMA KeepPlaybkType ==
  ASSUME Log, UNCHANGED playbkVars
  PROVE  PlaybkType'
BY DEF Log, PlaybkType, playbkVars

LEMMA KeepFileType ==
  ASSUME Log, handle' \in {handle, Closed}, UNCHANGED <<files, logged, whole>>
  PROVE  FileType'
<1>1. Closed \in [file : 0 .. NoFile, pos : 0 .. MaxLines]
  BY LogAssumption DEF Closed, NoFile
<1> QED
  BY <1>1 DEF Log, FileType

LEMMA ClearLogStep ==
  ASSUME Log, ResetWaits, ClearLog
  PROVE  Log'
<1>1. /\ cnt' = 0 /\ binNum' = 0
      /\ campaign.quiet => ~ena
      /\ UNCHANGED <<campaign, ena, maxEntries, filename, playbkVars, fileVars>>
  BY DEF ClearLog, ResetWaits
<1>2. LogType' /\ PlaybkType' /\ FileType' /\ OneOwnerOfHandle'
  <2>1. LogType'
    BY <1>1, LogAssumption DEF Log, LogType, Bins
  <2>2. FileType' /\ OneOwnerOfHandle'
    BY <1>1, KeepFileType DEF Log, OneOwnerOfHandle, playbkVars, fileVars
  <2> QED
    BY <1>1, <2>1, <2>2, KeepPlaybkType
<1>3. CountIsLogged' /\ FieldsOK' /\ LogTracked'
  <2>1. CountIsLogged'
    BY <1>1 DEF Log, CountIsLogged
  <2>2. FieldsOK'
    BY <1>1 DEF Log, FieldsOK, FileType, playbkVars, fileVars
  <2>3. LogTracked'
    BY <1>1 DEF Log, LogTracked, playbkVars, fileVars
  <2> QED
    BY <2>1, <2>2, <2>3
<1> QED
  BY <1>1, <1>2, <1>3, KeepContents DEF Log, playbkVars, fileVars

LEMMA ClearPlaybkStep ==
  ASSUME Log, ResetWaits, ClearPlaybk
  PROVE  Log'
<1>1. /\ playbkCnt' = 0
      /\ campaign.quiet => ~playbkEna
      /\ UNCHANGED <<campaign, playbkEna, playbkTlm, logVars, fileVars>>
  BY DEF ClearPlaybk, ResetWaits
<1>2. LogType' /\ PlaybkType' /\ FileType' /\ OneOwnerOfHandle'
  <2>1. PlaybkType'
    BY <1>1, LogAssumption DEF Log, PlaybkType
  <2>2. FileType' /\ OneOwnerOfHandle'
    BY <1>1, KeepFileType DEF Log, OneOwnerOfHandle, logVars, fileVars
  <2> QED
    BY <1>1, <2>1, <2>2, KeepLogType
<1>3. CountIsLogged' /\ FieldsOK' /\ LogTracked'
  <2>1. CountIsLogged'
    BY <1>1 DEF Log, CountIsLogged, logVars, fileVars
  <2>2. FieldsOK'
    BY <1>1 DEF Log, FieldsOK, logVars, fileVars
  <2>3. LogTracked'
    BY <1>1 DEF Log, LogTracked, logVars, fileVars
  <2> QED
    BY <2>1, <2>2, <2>3
<1> QED
  BY <1>1, <1>2, <1>3, KeepContents DEF Log, logVars, fileVars

LEMMA StartLogStep ==
  ASSUME Log, FrameType, StartLogCmd
  PROVE  Log'
<1> DEFINE b == running.bin
<1>1. campaign' = campaign /\ b \in 0 .. MaxBins /\ running.max \in Maxima
  BY CommandFact DEF StartLogCmd, Handles
<1>2. CASE ~ValidBin(b)
  BY <1>1, <1>2, QuietLog DEF StartLogCmd
<1>3. CASE ValidBin(b)
  <2>1. /\ b \in Bins /\ b # NoFile
        /\ playbkEna' = FALSE /\ playbkCnt' = playbkCnt
        /\ playbkTlm' = (IF playbkEna THEN NoPlayback ELSE playbkTlm)
        /\ cnt' = 0 /\ binNum' = b /\ maxEntries' = running.max
        /\ filename' = b /\ logged' = <<>> /\ whole' = 0 /\ files' = files
        /\ \/ ena' = TRUE /\ handle' = [file |-> b, pos |-> 0]
           \/ ena' = FALSE /\ handle' = Closed
    <3>1. b \in Bins /\ b # NoFile
      BY <1>1, <1>3, LogAssumption DEF ValidBin, Bins, NoFile
    <3> QED
      BY <3>1, <1>3 DEF StartLogCmd, PlaybkStopped
  <2> HIDE DEF b
  <2>2. playbkTlm' = NoPlayback
    BY <2>1 DEF Log, FieldsOK
  <2>3. LogType'
    <3>1. filename' \in 0 .. NoFile
      BY <2>1, LogAssumption DEF Bins, NoFile
    <3>2. ena' \in BOOLEAN
      BY <2>1
    <3>3. 0 \in 0 .. MaxLines
      BY LogAssumption
    <3> QED
      BY <1>1, <2>1, <3>1, <3>2, <3>3 DEF LogType
  <2>4. PlaybkType'
    BY <2>1, <2>2, NoPlaybackFact DEF Log, PlaybkType
  <2>5. FileType' /\ OneOwnerOfHandle'
    BY <1>1, <2>1, LogAssumption DEF Log, FileType, OneOwnerOfHandle, Closed, NoFile
  <2>6. CountIsLogged' /\ FieldsOK' /\ LogTracked'
    <3>1. Len(files[b].lines) \in Nat
      BY <2>1 DEF Log, FileType, LogFile
    <3>2. handle'.pos = 0 /\ Len(logged') = 0
      BY <2>1 DEF Closed
    <3> QED
      BY <1>1, <2>1, <2>2, <3>1, <3>2 DEF Log, CountIsLogged, FieldsOK, LogTracked
  <2>7. PlaybackFaithful' /\ FileOfOneBin'
    BY <1>1, <2>1, <2>2 DEF Log, PlaybackFaithful, FileOfOneBin
  <2> QED
    BY <2>3, <2>4, <2>5, <2>6, <2>7 DEF Log
<1> QED
  BY <1>2, <1>3

LEMMA StopLogStep ==
  ASSUME Log, StopLogCmd
  PROVE  Log'
<1>1. /\ ena' = FALSE /\ handle' = (IF ena THEN Closed ELSE handle)
      /\ UNCHANGED <<campaign, binNum, cnt, maxEntries, filename, playbkVars, files, logged, whole>>
  BY DEF StopLogCmd, StopLog, Handles
<1>2. LogType' /\ PlaybkType' /\ FileType'
  <2>1. LogType'
    BY <1>1 DEF Log, LogType
  <2> QED
    BY <1>1, <2>1, KeepPlaybkType, KeepFileType
<1>3. OneOwnerOfHandle'
  BY <1>1 DEF Log, OneOwnerOfHandle, playbkVars
<1>4. CountIsLogged' /\ FieldsOK' /\ LogTracked'
  BY <1>1 DEF Log, CountIsLogged, FieldsOK, LogTracked, OneOwnerOfHandle, playbkVars
<1> QED
  BY <1>1, <1>2, <1>3, <1>4, KeepContents DEF Log, playbkVars

LEMMA StartPlaybkStep ==
  ASSUME Log, StartPlaybkCmd
  PROVE  Log'
<1>1. /\ ena' = FALSE
      /\ UNCHANGED <<campaign, binNum, cnt, maxEntries, filename, playbkTlm, files, logged, whole>>
  BY DEF StartPlaybkCmd, Handles, LogStops
<1>2. CASE /\ ~playbkEna /\ cnt > 0 /\ playbkEna' = TRUE /\ playbkCnt' = 0
           /\ handle' = [file |-> filename, pos |-> 0]
  <2>1. filename # NoFile
    BY <1>2 DEF Log, FieldsOK
  <2>2. LogType' /\ PlaybkType' /\ FileType'
    <3>1. LogType'
      BY <1>1 DEF Log, LogType
    <3>2. PlaybkType'
      BY <1>1, <1>2, LogAssumption DEF Log, PlaybkType
    <3>3. FileType'
      BY <1>1, <1>2, LogAssumption DEF Log, LogType, FileType
    <3> QED
      BY <3>1, <3>2, <3>3
  <2>3. OneOwnerOfHandle'
    BY <1>1, <1>2, <2>1 DEF OneOwnerOfHandle, Closed
  <2>4. CountIsLogged' /\ FieldsOK' /\ LogTracked'
    BY <1>1, <1>2, <2>1 DEF Log, CountIsLogged, FieldsOK, LogTracked
  <2> QED
    BY <1>1, <2>2, <2>3, <2>4, KeepContents DEF Log
<1>3. CASE handle' = (IF ena THEN Closed ELSE handle) /\ UNCHANGED <<playbkEna, playbkCnt>>
  <2>1. LogType' /\ PlaybkType' /\ FileType'
    <3>1. LogType'
      BY <1>1 DEF Log, LogType
    <3> QED
      BY <1>1, <1>3, <3>1, KeepPlaybkType, KeepFileType DEF playbkVars
  <2>2. OneOwnerOfHandle'
    BY <1>1, <1>3 DEF Log, OneOwnerOfHandle
  <2>3. CountIsLogged' /\ FieldsOK' /\ LogTracked'
    BY <1>1, <1>3 DEF Log, CountIsLogged, FieldsOK, LogTracked, OneOwnerOfHandle
  <2> QED
    BY <1>1, <2>1, <2>2, <2>3, KeepContents DEF Log
<1> QED
  BY <1>2, <1>3 DEF StartPlaybkCmd, PlaybkRestarts

LEMMA StopPlaybkStep ==
  ASSUME Log, StopPlaybk, UNCHANGED <<campaign, logVars, files, logged, whole>>
  PROVE  Log'
<1>1. /\ playbkEna' = FALSE /\ playbkCnt' = playbkCnt
      /\ playbkTlm' = (IF playbkEna THEN NoPlayback ELSE playbkTlm)
      /\ handle' = (IF playbkEna THEN Closed ELSE handle)
  BY DEF StopPlaybk, PlaybkStopped
<1>2. playbkTlm' = NoPlayback
  BY <1>1 DEF Log, FieldsOK
<1>3. LogType' /\ PlaybkType' /\ FileType'
  <2>1. PlaybkType'
    BY <1>1, <1>2, NoPlaybackFact DEF Log, PlaybkType
  <2> QED
    BY <1>1, <2>1, KeepLogType, KeepFileType
<1>4. OneOwnerOfHandle'
  BY <1>1 DEF Log, OneOwnerOfHandle, logVars
<1>5. CountIsLogged' /\ FieldsOK' /\ LogTracked'
  BY <1>1, <1>2 DEF Log, CountIsLogged, FieldsOK, LogTracked, OneOwnerOfHandle, logVars
<1>6. PlaybackFaithful' /\ FileOfOneBin'
  BY <1>2 DEF Log, PlaybackFaithful, FileOfOneBin
<1> QED
  BY <1>3, <1>4, <1>5, <1>6 DEF Log

\* A line that is put into a file.
LEMMA PutFact ==
  ASSUME NEW q \in Seq(Line), NEW k \in Nat, NEW l \in Line
  PROVE  /\ Put(q, k, l) \in Seq(Line)
         /\ Len(Put(q, k, l)) = IF k < Len(q) THEN Len(q) ELSE Len(q) + 1
         /\ \A i \in DOMAIN Put(q, k, l) :
              Put(q, k, l)[i] = l \/ (i \in DOMAIN q /\ Put(q, k, l)[i] = q[i])
         /\ k <= Len(q) => /\ Put(q, k, l)[k + 1] = l
                           /\ \A i \in 1 .. k : Put(q, k, l)[i] = q[i]
<1> DEFINE p == Put(q, k, l)
<1>1. Len(q) \in Nat /\ DOMAIN q = 1 .. Len(q)
  OBVIOUS
<1>2. CASE k < Len(q)
  <2>1. p = [q EXCEPT ![k + 1] = l]
    BY <1>2 DEF Put
  <2>2. p \in Seq(Line) /\ Len(p) = Len(q)
    BY <1>1, <1>2, <2>1
  <2> QED
    BY <1>1, <1>2, <2>1, <2>2
<1>3. CASE ~(k < Len(q))
  <2>1. p = Append(q, l)
    BY <1>3 DEF Put
  <2> QED
    BY <1>1, <1>3, <2>1, AppendProperties
<1> QED
  BY <1>2, <1>3

\* The open file.
LEMMA OpenFact ==
  ASSUME Log, ena \/ playbkEna
  PROVE  filename \in Bins /\ filename # NoFile /\ handle.file = filename /\ ~(ena /\ playbkEna)
<1>1. handle # Closed /\ handle.file = filename /\ ~(ena /\ playbkEna)
  BY DEF Log, OneOwnerOfHandle
<1>2. filename # NoFile
  BY DEF Log, FieldsOK
<1>3. filename \in 0 .. MaxBins
  BY DEF Log, LogType, NoFile
<1> QED
  BY <1>1, <1>2, <1>3, LogAssumption DEF Bins, NoFile

\* The first lines of a file.
LEMMA FirstLines ==
  ASSUME NEW q \in Seq(Line), NEW k \in 0 .. Len(q)
  PROVE  /\ SubSeq(q, 1, k) \in Seq(Line) /\ Len(SubSeq(q, 1, k)) = k
         /\ \A i \in 1 .. k : SubSeq(q, 1, k)[i] = q[i]
<1>1. \A i \in 1 .. k : q[i] \in Line
  OBVIOUS
<1> QED
  BY <1>1, SubSeqProperties

\* What a write that does not fail, whole or cut, leaves in the open file:
\* samples of the bin, behind those that were written whole.
LEMMA WriteFact ==
  ASSUME Log, ena, NEW l \in Line, handle.pos < MaxLines, WriteWhole(l) \/ WriteCut
  PROVE  /\ files' \in [Bins -> LogFile] /\ whole' \in 0 .. MaxLines
         /\ \A b \in Bins : b # filename => files'[b] = files[b]
         /\ \A i \in DOMAIN files'[filename].lines :
              \/ files'[filename].lines[i] = l
              \/ /\ i \in DOMAIN files[filename].lines
                 /\ files'[filename].lines[i] = files[filename].lines[i]
         /\ Len(files'[filename].lines) <= MaxLines
         /\ whole' \in {whole, whole + 1} /\ (whole' = whole + 1 => whole = Len(logged))
         /\ whole' <= Len(logged) + 1
         /\ whole' <= Len(files'[filename].lines)
         /\ whole' = whole + 1 => files'[filename].lines[whole + 1] = l
         /\ \A i \in 1 .. whole : files'[filename].lines[i] = files[filename].lines[i]
<1> DEFINE f == filename
           q == files[f].lines
           new == files'[f].lines
<1>1. /\ f \in Bins /\ f # NoFile /\ handle.file = f /\ handle.pos = Len(logged)
      /\ whole \in 0 .. MaxLines /\ whole <= Len(logged) /\ Len(logged) \in Nat
      /\ files \in [Bins -> LogFile] /\ q \in Seq(Line) /\ Len(q) \in Nat /\ Len(q) <= MaxLines
      /\ whole <= Len(q)
  <2>1. f \in Bins /\ f # NoFile /\ handle.file = f
    BY OpenFact
  <2>2. files \in [Bins -> LogFile] /\ Len(logged) \in Nat /\ whole \in 0 .. MaxLines
    BY DEF Log, FileType
  <2>3. q \in Seq(Line) /\ Len(q) \in Nat
    BY <2>1, <2>2 DEF LogFile
  <2> QED
    BY <2>1, <2>2, <2>3 DEF Log, FieldsOK, LogTracked
<1>2. CASE WriteWhole(l)
  <2>1. whole = handle.pos /\ whole' = whole + 1 /\ files' = [files EXCEPT ![f].lines = Put(q, whole, l)]
    BY <1>1, <1>2 DEF WriteWhole
  <2>2. /\ Put(q, whole, l) \in Seq(Line)
        /\ Len(Put(q, whole, l)) = IF whole < Len(q) THEN Len(q) ELSE Len(q) + 1
        /\ \A i \in DOMAIN Put(q, whole, l) :
             Put(q, whole, l)[i] = l \/ (i \in DOMAIN q /\ Put(q, whole, l)[i] = q[i])
        /\ Put(q, whole, l)[whole + 1] = l
        /\ \A i \in 1 .. whole : Put(q, whole, l)[i] = q[i]
    <3> HIDE DEF q, f
    <3>1. q \in Seq(Line) /\ whole \in Nat /\ whole <= Len(q)
      BY <1>1
    <3> QED
      BY <3>1, PutFact
  <2>3. files' = [files EXCEPT ![f] = [lines |-> Put(q, whole, l), frayed |-> files[f].frayed]]
    <3>1. files[f] \in LogFile
      BY <1>1
    <3>2. [files[f] EXCEPT !.lines = Put(q, whole, l)] = [lines |-> Put(q, whole, l), frayed |-> files[f].frayed]
      BY <3>1 DEF LogFile
    <3>3. files' = [files EXCEPT ![f] = [files[f] EXCEPT !.lines = Put(q, whole, l)]]
      BY <2>1
    <3> QED
      BY <3>2, <3>3
  <2>4. [lines |-> Put(q, whole, l), frayed |-> files[f].frayed] \in LogFile
    BY <1>1, <2>2 DEF LogFile
  <2>5. files' \in [Bins -> LogFile] /\ new = Put(q, whole, l) /\ \A b \in Bins : b # f => files'[b] = files[b]
    BY <1>1, <2>3, <2>4
  <2>6. whole' \in 0 .. MaxLines /\ whole' <= Len(logged) + 1 /\ whole = Len(logged)
    BY <1>1, <2>1, LogAssumption
  <2>7. Len(new) <= MaxLines
    BY <1>1, <2>1, <2>2, <2>5, LogAssumption
  <2>8. whole' <= Len(new)
    BY <1>1, <2>1, <2>2, <2>5
  <2> HIDE DEF q, f, new
  <2>9. f = filename /\ q = files[f].lines /\ new = files'[f].lines
    BY DEF q, f, new
  <2> QED
    BY <1>1, <2>1, <2>2, <2>5, <2>6, <2>7, <2>8, <2>9
<1>3. CASE WriteCut
  <2>1. whole' = whole /\ files' = [files EXCEPT ![f] = [lines |-> SubSeq(q, 1, whole), frayed |-> TRUE]]
    BY <1>1, <1>3 DEF WriteCut
  <2>2. /\ SubSeq(q, 1, whole) \in Seq(Line)
        /\ Len(SubSeq(q, 1, whole)) = whole /\ whole <= MaxLines
        /\ \A i \in DOMAIN SubSeq(q, 1, whole) : i \in DOMAIN q /\ SubSeq(q, 1, whole)[i] = q[i]
        /\ \A i \in 1 .. whole : SubSeq(q, 1, whole)[i] = q[i]
    <3> HIDE DEF q, f
    <3>1. q \in Seq(Line) /\ whole \in 0 .. Len(q) /\ DOMAIN q = 1 .. Len(q) /\ whole <= MaxLines
      BY <1>1, LogAssumption
    <3>2. SubSeq(q, 1, whole) \in Seq(Line) /\ DOMAIN SubSeq(q, 1, whole) = 1 .. whole
      BY <3>1, FirstLines
    <3> QED
      BY <3>1, <3>2, FirstLines
  <2>3. [lines |-> SubSeq(q, 1, whole), frayed |-> TRUE] \in LogFile
    BY <2>2 DEF LogFile
  <2>4. files' \in [Bins -> LogFile] /\ new = SubSeq(q, 1, whole) /\ \A b \in Bins : b # f => files'[b] = files[b]
    BY <1>1, <2>1, <2>3
  <2> HIDE DEF q, f, new
  <2>5. f = filename /\ q = files[f].lines /\ new = files'[f].lines
    BY DEF q, f, new
  <2> QED
    BY <1>1, <2>1, <2>2, <2>4, <2>5
<1> QED
  BY <1>2, <1>3

\* A sample is put behind the last one, unless the write fails.
LEMMA LogSampleStep ==
  ASSUME Log, FrameType, LogDataSample
  PROVE  Log'
<1> DEFINE l == [bin |-> running.bin, sample |-> running.sample]
           f == filename
           k == handle.pos
<1>1. /\ ena /\ running.bin = binNum /\ running.bin \in Bins /\ running.sample \in Samples
      /\ UNCHANGED <<campaign, binNum, maxEntries, filename, playbkVars>>
  BY CommandFact DEF LogDataSample, Logging, Handles
<1>2. CASE UNCHANGED <<ena, cnt, handle, files, logged, whole>>
  BY <1>1, <1>2, QuietLog DEF logVars, fileVars
<1>3. CASE /\ k < MaxLines
           /\ WriteWhole(l) \/ WriteCut
           /\ logged' = Append(logged, l)
           /\ cnt' = cnt + 1
           /\ IF AtMaximum(cnt + 1)
              THEN ena' = FALSE /\ handle' = Closed
              ELSE handle' = [handle EXCEPT !.pos = k + 1] /\ ena' = ena
  <2>1. /\ l \in Line /\ f \in Bins /\ f # NoFile /\ handle.file = f /\ k \in Nat
        /\ ~playbkEna /\ l.bin = running.bin /\ k = Len(logged)
    <3>1. f \in Bins /\ f # NoFile /\ handle.file = f /\ ~playbkEna
      BY <1>1, OpenFact
    <3>2. k \in Nat /\ k = Len(logged)
      BY <1>1 DEF Log, FileType, FieldsOK
    <3>3. l \in Line /\ l.bin = running.bin
      BY <1>1 DEF Line
    <3> QED
      BY <3>1, <3>2, <3>3
  <2> HIDE DEF l
  <2>2. /\ files' \in [Bins -> LogFile] /\ whole' \in 0 .. MaxLines
        /\ \A b \in Bins : b # f => files'[b] = files[b]
        /\ \A i \in DOMAIN files'[f].lines :
             \/ files'[f].lines[i] = l
             \/ i \in DOMAIN files[f].lines /\ files'[f].lines[i] = files[f].lines[i]
        /\ Len(files'[f].lines) <= MaxLines
        /\ whole' \in {whole, whole + 1} /\ (whole' = whole + 1 => whole = Len(logged))
        /\ whole' <= Len(logged) + 1
        /\ whole' <= Len(files'[f].lines)
        /\ whole' = whole + 1 => files'[f].lines[whole + 1] = l
        /\ \A i \in 1 .. whole : files'[f].lines[i] = files[f].lines[i]
    BY <1>1, <1>3, <2>1, WriteFact
  <2>4. /\ logged' \in Seq(Line) /\ Len(logged') = Len(logged) + 1 /\ Len(logged) \in Nat
        /\ \A i \in 1 .. Len(logged) : logged'[i] = logged[i]
        /\ logged'[Len(logged) + 1] = l
    BY <1>3, <2>1, AppendProperties DEF Log, FileType
  <2>6. handle' \in [file : 0 .. NoFile, pos : 0 .. MaxLines]
    <3>1. Closed \in [file : 0 .. NoFile, pos : 0 .. MaxLines]
      BY LogAssumption DEF Closed, NoFile
    <3>2. k + 1 \in 0 .. MaxLines
      BY <1>3, <2>1, LogAssumption
    <3>3. [handle EXCEPT !.pos = k + 1] \in [file : 0 .. NoFile, pos : 0 .. MaxLines]
      BY <3>2 DEF Log, FileType
    <3> QED
      BY <1>3, <3>1, <3>3
  <2>7. FileType'
    BY <2>2, <2>4, <2>6 DEF FileType
  <2>8. cnt <= k /\ cnt \in 0 .. MaxLines
    BY <1>1 DEF Log, FieldsOK, LogType
  <2>9. LogType' /\ PlaybkType'
    <3>1. cnt' \in 0 .. MaxLines
      BY <1>3, <2>1, <2>8, LogAssumption
    <3>2. ena' \in BOOLEAN
      BY <1>3 DEF Log, LogType
    <3>3. LogType'
      BY <1>1, <3>1, <3>2 DEF Log, LogType
    <3> QED
      BY <1>1, <3>3, KeepPlaybkType
  <2>10. OneOwnerOfHandle'
    <3>1. CASE AtMaximum(cnt + 1)
      BY <1>1, <1>3, <2>1, <3>1 DEF OneOwnerOfHandle, playbkVars
    <3>2. CASE ~AtMaximum(cnt + 1)
      <4>1. handle' = [handle EXCEPT !.pos = k + 1] /\ ena'
        BY <1>1, <1>3, <3>2
      <4>2. handle'.file = f /\ handle' # Closed
        BY <2>1, <4>1 DEF Log, FileType, Closed
      <4> QED
        BY <1>1, <2>1, <4>1, <4>2 DEF OneOwnerOfHandle, playbkVars
    <3> QED
      BY <3>1, <3>2
  <2>11. ena' => cnt' < maxEntries /\ handle'.pos = k + 1
    <3>1. maxEntries \in Nat
      BY LogAssumption DEF Log, LogType
    <3>2. [handle EXCEPT !.pos = k + 1].pos = k + 1
      BY DEF Log, FileType
    <3>3. ena' => ~AtMaximum(cnt + 1)
      BY <1>3
    <3>4. ena' => handle' = [handle EXCEPT !.pos = k + 1]
      BY <1>3, <3>3
    <3>5. ~AtMaximum(cnt + 1) => cnt + 1 < maxEntries
      BY <2>8, <3>1 DEF AtMaximum
    <3> QED
      BY <1>3, <3>2, <3>3, <3>4, <3>5
  <2>12. CountIsLogged'
    BY <1>1, <1>3, <2>4, <2>8, <2>11 DEF Log, CountIsLogged
  <2>13. FieldsOK'
    <3>1. \A b \in Bins : Len(files'[b].lines) <= MaxLines
      BY <2>1, <2>2 DEF Log, FieldsOK
    <3>2. ena' => cnt' <= handle'.pos /\ handle'.pos = Len(logged')
      BY <1>3, <2>1, <2>4, <2>8, <2>11
    <3> QED
      BY <1>1, <2>1, <2>2, <2>4, <3>1, <3>2 DEF Log, FieldsOK, playbkVars
  <2>14. ASSUME campaign.quiet
         PROVE  /\ cnt = k /\ binNum = f
                /\ \A i \in 1 .. whole : files[f].lines[i] = logged[i]
    BY <1>1, <2>1, <2>14 DEF Log, CountIsLogged, LogTracked
  <2>15. LogTracked'
    <3> SUFFICES ASSUME campaign.quiet PROVE LogTracked'
      BY <1>1 DEF LogTracked
    <3>1. cnt' = Len(logged') /\ (ena' => cnt' = handle'.pos)
      BY <1>3, <2>1, <2>4, <2>11, <2>14
    <3>2. whole \in Nat /\ whole <= Len(logged)
      BY DEF Log, FileType, FieldsOK
    <3>3. ASSUME NEW i \in 1 .. whole'
          PROVE  files'[f].lines[i] = logged'[i]
      <4>1. CASE i \in 1 .. whole
        BY <2>2, <2>4, <2>14, <3>2, <4>1
      <4>2. CASE i \notin 1 .. whole
        <5>1. i = whole + 1 /\ whole' = whole + 1 /\ whole = Len(logged)
          BY <2>2, <3>2, <4>2
        <5> QED
          BY <2>2, <2>4, <5>1
      <4> QED
        BY <4>1, <4>2
    <3> QED
      BY <1>1, <2>1, <2>14, <3>1, <3>3 DEF LogTracked, playbkVars
  <2>16. PlaybackFaithful'
    BY <1>1, <2>1 DEF Log, FieldsOK, PlaybackFaithful, playbkVars
  <2>17. FileOfOneBin'
    <3> SUFFICES ASSUME campaign.quiet, NEW b \in Bins, NEW i \in DOMAIN files'[b].lines
                 PROVE  files'[b].lines[i].bin = b
      BY <1>1 DEF FileOfOneBin
    <3>1. l.bin = f
      BY <1>1, <2>1, <2>14
    <3> QED
      BY <2>1, <2>2, <3>1 DEF Log, FileOfOneBin
  <2> QED
    BY <2>7, <2>9, <2>10, <2>12, <2>13, <2>15, <2>16, <2>17 DEF Log
<1> QED
  BY <1>2, <1>3 DEF LogDataSample

\* A line is read, or the playback stops.
LEMMA SendLineStep ==
  ASSUME Log, playbkEna, SendLine, UNCHANGED <<campaign, logVars, files, logged, whole>>
  PROVE  Log'
<1> DEFINE f == filename
           k == handle.pos
<1>1. /\ f \in Bins /\ f # NoFile /\ handle.file = f /\ k \in Nat /\ ~ena
      /\ files[f].lines \in Seq(Line) /\ Len(files[f].lines) \in Nat /\ Len(files[f].lines) <= MaxLines
  <2>1. f \in Bins /\ f # NoFile /\ handle.file = f /\ ~ena
    BY OpenFact
  <2>2. k \in Nat /\ files[f] \in LogFile /\ Len(files[f].lines) <= MaxLines
    BY <2>1, LogAssumption DEF Log, FileType, FieldsOK
  <2>3. files[f].lines \in Seq(Line)
    BY <2>2 DEF LogFile
  <2> QED
    BY <2>1, <2>2, <2>3
<1>2. /\ playbkCnt < cnt /\ k < MaxLines /\ playbkEna' = playbkEna
      /\ playbkTlm' = [entry |-> playbkCnt, text |-> LineAt(files[f], k)]
      /\ \/ playbkCnt' = 0 /\ handle' = [handle EXCEPT !.pos = 0]
         \/ playbkCnt + 1 < cnt /\ playbkCnt' = playbkCnt + 1 /\ handle' = [handle EXCEPT !.pos = k + 1]
  <2>1. playbkCnt \in Int /\ cnt \in Int
    BY DEF Log, LogType, PlaybkType
  <2> QED
    BY <1>1, <2>1, LogAssumption DEF SendLine, HasLine
<1>3. playbkCnt \in 0 .. MaxLines /\ cnt \in 0 .. MaxLines
  BY DEF Log, LogType, PlaybkType
<1>4. LineAt(files[f], k) \in Line \cup {Garbled}
  BY <1>1 DEF LineAt
<1>5. handle' \in [file : 0 .. NoFile, pos : 0 .. MaxLines] /\ handle'.file = f
      /\ (handle'.pos = playbkCnt' \/ k # playbkCnt)
  <2>1. k + 1 \in 0 .. MaxLines /\ 0 \in 0 .. MaxLines
    BY <1>1, <1>2, LogAssumption
  <2>2. handle \in [file : 0 .. NoFile, pos : 0 .. MaxLines]
    BY DEF Log, FileType
  <2>3. CASE playbkCnt' = 0 /\ handle' = [handle EXCEPT !.pos = 0]
    BY <1>1, <2>1, <2>2, <2>3
  <2>4. CASE playbkCnt' = playbkCnt + 1 /\ handle' = [handle EXCEPT !.pos = k + 1]
    BY <1>1, <2>1, <2>2, <2>4
  <2> QED
    BY <1>2, <2>3, <2>4
<1>6. FileType'
  BY <1>5 DEF Log, FileType
<1>7. PlaybkType'
  <2>1. playbkTlm' \in [entry : 0 .. MaxLines, text : Line \cup {NoLine, Garbled}]
    BY <1>2, <1>3, <1>4
  <2>2. playbkCnt' \in 0 .. MaxLines
    BY <1>2, <1>3, LogAssumption
  <2> QED
    BY <1>2, <2>1, <2>2 DEF Log, PlaybkType
<1>8. OneOwnerOfHandle'
  BY <1>1, <1>2, <1>5 DEF OneOwnerOfHandle, Closed, logVars
<1>9. CountIsLogged' /\ FieldsOK'
  BY <1>1, <1>2 DEF Log, CountIsLogged, FieldsOK, logVars
<1>10. LogTracked'
  BY <1>1, <1>2, <1>5 DEF Log, LogTracked, logVars
<1>11. PlaybackFaithful'
  <2> SUFFICES ASSUME campaign.quiet PROVE PlaybackFaithful'
    BY DEF PlaybackFaithful
  <2>1. cnt = Len(logged) /\ k = playbkCnt
    BY <1>2, <1>3 DEF Log, LogTracked
  <2>2. ASSUME k < whole
        PROVE  LineAt(files[f], k) = logged[k + 1]
    <3>1. k + 1 \in 1 .. whole /\ k < Len(files[f].lines)
      BY <1>1, <2>2 DEF Log, FileType, FieldsOK
    <3> QED
      BY <1>1, <3>1 DEF Log, LogTracked, LineAt
  <2>3. playbkTlm'.entry = k /\ playbkTlm'.text = LineAt(files[f], k)
    BY <1>2, <2>1
  <2> QED
    BY <1>2, <2>1, <2>2, <2>3 DEF PlaybackFaithful
<1>12. FileOfOneBin'
  BY DEF Log, FileOfOneBin
<1> QED
  BY <1>6, <1>7, <1>8, <1>9, <1>10, <1>11, <1>12, KeepLogType DEF Log

-----------------------------------------------------------------------------
(* All steps.                                                              *)
LEMMA NextIInv == IInv /\ [Next]_vars => IInv'
<1> SUFFICES ASSUME IInv, [Next]_vars PROVE IInv'
    OBVIOUS
<1>1. Frame /\ Log /\ FrameType /\ ResetWaits
  BY Parts DEF Frame
<1>2. CASE Operator \/ (\E s \in Samples : Execute(s)) \/ TestPlaybk \/ Begin
  <2>1. Frame'
    BY <1>1, <1>2, ParentFrame, BeginFrame
  <2>2. UNCHANGED <<campaign, logVars, playbkVars, fileVars>>
    BY <1>2 DEF Operator, SetHistogram, AcceptNewTbl, Invoke, Execute, ResetStatus, TestPlaybk, Begin
  <2> QED
    BY <1>1, <2>1, <2>2, QuietLog, PartsAfter
<1>3. CASE ClearLog \/ ClearPlaybk
  BY <1>1, <1>3, ClearFrame, ClearLogStep, ClearPlaybkStep, PartsAfter
<1>4. CASE StartLogCmd
  BY <1>1, <1>4, HandlerFrame, StartLogStep, PartsAfter DEF StartLogCmd
<1>5. CASE StopLogCmd
  BY <1>1, <1>5, HandlerFrame, StopLogStep, PartsAfter DEF StopLogCmd
<1>6. CASE StartPlaybkCmd
  BY <1>1, <1>6, HandlerFrame, StartPlaybkStep, PartsAfter DEF StartPlaybkCmd
<1>7. CASE StopPlaybkCmd
  BY <1>1, <1>7, HandlerFrame, StopPlaybkStep, PartsAfter DEF StopPlaybkCmd
<1>8. CASE LogDataSample
  BY <1>1, <1>8, HandlerFrame, LogSampleStep, PartsAfter DEF LogDataSample
<1>9. CASE PlaybkSamples
  <2>1. Frame' /\ campaign' = campaign
    BY <1>1, <1>9, HandlerFrame DEF PlaybkSamples
  <2> QED
    BY <1>1, <1>9, <2>1, SendLineStep, StopPlaybkStep, PartsAfter DEF PlaybkSamples
<1>10. CASE RunNothing
  <2>1. Frame' /\ campaign' = campaign
    BY <1>1, <1>10, HandlerFrame DEF RunNothing
  <2> QED
    BY <1>1, <1>10, <2>1, QuietLog, PartsAfter DEF RunNothing
<1>11. CASE UNCHANGED vars
  <2>1. Frame'
    BY <1>1, <1>11 DEF vars, parentVars, queueVars, logVars, playbkVars, Frame, FrameType, ResetWaits
  <2> QED
    BY <1>1, <1>11, <2>1, QuietLog, PartsAfter DEF vars
<1> QED
  BY <1>2, <1>3, <1>4, <1>5, <1>6, <1>7, <1>8, <1>9, <1>10, <1>11 DEF Next, App, Child

-----------------------------------------------------------------------------
(* Theorems.                                                               *)
THEOREM Invariance == Spec => []IInv
BY InitIInv, NextIInv, PTL DEF Spec

\* The one handle has one owner in every order of commands, samples and resets,
\* and the counter is that of the log (histogram_log.c:172, 177, 227 and 128).
THEOREM StateCorrect == Spec => []StateOK
BY Invariance, PTL DEF IInv

\* A playback packet holds the line of the sample it names
\* (histogram_log.c:398).
THEOREM PlaybackCorrect == Spec => []PlaybackFaithful
BY Invariance, PTL DEF IInv

\* The file of a bin holds samples of that bin only (histogram_log.c:103
\* and 183).
THEOREM FilesCorrect == Spec => []FileOfOneBin
BY Invariance, PTL DEF IInv
=============================================================================
