----------------------------- MODULE HistogramLog -----------------------------
(***************************************************************************)
(* The log of APP_C_DEMO (src/apps/app_c_demo/fsw/src): the app's task     *)
(* samples a device into the bins of a histogram and hands each sample to  *)
(* a child task, which writes those of one bin to a file or plays a file   *)
(* back, a line per sample.  The child task is that of ChildQueue, which   *)
(* ChildMgr implements: accepted commands are run one at a time, in order. *)
(*                                                                         *)
(* The two tasks share the log object without a lock.  The reset command   *)
(* runs in the app's task and reads and clears fields of the child; its    *)
(* accesses are steps of their own.  Bin counts are left out: nothing but  *)
(* telemetry depends on them.                                              *)
(*                                                                         *)
(* A write may fail, or be cut short and be counted all the same: what     *)
(* follows in the file is then no line of the model, and a line read from  *)
(* there is Garbled, whatever its text.                                    *)
(***************************************************************************)
EXTENDS Integers, Sequences, FiniteSetsExt

CONSTANTS
  MaxBins,    \* HISTOGRAM_MAX_BINS
  Samples,    \* values of the device, 0 .. DataMod - 1
  Tables,     \* histogram tables: sequences of [lo, hi] with lo < hi
  Maxima,     \* MaxEntries of a start command
  Entries,    \* CHILDMGR_CMD_Q_ENTRIES
  MaxLines,   \* bound: a file holds no more lines, a write beyond them fails
  Campaigns   \* environments: records of type Campaign

ASSUME LogAssumption ==
  /\ MaxBins \in Nat \ {0} /\ Entries \in Nat \ {0} /\ MaxLines \in Nat
  /\ Samples \subseteq Nat /\ Maxima \subseteq Nat
  /\ \A t \in Tables : /\ t \in Seq([lo : Int, hi : Int]) /\ Len(t) <= MaxBins
                       /\ \A i \in DOMAIN t : t[i].lo < t[i].hi

Campaign ==
  [depth : 1 .. Entries,  \* bound: commands in the queue at a time
   quiet : BOOLEAN]       \* resets are commanded only when the child is idle

ASSUME CampaignAssumption == Campaigns \subseteq Campaign

Bins == 0 .. MaxBins - 1
NoFile == MaxBins          \* the name "Undefined"
Line == [bin : Bins, sample : Samples]
NoLine == [bin |-> 0, sample |-> -1]   \* an empty DataSampleTxt
Garbled == [bin |-> 0, sample |-> -2]  \* a text that no single write made
LogFile == [lines : Seq(Line), frayed : BOOLEAN]  \* frayed: other bytes follow
Closed == [file |-> NoFile, pos |-> 0]

StartLog == [op : {"startlog"}, bin : 0 .. MaxBins, max : Maxima]
Plain == [op : {"stoplog", "startplaybk", "stopplaybk"}]
Sampled == [op : {"run"}, bin : Bins, sample : Samples]
Commands == StartLog \cup Plain \cup Sampled
Idle == [op |-> "none"]

VARIABLES
  campaign,             \* chosen at the start
  histEna, tbl,         \* Histogram->Ena and the table's bins
  pending, running,     \* the queue to the child and the command it runs
  ena, binNum, cnt, maxEntries, playbkEna, playbkCnt,   \* HistogramLog
  filename,             \* HistogramLog->Filename, by its bin
  handle,               \* HistogramLog->FileHandle: file and position
  playbkTlm,            \* BinPlaybkTlm.Payload: LogFileEntry and DataSampleTxt
  files,                \* contents of the log files, by bin
  reset,                \* where the app's task is in HISTOGRAM_LOG_ResetStatus
  logged,               \* history: the samples counted since the log was started
  whole                 \* history: how many of them before the first cut write

parentVars == <<histEna, tbl>>
queueVars == <<pending, running>>
logVars == <<ena, binNum, cnt, maxEntries, filename>>
playbkVars == <<playbkEna, playbkCnt, playbkTlm>>
fileVars == <<handle, files, logged, whole>>
vars == <<campaign, parentVars, queueVars, logVars, playbkVars, fileVars, reset>>

Q == INSTANCE ChildQueue WITH Msgs <- Commands, NoMsg <- Idle

NoPlayback == [entry |-> 0, text |-> NoLine]

Init ==
  /\ campaign \in Campaigns
  /\ histEna = FALSE /\ tbl \in Tables
  /\ pending = <<>> /\ running = Idle
  /\ ena = FALSE /\ binNum = 0 /\ cnt = 0 /\ maxEntries = 0 /\ filename = NoFile
  /\ playbkEna = FALSE /\ playbkCnt = 0 /\ playbkTlm = NoPlayback
  /\ handle = Closed /\ files = [b \in Bins |-> [lines |-> <<>>, frayed |-> FALSE]]
  /\ logged = <<>> /\ whole = 0
  /\ reset = "idle"

(***************************************************************************)
(* The app's task.                                                         *)
(***************************************************************************)

\* HISTOGRAM_StartCmd, HISTOGRAM_StopCmd
SetHistogram(on) ==
  /\ reset = "idle" /\ histEna' = on
  /\ UNCHANGED <<campaign, tbl, queueVars, logVars, playbkVars, fileVars, reset>>

\* An accepted load: the histogram stops.
AcceptNewTbl(t) ==
  /\ reset = "idle" /\ tbl' = t /\ histEna' = FALSE
  /\ UNCHANGED <<campaign, queueVars, logVars, playbkVars, fileVars, reset>>

InQueue == Len(pending) + (IF running = Idle THEN 0 ELSE 1)

\* CHILDMGR_InvokeChildCmd for a command of the operator or of the app.
Invoke(m) ==
  /\ reset = "idle" /\ Q!Accept(m) /\ InQueue < campaign.depth
  /\ UNCHANGED <<campaign, parentVars, logVars, playbkVars, fileVars, reset>>

Matching(s) == {i \in DOMAIN tbl : tbl[i].lo <= s /\ s <= tbl[i].hi}

\* An execute request: HISTOGRAM_AddDataSample gives the last bin that
\* matches, and the sample goes to the child.
Execute(s) ==
  /\ histEna /\ Matching(s) # {}
  /\ Invoke([op |-> "run", bin |-> Max(Matching(s)) - 1, sample |-> s])

\* An operator who resets in a quiet campaign waits for the child.
ResetAllowed == ~campaign.quiet \/ (pending = <<>> /\ running = Idle)

\* Mutant: the log is cleared while it runs.
LogClearableAlways == TRUE

LogClearable == ~ena

\* HISTOGRAM_LOG_ResetStatus: the two tests and the writes behind them.
ResetStatus ==
  /\ reset = "idle" /\ ResetAllowed
  /\ reset' = IF LogClearable THEN "clearlog" ELSE "testplaybk"
  /\ UNCHANGED <<campaign, parentVars, queueVars, logVars, playbkVars, fileVars>>

ClearLog ==
  /\ reset = "clearlog"
  /\ binNum' = 0 /\ cnt' = 0 /\ reset' = "testplaybk"
  /\ UNCHANGED <<campaign, parentVars, queueVars, ena, maxEntries, filename, playbkVars, fileVars>>

TestPlaybk ==
  /\ reset = "testplaybk"
  /\ reset' = IF playbkEna THEN "idle" ELSE "clearplaybk"
  /\ UNCHANGED <<campaign, parentVars, queueVars, logVars, playbkVars, fileVars>>

ClearPlaybk ==
  /\ reset = "clearplaybk"
  /\ playbkCnt' = 0 /\ reset' = "idle"
  /\ UNCHANGED <<campaign, parentVars, queueVars, logVars, playbkEna, playbkTlm, fileVars>>

(***************************************************************************)
(* The child task: Begin takes a command, its handler ends with Q!End.     *)
(***************************************************************************)
Begin ==
  /\ Q!Begin
  /\ UNCHANGED <<campaign, parentVars, logVars, playbkVars, fileVars, reset>>

Handles(op) ==
  /\ running.op = op /\ Q!End
  /\ UNCHANGED <<campaign, parentVars, reset>>

\* What StopPlaybk leaves of playback, if it was on.
PlaybkStopped ==
  /\ playbkEna' = FALSE
  /\ playbkTlm' = IF playbkEna THEN NoPlayback ELSE playbkTlm
  /\ UNCHANGED playbkCnt

ValidBin(b) == b < MaxBins

\* HISTOGRAM_LOG_StartLogCmd: the file is created if it is not there and
\* written from its beginning; what it held is not truncated.
StartLogCmd ==
  /\ Handles("startlog")
  /\ \/ /\ ValidBin(running.bin)
        /\ PlaybkStopped
        /\ cnt' = 0 /\ binNum' = running.bin /\ maxEntries' = running.max
        /\ filename' = running.bin /\ logged' = <<>> /\ whole' = 0
        /\ \/ ena' = TRUE /\ handle' = [file |-> running.bin, pos |-> 0]
           \/ ena' = FALSE /\ handle' = Closed    \* OS_OpenCreate fails
        /\ UNCHANGED files
     \/ ~ValidBin(running.bin) /\ UNCHANGED <<logVars, playbkVars, fileVars>>

StopLog == ena' = FALSE /\ handle' = IF ena THEN Closed ELSE handle

StopLogCmd ==
  /\ Handles("stoplog")
  /\ StopLog
  /\ UNCHANGED <<binNum, cnt, maxEntries, filename, playbkVars, files, logged, whole>>

\* Mutant: playback does not wait for the log to be closed.
LogStaysOpen == UNCHANGED ena

LogStops == ena' = FALSE

\* Mutant: a playback begins where the last one stopped.
PlaybkResumes == UNCHANGED playbkCnt

PlaybkRestarts == playbkCnt' = 0

\* HISTOGRAM_LOG_StartPlaybkCmd: a running log is closed first.
StartPlaybkCmd ==
  /\ Handles("startplaybk")
  /\ LogStops
  /\ \/ /\ ~playbkEna /\ cnt > 0
        /\ playbkEna' = TRUE /\ PlaybkRestarts
        /\ handle' = [file |-> filename, pos |-> 0]
     \/ /\ handle' = IF ena THEN Closed ELSE handle   \* no file, playing, or open fails
        /\ UNCHANGED <<playbkEna, playbkCnt>>
  /\ UNCHANGED <<binNum, cnt, maxEntries, filename, playbkTlm, files, logged, whole>>

StopPlaybk == PlaybkStopped /\ handle' = IF playbkEna THEN Closed ELSE handle

StopPlaybkCmd ==
  /\ Handles("stopplaybk")
  /\ StopPlaybk
  /\ UNCHANGED <<logVars, files, logged, whole>>

Put(lines, pos, l) == IF pos < Len(lines) THEN [lines EXCEPT ![pos + 1] = l] ELSE Append(lines, l)

AtMaximum(n) == n >= maxEntries

Logging == ena /\ running.bin = binNum

\* OS_write of a line at the handle's position, all of it or a part.  What is
\* behind a cut line stays unknown, also when later lines are written whole.
WriteWhole(l) ==
  /\ whole = handle.pos /\ whole' = whole + 1
  /\ files' = [files EXCEPT ![handle.file].lines = Put(@, whole, l)]

WriteCut ==
  /\ files' = [files EXCEPT ![handle.file] = [lines |-> SubSeq(@.lines, 1, whole), frayed |-> TRUE]]
  /\ UNCHANGED whole

\* LogDataSample: a write that does not fail is counted, and the log ends at
\* its maximum; a failed write is not counted.
LogDataSample ==
  /\ Handles("run") /\ Logging
  /\ \/ LET l == [bin |-> running.bin, sample |-> running.sample] IN
        /\ handle.pos < MaxLines
        /\ WriteWhole(l) \/ WriteCut
        /\ logged' = Append(logged, l)
        /\ cnt' = cnt + 1
        /\ IF AtMaximum(cnt + 1)
           THEN ena' = FALSE /\ handle' = Closed
           ELSE handle' = [handle EXCEPT !.pos = @ + 1] /\ UNCHANGED ena
     \/ UNCHANGED <<ena, cnt, handle, files, logged, whole>>
  /\ UNCHANGED <<binNum, maxEntries, filename, playbkVars>>

HasLine(f, pos) == pos < Len(f.lines) \/ (f.frayed /\ pos < MaxLines)
LineAt(f, pos) == IF pos < Len(f.lines) THEN f.lines[pos + 1] ELSE Garbled

\* A line is read and sent as the entry playbkCnt.
SendLine ==
  /\ playbkCnt < cnt /\ HasLine(files[handle.file], handle.pos)
  /\ playbkTlm' = [entry |-> playbkCnt, text |-> LineAt(files[handle.file], handle.pos)]
  /\ IF playbkCnt + 1 >= cnt
     THEN playbkCnt' = 0 /\ handle' = [handle EXCEPT !.pos = 0]
     ELSE playbkCnt' = playbkCnt + 1 /\ handle' = [handle EXCEPT !.pos = @ + 1]
  /\ UNCHANGED playbkEna

\* PlaybkSamples: the counter is past the log, or the read fails.
PlaybkSamples ==
  /\ Handles("run") /\ ~Logging /\ playbkEna
  /\ SendLine \/ StopPlaybk
  /\ UNCHANGED <<logVars, files, logged, whole>>

RunNothing ==
  /\ Handles("run") /\ ~Logging /\ ~playbkEna
  /\ UNCHANGED <<logVars, playbkVars, fileVars>>

Operator ==
  \/ \E on \in BOOLEAN : SetHistogram(on)
  \/ \E t \in Tables : AcceptNewTbl(t)
  \/ \E m \in StartLog \cup Plain : Invoke(m)
  \/ ResetStatus
App == (\E s \in Samples : Execute(s)) \/ ClearLog \/ TestPlaybk \/ ClearPlaybk
Child == Begin \/ StartLogCmd \/ StopLogCmd \/ StartPlaybkCmd \/ StopPlaybkCmd
         \/ LogDataSample \/ PlaybkSamples \/ RunNothing

Next == Operator \/ App \/ Child

Spec == Init /\ [][Next]_vars

(***************************************************************************)
(* Properties.                                                             *)
(***************************************************************************)

TypeOK ==
  /\ campaign \in Campaigns /\ histEna \in BOOLEAN /\ tbl \in Tables
  /\ pending \in Seq(Commands) /\ Len(pending) <= campaign.depth
  /\ running \in Commands \cup {Idle}
  /\ ena \in BOOLEAN /\ binNum \in Bins /\ cnt \in 0 .. MaxLines
  /\ maxEntries \in Maxima \cup {0} /\ filename \in 0 .. NoFile
  /\ playbkEna \in BOOLEAN /\ playbkCnt \in 0 .. MaxLines
  /\ playbkTlm \in [entry : 0 .. MaxLines, text : Line \cup {NoLine, Garbled}]
  /\ handle \in [file : 0 .. NoFile, pos : 0 .. MaxLines]
  /\ files \in [Bins -> LogFile] /\ logged \in Seq(Line) /\ whole \in 0 .. MaxLines
  /\ reset \in {"idle", "clearlog", "testplaybk", "clearplaybk"}

\* One handle serves both the log and the playback: it is open exactly while
\* one of them is on, they are never on together, and the open file is the
\* named one, whatever the reset command does in the other task
\* (histogram_log.c:172, 177 and 227).
OneOwnerOfHandle ==
  /\ ~(ena /\ playbkEna)
  /\ handle # Closed <=> (ena \/ playbkEna)
  /\ handle # Closed => handle.file = filename

\* A playback packet with entry i holds the line of the i-th sample logged,
\* not one that an earlier log left in the file, also after the wrap to the
\* first entry and after resets: the entry is one of this log, and as far as
\* no write was cut short before it the text is that sample's.  Behind a cut
\* write, which the code counts as a line, nothing is promised
\* (histogram_log.c:436 and 383).
PlaybackFaithful ==
  campaign.quiet /\ playbkTlm # NoPlayback =>
    /\ playbkTlm.entry < Len(logged)
    /\ playbkTlm.entry < whole => playbkTlm.text = logged[playbkTlm.entry + 1]

\* The file of a bin holds samples of that bin only, though samples wait in
\* the queue while the table, the log and the bin are changed by commands
\* (histogram_log.c:103 and 183).
FileOfOneBin ==
  campaign.quiet => \A b \in Bins : \A i \in DOMAIN files[b].lines : files[b].lines[i].bin = b

\* The counter that bounds the log and drives the playback is the number of
\* samples logged, until a reset clears it (histogram_log.c:128).
CountIsLogged == campaign.quiet /\ ena => cnt = Len(logged) /\ (cnt = 0 \/ cnt < maxEntries)

\* The handle has one owner and the counter its meaning after every order of
\* start, stop, sample and reset.
StateOK == TypeOK /\ OneOwnerOfHandle /\ CountIsLogged

\* What holds of the two tasks' fields in every campaign.
FieldsOK ==
  /\ ena => cnt <= handle.pos /\ handle.pos = Len(logged)
  /\ whole <= Len(logged)
  /\ filename # NoFile => whole <= Len(files[filename].lines)
  /\ ~playbkEna => playbkTlm = NoPlayback
  /\ filename = NoFile => cnt = 0 /\ ~ena /\ ~playbkEna
  /\ \A b \in Bins : Len(files[b].lines) <= MaxLines

\* A reset that waits for the child finds nothing started under it.
ResetWaits ==
  campaign.quiet =>
    /\ reset # "idle" => pending = <<>> /\ running = Idle
    /\ reset = "clearlog" => ~ena
    /\ reset = "clearplaybk" => ~playbkEna

\* Then the open log writes behind what was logged, its file begins with what
\* was logged whole, and the playback reads where its counter says.
LogTracked ==
  campaign.quiet =>
    /\ cnt \in {0, Len(logged)}
    /\ ena => cnt = handle.pos /\ binNum = filename
    /\ playbkEna => handle.pos = playbkCnt
    /\ filename = NoFile => logged = <<>>
    /\ filename # NoFile => \A i \in 1 .. whole : files[filename].lines[i] = logged[i]

\* The inductive invariant.
IInv ==
  /\ StateOK /\ FieldsOK /\ ResetWaits /\ LogTracked
  /\ PlaybackFaithful /\ FileOfOneBin
=============================================================================
