------------------------------- MODULE EvtPlbk -------------------------------
(***************************************************************************)
(* Event playback of KIT_TO (src/apps/kit_to/fsw/src/evt_plbk.c): a start  *)
(* command makes the event service write its log to a file; on the cycles  *)
(* of housekeeping requests the app waits for the file, loads it, and then *)
(* sends its events in telemetry packets, over and over.                   *)
(*                                                                         *)
(* The event service (cfe_evs_log.c) is a task of its own: it takes the    *)
(* command, creates the file, writes and closes it, in steps.              *)
(***************************************************************************)
EXTENDS Integers, Sequences

CONSTANTS
  LogFiles,    \* names of event log files
  LogMax,      \* CFE_PLATFORM_EVS_LOG_MAX
  PerPkt,      \* KIT_TO_PLBK_EVENTS_PER_TLM_MSG
  EvsCounts,   \* numbers of events the log of the event service may hold
  Periods,     \* values of HkCyclePeriod
  MaxStarts,   \* bound on the start commands
  NoLogFile,
  PlbkCampaigns  \* subset of {"whole", "any"}

ASSUME PlbkAssumption ==
  /\ LogMax \in Nat \ {0} /\ EvsCounts \subseteq 0 .. LogMax /\ PerPkt \in Nat \ {0}
  /\ Periods \subseteq Nat /\ Periods # {} /\ MaxStarts \in Nat
  /\ LogFiles # {} /\ NoLogFile \notin LogFiles
  /\ PlbkCampaigns \subseteq {"whole", "any"}

VARIABLES
  plbkCampaign,  \* chosen at the start
  enabled, copied, attempts, hkPeriod, hkCount,   \* EVT_PLBK_Class_t
  logFile,       \* EventLogFile
  eventLog,      \* EventLog: the latest start when it was written, and EventCnt
  plbkIdx,       \* EventLog.PlbkIdx
  covered,       \* history: indices sent since the load
  evsCmds,       \* write commands on their way to EVS: the files
  evsFile,       \* the file EVS is writing
  evsCount,      \* events it writes
  disk,          \* event log files
  starts         \* history: number of start commands

evsVars == <<evsCmds, evsFile, evsCount, disk>>
plbkVars == <<plbkCampaign, enabled, copied, attempts, hkPeriod, hkCount, logFile,
              eventLog, plbkIdx, covered, evsVars, starts>>

Absent == [of |-> 0, events |-> 0, header |-> FALSE]   \* of: the latest start when it was written
Garbage == 0     \* the start of a load that found no header

PlbkInit ==
  /\ plbkCampaign \in PlbkCampaigns
  /\ enabled = FALSE /\ copied = FALSE /\ attempts = 0 /\ hkCount = 0
  /\ hkPeriod = (CHOOSE n \in Periods : TRUE) /\ logFile = (CHOOSE f \in LogFiles : TRUE)
  /\ eventLog = [of |-> 0, cnt |-> 0] /\ plbkIdx = 0 /\ covered = {}
  /\ evsCmds = <<>> /\ evsFile = NoLogFile /\ evsCount = 0
  /\ disk = [f \in LogFiles |-> Absent] /\ starts = 0

(***************************************************************************)
(* The event service.                                                      *)
(***************************************************************************)
EvsCreate ==
  /\ evsCmds # <<>> /\ evsFile = NoLogFile
  /\ LET c == Head(evsCmds) IN
       /\ evsFile' = c
       /\ disk' = [disk EXCEPT ![c] = [of |-> starts, events |-> 0, header |-> FALSE]]
  /\ evsCmds' = Tail(evsCmds) /\ evsCount' \in EvsCounts
  /\ UNCHANGED <<plbkCampaign, enabled, copied, attempts, hkPeriod, hkCount, logFile,
                 eventLog, plbkIdx, covered, starts>>

\* The header first, then one event after the other.
EvsWrite ==
  /\ evsFile # NoLogFile /\ (~disk[evsFile].header \/ disk[evsFile].events < evsCount)
  /\ disk' = IF ~disk[evsFile].header THEN [disk EXCEPT ![evsFile].header = TRUE]
                                      ELSE [disk EXCEPT ![evsFile].events = @ + 1]
  /\ UNCHANGED <<plbkCampaign, enabled, copied, attempts, hkPeriod, hkCount, logFile,
                 eventLog, plbkIdx, covered, evsCmds, evsFile, evsCount, starts>>

EvsClose ==
  /\ evsFile # NoLogFile /\ disk[evsFile].header /\ disk[evsFile].events = evsCount
  /\ evsFile' = NoLogFile
  /\ UNCHANGED <<plbkCampaign, enabled, copied, attempts, hkPeriod, hkCount, logFile,
                 eventLog, plbkIdx, covered, evsCmds, evsCount, disk, starts>>

Evs == EvsCreate \/ EvsWrite \/ EvsClose

\* In the campaign "whole" EVS may take its time to start, but KIT_TO does not
\* run between its steps: the file is written at a stroke.
NotAmidWrite == plbkCampaign = "whole" => evsFile = NoLogFile

(***************************************************************************)
(* Commands.                                                               *)
(***************************************************************************)

\* In the campaign "whole" the file name is left alone while a playback is on.
ConfigAllowed == plbkCampaign = "whole" => ~enabled

\* The period is taken over with a file name that is not valid too.
ConfigCmd(f, n) ==
  /\ ConfigAllowed
  /\ hkPeriod' = n /\ logFile' \in {f, logFile}
  /\ UNCHANGED <<plbkCampaign, enabled, copied, attempts, hkCount, eventLog, plbkIdx, covered,
                 evsVars, starts>>

\* Mutant: the file of an earlier playback is left where it is.
LeavesOldFile == disk

\* A file that nobody has open is removed.
RemovesOldFile == IF evsFile = logFile THEN disk ELSE [disk EXCEPT ![logFile] = Absent]

StartCmd ==
  /\ NotAmidWrite
  /\ starts < MaxStarts /\ starts' = starts + 1
  /\ disk' = RemovesOldFile
  /\ evsCmds' = Append(evsCmds, logFile)
  /\ enabled' = TRUE /\ hkCount' = 0 /\ copied' = FALSE /\ attempts' = 0
  /\ UNCHANGED <<plbkCampaign, hkPeriod, logFile, eventLog, plbkIdx, covered, evsFile, evsCount>>

StopCmd ==
  /\ enabled' = FALSE /\ copied' = FALSE /\ hkCount' = 0
  /\ UNCHANGED <<plbkCampaign, attempts, hkPeriod, logFile, eventLog, plbkIdx, covered, evsVars, starts>>

(***************************************************************************)
(* EVT_PLBK_Execute, on a housekeeping request.                            *)
(***************************************************************************)

CountAttempt == attempts + 1

\* LoadLogFile returns false: the file is not there, or does not open.
LoadFails ==
  /\ attempts' = CountAttempt
  /\ enabled' = ~(CountAttempt > 2)
  /\ UNCHANGED <<copied, hkCount, eventLog, plbkIdx, covered>>

\* What the file holds now is loaded.  Without a header the load counts as a
\* success too; its EventCnt, of uninitialized variables, is only reported.
LoadSucceeds ==
  /\ LET d == disk[logFile] IN
       /\ d # Absent
       /\ \/ d.header /\ eventLog' = [of |-> d.of, cnt |-> d.events]
          \/ ~d.header /\ eventLog' = [of |-> Garbage, cnt |-> 0]
  /\ plbkIdx' = 0 /\ copied' = TRUE /\ covered' = {}
  /\ UNCHANGED <<enabled, attempts, hkCount>>

\* Mutant: the last entry of the array is left out.
WrapEarly(i) == IF i >= LogMax - 1 THEN 0 ELSE i

Wrap(i) == IF i >= LogMax THEN 0 ELSE i

\* SendEventTlmMsg: the events from PlbkIdx on, with a wrap at the end of the
\* array; afterwards PlbkIdx may be LogMax.
Sent[n \in 1 .. PerPkt] == Wrap(IF n = 1 THEN plbkIdx ELSE Sent[n - 1] + 1)

SendEvents ==
  LET s == Sent IN
  /\ covered' = covered \cup {s[n] : n \in 1 .. PerPkt}
  /\ plbkIdx' = s[PerPkt] + 1
  /\ hkCount' = 0

WaitOrSend ==
  /\ IF hkCount + 1 >= hkPeriod
     THEN SendEvents
     ELSE hkCount' = hkCount + 1 /\ UNCHANGED <<plbkIdx, covered>>
  /\ UNCHANGED <<enabled, copied, attempts, eventLog>>

Execute ==
  /\ NotAmidWrite
  /\ \/ ~enabled /\ UNCHANGED <<enabled, copied, attempts, hkCount, eventLog, plbkIdx, covered>>
     \/ enabled /\ copied /\ WaitOrSend
     \/ enabled /\ ~copied /\ (LoadFails \/ LoadSucceeds)
  /\ UNCHANGED <<plbkCampaign, hkPeriod, logFile, evsVars, starts>>

PlbkCommand == (\E f \in LogFiles, n \in Periods : ConfigCmd(f, n)) \/ StartCmd \/ StopCmd

(***************************************************************************)
(* Properties.                                                             *)
(***************************************************************************)

PlbkTypeOK ==
  /\ enabled \in BOOLEAN /\ copied \in BOOLEAN /\ attempts \in 0 .. 3
  /\ hkPeriod \in Periods /\ hkCount \in Nat /\ logFile \in LogFiles
  /\ eventLog.of \in 0 .. starts /\ eventLog.cnt \in 0 .. LogMax
  /\ plbkIdx \in 0 .. LogMax /\ covered \subseteq 0 .. LogMax - 1
  /\ copied => enabled
  /\ starts \in 0 .. MaxStarts /\ evsCmds \in Seq(LogFiles)
  /\ evsFile \in LogFiles \cup {NoLogFile} /\ evsCount \in 0 .. LogMax
  /\ disk \in [LogFiles -> [of : 0 .. MaxStarts, events : 0 .. LogMax, header : BOOLEAN]]

\* What keeps the types: a playback that waits has an attempt left, and no file
\* is from a start to come.
PlbkBounds ==
  /\ enabled => attempts <= 2
  /\ \A f \in LogFiles : disk[f].of <= starts

\* What is played back is a log written since the latest start and never the
\* file of an earlier playback (evt_plbk.c:207, 217), provided that
\* KIT_TO does not see a file that is being written and that the file name is
\* left alone.
FreshLog ==
  plbkCampaign = "whole" /\ copied => eventLog.of = starts

\* A file that EVS is not writing is complete, and that of a playback which is
\* on was written since its start.
LogFileOK ==
  /\ logFile \in LogFiles /\ evsFile \in LogFiles \cup {NoLogFile} /\ evsCmds \in Seq(LogFiles)
  /\ disk \in [LogFiles -> [of : Nat, events : Int, header : BOOLEAN]] /\ starts \in Nat
  /\ copied => enabled
  /\ \A f \in LogFiles : f # evsFile => disk[f] = Absent \/ disk[f].header
  /\ plbkCampaign = "whole" /\ enabled =>
       (disk[logFile] = Absent /\ evsFile # logFile) \/ disk[logFile].of = starts

\* No event is passed over: what was sent since the load are the events up to
\* the next one, and all of them once the index has wrapped, wherever in a packet
\* that was (evt_plbk.c:434-450).
NoEventSkipped ==
  covered = 0 .. plbkIdx - 1 \/ covered = 0 .. LogMax - 1

\* What is played back is the log that was asked for, event after event.
PlaybackTrue == FreshLog /\ NoEventSkipped

\* A start is resolved: the log is loaded, or the playback is given up after
\* three attempts or stopped (evt_plbk.c:134).
StartResolves == enabled /\ ~copied ~> copied \/ ~enabled

\* Every loaded event is sent in the end, whatever the period, unless the
\* playback is stopped or started again: the packets wrap at the end of the
\* array and not at a packet that would not fit (evt_plbk.c:434).
PlaybackCovers ==
  copied /\ eventLog.of # Garbage ~> (0 .. eventLog.cnt - 1) \subseteq covered \/ ~copied

\* A playback that is started runs: it is resolved and sends all it loaded.
PlaybackRuns == StartResolves /\ PlaybackCovers
=============================================================================
