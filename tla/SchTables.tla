------------------------------ MODULE SchTables ------------------------------
(***************************************************************************)
(* The tables of the KIT_SCH app and what is scheduled from them:          *)
(*   - the scheduler table (schtbl.c): which activity of which slot sends  *)
(*     which message, in which passes of the table;                        *)
(*   - the message table (msgtbl.c): the messages, once as table data and  *)
(*     once as the command messages that are sent;                         *)
(*   - the table manager (app_c_fw, tblmgr.c) that loads and dumps both;   *)
(*   - the table commands of scheduler.c and its ProcessSlot.              *)
(* All of it runs in the task of KIT_SCH, one command or slot at a time.   *)
(* Module Scheduler says when a slot is processed; here the slots follow   *)
(* one another.                                                            *)
(*                                                                         *)
(* A JSON table file is the sequence of its records.  A message is known   *)
(* by its id: the length and the data words are left out.                  *)
(***************************************************************************)
EXTENDS KitSch, Integers, SequencesExt

CONSTANTS
  ACTS,       \* SCHTBL_ACTIVITIES_PER_SLOT
  MSGS,       \* MSGTBL_MAX_ENTRIES
  Byte,       \* 256, the width of an entry's fields
  MsgIds,     \* message ids
  NoMsg,      \* the message id of an entry that was never loaded
  Header,     \* Header[m]: first word of the header CFE_MSG_Init makes for m
  Swapped,    \* Swapped[m]: CFE_MAKE_BIG16 of the word m
  MaxRecords, \* records of a message table file that MSGTBL_JSON_FILE_MAX_CHAR
              \* (16384) holds: at about 95 characters each, fewer than MSGS
  Args,       \* Period and Offset of the load commands (uint16)
  MsgArgs,    \* MsgTblIdx of the load commands (uint16)
  SchFiles,   \* scheduler table files
  MsgFiles,   \* message table files
  DefaultSch, \* the scheduler table file loaded at startup
  DefaultMsg, \* the message table file loaded at startup
  Campaigns   \* what the operator does: records of type Campaign

AllOps == {"load sch", "load msg", "dump", "entry", "msg entry", "cfg", "reset"}

Entries == (0 .. SLOTS - 1) \X (0 .. ACTS - 1)

Campaign ==
  [ops : SUBSET AllOps,        \* the commands that are used
   watched : SUBSET Entries]   \* entries whose waits are counted, for the properties

Entry == [enabled : BOOLEAN, period : 0 .. Byte - 1, offset : 0 .. Byte - 1,
          msg : 0 .. Byte - 1]
ZeroEntry == [enabled |-> FALSE, period |-> 0, offset |-> 0, msg |-> 0]
SchRecord == [slot : Nat, act : Nat, enabled : BOOLEAN, period : Nat, offset : Nat,
              msg : Nat, complete : BOOLEAN]
MsgRecord == [id : Nat, topic : MsgIds, complete : BOOLEAN]

ASSUME SizesAssumption ==
  /\ SLOTS \in Nat /\ SLOTS >= 2 /\ ACTS \in Nat \ {0}
  /\ Byte \in Nat \ {0} /\ MSGS \in 1 .. Byte /\ PassMod \in Nat \ {0}
  /\ Args \cup MsgArgs \subseteq Nat /\ MaxRecords \in Nat
ASSUME MessagesAssumption ==
  NoMsg \in MsgIds /\ Header \in [MsgIds -> MsgIds] /\ Swapped \in [MsgIds -> MsgIds]
ASSUME FilesAssumption ==
  /\ DefaultSch \in SchFiles /\ DefaultMsg \in MsgFiles
  /\ SchFiles \subseteq Seq(SchRecord) /\ MsgFiles \subseteq Seq(MsgRecord)
ASSUME CampaignsAssumption == Campaigns \subseteq Campaign

VARIABLES
  campaign,  \* what the operator does, chosen at the start
  sch,       \* SchTbl.Data
  msgData,   \* MsgTbl.Data: the message id in Entry[].Buffer
  msgCmd,    \* MsgTbl.Cmd: the message id of the command message that is sent
  status,    \* LastActionStatus of each table
  dumps,     \* the last dump file of each table
  dumped,    \* the scheduler table when it was dumped
  op,        \* the last command or slot, for the properties
  wait,      \* passes each entry has waited since it was sent, changed or reset
  timed,     \* the wait began with a send
  crashed    \* a division by zero stopped the processor

data == <<sch, msgData, msgCmd>>
clock == <<nextSlot, passes>>
history == <<wait, timed>>
files == <<dumps, dumped>>
tblVars == <<data, clock, status, files, op, history, crashed, campaign>>

Watched == campaign.watched

NoOp == [kind |-> "none"]

-----------------------------------------------------------------------------
(* Loading and dumping.                                                    *)

\* SCHTBL_GetEntryIndex
IndexOk(r) == r.slot < SLOTS /\ r.act < ACTS

\* The fields of SCHTBL_Entry_t are bytes.
ToEntry(r) == [enabled |-> r.enabled, period |-> r.period % Byte,
               offset |-> r.offset % Byte, msg |-> r.msg % Byte]

\* A record of a scheduler table file: it goes into the copy of the table if no
\* record before it was bad.
SchStep(acc, r) ==
  IF acc.ok /\ r.complete /\ IndexOk(r)
  THEN [ok |-> TRUE, tbl |-> [acc.tbl EXCEPT ![<<r.slot, r.act>>] = ToEntry(r)]]
  ELSE [ok |-> FALSE, tbl |-> acc.tbl]

\* SCHTBL's LoadJsonData: records go into a copy of the table until one is bad.
LoadSch(file) ==
  LET read[i \in 0 .. Len(file)] ==
        IF i = 0 THEN [ok |-> TRUE, tbl |-> sch] ELSE SchStep(read[i - 1], file[i])
  IN  read[Len(file)]

\* Mutant: what was read before the bad record is kept.
CommitAll(r, old) == r.tbl
\* The copy is written over the table if every record was good.
Commit(r, old) == IF r.ok THEN r.tbl ELSE old

\* A record of a message table file: a bad id is passed over, a missing attribute
\* ends the load.
MsgStep(acc, r) ==
  IF ~acc.go THEN acc
  ELSE IF r.id >= MSGS THEN [acc EXCEPT !.ok = FALSE]
  ELSE IF ~r.complete THEN [acc EXCEPT !.ok = FALSE, !.go = FALSE]
  ELSE [acc EXCEPT !.tbl = [@ EXCEPT ![r.id] = r.topic], !.cmd = [@ EXCEPT ![r.id] = r.topic]]

\* MSGTBL's LoadJsonData: the command messages are written at once.
LoadMsg(file) ==
  LET read[i \in 0 .. Len(file)] ==
        IF i = 0 THEN [ok |-> file # <<>>, go |-> TRUE, tbl |-> msgData, cmd |-> msgCmd]
        ELSE MsgStep(read[i - 1], file[i])
  IN  read[Len(file)]

\* SCHTBL_DumpCmd writes every activity of every slot, MSGTBL_DumpCmd every
\* message id with its bytes swapped.
\* Mutant: the last slot is left out.
DumpedShort == SLOTS - 1
Dumped == SLOTS

EntryOf(i) == <<(i - 1) \div ACTS, (i - 1) % ACTS>>

SchDump(t) ==
  [i \in 1 .. Dumped * ACTS |->
     LET e == EntryOf(i) IN
       [slot |-> e[1], act |-> e[2], enabled |-> t[e].enabled, period |-> t[e].period,
        offset |-> t[e].offset, msg |-> t[e].msg, complete |-> TRUE]]
MsgDump ==
  [i \in 1 .. MSGS |-> [id |-> i - 1, topic |-> Swapped[msgData[i - 1]], complete |-> TRUE]]

Status(ok) == IF ok THEN "VALID" ELSE "INVALID"

\* The entries of set s begin a new wait.
Restart(s) ==
  /\ wait' = [e \in Watched |-> IF e \in s THEN 0 ELSE wait[e]]
  /\ timed' = [e \in Watched |-> timed[e] /\ e \notin s]

Changed == {e \in Entries : sch'[e] # sch[e]}

-----------------------------------------------------------------------------
\* The constructors clear the tables; the table manager loads the defaults,
\* if their files can be read.
TblInit ==
  /\ campaign \in Campaigns
  /\ sch = [e \in Entries |-> ZeroEntry] /\ passes = 0 /\ nextSlot = 0
  /\ msgData = [m \in 0 .. MSGS - 1 |-> NoMsg] /\ msgCmd = msgData
  /\ status = [t \in {"sch", "msg"} |-> "VALID"]
  /\ dumps = [sch |-> <<>>, msg |-> <<>>] /\ dumped = sch
  /\ op = [kind |-> "startup"]
  /\ wait = [e \in Watched |-> 0] /\ timed = [e \in Watched |-> FALSE]
  /\ crashed = FALSE

Ready(o) == ~crashed /\ op.kind # "startup" /\ o \in campaign.ops

\* TBLMGR_LoadTblCmd for the scheduler table; neither table looks at the
\* load type.
\* The file may be unreadable or not be JSON.
LoadSchTbl(file) ==
  /\ \E readable \in BOOLEAN :
       LET r == LoadSch(file) IN
         /\ sch' = IF readable THEN Commit(r, sch) ELSE sch
         /\ status' = [status EXCEPT !.sch = Status(readable /\ r.ok)]
         /\ op' = [kind |-> "load sch", file |-> file, readable |-> readable, ok |-> readable /\ r.ok]
  /\ Restart(Changed)
  /\ UNCHANGED <<msgData, msgCmd, clock, files, crashed>>

\* The same for the message table; a file longer than the buffer is not JSON.
LoadMsgTbl(file) ==
  /\ \E readable \in BOOLEAN :
       LET r == LoadMsg(file)
           json == readable /\ Len(file) <= MaxRecords
       IN  /\ msgData' = IF json THEN Commit(r, msgData) ELSE msgData
           /\ msgCmd' = IF json THEN r.cmd ELSE msgCmd
           /\ status' = [status EXCEPT !.msg = Status(json /\ r.ok)]
           /\ op' = [kind |-> "load msg", file |-> file, ok |-> json /\ r.ok]
  /\ UNCHANGED <<sch, clock, files, history, crashed>>

\* The constructor registers and loads the message table, then the scheduler
\* table, before the first slot.
Startup ==
  /\ op.kind = "startup"
  /\ \E readSch, readMsg \in BOOLEAN :
       LET s == LoadSch(DefaultSch)
           m == LoadMsg(DefaultMsg)
       IN  /\ sch' = IF readSch THEN Commit(s, sch) ELSE sch
           /\ msgData' = IF readMsg THEN Commit(m, msgData) ELSE msgData
           /\ msgCmd' = IF readMsg THEN m.cmd ELSE msgCmd
           /\ status' = [sch |-> Status(readSch /\ s.ok), msg |-> Status(readMsg /\ m.ok)]
  /\ op' = NoOp
  /\ UNCHANGED <<clock, files, history, crashed>>

Load ==
  \/ /\ Ready("load sch")
     /\ \E file \in SchFiles \cup ({dumps.sch} \ {<<>>}) :
          LoadSchTbl(file)
  \/ /\ Ready("load msg")
     /\ \E file \in MsgFiles \cup ({dumps.msg} \ {<<>>}) :
          LoadMsgTbl(file)

\* TBLMGR_DumpTblCmd: the file cannot be created, or is written in full.
DumpTbl ==
  /\ Ready("dump")
  /\ \E t \in {"sch", "msg"}, created \in BOOLEAN :
       /\ dumps' = IF ~created THEN dumps
                   ELSE [dumps EXCEPT ![t] = IF t = "sch" THEN SchDump(sch) ELSE MsgDump]
       /\ status' = [status EXCEPT ![t] = Status(created)]
       /\ dumped' = IF created /\ t = "sch" THEN sch ELSE dumped
       /\ op' = [kind |-> "dump"]
  /\ UNCHANGED <<data, clock, history, crashed>>

-----------------------------------------------------------------------------
(* Commands on one entry.                                                  *)

\* SCHTBL_ValidEntry, of the commanded uint16 values.
ValidEntry(period, offset, msg) == offset <= period /\ msg < MSGS

\* SCHEDULER_LoadSchTblEntryCmd: the values are narrowed to bytes.
LoadSchTblEntry(e, enabled, period, offset, msg) ==
  /\ Ready("entry") /\ ValidEntry(period, offset, msg)
  /\ sch' = [sch EXCEPT ![e] = ToEntry([enabled |-> enabled, period |-> period,
                                        offset |-> offset, msg |-> msg])]
  /\ Restart({e})
  /\ op' = [kind |-> "entry"]
  /\ UNCHANGED <<msgData, msgCmd, clock, status, files, crashed>>

\* SCHEDULER_CfgSchTblEntryCmd: an entry is validated before it is enabled.
CfgSchTblEntry(e, enabled) ==
  /\ Ready("cfg")
  /\ enabled => ValidEntry(sch[e].period, sch[e].offset, sch[e].msg)
  /\ sch' = [sch EXCEPT ![e].enabled = enabled]
  /\ Restart({e})
  /\ op' = [kind |-> "cfg"]
  /\ UNCHANGED <<msgData, msgCmd, clock, status, files, crashed>>

\* SCHEDULER_LoadMsgTblEntryCmd: a header in the table's entry; the command
\* message stays.
LoadMsgTblEntry(m, id) ==
  /\ Ready("msg entry")
  /\ msgData' = [msgData EXCEPT ![m] = Header[id]]
  /\ op' = [kind |-> "msg entry", index |-> m, id |-> id]
  /\ UNCHANGED <<sch, msgCmd, clock, status, files, history, crashed>>

\* SCHEDULER_ResetStatus: the pass counter starts again.
ResetPassCount ==
  /\ Ready("reset")
  /\ passes' = 0
  /\ Restart(Entries)
  /\ op' = [kind |-> "reset"]
  /\ UNCHANGED <<data, nextSlot, status, files, crashed>>

-----------------------------------------------------------------------------
(* The scheduler.                                                          *)

Here == {e \in Entries : e[1] = nextSlot /\ sch[e].enabled}

\* Mutant: an activity that is past its offset is due as well.
DuePast(e) == passes % sch[e].period <= sch[e].offset
\* Mutant: the first pass counts as pass one.
DueFromOne(e) == passes % sch[e].period = sch[e].offset + 1
Due(e) == passes % sch[e].period = sch[e].offset

\* An activity's message is not sent: no such message, or the bus refuses it.
NotSent(due, refused) == {e \in due : sch[e].msg >= MSGS \/ e \in refused}

Disable(failed) ==
  [e \in Entries |-> IF e \in failed THEN [sch[e] EXCEPT !.enabled = FALSE] ELSE sch[e]]

\* ProcessSlot; the waits of the slot's activities are kept up to Byte.
ProcessSlot ==
  /\ ~crashed /\ op.kind # "startup"
  /\ \A e \in Here : sch[e].period # 0
  /\ LET due == {e \in Here : Due(e)} IN
       \E refused \in SUBSET due :
         LET failed == NotSent(due, refused) IN
           /\ sch' = Disable(failed)
           /\ op' = [kind |-> "slot",
                     sent |-> {[entry |-> e, msg |-> msgCmd[sch[e].msg]] : e \in due \ failed}]
           /\ wait' = [e \in Watched |-> IF e \in due THEN 0
                                         ELSE IF e \in Here /\ wait[e] < Byte THEN wait[e] + 1
                                         ELSE wait[e]]
           /\ timed' = [e \in Watched |-> timed[e] \/ e \in due]
  /\ nextSlot' = (nextSlot + 1) % SLOTS
  /\ passes' = IF nextSlot + 1 = SLOTS THEN (passes + 1) % PassMod ELSE passes
  /\ UNCHANGED <<msgData, msgCmd, status, files, crashed>>

\* TablePassCount % 0
DivideByZero ==
  /\ ~crashed /\ op.kind # "startup"
  /\ \E e \in Here : sch[e].period = 0
  /\ crashed' = TRUE
  /\ op' = [kind |-> "crash"]
  /\ UNCHANGED <<data, clock, status, files, history>>

\* The processor restarts; the dump files are still there.
RestartProcessor ==
  /\ crashed
  /\ sch' = [e \in Entries |-> ZeroEntry] /\ passes' = 0 /\ nextSlot' = 0
  /\ msgData' = [m \in 0 .. MSGS - 1 |-> NoMsg] /\ msgCmd' = msgData'
  /\ status' = [t \in {"sch", "msg"} |-> "VALID"]
  /\ op' = [kind |-> "startup"]
  /\ Restart(Entries)
  /\ crashed' = FALSE
  /\ UNCHANGED files

Step ==
  \/ Startup \/ Load \/ DumpTbl
  \/ \E e \in Entries, enabled \in BOOLEAN, period, offset \in Args, msg \in MsgArgs :
       LoadSchTblEntry(e, enabled, period, offset, msg)
  \/ \E e \in Entries, enabled \in BOOLEAN : CfgSchTblEntry(e, enabled)
  \/ \E m \in 0 .. MSGS - 1, id \in MsgIds : LoadMsgTblEntry(m, id)
  \/ ResetPassCount \/ ProcessSlot \/ DivideByZero \/ RestartProcessor

TblNext == Step /\ UNCHANGED campaign

TblSpec == TblInit /\ [][TblNext]_tblVars

-----------------------------------------------------------------------------
(* Properties.                                                             *)

Table == [Entries -> Entry]
MsgTable == [0 .. MSGS - 1 -> MsgIds]

\* Types: whatever a file or a command says, an entry keeps its bytes.
TblTypeOK ==
  /\ campaign \in Campaigns
  /\ sch \in Table /\ dumped \in Table
  /\ msgData \in MsgTable /\ msgCmd \in MsgTable
  /\ nextSlot \in 0 .. SLOTS - 1 /\ passes \in 0 .. PassMod - 1
  /\ status \in [{"sch", "msg"} -> {"VALID", "INVALID"}]
  /\ wait \in [Watched -> 0 .. Byte] /\ timed \in [Watched -> BOOLEAN]
  /\ crashed \in BOOLEAN

\* The records of file for entry e.
For(e, file) == {i \in DOMAIN file : <<file[i].slot, file[i].act>> = e}

\* A scheduler table load is all or nothing: a load that is reported good sets
\* every entry of the file, to its last record, and no other; a load that is
\* reported bad changes no entry (LoadJsonData of schtbl.c).
SchLoadAllOrNothing ==
  [][op'.kind = "load sch" =>
       \A e \in Entries :
         LET recs == For(e, op'.file) IN
           sch'[e] = IF op'.ok /\ recs # {} THEN ToEntry(op'.file[Max(recs)]) ELSE sch[e]]_tblVars

\* The same of the message table's data; a load that is reported good is also
\* what is sent from then on (LoadJsonData of msgtbl.c).
MsgLoadAllOrNothing ==
  [][op'.kind = "load msg" =>
       \A m \in 0 .. MSGS - 1 :
         LET recs == {i \in DOMAIN op'.file : op'.file[i].id = m} IN
           IF op'.ok /\ recs # {}
           THEN msgData'[m] = op'.file[Max(recs)].topic /\ msgCmd'[m] = msgData'[m]
           ELSE msgData'[m] = msgData[m]]_tblVars

\* A load of either table is all or nothing, whichever record of the file is
\* bad (schtbl.c:545, msgtbl.c:419).
LoadAllOrNothing == SchLoadAllOrNothing /\ MsgLoadAllOrNothing

\* A dump of the scheduler table is a backup: loaded later, after any commands,
\* loads, failures and restarts, it is accepted and brings back the table as it
\* was dumped (SCHTBL_DumpCmd: "File is formatted so it can be used as a load
\* file").
DumpRestores ==
  (op.kind = "load sch" /\ op.readable /\ op.file = dumps.sch /\ dumps.sch # <<>>)
  => op.ok /\ sch = dumped

\* The pass counter wraps to the start of a period.
Regular(e) == sch[e].period # 0 /\ PassMod % sch[e].period = 0

\* Between two sends of an entry that nobody touched lie exactly Period passes
\* of the table, across the wrap of TablePassCount too (ProcessSlot).
OnSchedule ==
  [][op'.kind = "slot" =>
       \A s \in op'.sent :
         s.entry \in Watched /\ timed[s.entry] /\ Regular(s.entry) => wait[s.entry] + 1 = sch[s.entry].period]_tblVars

\* An enabled entry with its offset inside its period never waits Period passes,
\* also after a load, an enable or a reset of the pass counter.
NeverOverdue ==
  \A e \in Watched :
    sch[e].enabled /\ Regular(e) /\ sch[e].offset < sch[e].period => wait[e] < sch[e].period

\* The tables stay sound: whatever a file or a command says, entries keep their
\* bytes, and no enabled entry is overdue (ProcessSlot).
TablesOK == TblTypeOK /\ NeverOverdue

-----------------------------------------------------------------------------
(* The inductive invariant.                                                *)

\* The pass of the table in which the slot of entry e comes next.
NextPass(e) == IF nextSlot <= e[1] THEN passes ELSE passes + 1

\* Passes from pass n until one in which an entry is due.
Distance(n, period, offset) ==
  IF n % period <= offset THEN offset - (n % period) ELSE offset - (n % period) + period

\* The wait and the distance fill less than a period, and all of one after a
\* send; nothing has waited yet when the tables are loaded.
WaitOK(e) ==
  (sch[e].enabled /\ Regular(e) /\ sch[e].offset < sch[e].period) =>
    LET ahead == Distance(NextPass(e), sch[e].period, sch[e].offset)
    IN  /\ wait[e] + ahead < sch[e].period
        /\ timed[e] => wait[e] + ahead + 1 = sch[e].period

HistoryOK ==
  \A e \in Watched :
    /\ WaitOK(e)
    /\ op.kind = "startup" => wait[e] = 0 /\ ~timed[e]

\* The last dump of the scheduler table is one of the table as it was dumped.
DumpOK == dumps.sch # <<>> => dumps.sch = SchDump(dumped)
DumpTypeOK ==
  /\ DOMAIN dumps = {"sch", "msg"}
  /\ dumps.sch \in Seq(SchRecord) /\ dumps.msg \in Seq(MsgRecord)

TblInv == TblTypeOK /\ HistoryOK /\ DumpTypeOK /\ DumpOK /\ DumpRestores
=============================================================================
