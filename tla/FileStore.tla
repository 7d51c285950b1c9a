------------------------------ MODULE FileStore ------------------------------
(***************************************************************************)
(* The files that FILE_MGR works on, the other tasks that use them, and    *)
(* the command its child task is at.  FILE_MGR hands every file and        *)
(* directory command to its child task (file_mgr_app.c:201-236), which     *)
(* carries them out one at a time (ChildMgr), in many system calls.        *)
(***************************************************************************)
EXTENDS Integers, Sequences

CONSTANTS
  Paths,      \* file names
  NoPath,
  Volume,     \* [Paths -> ...]: the file system a path is on
  InDir,      \* the paths in the directory of the directory commands
  LongNames,  \* those in it whose name is too long for a listing
  InitData,   \* [subset of Paths -> Seq(Int)]: files there at the start
  MaxOpens,   \* bound on the files other tasks open
  MaxLen      \* bound on the length other tasks write a file to

ASSUME StoreAssumption ==
  /\ NoPath \notin Paths /\ InDir \subseteq Paths /\ LongNames \subseteq InDir
  /\ DOMAIN Volume = Paths /\ DOMAIN InitData \subseteq Paths
  /\ \A p \in DOMAIN InitData : InitData[p] \in Seq(Int)
  /\ MaxOpens \in Nat /\ MaxLen \in Nat

VARIABLES
  fs,       \* [Paths -> [there, data]]
  other,    \* stream name of the file another task is writing
  orphan,   \* that file has no name any more
  late,     \* it was opened after the running command had looked at it
  opens,    \* history: number of files other tasks opened
  touched,  \* history: files other tasks had open during the command
  checked,  \* history: files whose state the command has looked at
  cmd,      \* the command of the child task
  step,     \* where it is in it
  todo,     \* state checks before it: <<path, states it may be in>>
  handles,  \* files and directories it has open
  wpos,     \* its position in the file it writes
  result,   \* what it reports: "none", "success" or "failure"
  orig      \* history: fs when it began

storeVars == <<fs, other, orphan, late, opens, touched, checked>>
taskVars == <<cmd, step, todo, handles, wpos, result, orig>>

Block(tag, n, m) == [tag |-> tag, n |-> n, m |-> m]
Data(n) == Block("data", n, 0)
Entry(p) == Block("entry", p, 0)
Stats(found, written) == Block("stats", found, written)
Hole == Block("hole", 0, 0)

Blocks == [tag : {"data", "entry", "stats", "hole"}, n : Int \cup Paths, m : Int]
FileType == [there : BOOLEAN, data : Seq(Blocks)]

Absent == [there |-> FALSE, data |-> <<>>]
Holding(s) == [there |-> TRUE, data |-> s]

\* s with b written at position i (from 0); a gap before it reads as zeros.
Put(s, i, b) ==
  [k \in 1 .. (IF i < Len(s) THEN Len(s) ELSE i + 1) |->
     IF k = i + 1 THEN b ELSE IF k <= Len(s) THEN s[k] ELSE Hole]

\* FileUtil_GetFileInfo: a file is open when some stream has its name.
State(p) == IF ~fs[p].there THEN "nonexistent" ELSE IF other = p THEN "open" ELSE "closed"
ExistingFile == {"open", "closed"}     \* FILEUTIL_FILE_EXISTS

\* OS_remove and OS_rename: streams that are open live on, and those with the
\* old name get the new one.
Removed(p) ==
  /\ fs' = [fs EXCEPT ![p] = Absent]
  /\ orphan' = (orphan \/ other = p)
  /\ UNCHANGED other

Renamed(p, q) ==
  /\ fs' = IF p = q THEN fs ELSE [fs EXCEPT ![q] = fs[p], ![p] = Absent]
  /\ orphan' = (orphan \/ (other = q /\ p # q))
  /\ other' = IF other = p THEN q ELSE other

NoCommand == [op |-> "none", src |-> NoPath, src2 |-> NoPath, tgt |-> NoPath,
              over |-> FALSE, offset |-> 0]

StoreInit ==
  /\ fs = [p \in Paths |->
             IF p \in DOMAIN InitData
             THEN Holding([i \in 1 .. Len(InitData[p]) |-> Data(InitData[p][i])]) ELSE Absent]
  /\ other = NoPath /\ orphan = FALSE /\ late = FALSE /\ opens = 0
  /\ touched = {} /\ checked = {}
  /\ cmd = NoCommand /\ step = "idle" /\ todo = <<>> /\ handles = {} /\ wpos = 0
  /\ result = "none" /\ orig = fs

(***************************************************************************)
(* Other tasks create or overwrite a file, write to it and close it.       *)
(***************************************************************************)
OtherOpens(p) ==
  /\ other = NoPath /\ opens < MaxOpens
  /\ fs' = [fs EXCEPT ![p] = Holding(<<>>)]
  /\ other' = p /\ orphan' = FALSE /\ late' = (p \in checked)
  /\ opens' = opens + 1 /\ touched' = touched \cup {p}
  /\ UNCHANGED <<checked, taskVars>>

OtherWrites ==
  /\ other # NoPath /\ ~orphan /\ Len(fs[other].data) < MaxLen
  /\ fs' = [fs EXCEPT ![other].data = Append(@, Data(0))]
  /\ touched' = touched \cup {other}
  /\ UNCHANGED <<other, orphan, late, opens, checked, taskVars>>

OtherCloses ==
  /\ other # NoPath
  /\ other' = NoPath /\ orphan' = FALSE /\ late' = FALSE
  /\ UNCHANGED <<fs, opens, touched, checked, taskVars>>

Others == (\E p \in Paths : OtherOpens(p)) \/ OtherWrites \/ OtherCloses

(***************************************************************************)
(* The frame of a command: it begins with checks of file states and ends   *)
(* with a report.                                                          *)
(***************************************************************************)
Begins(c, checks) ==
  /\ step = "idle"
  /\ cmd' = c /\ step' = "check" /\ todo' = checks /\ result' = "none" /\ orig' = fs
  /\ checked' = {} /\ late' = FALSE /\ touched' = {other} \ {NoPath}
  /\ UNCHANGED <<fs, other, orphan, opens, handles, wpos>>

LooksAt(p) ==
  /\ checked' = checked \cup {p}
  /\ late' = (late /\ other # p)

Reports(ok) == step' = "idle" /\ result' = IF ok THEN "success" ELSE "failure"

\* A command whose file is not in the state it has to be in is rejected.
Check ==
  /\ step = "check" /\ todo # <<>>
  /\ LooksAt(Head(todo)[1])
  /\ todo' = Tail(todo)
  /\ IF State(Head(todo)[1]) \in Head(todo)[2] THEN UNCHANGED <<step, result>> ELSE Reports(FALSE)
  /\ UNCHANGED <<fs, other, orphan, opens, touched, cmd, handles, wpos, orig>>
=============================================================================
