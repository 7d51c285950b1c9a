------------------------------- MODULE FileMgr -------------------------------
(***************************************************************************)
(* FILE_MGR: its child task carries out file commands (FileOps) and        *)
(* directory commands (DirOps), one at a time, while other tasks open,     *)
(* write and close files.                                                  *)
(***************************************************************************)
EXTENDS FileOps, DirOps

CONSTANTS
  Commands,   \* the commands the ground may send
  MaxCmds     \* bound on their number

FileOpsOf == {"copy", "move", "rename", "delete", "concatenate", "decompress"}
DirOpsOf == {"deleteAll", "sendOne", "sendAll", "writeList"}

\* Commands name the files they are about; the listing of a whole directory
\* starts at its beginning (dir.c:427).
ASSUME CommandsAssumption ==
  /\ MaxCmds \in Nat
  /\ \A c \in Commands :
       /\ c.op \in FileOpsOf \cup DirOpsOf
       /\ c.op \in FileOpsOf => c.src \in Paths
       /\ c.op \in (FileOpsOf \ {"delete"}) \cup {"writeList"} => c.tgt \in Paths
       /\ c.op = "concatenate" => c.src2 \in Paths
       /\ c.offset \in Nat /\ (c.op = "sendAll" => c.offset = 0)

VARIABLE cmds \* history: number of commands begun

vars == <<storeVars, taskVars, copyVars, dirVars, cmds>>

ChecksOf(c) == IF c.op \in FileOpsOf THEN FileChecks(c) ELSE DirChecks(c)

Init == StoreInit /\ CopyInit /\ DirInit /\ cmds = 0

Command(c) ==
  /\ cmds < MaxCmds /\ cmds' = cmds + 1
  /\ Begins(c, ChecksOf(c))
  /\ UNCHANGED <<copyVars, dirVars>>

Child ==
  \/ Check /\ UNCHANGED <<copyVars, dirVars, cmds>>
  \/ FileStep /\ UNCHANGED <<dirVars, cmds>>
  \/ DirStep /\ UNCHANGED <<copyVars, cmds>>

Next ==
  \/ \E c \in Commands : Command(c)
  \/ Child
  \/ Others /\ UNCHANGED <<copyVars, dirVars, cmds>>

Spec == Init /\ [][Next]_vars

\* The child task goes on with its command; nothing makes a command come, or
\* another task run.
FairSpec == Spec /\ WF_vars(Child)

(***************************************************************************)
(* Properties.                                                             *)
(***************************************************************************)
Steps == {"idle", "check", "openSource", "openTarget", "block", "close", "rename", "remove",
          "read", "ends", "unlink", "openList", "head"}

\* Every variable stays in its range, and between two commands the child task
\* has no file and no directory open, however the command before it ended.
TypeOK ==
  /\ \A p \in Paths : fs[p].there \in BOOLEAN /\ (~fs[p].there => fs[p].data = <<>>)
  /\ other \in Paths \cup {NoPath} /\ orphan \in BOOLEAN /\ late \in BOOLEAN
  /\ opens \in 0 .. MaxOpens /\ cmds \in 0 .. MaxCmds
  /\ touched \subseteq Paths /\ checked \subseteq Paths
  /\ step \in Steps /\ result \in {"none", "success", "failure"}
  /\ handles \subseteq {"source", "target", "dir", "list"}
  /\ (step = "idle" => handles = {})
  /\ snapshot \cup seen \subseteq InDir /\ Len(pkt) <= ListEntries + PktEntries
  /\ unnoticed \subseteq {"read", "rewind", "transmit"}

\* No command harms a file that another task had open when the command looked
\* at it: what that task has written stays, under the name the file has, and
\* the file goes on existing.  (The window between the look and the system call
\* is left out by "late"; so is the source of a move to another file system,
\* which is copied and removed although a move allows it to be open.)
OpenFilesSafe ==
  [][(/\ other # NoPath /\ ~orphan /\ ~late
      /\ ~(cmd.op = "move" /\ step = "remove" /\ other = cmd.src))
     => \/ other' = NoPath
        \/ /\ ~orphan' /\ fs'[other'].there
           /\ Len(fs'[other'].data) >= Len(fs[other].data)
           /\ SubSeq(fs'[other'].data, 1, Len(fs[other].data)) = fs[other].data]_vars

Untouched(ps) == ps \cap touched = {}

\* At every moment of a move, one of its two files holds all of the data: a
\* task that dies, a full disk or a failed call anywhere in it loses nothing.
MoveKeepsData ==
  (cmd.op = "move" /\ cmd.src # cmd.tgt /\ Untouched({cmd.src, cmd.tgt}))
  => \E p \in {cmd.src, cmd.tgt} : fs[p] = orig[cmd.src]

\* What the report of a command says is so: success means that the target has
\* the data, failure that the source still has it.
ReportIsTrue ==
  (/\ step = "idle" /\ result # "none" /\ cmd.op \in {"copy", "move", "rename", "delete"}
   /\ cmd.src # cmd.tgt /\ Untouched({cmd.src, cmd.tgt}))
  => IF result = "success"
     THEN /\ cmd.op # "delete" => fs[cmd.tgt] = orig[cmd.src]
          /\ cmd.op \in {"rename", "delete"} => ~fs[cmd.src].there
     ELSE fs[cmd.src] = orig[cmd.src]

DataKept == MoveKeepsData /\ ReportIsTrue

\* Delete all leaves no file that was in the directory all along, unless it
\* counted one that it could not delete, or a read or a rewind of the directory
\* failed, which it takes for the end (dir.c:167 and 196).
DeleteAllClears ==
  (step = "idle" /\ cmd.op = "deleteAll" /\ checked # {} /\ unnoticed = {})
  => \A p \in InDir : (orig[p].there /\ p \notin touched) => (~fs[p].there \/ undeleted)

\* Where p is in the packets sent.
Places(p) == {x \in (1 .. Len(packets)) \X (1 .. PktEntries) :
                x[2] \in DOMAIN packets[x[1]][2] /\ packets[x[1]][2][x[2]] = p}

\* A listing of the whole directory names every file that is there from the
\* beginning to the end exactly once, whatever files come meanwhile.  When a
\* read fails or the bus refuses a packet (dir.c:676 and 743) files are missing
\* from a listing that is reported to be good, but none is there twice.
ListingComplete ==
  (step = "idle" /\ cmd.op = "sendAll" /\ result = "success")
  => \A p \in InDir \ LongNames :
       /\ \A x, y \in Places(p) : x = y
       /\ (unnoticed = {} /\ orig[p].there /\ fs[p].there) => Places(p) # {}

\* A list file that has its statistics has all the entries they count, each
\* once, and when it has room for them and no read of the directory failed
\* (dir.c:896) those of every file in it: a reader that finds zeros knows that
\* the file is not complete.
ListFileHonest ==
  (/\ cmd.op = "writeList" /\ cmd.tgt \notin touched /\ fs[cmd.tgt].data # <<>>
   /\ step \in {"head", "read", "ends", "idle"} /\ result # "failure")
  => LET s == fs[cmd.tgt].data IN
       (s[1].tag = "stats" /\ s[1].n > 0)
       => /\ s[1].m = Len(s) - 1
          /\ \A i, j \in 2 .. Len(s) : s[i] = s[j] => i = j
          /\ s[1].n <= ListEntries /\ unnoticed = {} =>
               \A p \in InDir \ LongNames :
                 (orig[p].there /\ fs[p].there) => \E i \in 2 .. Len(s) : s[i] = Entry(p)

\* Listings name no file twice and, unless a call failed unnoticed, are complete
\* or can be told to be not.
ListingsTrue == ListingComplete /\ ListFileHonest

\* What a directory command says of its directory is true of every file in it, as
\* far as the calls whose failure it takes for the end do not fail.
DirectoryTrue == DeleteAllClears /\ ListingsTrue

\* Every command ends.
CommandEnds == (step # "idle") ~> (step = "idle")

\* How far a step is from the end of the command; the first source of a
\* concatenation is copied before the second.
StepsLeft(s) ==
  CASE s = "check" -> 12 [] s = "openList" -> 9 [] s \in {"rename", "head"} -> 8
    [] s = "openSource" -> 7 [] s = "openTarget" -> 6 [] s = "block" -> 5 [] s = "close" -> 4
    [] s \in {"read", "unlink"} -> 3 [] s = "ends" -> 2 [] s = "remove" -> 1 [] s = "idle" -> 0
FirstSource ==
  cmd.op = "concatenate" /\ step \in {"openSource", "openTarget", "block", "close"} /\ ~second
Left == StepsLeft(step) + IF FirstSource THEN 4 ELSE 0

\* What is still to do in the loops of a command.
Unread == Len(fs[from].data) - pos
Unseen == Files \ seen
Fewer(S, T) == S \subseteq T /\ S # T

Nearer ==
  \/ Left' < Left
  \/ /\ Left' = Left
     /\ \/ step = "check" /\ Len(todo') < Len(todo)
        \/ step = "block" /\ 0 <= Unread' /\ Unread' < Unread
        \/ /\ step \in {"read", "unlink"}
           /\ \/ Fewer(Files', Files)
              \/ Files' = Files /\ Fewer(Unseen', Unseen)
              \/ Files' = Files /\ Unseen' = Unseen /\ step = "unlink" /\ step' = "read"

\* Every step of the child task brings its command nearer to its end: only
\* another task that writes files meanwhile can put the end off.  A copy does not
\* run after its own output, even of a file to itself (file.c:243), and a
\* directory is read again from the beginning only when a file of it is gone
\* (dir.c:167-199).
NearerToEnd == [][Child => Nearer]_vars

(***************************************************************************)
(* The inductive invariant.                                                *)
(***************************************************************************)

\* The steps of each command.
StepsOf(op) ==
  CASE op = "copy" -> {"openSource", "openTarget", "block", "close"}
    [] op = "move" -> {"rename", "openSource", "openTarget", "block", "close", "remove"}
    [] op = "rename" -> {"rename"}
    [] op = "delete" -> {"remove"}
    [] op = "concatenate" -> {"openSource", "openTarget", "block", "close", "remove"}
    [] op = "deleteAll" -> {"read", "unlink", "ends"}
    [] op \in {"sendOne", "sendAll"} -> {"read", "ends"}
    [] op = "writeList" -> {"openList", "head", "read", "ends"}
    [] OTHER -> {}

Writing == step \in {"openSource", "openTarget", "block", "close"}

Placed ==
  /\ IF step = "idle" THEN cmd \in Commands \cup {NoCommand} ELSE cmd \in Commands
  /\ step \in StepsOf(cmd.op) \cup {"idle", "check"}
  /\ step = "idle" /\ result = "none" => cmd = NoCommand
  /\ step \in {"idle", "check", "openSource", "rename", "remove"} => handles = {}
  /\ Writing \/ step = "rename" =>
       /\ <<from, into>> = IF second THEN <<cmd.src2, cmd.src2>> ELSE <<cmd.src, cmd.tgt>>
       /\ second => cmd.op = "concatenate"
  /\ step = "unlink" => victim \in InDir

\* A file that is written has a name: nobody removes it meanwhile.
Named ==
  /\ fs \in [Paths -> FileType] /\ orig \in [Paths -> FileType]
  /\ pos \in Nat /\ wpos \in Nat
  /\ other # NoPath /\ ~orphan => fs[other].there
  /\ step = "block" => fs[into].there
  /\ step \in {"head", "read", "ends"} /\ cmd.op = "writeList" => fs[cmd.tgt].there

ListingTypes ==
  /\ dirCnt \in Nat /\ offset \in Nat /\ pkt \in Seq(InDir)
  /\ packets \in Seq(Nat \X Seq(InDir))
  /\ step = "read" /\ cmd.op \in {"sendOne", "sendAll"} /\ filling => Len(pkt) < PktEntries

\* A file the command has looked at is open only if it was opened since.
Unopened(p) == p \in checked /\ (other = p => late \/ orphan)
Passed == Len(ChecksOf(cmd)) - Len(todo)
MustNotBeOpen(check) == "open" \notin check[2]

\* The checks still to do, and what the others found.
Guarded ==
  /\ step = "check" =>
       /\ todo \in Seq(Paths \X SUBSET {"open", "closed", "nonexistent"})
       /\ Len(todo) <= Len(ChecksOf(cmd))
       /\ \A i \in DOMAIN todo : todo[i] = ChecksOf(cmd)[Passed + i]
  /\ step # "idle" =>
       \A i \in DOMAIN ChecksOf(cmd) :
         MustNotBeOpen(ChecksOf(cmd)[i]) /\ (step = "check" => i <= Passed)
           => Unopened(ChecksOf(cmd)[i][1])
  /\ step = "unlink" => Unopened(victim)

\* How far a copy has come.
CopyFollows ==
  (/\ cmd.op \in {"copy", "move", "rename", "delete"} /\ cmd.src # cmd.tgt
   /\ Untouched({cmd.src, cmd.tgt}) /\ step # "idle")
  => /\ fs[cmd.src] = orig[cmd.src]
     /\ step \in {"openTarget", "block"} => fs[cmd.src].there
     /\ step = "openTarget" => pos = 0
     /\ step = "block" => /\ wpos = pos /\ pos <= Len(fs[cmd.src].data)
                          /\ fs[cmd.tgt].data = SubSeq(fs[cmd.src].data, 1, pos)
     /\ (step = "close" /\ copied) \/ (step = "remove" /\ cmd.op = "move")
          => fs[cmd.tgt] = orig[cmd.src]

\* The files that are left while a directory is cleared.
DeleteFollows ==
  cmd.op = "deleteAll" =>
    /\ step = "check" => checked = {}
    /\ step \in {"read", "unlink", "ends"} =>
         \A p \in Files \ touched :
           /\ p \in snapshot
           /\ p \in seen => undeleted \/ (step = "unlink" /\ p = victim)
           /\ step = "ends" /\ unnoticed = {} => p \in seen

\* No file goes while a listing is made, and none is passed over.
ListingReads ==
  cmd.op \in {"sendAll", "writeList"} =>
    /\ \A p \in Paths : orig[p].there /\ step # "idle" => fs[p].there
    /\ step \in {"openList", "head", "read", "ends"} =>
         /\ "rewind" \notin unnoticed
         /\ \A p \in InDir : orig[p].there => p \in snapshot
         /\ step = "ends" /\ filling /\ "read" \notin unnoticed => \A p \in InDir : orig[p].there => p \in seen

\* Where p is in the packets sent and in the one that is being filled.
At(p) == Places(p) \cup {<<Len(packets) + 1, j>> : j \in {k \in DOMAIN pkt : pkt[k] = p}}

SendFollows ==
  cmd.op = "sendAll" =>
    /\ step \in {"read", "ends"} =>
         /\ filling /\ offset + Len(pkt) <= dirCnt /\ Len(pkt) < PktEntries
         /\ \A p \in InDir \ LongNames :
              /\ \A x, y \in At(p) : x = y
              /\ p \notin seen => At(p) = {}
              /\ p \in seen /\ "transmit" \notin unnoticed => At(p) # {}
    /\ step = "idle" /\ result = "success" =>
         \A p \in InDir \ LongNames :
           /\ \A x, y \in Places(p) : x = y
           /\ unnoticed = {} /\ orig[p].there => Places(p) # {}

\* The list file while it is written and when it is done.
ListFileFollows ==
  cmd.op = "writeList" /\ cmd.tgt \notin touched =>
    /\ step \in {"openList", "head"} => pkt = <<>> /\ dirCnt = 0 /\ seen = {} /\ filling
    /\ step = "head" => fs[cmd.tgt].data = <<>>
    /\ step \in {"read", "ends"} =>
         LET s == fs[cmd.tgt].data IN
         /\ Len(s) = Len(pkt) + 1 /\ wpos = Len(s) /\ s[1] = Stats(0, 0)
         /\ \A i \in DOMAIN pkt : s[i + 1] = Entry(pkt[i]) /\ pkt[i] \in seen
         /\ \A i, j \in DOMAIN pkt : pkt[i] = pkt[j] => i = j
         /\ Len(pkt) <= dirCnt
         /\ filling /\ dirCnt <= ListEntries =>
              \A p \in seen \ LongNames : \E i \in DOMAIN pkt : pkt[i] = p
    /\ step = "idle" /\ result = "success" =>
         LET s == fs[cmd.tgt].data IN
         /\ Len(s) >= 1 /\ s[1].m = Len(s) - 1
         /\ \A i, j \in 2 .. Len(s) : s[i] = s[j] => i = j
         /\ s[1].n <= ListEntries /\ unnoticed = {} =>
              \A p \in InDir \ LongNames : orig[p].there => \E i \in 2 .. Len(s) : s[i] = Entry(p)

\* Reader and writer of a copy advance together.
InStride ==
  /\ step = "openTarget" => pos = 0
  /\ step = "block" => wpos = pos

BaseOK == TypeOK /\ Placed /\ Named /\ ListingTypes
ListingsOK == ListingReads /\ SendFollows /\ ListFileFollows
IInv == BaseOK /\ Guarded /\ CopyFollows /\ ReportIsTrue /\ DeleteFollows /\ DeleteAllClears /\ ListingsOK
=============================================================================
