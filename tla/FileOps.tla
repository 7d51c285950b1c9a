------------------------------- MODULE FileOps -------------------------------
(***************************************************************************)
(* The file commands of FILE_MGR (src/apps/file_mgr/fsw/src/file.c) and    *)
(* the OSAL calls they are made of (osapi-file.c).  Every system call is a *)
(* step and may fail, but for the closes and the looks at a file's state;  *)
(* other tasks run between two steps.                                      *)
(***************************************************************************)
EXTENDS FileStore

VARIABLES
  from,    \* the file read
  into,    \* the file written
  pos,     \* position of the reader
  copied,  \* the copy went well
  second   \* concatenation: at its second source file

copyVars == <<from, into, pos, copied, second>>

CopyInit == from = NoPath /\ into = NoPath /\ pos = 0 /\ copied = FALSE /\ second = FALSE

\* Mutant: a copy may overwrite a file that is open.
OverwritesAny(over) == IF over THEN ExistingFile ELSE {"nonexistent"}

\* The states the target of a copy or a move may be in.
TargetStates(over) == IF over THEN {"closed"} ELSE {"nonexistent"}

FileChecks(c) ==
  CASE c.op \in {"copy", "move"} -> <<<<c.src, ExistingFile>>, <<c.tgt, TargetStates(c.over)>>>>
    [] c.op = "rename" -> <<<<c.src, ExistingFile>>, <<c.tgt, {"nonexistent"}>>>>
    [] c.op = "delete" -> <<<<c.src, {"closed"}>>>>
    [] c.op = "concatenate" ->
         <<<<c.src, {"closed"}>>, <<c.src2, {"closed"}>>, <<c.tgt, {"nonexistent"}>>>>
    [] c.op = "decompress" -> <<<<c.src, {"closed"}>>, <<c.tgt, {"nonexistent"}>>>>

\* All checks passed: decompression does nothing and reports success.
FileStarts ==
  /\ step = "check" /\ todo = <<>>
  /\ cmd.op \in {"copy", "move", "rename", "delete", "concatenate", "decompress"}
  /\ IF cmd.op = "decompress" THEN Reports(TRUE)
     ELSE /\ step' = CASE cmd.op \in {"copy", "concatenate"} -> "openSource"
                       [] cmd.op \in {"move", "rename"} -> "rename"
                       [] cmd.op = "delete" -> "remove"
          /\ UNCHANGED result
  /\ from' = cmd.src /\ into' = cmd.tgt /\ second' = FALSE
  /\ UNCHANGED <<storeVars, cmd, todo, handles, wpos, orig, pos, copied>>

(***************************************************************************)
(* OS_cp, and the second half of ConcatenateFiles, which is built alike.   *)
(***************************************************************************)
OpenSource ==
  /\ step = "openSource"
  /\ \/ /\ fs[from].there
        /\ handles' = handles \cup {"source"} /\ step' = "openTarget" /\ pos' = 0
        /\ UNCHANGED copied
     \/ step' = "close" /\ copied' = FALSE /\ UNCHANGED <<handles, pos>>
  /\ UNCHANGED <<storeVars, cmd, todo, wpos, result, orig, from, into, second>>

\* Created if need be, and truncated.
OpenTarget ==
  /\ step = "openTarget"
  /\ \/ /\ fs' = [fs EXCEPT ![into] = Holding(<<>>)]
        /\ handles' = handles \cup {"target"} /\ step' = "block" /\ wpos' = 0
        /\ UNCHANGED copied
     \/ step' = "close" /\ copied' = FALSE /\ UNCHANGED <<fs, handles, wpos>>
  /\ UNCHANGED <<other, orphan, late, opens, touched, checked, cmd, todo, result, orig,
                 from, into, pos, second>>

FailedIO == FALSE     \* the status OS_cp returns

\* One block read and written; a read of nothing ends the loop.
CopyBlock ==
  /\ step = "block"
  /\ \/ /\ pos < Len(fs[from].data)
        /\ fs' = [fs EXCEPT ![into].data = Put(@, wpos, fs[from].data[pos + 1])]
        /\ pos' = pos + 1 /\ wpos' = wpos + 1
        /\ UNCHANGED <<step, copied>>
     \/ /\ pos >= Len(fs[from].data)
        /\ step' = "close" /\ copied' = TRUE /\ UNCHANGED <<fs, pos, wpos>>
     \/ step' = "close" /\ copied' = FailedIO /\ UNCHANGED <<fs, pos, wpos>>
  /\ UNCHANGED <<other, orphan, late, opens, touched, checked, cmd, todo, handles, result, orig,
                 from, into, second>>

\* Mutant: the source stays open when the target could not be opened.
ClosedAfterLoop == IF "target" \in handles THEN {} ELSE handles

Closed == {}

\* Mutant: a move removes the source even if the copy failed.
RemovesAlways == TRUE

RemovesSource == copied

\* The file the second source of a concatenation is written to: ConcatenateFiles
\* opens SrcFile2 there, where TargetFile is meant.
SecondTarget == cmd.src2

CloseFiles ==
  /\ step = "close"
  /\ handles' = Closed
  /\ CASE cmd.op = "copy" -> Reports(copied) /\ UNCHANGED <<from, into, second>>
       [] cmd.op = "move" ->
            /\ IF RemovesSource THEN step' = "remove" /\ UNCHANGED result ELSE Reports(FALSE)
            /\ UNCHANGED <<from, into, second>>
       [] cmd.op = "concatenate" /\ ~second ->
            IF copied
            THEN /\ step' = "openSource" /\ from' = cmd.src2 /\ into' = SecondTarget
                 /\ second' = TRUE /\ UNCHANGED result
            ELSE Reports(FALSE) /\ UNCHANGED <<from, into, second>>
       [] cmd.op = "concatenate" /\ second ->
            /\ IF copied THEN Reports(TRUE) ELSE step' = "remove" /\ UNCHANGED result
            /\ UNCHANGED <<from, into, second>>
  /\ UNCHANGED <<storeVars, cmd, todo, wpos, orig, pos, copied>>

(***************************************************************************)
(* OS_rename, alone or as the first try of OS_mv, and OS_remove: of the    *)
(* file to delete, of the source of a move (whose status nobody looks at)  *)
(* or of what a concatenation left unfinished.                             *)
(***************************************************************************)
Rename ==
  /\ step = "rename"
  /\ \/ /\ fs[cmd.src].there /\ Volume[cmd.src] = Volume[cmd.tgt]
        /\ Renamed(cmd.src, cmd.tgt) /\ Reports(TRUE)
     \/ /\ IF cmd.op = "move" THEN step' = "openSource" /\ UNCHANGED result ELSE Reports(FALSE)
        /\ UNCHANGED <<fs, other, orphan>>
  /\ UNCHANGED <<late, opens, touched, checked, cmd, todo, handles, wpos, orig, copyVars>>

ToRemove == IF cmd.op = "concatenate" THEN cmd.tgt ELSE cmd.src

Remove ==
  /\ step = "remove"
  /\ \/ fs[ToRemove].there /\ Removed(ToRemove) /\ Reports(cmd.op # "concatenate")
     \/ UNCHANGED <<fs, other, orphan>> /\ Reports(cmd.op = "move")
  /\ UNCHANGED <<late, opens, touched, checked, cmd, todo, handles, wpos, orig, copyVars>>

FileStep ==
  FileStarts \/ OpenSource \/ OpenTarget \/ CopyBlock \/ CloseFiles \/ Rename \/ Remove
=============================================================================
