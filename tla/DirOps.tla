------------------------------- MODULE DirOps -------------------------------
(***************************************************************************)
(* The directory commands of FILE_MGR (src/apps/file_mgr/fsw/src/dir.c)    *)
(* that read a directory while other tasks use it: delete all files, send  *)
(* a listing in telemetry packets (one packet, or all of them) and write a *)
(* listing to a file.  A read or a rewind of the directory that fails, or  *)
(* a packet that the software bus refuses, goes unnoticed by the code.     *)
(***************************************************************************)
EXTENDS FileStore

CONSTANTS
  PktEntries,   \* FILE_MGR_DIR_LIST_FILE_ENTRIES
  ListEntries   \* DIR_LIST_FILE_ENTRIES

ASSUME DirAssumption == PktEntries \in Nat \ {0} /\ ListEntries \in Nat

VARIABLES
  snapshot,  \* files in the directory when it was opened or rewound
  seen,      \* those read since then
  undeleted, \* FileNotDeletedCount > 0
  victim,    \* the file to delete
  dirCnt,    \* DirFileCnt, DirEntryCnt
  pkt,       \* the entries of the packet being filled, or written to the file
  offset,    \* DirListOffset
  filling,   \* CreatingTlmPkt; no write error yet
  packets,   \* history: the packets sent: <<offset, entries>>
  unnoticed  \* history: calls of this command that failed unnoticed

dirVars == <<snapshot, seen, undeleted, victim, dirCnt, pkt, offset, filling, packets, unnoticed>>

DirInit ==
  /\ snapshot = {} /\ seen = {} /\ undeleted = FALSE /\ victim = NoPath
  /\ dirCnt = 0 /\ pkt = <<>> /\ offset = 0 /\ filling = FALSE /\ packets = <<>>
  /\ unnoticed = {}

Files == {p \in InDir : fs[p].there}

\* The state of the directory itself is looked at first; it is there.
DirChecks(c) ==
  IF c.op = "writeList" THEN <<<<c.tgt, {"closed", "nonexistent"}>>>> ELSE <<>>

DirOpen ==
  /\ step = "check" /\ todo = <<>>
  /\ cmd.op \in {"deleteAll", "sendOne", "sendAll", "writeList"}
  /\ \/ /\ handles' = {"dir"} /\ snapshot' = Files /\ seen' = {} /\ unnoticed' = {}
        /\ undeleted' = FALSE /\ dirCnt' = 0 /\ pkt' = <<>> /\ filling' = TRUE /\ packets' = <<>>
        /\ offset' = cmd.offset
        /\ step' = (IF cmd.op = "writeList" THEN "openList" ELSE "read") /\ UNCHANGED result
     \/ /\ Reports(FALSE)
        /\ UNCHANGED <<handles, snapshot, seen, undeleted, dirCnt, pkt, filling, packets, offset, unnoticed>>
  /\ UNCHANGED <<storeVars, cmd, todo, wpos, orig, victim>>

\* Reading returns every file that is there from the opening, or the last
\* rewind, on, and may return files that came since; after a removal without a
\* rewind it may come to its end early.
MayRead(p) == step = "read" /\ p \in Files \ seen

Exhausted == (snapshot \cap Files) \subseteq seen \/ "rewind" \in unnoticed

\* Any status of OS_DirectoryRead but success ends the loop, and so does an
\* error in the list file.
ReadEnds ==
  /\ step = "read" /\ step' = "ends"
  /\ \/ Exhausted /\ UNCHANGED unnoticed
     \/ cmd.op = "writeList" /\ ~filling /\ UNCHANGED unnoticed
     \/ unnoticed' = unnoticed \cup {"read"}
  /\ UNCHANGED <<storeVars, cmd, todo, handles, wpos, result, orig,
                 snapshot, seen, undeleted, victim, dirCnt, pkt, offset, filling, packets>>

(***************************************************************************)
(* Delete all files.                                                       *)
(***************************************************************************)
ReadToDelete(p) ==
  /\ MayRead(p) /\ cmd.op = "deleteAll"
  /\ seen' = seen \cup {p} /\ LooksAt(p)
  /\ IF State(p) = "closed"
     THEN step' = "unlink" /\ victim' = p /\ UNCHANGED undeleted
     ELSE undeleted' = TRUE /\ UNCHANGED <<step, victim>>
  /\ UNCHANGED <<fs, other, orphan, opens, touched, cmd, todo, handles, wpos, result, orig,
                 snapshot, dirCnt, pkt, offset, filling, packets, unnoticed>>

\* Mutant: the directory is rewound after a failed removal too.
AlwaysRewinds(removed) == TRUE

Rewinds(removed) == removed

Unlink ==
  /\ step = "unlink" /\ step' = "read"
  /\ \E removed, rewound \in BOOLEAN :
       /\ IF removed THEN fs[victim].there /\ Removed(victim) ELSE UNCHANGED <<fs, other, orphan>>
       /\ undeleted' = (undeleted \/ ~removed)
       /\ IF Rewinds(removed) /\ rewound
          THEN snapshot' = {p \in InDir : fs'[p].there} /\ seen' = {}
          ELSE UNCHANGED <<snapshot, seen>>
       /\ unnoticed' = unnoticed \cup (IF Rewinds(removed) /\ ~rewound THEN {"rewind"} ELSE {})
  /\ UNCHANGED <<late, opens, touched, checked, cmd, todo, handles, wpos, result, orig,
                 victim, dirCnt, pkt, offset, filling, packets>>

(***************************************************************************)
(* Send the listing: the packet at the commanded offset, or every packet.  *)
(***************************************************************************)
\* Mutant: one entry is passed over between two packets.
OffsetPastNext(o) == o + PktEntries + 1

NextOffset(o) == o + PktEntries

\* CFE_SB_TransmitMsg: nobody looks at its status.
Transmit(packet) ==
  \/ packets' = Append(packets, packet) /\ UNCHANGED unnoticed
  \/ unnoticed' = unnoticed \cup {"transmit"} /\ UNCHANGED packets

ReadToSend(p) ==
  /\ MayRead(p) /\ cmd.op \in {"sendOne", "sendAll"}
  /\ seen' = seen \cup {p} /\ dirCnt' = dirCnt + 1
  /\ LET listed == filling /\ dirCnt' > offset /\ p \notin LongNames
         entries == IF listed THEN Append(pkt, p) ELSE pkt
         full == filling /\ Len(entries) >= PktEntries
     IN IF full /\ cmd.op = "sendAll"
        THEN /\ Transmit(<<offset, entries>>)
             /\ pkt' = <<>> /\ offset' = NextOffset(offset)
             /\ UNCHANGED filling
        ELSE /\ pkt' = entries /\ filling' = (filling /\ ~full)
             /\ UNCHANGED <<packets, offset, unnoticed>>
  /\ UNCHANGED <<storeVars, taskVars, snapshot, undeleted, victim>>

(***************************************************************************)
(* Write the listing to a file: statistics of zeros, the entries, and then *)
(* the true statistics over the first ones.                                *)
(***************************************************************************)
OpenList ==
  /\ step = "openList"
  /\ \/ /\ fs' = [fs EXCEPT ![cmd.tgt] = Holding(<<>>)]
        /\ handles' = handles \cup {"list"} /\ step' = "head" /\ wpos' = 0 /\ UNCHANGED result
     \/ handles' = {} /\ Reports(FALSE) /\ UNCHANGED <<fs, wpos>>
  /\ UNCHANGED <<other, orphan, late, opens, touched, checked, cmd, todo, orig, dirVars>>

WriteHead ==
  /\ step = "head"
  /\ \/ /\ fs' = [fs EXCEPT ![cmd.tgt].data = Put(@, 0, Stats(0, 0))]
        /\ wpos' = 1 /\ step' = "read" /\ UNCHANGED <<handles, result>>
     \/ handles' = {} /\ Reports(FALSE) /\ UNCHANGED <<fs, wpos>>
  /\ UNCHANGED <<other, orphan, late, opens, touched, checked, cmd, todo, orig, dirVars>>

CountsAsWritten(p) == p \notin LongNames

ReadToWrite(p) ==
  /\ MayRead(p) /\ cmd.op = "writeList" /\ filling
  /\ seen' = seen \cup {p} /\ dirCnt' = dirCnt + 1
  /\ IF Len(pkt) >= ListEntries \/ p \in LongNames
     THEN /\ pkt' = (IF Len(pkt) < ListEntries /\ CountsAsWritten(p) THEN Append(pkt, p) ELSE pkt)
          /\ UNCHANGED <<fs, wpos, filling>>
     ELSE \/ /\ fs' = [fs EXCEPT ![cmd.tgt].data = Put(@, wpos, Entry(p))]
             /\ wpos' = wpos + 1 /\ pkt' = Append(pkt, p) /\ UNCHANGED filling
          \/ filling' = FALSE /\ UNCHANGED <<fs, wpos, pkt>>
  /\ UNCHANGED <<other, orphan, late, opens, touched, checked, cmd, step, todo, handles, result,
                 orig, snapshot, undeleted, victim, offset, packets, unnoticed>>

\* Deleting reports failure in any case; writing does for an empty directory.
DirEnds ==
  /\ step = "ends" /\ handles' = {}
  /\ CASE cmd.op = "deleteAll" -> Reports(FALSE) /\ UNCHANGED <<fs, packets, unnoticed>>
       [] cmd.op \in {"sendOne", "sendAll"} ->
            /\ IF cmd.op = "sendOne" \/ pkt # <<>>
               THEN Transmit(<<offset, pkt>>) ELSE UNCHANGED <<packets, unnoticed>>
            /\ Reports(TRUE) /\ UNCHANGED fs
       [] cmd.op = "writeList" ->
            /\ \/ /\ dirCnt > 0 /\ filling
                  /\ fs' = [fs EXCEPT ![cmd.tgt].data = Put(@, 0, Stats(dirCnt, Len(pkt)))]
                  /\ Reports(TRUE)
               \/ Reports(FALSE) /\ UNCHANGED fs
            /\ UNCHANGED <<packets, unnoticed>>
  /\ UNCHANGED <<other, orphan, late, opens, touched, checked, cmd, todo, wpos, orig,
                 snapshot, seen, undeleted, victim, dirCnt, pkt, offset, filling>>

DirStep ==
  \/ DirOpen \/ ReadEnds \/ Unlink \/ OpenList \/ WriteHead \/ DirEnds
  \/ \E p \in InDir : ReadToDelete(p) \/ ReadToSend(p) \/ ReadToWrite(p)
=============================================================================
