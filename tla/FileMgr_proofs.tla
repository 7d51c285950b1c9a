---------------------------- MODULE FileMgr_proofs ----------------------------
(***************************************************************************)
(* Proofs about FileMgr, for every set of files and of commands: the       *)
(* inductive invariant IInv, its step split into one lemma per action and  *)
(* part, and the safety properties that follow from it.                    *)
(***************************************************************************)
EXTENDS FileMgr, SequenceTheorems, TLAPS

-----------------------------------------------------------------------------
(* Facts about data.                                                       *)

LEMMA BlockFact ==
  /\ \A n \in Int : Data(n) \in Blocks
  /\ \A p \in Paths : Entry(p) \in Blocks
  /\ \A n, m \in Int : Stats(n, m) \in Blocks
  /\ Hole \in Blocks
BY DEF Data, Entry, Stats, Hole, Block, Blocks

LEMMA AbsentFact ==
  /\ Absent \in FileType /\ Absent.there = FALSE /\ Absent.data = <<>>
  /\ Holding(<<>>) \in FileType /\ Holding(<<>>).there = TRUE /\ Holding(<<>>).data = <<>>
<1>1. <<>> \in Seq(Blocks)
  BY EmptySeq
<1> QED
  BY <1>1 DEF Absent, Holding, FileType

LEMMA NoCommandFact == NoCommand.op = "none"
BY DEF NoCommand

\* What is written into a file, and what stays.
LEMMA PutFact ==
  ASSUME NEW s \in Seq(Blocks), NEW i \in Nat, NEW b \in Blocks
  PROVE  /\ Put(s, i, b) \in Seq(Blocks)
         /\ Len(Put(s, i, b)) = IF i < Len(s) THEN Len(s) ELSE i + 1
         /\ Put(s, i, b)[i + 1] = b
         /\ \A k \in 1 .. Len(s) : k # i + 1 => Put(s, i, b)[k] = s[k]
<1> DEFINE n == IF i < Len(s) THEN Len(s) ELSE i + 1
           e(k) == IF k = i + 1 THEN b ELSE IF k <= Len(s) THEN s[k] ELSE Hole
           t == Put(s, i, b)
<1>1. Len(s) \in Nat /\ n \in Nat /\ i + 1 \in 1 .. n /\ \A k \in 1 .. Len(s) : k \in 1 .. n
  OBVIOUS
<1>2. \A k \in 1 .. n : e(k) \in Blocks
  <2> SUFFICES ASSUME NEW k \in 1 .. n PROVE e(k) \in Blocks
    OBVIOUS
  <2>1. k <= Len(s) => s[k] \in Blocks
    BY <1>1
  <2> QED
    BY <2>1, BlockFact
<1>3. t = [k \in 1 .. n |-> e(k)]
  BY DEF Put
<1> HIDE DEF n, t
<1>4. t \in [1 .. n -> Blocks]
  <2> HIDE DEF e
  <2> QED
    BY <1>2, <1>3
<1>5. t \in Seq(Blocks) /\ Len(t) = n
  BY <1>1, <1>4
<1>6. t[i + 1] = b /\ \A k \in 1 .. Len(s) : k # i + 1 => t[k] = s[k]
  BY <1>1, <1>3
<1> QED
  BY <1>5, <1>6 DEF n, t

\* A block written behind the last one, and one written over the first.
LEMMA PutLast ==
  ASSUME NEW s \in Seq(Blocks), NEW b \in Blocks
  PROVE  /\ Len(Put(s, Len(s), b)) = Len(s) + 1
         /\ Put(s, Len(s), b)[Len(s) + 1] = b
         /\ \A k \in 1 .. Len(s) : Put(s, Len(s), b)[k] = s[k]
<1> DEFINE t == Put(s, Len(s), b)
<1>1. Len(s) \in Nat
  OBVIOUS
<1>2. t[Len(s) + 1] = b
  BY <1>1, PutFact, Zenon
<1>3. Len(t) = IF Len(s) < Len(s) THEN Len(s) ELSE Len(s) + 1
  BY <1>1, PutFact
<1>4. \A k \in 1 .. Len(s) : k # Len(s) + 1 => t[k] = s[k]
  BY <1>1, PutFact
<1> HIDE DEF t
<1>5. Len(t) = Len(s) + 1 /\ \A k \in 1 .. Len(s) : t[k] = s[k]
  BY <1>1, <1>3, <1>4
<1> QED
  BY <1>2, <1>5 DEF t

LEMMA PutFirst ==
  ASSUME NEW s \in Seq(Blocks), NEW b \in Blocks, Len(s) # 0
  PROVE  /\ Len(Put(s, 0, b)) = Len(s)
         /\ Put(s, 0, b)[1] = b
         /\ \A k \in 2 .. Len(s) : Put(s, 0, b)[k] = s[k]
<1> DEFINE t == Put(s, 0, b)
<1>1. Len(s) \in Nat
  OBVIOUS
<1>2. t[0 + 1] = b
  BY PutFact, Zenon
<1>3. Len(t) = IF 0 < Len(s) THEN Len(s) ELSE 0 + 1
  BY PutFact
<1>4. \A k \in 1 .. Len(s) : k # 0 + 1 => t[k] = s[k]
  BY PutFact
<1> HIDE DEF t
<1>5. Len(t) = Len(s) /\ t[1] = b /\ \A k \in 2 .. Len(s) : t[k] = s[k]
  BY <1>1, <1>2, <1>3, <1>4
<1> QED
  BY <1>5 DEF t

CheckType == Paths \X SUBSET {"open", "closed", "nonexistent"}

\* The checks of a command: only the first may find the file open.
LEMMA ChecksFact ==
  ASSUME NEW c \in Commands
  PROVE  /\ ChecksOf(c) \in Seq(CheckType)
         /\ \A i \in DOMAIN ChecksOf(c) : i = 1 \/ MustNotBeOpen(ChecksOf(c)[i])
<1> USE DEF FileOpsOf, DirOpsOf, ChecksOf, FileChecks, DirChecks, TargetStates, ExistingFile,
            MustNotBeOpen, CheckType
<1>1. CASE c.op \in {"copy", "move"}
  <2> DEFINE x == <<c.src, ExistingFile>>
             y == <<c.tgt, TargetStates(c.over)>>
  <2>1. ChecksOf(c) = <<x, y>>
    BY <1>1
  <2>2. x \in CheckType /\ y \in CheckType /\ MustNotBeOpen(y)
    BY <1>1, CommandsAssumption
  <2> HIDE DEF x, y, ChecksOf, CheckType, MustNotBeOpen
  <2> QED
    BY <2>1, <2>2
<1>2. CASE c.op \in {"rename", "decompress"}
  <2> DEFINE x == ChecksOf(c)[1]
             y == <<c.tgt, {"nonexistent"}>>
  <2>1. ChecksOf(c) = <<x, y>>
    BY <1>2
  <2>2. x \in CheckType /\ y \in CheckType /\ MustNotBeOpen(y)
    BY <1>2, CommandsAssumption
  <2> HIDE DEF x, y, ChecksOf, CheckType, MustNotBeOpen
  <2> QED
    BY <2>1, <2>2
<1>3. CASE c.op = "delete"
  <2> DEFINE x == <<c.src, {"closed"}>>
  <2>1. ChecksOf(c) = <<x>>
    BY <1>3
  <2>2. x \in CheckType
    BY <1>3, CommandsAssumption
  <2> HIDE DEF x, ChecksOf, CheckType
  <2> QED
    BY <2>1, <2>2
<1>4. CASE c.op = "concatenate"
  <2> DEFINE x == <<c.src, {"closed"}>>
             y == <<c.src2, {"closed"}>>
             z == <<c.tgt, {"nonexistent"}>>
  <2>1. ChecksOf(c) = <<x, y, z>>
    BY <1>4
  <2>2. /\ x \in CheckType /\ y \in CheckType /\ z \in CheckType
        /\ MustNotBeOpen(y) /\ MustNotBeOpen(z)
    BY <1>4, CommandsAssumption
  <2> HIDE DEF x, y, z, ChecksOf, CheckType, MustNotBeOpen
  <2> QED
    BY <2>1, <2>2
<1>5. CASE c.op = "writeList"
  <2> DEFINE x == <<c.tgt, {"closed", "nonexistent"}>>
  <2>1. ChecksOf(c) = <<x>>
    BY <1>5
  <2>2. x \in CheckType
    BY <1>5, CommandsAssumption
  <2> HIDE DEF x, ChecksOf, CheckType
  <2> QED
    BY <2>1, <2>2
<1>6. CASE c.op \in {"deleteAll", "sendOne", "sendAll"}
  <2>1. ChecksOf(c) = <<>>
    BY <1>6
  <2> HIDE DEF ChecksOf, CheckType
  <2> QED
    BY <2>1
<1> QED
  BY <1>1, <1>2, <1>3, <1>4, <1>5, <1>6, CommandsAssumption

\* The files that a command writes, overwrites or removes were not open when it
\* looked at them.
LEMMA GuardedFact ==
  ASSUME NEW c \in Commands
  PROVE  /\ c.op \in {"copy", "move", "rename", "concatenate", "writeList"} =>
              \E i \in DOMAIN ChecksOf(c) : MustNotBeOpen(ChecksOf(c)[i]) /\ ChecksOf(c)[i][1] = c.tgt
         /\ c.op = "delete" =>
              \E i \in DOMAIN ChecksOf(c) : MustNotBeOpen(ChecksOf(c)[i]) /\ ChecksOf(c)[i][1] = c.src
         /\ c.op = "concatenate" =>
              \E i \in DOMAIN ChecksOf(c) : MustNotBeOpen(ChecksOf(c)[i]) /\ ChecksOf(c)[i][1] = c.src2
         /\ c.op \in {"deleteAll", "sendOne", "sendAll"} => ChecksOf(c) = <<>>
<1> USE DEF FileOpsOf, ChecksOf, FileChecks, DirChecks, TargetStates, MustNotBeOpen
<1>1. CASE c.op \in {"copy", "move", "rename"}
  <2>1. /\ 2 \in DOMAIN ChecksOf(c) /\ ChecksOf(c)[2][1] = c.tgt /\ MustNotBeOpen(ChecksOf(c)[2])
    BY <1>1
  <2> QED
    BY <1>1, <2>1
<1>2. CASE c.op = "concatenate"
  <2>1. /\ 2 \in DOMAIN ChecksOf(c) /\ ChecksOf(c)[2][1] = c.src2 /\ MustNotBeOpen(ChecksOf(c)[2])
        /\ 3 \in DOMAIN ChecksOf(c) /\ ChecksOf(c)[3][1] = c.tgt /\ MustNotBeOpen(ChecksOf(c)[3])
    BY <1>2
  <2> QED
    BY <1>2, <2>1
<1>3. CASE c.op = "writeList"
  <2>1. 1 \in DOMAIN ChecksOf(c) /\ ChecksOf(c)[1][1] = c.tgt /\ MustNotBeOpen(ChecksOf(c)[1])
    BY <1>3
  <2> QED
    BY <1>3, <2>1
<1>4. CASE c.op = "delete"
  <2>1. 1 \in DOMAIN ChecksOf(c) /\ ChecksOf(c)[1][1] = c.src /\ MustNotBeOpen(ChecksOf(c)[1])
    BY <1>4
  <2> QED
    BY <1>4, <2>1
<1>5. CASE c.op \in {"deleteAll", "sendOne", "sendAll"}
  BY <1>5
<1> QED
  BY <1>1, <1>2, <1>3, <1>4, <1>5

\* One file is set.
LEMMA SetFact ==
  ASSUME NEW F \in [Paths -> FileType], NEW G, NEW p \in Paths, NEW v \in FileType,
         G = [F EXCEPT ![p] = v]
  PROVE  G \in [Paths -> FileType] /\ G[p] = v /\ \A q \in Paths : q # p => G[q] = F[q]
OBVIOUS

-----------------------------------------------------------------------------
(* Types, and where a command can be.                                      *)

\* What the command names, and which step belongs to which command.
LEMMA CmdFact ==
  ASSUME BaseOK, step # "idle"
  PROVE  /\ cmd \in Commands /\ cmd.op \in FileOpsOf \cup DirOpsOf
         /\ cmd.op \in FileOpsOf => cmd.src \in Paths
         /\ cmd.op \in (FileOpsOf \ {"delete"}) \cup {"writeList"} => cmd.tgt \in Paths
         /\ cmd.op = "concatenate" => cmd.src2 \in Paths
         /\ cmd.offset \in Nat /\ (cmd.op = "sendAll" => cmd.offset = 0)
BY CommandsAssumption DEF BaseOK, Placed

LEMMA StepFact ==
  ASSUME BaseOK
  PROVE  /\ step = "rename" => cmd.op \in {"move", "rename"} /\ cmd.src \in Paths /\ cmd.tgt \in Paths
         /\ step = "remove" => cmd.op \in {"move", "delete", "concatenate"} /\ ToRemove \in Paths
         /\ Writing => cmd.op \in {"copy", "move", "concatenate"} /\ from \in Paths /\ into \in Paths
         /\ step = "unlink" => cmd.op = "deleteAll" /\ victim \in Paths
         /\ step \in {"openList", "head"} => cmd.op = "writeList"
         /\ step \in {"read", "ends"} => cmd.op \in DirOpsOf
         /\ step # "idle" /\ cmd.op = "writeList" => cmd.tgt \in Paths
<1>1. CASE step = "idle"
  BY <1>1 DEF Writing
<1>2. CASE step # "idle"
  <2>1. /\ step \in StepsOf(cmd.op) \cup {"idle", "check"}
        /\ Writing => /\ <<from, into>> = IF second THEN <<cmd.src2, cmd.src2>> ELSE <<cmd.src, cmd.tgt>>
                      /\ second => cmd.op = "concatenate"
        /\ step = "unlink" => victim \in InDir
    BY DEF BaseOK, Placed
  <2>2. InDir \subseteq Paths
    BY StoreAssumption
  <2>3. CASE cmd.op \in FileOpsOf
    BY <1>2, <2>1, <2>2, <2>3, CmdFact DEF FileOpsOf, DirOpsOf, StepsOf, Writing, ToRemove
  <2>4. CASE cmd.op \in DirOpsOf
    BY <1>2, <2>1, <2>2, <2>4, CmdFact DEF FileOpsOf, DirOpsOf, StepsOf, Writing, ToRemove
  <2> QED
    BY <1>2, <2>3, <2>4, CmdFact
<1> QED
  BY <1>1, <1>2

LEMMA StoreFact ==
  ASSUME BaseOK
  PROVE  /\ fs \in [Paths -> FileType]
         /\ \A p \in Paths : fs[p] \in FileType /\ fs[p].there \in BOOLEAN /\ fs[p].data \in Seq(Blocks)
         /\ other \in Paths \cup {NoPath} /\ NoPath \notin Paths
BY StoreAssumption DEF BaseOK, Named, TypeOK, FileType

LEMMA InitBase == Init => BaseOK
<1> SUFFICES ASSUME Init PROVE BaseOK
  OBVIOUS
<1> USE DEF Init, StoreInit, CopyInit, DirInit
<1>1. fs \in [Paths -> FileType] /\ \A p \in Paths : ~fs[p].there => fs[p].data = <<>>
  <2>1. ASSUME NEW p \in DOMAIN InitData
        PROVE  Holding([i \in 1 .. Len(InitData[p]) |-> Data(InitData[p][i])]) \in FileType
    <3>1. InitData[p] \in Seq(Int)
      BY StoreAssumption
    <3>2. Len(InitData[p]) \in Nat /\ \A i \in 1 .. Len(InitData[p]) : Data(InitData[p][i]) \in Blocks
      BY <3>1, BlockFact
    <3> DEFINE d == [i \in 1 .. Len(InitData[p]) |-> Data(InitData[p][i])]
    <3>3. d \in Seq(Blocks)
      BY <3>2
    <3> QED
      BY <3>3 DEF Holding, FileType
  <2>2. ASSUME NEW p \in Paths
        PROVE  fs[p] \in FileType /\ (~fs[p].there => fs[p].data = <<>>)
    <3>1. CASE p \in DOMAIN InitData
      <4>1. fs[p] = Holding([i \in 1 .. Len(InitData[p]) |-> Data(InitData[p][i])])
        BY <3>1
      <4>2. fs[p].there = TRUE
        BY <4>1 DEF Holding
      <4> QED
        BY <2>1, <3>1, <4>1, <4>2
    <3>2. CASE p \notin DOMAIN InitData
      BY <3>2, AbsentFact
    <3> QED
      BY <3>1, <3>2
  <2> QED
    BY <2>2
<1>2. TypeOK
  <2>1. \A p \in Paths : fs[p].there \in BOOLEAN
    BY <1>1 DEF FileType
  <2>2. Len(pkt) <= ListEntries + PktEntries
    BY DirAssumption
  <2>3. cmds \in 0 .. MaxCmds /\ opens \in 0 .. MaxOpens
    BY StoreAssumption, CommandsAssumption
  <2>4. orphan \in BOOLEAN /\ late \in BOOLEAN
    BY Zenon
  <2>5. /\ other = NoPath /\ touched = {} /\ checked = {} /\ step = "idle" /\ result = "none"
        /\ handles = {} /\ snapshot \cup seen = {} /\ unnoticed = {}
    OBVIOUS
  <2> HIDE DEF Init
  <2> QED
    BY <1>1, <2>1, <2>2, <2>3, <2>4, <2>5 DEF TypeOK, Steps
<1>3. Placed
  BY DEF Placed, Writing
<1>4. Named
  BY <1>1 DEF Named
<1>5. ListingTypes
  BY DEF ListingTypes
<1> QED
  BY <1>2, <1>3, <1>4, <1>5 DEF BaseOK

\* The types of what the actions that work on files alone leave as it is.
LEMMA ListingKept ==
  ASSUME BaseOK, UNCHANGED dirVars, UNCHANGED cmd, step' = "read" => step = "read"
  PROVE  ListingTypes'
BY DEF BaseOK, ListingTypes, dirVars

LEMMA OpenSourceBase == BaseOK /\ OpenSource /\ UNCHANGED <<dirVars, cmds>> => BaseOK'
<1> SUFFICES ASSUME BaseOK, OpenSource, UNCHANGED <<dirVars, cmds>> PROVE BaseOK'
  OBVIOUS
<1>1. Writing /\ cmd.op \in {"copy", "move", "concatenate"} /\ Writing'
  BY StepFact DEF OpenSource, Writing
<1>2. TypeOK'
  BY DEF BaseOK, TypeOK, Steps, OpenSource, storeVars, dirVars
<1>3. Placed'
  BY <1>1, CmdFact DEF BaseOK, Placed, StepsOf, OpenSource, Writing
<1>4. Named'
  BY DEF BaseOK, Named, OpenSource, storeVars
<1>5. ListingTypes'
  BY ListingKept DEF OpenSource
<1> QED
  BY <1>2, <1>3, <1>4, <1>5 DEF BaseOK

LEMMA CloseFilesBase == BaseOK /\ CloseFiles /\ UNCHANGED <<dirVars, cmds>> => BaseOK'
<1> SUFFICES ASSUME BaseOK, CloseFiles, UNCHANGED <<dirVars, cmds>> PROVE BaseOK'
  OBVIOUS
<1>1. /\ step = "close" /\ Writing /\ cmd.op \in {"copy", "move", "concatenate"}
      /\ handles' = {} /\ UNCHANGED <<storeVars, cmd, todo, wpos, orig, pos, copied>>
  BY StepFact DEF CloseFiles, Writing, Closed
<1>2. /\ step' \in {"idle", "remove", "openSource"}
      /\ result' \in {result, "success", "failure"} /\ (step' = "idle" => result' # "none")
      /\ step' # "idle" => cmd.op \in {"move", "concatenate"}
      /\ step' = "remove" => cmd.op \in {"move", "concatenate"}
      /\ step' = "openSource" =>
            cmd.op = "concatenate" /\ second' = TRUE /\ from' = cmd.src2 /\ into' = cmd.src2
  BY <1>1 DEF CloseFiles, Reports, SecondTarget, RemovesSource
<1>3. TypeOK'
  BY <1>1, <1>2 DEF BaseOK, TypeOK, Steps, storeVars, dirVars
<1>4. Placed'
  <2>1. step # "idle"
    BY <1>1
  <2> QED
    BY <1>1, <1>2, <2>1, CmdFact DEF BaseOK, Placed, StepsOf, Writing
<1>5. Named'
  BY <1>1, <1>2 DEF BaseOK, Named, storeVars
<1>6. ListingTypes'
  BY <1>1, <1>2, ListingKept
<1> QED
  BY <1>3, <1>4, <1>5, <1>6 DEF BaseOK

LEMMA FileStartsBase == BaseOK /\ FileStarts /\ UNCHANGED <<dirVars, cmds>> => BaseOK'
<1> SUFFICES ASSUME BaseOK, FileStarts, UNCHANGED <<dirVars, cmds>> PROVE BaseOK'
  OBVIOUS
<1>1. /\ step = "check" /\ cmd.op \in FileOpsOf
      /\ from' = cmd.src /\ into' = cmd.tgt /\ second' = FALSE
      /\ UNCHANGED <<storeVars, cmd, todo, handles, wpos, orig, pos, copied>>
  BY DEF FileStarts, FileOpsOf
<1>2. /\ step' \in {"idle", "remove", "openSource", "rename"}
      /\ result' \in {result, "success", "failure"} /\ (step' = "idle" => result' # "none")
      /\ step' = "openSource" => cmd.op \in {"copy", "concatenate"}
      /\ step' = "rename" => cmd.op \in {"move", "rename"}
      /\ step' = "remove" => cmd.op = "delete"
  BY DEF FileStarts, Reports
<1> step # "idle" /\ handles = {}
  BY <1>1 DEF BaseOK, Placed
<1>3. TypeOK'
  BY <1>1, <1>2 DEF BaseOK, TypeOK, Steps, storeVars, dirVars
<1>4. Placed'
  BY <1>1, <1>2, CmdFact DEF BaseOK, Placed, StepsOf, Writing
<1>5. Named'
  BY <1>1, <1>2 DEF BaseOK, Named, storeVars
<1>6. ListingTypes'
  BY <1>1, <1>2, ListingKept
<1> QED
  BY <1>3, <1>4, <1>5, <1>6 DEF BaseOK

LEMMA OpenTargetBase == BaseOK /\ OpenTarget /\ UNCHANGED <<dirVars, cmds>> => BaseOK'
<1> SUFFICES ASSUME BaseOK, OpenTarget, UNCHANGED <<dirVars, cmds>> PROVE BaseOK'
  OBVIOUS
<1>1. /\ step = "openTarget" /\ Writing /\ cmd.op \in {"copy", "move", "concatenate"} /\ Writing'
      /\ into \in Paths
  BY StepFact DEF OpenTarget, Writing
<1>2. /\ fs' \in [Paths -> FileType]
      /\ \A p \in Paths : fs[p].there => fs'[p].there
      /\ \A p \in Paths : ~fs'[p].there => fs'[p].data = <<>>
      /\ step' = "block" => fs'[into].there
  <2>1. CASE fs' = [fs EXCEPT ![into] = Holding(<<>>)]
    <3>1. fs' \in [Paths -> FileType] /\ fs'[into] = Holding(<<>>)
          /\ \A q \in Paths : q # into => fs'[q] = fs[q]
      BY <1>1, <2>1, StoreFact, AbsentFact, SetFact
    <3> QED
      BY <3>1, AbsentFact DEF BaseOK, TypeOK
  <2>2. CASE fs' = fs /\ step' = "close"
    BY <2>2 DEF BaseOK, TypeOK, Named
  <2> QED
    BY <2>1, <2>2 DEF OpenTarget
<1>3. TypeOK'
  <2>1. \A p \in Paths : fs'[p].there \in BOOLEAN
    BY <1>2 DEF FileType
  <2> QED
    BY <1>2, <2>1 DEF BaseOK, TypeOK, Steps, OpenTarget, dirVars
<1>4. Placed'
  BY <1>1, CmdFact DEF BaseOK, Placed, StepsOf, OpenTarget, Writing
<1>5. Named'
  <2>1. step' \in {"block", "close"} /\ wpos' \in Nat /\ pos' = pos /\ orig' = orig /\ into' = into
        /\ other' = other /\ orphan' = orphan
    BY DEF OpenTarget, BaseOK, Named
  <2> QED
    BY <1>2, <2>1, StoreFact DEF BaseOK, Named
<1>6. ListingTypes'
  BY ListingKept DEF OpenTarget
<1> QED
  BY <1>3, <1>4, <1>5, <1>6 DEF BaseOK

\* A file that is written keeps its name.
LEMMA FilesWritten ==
  ASSUME BaseOK, NEW p \in Paths, NEW d \in Seq(Blocks), fs[p].there,
         fs' = [fs EXCEPT ![p].data = d]
  PROVE  /\ fs' \in [Paths -> FileType]
         /\ \A q \in Paths : fs'[q].there = fs[q].there
         /\ \A q \in Paths : ~fs'[q].there => fs'[q].data = <<>>
         /\ fs'[p].data = d /\ \A q \in Paths : q # p => fs'[q] = fs[q]
<1>1. /\ fs' \in [Paths -> FileType] /\ fs'[p].there = fs[p].there /\ fs'[p].data = d
      /\ \A q \in Paths : q # p => fs'[q] = fs[q]
  <2> DEFINE v == [fs[p] EXCEPT !.data = d]
  <2>1. v \in FileType /\ v.there = fs[p].there /\ v.data = d
    BY StoreFact DEF FileType
  <2>2. fs' = [fs EXCEPT ![p] = v]
    OBVIOUS
  <2> HIDE DEF v
  <2>3. fs \in [Paths -> FileType]
    BY StoreFact
  <2>4. fs' \in [Paths -> FileType] /\ fs'[p] = v /\ \A q \in Paths : q # p => fs'[q] = fs[q]
    BY <2>1, <2>2, <2>3
  <2> QED
    BY <2>1, <2>4
<1> QED
  BY <1>1 DEF BaseOK, TypeOK

LEMMA CopyBlockFiles ==
  ASSUME BaseOK, CopyBlock
  PROVE  /\ fs' \in [Paths -> FileType]
         /\ \A q \in Paths : fs'[q].there = fs[q].there
         /\ \A q \in Paths : ~fs'[q].there => fs'[q].data = <<>>
         /\ \A q \in Paths : q # into => fs'[q] = fs[q]
<1>1. CASE /\ pos < Len(fs[from].data)
           /\ fs' = [fs EXCEPT ![into].data = Put(@, wpos, fs[from].data[pos + 1])]
  <2> DEFINE s == fs[from].data
             d == Put(fs[into].data, wpos, s[pos + 1])
  <2>1. /\ from \in Paths /\ into \in Paths /\ fs[into].there
        /\ pos \in Nat /\ wpos \in Nat /\ s \in Seq(Blocks) /\ fs[into].data \in Seq(Blocks)
    BY StepFact, StoreFact DEF CopyBlock, Writing, BaseOK, Named
  <2>2. s[pos + 1] \in Blocks
    <3> HIDE DEF s
    <3> QED
      BY <1>1, <2>1 DEF s
  <2>3. d \in Seq(Blocks)
    BY <2>1, <2>2, PutFact
  <2>4. fs' = [fs EXCEPT ![into].data = d]
    BY <1>1
  <2> HIDE DEF d
  <2> QED
    BY <2>1, <2>3, <2>4, FilesWritten
<1>2. CASE UNCHANGED fs
  BY <1>2 DEF BaseOK, TypeOK, Named
<1> QED
  BY <1>1, <1>2 DEF CopyBlock

LEMMA CopyBlockBase == BaseOK /\ CopyBlock /\ UNCHANGED <<dirVars, cmds>> => BaseOK'
<1> SUFFICES ASSUME BaseOK, CopyBlock, UNCHANGED <<dirVars, cmds>> PROVE BaseOK'
  OBVIOUS
<1>1. /\ step = "block" /\ Writing /\ cmd.op \in {"copy", "move", "concatenate"} /\ Writing'
      /\ into \in Paths
  BY StepFact DEF CopyBlock, Writing
<1>2. /\ fs' \in [Paths -> FileType]
      /\ \A q \in Paths : fs'[q].there = fs[q].there
      /\ \A q \in Paths : ~fs'[q].there => fs'[q].data = <<>>
  BY CopyBlockFiles
<1>3. TypeOK'
  <2>1. \A p \in Paths : fs'[p].there \in BOOLEAN
    BY <1>2 DEF FileType
  <2> QED
    BY <1>2, <2>1 DEF BaseOK, TypeOK, Steps, CopyBlock, dirVars
<1>4. Placed'
  BY <1>1, CmdFact DEF BaseOK, Placed, StepsOf, CopyBlock, Writing
<1>5. Named'
  <2>1. /\ step' \in {"block", "close"} /\ orig' = orig /\ into' = into
        /\ other' = other /\ orphan' = orphan
        /\ (pos' = pos /\ wpos' = wpos) \/ (pos' = pos + 1 /\ wpos' = wpos + 1)
    BY <1>1 DEF CopyBlock
  <2>2. pos' \in Nat /\ wpos' \in Nat
    BY <2>1 DEF BaseOK, Named
  <2> QED
    BY <1>1, <1>2, <2>1, <2>2, StoreFact DEF BaseOK, Named
<1>6. ListingTypes'
  BY ListingKept DEF CopyBlock
<1> QED
  BY <1>3, <1>4, <1>5, <1>6 DEF BaseOK

\* Two files are renamed or removed at most, and a file that is open goes along
\* or loses its name.
LEMMA RenamedFact ==
  ASSUME BaseOK, NEW p \in Paths, NEW q \in Paths, fs[p].there, Renamed(p, q)
  PROVE  /\ fs' \in [Paths -> FileType]
         /\ fs'[q] = fs[p] /\ (p # q => fs'[p] = Absent)
         /\ \A r \in Paths \ {p, q} : fs'[r] = fs[r]
         /\ \A r \in Paths : ~fs'[r].there => fs'[r].data = <<>>
         /\ orphan' \in BOOLEAN /\ other' \in Paths \cup {NoPath}
         /\ other' # NoPath /\ ~orphan' => fs'[other'].there
<1>1. /\ fs' \in [Paths -> FileType]
      /\ fs'[q] = fs[p] /\ (p # q => fs'[p] = Absent)
      /\ \A r \in Paths \ {p, q} : fs'[r] = fs[r]
  <2>1. CASE p = q
    BY <2>1, StoreFact DEF Renamed
  <2>2. CASE p # q
    <3> DEFINE G == [fs EXCEPT ![q] = fs[p]]
    <3>1. G \in [Paths -> FileType] /\ G[q] = fs[p] /\ \A r \in Paths : r # q => G[r] = fs[r]
      BY StoreFact, SetFact
    <3>2. fs' = [G EXCEPT ![p] = Absent]
      BY <2>2 DEF Renamed
    <3> HIDE DEF G
    <3>3. /\ fs' \in [Paths -> FileType] /\ fs'[p] = Absent
          /\ \A r \in Paths : r # p => fs'[r] = G[r]
      BY <3>1, <3>2, AbsentFact, SetFact
    <3> QED
      BY <2>2, <3>1, <3>3
  <2> QED
    BY <2>1, <2>2
<1>2. \A r \in Paths : ~fs'[r].there => fs'[r].data = <<>>
  BY <1>1, AbsentFact DEF BaseOK, TypeOK
<1>3. orphan' \in BOOLEAN
  BY DEF Renamed, BaseOK, TypeOK
<1>4. other' \in Paths \cup {NoPath} /\ (other' # NoPath /\ ~orphan' => fs'[other'].there)
  BY <1>1, StoreFact DEF Renamed, BaseOK, Named
<1> QED
  BY <1>1, <1>2, <1>3, <1>4

LEMMA RemovedFact ==
  ASSUME BaseOK, NEW p \in Paths, Removed(p)
  PROVE  /\ fs' \in [Paths -> FileType] /\ fs'[p] = Absent
         /\ \A r \in Paths : r # p => fs'[r] = fs[r]
         /\ \A r \in Paths : ~fs'[r].there => fs'[r].data = <<>>
         /\ orphan' \in BOOLEAN /\ other' = other
         /\ other' # NoPath /\ ~orphan' => fs'[other'].there
<1>1. fs' \in [Paths -> FileType] /\ fs'[p] = Absent /\ \A r \in Paths : r # p => fs'[r] = fs[r]
  BY StoreFact, SetFact, AbsentFact DEF Removed
<1>2. \A r \in Paths : ~fs'[r].there => fs'[r].data = <<>>
  BY <1>1, AbsentFact DEF BaseOK, TypeOK
<1>3. orphan' \in BOOLEAN /\ other' = other
  BY DEF Removed, BaseOK, TypeOK
<1>4. other' # NoPath /\ ~orphan' => fs'[other'].there
  BY <1>1, StoreFact DEF Removed, BaseOK, Named
<1> QED
  BY <1>1, <1>2, <1>3, <1>4

LEMMA RenameBase == BaseOK /\ Rename /\ UNCHANGED <<dirVars, cmds>> => BaseOK'
<1> SUFFICES ASSUME BaseOK, Rename, UNCHANGED <<dirVars, cmds>> PROVE BaseOK'
  OBVIOUS
<1>1. /\ step = "rename" /\ cmd.op \in {"move", "rename"} /\ cmd.src \in Paths /\ cmd.tgt \in Paths
      /\ UNCHANGED <<late, opens, touched, checked, cmd, todo, handles, wpos, orig, copyVars>>
  BY StepFact DEF Rename
<1>2. /\ step' \in {"idle", "openSource"} /\ (step' = "openSource" => cmd.op = "move")
      /\ result' \in {result, "success", "failure"} /\ (step' = "idle" => result' # "none")
  BY DEF Rename, Reports
<1>3. /\ fs' \in [Paths -> FileType]
      /\ \A r \in Paths : ~fs'[r].there => fs'[r].data = <<>>
      /\ orphan' \in BOOLEAN /\ other' \in Paths \cup {NoPath}
      /\ other' # NoPath /\ ~orphan' => fs'[other'].there
  <2>1. CASE fs[cmd.src].there /\ Renamed(cmd.src, cmd.tgt)
    BY <1>1, <2>1, RenamedFact
  <2>2. CASE UNCHANGED <<fs, other, orphan>>
    BY <2>2 DEF BaseOK, TypeOK, Named
  <2> QED
    BY <2>1, <2>2 DEF Rename
<1>4. step # "idle" /\ handles = {}
  BY <1>1 DEF BaseOK, Placed
<1>5. TypeOK'
  <2>1. \A p \in Paths : fs'[p].there \in BOOLEAN
    BY <1>3 DEF FileType
  <2> QED
    BY <1>1, <1>2, <1>3, <1>4, <2>1 DEF BaseOK, TypeOK, Steps, dirVars
<1>6. Placed'
  <2>1. ~second /\ from = cmd.src /\ into = cmd.tgt
    BY <1>1 DEF BaseOK, Placed
  <2> QED
    BY <1>1, <1>2, <1>4, <2>1, CmdFact DEF BaseOK, Placed, StepsOf, Writing, copyVars
<1>7. Named'
  BY <1>1, <1>2, <1>3 DEF BaseOK, Named, copyVars
<1>8. ListingTypes'
  BY <1>1, <1>2, ListingKept
<1> QED
  BY <1>5, <1>6, <1>7, <1>8 DEF BaseOK

LEMMA RemoveBase == BaseOK /\ Remove /\ UNCHANGED <<dirVars, cmds>> => BaseOK'
<1> SUFFICES ASSUME BaseOK, Remove, UNCHANGED <<dirVars, cmds>> PROVE BaseOK'
  OBVIOUS
<1>1. /\ step = "remove" /\ ToRemove \in Paths /\ step' = "idle" /\ result' \in {"success", "failure"}
      /\ UNCHANGED <<late, opens, touched, checked, cmd, todo, handles, wpos, orig, copyVars>>
  BY StepFact DEF Remove, Reports
<1>2. /\ fs' \in [Paths -> FileType]
      /\ \A r \in Paths : ~fs'[r].there => fs'[r].data = <<>>
      /\ orphan' \in BOOLEAN /\ other' = other
      /\ other' # NoPath /\ ~orphan' => fs'[other'].there
  <2>1. CASE Removed(ToRemove)
    BY <1>1, <2>1, RemovedFact
  <2>2. CASE UNCHANGED <<fs, other, orphan>>
    BY <2>2 DEF BaseOK, TypeOK, Named
  <2> QED
    BY <2>1, <2>2 DEF Remove
<1>3. step # "idle" /\ handles = {}
  BY <1>1 DEF BaseOK, Placed
<1>4. TypeOK'
  <2>1. \A p \in Paths : fs'[p].there \in BOOLEAN
    BY <1>2 DEF FileType
  <2> QED
    BY <1>1, <1>2, <1>3, <2>1 DEF BaseOK, TypeOK, Steps, dirVars
<1>5. Placed'
  BY <1>1, <1>3, CmdFact DEF BaseOK, Placed, Writing
<1>6. Named'
  BY <1>1, <1>2 DEF BaseOK, Named, copyVars
<1>7. ListingTypes'
  BY <1>1, ListingKept
<1> QED
  BY <1>4, <1>5, <1>6, <1>7 DEF BaseOK

\* Other tasks create files and write to them.
LEMMA OthersFiles ==
  ASSUME BaseOK, Others
  PROVE  /\ fs' \in [Paths -> FileType]
         /\ \A q \in Paths : fs[q].there => fs'[q].there
         /\ \A q \in Paths : ~fs'[q].there => fs'[q].data = <<>>
         /\ other' \in Paths \cup {NoPath} /\ orphan' \in BOOLEAN /\ late' \in BOOLEAN
         /\ opens' \in 0 .. MaxOpens /\ touched \subseteq touched' /\ touched' \subseteq Paths
         /\ \A q \in Paths : q \notin touched' => fs'[q] = fs[q]
         /\ other' # NoPath /\ ~orphan' => fs'[other'].there
         /\ UNCHANGED <<checked, taskVars>>
<1>1. CASE \E p \in Paths : OtherOpens(p)
  <2> PICK p \in Paths : OtherOpens(p)
    BY <1>1
  <2>1. fs' \in [Paths -> FileType] /\ fs'[p] = Holding(<<>>) /\ \A q \in Paths : q # p => fs'[q] = fs[q]
    BY StoreFact, AbsentFact, SetFact DEF OtherOpens
  <2>2. other' = p /\ orphan' = FALSE /\ touched' = touched \cup {p} /\ UNCHANGED <<checked, taskVars>>
    BY DEF OtherOpens
  <2>3. opens' \in 0 .. MaxOpens
    BY StoreAssumption DEF OtherOpens, BaseOK, TypeOK
  <2>4. late' \in BOOLEAN /\ orphan' \in BOOLEAN
    <3>1. late' = (p \in checked) /\ orphan' = FALSE
      BY DEF OtherOpens
    <3>2. late' = TRUE \/ late' = FALSE
      BY <3>1
    <3>3. late' \in BOOLEAN
      BY <3>2, Zenon
    <3> QED
      BY <3>1, <3>3, Zenon
  <2> QED
    BY <2>1, <2>2, <2>3, <2>4, AbsentFact DEF BaseOK, TypeOK
<1>2. CASE OtherWrites
  <2> DEFINE d == Append(fs[other].data, Data(0))
  <2>1. other \in Paths /\ fs[other].there /\ fs[other].data \in Seq(Blocks)
    BY <1>2, StoreFact DEF OtherWrites, BaseOK, Named
  <2>2. d \in Seq(Blocks)
    BY <2>1, BlockFact, AppendProperties
  <2>3. fs' = [fs EXCEPT ![other].data = d]
    BY <1>2 DEF OtherWrites
  <2>4. /\ touched' = touched \cup {other}
        /\ UNCHANGED <<other, orphan, late, opens, checked, taskVars>>
    BY <1>2 DEF OtherWrites
  <2> HIDE DEF d
  <2>5. /\ fs' \in [Paths -> FileType]
        /\ \A q \in Paths : fs'[q].there = fs[q].there
        /\ \A q \in Paths : ~fs'[q].there => fs'[q].data = <<>>
        /\ \A q \in Paths : q # other => fs'[q] = fs[q]
    BY <2>1, <2>2, <2>3, FilesWritten
  <2> QED
    BY <2>1, <2>4, <2>5 DEF BaseOK, TypeOK
<1>3. CASE OtherCloses
  <2>1. other' = NoPath /\ orphan' = FALSE /\ late' = FALSE /\ UNCHANGED <<fs, opens, touched, checked, taskVars>>
    BY <1>3 DEF OtherCloses
  <2>2. late' \in BOOLEAN /\ orphan' \in BOOLEAN
    BY <2>1, Zenon
  <2> QED
    BY <2>1, <2>2 DEF BaseOK, TypeOK, Named
<1> QED
  BY <1>1, <1>2, <1>3 DEF Others

LEMMA OthersBase == BaseOK /\ Others /\ UNCHANGED <<copyVars, dirVars, cmds>> => BaseOK'
<1> SUFFICES ASSUME BaseOK, Others, UNCHANGED <<copyVars, dirVars, cmds>> PROVE BaseOK'
  OBVIOUS
<1>1. /\ fs' \in [Paths -> FileType]
      /\ \A q \in Paths : fs[q].there => fs'[q].there
      /\ \A q \in Paths : ~fs'[q].there => fs'[q].data = <<>>
      /\ other' \in Paths \cup {NoPath} /\ orphan' \in BOOLEAN /\ late' \in BOOLEAN
      /\ opens' \in 0 .. MaxOpens /\ touched' \subseteq Paths
      /\ other' # NoPath /\ ~orphan' => fs'[other'].there
      /\ UNCHANGED <<checked, taskVars>>
  BY OthersFiles
<1>2. TypeOK'
  <2>1. \A p \in Paths : fs'[p].there \in BOOLEAN
    BY <1>1 DEF FileType
  <2> QED
    BY <1>1, <2>1 DEF BaseOK, TypeOK, Steps, dirVars, taskVars
<1>3. Placed'
  BY <1>1 DEF BaseOK, Placed, Writing, taskVars, copyVars, dirVars
<1>4. Named'
  <2>1. step = "block" => into \in Paths
    BY StepFact DEF Writing
  <2>2. step \in {"head", "read", "ends"} /\ cmd.op = "writeList" => cmd.tgt \in Paths
    BY StepFact
  <2> QED
    BY <1>1, <2>1, <2>2 DEF BaseOK, Named, taskVars, copyVars
<1>5. ListingTypes'
  BY <1>1, ListingKept DEF taskVars
<1> QED
  BY <1>2, <1>3, <1>4, <1>5 DEF BaseOK

LEMMA CommandBase ==
  ASSUME NEW c \in Commands, BaseOK, Command(c)
  PROVE  BaseOK'
<1>1. /\ step = "idle" /\ cmd' = c /\ step' = "check" /\ result' = "none" /\ orig' = fs
      /\ checked' = {} /\ late' = FALSE /\ touched' = {other} \ {NoPath}
      /\ UNCHANGED <<fs, other, orphan, opens, handles, wpos>> /\ UNCHANGED <<copyVars, dirVars>>
  BY DEF Command, Begins
<1>2. handles = {}
  BY <1>1 DEF BaseOK, Placed
<1>3. TypeOK'
  <2>1. late' \in BOOLEAN
    BY <1>1, Zenon
  <2>2. cmds' \in 0 .. MaxCmds
    BY CommandsAssumption DEF Command, BaseOK, TypeOK
  <2> QED
    BY <1>1, <1>2, <2>1, <2>2 DEF BaseOK, TypeOK, Steps, dirVars
<1>4. Placed'
  BY <1>1, <1>2 DEF BaseOK, Placed, Writing
<1>5. Named'
  BY <1>1 DEF BaseOK, Named, copyVars
<1>6. ListingTypes'
  BY <1>1 DEF BaseOK, ListingTypes, dirVars
<1> QED
  BY <1>3, <1>4, <1>5, <1>6 DEF BaseOK

LEMMA CheckBase ==
  ASSUME BaseOK, Check, Head(todo)[1] \in Paths, UNCHANGED <<copyVars, dirVars, cmds>>
  PROVE  BaseOK'
<1>1. /\ step = "check" /\ step' \in {"check", "idle"}
      /\ result' \in {result, "failure"} /\ (step' = "idle" => result' = "failure")
      /\ checked' = checked \cup {Head(todo)[1]} /\ late' = (late /\ other # Head(todo)[1])
      /\ UNCHANGED <<fs, other, orphan, opens, touched, cmd, handles, wpos, orig>>
  BY DEF Check, LooksAt, Reports
<1>2. handles = {} /\ step # "idle"
  BY <1>1 DEF BaseOK, Placed
<1>3. TypeOK'
  <2>1. late' \in BOOLEAN
    BY <1>1, Zenon
  <2> QED
    BY <1>1, <1>2, <2>1 DEF BaseOK, TypeOK, Steps, dirVars
<1>4. Placed'
  BY <1>1, <1>2, CmdFact DEF BaseOK, Placed, Writing
<1>5. Named'
  BY <1>1 DEF BaseOK, Named, copyVars
<1>6. ListingTypes'
  BY <1>1, ListingKept
<1> QED
  BY <1>3, <1>4, <1>5, <1>6 DEF BaseOK

\* The directory commands.
LEMMA DirOpenBase == BaseOK /\ DirOpen /\ UNCHANGED <<copyVars, cmds>> => BaseOK'
<1> SUFFICES ASSUME BaseOK, DirOpen, UNCHANGED <<copyVars, cmds>> PROVE BaseOK'
  OBVIOUS
<1>1. /\ step = "check" /\ cmd.op \in DirOpsOf
      /\ step' \in {"idle", "read", "openList"}
      /\ result' \in {result, "failure"} /\ (step' = "idle" => result' = "failure")
      /\ step' = "openList" => cmd.op = "writeList"
      /\ step' = "read" => cmd.op # "writeList"
      /\ step' = "idle" => UNCHANGED handles
      /\ handles' \in {{"dir"}, handles}
      /\ UNCHANGED <<storeVars, cmd, todo, wpos, orig, victim>>
      /\ snapshot' \in {Files, snapshot} /\ seen' \in {{}, seen} /\ dirCnt' \in {0, dirCnt}
      /\ unnoticed' \in {{}, unnoticed}
      /\ \/ step' = "idle" /\ UNCHANGED <<pkt, packets, offset>>
         \/ pkt' = <<>> /\ packets' = <<>> /\ offset' = cmd.offset
  BY DEF DirOpen, DirOpsOf, Reports
<1>2. handles = {} /\ step # "idle"
  BY <1>1 DEF BaseOK, Placed
<1>3. TypeOK'
  <2>1. handles' \subseteq {"source", "target", "dir", "list"}
    BY <1>1 DEF BaseOK, TypeOK
  <2>2. Len(pkt') <= ListEntries + PktEntries
    BY <1>1, DirAssumption DEF BaseOK, TypeOK
  <2>3. snapshot' \cup seen' \subseteq InDir
    BY <1>1 DEF BaseOK, TypeOK, Files
  <2>4. unnoticed' \subseteq {"read", "rewind", "transmit"}
    BY <1>1 DEF BaseOK, TypeOK
  <2> QED
    BY <1>1, <1>2, <2>1, <2>2, <2>3, <2>4 DEF BaseOK, TypeOK, Steps, storeVars
<1>4. Placed'
  BY <1>1, <1>2, CmdFact DEF BaseOK, Placed, Writing, StepsOf, DirOpsOf
<1>5. Named'
  BY <1>1 DEF BaseOK, Named, storeVars, copyVars
<1>6. ListingTypes'
  <2>1. dirCnt' \in Nat /\ offset' \in Nat
    BY <1>1, <1>2, CmdFact DEF BaseOK, ListingTypes
  <2>2. pkt' \in Seq(InDir) /\ packets' \in Seq(Nat \X Seq(InDir))
    <3>1. <<>> \in Seq(InDir) /\ <<>> \in Seq(Nat \X Seq(InDir))
      BY EmptySeq
    <3> QED
      BY <1>1, <3>1 DEF BaseOK, ListingTypes
  <2>3. step' = "read" => Len(pkt') < PktEntries
    BY <1>1, DirAssumption
  <2> QED
    BY <2>1, <2>2, <2>3 DEF ListingTypes
<1> QED
  BY <1>3, <1>4, <1>5, <1>6 DEF BaseOK

LEMMA ReadEndsBase == BaseOK /\ ReadEnds /\ UNCHANGED <<copyVars, cmds>> => BaseOK'
<1> SUFFICES ASSUME BaseOK, ReadEnds, UNCHANGED <<copyVars, cmds>> PROVE BaseOK'
  OBVIOUS
<1>1. /\ step = "read" /\ step' = "ends" /\ unnoticed' \in {unnoticed, unnoticed \cup {"read"}}
      /\ UNCHANGED <<storeVars, cmd, todo, handles, wpos, result, orig,
                     snapshot, seen, undeleted, victim, dirCnt, pkt, offset, filling, packets>>
  BY DEF ReadEnds
<1>2. TypeOK'
  <2>1. unnoticed' \subseteq {"read", "rewind", "transmit"}
    BY <1>1 DEF BaseOK, TypeOK
  <2> QED
    BY <1>1, <2>1 DEF BaseOK, TypeOK, Steps, storeVars
<1>3. Placed'
  <2>1. step # "idle" /\ cmd.op \in DirOpsOf
    BY <1>1, StepFact
  <2> QED
    BY <1>1, <2>1 DEF BaseOK, Placed, Writing, StepsOf, DirOpsOf
<1>4. Named'
  BY <1>1 DEF BaseOK, Named, storeVars, copyVars
<1>5. ListingTypes'
  BY <1>1 DEF BaseOK, ListingTypes
<1> QED
  BY <1>2, <1>3, <1>4, <1>5 DEF BaseOK

LEMMA ReadToDeleteBase ==
  ASSUME NEW p \in InDir, BaseOK, ReadToDelete(p), UNCHANGED <<copyVars, cmds>>
  PROVE  BaseOK'
<1>1. /\ step = "read" /\ step' \in {"read", "unlink"} /\ cmd.op = "deleteAll"
      /\ seen' = seen \cup {p} /\ checked' = checked \cup {p} /\ late' = (late /\ other # p)
      /\ step' = "unlink" => victim' = p
      /\ UNCHANGED <<fs, other, orphan, opens, touched, cmd, todo, handles, wpos, result, orig,
                     snapshot, dirCnt, pkt, offset, filling, packets, unnoticed>>
  BY DEF ReadToDelete, MayRead, LooksAt
<1>2. TypeOK'
  <2>1. late' \in BOOLEAN
    BY <1>1, Zenon
  <2>2. p \in Paths
    BY StoreAssumption
  <2> QED
    BY <1>1, <2>1, <2>2 DEF BaseOK, TypeOK, Steps
<1>3. Placed'
  <2>1. step # "idle"
    BY <1>1
  <2> QED
    BY <1>1, <2>1 DEF BaseOK, Placed, Writing, StepsOf
<1>4. Named'
  BY <1>1 DEF BaseOK, Named, copyVars
<1>5. ListingTypes'
  BY <1>1 DEF BaseOK, ListingTypes
<1> QED
  BY <1>2, <1>3, <1>4, <1>5 DEF BaseOK

LEMMA UnlinkBase == BaseOK /\ Unlink /\ UNCHANGED <<copyVars, cmds>> => BaseOK'
<1> SUFFICES ASSUME BaseOK, Unlink, UNCHANGED <<copyVars, cmds>> PROVE BaseOK'
  OBVIOUS
<1>1. /\ step = "unlink" /\ step' = "read" /\ cmd.op = "deleteAll" /\ victim \in Paths
      /\ UNCHANGED <<late, opens, touched, checked, cmd, todo, handles, wpos, result, orig,
                     victim, dirCnt, pkt, offset, filling, packets>>
  BY StepFact DEF Unlink
<1>2. /\ fs' \in [Paths -> FileType]
      /\ \A r \in Paths : ~fs'[r].there => fs'[r].data = <<>>
      /\ orphan' \in BOOLEAN /\ other' = other
      /\ other' # NoPath /\ ~orphan' => fs'[other'].there
  <2>1. CASE Removed(victim)
    BY <1>1, <2>1, RemovedFact
  <2>2. CASE UNCHANGED <<fs, other, orphan>>
    BY <2>2 DEF BaseOK, TypeOK, Named
  <2> QED
    BY <2>1, <2>2 DEF Unlink
<1>3. snapshot' \cup seen' \subseteq InDir /\ unnoticed' \subseteq {"read", "rewind", "transmit"}
  BY DEF Unlink, BaseOK, TypeOK
<1>4. TypeOK'
  <2>1. \A p \in Paths : fs'[p].there \in BOOLEAN
    BY <1>2 DEF FileType
  <2> QED
    BY <1>1, <1>2, <1>3, <2>1 DEF BaseOK, TypeOK, Steps
<1>5. Placed'
  <2>1. step # "idle"
    BY <1>1
  <2> QED
    BY <1>1, <2>1 DEF BaseOK, Placed, Writing, StepsOf
<1>6. Named'
  BY <1>1, <1>2 DEF BaseOK, Named, copyVars
<1>7. ListingTypes'
  BY <1>1 DEF BaseOK, ListingTypes
<1> QED
  BY <1>4, <1>5, <1>6, <1>7 DEF BaseOK

\* The packet in hand.
LEMMA ReadToSendPkt ==
  ASSUME NEW p \in InDir, BaseOK, ReadToSend(p)
  PROVE  /\ pkt' \in Seq(InDir) /\ packets' \in Seq(Nat \X Seq(InDir)) /\ offset' \in Nat
         /\ unnoticed' \subseteq {"read", "rewind", "transmit"}
         /\ Len(pkt') <= ListEntries + PktEntries
         /\ filling' => filling /\ Len(pkt') < PktEntries
<1> DEFINE listed == filling /\ dirCnt' > offset /\ p \notin LongNames
           entries == IF listed THEN Append(pkt, p) ELSE pkt
           full == filling /\ Len(entries) >= PktEntries
<1>1. /\ step = "read" /\ cmd.op \in {"sendOne", "sendAll"}
      /\ pkt \in Seq(InDir) /\ packets \in Seq(Nat \X Seq(InDir)) /\ offset \in Nat /\ Len(pkt) \in Nat
      /\ Len(pkt) <= ListEntries + PktEntries /\ (filling => Len(pkt) < PktEntries)
  BY DEF ReadToSend, MayRead, BaseOK, TypeOK, ListingTypes
<1>2. /\ entries \in Seq(InDir) /\ Len(entries) \in Nat
      /\ entries = pkt \/ (filling /\ Len(entries) = Len(pkt) + 1)
  <2>1. CASE listed
    <3>1. entries = Append(pkt, p)
      BY <2>1
    <3>2. Append(pkt, p) \in Seq(InDir) /\ Len(Append(pkt, p)) = Len(pkt) + 1
      BY <1>1, AppendProperties
    <3> QED
      BY <1>1, <2>1, <3>1, <3>2
  <2>2. CASE ~listed
    BY <1>1, <2>2
  <2> QED
    BY <2>1, <2>2
<1>3. \/ /\ packets' = Append(packets, <<offset, entries>>) \/ packets' = packets
         /\ pkt' = <<>> /\ offset' = offset + PktEntries /\ filling' = filling
      \/ /\ pkt' = entries /\ UNCHANGED <<packets, offset>>
         /\ filling' => filling /\ ~full
  BY <1>1 DEF ReadToSend, NextOffset, Transmit
<1> HIDE DEF entries, listed
<1>4. <<offset, entries>> \in Nat \X Seq(InDir) /\ <<>> \in Seq(InDir) /\ Len(<<>>) = 0
  BY <1>1, <1>2
<1>5. packets' \in Seq(Nat \X Seq(InDir))
  <2> DEFINE Pkts == Nat \X Seq(InDir)
             x == <<offset, entries>>
  <2>1. x \in Pkts /\ packets \in Seq(Pkts) /\ (packets' = Append(packets, x) \/ packets' = packets)
    BY <1>1, <1>3, <1>4
  <2> HIDE DEF Pkts, x
  <2>2. packets' \in Seq(Pkts)
    BY <2>1, AppendProperties
  <2> QED
    BY <2>2 DEF Pkts
<1>6. pkt' \in Seq(InDir) /\ offset' \in Nat
  <2>1. pkt' \in {<<>>, entries} /\ offset' \in {offset, offset + PktEntries}
    BY <1>3
  <2>2. offset' \in Nat
    BY <1>1, <2>1, DirAssumption
  <2> QED
    BY <1>2, <1>4, <2>1, <2>2
<1>7. /\ Len(pkt') <= ListEntries + PktEntries
      /\ filling' => filling /\ Len(pkt') < PktEntries
  BY <1>1, <1>2, <1>3, <1>4, DirAssumption
<1>8. unnoticed' \subseteq {"read", "rewind", "transmit"}
  BY DEF ReadToSend, Transmit, BaseOK, TypeOK
<1> QED
  BY <1>5, <1>6, <1>7, <1>8

LEMMA ReadToSendBase ==
  ASSUME NEW p \in InDir, BaseOK, ReadToSend(p), UNCHANGED <<copyVars, cmds>>
  PROVE  BaseOK'
<1>1. /\ step = "read" /\ cmd.op \in {"sendOne", "sendAll"}
      /\ seen' = seen \cup {p} /\ dirCnt' = dirCnt + 1
      /\ UNCHANGED <<storeVars, taskVars, snapshot, undeleted, victim>>
  BY DEF ReadToSend, MayRead
<1>2. TypeOK'
  BY <1>1, ReadToSendPkt DEF BaseOK, TypeOK, Steps, storeVars, taskVars
<1>3. Placed'
  BY <1>1 DEF BaseOK, Placed, Writing, taskVars
<1>4. Named'
  BY <1>1 DEF BaseOK, Named, storeVars, taskVars, copyVars
<1>5. ListingTypes'
  BY <1>1, ReadToSendPkt DEF BaseOK, ListingTypes
<1> QED
  BY <1>2, <1>3, <1>4, <1>5 DEF BaseOK

\* The list file.
LEMMA OpenListBase == BaseOK /\ OpenList /\ UNCHANGED <<copyVars, cmds>> => BaseOK'
<1> SUFFICES ASSUME BaseOK, OpenList, UNCHANGED <<copyVars, cmds>> PROVE BaseOK'
  OBVIOUS
<1>1. /\ step = "openList" /\ cmd.op = "writeList" /\ cmd.tgt \in Paths /\ step' \in {"head", "idle"}
      /\ handles' \in {handles \cup {"list"}, {}} /\ (step' = "idle" => handles' = {})
      /\ wpos' \in {0, wpos} /\ result' \in {result, "failure"} /\ (step' = "idle" => result' = "failure")
      /\ UNCHANGED <<other, orphan, late, opens, touched, checked, cmd, todo, orig, dirVars>>
  BY StepFact DEF OpenList, Reports
<1>2. /\ fs' \in [Paths -> FileType]
      /\ \A q \in Paths : fs[q].there => fs'[q].there
      /\ \A q \in Paths : ~fs'[q].there => fs'[q].data = <<>>
      /\ step' = "head" => fs'[cmd.tgt].there
  <2>1. CASE fs' = [fs EXCEPT ![cmd.tgt] = Holding(<<>>)]
    <3> DEFINE t == cmd.tgt
    <3>1. t \in Paths /\ fs' = [fs EXCEPT ![t] = Holding(<<>>)]
      BY <1>1, <2>1
    <3> HIDE DEF t
    <3>2. fs' \in [Paths -> FileType] /\ fs'[t] = Holding(<<>>)
          /\ \A q \in Paths : q # t => fs'[q] = fs[q]
      BY <3>1, StoreFact, AbsentFact, SetFact
    <3> QED
      BY <3>1, <3>2, AbsentFact DEF BaseOK, TypeOK, t
  <2>2. CASE fs' = fs /\ step' = "idle"
    BY <2>2 DEF BaseOK, TypeOK, Named
  <2> QED
    BY <2>1, <2>2 DEF OpenList, Reports
<1>3. TypeOK'
  <2>1. \A p \in Paths : fs'[p].there \in BOOLEAN
    BY <1>2 DEF FileType
  <2>2. handles' \subseteq {"source", "target", "dir", "list"}
    BY <1>1 DEF BaseOK, TypeOK
  <2> QED
    BY <1>1, <1>2, <2>1, <2>2 DEF BaseOK, TypeOK, Steps, dirVars
<1>4. Placed'
  <2>1. step # "idle"
    BY <1>1
  <2> QED
    BY <1>1, <2>1 DEF BaseOK, Placed, Writing, StepsOf
<1>5. Named'
  BY <1>1, <1>2, StoreFact DEF BaseOK, Named, copyVars
<1>6. ListingTypes'
  BY <1>1, ListingKept
<1> QED
  BY <1>3, <1>4, <1>5, <1>6 DEF BaseOK

\* A block put into the list file.
LEMMA ListWritten ==
  ASSUME BaseOK, NEW i \in Nat, NEW b \in Blocks, cmd.tgt \in Paths, fs[cmd.tgt].there,
         fs' = [fs EXCEPT ![cmd.tgt].data = Put(@, i, b)]
  PROVE  /\ fs' \in [Paths -> FileType]
         /\ \A q \in Paths : fs'[q].there = fs[q].there
         /\ \A q \in Paths : ~fs'[q].there => fs'[q].data = <<>>
         /\ fs'[cmd.tgt].data = Put(fs[cmd.tgt].data, i, b)
         /\ \A q \in Paths : q # cmd.tgt => fs'[q] = fs[q]
<1> DEFINE t == cmd.tgt
           d == Put(fs[t].data, i, b)
<1>1. d \in Seq(Blocks)
  BY StoreFact, PutFact
<1>2. t \in Paths /\ fs[t].there /\ fs' = [fs EXCEPT ![t].data = d]
  OBVIOUS
<1> HIDE DEF t, d
<1>3. /\ fs' \in [Paths -> FileType]
      /\ \A q \in Paths : fs'[q].there = fs[q].there
      /\ \A q \in Paths : ~fs'[q].there => fs'[q].data = <<>>
      /\ fs'[t].data = d /\ \A q \in Paths : q # t => fs'[q] = fs[q]
  BY <1>1, <1>2, FilesWritten
<1> QED
  BY <1>3 DEF t, d

LEMMA WriteHeadBase == BaseOK /\ WriteHead /\ UNCHANGED <<copyVars, cmds>> => BaseOK'
<1> SUFFICES ASSUME BaseOK, WriteHead, UNCHANGED <<copyVars, cmds>> PROVE BaseOK'
  OBVIOUS
<1>1. /\ step = "head" /\ cmd.op = "writeList" /\ cmd.tgt \in Paths /\ step' \in {"read", "idle"}
      /\ handles' \in {handles, {}} /\ (step' = "idle" => handles' = {})
      /\ wpos' \in {1, wpos} /\ result' \in {result, "failure"} /\ (step' = "idle" => result' = "failure")
      /\ UNCHANGED <<other, orphan, late, opens, touched, checked, cmd, todo, orig, dirVars>>
  BY StepFact DEF WriteHead, Reports
<1>2. /\ fs' \in [Paths -> FileType]
      /\ \A q \in Paths : fs'[q].there = fs[q].there
      /\ \A q \in Paths : ~fs'[q].there => fs'[q].data = <<>>
  <2>1. CASE fs' = [fs EXCEPT ![cmd.tgt].data = Put(@, 0, Stats(0, 0))]
    <3>1. fs[cmd.tgt].there /\ Stats(0, 0) \in Blocks
      BY <1>1, BlockFact DEF BaseOK, Named
    <3> QED
      BY <1>1, <2>1, <3>1, ListWritten
  <2>2. CASE fs' = fs
    BY <2>2 DEF BaseOK, TypeOK, Named
  <2> QED
    BY <2>1, <2>2 DEF WriteHead
<1>3. TypeOK'
  <2>1. \A p \in Paths : fs'[p].there \in BOOLEAN
    BY <1>2 DEF FileType
  <2>2. handles' \subseteq {"source", "target", "dir", "list"}
    BY <1>1 DEF BaseOK, TypeOK
  <2> QED
    BY <1>1, <1>2, <2>1, <2>2 DEF BaseOK, TypeOK, Steps, dirVars
<1>4. Placed'
  <2>1. step # "idle"
    BY <1>1
  <2> QED
    BY <1>1, <2>1 DEF BaseOK, Placed, Writing, StepsOf
<1>5. Named'
  BY <1>1, <1>2, StoreFact DEF BaseOK, Named, copyVars
<1>6. ListingTypes'
  BY <1>1 DEF BaseOK, ListingTypes, dirVars
<1> QED
  BY <1>3, <1>4, <1>5, <1>6 DEF BaseOK

LEMMA ReadToWriteBase ==
  ASSUME NEW p \in InDir, BaseOK, ReadToWrite(p), UNCHANGED <<copyVars, cmds>>
  PROVE  BaseOK'
<1>1. /\ step = "read" /\ cmd.op = "writeList" /\ cmd.tgt \in Paths
      /\ seen' = seen \cup {p} /\ dirCnt' = dirCnt + 1
      /\ UNCHANGED <<other, orphan, late, opens, touched, checked, cmd, step, todo, handles, result,
                     orig, snapshot, undeleted, victim, offset, packets, unnoticed>>
  BY StepFact DEF ReadToWrite, MayRead
<1>2. /\ fs' \in [Paths -> FileType]
      /\ \A q \in Paths : fs'[q].there = fs[q].there
      /\ \A q \in Paths : ~fs'[q].there => fs'[q].data = <<>>
      /\ wpos' \in Nat
  <2>1. CASE fs' = [fs EXCEPT ![cmd.tgt].data = Put(@, wpos, Entry(p))] /\ wpos' = wpos + 1
    <3>1. fs[cmd.tgt].there /\ Entry(p) \in Blocks /\ wpos \in Nat
      BY <1>1, BlockFact, StoreAssumption DEF BaseOK, Named
    <3>2. wpos' \in Nat
      BY <2>1, <3>1
    <3> QED
      BY <1>1, <2>1, <3>1, <3>2, ListWritten
  <2>2. CASE UNCHANGED <<fs, wpos>>
    BY <2>2 DEF BaseOK, TypeOK, Named
  <2> QED
    BY <2>1, <2>2 DEF ReadToWrite
<1>3. pkt' \in Seq(InDir) /\ Len(pkt') <= ListEntries + PktEntries
  <2>1. /\ pkt \in Seq(InDir) /\ Len(pkt) \in Nat /\ Len(pkt) <= ListEntries + PktEntries
    BY DEF BaseOK, TypeOK, ListingTypes
  <2>2. pkt' = pkt \/ (Len(pkt) < ListEntries /\ pkt' = Append(pkt, p))
    <3>1. CASE Len(pkt) >= ListEntries \/ p \in LongNames
      BY <3>1 DEF ReadToWrite
    <3>2. CASE ~(Len(pkt) >= ListEntries) /\ p \notin LongNames
      <4>1. Len(pkt) < ListEntries
        BY <2>1, <3>2, DirAssumption
      <4> QED
        BY <3>2, <4>1 DEF ReadToWrite
    <3> QED
      BY <3>1, <3>2
  <2>3. Append(pkt, p) \in Seq(InDir) /\ Len(Append(pkt, p)) = Len(pkt) + 1
    BY <2>1, AppendProperties
  <2> QED
    BY <2>1, <2>2, <2>3, DirAssumption
<1>4. TypeOK'
  <2>1. \A q \in Paths : fs'[q].there \in BOOLEAN
    BY <1>2 DEF FileType
  <2> QED
    BY <1>1, <1>2, <1>3, <2>1 DEF BaseOK, TypeOK, Steps
<1>5. Placed'
  BY <1>1 DEF BaseOK, Placed, Writing
<1>6. Named'
  BY <1>1, <1>2, StoreFact DEF BaseOK, Named, copyVars
<1>7. ListingTypes'
  BY <1>1, <1>3 DEF BaseOK, ListingTypes
<1> QED
  BY <1>4, <1>5, <1>6, <1>7 DEF BaseOK

LEMMA DirEndsBase == BaseOK /\ DirEnds /\ UNCHANGED <<copyVars, cmds>> => BaseOK'
<1> SUFFICES ASSUME BaseOK, DirEnds, UNCHANGED <<copyVars, cmds>> PROVE BaseOK'
  OBVIOUS
<1>1. /\ step = "ends" /\ handles' = {} /\ cmd.op \in DirOpsOf
      /\ UNCHANGED <<other, orphan, late, opens, touched, checked, cmd, todo, wpos, orig,
                     snapshot, seen, undeleted, victim, dirCnt, pkt, offset, filling>>
      /\ unnoticed' \in {unnoticed, unnoticed \cup {"transmit"}}
  <2>1. step = "ends" /\ cmd.op \in DirOpsOf
    BY StepFact DEF DirEnds
  <2> QED
    BY <2>1 DEF DirEnds, Transmit, DirOpsOf
<1>2. step' = "idle" /\ result' \in {"success", "failure"}
  BY <1>1 DEF DirEnds, DirOpsOf, Reports
<1>3. packets' \in Seq(Nat \X Seq(InDir))
  <2>1. packets' = packets \/ packets' = Append(packets, <<offset, pkt>>)
    BY <1>1 DEF DirEnds, Transmit, DirOpsOf
  <2> DEFINE Pkts == Nat \X Seq(InDir)
             x == <<offset, pkt>>
  <2>2. x \in Pkts /\ packets \in Seq(Pkts) /\ (packets' = Append(packets, x) \/ packets' = packets)
    BY <2>1 DEF BaseOK, ListingTypes
  <2> HIDE DEF Pkts, x
  <2>3. packets' \in Seq(Pkts)
    BY <2>2, AppendProperties
  <2> QED
    BY <2>3 DEF Pkts
<1>4. /\ fs' \in [Paths -> FileType]
      /\ \A q \in Paths : fs'[q].there = fs[q].there
      /\ \A q \in Paths : ~fs'[q].there => fs'[q].data = <<>>
  <2>1. CASE cmd.op = "writeList" /\ fs' = [fs EXCEPT ![cmd.tgt].data = Put(@, 0, Stats(dirCnt, Len(pkt)))]
    <3>1. /\ cmd.tgt \in Paths /\ fs[cmd.tgt].there
          /\ dirCnt \in Int /\ Len(pkt) \in Int
      BY <1>1, <2>1, StepFact DEF BaseOK, Named, ListingTypes
    <3>2. Stats(dirCnt, Len(pkt)) \in Blocks
      BY <3>1, BlockFact
    <3> QED
      BY <2>1, <3>1, <3>2, ListWritten
  <2>2. CASE fs' = fs
    BY <2>2 DEF BaseOK, TypeOK, Named
  <2> QED
    BY <1>1, <2>1, <2>2 DEF DirEnds, DirOpsOf
<1>5. TypeOK'
  <2>1. \A q \in Paths : fs'[q].there \in BOOLEAN
    BY <1>4 DEF FileType
  <2> QED
    BY <1>1, <1>2, <1>4, <2>1 DEF BaseOK, TypeOK, Steps
<1>6. Placed'
  BY <1>1, <1>2 DEF BaseOK, Placed, Writing
<1>7. Named'
  BY <1>1, <1>2, <1>4, StoreFact DEF BaseOK, Named, copyVars
<1>8. ListingTypes'
  BY <1>1, <1>2, <1>3 DEF BaseOK, ListingTypes
<1> QED
  BY <1>5, <1>6, <1>7, <1>8 DEF BaseOK

-----------------------------------------------------------------------------
(* Files that other tasks have open.                                       *)

\* The steps that write no file, look at none and leave the command at work.
Quiet ==
  \/ FileStarts /\ UNCHANGED <<dirVars, cmds>>
  \/ OpenSource /\ UNCHANGED <<dirVars, cmds>>
  \/ CloseFiles /\ UNCHANGED <<dirVars, cmds>>
  \/ DirOpen /\ UNCHANGED <<copyVars, cmds>>
  \/ ReadEnds /\ UNCHANGED <<copyVars, cmds>>
  \/ (\E p \in InDir : ReadToSend(p)) /\ UNCHANGED <<copyVars, cmds>>

\* Those that write the file of a copy or a listing.
Writes ==
  \/ OpenTarget /\ UNCHANGED <<dirVars, cmds>>
  \/ CopyBlock /\ UNCHANGED <<dirVars, cmds>>
  \/ OpenList /\ UNCHANGED <<copyVars, cmds>>
  \/ WriteHead /\ UNCHANGED <<copyVars, cmds>>
  \/ (\E p \in InDir : ReadToWrite(p)) /\ UNCHANGED <<copyVars, cmds>>
  \/ DirEnds /\ UNCHANGED <<copyVars, cmds>>

LEMMA Actions ==
  ASSUME Next
  PROVE  \/ \E c \in Commands : Command(c)
         \/ Check /\ UNCHANGED <<copyVars, dirVars, cmds>>
         \/ Quiet
         \/ Writes
         \/ Rename /\ UNCHANGED <<dirVars, cmds>>
         \/ Remove /\ UNCHANGED <<dirVars, cmds>>
         \/ (\E p \in InDir : ReadToDelete(p)) /\ UNCHANGED <<copyVars, cmds>>
         \/ Unlink /\ UNCHANGED <<copyVars, cmds>>
         \/ Others /\ UNCHANGED <<copyVars, dirVars, cmds>>
BY DEF Next, Child, FileStep, DirStep, Quiet, Writes

\* What a quiet step leaves alone.
LEMMA QuietFact ==
  ASSUME BaseOK, Quiet
  PROVE  /\ step # "idle" /\ UNCHANGED <<storeVars, cmd, todo, orig>>
         /\ step = "check" => todo = <<>>
         /\ step' \notin {"check", "unlink"}
<1>1. CASE FileStarts
  BY <1>1 DEF FileStarts, Reports
<1>2. CASE OpenSource
  BY <1>2 DEF OpenSource
<1>3. CASE CloseFiles
  <2>1. cmd.op \in {"copy", "move", "concatenate"}
    BY <1>3, StepFact DEF CloseFiles, Writing
  <2> QED
    BY <1>3, <2>1 DEF CloseFiles, Reports
<1>4. CASE DirOpen
  BY <1>4 DEF DirOpen, Reports
<1>5. CASE ReadEnds
  BY <1>5 DEF ReadEnds
<1>6. CASE \E p \in InDir : ReadToSend(p)
  BY <1>6 DEF ReadToSend, MayRead, taskVars
<1> QED
  BY <1>1, <1>2, <1>3, <1>4, <1>5, <1>6 DEF Quiet

\* The file that a step writes.
Target == IF Writing THEN into ELSE cmd.tgt

LEMMA WritesFact ==
  ASSUME BaseOK, Writes
  PROVE  /\ step \notin {"idle", "check"} /\ step' \notin {"check", "unlink"}
         /\ UNCHANGED <<other, orphan, late, opens, touched, checked, cmd, todo, orig>>
         /\ \/ UNCHANGED fs
            \/ /\ Target \in {cmd.tgt, cmd.src2}
               /\ cmd.op \in {"copy", "move", "concatenate", "writeList"}
               /\ Target = cmd.src2 => Target = cmd.tgt \/ cmd.op = "concatenate"
               /\ \A q \in Paths : q # Target => fs'[q] = fs[q]
<1>1. CASE OpenTarget \/ CopyBlock
  <2>1. /\ step \in {"openTarget", "block"} /\ Writing /\ Target = into
        /\ step' \in {"block", "close"}
        /\ UNCHANGED <<other, orphan, late, opens, touched, checked, cmd, todo, orig>>
    BY <1>1 DEF OpenTarget, CopyBlock, Writing, Target
  <2>2. /\ cmd.op \in {"copy", "move", "concatenate"} /\ into \in {cmd.tgt, cmd.src2} /\ into \in Paths
        /\ into = cmd.src2 => into = cmd.tgt \/ cmd.op = "concatenate"
    BY <2>1, StepFact DEF BaseOK, Placed
  <2>3. \A q \in Paths : q # into => fs'[q] = fs[q]
    <3>1. CASE OpenTarget
      <4>1. CASE fs' = [fs EXCEPT ![into] = Holding(<<>>)]
        BY <4>1, <2>2, StoreFact, AbsentFact, SetFact
      <4>2. CASE UNCHANGED fs
        BY <4>2
      <4> QED
        BY <3>1, <4>1, <4>2 DEF OpenTarget
    <3>2. CASE CopyBlock
      BY <3>2, CopyBlockFiles
    <3> QED
      BY <1>1, <3>1, <3>2
  <2> QED
    BY <2>1, <2>2, <2>3
<1>2. CASE OpenList
  <2>1. /\ step = "openList" /\ cmd.op = "writeList" /\ cmd.tgt \in Paths /\ Target = cmd.tgt
        /\ step' \in {"head", "idle"}
        /\ UNCHANGED <<other, orphan, late, opens, touched, checked, cmd, todo, orig>>
    BY <1>2, StepFact DEF OpenList, Reports, Writing, Target
  <2>2. \A q \in Paths : q # cmd.tgt => fs'[q] = fs[q]
    <3>1. CASE fs' = [fs EXCEPT ![cmd.tgt] = Holding(<<>>)]
      BY <2>1, <3>1, StoreFact
    <3>2. CASE UNCHANGED fs
      BY <3>2
    <3> QED
      BY <1>2, <3>1, <3>2 DEF OpenList
  <2> QED
    BY <2>1, <2>2
<1>3. CASE WriteHead
  <2>1. /\ step = "head" /\ cmd.op = "writeList" /\ cmd.tgt \in Paths /\ Target = cmd.tgt
        /\ step' \in {"read", "idle"}
        /\ UNCHANGED <<other, orphan, late, opens, touched, checked, cmd, todo, orig>>
    BY <1>3, StepFact DEF WriteHead, Reports, Writing, Target
  <2>2. \A q \in Paths : q # cmd.tgt => fs'[q] = fs[q]
    <3>1. CASE fs' = [fs EXCEPT ![cmd.tgt].data = Put(@, 0, Stats(0, 0))]
      <4>1. fs[cmd.tgt].there /\ Stats(0, 0) \in Blocks
        BY <2>1, BlockFact DEF BaseOK, Named
      <4> QED
        BY <2>1, <3>1, <4>1, ListWritten
    <3>2. CASE UNCHANGED fs
      BY <3>2
    <3> QED
      BY <1>3, <3>1, <3>2 DEF WriteHead
  <2> QED
    BY <2>1, <2>2
<1>4. CASE \E p \in InDir : ReadToWrite(p)
  <2> PICK p \in InDir : ReadToWrite(p)
    BY <1>4
  <2>1. /\ step = "read" /\ cmd.op = "writeList" /\ cmd.tgt \in Paths /\ Target = cmd.tgt
        /\ step' = "read"
        /\ UNCHANGED <<other, orphan, late, opens, touched, checked, cmd, todo, orig>>
    BY StepFact DEF ReadToWrite, MayRead, Writing, Target
  <2>2. \A q \in Paths : q # cmd.tgt => fs'[q] = fs[q]
    <3>1. CASE fs' = [fs EXCEPT ![cmd.tgt].data = Put(@, wpos, Entry(p))]
      <4>1. fs[cmd.tgt].there /\ Entry(p) \in Blocks /\ wpos \in Nat
        BY <2>1, BlockFact, StoreAssumption DEF BaseOK, Named
      <4> QED
        BY <2>1, <3>1, <4>1, ListWritten
    <3>2. CASE UNCHANGED fs
      BY <3>2
    <3> QED
      BY <3>1, <3>2 DEF ReadToWrite
  <2> QED
    BY <2>1, <2>2
<1>5. CASE DirEnds
  <2>1. /\ step = "ends" /\ step' = "idle" /\ cmd.op \in DirOpsOf /\ Target = cmd.tgt
        /\ UNCHANGED <<other, orphan, late, opens, touched, checked, cmd, todo, orig>>
    BY <1>5, StepFact DEF DirEnds, Reports, Writing, DirOpsOf, Target
  <2>2. CASE cmd.op = "writeList"
    <3>1. cmd.tgt \in Paths /\ fs[cmd.tgt].there /\ Stats(dirCnt, Len(pkt)) \in Blocks
      BY <2>1, <2>2, StepFact, BlockFact DEF BaseOK, Named, ListingTypes
    <3>2. CASE fs' = [fs EXCEPT ![cmd.tgt].data = Put(@, 0, Stats(dirCnt, Len(pkt)))]
      BY <2>1, <2>2, <3>1, <3>2, ListWritten
    <3>3. CASE UNCHANGED fs
      BY <2>1, <3>3
    <3> QED
      BY <1>5, <2>2, <3>2, <3>3 DEF DirEnds
  <2>3. CASE cmd.op # "writeList"
    BY <1>5, <2>1, <2>3 DEF DirEnds, DirOpsOf
  <2> QED
    BY <2>2, <2>3
<1> QED
  BY <1>1, <1>2, <1>3, <1>4, <1>5 DEF Writes

\* What is unopened stays so, unless the command looks at it again.
LEMMA UnopenedKept ==
  ASSUME BaseOK, Others \/ UNCHANGED <<other, orphan, late, checked>>, NEW p \in Paths, Unopened(p)
  PROVE  Unopened(p)'
<1>1. CASE \E q \in Paths : OtherOpens(q)
  BY <1>1 DEF OtherOpens, Unopened
<1>2. CASE OtherWrites
  BY <1>2 DEF OtherWrites, Unopened
<1>3. CASE OtherCloses
  BY <1>3, StoreFact DEF OtherCloses, Unopened
<1>4. CASE UNCHANGED <<other, orphan, late, checked>>
  BY <1>4 DEF Unopened
<1> QED
  BY <1>1, <1>2, <1>3, <1>4 DEF Others

\* A step that looks at no file leaves the guards as they are.
LEMMA GuardedKept ==
  ASSUME BaseOK, Guarded, step # "idle", UNCHANGED <<cmd, todo>>,
         Others \/ UNCHANGED <<other, orphan, late, checked>>,
         step' = "check" => step = "check",
         step = "check" => todo = <<>> \/ step' = "check",
         step' = "unlink" => step = "unlink" /\ UNCHANGED victim
  PROVE  Guarded'
<1>1. cmd \in Commands /\ InDir \subseteq Paths
  BY CmdFact, StoreAssumption
<1>2. /\ ChecksOf(cmd)' = ChecksOf(cmd) /\ Passed' = Passed
      /\ \A i \in DOMAIN ChecksOf(cmd) : MustNotBeOpen(ChecksOf(cmd)[i])' = MustNotBeOpen(ChecksOf(cmd)[i])
  BY DEF ChecksOf, FileChecks, DirChecks, Passed, MustNotBeOpen
<1>3. ChecksOf(cmd) \in Seq(CheckType)
  BY <1>1, ChecksFact
<1>4. \A i \in DOMAIN ChecksOf(cmd) : ChecksOf(cmd)[i][1] \in Paths
  BY <1>3 DEF CheckType
<1>5. step' = "check" =>
       /\ todo' \in Seq(Paths \X SUBSET {"open", "closed", "nonexistent"})
       /\ Len(todo') <= Len(ChecksOf(cmd)')
       /\ \A i \in DOMAIN todo' : todo'[i] = ChecksOf(cmd)'[Passed' + i]
  BY <1>2 DEF Guarded
<1>6. ASSUME NEW i \in DOMAIN ChecksOf(cmd), MustNotBeOpen(ChecksOf(cmd)[i]),
             step' # "idle", step' = "check" => i <= Passed
      PROVE  Unopened(ChecksOf(cmd)[i][1])'
  <2>1. step = "check" => i <= Passed
    <3>1. CASE step = "check" /\ step' # "check"
      <4>1. todo = <<>> /\ Passed = Len(ChecksOf(cmd))
        BY <3>1, <1>3 DEF Passed
      <4> QED
        BY <1>3, <4>1
    <3> QED
      BY <1>6, <3>1
  <2>2. Unopened(ChecksOf(cmd)[i][1])
    BY <1>6, <2>1 DEF Guarded
  <2> DEFINE p == ChecksOf(cmd)[i][1]
  <2>3. p \in Paths /\ Unopened(p) /\ p' = p
    BY <1>4, <2>2, <1>2
  <2> HIDE DEF p
  <2>4. Unopened(p)'
    BY <2>3, UnopenedKept
  <2> QED
    BY <2>4, <2>3 DEF p
<1>7. step' = "unlink" => Unopened(victim)'
  <2> SUFFICES ASSUME step' = "unlink" PROVE Unopened(victim)'
    OBVIOUS
  <2>1. Unopened(victim) /\ victim \in Paths /\ victim' = victim
    BY <1>1 DEF Guarded, BaseOK, Placed
  <2> QED
    BY <2>1, UnopenedKept DEF Unopened
<1> QED
  BY <1>2, <1>5, <1>6, <1>7 DEF Guarded

\* The file that a check looks at: the next one of the command's list.
LEMMA CheckFact ==
  ASSUME BaseOK, Guarded, Check
  PROVE  /\ cmd \in Commands /\ ChecksOf(cmd) \in Seq(CheckType) /\ todo \in Seq(CheckType)
         /\ Passed \in Nat /\ Passed + 1 \in DOMAIN ChecksOf(cmd)
         /\ Head(todo) = ChecksOf(cmd)[Passed + 1] /\ Head(todo)[1] \in Paths
         /\ Tail(todo) \in Seq(CheckType) /\ Len(Tail(todo)) = Len(todo) - 1
         /\ \A i \in 1 .. Len(Tail(todo)) : Tail(todo)[i] = ChecksOf(cmd)[Passed + 1 + i]
<1>1. step = "check" /\ todo # <<>>
  BY DEF Check
<1>2. /\ cmd \in Commands /\ ChecksOf(cmd) \in Seq(CheckType) /\ todo \in Seq(CheckType)
      /\ Len(todo) <= Len(ChecksOf(cmd))
      /\ \A i \in DOMAIN todo : todo[i] = ChecksOf(cmd)[Passed + i]
  BY <1>1, CmdFact, ChecksFact DEF Guarded, CheckType
<1> DEFINE s == ChecksOf(cmd)
           n == Passed
<1>3. s \in Seq(CheckType) /\ n = Len(s) - Len(todo)
  BY <1>2 DEF Passed
<1>4. \A i \in DOMAIN todo : todo[i] = s[n + i]
  BY <1>2
<1> HIDE DEF s, n, CheckType
<1>5. /\ Head(todo) = todo[1] /\ Head(todo) \in CheckType /\ Tail(todo) \in Seq(CheckType)
      /\ Len(Tail(todo)) = Len(todo) - 1 /\ Len(todo) \in Nat \ {0}
      /\ \A i \in 1 .. Len(Tail(todo)) : Tail(todo)[i] = todo[i + 1]
  BY <1>1, <1>2, HeadTailProperties
<1>6. n \in Nat /\ n + 1 \in DOMAIN s /\ Len(todo) <= Len(s)
  BY <1>2, <1>3, <1>5 DEF s
<1>7. Head(todo) = s[n + 1]
  BY <1>2, <1>4, <1>5
<1>8. ASSUME NEW i \in 1 .. Len(Tail(todo)) PROVE Tail(todo)[i] = s[n + 1 + i]
  <2>1. i + 1 \in DOMAIN todo /\ n + (i + 1) = n + 1 + i
    BY <1>2, <1>5, <1>6
  <2> QED
    BY <1>4, <1>5, <2>1
<1>9. Head(todo)[1] \in Paths
  BY <1>5 DEF CheckType
<1> QED
  BY <1>2, <1>5, <1>6, <1>7, <1>8, <1>9 DEF s, n

\* A check that is passed and has to find the file not open finds it so; the
\* others, at the beginning, guard nothing yet.
LEMMA CheckGuarded ==
  ASSUME BaseOK, Guarded, Check
  PROVE  Guarded'
<1> DEFINE n == Passed
           s == ChecksOf(cmd)
<1> PICK q : q = Head(todo)[1]
  OBVIOUS
<1>1. /\ step = "check" /\ checked' = checked \cup {q} /\ late' = (late /\ other # q)
      /\ todo' = Tail(todo) /\ step' \in {"check", "idle"}
      /\ step' = "check" => State(q) \in Head(todo)[2]
      /\ UNCHANGED <<fs, other, orphan, opens, touched, cmd, handles, wpos, orig>>
  BY DEF Check, LooksAt, Reports
<1>2. /\ s \in Seq(CheckType) /\ n \in Nat /\ n + 1 \in DOMAIN s /\ Head(todo) = s[n + 1] /\ q \in Paths
      /\ cmd \in Commands /\ todo \in Seq(CheckType)
      /\ Tail(todo) \in Seq(CheckType) /\ Len(Tail(todo)) = Len(todo) - 1
      /\ \A i \in 1 .. Len(Tail(todo)) : Tail(todo)[i] = s[n + 1 + i]
  BY CheckFact
<1>3. n = Len(s) - Len(todo) /\ Len(todo) \in Nat /\ Len(s) \in Nat
  BY <1>2 DEF Passed
<1>4. /\ s' = s /\ n' = n + 1
      /\ \A i \in DOMAIN s : MustNotBeOpen(s[i])' = MustNotBeOpen(s[i])
  <2>1. ChecksOf(cmd)' = ChecksOf(cmd)
    BY <1>1 DEF ChecksOf, FileChecks, DirChecks
  <2>2. Len(todo') = Len(todo) - 1
    BY <1>1, <1>2
  <2>3. n' = Len(s) - Len(todo')
    BY <2>1 DEF Passed
  <2> QED
    BY <1>3, <2>1, <2>2, <2>3 DEF MustNotBeOpen
<1>5. \A i \in DOMAIN s : s[i][1] \in Paths /\ (i = 1 \/ MustNotBeOpen(s[i]))
  <2>1. \A i \in DOMAIN s : s[i] \in CheckType
    BY <1>2
  <2> QED
    BY <1>2, <2>1, ChecksFact DEF CheckType
<1>6. ASSUME step' = "check" PROVE MustNotBeOpen(s[n + 1]) => Unopened(q)'
  <2> SUFFICES ASSUME MustNotBeOpen(s[n + 1]) PROVE Unopened(q)'
    OBVIOUS
  <2>1. State(q) # "open"
    BY <1>1, <1>2, <1>6 DEF MustNotBeOpen
  <2>2. other = q => ~fs[q].there
    BY <2>1 DEF State
  <2>3. other = q => orphan
    BY <1>2, <2>2, StoreFact DEF BaseOK, Named
  <2> QED
    BY <1>1, <2>3 DEF Unopened
<1>7. ASSUME step' = "check", NEW i \in DOMAIN s, MustNotBeOpen(s[i]), i <= n + 1
      PROVE  Unopened(s[i][1])'
  <2> PICK p : p = s[i][1]
    OBVIOUS
  <2>0. p = s[i][1]' /\ p \in Paths
    BY <1>4, <1>5
  <2>1. CASE i = n + 1
    BY <1>2, <1>6, <1>7, <2>0, <2>1 DEF Unopened
  <2>2. CASE i # n + 1
    <3>1. i <= n /\ n + 1 # 1
      BY <1>2, <1>7, <2>2
    <3>2. Unopened(p)
      BY <1>1, <1>7, <3>1 DEF Guarded
    <3>3. Unopened(q)'
      BY <1>2, <1>5, <1>6, <1>7, <3>1
    <3>4. Unopened(p)'
      BY <1>1, <3>2, <3>3 DEF Unopened
    <3> QED
      BY <2>0, <3>4 DEF Unopened
  <2> QED
    BY <2>1, <2>2
<1>8. step' = "check" =>
       /\ todo' \in Seq(Paths \X SUBSET {"open", "closed", "nonexistent"})
       /\ Len(todo') <= Len(s')
       /\ \A i \in DOMAIN todo' : todo'[i] = s'[n' + i]
  <2>1. todo' \in Seq(CheckType) /\ Len(todo') <= Len(s')
    BY <1>1, <1>2, <1>3, <1>4
  <2>2. \A i \in DOMAIN todo' : todo'[i] = s'[n' + i]
    BY <1>1, <1>2, <1>4
  <2> QED
    BY <2>1, <2>2 DEF CheckType
<1>9. step' # "idle" =>
       \A i \in DOMAIN s' :
         MustNotBeOpen(s[i])' /\ (step' = "check" => i <= n') => Unopened(s[i][1])'
  BY <1>1, <1>4, <1>7
<1> QED
  BY <1>1, <1>8, <1>9 DEF Guarded

LEMMA CommandGuarded ==
  ASSUME NEW c \in Commands, BaseOK, Command(c)
  PROVE  Guarded'
<1>1. cmd' = c /\ step' = "check" /\ todo' = ChecksOf(c)
  BY DEF Command, Begins
<1>2. ChecksOf(c) \in Seq(CheckType) /\ ChecksOf(cmd)' = ChecksOf(c)
  <2>1. ChecksOf(cmd)' = ChecksOf(c)
    BY <1>1 DEF ChecksOf, FileChecks, DirChecks
  <2> QED
    BY <2>1, ChecksFact
<1>3. Passed' = 0 /\ Len(ChecksOf(c)) \in Nat
  <2>1. Passed' = Len(ChecksOf(c)) - Len(ChecksOf(c)) /\ Len(ChecksOf(c)) \in Nat
    BY <1>1, <1>2 DEF Passed
  <2> QED
    BY <2>1
<1>4. /\ todo' \in Seq(Paths \X SUBSET {"open", "closed", "nonexistent"})
      /\ Len(todo') <= Len(ChecksOf(cmd)')
      /\ \A i \in DOMAIN todo' : todo'[i] = ChecksOf(cmd)'[Passed' + i]
  BY <1>1, <1>2, <1>3 DEF CheckType
<1>5. \A i \in DOMAIN ChecksOf(cmd)' : ~(i <= Passed')
  BY <1>2, <1>3
<1> QED
  BY <1>1, <1>4, <1>5 DEF Guarded

\* Only reading an entry leads to a deletion: the entry's file was closed.
LEMMA ReadToDeleteGuarded ==
  ASSUME NEW p \in InDir, BaseOK, ReadToDelete(p)
  PROVE  Guarded'
<1>1. /\ step = "read" /\ step' \in {"read", "unlink"} /\ cmd.op = "deleteAll"
      /\ checked' = checked \cup {p} /\ late' = (late /\ other # p)
      /\ step' = "unlink" => victim' = p /\ State(p) = "closed"
      /\ UNCHANGED <<fs, other, orphan, cmd>>
  BY DEF ReadToDelete, MayRead, LooksAt
<1>2. ChecksOf(cmd)' = <<>>
  <2>1. cmd \in Commands
    BY <1>1, CmdFact
  <2>2. ChecksOf(cmd) = <<>>
    BY <1>1, <2>1, GuardedFact
  <2> QED
    BY <1>1, <2>2 DEF ChecksOf, FileChecks, DirChecks
<1>3. DOMAIN ChecksOf(cmd)' = {}
  BY <1>2
<1>4. step' = "unlink" => Unopened(victim)'
  <2> SUFFICES ASSUME step' = "unlink" PROVE Unopened(victim)'
    OBVIOUS
  <2>1. victim' = p /\ other' # p
    BY <1>1 DEF State
  <2> QED
    BY <1>1, <2>1 DEF Unopened
<1> QED
  BY <1>1, <1>3, <1>4 DEF Guarded

\* What a deletion leaves guarded: nothing, it goes on reading.
LEMMA UnlinkGuarded ==
  ASSUME BaseOK, Unlink
  PROVE  Guarded'
<1>1. step' = "read" /\ UNCHANGED cmd /\ cmd.op = "deleteAll" /\ cmd \in Commands
  BY StepFact, CmdFact DEF Unlink
<1>2. DOMAIN ChecksOf(cmd)' = {}
  <2>1. ChecksOf(cmd) = <<>>
    BY <1>1, GuardedFact
  <2>2. ChecksOf(cmd)' = <<>>
    BY <1>1, <2>1 DEF ChecksOf, FileChecks, DirChecks
  <2> QED
    BY <2>2
<1> QED
  BY <1>1, <1>2 DEF Guarded

LEMMA GuardedStep == BaseOK /\ Guarded /\ Next => Guarded'
<1> SUFFICES ASSUME BaseOK, Guarded, Next PROVE Guarded'
  OBVIOUS
<1>1. CASE step' = "idle"
  BY <1>1 DEF Guarded
<1>2. CASE Quiet
  BY <1>2, QuietFact, GuardedKept DEF storeVars
<1>3. CASE Writes
  BY <1>3, WritesFact, GuardedKept
<1>4. CASE Rename /\ step' # "idle"
  BY <1>4, GuardedKept DEF Rename, Reports
<1>5. CASE Unlink
  BY <1>5, UnlinkGuarded
<1>6. CASE Others /\ step # "idle" /\ UNCHANGED <<copyVars, dirVars, cmds>>
  BY <1>6, OthersFiles, GuardedKept DEF taskVars, dirVars
<1>7. CASE Remove
  BY <1>1, <1>7 DEF Remove, Reports
<1>8. CASE Others /\ step = "idle"
  BY <1>1, <1>8, OthersFiles DEF taskVars
<1> QED
  BY <1>1, <1>2, <1>3, <1>4, <1>5, <1>6, <1>7, <1>8,
     Actions, CommandGuarded, CheckGuarded, ReadToDeleteGuarded

LEMMA BaseStep == BaseOK /\ Guarded /\ Next => BaseOK'
<1> SUFFICES ASSUME BaseOK, Guarded, Next PROVE BaseOK'
  OBVIOUS
<1>1. CASE Check /\ UNCHANGED <<copyVars, dirVars, cmds>>
  BY <1>1, CheckFact, CheckBase
<1>2. CASE Quiet
  BY <1>2, FileStartsBase, OpenSourceBase, CloseFilesBase, DirOpenBase, ReadEndsBase, ReadToSendBase
     DEF Quiet
<1>3. CASE Writes
  BY <1>3, OpenTargetBase, CopyBlockBase, OpenListBase, WriteHeadBase, ReadToWriteBase, DirEndsBase
     DEF Writes
<1> QED
  BY <1>1, <1>2, <1>3, Actions, CommandBase, RenameBase, RemoveBase, ReadToDeleteBase, UnlinkBase, OthersBase

\* The guard of the file that a step writes or removes.
LEMMA UnopenedFact ==
  ASSUME BaseOK, Guarded, step \notin {"idle", "check"}
  PROVE  /\ cmd.op \in {"copy", "move", "rename", "concatenate", "writeList"} => Unopened(cmd.tgt)
         /\ cmd.op = "delete" => Unopened(cmd.src)
         /\ cmd.op = "concatenate" => Unopened(cmd.src2)
         /\ step = "unlink" => Unopened(victim)
<1>1. cmd \in Commands
  BY CmdFact
<1>2. \A i \in DOMAIN ChecksOf(cmd) : MustNotBeOpen(ChecksOf(cmd)[i]) => Unopened(ChecksOf(cmd)[i][1])
  BY DEF Guarded
<1> QED
  BY <1>1, <1>2, GuardedFact DEF Guarded

\* A file that stays as it is, under the name it has, is kept.
LEMMA SameFile ==
  ASSUME BaseOK, other # NoPath, ~orphan, ~orphan', other' \in Paths, fs'[other'] = fs[other]
  PROVE  /\ fs'[other'].there
         /\ Len(fs'[other'].data) >= Len(fs[other].data)
         /\ SubSeq(fs'[other'].data, 1, Len(fs[other].data)) = fs[other].data
<1>1. fs[other].there /\ fs[other].data \in Seq(Blocks)
  BY StoreFact DEF BaseOK, Named
<1> DEFINE s == fs[other].data
<1>2. s \in Seq(Blocks) /\ fs'[other'].data = s
  BY <1>1
<1> HIDE DEF s
<1>3. Len(s) \in Nat /\ SubSeq(s, 1, Len(s)) = s
  BY <1>2, SubSeqFull
<1> QED
  BY <1>1, <1>2, <1>3 DEF s

LEMMA OpenFilesStep ==
  ASSUME BaseOK, Guarded, Next, other # NoPath, ~orphan, ~late,
         ~(cmd.op = "move" /\ step = "remove" /\ other = cmd.src)
  PROVE  \/ other' = NoPath
         \/ /\ ~orphan' /\ fs'[other'].there
            /\ Len(fs'[other'].data) >= Len(fs[other].data)
            /\ SubSeq(fs'[other'].data, 1, Len(fs[other].data)) = fs[other].data
<1> DEFINE Kept == other' \in Paths /\ ~orphan' /\ fs'[other'] = fs[other]
<1>1. other \in Paths /\ \A p \in Paths : Unopened(p) => other # p
  BY StoreFact DEF Unopened
<1>2. CASE \E c \in Commands : Command(c)
  <2>1. Kept
    BY <1>1, <1>2 DEF Command, Begins
  <2> QED
    BY <2>1, SameFile
<1>3. CASE Check
  <2>1. Kept
    BY <1>1, <1>3 DEF Check
  <2> QED
    BY <2>1, SameFile
<1>4. CASE Quiet
  <2>1. Kept
    BY <1>1, <1>4, QuietFact DEF storeVars
  <2> QED
    BY <2>1, SameFile
<1>5. CASE Writes
  <2>1. Kept
    <3>1. /\ step \notin {"idle", "check"} /\ UNCHANGED <<other, orphan>>
          /\ UNCHANGED fs \/ /\ cmd.op \in {"copy", "move", "concatenate", "writeList"}
                             /\ Target \in {cmd.tgt, cmd.src2}
                             /\ Target = cmd.src2 => Target = cmd.tgt \/ cmd.op = "concatenate"
                             /\ \A q \in Paths : q # Target => fs'[q] = fs[q]
      BY <1>5, WritesFact
    <3>2. CASE UNCHANGED fs
      BY <1>1, <3>1, <3>2
    <3>3. CASE ~UNCHANGED fs
      <4>1. Unopened(Target)
        BY <3>1, <3>3, UnopenedFact
      <4>2. other # Target
        BY <4>1 DEF Unopened
      <4> QED
        BY <1>1, <3>1, <3>3, <4>2
    <3> QED
      BY <3>2, <3>3
  <2> QED
    BY <2>1, SameFile
<1>6. CASE Rename
  <2>1. step = "rename" /\ cmd.op \in {"move", "rename"} /\ cmd.src \in Paths /\ cmd.tgt \in Paths
    BY <1>6, StepFact DEF Rename
  <2>2. other # cmd.tgt
    BY <1>1, <2>1, UnopenedFact
  <2>3. Kept
    <3>1. CASE fs[cmd.src].there /\ Renamed(cmd.src, cmd.tgt)
      BY <1>1, <2>1, <2>2, <3>1, RenamedFact DEF Renamed
    <3>2. CASE UNCHANGED <<fs, other, orphan>>
      BY <1>1, <3>2
    <3> QED
      BY <1>6, <3>1, <3>2 DEF Rename
  <2> QED
    BY <2>3, SameFile
<1>7. CASE Remove
  <2>1. step = "remove" /\ cmd.op \in {"move", "delete", "concatenate"} /\ ToRemove \in Paths
    BY <1>7, StepFact DEF Remove
  <2>2. other # ToRemove
    BY <1>1, <2>1, UnopenedFact DEF ToRemove
  <2>3. Kept
    BY <1>1, <1>7, <2>1, <2>2, RemovedFact DEF Remove, Removed
  <2> QED
    BY <2>3, SameFile
<1>8. CASE \E p \in InDir : ReadToDelete(p)
  <2>1. Kept
    BY <1>1, <1>8 DEF ReadToDelete
  <2> QED
    BY <2>1, SameFile
<1>9. CASE Unlink
  <2>1. step = "unlink" /\ victim \in Paths
    BY <1>9, StepFact DEF Unlink
  <2>2. other # victim
    BY <1>1, <2>1, UnopenedFact
  <2>3. Kept
    BY <1>1, <1>9, <2>1, <2>2, RemovedFact DEF Unlink, Removed
  <2> QED
    BY <2>3, SameFile
<1>10. CASE OtherWrites
  <2> DEFINE s == fs[other].data
             d == Append(s, Data(0))
  <2>1. s \in Seq(Blocks) /\ Data(0) \in Blocks /\ fs[other].there
    BY <1>1, StoreFact, BlockFact DEF BaseOK, Named
  <2>2. fs' = [fs EXCEPT ![other].data = d] /\ UNCHANGED <<other, orphan>>
    BY <1>10 DEF OtherWrites
  <2>3. d \in Seq(Blocks) /\ Len(d) = Len(s) + 1 /\ Len(s) \in Nat /\ SubSeq(d, 1, Len(s)) = s
    <3> HIDE DEF s
    <3>1. d \in Seq(Blocks) /\ Len(d) = Len(s) + 1 /\ Len(s) \in Nat /\ \A i \in 1 .. Len(s) : d[i] = s[i]
      BY <2>1, AppendProperties
    <3> HIDE DEF d
    <3>2. SubSeq(d, 1, Len(s)) \in Seq(Blocks) /\ Len(SubSeq(d, 1, Len(s))) = Len(s)
      BY <3>1, SubSeqProperties
    <3>3. \A i \in 1 .. Len(s) : SubSeq(d, 1, Len(s))[i] = s[i]
      BY <3>1, SubSeqProperties
    <3> QED
      BY <2>1, <3>1, <3>2, <3>3, SeqEqual
  <2> HIDE DEF d
  <2>4. fs'[other].there = fs[other].there /\ fs'[other].data = d
    BY <1>1, <2>1, <2>2, <2>3, FilesWritten
  <2> QED
    BY <2>1, <2>2, <2>3, <2>4
<1>11. CASE OtherCloses
  BY <1>11 DEF OtherCloses
<1>12. CASE \E p \in Paths : OtherOpens(p)
  BY <1>12 DEF OtherOpens
<1> QED
  BY <1>2, <1>3, <1>4, <1>5, <1>6, <1>7, <1>8, <1>9, <1>10, <1>11, <1>12, Actions DEF Others

-----------------------------------------------------------------------------
(* Copies, moves and deletions.                                            *)

\* A block copied behind the blocks before it.
LEMMA CopyFact ==
  ASSUME NEW s \in Seq(Blocks), NEW n \in Nat, n < Len(s)
  PROVE  Put(SubSeq(s, 1, n), n, s[n + 1]) = SubSeq(s, 1, n + 1)
<1> DEFINE d == SubSeq(s, 1, n)
           e == SubSeq(s, 1, n + 1)
           b == s[n + 1]
           t == Put(d, n, b)
<1>1. Len(s) \in Nat /\ n + 1 \in 1 .. Len(s) /\ b \in Blocks
  BY ElementOfSeq
<1>2. d \in Seq(Blocks) /\ Len(d) = n /\ \A i \in 1 .. n : d[i] = s[i]
  BY <1>1, SubSeqProperties
<1>3. e \in Seq(Blocks) /\ Len(e) = n + 1 /\ \A i \in 1 .. n + 1 : e[i] = s[i]
  BY <1>1, SubSeqProperties
<1>4. /\ t \in Seq(Blocks) /\ t[n + 1] = b /\ Len(t) = n + 1
      /\ \A k \in 1 .. n : t[k] = d[k]
  <2> HIDE DEF d, b
  <2>1. /\ t \in Seq(Blocks) /\ t[n + 1] = b
        /\ Len(t) = IF n < Len(d) THEN Len(d) ELSE n + 1
        /\ \A k \in 1 .. Len(d) : k # n + 1 => t[k] = d[k]
    <3>1. d \in Seq(Blocks) /\ b \in Blocks
      BY <1>1, <1>2
    <3> QED
      BY <3>1, PutFact
  <2> HIDE DEF t
  <2> QED
    BY <1>2, <2>1
<1> HIDE DEF d, e, t
<1>5. \A i \in 1 .. n + 1 : t[i] = e[i]
  <2> TAKE i \in 1 .. n + 1
  <2>1. i = n + 1 \/ i \in 1 .. n
    OBVIOUS
  <2> QED
    BY <1>2, <1>3, <1>4, <2>1
<1>6. t = e
  BY <1>3, <1>4, <1>5, SeqEqual
<1> QED
  BY <1>6 DEF d, e, t

CopyOK == CopyFollows /\ ReportIsTrue

\* The commands that work on one file or two that nobody else touches.
OnTwo == /\ cmd.op \in {"copy", "move", "rename", "delete"} /\ cmd.src # cmd.tgt
         /\ Untouched({cmd.src, cmd.tgt})

\* While such a command is at work, its source and target are files.
LEMMA OnTwoFact ==
  ASSUME BaseOK, step # "idle", OnTwo
  PROVE  /\ cmd.src \in Paths /\ cmd.src \notin touched
         /\ cmd.op # "delete" => cmd.tgt \in Paths /\ cmd.tgt \notin touched
         /\ Writing => from = cmd.src /\ into = cmd.tgt /\ cmd.op \in {"copy", "move"}
<1>1. Writing => /\ <<from, into>> = IF second THEN <<cmd.src2, cmd.src2>> ELSE <<cmd.src, cmd.tgt>>
                 /\ second => cmd.op = "concatenate"
  BY DEF BaseOK, Placed
<1> QED
  BY <1>1, CmdFact, StepFact DEF OnTwo, Untouched, FileOpsOf

LEMMA CommandCopy ==
  ASSUME NEW c \in Commands, Command(c)
  PROVE  CopyOK'
<1>1. step' = "check" /\ fs' = fs /\ orig' = fs
  BY DEF Command, Begins
<1> QED
  BY <1>1 DEF CopyOK, CopyFollows, ReportIsTrue

\* A step that leaves the files alone and does not get on with the command.
LEMMA CheckCopy ==
  ASSUME BaseOK, CopyOK, Check
  PROVE  CopyOK'
<1>1. /\ step = "check" /\ step' \in {"check", "idle"} /\ (step' = "idle" => result' = "failure")
      /\ UNCHANGED <<fs, touched, cmd, orig>>
  BY DEF Check, LooksAt, Reports
<1>2. OnTwo' => OnTwo
  BY <1>1 DEF OnTwo, Untouched
<1>3. OnTwo' => fs'[cmd.src] = orig'[cmd.src]
  BY <1>1, <1>2 DEF CopyOK, CopyFollows, OnTwo
<1> QED
  BY <1>1, <1>3 DEF CopyOK, CopyFollows, ReportIsTrue, OnTwo

LEMMA OtherCommandCopy ==
  ASSUME cmd.op \notin {"copy", "move", "rename", "delete"}, UNCHANGED cmd
  PROVE  CopyOK'
BY DEF CopyOK, CopyFollows, ReportIsTrue

LEMMA QuietCopy ==
  ASSUME BaseOK, CopyOK, Quiet
  PROVE  CopyOK'
<1>1. step # "idle" /\ UNCHANGED <<fs, touched, cmd, orig>>
  BY QuietFact DEF storeVars
<1>2. CASE ~OnTwo
  BY <1>1, <1>2 DEF CopyOK, CopyFollows, ReportIsTrue, OnTwo, Untouched
<1>3. CASE OnTwo
  <2>1. /\ fs[cmd.src] = orig[cmd.src]
        /\ step = "close" /\ copied => fs[cmd.tgt] = orig[cmd.src]
        /\ cmd.src \in Paths /\ (Writing => from = cmd.src /\ into = cmd.tgt)
        /\ cmd.op \in FileOpsOf \ DirOpsOf
    BY <1>1, <1>3, OnTwoFact DEF CopyOK, CopyFollows, OnTwo, FileOpsOf, DirOpsOf
  <2>2. CASE FileStarts
    <3>1. /\ step' \in {"openSource", "rename", "remove"} /\ (step' = "remove" => cmd.op = "delete")
      BY <1>3, <2>2 DEF FileStarts, OnTwo
    <3> QED
      BY <1>1, <2>1, <3>1 DEF CopyOK, CopyFollows, ReportIsTrue
  <2>3. CASE OpenSource
    <3>1. /\ step = "openSource" /\ UNCHANGED from
          /\ \/ step' = "openTarget" /\ fs[from].there /\ pos' = 0
             \/ step' = "close" /\ copied' = FALSE
      BY <2>3 DEF OpenSource
    <3>2. from = cmd.src
      BY <2>1, <3>1 DEF Writing
    <3> QED
      BY <1>1, <2>1, <3>1, <3>2 DEF CopyOK, CopyFollows, ReportIsTrue
  <2>4. CASE CloseFiles
    <3>1. step = "close" /\ cmd.op \in {"copy", "move"}
      BY <1>3, <2>4, OnTwoFact DEF CloseFiles, Writing
    <3>2. /\ step' = "remove" => copied
          /\ step' \in {"remove", "idle"}
          /\ step' = "idle" => result' = IF copied THEN "success" ELSE "failure"
      BY <2>4, <3>1 DEF CloseFiles, Reports, RemovesSource
    <3> QED
      BY <1>1, <2>1, <3>1, <3>2 DEF CopyOK, CopyFollows, ReportIsTrue
  <2>5. CASE DirOpen
    BY <2>1, <2>5 DEF DirOpen, DirOpsOf
  <2>6. CASE ReadEnds
    BY <2>1, <2>6, StepFact DEF ReadEnds
  <2>7. CASE \E p \in InDir : ReadToSend(p)
    BY <2>1, <2>7, StepFact DEF ReadToSend, MayRead
  <2> QED
    BY <2>2, <2>3, <2>4, <2>5, <2>6, <2>7 DEF Quiet
<1> QED
  BY <1>2, <1>3

LEMMA OpenTargetCopy ==
  ASSUME BaseOK, CopyOK, OnTwo, OpenTarget
  PROVE  CopyOK'
<1> DEFINE x == cmd.src
           y == cmd.tgt
<1>1. /\ step = "openTarget" /\ Writing /\ step # "idle"
      /\ UNCHANGED <<touched, cmd, orig, pos>>
  BY DEF OpenTarget, Writing
<1>2. x \in Paths /\ y \in Paths /\ x # y /\ into = y /\ cmd.op \in {"copy", "move"}
  BY <1>1, OnTwoFact DEF OnTwo
<1>3. fs[x] = orig[x] /\ fs[x].there /\ pos = 0
  BY <1>1 DEF CopyOK, CopyFollows, OnTwo
<1>4. CASE fs' = [fs EXCEPT ![into] = Holding(<<>>)] /\ step' = "block" /\ wpos' = 0
  <2>1. fs'[y] = Holding(<<>>) /\ fs'[x] = fs[x]
    BY <1>2, <1>4, StoreFact
  <2>2. fs'[y].data = <<>> /\ fs[x].data \in Seq(Blocks)
    BY <1>2, <2>1, AbsentFact, StoreFact
  <2>3. Len(fs'[x].data) \in Nat /\ SubSeq(fs'[x].data, 1, 0) = <<>>
    <3> DEFINE s == fs'[x].data
    <3>1. s \in Seq(Blocks)
      BY <2>1, <2>2
    <3> HIDE DEF s
    <3> QED
      BY <3>1 DEF s
  <2>4. fs'[y].data = SubSeq(fs'[x].data, 1, pos') /\ wpos' = pos' /\ pos' <= Len(fs'[x].data)
    <3>1. pos' = 0 /\ wpos' = 0
      BY <1>1, <1>3, <1>4
    <3>2. 0 <= Len(fs'[x].data)
      BY <2>3
    <3> QED
      BY <2>2, <2>3, <3>1, <3>2, Zenon
  <2> QED
    BY <1>1, <1>2, <1>3, <1>4, <2>1, <2>4 DEF CopyOK, CopyFollows, ReportIsTrue
<1>5. CASE step' = "close" /\ copied' = FALSE /\ UNCHANGED fs
  BY <1>1, <1>2, <1>3, <1>5 DEF CopyOK, CopyFollows, ReportIsTrue
<1> QED
  BY <1>4, <1>5 DEF OpenTarget

LEMMA CopyBlockCopy ==
  ASSUME BaseOK, CopyOK, OnTwo, CopyBlock
  PROVE  CopyOK'
<1> DEFINE x == cmd.src
           y == cmd.tgt
           s == fs[x].data
<1>1. /\ step = "block" /\ Writing /\ step # "idle"
      /\ UNCHANGED <<touched, cmd, orig>>
  BY DEF CopyBlock, Writing
<1>2. x \in Paths /\ y \in Paths /\ x # y /\ from = x /\ into = y /\ cmd.op \in {"copy", "move"}
  BY <1>1, OnTwoFact DEF OnTwo
<1>3. /\ fs[x] = orig[x] /\ fs[x].there /\ wpos = pos /\ pos <= Len(s)
      /\ fs[y].data = SubSeq(s, 1, pos)
  BY <1>1 DEF CopyOK, CopyFollows, OnTwo
<1>4. s \in Seq(Blocks) /\ pos \in Nat /\ Len(s) \in Nat /\ fs[y].there
  BY <1>1, <1>2, StoreFact DEF BaseOK, Named
<1>5. CASE /\ pos < Len(s) /\ step' = "block" /\ pos' = pos + 1 /\ wpos' = wpos + 1
           /\ fs' = [fs EXCEPT ![into].data = Put(@, wpos, s[pos + 1])]
  <2> DEFINE d == Put(SubSeq(s, 1, pos), pos, s[pos + 1])
  <2>1. d = SubSeq(s, 1, pos + 1)
    BY <1>4, <1>5, CopyFact
  <2>2. fs' = [fs EXCEPT ![y].data = d]
    BY <1>2, <1>3, <1>5
  <2>3. d \in Seq(Blocks)
    <3> HIDE DEF s, d
    <3> QED
      BY <1>4, <1>5, <2>1, SubSeqProperties
  <2> HIDE DEF d
  <2>4. fs'[y].data = d /\ fs'[x] = fs[x]
    BY <1>2, <1>4, <2>2, <2>3, FilesWritten
  <2>5. pos' <= Len(s)
    BY <1>4, <1>5
  <2> QED
    BY <1>1, <1>2, <1>3, <1>5, <2>1, <2>4, <2>5 DEF CopyOK, CopyFollows, ReportIsTrue
<1>6. CASE pos >= Len(s) /\ step' = "close" /\ UNCHANGED fs
  <2>1. fs[y] = fs[x]
    <3>1. pos = Len(s)
      BY <1>3, <1>4, <1>6
    <3>2. fs[y].data = s
      <4> HIDE DEF s
      <4> QED
        BY <1>3, <1>4, <3>1, SubSeqFull
    <3>3. fs[x] \in FileType /\ fs[y] \in FileType
      BY <1>2, StoreFact
    <3> QED
      BY <1>3, <1>4, <3>2, <3>3 DEF FileType
  <2> QED
    BY <1>1, <1>2, <1>3, <1>6, <2>1 DEF CopyOK, CopyFollows, ReportIsTrue
<1>7. CASE step' = "close" /\ copied' = FALSE /\ UNCHANGED fs
  BY <1>1, <1>2, <1>3, <1>7 DEF CopyOK, CopyFollows, ReportIsTrue
<1> QED
  BY <1>1, <1>2, <1>5, <1>6, <1>7 DEF CopyBlock, FailedIO

LEMMA RenameCopy ==
  ASSUME BaseOK, CopyOK, OnTwo, Rename
  PROVE  CopyOK'
<1> DEFINE x == cmd.src
           y == cmd.tgt
<1>1. /\ step = "rename" /\ step # "idle" /\ cmd.op \in {"move", "rename"}
      /\ x \in Paths /\ y \in Paths /\ x # y
      /\ UNCHANGED <<touched, cmd, orig>>
  BY StepFact DEF Rename, OnTwo
<1>2. fs[x] = orig[x]
  BY <1>1 DEF CopyOK, CopyFollows, OnTwo
<1>3. CASE fs[x].there /\ Renamed(x, y) /\ Reports(TRUE)
  <2>1. fs'[y] = fs[x] /\ ~fs'[x].there
    BY <1>1, <1>3, RenamedFact, AbsentFact
  <2> QED
    BY <1>1, <1>2, <1>3, <2>1 DEF CopyOK, CopyFollows, ReportIsTrue, Reports
<1>4. CASE UNCHANGED fs /\ (step' = "openSource" \/ Reports(FALSE))
  BY <1>1, <1>2, <1>4 DEF CopyOK, CopyFollows, ReportIsTrue, Reports
<1> QED
  BY <1>3, <1>4 DEF Rename

LEMMA RemoveCopy ==
  ASSUME BaseOK, CopyOK, OnTwo, Remove
  PROVE  CopyOK'
<1> DEFINE x == cmd.src
           y == cmd.tgt
<1>1. /\ step = "remove" /\ step # "idle" /\ cmd.op \in {"move", "delete"} /\ step' = "idle"
      /\ ToRemove = x /\ x \in Paths /\ x # y /\ (cmd.op = "move" => y \in Paths)
      /\ UNCHANGED <<touched, cmd, orig>>
  BY StepFact, OnTwoFact DEF Remove, OnTwo, ToRemove, Reports
<1>2. fs[x] = orig[x] /\ (cmd.op = "move" => fs[y] = orig[x])
  BY <1>1 DEF CopyOK, CopyFollows, OnTwo
<1>3. CASE Removed(x) /\ result' = "success"
  <2>1. ~fs'[x].there /\ (cmd.op = "move" => fs'[y] = fs[y])
    BY <1>1, <1>3, RemovedFact, AbsentFact
  <2> QED
    BY <1>1, <1>2, <1>3, <2>1 DEF CopyOK, CopyFollows, ReportIsTrue
<1>4. CASE UNCHANGED fs /\ Reports(cmd.op = "move")
  BY <1>1, <1>2, <1>4 DEF CopyOK, CopyFollows, ReportIsTrue, Reports
<1> QED
  BY <1>1, <1>3, <1>4 DEF Remove, Reports

LEMMA OthersCopy ==
  ASSUME BaseOK, CopyOK, Others, UNCHANGED <<copyVars, dirVars, cmds>>
  PROVE  CopyOK'
<1>1. touched \subseteq touched' /\ UNCHANGED <<cmd, step, orig, result, wpos, pos, copied>>
      /\ \A q \in Paths : q \notin touched' => fs'[q] = fs[q]
  BY OthersFiles DEF taskVars, copyVars
<1>2. OnTwo' => OnTwo
  BY <1>1 DEF OnTwo, Untouched
<1>3. CASE ~OnTwo'
  BY <1>3 DEF OnTwo, CopyOK, CopyFollows, ReportIsTrue
<1>4. CASE OnTwo'
  <2>1. CASE step = "idle" /\ result = "none"
    BY <1>1, <2>1 DEF CopyOK, CopyFollows, ReportIsTrue
  <2>2. CASE ~(step = "idle" /\ result = "none")
    <3>1. cmd \in Commands
      BY <1>2, <1>4, <2>2, CmdFact, NoCommandFact DEF BaseOK, Placed, OnTwo
    <3>2. cmd.src \in Paths /\ (cmd.op # "delete" => cmd.tgt \in Paths)
      BY <1>2, <1>4, <3>1, CommandsAssumption DEF OnTwo, FileOpsOf
    <3>3. fs'[cmd.src] = fs[cmd.src] /\ (cmd.op # "delete" => fs'[cmd.tgt] = fs[cmd.tgt])
      BY <1>1, <1>4, <3>2 DEF OnTwo, Untouched
    <3>4. step \in {"block", "openTarget", "close"} => cmd.op # "delete"
      BY StepFact DEF Writing
    <3> QED
      BY <1>1, <1>2, <1>4, <3>3, <3>4 DEF CopyOK, CopyFollows, ReportIsTrue, OnTwo
  <2> QED
    BY <2>1, <2>2
<1> QED
  BY <1>3, <1>4

LEMMA CopyStep == BaseOK /\ CopyOK /\ Next => CopyOK'
<1> SUFFICES ASSUME BaseOK, CopyOK, Next PROVE CopyOK'
  OBVIOUS
<1>1. CASE Writes
  <2>1. UNCHANGED <<cmd, touched>>
    BY <1>1, WritesFact
  <2>2. CASE ~OnTwo
    BY <2>1, <2>2 DEF CopyOK, CopyFollows, ReportIsTrue, OnTwo, Untouched
  <2>3. CASE OnTwo /\ ~OpenTarget /\ ~CopyBlock
    <3>1. cmd.op = "writeList" \/ DirEnds
      BY <1>1, <2>3, StepFact DEF Writes, OpenList, WriteHead, ReadToWrite
    <3>2. cmd.op \in DirOpsOf
      BY <3>1, StepFact DEF DirEnds, DirOpsOf
    <3> QED
      BY <2>1, <3>2, OtherCommandCopy DEF DirOpsOf
  <2> QED
    BY <2>2, <2>3, OpenTargetCopy, CopyBlockCopy
<1>2. CASE Rename \/ Remove
  <2>1. CASE ~OnTwo
    BY <1>2, <2>1 DEF CopyOK, CopyFollows, ReportIsTrue, OnTwo, Untouched, Rename, Remove
  <2> QED
    BY <1>2, <2>1, RenameCopy, RemoveCopy
<1>3. CASE (\E p \in InDir : ReadToDelete(p)) \/ Unlink
  <2>1. cmd.op = "deleteAll" /\ UNCHANGED cmd
    BY <1>3, StepFact DEF ReadToDelete, Unlink
  <2> QED
    BY <2>1, OtherCommandCopy
<1> QED
  BY <1>1, <1>2, <1>3, Actions, CommandCopy, CheckCopy, QuietCopy, OthersCopy

-----------------------------------------------------------------------------
(* Clearing a directory.                                                   *)

\* The steps that a directory command and the others can take.
LEMMA DirActions ==
  ASSUME BaseOK, Guarded, Next, cmd.op \in DirOpsOf
  PROVE  \/ \E c \in Commands : Command(c)
         \/ Check /\ cmd.op = "writeList" /\ UNCHANGED <<copyVars, dirVars, cmds>>
         \/ DirStep /\ step # "idle" /\ UNCHANGED cmd
         \/ Others /\ UNCHANGED <<copyVars, dirVars, cmds, taskVars>>
<1>1. CASE Check /\ UNCHANGED <<copyVars, dirVars, cmds>>
  <2>1. cmd \in Commands /\ Passed + 1 \in DOMAIN ChecksOf(cmd)
    BY <1>1, CheckFact
  <2>2. ChecksOf(cmd) # <<>>
    BY <2>1
  <2>3. cmd.op = "writeList"
    BY <2>1, <2>2, GuardedFact DEF DirOpsOf
  <2> QED
    BY <1>1, <2>3
<1>2. CASE FileStep
  <2>1. step \in {"rename", "remove"} \/ Writing \/ (step = "check" /\ cmd.op \in FileOpsOf)
    BY <1>2 DEF FileStep, FileStarts, OpenSource, OpenTarget, CopyBlock, CloseFiles, Rename, Remove,
                Writing, FileOpsOf
  <2> QED
    BY <2>1, StepFact DEF DirOpsOf, FileOpsOf
<1>3. CASE DirStep
  <2>1. step # "idle"
    BY <1>3 DEF DirStep, DirOpen, ReadEnds, Unlink, OpenList, WriteHead, DirEnds, ReadToDelete,
                ReadToSend, ReadToWrite, MayRead
  <2>2. UNCHANGED cmd
    BY <1>3 DEF DirStep, DirOpen, ReadEnds, Unlink, OpenList, WriteHead, DirEnds, ReadToDelete,
                ReadToSend, ReadToWrite, taskVars
  <2> QED
    BY <1>3, <2>1, <2>2
<1>4. CASE Others /\ UNCHANGED <<copyVars, dirVars, cmds>>
  BY <1>4, OthersFiles
<1> QED
  BY <1>1, <1>2, <1>3, <1>4 DEF Next, Child

DeleteOK == DeleteFollows /\ DeleteAllClears

\* The steps of a deletion of all files.
LEMMA DeleteDirStep ==
  ASSUME BaseOK, DeleteOK, cmd.op = "deleteAll", DirStep, step # "idle"
  PROVE  DeleteOK'
<1>1. CASE DirOpen
  <2>1. /\ step = "check" /\ UNCHANGED <<fs, touched, checked, cmd, orig>>
        /\ \/ step' = "read" /\ snapshot' = Files /\ seen' = {}
           \/ step' = "idle"
    BY <1>1 DEF DirOpen, Reports, storeVars
  <2>2. checked = {}
    BY <2>1 DEF DeleteOK, DeleteFollows
  <2>3. Files' = Files
    BY <2>1 DEF Files
  <2> QED
    BY <2>1, <2>2, <2>3 DEF DeleteOK, DeleteFollows, DeleteAllClears
<1>2. CASE ReadEnds
  <2>1. /\ step = "read" /\ step' = "ends"
        /\ unnoticed' = {} => (snapshot \cap Files) \subseteq seen
        /\ UNCHANGED <<fs, touched, checked, cmd, orig, snapshot, seen, undeleted>>
    BY <1>2 DEF ReadEnds, Exhausted, storeVars
  <2>2. \A p \in Files \ touched : p \in snapshot /\ (p \in seen => undeleted)
    BY <2>1 DEF DeleteOK, DeleteFollows
  <2>3. Files' = Files
    BY <2>1 DEF Files
  <2> QED
    BY <2>1, <2>2, <2>3 DEF DeleteOK, DeleteFollows, DeleteAllClears
<1>3. CASE \E p \in InDir : ReadToDelete(p)
  <2> PICK p \in InDir : ReadToDelete(p)
    BY <1>3
  <2>1. /\ step = "read" /\ UNCHANGED <<fs, touched, cmd, orig, snapshot>>
        /\ seen' = seen \cup {p}
        /\ \/ step' = "unlink" /\ victim' = p /\ undeleted' = undeleted
           \/ step' = "read" /\ undeleted' = TRUE
    BY DEF ReadToDelete, MayRead
  <2>2. \A q \in Files \ touched : q \in snapshot /\ (q \in seen => undeleted)
    BY <2>1 DEF DeleteOK, DeleteFollows
  <2>3. Files' = Files
    BY <2>1 DEF Files
  <2>4. \A q \in Files \ touched : q \in seen' => undeleted' \/ (step' = "unlink" /\ q = victim')
    BY <2>1, <2>2
  <2> QED
    BY <2>1, <2>2, <2>3, <2>4 DEF DeleteOK, DeleteFollows, DeleteAllClears
<1>4. CASE Unlink
  <2>1. /\ step = "unlink" /\ step' = "read" /\ UNCHANGED <<touched, cmd, orig>>
    BY <1>4 DEF Unlink
  <2>2. \A q \in Files \ touched : q \in snapshot /\ (q \in seen => undeleted \/ q = victim)
    BY <2>1 DEF DeleteOK, DeleteFollows
  <2> PICK removed \in BOOLEAN, rewound \in BOOLEAN :
             /\ IF removed THEN fs[victim].there /\ Removed(victim) ELSE UNCHANGED <<fs, other, orphan>>
             /\ undeleted' = (undeleted \/ ~removed)
             /\ IF Rewinds(removed) /\ rewound
                THEN snapshot' = {p \in InDir : fs'[p].there} /\ seen' = {}
                ELSE UNCHANGED <<snapshot, seen>>
    BY <1>4 DEF Unlink
  <2>3. CASE removed /\ rewound
    <3>1. snapshot' = Files' /\ seen' = {}
      BY <2>3 DEF Rewinds, Files
    <3> QED
      BY <2>1, <3>1 DEF DeleteOK, DeleteFollows, DeleteAllClears
  <2>4. CASE ~removed
    <3>1. undeleted' /\ UNCHANGED <<fs, snapshot>>
      BY <2>4 DEF Rewinds
    <3> QED
      BY <2>1, <2>2, <3>1 DEF DeleteOK, DeleteFollows, DeleteAllClears, Files
  <2>5. CASE removed /\ ~rewound
    <3>1. victim \in InDir /\ UNCHANGED <<snapshot, seen>> /\ (undeleted => undeleted')
      BY <2>1, <2>5 DEF BaseOK, Placed
    <3>2. fs' = [fs EXCEPT ![victim] = Absent]
      BY <2>5 DEF Removed
    <3>3. Files' \subseteq Files \ {victim}
      BY <3>1, <3>2, StoreAssumption, StoreFact, AbsentFact DEF Files, BaseOK, Named
    <3> QED
      BY <2>1, <2>2, <3>1, <3>3 DEF DeleteOK, DeleteFollows, DeleteAllClears
  <2> QED
    BY <2>3, <2>4, <2>5
<1>5. CASE DirEnds
  <2>1. /\ step = "ends" /\ step' = "idle" /\ UNCHANGED <<fs, touched, checked, cmd, orig, undeleted>>
    BY <1>5 DEF DirEnds, Reports
  <2>2. unnoticed' = {} => unnoticed = {}
    BY <1>5 DEF DirEnds
  <2>3. unnoticed = {} => \A p \in Files \ touched : undeleted
    BY <2>1 DEF DeleteOK, DeleteFollows
  <2> QED
    BY <2>1, <2>2, <2>3 DEF DeleteOK, DeleteFollows, DeleteAllClears, Files
<1>6. CASE OpenList \/ WriteHead \/ \E p \in InDir : ReadToSend(p) \/ ReadToWrite(p)
  BY <1>6, StepFact DEF OpenList, WriteHead, ReadToSend, ReadToWrite
<1> QED
  BY <1>1, <1>2, <1>3, <1>4, <1>5, <1>6 DEF DirStep

LEMMA DeleteOthers ==
  ASSUME BaseOK, DeleteOK, Others, UNCHANGED <<copyVars, dirVars, cmds, taskVars>>
  PROVE  DeleteOK'
<1>1. /\ touched \subseteq touched' /\ UNCHANGED <<cmd, step, orig, checked, snapshot, seen, undeleted, victim, unnoticed>>
      /\ \A q \in Paths : q \notin touched' => fs'[q] = fs[q]
  BY OthersFiles DEF taskVars, dirVars
<1>2. \A p \in InDir : p \notin touched' => fs'[p] = fs[p] /\ p \notin touched
  BY <1>1, StoreAssumption
<1>3. Files' \ touched' \subseteq Files \ touched
  BY <1>2 DEF Files
<1>4. DeleteFollows'
  BY <1>1, <1>3 DEF DeleteOK, DeleteFollows
<1>5. DeleteAllClears'
  BY <1>1, <1>2 DEF DeleteOK, DeleteAllClears
<1> QED
  BY <1>4, <1>5 DEF DeleteOK

LEMMA CmdKept == Next => UNCHANGED cmd \/ \E c \in Commands : Command(c)
<1> SUFFICES ASSUME Next, ~(\E c \in Commands : Command(c)) PROVE UNCHANGED cmd
  OBVIOUS
<1>1. CASE Check
  BY <1>1 DEF Check
<1>2. CASE FileStep
  BY <1>2 DEF FileStep, FileStarts, OpenSource, OpenTarget, CopyBlock, CloseFiles, Rename, Remove
<1>3. CASE DirStep
  BY <1>3 DEF DirStep, DirOpen, ReadEnds, Unlink, OpenList, WriteHead, DirEnds, ReadToDelete,
              ReadToSend, ReadToWrite, taskVars
<1>4. CASE Others
  BY <1>4 DEF Others, OtherOpens, OtherWrites, OtherCloses, taskVars
<1> QED
  BY <1>1, <1>2, <1>3, <1>4 DEF Next, Child

LEMMA DeleteStep == BaseOK /\ Guarded /\ DeleteOK /\ Next => DeleteOK'
<1> SUFFICES ASSUME BaseOK, Guarded, DeleteOK, Next PROVE DeleteOK'
  OBVIOUS
<1>1. CASE \E c \in Commands : Command(c)
  BY <1>1 DEF Command, Begins, DeleteOK, DeleteFollows, DeleteAllClears
<1>2. CASE cmd.op # "deleteAll" /\ UNCHANGED cmd
  BY <1>2 DEF DeleteOK, DeleteFollows, DeleteAllClears
<1>3. CASE cmd.op = "deleteAll"
  BY <1>1, <1>3, DirActions, DeleteDirStep, DeleteOthers DEF DirOpsOf
<1> QED
  BY <1>1, <1>2, <1>3, CmdKept

-----------------------------------------------------------------------------
(* Listings.                                                               *)

\* What the steps of a list file do to the files.
LEMMA OpenListFile ==
  ASSUME BaseOK, OpenList
  PROVE  /\ step = "openList" /\ cmd.op = "writeList" /\ cmd.tgt \in Paths
         /\ UNCHANGED <<touched, cmd, orig, dirVars>>
         /\ \/ /\ step' = "head" /\ wpos' = 0 /\ fs'[cmd.tgt] = Holding(<<>>)
               /\ \A q \in Paths : q # cmd.tgt => fs'[q] = fs[q]
            \/ step' = "idle" /\ result' = "failure" /\ UNCHANGED fs
<1>1. step = "openList" /\ cmd.op = "writeList" /\ cmd.tgt \in Paths /\ UNCHANGED <<touched, cmd, orig, dirVars>>
  BY StepFact DEF OpenList
<1>2. CASE fs' = [fs EXCEPT ![cmd.tgt] = Holding(<<>>)] /\ step' = "head" /\ wpos' = 0
  BY <1>1, <1>2, StoreFact
<1>3. CASE Reports(FALSE) /\ UNCHANGED fs
  BY <1>1, <1>3 DEF Reports
<1> QED
  BY <1>2, <1>3 DEF OpenList

LEMMA WriteHeadFile ==
  ASSUME BaseOK, WriteHead
  PROVE  /\ step = "head" /\ cmd.op = "writeList" /\ cmd.tgt \in Paths
         /\ UNCHANGED <<touched, cmd, orig, dirVars>>
         /\ \/ /\ step' = "read" /\ wpos' = 1
               /\ fs'[cmd.tgt].data = Put(fs[cmd.tgt].data, 0, Stats(0, 0))
               /\ \A q \in Paths : fs'[q].there = fs[q].there
            \/ step' = "idle" /\ result' = "failure" /\ UNCHANGED fs
<1>1. step = "head" /\ cmd.op = "writeList" /\ cmd.tgt \in Paths /\ UNCHANGED <<touched, cmd, orig, dirVars>>
  BY StepFact DEF WriteHead
<1>2. CASE /\ fs' = [fs EXCEPT ![cmd.tgt].data = Put(@, 0, Stats(0, 0))]
           /\ wpos' = 1 /\ step' = "read"
  <2>1. fs[cmd.tgt].there /\ Stats(0, 0) \in Blocks
    BY <1>1, BlockFact DEF BaseOK, Named
  <2> QED
    BY <1>1, <1>2, <2>1, ListWritten
<1>3. CASE Reports(FALSE) /\ UNCHANGED fs
  BY <1>1, <1>3 DEF Reports
<1> QED
  BY <1>2, <1>3 DEF WriteHead

LEMMA ReadToWriteFile ==
  ASSUME NEW p \in InDir, BaseOK, ReadToWrite(p)
  PROVE  /\ step = "read" /\ cmd.op = "writeList" /\ cmd.tgt \in Paths /\ filling /\ p \in Files \ seen
         /\ seen' = seen \cup {p} /\ dirCnt' = dirCnt + 1
         /\ UNCHANGED <<step, touched, cmd, orig, snapshot, unnoticed>>
         /\ \/ /\ Len(pkt) >= ListEntries \/ p \in LongNames
               /\ UNCHANGED <<fs, wpos, pkt, filling>>
            \/ /\ Len(pkt) < ListEntries /\ wpos' = wpos + 1 /\ pkt' = Append(pkt, p) /\ filling'
               /\ fs'[cmd.tgt].data = Put(fs[cmd.tgt].data, wpos, Entry(p))
               /\ \A q \in Paths : fs'[q].there = fs[q].there
            \/ UNCHANGED <<fs, wpos, pkt>> /\ ~filling'
<1>1. /\ step = "read" /\ cmd.op = "writeList" /\ cmd.tgt \in Paths /\ filling /\ p \in Files \ seen
      /\ seen' = seen \cup {p} /\ dirCnt' = dirCnt + 1
      /\ UNCHANGED <<step, touched, cmd, orig, snapshot, unnoticed>>
  BY StepFact DEF ReadToWrite, MayRead
<1>2. Len(pkt) \in Nat
  BY DEF BaseOK, ListingTypes
<1>3. CASE Len(pkt) >= ListEntries \/ p \in LongNames
  <2>1. ~(Len(pkt) < ListEntries /\ CountsAsWritten(p))
    BY <1>2, <1>3, DirAssumption DEF CountsAsWritten
  <2> QED
    BY <1>1, <1>3, <2>1 DEF ReadToWrite
<1>4. CASE ~(Len(pkt) >= ListEntries \/ p \in LongNames)
  <2>1. Len(pkt) < ListEntries
    BY <1>2, <1>4, DirAssumption
  <2>2. CASE /\ fs' = [fs EXCEPT ![cmd.tgt].data = Put(@, wpos, Entry(p))]
             /\ wpos' = wpos + 1 /\ pkt' = Append(pkt, p) /\ UNCHANGED filling
    <3>1. fs[cmd.tgt].there /\ Entry(p) \in Blocks /\ wpos \in Nat
      BY <1>1, BlockFact, StoreAssumption DEF BaseOK, Named
    <3>2. /\ \A q \in Paths : fs'[q].there = fs[q].there
          /\ fs'[cmd.tgt].data = Put(fs[cmd.tgt].data, wpos, Entry(p))
      BY <1>1, <2>2, <3>1, ListWritten
    <3> QED
      BY <1>1, <2>1, <2>2, <3>2
  <2>3. CASE filling' = FALSE /\ UNCHANGED <<fs, wpos, pkt>>
    BY <1>1, <2>3
  <2> QED
    BY <1>4, <2>2, <2>3 DEF ReadToWrite
<1> QED
  BY <1>3, <1>4

LEMMA DirEndsFile ==
  ASSUME BaseOK, DirEnds, cmd.op = "writeList"
  PROVE  /\ step = "ends" /\ step' = "idle" /\ cmd.tgt \in Paths
         /\ UNCHANGED <<touched, cmd, orig, seen, dirCnt, pkt, filling, unnoticed>>
         /\ \/ /\ dirCnt > 0 /\ filling /\ result' = "success"
               /\ fs'[cmd.tgt].data = Put(fs[cmd.tgt].data, 0, Stats(dirCnt, Len(pkt)))
               /\ \A q \in Paths : fs'[q].there = fs[q].there
            \/ result' = "failure" /\ UNCHANGED fs
<1>1. /\ step = "ends" /\ step' = "idle" /\ cmd.tgt \in Paths
      /\ UNCHANGED <<touched, cmd, orig, seen, dirCnt, pkt, filling, unnoticed>>
  BY StepFact DEF DirEnds, Reports
<1>2. CASE /\ dirCnt > 0 /\ filling /\ Reports(TRUE)
           /\ fs' = [fs EXCEPT ![cmd.tgt].data = Put(@, 0, Stats(dirCnt, Len(pkt)))]
  <2>1. fs[cmd.tgt].there /\ Stats(dirCnt, Len(pkt)) \in Blocks
    <3>1. dirCnt \in Int /\ Len(pkt) \in Int
      BY DEF BaseOK, ListingTypes
    <3> QED
      BY <1>1, <3>1, BlockFact DEF BaseOK, Named
  <2>2. /\ \A q \in Paths : fs'[q].there = fs[q].there
        /\ fs'[cmd.tgt].data = Put(fs[cmd.tgt].data, 0, Stats(dirCnt, Len(pkt)))
    BY <1>1, <1>2, <2>1, ListWritten
  <2> QED
    BY <1>1, <1>2, <2>2 DEF Reports
<1>3. CASE Reports(FALSE) /\ UNCHANGED fs
  BY <1>1, <1>3 DEF Reports
<1> QED
  BY <1>2, <1>3 DEF DirEnds

\* A listing removes no file.
LEMMA DirThere ==
  ASSUME BaseOK, DirStep, cmd.op \in {"sendAll", "writeList"}
  PROVE  \A q \in Paths : fs[q].there => fs'[q].there
<1>1. CASE DirOpen \/ ReadEnds \/ \E p \in InDir : ReadToSend(p) \/ ReadToDelete(p)
  BY <1>1 DEF DirOpen, ReadEnds, ReadToSend, ReadToDelete, storeVars
<1>2. CASE OpenList
  BY <1>2, OpenListFile, AbsentFact
<1>3. CASE WriteHead
  BY <1>3, WriteHeadFile
<1>4. CASE \E p \in InDir : ReadToWrite(p)
  BY <1>4, ReadToWriteFile
<1>5. CASE DirEnds /\ cmd.op = "writeList"
  BY <1>5, DirEndsFile
<1>6. CASE DirEnds /\ cmd.op = "sendAll"
  BY <1>6 DEF DirEnds
<1>7. CASE Unlink
  BY <1>7, StepFact DEF Unlink
<1> QED
  BY <1>1, <1>2, <1>3, <1>4, <1>5, <1>6, <1>7 DEF DirStep

\* No file goes while a listing is made, and none is passed over.
LEMMA ListingReadsStep == BaseOK /\ Guarded /\ ListingReads /\ Next => ListingReads'
<1> SUFFICES ASSUME BaseOK, Guarded, ListingReads, Next PROVE ListingReads'
  OBVIOUS
<1>1. CASE \E c \in Commands : Command(c)
  BY <1>1 DEF Command, Begins, ListingReads
<1>2. CASE cmd.op \notin {"sendAll", "writeList"} /\ UNCHANGED cmd
  BY <1>2 DEF ListingReads
<1>3. CASE cmd.op \in {"sendAll", "writeList"} /\ Check /\ UNCHANGED dirVars
  BY <1>3 DEF ListingReads, Check, Reports
<1>4. CASE cmd.op \in {"sendAll", "writeList"} /\ Others /\ UNCHANGED <<dirVars, taskVars>>
  <2>1. \A q \in Paths : fs[q].there => fs'[q].there
    BY <1>4, OthersFiles
  <2> QED
    BY <1>4, <2>1 DEF ListingReads, taskVars, dirVars
<1>5. CASE cmd.op \in {"sendAll", "writeList"} /\ DirStep /\ step # "idle" /\ UNCHANGED cmd
  <2>1. /\ \A q \in Paths : fs[q].there => fs'[q].there
        /\ \A p \in Paths : orig[p].there => fs[p].there
    BY <1>5, DirThere DEF ListingReads
  <2>2. orig' = orig
    BY <1>5 DEF DirStep, DirOpen, ReadEnds, Unlink, OpenList, WriteHead, DirEnds, ReadToDelete,
                ReadToSend, ReadToWrite, taskVars
  <2>3. \A p \in Paths : orig'[p].there => fs'[p].there
    BY <2>1, <2>2
  <2>4. \A p \in InDir : orig[p].there => p \in Files
    BY <2>1, StoreAssumption DEF Files
  <2>5. CASE DirOpen
    <3>1. step' = "idle" \/ /\ step' \in {"read", "openList"} /\ snapshot' = Files /\ unnoticed' = {}
      BY <2>5 DEF DirOpen, Reports
    <3> QED
      BY <1>5, <2>2, <2>3, <2>4, <3>1 DEF ListingReads
  <2>6. CASE ReadEnds
    <3>1. /\ step = "read" /\ step' = "ends" /\ UNCHANGED <<snapshot, seen, filling>>
          /\ unnoticed' = unnoticed \/ unnoticed' = unnoticed \cup {"read"}
          /\ "read" \in unnoticed' \/ ~filling \/ "rewind" \in unnoticed \/ (snapshot \cap Files) \subseteq seen
      BY <2>6 DEF ReadEnds, Exhausted
    <3>2. "rewind" \notin unnoticed /\ \A p \in InDir : orig[p].there => p \in snapshot
      BY <1>5, <3>1 DEF ListingReads
    <3>3. filling' /\ "read" \notin unnoticed' => \A p \in InDir : orig'[p].there => p \in seen'
      BY <2>2, <2>4, <3>1, <3>2
    <3> QED
      BY <1>5, <2>2, <2>3, <3>1, <3>2, <3>3 DEF ListingReads
  <2>7. CASE (\E p \in InDir : ReadToSend(p) \/ ReadToWrite(p)) \/ OpenList \/ WriteHead
    <3>1. /\ step \in {"read", "openList", "head"} /\ step' # "ends"
          /\ snapshot' = snapshot /\ unnoticed' \in {unnoticed, unnoticed \cup {"transmit"}}
      BY <2>7 DEF ReadToSend, Transmit, ReadToWrite, MayRead, OpenList, WriteHead, Reports, taskVars, dirVars
    <3>2. "rewind" \notin unnoticed /\ \A p \in InDir : orig[p].there => p \in snapshot
      BY <1>5, <3>1 DEF ListingReads
    <3> QED
      BY <1>5, <2>2, <2>3, <3>1, <3>2 DEF ListingReads
  <2>8. CASE DirEnds
    <3>1. step' = "idle"
      BY <1>5, <2>8 DEF DirEnds, Reports
    <3> QED
      BY <1>5, <2>3, <3>1 DEF ListingReads
  <2>9. CASE Unlink \/ \E p \in InDir : ReadToDelete(p)
    BY <1>5, <2>9, StepFact DEF Unlink, ReadToDelete
  <2> QED
    BY <1>5, <2>5, <2>6, <2>7, <2>8, <2>9 DEF DirStep
<1> QED
  BY <1>1, <1>2, <1>3, <1>4, <1>5, CmdKept, DirActions DEF DirOpsOf

\* Places in packets, and in a packet that has not been sent yet.
PlacesIn(ps, q) == {x \in (1 .. Len(ps)) \X (1 .. PktEntries) :
                      x[2] \in DOMAIN ps[x[1]][2] /\ ps[x[1]][2][x[2]] = q}
Slots(n, e, q) == {<<n, j>> : j \in {k \in DOMAIN e : e[k] = q}}

LEMMA AtFact == \A q : At(q) = PlacesIn(packets, q) \cup Slots(Len(packets) + 1, pkt, q)
BY DEF At, Places, PlacesIn, Slots

\* Sending a packet moves no entry.
LEMMA FlushFact ==
  ASSUME NEW ps \in Seq(Nat \X Seq(InDir)), NEW o \in Nat, NEW e \in Seq(InDir), Len(e) <= PktEntries, NEW q
  PROVE  PlacesIn(Append(ps, <<o, e>>), q) = PlacesIn(ps, q) \cup Slots(Len(ps) + 1, e, q)
<1> DEFINE Pkts == Nat \X Seq(InDir)
           y == <<o, e>>
           ns == Append(ps, y)
           n == Len(ps)
<1>1. ps \in Seq(Pkts) /\ y \in Pkts /\ y[2] = e /\ Len(e) \in Nat /\ DOMAIN e = 1 .. Len(e)
  OBVIOUS
<1> HIDE DEF Pkts, y
<1>2. /\ ns \in Seq(Pkts) /\ n \in Nat /\ Len(ns) = n + 1 /\ ns[n + 1] = y
      /\ \A i \in 1 .. n : ns[i] = ps[i]
  BY <1>1, AppendProperties
<1> HIDE DEF ns, n
<1>3. ASSUME NEW x \in PlacesIn(ns, q) PROVE x \in PlacesIn(ps, q) \cup Slots(n + 1, e, q)
  <2>1. x \in (1 .. Len(ns)) \X (1 .. PktEntries) /\ x[2] \in DOMAIN ns[x[1]][2] /\ ns[x[1]][2][x[2]] = q
    BY DEF PlacesIn
  <2>2. x = <<x[1], x[2]>> /\ x[1] \in 1 .. n + 1 /\ x[2] \in 1 .. PktEntries
    BY <1>2, <2>1
  <2>3. CASE x[1] \in 1 .. n
    <3>1. x \in (1 .. n) \X (1 .. PktEntries) /\ x[2] \in DOMAIN ps[x[1]][2] /\ ps[x[1]][2][x[2]] = q
      BY <1>2, <2>1, <2>2, <2>3
    <3> QED
      BY <3>1 DEF PlacesIn, n
  <2>4. CASE x[1] = n + 1
    <3>1. x[2] \in DOMAIN e /\ e[x[2]] = q /\ x = <<n + 1, x[2]>>
      BY <1>1, <1>2, <2>1, <2>2, <2>4
    <3> QED
      BY <3>1 DEF Slots
  <2> QED
    BY <1>2, <2>2, <2>3, <2>4
<1>4. ASSUME NEW x \in PlacesIn(ps, q) PROVE x \in PlacesIn(ns, q)
  <2>1. x \in (1 .. n) \X (1 .. PktEntries) /\ x[2] \in DOMAIN ps[x[1]][2] /\ ps[x[1]][2][x[2]] = q
    BY DEF PlacesIn, n
  <2>2. x \in (1 .. n + 1) \X (1 .. PktEntries) /\ x[1] \in 1 .. n
    BY <1>2, <2>1
  <2>3. ns[x[1]] = ps[x[1]]
    BY <1>2, <2>2
  <2> QED
    BY <1>2, <2>1, <2>2, <2>3 DEF PlacesIn
<1>5. ASSUME NEW x \in Slots(n + 1, e, q) PROVE x \in PlacesIn(ns, q)
  <2> PICK j \in DOMAIN e : x = <<n + 1, j>> /\ e[j] = q
    BY DEF Slots
  <2>1. j \in 1 .. PktEntries /\ n + 1 \in 1 .. Len(ns)
    BY <1>1, <1>2, DirAssumption
  <2>2. x[1] = n + 1 /\ x[2] = j
    OBVIOUS
  <2>3. ns[x[1]][2] = e
    BY <1>1, <1>2, <2>2
  <2> QED
    BY <2>1, <2>2, <2>3 DEF PlacesIn
<1>6. PlacesIn(ns, q) = PlacesIn(ps, q) \cup Slots(n + 1, e, q)
  BY <1>3, <1>4, <1>5
<1> QED
  BY <1>6 DEF ns, n, y

LEMMA SlotsFact ==
  ASSUME NEW e \in Seq(InDir), NEW p \in InDir, NEW n \in Nat, NEW q
  PROVE  /\ q = p => Slots(n, Append(e, p), q) = Slots(n, e, q) \cup {<<n, Len(e) + 1>>}
         /\ q # p => Slots(n, Append(e, p), q) = Slots(n, e, q)
         /\ Slots(n, <<>>, q) = {}
<1> DEFINE f == Append(e, p)
           m == Len(e)
<1>1. /\ m \in Nat /\ DOMAIN e = 1 .. m /\ DOMAIN f = 1 .. m + 1 /\ f[m + 1] = p
      /\ \A i \in 1 .. m : f[i] = e[i]
  BY AppendProperties
<1>2. Slots(n, <<>>, q) = {}
  BY DEF Slots
<1> HIDE DEF f, m
<1>3. ASSUME NEW j PROVE (j \in DOMAIN f /\ f[j] = q) <=>
                         (j \in DOMAIN e /\ e[j] = q) \/ (j = m + 1 /\ q = p)
  <2>1. j \in 1 .. m + 1 <=> j \in 1 .. m \/ j = m + 1
    BY <1>1
  <2>2. m + 1 \notin 1 .. m
    BY <1>1
  <2> QED
    BY <1>1, <2>1, <2>2
<1>4. {k \in DOMAIN f : f[k] = q} =
        IF q = p THEN {k \in DOMAIN e : e[k] = q} \cup {m + 1} ELSE {k \in DOMAIN e : e[k] = q}
  BY <1>3
<1>5. Slots(n, f, q) = IF q = p THEN Slots(n, e, q) \cup {<<n, m + 1>>} ELSE Slots(n, e, q)
  BY <1>4 DEF Slots
<1> QED
  BY <1>2, <1>5 DEF f, m

\* One more entry is in its packet, at a place of its own.
LEMMA ReadToSendAt ==
  ASSUME NEW p \in InDir, BaseOK, SendFollows, ReadToSend(p), cmd.op = "sendAll"
  PROVE  /\ offset' + Len(pkt') <= dirCnt' /\ Len(pkt') < PktEntries /\ filling'
         /\ \/ /\ unnoticed' = unnoticed
               /\ \A q \in InDir \ LongNames :
                    At(q)' = IF q = p THEN At(q) \cup {<<Len(packets) + 1, Len(pkt) + 1>>} ELSE At(q)
            \/ "transmit" \in unnoticed' /\ \A q : At(q)' \subseteq At(q)
<1> DEFINE n == Len(packets)
           m == Len(pkt)
<1>1. /\ step = "read" /\ filling /\ offset + m <= dirCnt /\ m < PktEntries
      /\ dirCnt' = dirCnt + 1
  BY DEF ReadToSend, MayRead, SendFollows
<1>2. /\ offset \in Nat /\ dirCnt \in Nat /\ pkt \in Seq(InDir) /\ m \in Nat
      /\ packets \in Seq(Nat \X Seq(InDir)) /\ n \in Nat /\ PktEntries \in Nat \ {0}
  BY DirAssumption DEF BaseOK, ListingTypes
<1>3. dirCnt' > offset /\ ~(m >= PktEntries)
  BY <1>1, <1>2
<1>4. CASE p \in LongNames
  <2>1. pkt' = pkt /\ filling' = (filling /\ ~(filling /\ m >= PktEntries)) /\ UNCHANGED <<packets, offset, unnoticed>>
    BY <1>3, <1>4 DEF ReadToSend
  <2>2. filling' /\ offset' + Len(pkt') <= dirCnt' /\ Len(pkt') < PktEntries
    <3>1. filling'
      BY <1>1, <1>3, <2>1
    <3>2. offset + m <= dirCnt + 1
      BY <1>1, <1>2
    <3> QED
      BY <1>1, <2>1, <3>1, <3>2
  <2>3. \A q : At(q)' = At(q)
    BY <2>1 DEF At, Places
  <2> QED
    BY <1>4, <2>1, <2>2, <2>3
<1>5. CASE p \notin LongNames
  <2> DEFINE e == Append(pkt, p)
  <2>1. e \in Seq(InDir) /\ Len(e) = m + 1 /\ Len(e) <= PktEntries
    BY <1>1, <1>2, AppendProperties
  <2>2. \/ /\ Len(e) >= PktEntries /\ filling' = filling
           /\ Transmit(<<offset, e>>) /\ pkt' = <<>> /\ offset' = offset + PktEntries
        \/ /\ ~(Len(e) >= PktEntries) /\ filling' = (filling /\ ~(filling /\ Len(e) >= PktEntries))
           /\ pkt' = e /\ UNCHANGED <<packets, offset, unnoticed>>
    BY <1>1, <1>3, <1>5 DEF ReadToSend, NextOffset
  <2>3. \A q : Slots(n + 1, e, q) =
                 IF q = p THEN Slots(n + 1, pkt, q) \cup {<<n + 1, m + 1>>} ELSE Slots(n + 1, pkt, q)
    <3>1. n + 1 \in Nat /\ pkt \in Seq(InDir)
      BY <1>2
    <3> HIDE DEF n
    <3>2. ASSUME NEW q
          PROVE  /\ q = p => Slots(n + 1, e, q) = Slots(n + 1, pkt, q) \cup {<<n + 1, m + 1>>}
                 /\ q # p => Slots(n + 1, e, q) = Slots(n + 1, pkt, q)
      BY <3>1, SlotsFact
    <3> QED
      BY <3>2
  <2>4. \A q : At(q) = PlacesIn(packets, q) \cup Slots(n + 1, pkt, q)
    BY AtFact
  <2>5. \A q : At(q)' = PlacesIn(packets', q) \cup Slots(Len(packets') + 1, pkt', q)
    BY DEF At, Places, PlacesIn, Slots
  <2> HIDE DEF e
  <2>6. CASE /\ Len(e) >= PktEntries /\ filling' = filling
             /\ Transmit(<<offset, e>>) /\ pkt' = <<>> /\ offset' = offset + PktEntries
    <3>1. ASSUME packets' = Append(packets, <<offset, e>>)
          PROVE  \A q : PlacesIn(packets', q) = PlacesIn(packets, q) \cup Slots(n + 1, e, q)
      <4>1. \A q : PlacesIn(Append(packets, <<offset, e>>), q) = PlacesIn(packets, q) \cup Slots(n + 1, e, q)
        BY <1>2, <2>1, FlushFact
      <4> QED
        BY <3>1, <4>1
    <3>2. \A q : Slots(Len(packets') + 1, pkt', q) = {}
      BY <2>6 DEF Slots
    <3>3. Len(pkt') = 0 /\ m + 1 = PktEntries
      BY <1>1, <1>2, <2>1, <2>6
    <3>4. offset' + Len(pkt') <= dirCnt' /\ Len(pkt') < PktEntries /\ filling'
      BY <1>1, <1>2, <2>6, <3>3
    <3>5. CASE packets' = Append(packets, <<offset, e>>) /\ unnoticed' = unnoticed
      <4>1. \A q : At(q)' = IF q = p THEN At(q) \cup {<<n + 1, m + 1>>} ELSE At(q)
        BY <2>3, <2>4, <2>5, <3>1, <3>2, <3>5
      <4> QED
        BY <3>4, <3>5, <4>1
    <3>6. CASE packets' = packets /\ unnoticed' = unnoticed \cup {"transmit"}
      <4>1. \A q : At(q)' \subseteq At(q)
        BY <2>4, <2>5, <3>2, <3>6
      <4> QED
        BY <3>4, <3>6, <4>1
    <3> QED
      BY <2>6, <3>5, <3>6 DEF Transmit
  <2>7. CASE /\ ~(Len(e) >= PktEntries) /\ filling' = (filling /\ ~(filling /\ Len(e) >= PktEntries))
             /\ pkt' = e /\ UNCHANGED <<packets, offset, unnoticed>>
    <3>1. filling' /\ Len(pkt') = m + 1
      BY <1>1, <2>1, <2>7
    <3>2. offset' + Len(pkt') <= dirCnt' /\ Len(pkt') < PktEntries
      BY <1>1, <1>2, <2>1, <2>7, <3>1
    <3>3. \A q : At(q)' = IF q = p THEN At(q) \cup {<<n + 1, m + 1>>} ELSE At(q)
      BY <2>3, <2>4, <2>5, <2>7
    <3> QED
      BY <2>7, <3>1, <3>2, <3>3
  <2> QED
    BY <2>2, <2>6, <2>7
<1> QED
  BY <1>4, <1>5

\* Every file read is in one packet, at one place.
LEMMA SendFollowsStep == BaseOK /\ Guarded /\ ListingReads /\ SendFollows /\ Next => SendFollows'
<1> SUFFICES ASSUME BaseOK, Guarded, ListingReads, SendFollows, Next PROVE SendFollows'
  OBVIOUS
<1>1. CASE \E c \in Commands : Command(c)
  BY <1>1 DEF Command, Begins, SendFollows
<1>2. CASE cmd.op # "sendAll" /\ UNCHANGED cmd
  BY <1>2 DEF SendFollows
<1>3. CASE cmd.op = "sendAll" /\ Others /\ UNCHANGED <<dirVars, taskVars>>
  <2>1. \A q : At(q)' = At(q) /\ Places(q)' = Places(q)
    BY <1>3 DEF At, Places, dirVars
  <2> QED
    BY <1>3, <2>1 DEF SendFollows, dirVars, taskVars
<1>4. CASE cmd.op = "sendAll" /\ DirStep /\ step # "idle" /\ UNCHANGED cmd
  <2>1. CASE DirOpen
    <3>1. CASE step' = "idle"
      <4>1. result' = "failure"
        BY <2>1, <3>1 DEF DirOpen, Reports
      <4> QED
        BY <3>1, <4>1 DEF SendFollows
    <3>2. CASE step' # "idle"
      <4>1. /\ seen' = {} /\ pkt' = <<>> /\ packets' = <<>> /\ dirCnt' = 0 /\ filling' = TRUE
            /\ offset' = cmd.offset
        BY <2>1, <3>2 DEF DirOpen, Reports
      <4>2. offset' = 0 /\ Len(pkt') = 0
        BY <1>4, <4>1, CmdFact
      <4>3. \A q : At(q)' = {}
        BY <4>1 DEF At, Places
      <4> QED
        BY <3>2, <4>1, <4>2, <4>3, DirAssumption DEF SendFollows
    <3> QED
      BY <3>1, <3>2
  <2>2. CASE ReadEnds
    <3>1. /\ step = "read" /\ step' = "ends"
          /\ UNCHANGED <<seen, dirCnt, pkt, offset, filling, packets>>
          /\ unnoticed' = unnoticed \/ unnoticed' = unnoticed \cup {"read"}
      BY <2>2 DEF ReadEnds
    <3>2. \A q : At(q)' = At(q)
      BY <3>1 DEF At, Places
    <3> QED
      BY <1>4, <3>1, <3>2 DEF SendFollows
  <2>3. CASE \E p \in InDir : ReadToSend(p)
    <3> PICK p \in InDir : ReadToSend(p)
      BY <2>3
    <3>1. step = "read" /\ step' = "read" /\ seen' = seen \cup {p} /\ p \notin seen
      BY DEF ReadToSend, MayRead, taskVars
    <3>2. /\ offset' + Len(pkt') <= dirCnt' /\ Len(pkt') < PktEntries /\ filling'
          /\ \/ /\ unnoticed' = unnoticed
                /\ \A q \in InDir \ LongNames :
                     At(q)' = IF q = p THEN At(q) \cup {<<Len(packets) + 1, Len(pkt) + 1>>} ELSE At(q)
             \/ "transmit" \in unnoticed' /\ \A q : At(q)' \subseteq At(q)
      BY <1>4, ReadToSendAt
    <3>3. \A q \in InDir \ LongNames :
            /\ \A x, y \in At(q) : x = y
            /\ q \notin seen => At(q) = {}
            /\ q \in seen /\ "transmit" \notin unnoticed => At(q) # {}
      BY <1>4, <3>1 DEF SendFollows
    <3>4. ASSUME NEW q \in InDir \ LongNames
          PROVE  /\ \A x, y \in At(q)' : x = y
                 /\ q \notin seen' => At(q)' = {}
                 /\ q \in seen' /\ "transmit" \notin unnoticed' => At(q)' # {}
      <4>1. CASE At(q)' \subseteq At(q) /\ "transmit" \in unnoticed'
        BY <3>1, <3>3, <4>1
      <4>2. CASE unnoticed' = unnoticed /\ q = p /\ At(q)' = At(q) \cup {<<Len(packets) + 1, Len(pkt) + 1>>}
        <5>1. At(q)' = {<<Len(packets) + 1, Len(pkt) + 1>>}
          BY <3>1, <3>3, <4>2
        <5> QED
          BY <3>1, <4>2, <5>1
      <4>3. CASE unnoticed' = unnoticed /\ q # p /\ At(q)' = At(q)
        BY <3>1, <3>3, <4>3
      <4> QED
        BY <3>2, <4>1, <4>2, <4>3
    <3> QED
      BY <3>1, <3>2, <3>4 DEF SendFollows
  <2>4. CASE DirEnds
    <3>1. /\ step = "ends" /\ step' = "idle" /\ UNCHANGED <<seen, orig>>
          /\ IF pkt # <<>> THEN Transmit(<<offset, pkt>>) ELSE UNCHANGED <<packets, unnoticed>>
      BY <1>4, <2>4 DEF DirEnds, Reports
    <3>2. /\ filling /\ Len(pkt) < PktEntries
          /\ \A q \in InDir \ LongNames :
               /\ \A x, y \in At(q) : x = y
               /\ q \in seen /\ "transmit" \notin unnoticed => At(q) # {}
      BY <1>4, <3>1 DEF SendFollows
    <3>3. unnoticed = {} => \A p \in InDir : orig[p].there => p \in seen
      BY <1>4, <3>1, <3>2 DEF ListingReads
    <3>4. /\ packets \in Seq(Nat \X Seq(InDir)) /\ pkt \in Seq(InDir) /\ offset \in Nat
          /\ Len(pkt) \in Nat
      BY DEF BaseOK, ListingTypes
    <3>5. ASSUME packets' = IF pkt # <<>> THEN Append(packets, <<offset, pkt>>) ELSE packets
          PROVE  \A q : PlacesIn(packets', q) = PlacesIn(packets, q) \cup Slots(Len(packets) + 1, pkt, q)
      <4>1. CASE pkt # <<>>
        <5>1. PICK ps \in Seq(Nat \X Seq(InDir)), o \in Nat, e \in Seq(InDir) :
                ps = packets /\ o = offset /\ e = pkt
          BY <3>4
        <5>2. Len(e) <= PktEntries
          BY <3>2, <3>4, <5>1, DirAssumption
        <5>3. \A q : PlacesIn(Append(ps, <<o, e>>), q) = PlacesIn(ps, q) \cup Slots(Len(ps) + 1, e, q)
          BY <5>2, FlushFact
        <5> QED
          BY <3>5, <4>1, <5>1, <5>3
      <4>2. CASE pkt = <<>>
        <5>1. \A q : Slots(Len(packets) + 1, pkt, q) = {}
          BY <4>2 DEF Slots
        <5> QED
          BY <3>5, <4>2, <5>1
      <4> QED
        BY <4>1, <4>2
    <3>6. CASE packets' = (IF pkt # <<>> THEN Append(packets, <<offset, pkt>>) ELSE packets) /\ unnoticed' = unnoticed
      <4>1. \A q : Places(q)' = PlacesIn(packets', q)
        BY DEF Places, PlacesIn
      <4>2. \A q : Places(q)' = At(q)
        BY <3>5, <3>6, <4>1, AtFact
      <4> QED
        BY <3>1, <3>2, <3>3, <3>6, <4>2 DEF SendFollows
    <3>7. CASE packets' = packets /\ "transmit" \in unnoticed'
      <4>1. \A q : Places(q)' \subseteq At(q)
        BY <3>7 DEF Places, At
      <4> QED
        BY <3>1, <3>2, <3>7, <4>1 DEF SendFollows
    <3> QED
      BY <3>1, <3>6, <3>7 DEF Transmit
  <2>5. CASE Unlink \/ OpenList \/ WriteHead \/ \E p \in InDir : ReadToDelete(p) \/ ReadToWrite(p)
    BY <1>4, <2>5, StepFact DEF Unlink, OpenList, WriteHead, ReadToDelete, ReadToWrite
  <2> QED
    BY <1>4, <2>1, <2>2, <2>3, <2>4, <2>5 DEF DirStep
<1> QED
  BY <1>1, <1>2, <1>3, <1>4, CmdKept, DirActions DEF DirOpsOf

\* A list file with the entries e of files in S, and its statistics still zeros.
ListOf(s, e, S) ==
  /\ Len(s) = Len(e) + 1 /\ s[1] = Stats(0, 0)
  /\ \A i \in DOMAIN e : s[i + 1] = Entry(e[i]) /\ e[i] \in S
  /\ \A i, j \in DOMAIN e : e[i] = e[j] => i = j

LEMMA EntryFact == \A p, q \in Paths : Entry(p) = Entry(q) => p = q
BY DEF Entry, Block

LEMMA StatsFact == \A n, m : Stats(n, m).n = n /\ Stats(n, m).m = m
BY DEF Stats, Block

LEMMA ListBegins == ASSUME NEW S PROVE ListOf(Put(<<>>, 0, Stats(0, 0)), <<>>, S)
<1> DEFINE z == <<>>
           b == Stats(0, 0)
           t == Put(z, 0, b)
<1>1. z \in Seq(Blocks) /\ b \in Blocks /\ Len(z) = 0
  BY BlockFact
<1> HIDE DEF z, b
<1>2. /\ Len(t) = IF 0 < Len(z) THEN Len(z) ELSE 0 + 1
      /\ t[0 + 1] = b
  <2>1. 0 \in Nat
    OBVIOUS
  <2> QED
    BY <1>1, <2>1, PutFact
<1> HIDE DEF t
<1>3. Len(t) = 1 /\ t[1] = b
  BY <1>1, <1>2
<1>4. ListOf(t, <<>>, S)
  BY <1>3 DEF ListOf, b
<1> QED
  BY <1>4 DEF t, z, b

LEMMA ListGrows ==
  ASSUME NEW s \in Seq(Blocks), NEW e \in Seq(InDir), NEW S, NEW p \in InDir, p \notin S, ListOf(s, e, S)
  PROVE  /\ ListOf(Put(s, Len(s), Entry(p)), Append(e, p), S \cup {p})
         /\ Len(Put(s, Len(s), Entry(p))) = Len(s) + 1
<1> DEFINE m == Len(e)
           b == Entry(p)
           t == Put(s, Len(s), b)
           f == Append(e, p)
<1>1. m \in Nat /\ Len(s) = m + 1 /\ Len(s) \in Nat /\ DOMAIN e = 1 .. m /\ b \in Blocks
  BY BlockFact, StoreAssumption DEF ListOf
<1>2. Len(f) = m + 1 /\ DOMAIN f = 1 .. m + 1 /\ f[m + 1] = p /\ \A i \in 1 .. m : f[i] = e[i]
  BY <1>1, AppendProperties
<1>3. /\ Len(t) = m + 2 /\ t[m + 2] = b /\ \A k \in 1 .. m + 1 : t[k] = s[k]
  <2>1. /\ Len(t) = Len(s) + 1 /\ t[Len(s) + 1] = b
        /\ \A k \in 1 .. Len(s) : t[k] = s[k]
    BY <1>1, PutLast
  <2> HIDE DEF b, t, m
  <2> QED
    BY <1>1, <2>1
<1>4. /\ s[1] = Stats(0, 0)
      /\ \A i \in 1 .. m : s[i + 1] = Entry(e[i]) /\ e[i] \in S
      /\ \A i, j \in 1 .. m : e[i] = e[j] => i = j
  BY <1>1 DEF ListOf
<1> HIDE DEF m, t, f, b
<1>5. t[1] = Stats(0, 0)
  BY <1>1, <1>3, <1>4
<1>6. ASSUME NEW i \in 1 .. m + 1 PROVE t[i + 1] = Entry(f[i]) /\ f[i] \in S \cup {p}
  <2>1. CASE i = m + 1
    <3>1. i + 1 = m + 2
      BY <1>1, <2>1
    <3> QED
      BY <1>2, <1>3, <2>1, <3>1 DEF b
  <2>2. CASE i \in 1 .. m
    <3>1. i + 1 \in 1 .. m + 1
      BY <1>1, <2>2
    <3> QED
      BY <1>2, <1>3, <1>4, <2>2, <3>1
  <2> QED
    BY <1>1, <2>1, <2>2
<1>7. ASSUME NEW i \in 1 .. m + 1, NEW j \in 1 .. m + 1, f[i] = f[j] PROVE i = j
  <2>1. (i = m + 1 \/ i \in 1 .. m) /\ (j = m + 1 \/ j \in 1 .. m)
    BY <1>1
  <2>2. \A k \in 1 .. m : f[k] # p
    BY <1>2, <1>4
  <2> QED
    BY <1>2, <1>4, <1>7, <2>1, <2>2
<1>8. ListOf(t, f, S \cup {p})
  <2>1. Len(t) = Len(f) + 1
    BY <1>1, <1>2, <1>3
  <2> QED
    BY <1>2, <1>5, <1>6, <1>7, <2>1 DEF ListOf
<1>9. Len(t) = Len(s) + 1
  BY <1>1, <1>3
<1> QED
  BY <1>8, <1>9 DEF t, f, b

\* The true statistics written over the zeros.
LEMMA ListDone ==
  ASSUME NEW s \in Seq(Blocks), NEW e \in Seq(InDir), NEW S, ListOf(s, e, S), NEW n \in Nat
  PROVE  LET t == Put(s, 0, Stats(n, Len(e))) IN
         /\ Len(t) >= 1 /\ t[1] = Stats(n, Len(t) - 1)
         /\ \A i, j \in 2 .. Len(t) : t[i] = t[j] => i = j
         /\ \A i \in DOMAIN e : i + 1 \in 2 .. Len(t) /\ t[i + 1] = Entry(e[i])
<1> DEFINE m == Len(e)
           b == Stats(n, m)
           t == Put(s, 0, b)
<1>1. m \in Nat /\ Len(s) = m + 1 /\ DOMAIN e = 1 .. m /\ b \in Blocks
  BY BlockFact DEF ListOf
<1>2. Len(t) = m + 1 /\ t[1] = b /\ \A k \in 2 .. m + 1 : t[k] = s[k]
  <2>1. Len(s) # 0 /\ b \in Blocks
    BY <1>1
  <2>2. Len(t) = Len(s) /\ t[1] = b /\ \A k \in 2 .. Len(s) : t[k] = s[k]
    BY <2>1, PutFirst
  <2> HIDE DEF b, t, m
  <2> QED
    BY <1>1, <2>2
<1>3. /\ \A i \in 1 .. m : s[i + 1] = Entry(e[i])
      /\ \A i, j \in 1 .. m : e[i] = e[j] => i = j
      /\ \A i \in 1 .. m : e[i] \in Paths
  <2>1. \A i \in 1 .. m : e[i] \in InDir
    BY <1>1
  <2> QED
    BY <1>1, <2>1, StoreAssumption DEF ListOf
<1> HIDE DEF m, t, b
<1>4. ASSUME NEW i \in 1 .. m PROVE i + 1 \in 2 .. Len(t) /\ t[i + 1] = Entry(e[i])
  <2>1. i + 1 \in 2 .. m + 1
    BY <1>1
  <2> QED
    BY <1>2, <1>3, <2>1
<1>5. ASSUME NEW i \in 2 .. m + 1, NEW j \in 2 .. m + 1, t[i] = t[j] PROVE i = j
  <2> PICK k \in 1 .. m : k + 1 = i
    <3>1. i - 1 \in 1 .. m /\ (i - 1) + 1 = i
      BY <1>1
    <3> QED
      BY <3>1
  <2> PICK l \in 1 .. m : l + 1 = j
    <3>1. j - 1 \in 1 .. m /\ (j - 1) + 1 = j
      BY <1>1
    <3> QED
      BY <3>1
  <2>1. Entry(e[k]) = Entry(e[l])
    BY <1>4, <1>5
  <2>2. k = l
    BY <1>3, <2>1, EntryFact
  <2> QED
    BY <2>2
<1>6. Len(t) >= 1 /\ Len(t) - 1 = m
  BY <1>1, <1>2
<1>7. t[1] = Stats(n, Len(t) - 1)
  BY <1>2, <1>6 DEF b
<1>8. \A i, j \in 2 .. Len(t) : t[i] = t[j] => i = j
  BY <1>2, <1>5
<1>9. \A i \in DOMAIN e : i + 1 \in 2 .. Len(t) /\ t[i + 1] = Entry(e[i])
  BY <1>1, <1>4
<1> QED
  BY <1>6, <1>7, <1>8, <1>9 DEF t, b, m

\* The list file, as far as it has come.
Filled ==
  LET s == fs[cmd.tgt].data IN
  /\ ListOf(s, pkt, seen) /\ wpos = Len(s) /\ Len(pkt) <= dirCnt
  /\ filling /\ dirCnt <= ListEntries => \A p \in seen \ LongNames : \E i \in DOMAIN pkt : pkt[i] = p

\* ... and when it is done.
Complete ==
  LET s == fs[cmd.tgt].data IN
  /\ Len(s) >= 1 /\ s[1].m = Len(s) - 1
  /\ \A i, j \in 2 .. Len(s) : s[i] = s[j] => i = j
  /\ s[1].n <= ListEntries /\ unnoticed = {} =>
       \A p \in InDir \ LongNames : orig[p].there => \E i \in 2 .. Len(s) : s[i] = Entry(p)

LEMMA ListFileParts ==
  ListFileFollows <=>
    (cmd.op = "writeList" /\ cmd.tgt \notin touched =>
       /\ step \in {"openList", "head"} => pkt = <<>> /\ dirCnt = 0 /\ seen = {} /\ filling
       /\ step = "head" => fs[cmd.tgt].data = <<>>
       /\ step \in {"read", "ends"} => Filled
       /\ step = "idle" /\ result = "success" => Complete)
BY DEF ListFileFollows, Filled, Complete, ListOf

LEMMA ReadToWriteFilled ==
  ASSUME NEW p \in InDir, BaseOK, Filled, ReadToWrite(p)
  PROVE  Filled'
<1> DEFINE s == fs[cmd.tgt].data
<1>1. /\ cmd.tgt \in Paths /\ filling /\ p \notin seen
      /\ seen' = seen \cup {p} /\ dirCnt' = dirCnt + 1 /\ cmd' = cmd
      /\ \/ /\ Len(pkt) >= ListEntries \/ p \in LongNames
            /\ UNCHANGED <<fs, wpos, pkt, filling>>
         \/ /\ wpos' = wpos + 1 /\ pkt' = Append(pkt, p)
            /\ fs'[cmd.tgt].data = Put(s, wpos, Entry(p))
         \/ UNCHANGED <<fs, wpos, pkt>> /\ ~filling'
  BY ReadToWriteFile
<1>2. /\ ListOf(s, pkt, seen) /\ wpos = Len(s) /\ Len(pkt) <= dirCnt
      /\ dirCnt <= ListEntries => \A q \in seen \ LongNames : \E i \in DOMAIN pkt : pkt[i] = q
  BY <1>1 DEF Filled
<1>3. /\ s \in Seq(Blocks) /\ pkt \in Seq(InDir) /\ Len(pkt) \in Nat /\ dirCnt \in Nat
  BY <1>1, StoreFact DEF BaseOK, ListingTypes
<1>4. \A q \in seen : q \in seen'
  BY <1>1
<1>5. CASE /\ Len(pkt) >= ListEntries \/ p \in LongNames
           /\ UNCHANGED <<fs, wpos, pkt, filling>>
  <2>1. ListOf(s, pkt, seen')
    BY <1>2, <1>4 DEF ListOf
  <2>2. Len(pkt) <= dirCnt'
    BY <1>1, <1>2, <1>3
  <2>3. dirCnt' <= ListEntries => p \in LongNames /\ dirCnt <= ListEntries
    BY <1>1, <1>2, <1>3, <1>5, DirAssumption
  <2>4. dirCnt' <= ListEntries => \A q \in seen' \ LongNames : \E i \in DOMAIN pkt : pkt[i] = q
    BY <1>1, <1>2, <2>3
  <2> QED
    BY <1>1, <1>2, <1>5, <2>1, <2>2, <2>4 DEF Filled
<1>6. CASE /\ wpos' = wpos + 1 /\ pkt' = Append(pkt, p)
           /\ fs'[cmd.tgt].data = Put(s, wpos, Entry(p))
  <2> DEFINE t == Put(s, Len(s), Entry(p))
             f == Append(pkt, p)
  <2>1. ListOf(t, f, seen \cup {p}) /\ Len(t) = Len(s) + 1
    BY <1>1, <1>2, <1>3, ListGrows
  <2>2. /\ Len(f) = Len(pkt) + 1 /\ DOMAIN f = 1 .. Len(pkt) + 1 /\ f[Len(pkt) + 1] = p
        /\ \A i \in 1 .. Len(pkt) : f[i] = pkt[i]
    BY <1>3, AppendProperties
  <2>3. fs'[cmd.tgt].data = t /\ pkt' = f
    BY <1>2, <1>6
  <2> HIDE DEF s, t, f
  <2>4. Len(f) <= dirCnt' /\ wpos' = Len(t)
    BY <1>1, <1>2, <1>3, <1>6, <2>1, <2>2
  <2>5. dirCnt' <= ListEntries => \A q \in seen' \ LongNames : \E i \in DOMAIN f : f[i] = q
    <3> SUFFICES ASSUME dirCnt' <= ListEntries, NEW q \in seen' \ LongNames
                 PROVE  \E i \in DOMAIN f : f[i] = q
      OBVIOUS
    <3>1. CASE q = p
      <4>1. Len(pkt) + 1 \in DOMAIN f
        BY <1>3, <2>2
      <4> QED
        BY <2>2, <3>1, <4>1
    <3>2. CASE q # p
      <4>1. q \in seen \ LongNames
        BY <1>1, <3>2
      <4>2. dirCnt <= ListEntries
        BY <1>1, <1>3, DirAssumption
      <4> PICK i \in DOMAIN pkt : pkt[i] = q
        BY <1>2, <4>1, <4>2
      <4>3. i \in 1 .. Len(pkt) /\ i \in DOMAIN f
        BY <1>3, <2>2
      <4> QED
        BY <2>2, <4>3
    <3> QED
      BY <3>1, <3>2
  <2> QED
    BY <1>1, <2>1, <2>3, <2>4, <2>5 DEF Filled
<1>7. CASE UNCHANGED <<fs, wpos, pkt>> /\ ~filling'
  <2>1. ListOf(s, pkt, seen')
    BY <1>2, <1>4 DEF ListOf
  <2>2. Len(pkt) <= dirCnt'
    BY <1>1, <1>2, <1>3
  <2> QED
    BY <1>1, <1>2, <1>7, <2>1, <2>2 DEF Filled
<1> QED
  BY <1>1, <1>5, <1>6, <1>7

LEMMA DirEndsComplete ==
  ASSUME BaseOK, ListingReads, Filled, DirEnds, cmd.op = "writeList", result' = "success"
  PROVE  Complete'
<1> DEFINE s == fs[cmd.tgt].data
           t == Put(s, 0, Stats(dirCnt, Len(pkt)))
<1>1. /\ step = "ends" /\ cmd.tgt \in Paths /\ filling /\ UNCHANGED <<cmd, orig, unnoticed>>
      /\ fs'[cmd.tgt].data = t
  BY DirEndsFile
<1>2. /\ ListOf(s, pkt, seen)
      /\ dirCnt <= ListEntries => \A q \in seen \ LongNames : \E i \in DOMAIN pkt : pkt[i] = q
  BY <1>1 DEF Filled
<1>3. /\ s \in Seq(Blocks) /\ pkt \in Seq(InDir) /\ dirCnt \in Nat
  BY <1>1, StoreFact DEF BaseOK, ListingTypes
<1>4. /\ Len(t) >= 1 /\ t[1] = Stats(dirCnt, Len(t) - 1)
      /\ \A i, j \in 2 .. Len(t) : t[i] = t[j] => i = j
      /\ \A i \in DOMAIN pkt : i + 1 \in 2 .. Len(t) /\ t[i + 1] = Entry(pkt[i])
  BY <1>2, <1>3, ListDone
<1>5. unnoticed = {} => \A p \in InDir : orig[p].there => p \in seen
  BY <1>1 DEF ListingReads
<1> HIDE DEF s, t
<1>6. t[1].m = Len(t) - 1 /\ t[1].n = dirCnt
  BY <1>4, StatsFact
<1>7. ASSUME dirCnt <= ListEntries, unnoticed = {}, NEW p \in InDir \ LongNames, orig[p].there
      PROVE  \E i \in 2 .. Len(t) : t[i] = Entry(p)
  <2> PICK i \in DOMAIN pkt : pkt[i] = p
    BY <1>2, <1>5, <1>7
  <2>1. i + 1 \in 2 .. Len(t) /\ t[i + 1] = Entry(p)
    BY <1>4
  <2> QED
    BY <2>1
<1> QED
  BY <1>1, <1>4, <1>6, <1>7 DEF Complete

LEMMA ListFileFollowsStep == BaseOK /\ Guarded /\ ListingReads /\ ListFileFollows /\ Next => ListFileFollows'
<1> SUFFICES ASSUME BaseOK, Guarded, ListingReads, ListFileFollows, Next PROVE ListFileFollows'
  OBVIOUS
<1> DEFINE On == cmd.op = "writeList" /\ cmd.tgt \notin touched
<1>1. CASE \E c \in Commands : Command(c)
  BY <1>1 DEF Command, Begins, ListFileFollows
<1>2. CASE UNCHANGED cmd /\ ~On'
  BY <1>2 DEF ListFileFollows
<1>3. CASE On' /\ Check /\ UNCHANGED <<copyVars, dirVars, cmds>>
  BY <1>3 DEF Check, Reports, ListFileFollows
<1>4. CASE On' /\ Others /\ UNCHANGED <<copyVars, dirVars, cmds, taskVars>>
  <2>1. touched \subseteq touched' /\ \A q \in Paths : q \notin touched' => fs'[q] = fs[q]
    BY <1>4, OthersFiles
  <2>2. cmd.op = "writeList" /\ cmd' = cmd /\ cmd.tgt \notin touched /\ cmd.tgt \notin touched'
    BY <1>4, <2>1 DEF taskVars
  <2>3. cmd.tgt \in Paths
    <3>1. cmd \in Commands
      BY <2>2, CmdFact, NoCommandFact DEF BaseOK, Placed
    <3> QED
      BY <2>2, <3>1, CommandsAssumption
  <2>4. fs'[cmd.tgt] = fs[cmd.tgt]
    BY <2>1, <2>2, <2>3
  <2>5. UNCHANGED <<step, result, orig, wpos, pkt, dirCnt, seen, filling, unnoticed>>
    BY <1>4 DEF taskVars, dirVars
  <2> QED
    BY <2>2, <2>4, <2>5 DEF ListFileFollows
<1>5. CASE On' /\ DirStep /\ step # "idle" /\ UNCHANGED cmd
  <2>0. UNCHANGED <<touched, orig>>
    BY <1>5 DEF DirStep, DirOpen, ReadEnds, Unlink, OpenList, WriteHead, DirEnds, ReadToDelete,
                ReadToSend, ReadToWrite, storeVars, taskVars
  <2>1. On
    BY <1>5, <2>0
  <2>2. CASE DirOpen
    <3>1. \/ step' = "openList" /\ pkt' = <<>> /\ dirCnt' = 0 /\ seen' = {} /\ filling' = TRUE
          \/ step' = "idle" /\ result' = "failure"
      BY <2>1, <2>2 DEF DirOpen, Reports
    <3> QED
      BY <3>1 DEF ListFileFollows
  <2>3. CASE OpenList
    <3>1. /\ step = "openList" /\ cmd.tgt \in Paths /\ UNCHANGED dirVars
          /\ \/ step' = "head" /\ fs'[cmd.tgt] = Holding(<<>>)
             \/ step' = "idle" /\ result' = "failure"
      BY <2>3, OpenListFile
    <3> QED
      BY <1>5, <2>1, <3>1, AbsentFact DEF ListFileFollows, dirVars
  <2>4. CASE WriteHead
    <3>1. /\ step = "head" /\ UNCHANGED dirVars
          /\ \/ /\ step' = "read" /\ wpos' = 1
                /\ fs'[cmd.tgt].data = Put(fs[cmd.tgt].data, 0, Stats(0, 0))
             \/ step' = "idle" /\ result' = "failure"
      BY <2>4, WriteHeadFile
    <3>2. pkt = <<>> /\ dirCnt = 0 /\ seen = {} /\ fs[cmd.tgt].data = <<>>
      BY <2>1, <3>1 DEF ListFileFollows
    <3>3. CASE step' = "idle" /\ result' = "failure"
      BY <3>3 DEF ListFileFollows
    <3>4. CASE step' = "read" /\ wpos' = 1 /\ fs'[cmd.tgt].data = Put(<<>>, 0, Stats(0, 0))
      <4> DEFINE t == Put(<<>>, 0, Stats(0, 0))
      <4>1. ListOf(t, <<>>, {})
        BY ListBegins
      <4> HIDE DEF t
      <4>2. Len(t) = 1
        BY <4>1 DEF ListOf
      <4>3. /\ fs'[cmd'.tgt].data = t /\ pkt' = <<>> /\ seen' = {} /\ dirCnt' = 0 /\ Len(pkt') = 0
        BY <1>5, <3>1, <3>2, <3>4 DEF dirVars, t
      <4>4. Filled'
        BY <3>4, <4>1, <4>2, <4>3 DEF Filled
      <4> QED
        BY <3>4, <4>4, ListFileParts DEF ListFileFollows, Filled, ListOf
    <3> QED
      BY <3>1, <3>2, <3>3, <3>4
  <2>5. CASE ReadEnds
    <3>1. /\ step = "read" /\ step' = "ends"
          /\ UNCHANGED <<fs, wpos, orig, seen, dirCnt, pkt, filling>>
      BY <2>5 DEF ReadEnds, storeVars
    <3> QED
      BY <1>5, <2>1, <3>1 DEF ListFileFollows
  <2>6. CASE \E p \in InDir : ReadToWrite(p)
    <3> PICK p \in InDir : ReadToWrite(p)
      BY <2>6
    <3>1. step = "read" /\ step' = "read"
      BY ReadToWriteFile
    <3>2. Filled
      BY <2>1, <3>1, ListFileParts
    <3>3. Filled'
      BY <3>2, ReadToWriteFilled
    <3> QED
      BY <3>1, <3>3 DEF ListFileFollows, Filled, ListOf
  <2>7. CASE DirEnds
    <3>1. step = "ends" /\ step' = "idle"
      BY <2>1, <2>7, DirEndsFile
    <3>2. Filled
      BY <2>1, <3>1, ListFileParts
    <3>3. result' = "success" => Complete'
      BY <2>1, <2>7, <3>2, DirEndsComplete
    <3> QED
      BY <3>1, <3>3 DEF ListFileFollows, Complete
  <2>8. CASE Unlink \/ \E p \in InDir : ReadToDelete(p) \/ ReadToSend(p)
    BY <2>1, <2>8, StepFact DEF Unlink, ReadToDelete, ReadToSend
  <2> QED
    BY <1>5, <2>2, <2>3, <2>4, <2>5, <2>6, <2>7, <2>8 DEF DirStep
<1>6. CASE On' /\ cmd.op = "writeList"
  BY <1>1, <1>3, <1>4, <1>5, <1>6, DirActions DEF DirOpsOf
<1> QED
  BY <1>1, <1>2, <1>6, CmdKept

-----------------------------------------------------------------------------
(* The theorems.                                                           *)

LEMMA InitInv == Init => IInv
<1> SUFFICES ASSUME Init PROVE IInv
  OBVIOUS
<1>1. BaseOK
  BY InitBase
<1>2. cmd = NoCommand /\ step = "idle" /\ result = "none" /\ cmd.op = "none"
  BY NoCommandFact DEF Init, StoreInit
<1>3. Guarded
  BY <1>2 DEF Guarded
<1>4. CopyFollows /\ ReportIsTrue
  BY <1>2 DEF CopyFollows, ReportIsTrue
<1>5. DeleteFollows /\ DeleteAllClears
  BY <1>2 DEF DeleteFollows, DeleteAllClears
<1>6. ListingsOK
  BY <1>2 DEF ListingsOK, ListingReads, SendFollows, ListFileFollows
<1> QED
  BY <1>1, <1>3, <1>4, <1>5, <1>6 DEF IInv

LEMMA NextInv == IInv /\ Next => IInv'
<1> SUFFICES ASSUME IInv, Next PROVE IInv'
  OBVIOUS
<1>1. BaseOK /\ Guarded /\ CopyOK /\ DeleteOK /\ ListingReads /\ SendFollows /\ ListFileFollows
  BY DEF IInv, CopyOK, DeleteOK, ListingsOK
<1>2. BaseOK' /\ Guarded'
  BY <1>1, BaseStep, GuardedStep
<1>3. CopyOK' /\ DeleteOK'
  BY <1>1, CopyStep, DeleteStep
<1>4. ListingReads' /\ SendFollows' /\ ListFileFollows'
  BY <1>1, ListingReadsStep, SendFollowsStep, ListFileFollowsStep
<1> QED
  BY <1>2, <1>3, <1>4 DEF IInv, CopyOK, DeleteOK, ListingsOK

LEMMA StutterInv == IInv /\ UNCHANGED vars => IInv'
<1> SUFFICES ASSUME IInv, UNCHANGED vars PROVE IInv'
  OBVIOUS
<1> USE DEF vars, storeVars, taskVars, copyVars, dirVars
<1>1. BaseOK'
  BY DEF IInv, BaseOK, TypeOK, Placed, Named, ListingTypes, Writing
<1>2. Guarded'
  <2>1. ChecksOf(cmd)' = ChecksOf(cmd) /\ Passed' = Passed
    BY DEF ChecksOf, FileChecks, DirChecks, Passed
  <2>2. Guarded
    BY DEF IInv
  <2> QED
    BY <2>1, <2>2 DEF Guarded, Unopened, MustNotBeOpen
<1>3. CopyFollows' /\ ReportIsTrue'
  BY DEF IInv, CopyFollows, ReportIsTrue, Untouched
<1>4. DeleteFollows' /\ DeleteAllClears'
  BY DEF IInv, DeleteFollows, DeleteAllClears, Files
<1>5. ListingsOK'
  <2>1. \A q : At(q)' = At(q) /\ Places(q)' = Places(q)
    BY DEF At, Places
  <2>2. ListingReads' /\ ListFileFollows'
    BY DEF IInv, ListingsOK, ListingReads, ListFileFollows
  <2>3. SendFollows'
    BY <2>1 DEF IInv, ListingsOK, SendFollows
  <2> QED
    BY <2>2, <2>3 DEF ListingsOK
<1> QED
  BY <1>1, <1>2, <1>3, <1>4, <1>5 DEF IInv

\* The inductive invariant: where a command is in its steps, which files it has
\* found unopened, and how far its copy, deletion or listing has come (file.c,
\* dir.c).
THEOREM Invariance == Spec => []IInv
<1>1. IInv /\ [Next]_vars => IInv'
  BY NextInv, StutterInv
<1> QED
  BY <1>1, InitInv, PTL DEF Spec

\* Every variable stays in its range, and the child task has nothing open
\* between two commands, whichever way they ended (file.c, dir.c, osapi-file.c).
THEOREM TypeCorrect == Spec => []TypeOK
<1>1. IInv => TypeOK
  BY DEF IInv, BaseOK
<1> QED
  BY <1>1, Invariance, PTL

\* No file that another task had open when the command looked at it is
\* overwritten or removed (the state checks of file.c and dir.c).
THEOREM OpenFilesCorrect == Spec => OpenFilesSafe
<1> DEFINE Safe == (/\ other # NoPath /\ ~orphan /\ ~late
                    /\ ~(cmd.op = "move" /\ step = "remove" /\ other = cmd.src))
                   => \/ other' = NoPath
                      \/ /\ ~orphan' /\ fs'[other'].there
                         /\ Len(fs'[other'].data) >= Len(fs[other].data)
                         /\ SubSeq(fs'[other'].data, 1, Len(fs[other].data)) = fs[other].data
<1>1. IInv /\ [Next]_vars => [Safe]_vars
  <2>1. IInv /\ Next => Safe
    BY OpenFilesStep DEF IInv
  <2> HIDE DEF Safe
  <2> QED
    BY <2>1
<1> QED
  BY <1>1, Invariance, PTL DEF Spec, OpenFilesSafe

\* A move keeps its data in one of its two files at every moment, and the report
\* of a copy, a move, a renaming or a deletion is true (file.c, OS_cp and OS_mv
\* in osapi-file.c).
THEOREM DataCorrect == Spec => []DataKept
<1>1. IInv => DataKept
  <2> SUFFICES ASSUME IInv PROVE DataKept
    OBVIOUS
  <2>1. BaseOK /\ CopyFollows /\ ReportIsTrue
    BY DEF IInv
  <2>2. MoveKeepsData
    <3> SUFFICES ASSUME cmd.op = "move", cmd.src # cmd.tgt, Untouched({cmd.src, cmd.tgt})
                 PROVE  \E p \in {cmd.src, cmd.tgt} : fs[p] = orig[cmd.src]
      BY DEF MoveKeepsData
    <3>1. CASE step # "idle"
      BY <2>1, <3>1 DEF CopyFollows
    <3>2. CASE step = "idle"
      <4>1. result # "none"
        BY <2>1, <3>2, NoCommandFact DEF BaseOK, Placed
      <4> QED
        BY <2>1, <3>2, <4>1 DEF ReportIsTrue
    <3> QED
      BY <3>1, <3>2
  <2> QED
    BY <2>1, <2>2 DEF DataKept
<1> QED
  BY <1>1, Invariance, PTL

\* Deleting all files of a directory leaves none of those that were there all
\* along, unless it counted one that it could not delete (DIR_DeleteAllCmd).
THEOREM DeleteAllCorrect == Spec => []DeleteAllClears
<1>1. IInv => DeleteAllClears
  BY DEF IInv
<1> QED
  BY <1>1, Invariance, PTL

\* A listing in packets names every file that was there all along once, and a
\* listing in a file that has its statistics is complete as far as they say
\* (DIR_SendDirTlmCmd, DIR_SendDirListTlmCmd, DIR_WriteListFileCmd).
THEOREM ListingsCorrect == Spec => []ListingsTrue
<1>1. IInv => ListingsTrue
  <2> SUFFICES ASSUME IInv PROVE ListingsTrue
    OBVIOUS
  <2>1. BaseOK /\ SendFollows /\ ListFileFollows
    BY DEF IInv, ListingsOK
  <2>2. ListingComplete
    BY <2>1 DEF SendFollows, ListingComplete
  <2>3. ListFileHonest
    <3> DEFINE s == fs[cmd.tgt].data
    <3> SUFFICES ASSUME cmd.op = "writeList", cmd.tgt \notin touched, s # <<>>,
                        step \in {"head", "read", "ends", "idle"}, result # "failure",
                        s[1].n > 0
                 PROVE  /\ s[1].m = Len(s) - 1
                        /\ \A i, j \in 2 .. Len(s) : s[i] = s[j] => i = j
                        /\ s[1].n <= ListEntries /\ unnoticed = {} =>
                             \A p \in InDir \ LongNames :
                               (orig[p].there /\ fs[p].there) => \E i \in 2 .. Len(s) : s[i] = Entry(p)
      BY DEF ListFileHonest
    <3>1. CASE step = "head"
      BY <2>1, <3>1 DEF ListFileFollows
    <3>2. CASE step \in {"read", "ends"}
      <4>1. s[1] = Stats(0, 0)
        BY <2>1, <3>2, ListFileParts DEF Filled, ListOf
      <4>2. s[1].n = 0
        BY <4>1, StatsFact
      <4> QED
        BY <4>2
    <3>3. CASE step = "idle"
      <4>1. result = "success"
        BY <2>1, <3>3, NoCommandFact DEF BaseOK, Placed, TypeOK
      <4>2. Complete
        BY <2>1, <3>3, <4>1, ListFileParts
      <4> QED
        BY <4>2 DEF Complete
    <3> QED
      BY <3>1, <3>2, <3>3
  <2> QED
    BY <2>2, <2>3 DEF ListingsTrue
<1> QED
  BY <1>1, Invariance, PTL

\* Both together: what a delete-all or a listing says of its directory is true,
\* whatever files come, go or cannot be removed while the directory is read
\* (DIR_DeleteAllCmd, SendDirListTlm, WriteDirListToFile).
THEOREM DirectoryCorrect == Spec => []DirectoryTrue
<1>1. DeleteAllClears /\ ListingsTrue => DirectoryTrue
  BY DEF DirectoryTrue
<1> QED
  BY <1>1, DeleteAllCorrect, ListingsCorrect, PTL

-----------------------------------------------------------------------------
(* Every step brings a command nearer to its end.                          *)

LEMMA StepsLeftFact ==
  /\ StepsLeft("check") = 12 /\ StepsLeft("openList") = 9 /\ StepsLeft("rename") = 8
  /\ StepsLeft("head") = 8 /\ StepsLeft("openSource") = 7 /\ StepsLeft("openTarget") = 6
  /\ StepsLeft("block") = 5 /\ StepsLeft("close") = 4 /\ StepsLeft("read") = 3
  /\ StepsLeft("unlink") = 3 /\ StepsLeft("ends") = 2 /\ StepsLeft("remove") = 1
  /\ StepsLeft("idle") = 0
BY DEF StepsLeft

\* Outside of a copy only the step counts; in a copy the source does, too.
LEMMA LeftFact ==
  /\ ~Writing /\ step \in Steps => Left = StepsLeft(step)
  /\ Writing => Left = StepsLeft(step) + IF cmd.op = "concatenate" /\ ~second THEN 4 ELSE 0
  /\ ~Writing' /\ step' \in Steps => Left' = StepsLeft(step')
  /\ Writing' => Left' = StepsLeft(step') + IF cmd'.op = "concatenate" /\ ~second' THEN 4 ELSE 0
<1>1. (Writing <=> step \in {"openSource", "openTarget", "block", "close"})
      /\ (Writing' <=> step' \in {"openSource", "openTarget", "block", "close"})
  BY DEF Writing
<1>2. \A s \in Steps : StepsLeft(s) + 0 = StepsLeft(s)
  BY StepsLeftFact DEF Steps
<1> QED
  BY <1>1, <1>2 DEF Left, FirstSource

\* From one step of a copy to a later one, for the same source.
LEMMA CopyGoesOn ==
  ASSUME Writing, Writing', UNCHANGED <<cmd, second>>, StepsLeft(step') < StepsLeft(step)
  PROVE  Left' < Left
BY LeftFact, StepsLeftFact DEF Writing, Steps

LEMMA CheckNearer == ASSUME BaseOK, Guarded, Check PROVE Nearer
<1>1. step = "check" /\ todo # <<>> /\ todo' = Tail(todo)
  BY DEF Check
<1>2. Len(todo') < Len(todo)
  <2>1. todo \in Seq(Paths \X SUBSET {"open", "closed", "nonexistent"})
    BY <1>1 DEF Guarded
  <2> QED
    BY <1>1, <2>1
<1>3. step' \in {"check", "idle"}
  BY <1>1 DEF Check, Reports
<1>4. Left = 12 /\ (step' = "check" => Left' = 12) /\ (step' = "idle" => Left' = 0)
  BY <1>1, LeftFact, StepsLeftFact DEF Writing, Steps
<1> QED
  BY <1>1, <1>2, <1>3, <1>4 DEF Nearer

LEMMA FileNearer ==
  ASSUME BaseOK, FileStarts \/ OpenSource \/ OpenTarget \/ CloseFiles \/ Rename \/ Remove
  PROVE  Left' < Left
<1>1. CASE FileStarts
  <2>1. /\ step = "check" /\ step' \in {"idle", "openSource", "rename", "remove"}
        /\ cmd' = cmd /\ second' = FALSE
    BY <1>1 DEF FileStarts, Reports
  <2>2. Left = 12
    BY <2>1, LeftFact, StepsLeftFact DEF Writing, Steps
  <2>3. Left' \in {0, 11, 8, 7, 1}
    BY <2>1, LeftFact, StepsLeftFact DEF Writing, Steps
  <2> QED
    BY <2>2, <2>3
<1>2. CASE OpenSource
  <2>1. /\ step = "openSource" /\ step' \in {"openTarget", "close"} /\ UNCHANGED <<cmd, second>>
    BY <1>2 DEF OpenSource
  <2> QED
    BY <2>1, CopyGoesOn, StepsLeftFact DEF Writing
<1>3. CASE OpenTarget
  <2>1. /\ step = "openTarget" /\ step' \in {"block", "close"} /\ UNCHANGED <<cmd, second>>
    BY <1>3 DEF OpenTarget
  <2> QED
    BY <2>1, CopyGoesOn, StepsLeftFact DEF Writing
<1>4. CASE CloseFiles
  <2>1. /\ step = "close" /\ Writing /\ cmd.op \in {"copy", "move", "concatenate"} /\ cmd' = cmd
    BY <1>4, StepFact DEF CloseFiles, Writing
  <2>2. \/ step' \in {"idle", "remove"}
        \/ step' = "openSource" /\ cmd.op = "concatenate" /\ ~second /\ second' = TRUE
    BY <1>4, <2>1 DEF CloseFiles, Reports
  <2>3. Left = IF cmd.op = "concatenate" /\ ~second THEN 8 ELSE 4
    BY <2>1, LeftFact, StepsLeftFact
  <2>4. CASE step' \in {"idle", "remove"}
    <3>1. Left' \in {0, 1}
      BY <2>4, LeftFact, StepsLeftFact DEF Writing, Steps
    <3> QED
      BY <2>3, <3>1
  <2>5. CASE step' = "openSource" /\ cmd.op = "concatenate" /\ ~second /\ second' = TRUE
    <3>1. Left' = 7
      BY <2>5, LeftFact, StepsLeftFact DEF Writing, Steps
    <3> QED
      BY <2>3, <2>5, <3>1
  <2> QED
    BY <2>2, <2>4, <2>5
<1>5. CASE Rename
  <2>1. step = "rename" /\ step' \in {"idle", "openSource"} /\ cmd' = cmd /\ second' = second
        /\ (step' = "openSource" => cmd.op = "move")
    BY <1>5 DEF Rename, Reports, copyVars
  <2>2. Left = 8 /\ Left' \in {0, 7}
    BY <2>1, LeftFact, StepsLeftFact DEF Writing, Steps
  <2> QED
    BY <2>2
<1>6. CASE Remove
  <2>1. step = "remove" /\ step' = "idle"
    BY <1>6 DEF Remove, Reports
  <2>2. Left = 1 /\ Left' = 0
    BY <2>1, LeftFact, StepsLeftFact DEF Writing, Steps
  <2> QED
    BY <2>2
<1> QED
  BY <1>1, <1>2, <1>3, <1>4, <1>5, <1>6

\* A block takes one from what is left to read, although reader and writer may be
\* in the same file.
LEMMA CopyBlockNearer == ASSUME BaseOK, InStride, CopyBlock PROVE Nearer
<1>1. /\ step = "block" /\ Writing /\ step' \in {"block", "close"} /\ Writing'
      /\ UNCHANGED <<cmd, second, from, into>>
      /\ from \in Paths /\ into \in Paths /\ pos \in Nat /\ wpos = pos
  BY StepFact DEF CopyBlock, Writing, BaseOK, Named, InStride
<1>2. CASE step' = "close"
  <2>1. Left' < Left
    BY <1>1, <1>2, CopyGoesOn, StepsLeftFact
  <2> QED
    BY <2>1 DEF Nearer
<1>3. CASE step' = "block"
  <2>1. Left' = Left
    BY <1>1, <1>3, LeftFact
  <2>2. /\ pos < Len(fs[from].data) /\ pos' = pos + 1
        /\ fs' = [fs EXCEPT ![into].data = Put(@, wpos, fs[from].data[pos + 1])]
    BY <1>1, <1>3 DEF CopyBlock
  <2>3. Len(fs'[from].data) = Len(fs[from].data)
    <3>1. CASE from # into
      BY <1>1, <3>1, CopyBlockFiles
    <3>2. CASE from = into
      <4> DEFINE s == fs[from].data
                 d == Put(s, pos, s[pos + 1])
      <4>1. s \in Seq(Blocks) /\ s[pos + 1] \in Blocks /\ fs[into].there
        <5>1. s \in Seq(Blocks) /\ fs[into].there
          BY <1>1, StoreFact DEF BaseOK, Named
        <5> HIDE DEF s
        <5> QED
          BY <1>1, <2>2, <5>1 DEF s
      <4>2. d \in Seq(Blocks) /\ Len(d) = Len(s)
        <5> HIDE DEF s
        <5>1. pos < Len(s)
          BY <2>2 DEF s
        <5> QED
          BY <1>1, <4>1, <5>1, PutFact
      <4>3. fs' = [fs EXCEPT ![into].data = d]
        BY <1>1, <2>2, <3>2
      <4> HIDE DEF d
      <4>4. fs'[into].data = d
        BY <1>1, <4>1, <4>2, <4>3, FilesWritten
      <4> QED
        BY <3>2, <4>2, <4>4
    <3> QED
      BY <3>1, <3>2
  <2>4. Len(fs[from].data) \in Nat
    BY <1>1, StoreFact
  <2>5. 0 <= Unread' /\ Unread' < Unread
    BY <1>1, <2>2, <2>3, <2>4 DEF Unread
  <2> QED
    BY <1>1, <2>1, <2>5 DEF Nearer
<1> QED
  BY <1>1, <1>2, <1>3

\* A file is read that was not read before, or a file is gone.
LEMMA ReadNearer ==
  ASSUME BaseOK, NEW p \in InDir, MayRead(p), seen' = seen \cup {p}, Files' = Files,
         step' \in {"read", "unlink"}
  PROVE  Nearer
<1>1. step = "read" /\ Left' = Left
  BY LeftFact, StepsLeftFact DEF MayRead, Writing, Steps
<1>2. Fewer(Unseen', Unseen)
  <2>1. p \in Unseen /\ p \notin Unseen' /\ Unseen' \subseteq Unseen
    BY DEF Unseen, MayRead
  <2> QED
    BY <2>1 DEF Fewer
<1> QED
  BY <1>1, <1>2 DEF Nearer

LEMMA DirNearer == ASSUME BaseOK, DirStep PROVE Nearer
<1> USE StoreAssumption
<1>1. CASE DirOpen \/ ReadEnds \/ OpenList \/ WriteHead \/ DirEnds
  <2>1. CASE DirOpen
    <3>1. step = "check" /\ step' \in {"openList", "read", "idle"}
      BY <2>1 DEF DirOpen, Reports
    <3>2. Left = 12 /\ Left' \in {9, 3, 0}
      BY <3>1, LeftFact, StepsLeftFact DEF Writing, Steps
    <3> QED
      BY <3>2 DEF Nearer
  <2>2. CASE ReadEnds
    <3>1. step = "read" /\ step' = "ends"
      BY <2>2 DEF ReadEnds
    <3>2. Left = 3 /\ Left' = 2
      BY <3>1, LeftFact, StepsLeftFact DEF Writing, Steps
    <3> QED
      BY <3>2 DEF Nearer
  <2>3. CASE OpenList \/ WriteHead
    <3>1. \/ step = "openList" /\ step' \in {"head", "idle"}
          \/ step = "head" /\ step' \in {"read", "idle"}
      BY <2>3 DEF OpenList, WriteHead, Reports
    <3>2. Left' < Left
      BY <3>1, LeftFact, StepsLeftFact DEF Writing, Steps
    <3> QED
      BY <3>2 DEF Nearer
  <2>4. CASE DirEnds
    <3>1. step = "ends" /\ cmd.op \in DirOpsOf
      BY <2>4, StepFact DEF DirEnds
    <3>2. step' = "idle"
      BY <2>4, <3>1 DEF DirEnds, DirOpsOf, Reports
    <3>3. Left = 2 /\ Left' = 0
      BY <3>1, <3>2, LeftFact, StepsLeftFact DEF Writing, Steps
    <3> QED
      BY <3>3 DEF Nearer
  <2> QED
    BY <1>1, <2>1, <2>2, <2>3, <2>4
<1>2. CASE \E p \in InDir : ReadToDelete(p) \/ ReadToSend(p) \/ ReadToWrite(p)
  <2>1. PICK p \in InDir : ReadToDelete(p) \/ ReadToSend(p) \/ ReadToWrite(p)
    BY <1>2
  <2>2. MayRead(p) /\ step = "read" /\ seen' = seen \cup {p}
    BY <2>1 DEF ReadToDelete, ReadToSend, ReadToWrite, MayRead
  <2>3. step' \in {"read", "unlink"}
    BY <2>1, <2>2 DEF ReadToDelete, ReadToSend, ReadToWrite, taskVars
  <2>4. Files' = Files
    <3>1. CASE ReadToDelete(p) \/ ReadToSend(p)
      BY <3>1 DEF ReadToDelete, ReadToSend, Files, storeVars
    <3>2. CASE ReadToWrite(p)
      BY <3>2, ReadToWriteFile, StoreAssumption DEF Files
    <3> QED
      BY <2>1, <3>1, <3>2
  <2> QED
    BY <2>2, <2>3, <2>4, ReadNearer
<1>3. CASE Unlink
  <2>1. /\ step = "unlink" /\ step' = "read" /\ victim \in InDir
    BY <1>3 DEF Unlink, BaseOK, Placed
  <2>2. Left' = Left
    BY <2>1, LeftFact, StepsLeftFact DEF Writing, Steps
  <2>3. CASE fs[victim].there /\ Removed(victim)
    <3>1. fs' = [fs EXCEPT ![victim] = Absent] /\ fs \in [Paths -> FileType] /\ victim \in Paths
      BY <2>1, <2>3, StoreFact DEF Removed
    <3>2. ~fs'[victim].there /\ \A q \in Paths : fs'[q].there => fs[q].there
      BY <3>1, AbsentFact
    <3>3. victim \in Files /\ victim \notin Files' /\ Files' \subseteq Files
      BY <2>1, <2>3, <3>2 DEF Files
    <3>4. Fewer(Files', Files)
      BY <3>3 DEF Fewer
    <3> QED
      BY <2>1, <2>2, <3>4 DEF Nearer
  <2>4. CASE UNCHANGED fs /\ UNCHANGED seen
    <3>1. Files' = Files /\ Unseen' = Unseen
      BY <2>4 DEF Files, Unseen
    <3> QED
      BY <2>1, <2>2, <3>1 DEF Nearer
  <2>5. \/ fs[victim].there /\ Removed(victim)
        \/ UNCHANGED fs /\ UNCHANGED seen
    BY <1>3 DEF Unlink, Rewinds
  <2> QED
    BY <2>3, <2>4, <2>5
<1> QED
  BY <1>1, <1>2, <1>3 DEF DirStep

\* Reader and writer begin at the start of their files and advance together.
LEMMA InStrideStep == BaseOK /\ InStride /\ [Next]_vars => InStride'
<1> SUFFICES ASSUME BaseOK, InStride, [Next]_vars PROVE InStride'
  OBVIOUS
<1>1. CASE UNCHANGED <<step, pos, wpos>>
  BY <1>1 DEF InStride
<1>2. CASE step' \notin {"openTarget", "block"}
  BY <1>2 DEF InStride
<1>3. CASE OpenSource \/ OpenTarget \/ CopyBlock
  BY <1>3 DEF InStride, OpenSource, OpenTarget, CopyBlock
<1>4. CASE FileStarts \/ CloseFiles \/ Rename \/ Remove
  <2>1. CASE CloseFiles
    <3>1. cmd.op \in {"copy", "move", "concatenate"}
      BY <2>1, StepFact DEF CloseFiles, Writing
    <3> QED
      BY <1>2, <2>1, <3>1 DEF CloseFiles, Reports
  <2> QED
    BY <1>2, <1>4, <2>1 DEF FileStarts, Rename, Remove, Reports
<1>5. CASE Check
  BY <1>1, <1>2, <1>5 DEF Check, Reports
<1>6. CASE DirStep
  <2>1. CASE DirEnds
    <3>1. cmd.op \in DirOpsOf
      BY <2>1, StepFact DEF DirEnds
    <3> QED
      BY <1>2, <2>1, <3>1 DEF DirEnds, DirOpsOf, Reports
  <2>2. CASE DirOpen \/ ReadEnds \/ Unlink \/ OpenList \/ WriteHead
    BY <1>2, <2>2 DEF DirOpen, ReadEnds, Unlink, OpenList, WriteHead, Reports
  <2>3. CASE \E p \in InDir : ReadToDelete(p) \/ ReadToSend(p) \/ ReadToWrite(p)
    BY <1>2, <2>3 DEF ReadToDelete, ReadToSend, ReadToWrite, MayRead, taskVars
  <2> QED
    BY <1>6, <2>1, <2>2, <2>3 DEF DirStep
<1>7. CASE Others /\ UNCHANGED copyVars
  BY <1>1, <1>7 DEF Others, OtherOpens, OtherWrites, OtherCloses, taskVars, copyVars
<1>8. CASE \E c \in Commands : Command(c)
  BY <1>2, <1>8 DEF Command, Begins
<1> QED
  BY <1>1, <1>3, <1>4, <1>5, <1>6, <1>7, <1>8
     DEF Next, Child, FileStep, vars, taskVars, copyVars

\* A copy writes its blocks where it has read them (OS_cp).
THEOREM StrideInvariance == Spec => []InStride
<1>1. Init => InStride
  BY DEF Init, StoreInit, InStride
<1>2. IInv => BaseOK
  BY DEF IInv
<1> QED
  BY <1>1, <1>2, InStrideStep, Invariance, PTL DEF Spec

\* Every step of the child task lowers what is left of its command: the steps to
\* come, the blocks not yet copied, the files of the directory, or those of them
\* not yet read since the last rewind; for any files, commands and failures, and
\* whatever other tasks did between two steps (file.c, dir.c, OS_cp).
THEOREM NearerToEndCorrect == Spec => NearerToEnd
<1>1. IInv /\ InStride /\ [Next]_vars => [Child => Nearer]_vars
  <2>1. ASSUME IInv, InStride, Child PROVE Nearer
    <3>1. BaseOK /\ Guarded
      BY <2>1 DEF IInv
    <3>2. CASE Check
      BY <3>1, <3>2, CheckNearer
    <3>3. CASE FileStep
      <4>1. CASE CopyBlock
        BY <2>1, <3>1, <4>1, CopyBlockNearer
      <4>2. CASE FileStarts \/ OpenSource \/ OpenTarget \/ CloseFiles \/ Rename \/ Remove
        BY <3>1, <4>2, FileNearer DEF Nearer
      <4> QED
        BY <3>3, <4>1, <4>2 DEF FileStep
    <3>4. CASE DirStep
      BY <3>1, <3>4, DirNearer
    <3> QED
      BY <2>1, <3>2, <3>3, <3>4 DEF Child
  <2> QED
    BY <2>1
<1> QED
  BY <1>1, Invariance, StrideInvariance, PTL DEF Spec, NearerToEnd
=============================================================================
