------------------------------- MODULE ChildMgr -------------------------------
(***************************************************************************)
(* The child task manager of the framework                                 *)
(* (src/apps/app_c_fw/fsw/src/childmgr.c): the task of an app hands        *)
(* commands to a child task through a ring of entries.  The number of      *)
(* entries in use is changed under a mutex, the two indices belong to one  *)
(* task each, and a counting semaphore wakes the child once per command.   *)
(* The steps of the two tasks interleave at every access to shared data.   *)
(*                                                                         *)
(* A rejected command only sends an event, so it is no action here.        *)
(***************************************************************************)
EXTENDS Integers, Sequences

CONSTANTS
  Msgs,       \* commands that the parent dispatches to the child
  Oversized,  \* those longer than CHILDMGR_CmdQEntry_t
  Entries,    \* CHILDMGR_CMD_Q_ENTRIES
  CntMod,     \* width of ValidCmdCnt and InvalidCmdCnt, 2^16
  NoMsg       \* an entry that was never written

ASSUME ChildAssumption ==
  Entries \in Nat \ {0} /\ CntMod \in Nat \ {0} /\ Oversized \subseteq Msgs /\ NoMsg \notin Msgs

Idx == 0 .. Entries - 1
Cnt == 0 .. CntMod - 1

VARIABLES
  registered,   \* the instance is in ChildTask.Instance
  semValid,     \* WakeUpSemaphore # CHILDMGR_SEM_INVALID
  tokens,       \* value of the counting semaphore
  entry,        \* CmdQ.Entry
  writeIndex,   \* CmdQ.WriteIndex
  readIndex,    \* CmdQ.ReadIndex
  count,        \* CmdQ.Count
  parent,       \* where the parent is in CHILDMGR_InvokeChildCmd
  parentMsg,    \* MsgPtr of that call
  child,        \* where the child is in ChildMgr_TaskMainCmdDispatch
  validCmdCnt, invalidCmdCnt,
  loaded,       \* the child's register: the counter it is about to increment
  valid,        \* ValidCmd of DispatchCmdFunc
  returned,     \* history: commands returned since the last reset (CntMod)
  spoiled       \* history: a reset came between load and store of a counter

queue == <<entry, writeIndex, readIndex, count>>
counters == <<validCmdCnt, invalidCmdCnt, loaded, valid, returned, spoiled>>
vars == <<registered, semValid, tokens, queue, parent, parentMsg, child, counters>>

ParentPcs == {"construct", "idle", "write", "count", "give"}
ChildPcs == {"start", "pend", "check", "run", "store", "release", "exited"}

NextIndex(i) == IF i + 1 >= Entries THEN 0 ELSE i + 1

Init ==
  /\ registered = FALSE /\ semValid = TRUE /\ tokens = 0
  /\ entry = [i \in Idx |-> NoMsg] /\ writeIndex = 0 /\ readIndex = 0 /\ count = 0
  /\ parent = "construct" /\ parentMsg = NoMsg /\ child = "start"
  /\ validCmdCnt = 0 /\ invalidCmdCnt = 0 /\ loaded = 0 /\ valid = FALSE
  /\ returned = 0 /\ spoiled = FALSE

(***************************************************************************)
(* The parent.                                                             *)
(***************************************************************************)

\* End of CHILDMGR_Constructor: the child task exists already and may have
\* looked for its instance.
RegChildMgrInstance ==
  /\ parent = "construct"
  /\ registered' = TRUE /\ parent' = "idle"
  /\ UNCHANGED <<semValid, tokens, queue, parentMsg, child, counters>>

\* Mutant: the test for a full queue is off by one.
AcceptsOneMore(m) == semValid /\ count <= Entries /\ writeIndex < Entries /\ m \notin Oversized

\* The tests at the head of CHILDMGR_InvokeChildCmd.
Accepts(m) == semValid /\ count < Entries /\ writeIndex < Entries /\ m \notin Oversized

\* Count is read here, without the mutex, and not looked at again.
InvokeChildCmd(m) ==
  /\ parent = "idle" /\ Accepts(m)
  /\ parent' = "write" /\ parentMsg' = m
  /\ UNCHANGED <<registered, semValid, tokens, queue, child, counters>>

WriteEntry ==
  /\ parent = "write"
  /\ entry' = [entry EXCEPT ![writeIndex] = parentMsg]
  /\ writeIndex' = NextIndex(writeIndex)
  /\ parent' = "count"
  /\ UNCHANGED <<registered, semValid, tokens, readIndex, count, parentMsg, child, counters>>

CountEntry ==
  /\ parent = "count"
  /\ count' = count + 1
  /\ parent' = "give"
  /\ UNCHANGED <<registered, semValid, tokens, entry, writeIndex, readIndex, parentMsg,
                 child, counters>>

\* Mutants: the semaphore is given twice, or not at all.
GivenTwice == tokens + 2
NotGiven == tokens

\* OS_CountSemGive
Given == tokens + 1

GiveSemaphore ==
  /\ parent = "give"
  /\ tokens' = IF semValid THEN Given ELSE tokens
  /\ parent' = "idle" /\ parentMsg' = NoMsg
  /\ UNCHANGED <<registered, semValid, queue, child, counters>>

\* Mutant: only one of the counters is cleared.
ResetValidOnly ==
  /\ parent = "idle"
  /\ validCmdCnt' = 0 /\ UNCHANGED invalidCmdCnt
  /\ returned' = 0 /\ spoiled' = (child = "store")
  /\ UNCHANGED <<registered, semValid, tokens, queue, parent, parentMsg, child, loaded, valid>>

ResetStatus ==
  /\ parent = "idle"
  /\ validCmdCnt' = 0 /\ invalidCmdCnt' = 0
  /\ returned' = 0 /\ spoiled' = (child = "store")
  /\ UNCHANGED <<registered, semValid, tokens, queue, parent, parentMsg, child, loaded, valid>>

(***************************************************************************)
(* The child.                                                              *)
(***************************************************************************)

\* ChildMgr_TaskMainCmdDispatch: a child that does not find its instance
\* exits, and leaves the semaphore as it is.
ChildStart ==
  /\ child = "start"
  /\ child' = IF registered THEN "pend" ELSE "exited"
  /\ UNCHANGED <<registered, semValid, tokens, queue, parent, parentMsg, counters>>

TakeSemaphore ==
  /\ child = "pend" /\ tokens > 0
  /\ tokens' = tokens - 1 /\ child' = "check"
  /\ UNCHANGED <<registered, semValid, queue, parent, parentMsg, counters>>

\* OS_CountSemTake fails, or the queue is not as it should be: the loop ends.
LeaveLoop ==
  /\ \/ child = "pend"
     \/ child = "check" /\ (count = 0 \/ readIndex >= Entries)
  /\ semValid' = FALSE /\ child' = "exited"
  /\ UNCHANGED <<registered, tokens, queue, parent, parentMsg, counters>>

\* DispatchCmdFunc calls the handler, which works on the entry in its place.
CallHandler ==
  /\ child = "check" /\ count # 0 /\ readIndex < Entries
  /\ child' = "run"
  /\ UNCHANGED <<registered, semValid, tokens, queue, parent, parentMsg, counters>>

\* The handler returns; a counter is about to be incremented.
HandlerReturns(ok) ==
  /\ child = "run"
  /\ valid' = ok /\ loaded' = (IF ok THEN validCmdCnt ELSE invalidCmdCnt)
  /\ child' = "store"
  /\ UNCHANGED <<registered, semValid, tokens, queue, parent, parentMsg,
                 validCmdCnt, invalidCmdCnt, returned, spoiled>>

StoreCounter ==
  /\ child = "store"
  /\ IF valid THEN validCmdCnt' = (loaded + 1) % CntMod /\ UNCHANGED invalidCmdCnt
              ELSE invalidCmdCnt' = (loaded + 1) % CntMod /\ UNCHANGED validCmdCnt
  /\ returned' = (returned + 1) % CntMod
  /\ readIndex' = NextIndex(readIndex)
  /\ child' = "release"
  /\ UNCHANGED <<registered, semValid, tokens, entry, writeIndex, count, parent, parentMsg,
                 loaded, valid, spoiled>>

ReleaseEntry ==
  /\ child = "release"
  /\ count' = count - 1
  /\ child' = "pend"
  /\ UNCHANGED <<registered, semValid, tokens, entry, writeIndex, readIndex, parent, parentMsg,
                 counters>>

ParentStep == RegChildMgrInstance \/ WriteEntry \/ CountEntry \/ GiveSemaphore
Handled == \E ok \in BOOLEAN : HandlerReturns(ok)
ChildStep == ChildStart \/ TakeSemaphore \/ CallHandler \/ Handled \/ StoreCounter \/ ReleaseEntry

Next == ParentStep \/ (\E m \in Msgs : InvokeChildCmd(m)) \/ ResetStatus \/ ChildStep \/ LeaveLoop

Spec == Init /\ [][Next]_vars

\* Both tasks are scheduled; a call once begun goes on to its end.
FairSpec == Spec /\ WF_vars(ParentStep) /\ WF_vars(ChildStep)

(***************************************************************************)
(* Properties.                                                             *)
(***************************************************************************)

TypeOK ==
  /\ registered \in BOOLEAN /\ semValid \in BOOLEAN /\ tokens \in 0 .. Entries
  /\ entry \in [Idx -> Msgs \cup {NoMsg}]
  /\ writeIndex \in Idx /\ readIndex \in Idx /\ count \in 0 .. Entries
  /\ parent \in ParentPcs /\ parentMsg \in Msgs \cup {NoMsg} /\ child \in ChildPcs
  /\ validCmdCnt \in Cnt /\ invalidCmdCnt \in Cnt /\ loaded \in Cnt /\ valid \in BOOLEAN
  /\ returned \in Cnt /\ spoiled \in BOOLEAN

\* Commands the child has not begun with: those counted, less the one whose
\* handler runs or has run.
Begun == child \in {"run", "store", "release"}
Waiting == IF Begun THEN count - 1 ELSE count
FirstWaiting == IF child \in {"run", "store"} THEN NextIndex(readIndex) ELSE readIndex
Nth(i, n) == IF i + n >= Entries THEN i + n - Entries ELSE i + n

\* The queue of ChildQueue behind the ring, and the command that runs.
PendingNow == [n \in 1 .. Waiting |-> entry[Nth(FirstWaiting, n - 1)]]
RunningNow == IF child = "run" THEN entry[readIndex] ELSE NoMsg

CQ == INSTANCE ChildQueue WITH
        pending <- PendingNow, running <- RunningNow

\* Commands are run one at a time, in the order in which they were accepted,
\* each of them once, and the entry a handler works on is never written over,
\* however the two tasks interleave on the indices and the count
\* (childmgr.c:225 and 567).
ImplementsQueue == CQ!QueueSpec

\* The semaphore is given once per counted command: the child is never woken
\* for an empty queue, nor finds a bad index, so it never ends its loop by
\* itself (childmgr.c:467 and 476).
NeverWokenInVain == child = "check" => count # 0 /\ readIndex < Entries

\* No command is left behind in a queue whose child sleeps: the tokens, the
\* one just taken and the one about to be given add up to the commands that
\* wait, as long as the semaphore is there (childmgr.c:237 and 244).
TokensMatchCount ==
  semValid =>
    tokens + (IF child = "check" THEN 1 ELSE 0) + (IF parent = "give" THEN 1 ELSE 0) = Waiting

\* Indices, count and tokens stay in the ring and match at every access of the
\* two tasks, and the child always finds a command when it is woken.
StateOK == TypeOK /\ TokensMatchCount /\ NeverWokenInVain

\* The counters of the child count the commands that returned since the last
\* reset, unless the reset fell between the load and the store of an
\* increment (childmgr.c:365 and 554).
CountersExact == ~spoiled => (validCmdCnt + invalidCmdCnt) % CntMod = returned

\* An accepted command does not wait forever: whenever one waits the child
\* begins with another, or exits; the queue is bounded and in order, so each
\* has its turn (childmgr.c:460).
Progress == [](Waiting > 0 => <>(child = "run" \/ child = "exited"))

-----------------------------------------------------------------------------
(* The inductive invariant of the proofs: how the two indices, the count    *)
(* and the entries belong together at every step of the two tasks.          *)

\* Counted entries from readIndex on, and the one written but not counted.
Used == IF child = "release" THEN count - 1 ELSE count
Written == IF parent = "count" THEN Used + 1 ELSE Used

FlowOK ==
  /\ child # "exited" => semValid
  /\ parent \in {"write", "count"} => count < Entries
  /\ parent \in {"write", "count", "give"} => parentMsg \in Msgs
  /\ Begun => count > 0

RingOK ==
  /\ writeIndex = Nth(readIndex, Written)
  /\ \A n \in 0 .. Used - 1 : entry[Nth(readIndex, n)] \in Msgs
  /\ parent = "count" => entry[Nth(readIndex, Used)] = parentMsg

LoadedOK ==
  child = "store" /\ ~spoiled => loaded = IF valid THEN validCmdCnt ELSE invalidCmdCnt

IInv == TypeOK /\ FlowOK /\ TokensMatchCount /\ RingOK /\ LoadedOK /\ CountersExact
=============================================================================
