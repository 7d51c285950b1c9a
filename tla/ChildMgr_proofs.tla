--------------------------- MODULE ChildMgr_proofs ---------------------------
(***************************************************************************)
(* Proofs about ChildMgr for every number of entries, every set of         *)
(* commands and every width of the counters: the safety invariants that    *)
(* MCChildMgr checks, and that the ring, the count and the semaphore       *)
(* implement ChildQueue.  The inductive invariant is IInv of ChildMgr.     *)
(***************************************************************************)
EXTENDS ChildMgr, SequenceTheorems, TLAPS

-----------------------------------------------------------------------------
(* Positions of the ring.                                                  *)

\* Positions stay in the ring, and the next of the n-th is the n+1-st.
LEMMA NthFact ==
  ASSUME NEW i \in Idx, NEW n \in 0 .. Entries
  PROVE  /\ Nth(i, n) \in Idx
         /\ Nth(i, 0) = i
         /\ NextIndex(i) \in Idx
         /\ n < Entries => /\ Nth(NextIndex(i), n) = Nth(i, n + 1)
                           /\ NextIndex(Nth(i, n)) = Nth(i, n + 1)
BY ChildAssumption DEF Idx, Nth, NextIndex

\* Two positions less than a turn apart are two entries.
LEMMA NthDistinct ==
  ASSUME NEW i \in Idx, NEW m \in 0 .. Entries - 1, NEW n \in 0 .. Entries - 1, m # n
  PROVE  Nth(i, m) # Nth(i, n)
BY ChildAssumption DEF Idx, Nth

\* A remainder after at most one turn.
LEMMA ModFact ==
  ASSUME NEW n \in Nat, n < CntMod + CntMod
  PROVE  n % CntMod = IF n < CntMod THEN n ELSE n - CntMod
<1>1. CASE n < CntMod
  BY <1>1, ChildAssumption
<1>2. CASE n >= CntMod
  BY <1>2, ChildAssumption, n = CntMod * 1 + (n - CntMod)
<1> QED
  BY <1>1, <1>2, ChildAssumption

-----------------------------------------------------------------------------
(* The type invariant in three parts.                                      *)
TaskType ==
  /\ registered \in BOOLEAN /\ semValid \in BOOLEAN /\ tokens \in 0 .. Entries
  /\ parent \in ParentPcs /\ parentMsg \in Msgs \cup {NoMsg} /\ child \in ChildPcs

QueueType ==
  /\ entry \in [Idx -> Msgs \cup {NoMsg}]
  /\ writeIndex \in Idx /\ readIndex \in Idx /\ count \in 0 .. Entries

CounterType ==
  /\ validCmdCnt \in Cnt /\ invalidCmdCnt \in Cnt /\ loaded \in Cnt /\ valid \in BOOLEAN
  /\ returned \in Cnt /\ spoiled \in BOOLEAN

LEMMA TypeParts == TypeOK <=> TaskType /\ QueueType /\ CounterType
BY DEF TypeOK, TaskType, QueueType, CounterType

-----------------------------------------------------------------------------
(* Initial states.                                                         *)
LEMMA InitIInv == Init => IInv
<1> SUFFICES ASSUME Init PROVE IInv
    OBVIOUS
<1> USE ChildAssumption DEF Init
<1>0. /\ registered \in BOOLEAN /\ semValid \in BOOLEAN
      /\ valid \in BOOLEAN /\ spoiled \in BOOLEAN
  OBVIOUS
<1>1. TaskType
  <2>1. tokens \in 0 .. Entries
    OBVIOUS
  <2> QED
    BY <1>0, <2>1 DEF TaskType, ParentPcs, ChildPcs
<1>2. QueueType
  BY DEF QueueType, Idx
<1>3. CounterType
  <2>1. 0 \in Cnt
    BY DEF Cnt
  <2> QED
    BY <1>0, <2>1 DEF CounterType
<1>4. FlowOK /\ TokensMatchCount /\ LoadedOK
  BY DEF FlowOK, TokensMatchCount, LoadedOK, Waiting, Begun
<1>5. RingOK
  BY DEF RingOK, Nth, Used, Written
<1>6. CountersExact
  BY ModFact DEF CountersExact
<1> QED
  BY <1>1, <1>2, <1>3, <1>4, <1>5, <1>6, TypeParts DEF IInv

-----------------------------------------------------------------------------
(* Steps: the tasks and the semaphore.                                     *)

\* The steps of the parent and of the child, apart.
LEMMA Steps ==
  ASSUME Next
  PROVE  \/ RegChildMgrInstance \/ WriteEntry \/ CountEntry \/ GiveSemaphore \/ ResetStatus
         \/ \E m \in Msgs : InvokeChildCmd(m)
         \/ ChildStart \/ TakeSemaphore \/ LeaveLoop \/ CallHandler
         \/ \E ok \in BOOLEAN : HandlerReturns(ok)
         \/ StoreCounter \/ ReleaseEntry
BY DEF Next, ParentStep, ChildStep, Handled

\* The semaphore never holds more tokens than there are commands, because it
\* is given once per counted command.
LEMMA StepTask ==
  ASSUME IInv, [Next]_vars
  PROVE  TaskType' /\ FlowOK' /\ TokensMatchCount'
<1> USE ChildAssumption
        DEF IInv, TypeOK, FlowOK, TokensMatchCount, TaskType, Waiting, Begun, ParentPcs, ChildPcs
<1>1. CASE RegChildMgrInstance
  BY <1>1 DEF RegChildMgrInstance, queue, counters
<1>2. CASE WriteEntry
  BY <1>2 DEF WriteEntry, queue, counters
<1>3. CASE CountEntry
  BY <1>3 DEF CountEntry, queue, counters
<1>4. CASE GiveSemaphore
  BY <1>4 DEF GiveSemaphore, Given, queue, counters
<1>5. CASE ResetStatus
  BY <1>5 DEF ResetStatus, queue, counters
<1>6. ASSUME NEW m \in Msgs, InvokeChildCmd(m)
      PROVE  TaskType' /\ FlowOK' /\ TokensMatchCount'
  BY <1>6 DEF InvokeChildCmd, Accepts, queue, counters
<1>7. CASE ChildStart
  BY <1>7 DEF ChildStart, queue, counters
<1>8. CASE TakeSemaphore
  BY <1>8 DEF TakeSemaphore, queue, counters
<1>9. CASE LeaveLoop
  BY <1>9 DEF LeaveLoop, queue, counters
<1>10. CASE CallHandler
  BY <1>10 DEF CallHandler, queue, counters
<1>11. ASSUME NEW ok \in BOOLEAN, HandlerReturns(ok)
       PROVE  TaskType' /\ FlowOK' /\ TokensMatchCount'
  BY <1>11 DEF HandlerReturns, queue, counters
<1>12. CASE StoreCounter
  BY <1>12 DEF StoreCounter, queue, counters
<1>13. CASE ReleaseEntry
  BY <1>13 DEF ReleaseEntry, queue, counters
<1>14. CASE UNCHANGED vars
  BY <1>14 DEF vars, queue, counters
<1> QED
  BY <1>1, <1>2, <1>3, <1>4, <1>5, <1>6, <1>7, <1>8, <1>9, <1>10, <1>11, <1>12, <1>13, <1>14,
     Steps

-----------------------------------------------------------------------------
(* Steps: the ring.                                                        *)
LEMMA StepRing ==
  ASSUME IInv, [Next]_vars
  PROVE  QueueType' /\ RingOK'
<1>0. /\ QueueType /\ RingOK /\ FlowOK /\ child \in ChildPcs /\ parent \in ParentPcs
      /\ parentMsg \in Msgs \cup {NoMsg} /\ Used \in 0 .. Entries
      /\ Used = Entries => parent # "count"
  BY ChildAssumption
     DEF IInv, TypeOK, QueueType, FlowOK, Used, Begun
<1> USE ChildAssumption DEF ParentPcs, ChildPcs
<1>1. CASE UNCHANGED <<queue>> /\ (child = "release") = (child' = "release")
           /\ (parent = "count") = (parent' = "count") /\ (parent = "count" => UNCHANGED parentMsg)
  BY <1>0, <1>1 DEF QueueType, RingOK, Used, Written, queue, Nth, Idx
<1>2. CASE WriteEntry
  <2>1. /\ Used' = Used /\ Written = Used /\ Written' = Used + 1 /\ Used < Entries
        /\ readIndex' = readIndex /\ writeIndex' = NextIndex(writeIndex) /\ parentMsg' = parentMsg
        /\ entry' = [entry EXCEPT ![writeIndex] = parentMsg] /\ writeIndex = Nth(readIndex, Used)
    BY <1>0, <1>2 DEF WriteEntry, RingOK, Used, Written, FlowOK, QueueType
  <2>2. QueueType'
    BY <1>0, <1>2, <2>1, NthFact DEF WriteEntry, QueueType
  <2>3. writeIndex' = Nth(readIndex, Used + 1)
    BY <1>0, <2>1, NthFact DEF QueueType
  <2>4. entry'[Nth(readIndex, Used)] = parentMsg
    BY <1>0, <2>1 DEF QueueType
  <2>5. ASSUME NEW n \in 0 .. Used - 1
        PROVE  entry'[Nth(readIndex, n)] \in Msgs
    <3>1. Nth(readIndex, n) \in Idx /\ Nth(readIndex, n) # writeIndex
      BY <1>0, <2>1, NthFact, NthDistinct DEF QueueType
    <3> QED
      BY <1>0, <2>1, <3>1 DEF QueueType, RingOK
  <2> QED
    BY <1>0, <2>1, <2>2, <2>3, <2>4, <2>5 DEF RingOK
<1>3. CASE CountEntry
  BY <1>0, <1>3, NthFact, NthDistinct DEF CountEntry, QueueType, RingOK, Used, Written, FlowOK
<1>4. CASE StoreCounter
  BY <1>0, <1>4, NthFact, NthDistinct DEF StoreCounter, QueueType, RingOK, Used, Written, FlowOK, Begun
<1>5. CASE ReleaseEntry
  BY <1>0, <1>5, NthFact DEF ReleaseEntry, QueueType, RingOK, Used, Written, FlowOK, Begun
<1>6. ASSUME NEW m \in Msgs, InvokeChildCmd(m)
      PROVE  QueueType' /\ RingOK'
  BY <1>1, <1>6 DEF InvokeChildCmd
<1>7. ASSUME NEW ok \in BOOLEAN, HandlerReturns(ok)
      PROVE  QueueType' /\ RingOK'
  BY <1>1, <1>7 DEF HandlerReturns
<1>8. CASE RegChildMgrInstance \/ GiveSemaphore \/ ResetStatus
  BY <1>1, <1>8 DEF RegChildMgrInstance, GiveSemaphore, ResetStatus
<1>9. CASE ChildStart \/ TakeSemaphore \/ LeaveLoop \/ CallHandler
  BY <1>1, <1>9 DEF ChildStart, TakeSemaphore, LeaveLoop, CallHandler
<1>10. CASE UNCHANGED vars
  BY <1>1, <1>10 DEF vars
<1> QED
  BY <1>2, <1>3, <1>4, <1>5, <1>6, <1>7, <1>8, <1>9, <1>10, Steps

-----------------------------------------------------------------------------
(* Steps: the counters.                                                    *)

\* Both counters' sum and the returned commands advance together, also where
\* one of them wraps.
LEMMA AddOne ==
  ASSUME NEW a \in Cnt, NEW b \in Cnt
  PROVE  /\ (a + 1) % CntMod \in Cnt
         /\ (((a + 1) % CntMod) + b) % CntMod = (((a + b) % CntMod) + 1) % CntMod
<1> USE ChildAssumption DEF Cnt
<1> DEFINE s == (a + b) % CntMod
<1>1. (a + 1) % CntMod = IF a + 1 < CntMod THEN a + 1 ELSE 0
  BY ModFact
<1>2. s = IF a + b < CntMod THEN a + b ELSE a + b - CntMod
  BY ModFact
<1>3. s \in Cnt
  BY <1>2
<1>4. (s + 1) % CntMod = IF s + 1 < CntMod THEN s + 1 ELSE 0
  BY <1>3, ModFact
<1>5. CASE a + 1 < CntMod
  <2>1. (a + 1 + b) % CntMod = IF a + 1 + b < CntMod THEN a + 1 + b ELSE a + 1 + b - CntMod
    BY <1>5, ModFact
  <2> QED
    BY <1>1, <1>2, <1>4, <1>5, <2>1
<1>6. CASE a + 1 = CntMod
  <2>1. b % CntMod = b
    BY ModFact
  <2> QED
    BY <1>1, <1>2, <1>4, <1>6, <2>1
<1> QED
  BY <1>1, <1>5, <1>6

LEMMA StepCounters ==
  ASSUME IInv, [Next]_vars
  PROVE  CounterType' /\ LoadedOK' /\ CountersExact'
<1>0. CounterType /\ LoadedOK /\ CountersExact /\ child \in ChildPcs
  BY DEF IInv, TypeOK, CounterType
<1>1. ASSUME UNCHANGED counters, child' = "store" => child = "store"
      PROVE  CounterType' /\ LoadedOK' /\ CountersExact'
  BY <1>0, <1>1 DEF CounterType, LoadedOK, CountersExact, counters
<1>2. CASE ResetStatus
  <2>1. 0 \in Cnt /\ (0 + 0) % CntMod = 0
    BY ChildAssumption, ModFact DEF Cnt
  <2>2. spoiled' \in BOOLEAN /\ (spoiled' <=> child = "store")
    BY <1>2 DEF ResetStatus
  <2> QED
    BY <1>0, <1>2, <2>1, <2>2 DEF ResetStatus, CounterType, LoadedOK, CountersExact
<1>3. ASSUME NEW ok \in BOOLEAN, HandlerReturns(ok)
      PROVE  CounterType' /\ LoadedOK' /\ CountersExact'
  <2>1. loaded' \in Cnt /\ valid' \in BOOLEAN
    BY <1>0, <1>3 DEF HandlerReturns, CounterType
  <2> QED
    BY <1>0, <1>3, <2>1 DEF HandlerReturns, CounterType, LoadedOK, CountersExact
<1>4. CASE StoreCounter
  <2>1. /\ (loaded + 1) % CntMod \in Cnt /\ (returned + 1) % CntMod \in Cnt
    BY <1>0, AddOne DEF CounterType
  <2>2. CounterType'
    BY <1>0, <1>4, <2>1 DEF StoreCounter, CounterType
  <2>3. LoadedOK'
    BY <1>4 DEF StoreCounter, LoadedOK
  <2>4. ASSUME ~spoiled, valid
        PROVE  (validCmdCnt' + invalidCmdCnt') % CntMod = returned'
    <3>1. loaded = validCmdCnt /\ (validCmdCnt + invalidCmdCnt) % CntMod = returned
      BY <1>0, <1>4, <2>4 DEF StoreCounter, LoadedOK, CountersExact
    <3> QED
      BY <1>0, <1>4, <2>4, <3>1, AddOne DEF StoreCounter, CounterType
  <2>5. ASSUME ~spoiled, ~valid
        PROVE  (validCmdCnt' + invalidCmdCnt') % CntMod = returned'
    <3>1. loaded = invalidCmdCnt /\ (validCmdCnt + invalidCmdCnt) % CntMod = returned
      BY <1>0, <1>4, <2>5 DEF StoreCounter, LoadedOK, CountersExact
    <3>2. /\ validCmdCnt + invalidCmdCnt = invalidCmdCnt + validCmdCnt
          /\ validCmdCnt' + invalidCmdCnt' = invalidCmdCnt' + validCmdCnt'
      BY <1>0, <2>2 DEF CounterType, Cnt
    <3> QED
      BY <1>0, <1>4, <2>5, <3>1, <3>2, AddOne DEF StoreCounter, CounterType
  <2> QED
    BY <1>4, <2>2, <2>3, <2>4, <2>5 DEF StoreCounter, CountersExact
<1>5. CASE RegChildMgrInstance \/ WriteEntry \/ CountEntry \/ GiveSemaphore
  BY <1>1, <1>5 DEF RegChildMgrInstance, WriteEntry, CountEntry, GiveSemaphore
<1>6. ASSUME NEW m \in Msgs, InvokeChildCmd(m)
      PROVE  CounterType' /\ LoadedOK' /\ CountersExact'
  BY <1>1, <1>6 DEF InvokeChildCmd
<1>7. CASE ChildStart \/ TakeSemaphore \/ LeaveLoop \/ CallHandler \/ ReleaseEntry
  BY <1>1, <1>7 DEF ChildStart, TakeSemaphore, LeaveLoop, CallHandler, ReleaseEntry
<1>8. CASE UNCHANGED vars
  BY <1>1, <1>8 DEF vars
<1> QED
  BY <1>2, <1>3, <1>4, <1>5, <1>6, <1>7, <1>8, Steps

-----------------------------------------------------------------------------
(* The invariants.                                                         *)
LEMMA StepIInv == IInv /\ [Next]_vars => IInv'
<1> SUFFICES ASSUME IInv, [Next]_vars PROVE IInv'
    OBVIOUS
<1>1. TaskType' /\ FlowOK' /\ TokensMatchCount'
  BY StepTask
<1>2. QueueType' /\ RingOK'
  BY StepRing
<1>3. CounterType' /\ LoadedOK' /\ CountersExact'
  BY StepCounters
<1>4. TypeOK'
  BY <1>1, <1>2, <1>3 DEF TypeOK, TaskType, QueueType, CounterType
<1> QED
  BY <1>1, <1>2, <1>3, <1>4 DEF IInv

\* In every reachable state the parts of the ring belong together.
THEOREM Inductive == Spec => []IInv
<1>1. Init => IInv
  BY InitIInv
<1>2. IInv /\ [Next]_vars => IInv'
  BY StepIInv
<1> QED
  BY <1>1, <1>2, PTL DEF Spec

\* The indices stay in the ring and the count within its bound, although the
\* two tasks change them without a common lock, for every number of entries
\* (childmgr.c:225 and 567).
THEOREM TypeCorrect == Spec => []TypeOK
<1>1. IInv => TypeOK
  BY DEF IInv
<1> QED
  BY <1>1, Inductive, PTL

\* The semaphore holds a token for every command that waits, so none is left
\* behind in a queue whose child sleeps (childmgr.c:237 and 244).
THEOREM TokensCorrect == Spec => []TokensMatchCount
<1>1. IInv => TokensMatchCount
  BY DEF IInv
<1> QED
  BY <1>1, Inductive, PTL

\* The child finds a command and a good index whenever it is woken, so the
\* tests that would end its loop never hold (childmgr.c:467 and 476).
THEOREM WakeCorrect == Spec => []NeverWokenInVain
<1>1. IInv => NeverWokenInVain
  <2> SUFFICES ASSUME IInv, child = "check"
               PROVE  count # 0 /\ readIndex < Entries
    BY DEF NeverWokenInVain
  <2>1. semValid /\ tokens \in 0 .. Entries /\ count \in 0 .. Entries /\ readIndex \in Idx
    BY DEF IInv, FlowOK, TypeOK
  <2>2. tokens + 1 + (IF parent = "give" THEN 1 ELSE 0) = count
    BY <2>1 DEF IInv, TokensMatchCount, Waiting, Begun
  <2> QED
    BY <2>1, <2>2, ChildAssumption DEF Idx
<1> QED
  BY <1>1, Inductive, PTL

\* All three together: the ring is sound at every access of the two tasks.
THEOREM StateCorrect == Spec => []StateOK
BY TypeCorrect, TokensCorrect, WakeCorrect, PTL DEF StateOK

\* The two counters add up to the commands that returned since the last reset,
\* modulo their width, unless the reset fell into an increment
\* (childmgr.c:365 and 554).
THEOREM CountersCorrect == Spec => []CountersExact
<1>1. IInv => CountersExact
  BY DEF IInv
<1> QED
  BY <1>1, Inductive, PTL

-----------------------------------------------------------------------------
(* Refinement: the ring is the queue of ChildQueue.                        *)

\* The n-th command that waits, from 0.
At(n) == entry[Nth(FirstWaiting, n)]

\* What waits is a sequence of commands.
LEMMA PendingFact ==
  ASSUME IInv
  PROVE  /\ Waiting \in 0 .. Entries /\ FirstWaiting \in Idx
         /\ \A n \in 0 .. Waiting - 1 : At(n) \in Msgs
         /\ PendingNow = [n \in 1 .. Waiting |-> At(n - 1)]
         /\ PendingNow \in Seq(Msgs) /\ Len(PendingNow) = Waiting
<1> USE ChildAssumption
<1>1. /\ count \in 0 .. Entries /\ readIndex \in Idx /\ child \in ChildPcs
      /\ Begun => count > 0
      /\ \A n \in 0 .. Used - 1 : entry[Nth(readIndex, n)] \in Msgs
  BY DEF IInv, TypeOK, FlowOK, RingOK
<1>2. Waiting \in 0 .. Entries /\ FirstWaiting \in Idx
  BY <1>1, NthFact DEF Waiting, FirstWaiting, Begun
<1>3. \A n \in 0 .. Waiting - 1 : At(n) \in Msgs
  <2>1. CASE child \in {"run", "store"}
    <3>1. Used = Waiting + 1 /\ FirstWaiting = NextIndex(readIndex)
      BY <1>1, <2>1 DEF Used, Waiting, FirstWaiting, Begun
    <3>2. ASSUME NEW n \in 0 .. Waiting - 1
          PROVE  At(n) = entry[Nth(readIndex, n + 1)] /\ n + 1 \in 0 .. Used - 1
      BY <1>1, <1>2, <3>1, NthFact DEF At
    <3> QED
      BY <1>1, <3>2
  <2>2. CASE child \notin {"run", "store"}
    BY <1>1, <2>2 DEF Used, Waiting, FirstWaiting, Begun, At
  <2> QED
    BY <2>1, <2>2
<1>4. PendingNow = [n \in 1 .. Waiting |-> At(n - 1)]
  BY DEF PendingNow, At
<1>5. PendingNow \in [1 .. Waiting -> Msgs]
  BY <1>2, <1>3, <1>4
<1>6. PendingNow \in Seq(Msgs) /\ Len(PendingNow) = Waiting
  BY <1>2, <1>5, LenProperties, SeqDef
<1> QED
  BY <1>2, <1>3, <1>4, <1>6

\* The ring may move and entries be reused as long as what waits is the same.
LEMMA SamePending ==
  ASSUME IInv, Waiting' = Waiting, \A n \in 0 .. Waiting - 1 : At(n)' = At(n)
  PROVE  PendingNow' = PendingNow
<1>1. PendingNow' = [n \in 1 .. Waiting |-> At(n - 1)']
  BY DEF PendingNow, At
<1>2. \A n \in 1 .. Waiting : n - 1 \in 0 .. Waiting - 1
  BY PendingFact
<1> QED
  BY <1>1, <1>2, PendingFact

\* A command counted by the parent is accepted, the first that waits is the
\* one the child begins with, and a handler that returns ends it; everything
\* else the two tasks do leaves the queue as it is.
LEMMA StepQueue ==
  ASSUME IInv, IInv', [Next]_vars
  PROVE  [CQ!QueueNext]_(CQ!queueVars)
<1> USE ChildAssumption
<1> DEFINE Stays == PendingNow' = PendingNow /\ RunningNow' = RunningNow
<1>0. /\ Waiting \in 0 .. Entries /\ FirstWaiting \in Idx
      /\ PendingNow \in Seq(Msgs) /\ Len(PendingNow) = Waiting
      /\ count \in 0 .. Entries /\ readIndex \in Idx /\ writeIndex \in Idx
      /\ child \in ChildPcs /\ parent \in ParentPcs /\ (Begun => count > 0)
      /\ entry \in [Idx -> Msgs \cup {NoMsg}]
  BY PendingFact DEF IInv, TypeOK, FlowOK
<1>1. ASSUME UNCHANGED <<queue>>, child = child' \/ {child, child'} \cap {"run", "store", "release"} = {}
      PROVE  Stays
  <2>1. Waiting' = Waiting /\ FirstWaiting' = FirstWaiting /\ entry' = entry
    BY <1>1 DEF Waiting, FirstWaiting, Begun, queue
  <2>2. RunningNow' = RunningNow
    BY <1>1 DEF RunningNow, queue
  <2> QED
    BY <2>1, <2>2 DEF PendingNow
<1>2. ASSUME WriteEntry PROVE Stays
  <2>1. /\ entry' = [entry EXCEPT ![writeIndex] = parentMsg] /\ UNCHANGED <<readIndex, count, child>>
        /\ writeIndex = Nth(readIndex, Used) /\ count < Entries
    BY <1>2 DEF WriteEntry, IInv, RingOK, FlowOK, Written
  <2>2. Waiting' = Waiting /\ FirstWaiting' = FirstWaiting
    BY <2>1 DEF Waiting, FirstWaiting, Begun
  <2>3. ASSUME NEW k \in 0 .. Used - 1
        PROVE  entry'[Nth(readIndex, k)] = entry[Nth(readIndex, k)]
    <3>1. Used \in 0 .. Entries - 1
      BY <1>0, <2>1 DEF Used, Begun
    <3>2. Nth(readIndex, k) # writeIndex
      BY <1>0, <2>1, <3>1, NthDistinct
    <3> QED
      BY <1>0, <2>1, <3>2
  <2>4. ASSUME NEW n \in 0 .. Waiting - 1
        PROVE  At(n)' = At(n)
    <3>1. CASE child \in {"run", "store"}
      <4>1. n + 1 \in 0 .. Used - 1 /\ Nth(FirstWaiting, n) = Nth(readIndex, n + 1)
        BY <1>0, <3>1, NthFact DEF Used, Waiting, FirstWaiting, Begun
      <4> QED
        BY <2>2, <2>3, <4>1 DEF At
    <3>2. CASE child \notin {"run", "store"}
      <4>1. n \in 0 .. Used - 1 /\ FirstWaiting = readIndex
        BY <1>0, <3>2 DEF Used, Waiting, FirstWaiting, Begun
      <4> QED
        BY <2>2, <2>3, <4>1 DEF At
    <3> QED
      BY <3>1, <3>2
  <2>5. RunningNow' = RunningNow
    <3>1. CASE child = "run"
      <4>1. 0 \in 0 .. Used - 1 /\ Nth(readIndex, 0) = readIndex
        BY <1>0, <3>1, NthFact DEF Used, Begun
      <4> QED
        BY <2>1, <2>3, <3>1, <4>1 DEF RunningNow
    <3> QED
      BY <2>1, <3>1 DEF RunningNow
  <2> QED
    BY <2>2, <2>4, <2>5, SamePending
<1>3. ASSUME CountEntry PROVE CQ!Accept(parentMsg) /\ parentMsg \in Msgs
  <2>1. /\ count' = count + 1 /\ UNCHANGED <<entry, readIndex, child>> /\ count < Entries
        /\ parentMsg \in Msgs /\ entry[Nth(readIndex, Used)] = parentMsg
    BY <1>3 DEF CountEntry, IInv, FlowOK, RingOK
  <2>2. Waiting' = Waiting + 1 /\ FirstWaiting' = FirstWaiting /\ RunningNow' = RunningNow
    BY <1>0, <2>1 DEF Waiting, FirstWaiting, Begun, RunningNow
  <2>3. At(Waiting) = parentMsg
    <3>1. CASE child \in {"run", "store"}
      BY <1>0, <2>1, <3>1, NthFact DEF Used, Waiting, FirstWaiting, Begun, At
    <3>2. CASE child \notin {"run", "store"}
      BY <1>0, <2>1, <3>2 DEF Used, Waiting, FirstWaiting, Begun, At
    <3> QED
      BY <3>1, <3>2
  <2>4. PendingNow' = [n \in 1 .. Waiting + 1 |-> At(n - 1)]
    BY <2>1, <2>2 DEF PendingNow, At
  <2>5. PendingNow' = Append(PendingNow, parentMsg)
    <3>1. PendingNow = [n \in 1 .. Waiting |-> At(n - 1)]
      BY PendingFact
    <3> QED
      BY <1>0, <2>3, <2>4, <3>1
  <2>6. Len(PendingNow) + (IF RunningNow = NoMsg THEN 0 ELSE 1) < Entries
    BY <1>0, <2>1 DEF Waiting, RunningNow, Begun
  <2> QED
    BY <2>1, <2>2, <2>5, <2>6 DEF CQ!Accept
<1>4. ASSUME CallHandler PROVE CQ!Begin
  <2>1. /\ child = "check" /\ child' = "run" /\ count > 0 /\ UNCHANGED <<entry, readIndex, count>>
    BY <1>0, <1>4 DEF CallHandler, queue
  <2>2. /\ Waiting' = Waiting - 1 /\ Waiting > 0 /\ FirstWaiting = readIndex
        /\ FirstWaiting' = NextIndex(readIndex)
    BY <1>0, <2>1 DEF Waiting, FirstWaiting, Begun
  <2>3. ASSUME NEW n \in 0 .. Waiting - 2
        PROVE  At(n)' = At(n + 1)
    BY <1>0, <2>1, <2>2, NthFact DEF At
  <2>4. PendingNow' = [n \in 1 .. Waiting - 1 |-> At(n)]
    <3>1. PendingNow' = [n \in 1 .. Waiting - 1 |-> At(n - 1)']
      BY <2>2 DEF PendingNow, At
    <3>2. \A n \in 1 .. Waiting - 1 : At(n - 1)' = At(n)
      BY <1>0, <2>3
    <3> QED
      BY <3>1, <3>2
  <2>5. PendingNow = [n \in 1 .. Waiting |-> At(n - 1)]
    BY PendingFact
  <2>6. PendingNow # <<>> /\ Head(PendingNow) = At(0)
    BY <1>0, <2>2, <2>5
  <2>7. PendingNow' = Tail(PendingNow)
    BY <1>0, <2>2, <2>4, <2>5
  <2>8. RunningNow = NoMsg /\ RunningNow' = At(0)
    BY <1>0, <2>1, <2>2, NthFact DEF RunningNow, At
  <2> QED
    BY <2>6, <2>7, <2>8 DEF CQ!Begin
<1>5. ASSUME NEW ok \in BOOLEAN, HandlerReturns(ok) PROVE CQ!End
  <2>1. child = "run" /\ child' = "store" /\ UNCHANGED <<entry, readIndex, count>>
    BY <1>5 DEF HandlerReturns, queue
  <2>2. Waiting' = Waiting /\ FirstWaiting' = FirstWaiting
    BY <2>1 DEF Waiting, FirstWaiting, Begun
  <2>3. PendingNow' = PendingNow
    BY <2>1, <2>2 DEF PendingNow
  <2>4. RunningNow # NoMsg /\ RunningNow' = NoMsg
    <3>1. 0 \in 0 .. Used - 1 /\ Nth(readIndex, 0) = readIndex
      BY <1>0, <2>1, NthFact DEF Used, Begun
    <3>2. entry[readIndex] \in Msgs
      BY <3>1 DEF IInv, RingOK
    <3> QED
      BY <2>1, <3>2 DEF RunningNow
  <2> QED
    BY <2>3, <2>4 DEF CQ!End
<1>6. ASSUME StoreCounter PROVE Stays
  <2>1. /\ child = "store" /\ child' = "release" /\ UNCHANGED <<entry, count>>
        /\ readIndex' = NextIndex(readIndex)
    BY <1>6 DEF StoreCounter
  <2>2. Waiting' = Waiting /\ FirstWaiting' = FirstWaiting /\ RunningNow' = RunningNow
    BY <2>1 DEF Waiting, FirstWaiting, Begun, RunningNow
  <2> QED
    BY <2>1, <2>2 DEF PendingNow
<1>7. ASSUME ReleaseEntry PROVE Stays
  <2>1. /\ child = "release" /\ child' = "pend" /\ UNCHANGED <<entry, readIndex>>
        /\ count' = count - 1
    BY <1>7 DEF ReleaseEntry
  <2>2. Waiting' = Waiting /\ FirstWaiting' = FirstWaiting /\ RunningNow' = RunningNow
    BY <2>1 DEF Waiting, FirstWaiting, Begun, RunningNow
  <2> QED
    BY <2>1, <2>2 DEF PendingNow
<1>8. ASSUME RegChildMgrInstance \/ GiveSemaphore \/ ResetStatus PROVE Stays
  BY <1>1, <1>8 DEF RegChildMgrInstance, GiveSemaphore, ResetStatus
<1>9. ASSUME NEW m \in Msgs, InvokeChildCmd(m) PROVE Stays
  BY <1>1, <1>9 DEF InvokeChildCmd
<1>10. ASSUME ChildStart \/ TakeSemaphore \/ LeaveLoop PROVE Stays
  BY <1>1, <1>10 DEF ChildStart, TakeSemaphore, LeaveLoop
<1>11. ASSUME UNCHANGED vars PROVE Stays
  BY <1>1, <1>11 DEF vars
<1> QED
  BY <1>2, <1>3, <1>4, <1>5, <1>6, <1>7, <1>8, <1>9, <1>10, <1>11, Steps
     DEF CQ!QueueNext, CQ!queueVars

\* Commands are run one at a time, in the order they were accepted, each once,
\* for every number of entries and under every interleaving of the two tasks
\* (childmgr.c:225 and 567).
THEOREM QueueCorrect == Spec => ImplementsQueue
<1>1. Init => CQ!QueueInit
  <2> SUFFICES ASSUME Init PROVE CQ!QueueInit
    OBVIOUS
  <2>1. Waiting = 0 /\ RunningNow = NoMsg
    BY DEF Init, Waiting, Begun, RunningNow
  <2>2. PendingNow = <<>>
    BY <2>1 DEF PendingNow
  <2> QED
    BY <2>1, <2>2 DEF CQ!QueueInit
<1>2. IInv /\ IInv' /\ [Next]_vars => [CQ!QueueNext]_(CQ!queueVars)
  BY StepQueue
<1> QED
  BY <1>1, <1>2, Inductive, PTL DEF Spec, ImplementsQueue, CQ!QueueSpec

=============================================================================
