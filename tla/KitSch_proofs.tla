---------------------------- MODULE KitSch_proofs ----------------------------
(***************************************************************************)
(* Proofs about the KIT_SCH app.                                           *)
(*                                                                         *)
(* Scheduler, for every table size, limit and width, and every environment *)
(* in which a timer callback runs to its end: the slot stays in the table  *)
(* and the timer never stops (inductive invariant IInv); in a steady       *)
(* environment that is not too late, every slot is processed in its minor  *)
(* frame (StepInv).                                                        *)
(*                                                                         *)
(* SchTables, for tables, files, bytes and pass counters of any size: what *)
(* loads and dumps do to the tables, and when an activity is sent          *)
(* (TblInv).                                                               *)
(***************************************************************************)
EXTENDS Scheduler, SchTables, SequenceTheorems, WellFoundedInduction, TLAPS

\* No scenario lets another context run inside a timer callback.
RunToEnd == \A s \in Scenarios : s.preempt = FALSE

-----------------------------------------------------------------------------
(* The slot arithmetic.                                                    *)

\* The count of a wakeup never wraps.
LEMMA RawFact ==
  ASSUME TypeOK, NEW cur \in 0 .. SLOTS - 1
  PROVE  RawCount(cur) = IF cur < nextSlot THEN SLOTS - nextSlot + cur + 1 ELSE cur - nextSlot + 1
<1> DEFINE raw == IF cur < nextSlot THEN SLOTS - nextSlot + cur + 1 ELSE cur - nextSlot + 1
<1>1. \A m \in Nat : m < CountMod => m % CountMod = m
  BY SlotsAssumption
<1>2. raw \in Nat /\ raw < CountMod
  BY SlotsAssumption DEF TypeOK, SlotInTable
<1> QED
  BY <1>1, <1>2 DEF RawCount

\* A wakeup counts one slot up to a whole table.
LEMMA CountFact ==
  ASSUME TypeOK, pc = "idle"
  PROVE  LET cur == CurrentSlot
             n   == Wanted(Smoothed(RawCount(cur)))
         IN  /\ cur \in 0 .. SLOTS - 1
             /\ RawCount(cur) \in 1 .. SLOTS
             /\ n \in 0 .. SLOTS - 1
<1> DEFINE cur == CurrentSlot
           raw == IF cur < nextSlot THEN SLOTS - nextSlot + cur + 1 ELSE cur - nextSlot + 1
<1> USE SlotsAssumption
<1>1. cur \in 0 .. SLOTS - 1
  BY DEF CurrentSlot, TypeOK, SyncSlot
<1>2. raw \in 1 .. SLOTS
  BY <1>1 DEF TypeOK, SlotInTable
<1>3. RawCount(cur) = raw
  BY <1>1, RawFact
<1>4. Smoothed(raw) \in 1 .. SLOTS
  BY <1>2 DEF Smoothed
<1>5. Wanted(Smoothed(raw)) \in 0 .. SLOTS - 1
  BY <1>4 DEF Wanted
<1> QED
  BY <1>1, <1>2, <1>3, <1>5

\* Less than a table of slots from a slot of the table ends in the table.
LEMMA AfterFact ==
  ASSUME NEW s \in 0 .. SLOTS - 1, NEW n \in 0 .. SLOTS - 1
  PROVE  After(s, n) \in 0 .. SLOTS - 1 /\ PassesCompleted(s, n) \in {0, 1}
BY SlotsAssumption DEF After, PassesCompleted

LEMMA PassFact ==
  ASSUME NEW n \in Int
  PROVE  n % PassMod \in 0 .. PassMod - 1
BY SlotsAssumption

-----------------------------------------------------------------------------
(* Initial states and steps.                                               *)

LEMMA InitIInv == RunToEnd /\ Init => IInv
<1> SUFFICES ASSUME RunToEnd, Init PROVE IInv
    OBVIOUS
<1> USE SlotsAssumption DEF Init
<1>1. TypeOK
  <2>1. minorFrames \in 0 .. SyncSlot /\ SlotInTable /\ passes \in 0 .. PassMod - 1
    BY DEF SyncSlot, SlotInTable
  <2>2. ignore \in BOOLEAN /\ awake \in BOOLEAN /\ pc = "idle"
    OBVIOUS
  <2>3. /\ lastSync \in 0 .. SLOTS - 1 /\ attempts \in 0 .. MaxAttempts
        /\ noisy \in 0 .. MaxNoisy /\ lastCount \in 0 .. SLOTS
        /\ reg \in 0 .. SyncSlot /\ met \in 0 .. SLOTS - 1
    BY DEF SyncSlot
  <2>4. /\ sync \subseteq {"minor", "pending", "major"} /\ scenario \in Scenarios
        /\ source \in {"none", "cfe_time", "timer"}
        /\ timer \in {"startup", "normal", "long", "short", "off"} /\ sem \in {0, 1}
    OBVIOUS
  <2> QED
    BY <2>1, <2>2, <2>3, <2>4 DEF TypeOK
<1>2. TimerRuns /\ TimerOK /\ ~scenario.preempt
  BY DEF TimerRuns, TimerOK, RunToEnd
<1>3. CountsOK
  BY DEF CountsOK, Pending
<1> QED
  BY <1>1, <1>2, <1>3 DEF IInv, StateOK

LEMMA ToneStep ==
  ASSUME IInv, MajorFrameCallback
  PROVE  IInv'
<1> USE SlotsAssumption DEF MajorFrameCallback
<1>1. TypeOK /\ pc = "idle" /\ pc' = "idle" /\ (~ignore => noisy < MaxNoisy)
  BY DEF IInv, StateOK, MayRun, CountsOK
<1>2. CASE UNCHANGED <<noisy, ignore, timer, minorFrames, source, sync, sem, behind, lead>>
  <2>1. TypeOK'
    BY <1>1, <1>2 DEF TypeOK, taskVars, SlotInTable, SyncSlot
  <2>2. TimerRuns' /\ TimerOK' /\ CountsOK' /\ ~scenario'.preempt
    BY <1>1, <1>2 DEF IInv, StateOK, TimerRuns, TimerOK, CountsOK, Pending
  <2> QED
    BY <2>1, <2>2 DEF IInv, StateOK
<1>3. ASSUME JudgeTone
      PROVE  /\ ignore' \in BOOLEAN /\ noisy' \in 0 .. MaxNoisy
             /\ ~ignore' => noisy' < MaxNoisy
  <2>1. CASE Noisy /\ ignore
    BY <1>1, <1>3, <2>1 DEF JudgeTone, TypeOK
  <2>2. CASE Noisy /\ ~ignore
    <3>1. noisy' = noisy + 1 /\ ignore' = TooNoisy
      BY <1>3, <2>2 DEF JudgeTone
    <3>2. TooNoisy \in BOOLEAN
      BY DEF TooNoisy
    <3>3. noisy + 1 \in 0 .. MaxNoisy /\ (~TooNoisy => noisy + 1 < MaxNoisy)
      <4>1. noisy \in 0 .. MaxNoisy /\ noisy < MaxNoisy
        BY <1>1, <2>2 DEF TypeOK
      <4> QED
        BY <4>1 DEF TooNoisy
    <3> QED
      BY <3>1, <3>2, <3>3
  <2>3. CASE ~Noisy
    BY <1>1, <1>3, <2>3 DEF JudgeTone, TypeOK
  <2> QED
    BY <2>1, <2>2, <2>3
<1>4. CASE JudgeTone /\ ignore' /\ UNCHANGED <<timer, minorFrames, source, sync, sem, behind, lead>>
  <2>1. TypeOK'
    BY <1>1, <1>3, <1>4 DEF TypeOK, taskVars, SlotInTable, SyncSlot
  <2>2. TimerRuns' /\ TimerOK' /\ CountsOK' /\ ~scenario'.preempt
    BY <1>1, <1>3, <1>4 DEF IInv, StateOK, TimerRuns, TimerOK, CountsOK, Pending
  <2> QED
    BY <2>1, <2>2 DEF IInv, StateOK
<1>5. CASE JudgeTone /\ ~ignore' /\ StartMajorFrame
  <2>1. TypeOK'
    BY <1>1, <1>3, <1>5 DEF TypeOK, taskVars, SlotInTable, SyncSlot, StartMajorFrame, GiveSemaphore
  <2>2. TimerRuns' /\ TimerOK' /\ ~scenario'.preempt
    BY <1>1, <1>5 DEF IInv, TimerRuns, TimerOK, StartMajorFrame
  <2>3. CountsOK'
    BY <1>1, <1>3, <1>5 DEF CountsOK, Pending, StartMajorFrame
  <2> QED
    BY <2>1, <2>2, <2>3 DEF IInv, StateOK
<1> QED
  BY <1>2, <1>4, <1>5

LEMMA BeginsStep ==
  ASSUME IInv, MinorFrameBegins
  PROVE  IInv'
<1> USE SlotsAssumption DEF MinorFrameBegins
<1>1. TypeOK /\ TimerOK /\ CountsOK /\ pc = "idle" /\ pc' \in {"sync", "inc"}
  BY DEF IInv, StateOK
<1>2. timer' \in {"normal", "off"} /\ attempts' \in 0 .. MaxAttempts
      /\ minorFrames \in 0 .. SyncSlot
  BY <1>1 DEF Expired, TypeOK
<1>3. TypeOK'
  <2>1. /\ source' \in {"none", "cfe_time", "timer"} /\ sync' \subseteq {"minor", "pending", "major"}
        /\ lastSync' \in 0 .. SLOTS - 1
    <3>1. CASE FirstInterrupt
      <4>1. source' = "timer" /\ sync' = sync \cup {"pending"} /\ lastSync' = 0
        BY <3>1
      <4>2. sync \subseteq {"minor", "pending", "major"} /\ 0 \in 0 .. SLOTS - 1
        BY <1>1 DEF TypeOK
      <4> QED
        BY <4>1, <4>2
    <3>2. CASE ~FirstInterrupt
      BY <1>1, <3>2 DEF TypeOK
    <3> QED
      BY <3>1, <3>2
  <2> QED
    BY <1>1, <1>2, <2>1 DEF TypeOK, taskVars, envVars, SlotInTable, SyncSlot
<1>4. TimerOK'
  <2>1. /\ timer' # "startup" /\ timer' # "long" /\ pc' # "long"
        /\ reg' = minorFrames
    BY <1>1, <1>2
  <2>2. ASSUME timer' = "off" PROVE pc' = "sync" \/ (pc' = "inc" /\ reg' = SyncSlot)
    <3>1. timer \in {"startup", "long"}
      BY <1>1, <2>2 DEF Expired, TypeOK
    <3>2. CASE timer = "startup"
      BY <1>1, <3>2 DEF TimerOK, FirstInterrupt
    <3>3. CASE timer = "long"
      BY <1>1, <3>3, <2>1 DEF TimerOK
    <3> QED
      BY <3>1, <3>2, <3>3
  <2> QED
    BY <2>1, <2>2 DEF TimerOK
<1>5. CountsOK'
  <2>1. ~ignore' => noisy' < MaxNoisy
    BY <1>1 DEF CountsOK
  <2>2. CASE FirstInterrupt
    BY <2>1, <2>2 DEF CountsOK
  <2>3. CASE ~FirstInterrupt
    BY <1>1, <2>1, <2>3 DEF CountsOK, Pending
  <2> QED
    BY <2>2, <2>3
<1>6. TimerRuns' /\ ~scenario'.preempt
  BY <1>1 DEF TimerRuns, IInv, envVars
<1> QED
  BY <1>3, <1>4, <1>5, <1>6 DEF IInv, StateOK

LEMMA SyncStep ==
  ASSUME IInv, MinorFrameSync
  PROVE  IInv'
<1> USE SlotsAssumption DEF MinorFrameSync
<1>1. TypeOK /\ TimerOK /\ CountsOK /\ attempts > 0
  BY DEF IInv, StateOK, CountsOK
<1>2. TypeOK'
  <2>1. attempts' \in 0 .. MaxAttempts
    BY <1>1 DEF TypeOK
  <2>2. /\ minorFrames' \in 0 .. (IF pc' = "roll" THEN SLOTS ELSE SyncSlot)
        /\ lastSync' \in 0 .. SLOTS - 1
    BY <1>1 DEF TypeOK, SyncSlot
  <2>3. sync' \subseteq {"minor", "pending", "major"} /\ pc' \in {"idle", "roll"}
    BY <1>1 DEF TypeOK
  <2>4. timer' = "normal" /\ UNCHANGED <<sem, reg, source, ignore, noisy, taskVars, envVars>>
    OBVIOUS
  <2> QED
    BY <1>1, <2>1, <2>2, <2>3, <2>4 DEF TypeOK, taskVars, envVars, SlotInTable
<1>3. TimerOK' /\ TimerRuns' /\ ~scenario'.preempt
  BY <1>1 DEF TimerOK, TimerRuns, IInv, envVars
<1>4. CountsOK'
  BY <1>1 DEF CountsOK, Pending
<1> QED
  BY <1>2, <1>3, <1>4 DEF IInv, StateOK

LEMMA CallbackStep ==
  ASSUME IInv, \/ MinorFrameInc \/ MinorFrameRoll \/ MinorFrameCheck
               \/ MinorFrameLong \/ MinorFrameGive
  PROVE  IInv'
<1> USE SlotsAssumption DEF MinorFrameInc, MinorFrameRoll, MinorFrameCheck, MinorFrameLong,
                            MinorFrameGive
<1>1. TypeOK /\ TimerOK /\ CountsOK
  BY DEF IInv, StateOK
<1>2. minorFrames' \in 0 .. (IF pc' = "roll" THEN SLOTS ELSE SyncSlot)
  BY <1>1 DEF TypeOK, SyncSlot
<1>3. TypeOK'
  <2>1. /\ timer' \in {"startup", "normal", "long", "short", "off"} /\ sem' \in {0, 1}
        /\ pc' \in {"idle", "sync", "inc", "roll", "check", "long", "give"}
    BY <1>1 DEF TypeOK, ShortTimer, GiveSemaphore
  <2>2. UNCHANGED <<scenario, attempts, toneVars, taskVars, reg, met>>
    BY DEF envVars
  <2> QED
    BY <1>1, <1>2, <2>1, <2>2 DEF TypeOK, toneVars, taskVars, SlotInTable
<1>4. TimerOK' /\ TimerRuns'
  <2>1. CASE MinorFrameInc
    BY <1>1, <2>1 DEF TimerOK, TimerRuns, SyncSlot, TypeOK
  <2>2. CASE MinorFrameRoll
    BY <1>1, <2>2 DEF TimerOK, TimerRuns, SyncSlot, TypeOK, ShortTimer
  <2>3. CASE MinorFrameCheck
    BY <1>1, <2>3 DEF TimerOK, TimerRuns, SyncSlot, TypeOK
  <2>4. CASE MinorFrameLong
    BY <1>1, <2>4 DEF TimerOK, TimerRuns
  <2>5. CASE MinorFrameGive
    BY <1>1, <2>5 DEF TimerOK, TimerRuns
  <2> QED
    BY <2>1, <2>2, <2>3, <2>4, <2>5
<1>5. CountsOK' /\ ~scenario'.preempt
  BY <1>1 DEF CountsOK, Pending, IInv, envVars, toneVars
<1> QED
  BY <1>3, <1>4, <1>5 DEF IInv, StateOK

LEMMA TaskStep ==
  ASSUME IInv, ExecuteTake \/ ExecuteSlots \/ ResetStatus
  PROVE  IInv'
<1> USE SlotsAssumption
<1>1. TypeOK /\ TimerOK /\ CountsOK /\ pc = "idle" /\ pc' = "idle"
  BY DEF IInv, StateOK, MayRun, ExecuteTake, ExecuteSlots, ResetStatus
<1>2. nextSlot' \in 0 .. SLOTS - 1 /\ lastCount' \in 0 .. SLOTS /\ passes' \in 0 .. PassMod - 1
  <2>1. CASE ExecuteTake \/ ResetStatus
    BY <1>1, <2>1 DEF ExecuteTake, ResetStatus, TypeOK, SlotInTable
  <2>2. CASE ExecuteSlots
    <3> DEFINE cur == CurrentSlot
               n   == Wanted(Smoothed(RawCount(cur)))
    <3>1. cur \in 0 .. SLOTS - 1 /\ RawCount(cur) \in 1 .. SLOTS /\ n \in 0 .. SLOTS - 1
      BY <1>1, CountFact
    <3> HIDE DEF cur, n
    <3>2. ASSUME NEW s \in 0 .. SLOTS - 1, NEW k \in 0 .. SLOTS - 1, NEW p \in {0, 1},
                 ProcessSlots(s, p, k)
          PROVE  nextSlot' \in 0 .. SLOTS - 1 /\ passes' \in 0 .. PassMod - 1
      <4>1. nextSlot' = After(s, k) /\ passes' = (passes + (p + PassesCompleted(s, k))) % PassMod
        BY <3>2 DEF ProcessSlots
      <4>2. passes \in Int /\ PassesCompleted(s, k) \in {0, 1}
        BY <1>1, AfterFact DEF TypeOK
      <4>3. passes + (p + PassesCompleted(s, k)) \in Int
        BY <4>2
      <4> QED
        BY <4>1, <4>3, AfterFact, PassFact
    <3>3. CASE n > MaxLag
      <4>1. ProcessSlots(cur, PassesSkipped(cur), 1)
        BY <2>2, <3>3 DEF ExecuteSlots, cur, n
      <4>2. PassesSkipped(cur) \in {0, 1} /\ 1 \in 0 .. SLOTS - 1
        BY DEF PassesSkipped
      <4> QED
        BY <3>1, <3>2, <4>1, <4>2, <2>2 DEF ExecuteSlots, cur
    <3>4. CASE ~(n > MaxLag)
      <4>1. ProcessSlots(nextSlot, 0, Least(n, MaxSlotsPerWakeup))
        BY <2>2, <3>4 DEF ExecuteSlots, cur, n
      <4>2. Least(n, MaxSlotsPerWakeup) \in 0 .. SLOTS - 1
        BY <3>1 DEF Least
      <4>3. nextSlot \in 0 .. SLOTS - 1
        BY <1>1 DEF TypeOK, SlotInTable
      <4> QED
        BY <3>1, <3>2, <4>1, <4>2, <4>3, <2>2 DEF ExecuteSlots, cur
    <3>5. lastCount' \in 0 .. SLOTS
      BY <2>2, <3>1 DEF ExecuteSlots, cur
    <3> QED
      BY <3>3, <3>4, <3>5
  <2> QED
    BY <2>1, <2>2
<1>3. TypeOK'
  <2>1. awake' \in BOOLEAN /\ ignore' \in BOOLEAN /\ noisy' \in 0 .. MaxNoisy
    <3>1. awake \in BOOLEAN /\ ignore \in BOOLEAN /\ noisy \in 0 .. MaxNoisy /\ 0 \in 0 .. MaxNoisy
      BY <1>1 DEF TypeOK
    <3>2. CASE ExecuteTake
      BY <3>1, <3>2 DEF ExecuteTake, toneVars
    <3>3. CASE ExecuteSlots
      BY <3>1, <3>3 DEF ExecuteSlots, toneVars
    <3>4. CASE ResetStatus
      BY <3>1, <3>4 DEF ResetStatus
    <3> QED
      BY <3>2, <3>3, <3>4
  <2>2. /\ UNCHANGED <<scenario, minorFrames, attempts, timer, pc, reg, sync, source, lastSync, met>>
        /\ sem' \in {0, 1}
    <3>1. sem \in {0, 1}
      BY <1>1 DEF TypeOK
    <3>2. CASE ExecuteTake
      BY <3>1, <3>2 DEF ExecuteTake, toneVars, envVars
    <3>3. CASE ExecuteSlots
      BY <3>1, <3>3 DEF ExecuteSlots, toneVars
    <3>4. CASE ResetStatus
      BY <3>1, <3>4 DEF ResetStatus
    <3> QED
      BY <3>2, <3>3, <3>4
  <2> QED
    BY <1>1, <1>2, <2>1, <2>2 DEF TypeOK, SlotInTable
<1>4. TimerOK' /\ TimerRuns' /\ ~scenario'.preempt
  BY DEF IInv, StateOK, ExecuteTake, ExecuteSlots, ResetStatus, TimerOK, TimerRuns, toneVars, envVars
<1>5. CountsOK'
  BY <1>1 DEF CountsOK, Pending, ExecuteTake, ExecuteSlots, ResetStatus, toneVars
<1> QED
  BY <1>3, <1>4, <1>5 DEF IInv, StateOK

LEMMA MetStep ==
  ASSUME IInv, MetSlot \/ UNCHANGED vars
  PROVE  IInv'
<1>1. met' \in 0 .. SLOTS - 1
  BY SlotsAssumption DEF IInv, StateOK, TypeOK, MetSlot, vars, envVars
<1>2. UNCHANGED <<scenario, minorFrames, attempts, timer, sem, pc, reg, toneVars, taskVars>>
  BY DEF MetSlot, vars, envVars
<1> QED
  BY <1>1, <1>2 DEF IInv, StateOK, TypeOK, TimerRuns, TimerOK, CountsOK, Pending, toneVars, taskVars,
                    SlotInTable

-----------------------------------------------------------------------------
(* The task keeps in step.                                                 *)

\* A wakeup may process all the slots up to the limit from which the task jumps
\* (kit_sch_platform_cfg.h:85 and 92: 2 and 5), and a task whose lead is counted
\* is late by less than the table, less the slot it may be behind already: with
\* one callback more a whole table looks like no slot at all.
InTime ==
  /\ MaxLag <= MaxSlotsPerWakeup
  /\ \A s \in Scenarios :
       s.toneAtStart /\ ~s.coarse /\ s.toneSlots \subseteq {SyncSlot} => s.maxBehind <= SLOTS - 2

LEMMA LeadByFact ==
  ASSUME NEW d \in Int, LeadBy(d), lead \in Int
  PROVE  /\ ~Steady => lead' = lead
         /\ Steady /\ lead + d \in -2 * SLOTS .. 2 * SLOTS => lead' = lead + d
BY SlotsAssumption DEF LeadBy

\* The facts about the numbers of a state of the steady scenarios.
LEMMA StepRanges ==
  ASSUME InTime, IInv, Steady, Lockstep
  PROVE  /\ SLOTS \in Nat /\ SLOTS >= 3
         /\ nextSlot \in 0 .. SLOTS - 1 /\ minorFrames \in 0 .. SLOTS
         /\ pc # "roll" => minorFrames \in 0 .. SLOTS - 1
         /\ behind \in Nat /\ scenario.maxBehind \in Nat /\ scenario.maxBehind <= SLOTS - 2
         /\ lead \in -(SLOTS - 1) .. 1 /\ lead = LeadOfRun - behind - Begun
<1> USE SlotsAssumption
<1>1. scenario.maxBehind \in Nat \ {0} /\ scenario.maxBehind <= SLOTS - 2
  BY EnvironmentAssumption DEF IInv, StateOK, TypeOK, Scenario, InTime, Steady
<1>2. nextSlot \in 0 .. SLOTS - 1 /\ minorFrames \in 0 .. SLOTS
      /\ (pc # "roll" => minorFrames \in 0 .. SLOTS - 1)
  BY DEF IInv, StateOK, TypeOK, SlotInTable, SyncSlot
<1>3. behind \in 0 .. scenario.maxBehind /\ (Begun = 1 => behind < scenario.maxBehind)
      /\ Begun \in {0, 1} /\ LeadOfRun \in -1 .. 1
  BY DEF Lockstep, Begun
<1>4. behind \in Nat /\ behind + Begun \in 0 .. scenario.maxBehind
  BY <1>1, <1>3
<1>5. lead = LeadOfRun - behind - Begun
  <2>1. lead \in Int
    BY <1>1, <1>2 DEF Lockstep
  <2> QED
    BY <2>1, <1>3, <1>4 DEF LeadOfRun
<1>6. lead \in -(SLOTS - 1) .. 1
  BY <1>1, <1>3, <1>4, <1>5
<1> QED
  BY <1>1, <1>2, <1>4, <1>5, <1>6

LEMMA InitStep == InTime /\ RunToEnd /\ Init => StepInv
<1> SUFFICES ASSUME InTime, RunToEnd, Init PROVE StepInv
    OBVIOUS
<1>1. CASE Steady
  <2>1. scenario.maxBehind \in Nat \ {0} /\ ~scenario.coarse
    BY <1>1, EnvironmentAssumption DEF Init, Scenario, Steady
  <2>2. Begun = 0 /\ LeadOfRun = 0
    BY DEF Init, Begun, LeadOfRun
  <2>3. nextSlot - minorFrames - 1 - lead = -SLOTS
    BY SlotsAssumption DEF Init, SyncSlot
  <2>4. sync = {}
    BY <2>1 DEF Init
  <2> QED
    BY <1>1, <2>1, <2>2, <2>3, <2>4 DEF Init, StepInv, Lockstep
<1>2. CASE ~Steady
  BY <1>2 DEF Init, StepInv
<1> QED
  BY <1>1, <1>2

LEMMA SteadyStep ==
  ASSUME [Next]_vars
  PROVE  scenario' = scenario /\ Steady' = Steady
<1>1. scenario' = scenario
  BY DEF Next, TimerCallback, Execute, vars, envVars, MajorFrameCallback, MinorFrameBegins,
         MinorFrameSync, MinorFrameInc, MinorFrameRoll, MinorFrameCheck, MinorFrameLong,
         MinorFrameGive, ExecuteTake, ExecuteSlots, ResetStatus, MetSlot
<1> QED
  BY <1>1 DEF Steady, SyncSlot

\* Without a tone to count from nothing is kept.
LEMMA OtherStep ==
  ASSUME InTime, IInv, ~Steady, lead = 0, [Next]_vars
  PROVE  lead' = 0
<1>1. \A d : LeadBy(d) => lead' = 0
  BY DEF LeadBy
<1>2. CASE MajorFrameCallback
  BY <1>1, <1>2 DEF MajorFrameCallback, StartMajorFrame
<1>3. CASE MinorFrameBegins \/ TimerCallback
  BY <1>1, <1>3 DEF MinorFrameBegins, TimerCallback, MinorFrameSync, MinorFrameInc,
     MinorFrameRoll, MinorFrameCheck, MinorFrameLong, MinorFrameGive
<1>4. CASE ExecuteTake \/ ResetStatus \/ MetSlot \/ UNCHANGED vars
  BY <1>4 DEF ExecuteTake, ResetStatus, MetSlot, vars
<1>5. CASE ExecuteSlots
  BY <1>1, <1>5 DEF ExecuteSlots, ProcessSlots
<1> QED
  BY <1>2, <1>3, <1>4, <1>5 DEF Next, Execute

\* A tone that starts slot zero does so from the last slot.
LEMMA ToneInStep ==
  ASSUME InTime, IInv, Steady, Lockstep, MajorFrameCallback
  PROVE  Lockstep'
<1> USE SlotsAssumption
<1>1. /\ pc = "idle" /\ pc' = "idle" /\ Begun = 0 /\ Begun' = 0
      /\ UNCHANGED <<nextSlot, lastCount, awake, reg, scenario>>
      /\ behind < scenario.maxBehind
  BY DEF MajorFrameCallback, IInv, MayRun, Begun, taskVars, OnTime
<1>2. minorFrames = SyncSlot
  BY DEF MajorFrameCallback, Steady, Lockstep, IInv, StateOK, TypeOK
<1>3. CASE UNCHANGED <<timer, minorFrames, source, sync, sem, behind, lead>>
  BY <1>1, <1>3 DEF Lockstep, LeadOfRun
<1>4. CASE StartMajorFrame
  <2>1. /\ minorFrames' = 0 /\ source' = "cfe_time" /\ sync' = {}
        /\ sem' = 1 /\ behind' = behind + 1
    BY <1>4 DEF StartMajorFrame, GiveSemaphore, Lockstep
  <2>2. lead' = lead - 1
    <3>1. LeadBy(-1)
      BY <1>2, <1>4 DEF StartMajorFrame, SyncSlot
    <3> QED
      BY <3>1, LeadByFact, StepRanges
  <2>3. LeadOfRun' = LeadOfRun
    BY <1>1, <2>1, <2>2, StepRanges DEF LeadOfRun
  <2>4. nextSlot' - minorFrames' - 1 - lead' \in {-SLOTS, 0, SLOTS}
    <3>1. nextSlot - SLOTS - lead \in {-SLOTS, 0, SLOTS}
      BY <1>2, StepRanges DEF Lockstep, SyncSlot
    <3> QED
      BY <3>1, <1>1, <2>1, <2>2, StepRanges
  <2>5. behind' \in 0 .. scenario'.maxBehind /\ behind' > 0 /\ lead' \in Int
    BY <1>1, <2>1, <2>2, StepRanges
  <2> QED
    BY <1>1, <2>1, <2>3, <2>4, <2>5 DEF Lockstep
<1> QED
  BY <1>3, <1>4 DEF MajorFrameCallback

\* The timer callback takes a slot from the lead and one callback later gives
\* the semaphore for it.
LEMMA CallbackInStep ==
  ASSUME InTime, IInv, Steady, Lockstep, MinorFrameBegins \/ TimerCallback
  PROVE  Lockstep'
<1> USE SlotsAssumption
<1>1. UNCHANGED <<nextSlot, lastCount, awake, scenario>>
  BY DEF MinorFrameBegins, TimerCallback, MinorFrameSync, MinorFrameInc, MinorFrameRoll,
         MinorFrameCheck, MinorFrameLong, MinorFrameGive, taskVars, envVars
<1>2. CASE MinorFrameBegins
  <2>1. source # "none" /\ ~FirstInterrupt /\ ~Pending
    <3>1. source # "none"
      BY <1>2 DEF MinorFrameBegins, Lockstep, Steady
    <3> QED
      BY <3>1 DEF FirstInterrupt, Pending, Lockstep
  <2>2. /\ pc = "idle" /\ pc' = "inc" /\ reg' = minorFrames /\ behind < scenario.maxBehind
        /\ UNCHANGED <<source, sync, minorFrames, sem, lead, behind>>
    BY <1>2, <2>1 DEF MinorFrameBegins, OnTime, envVars
  <2>3. LeadOfRun' = LeadOfRun
    BY <2>2 DEF LeadOfRun, Begun
  <2> QED
    BY <1>1, <2>1, <2>2, <2>3 DEF Lockstep
<1>3. CASE MinorFrameSync
  BY <1>3 DEF MinorFrameSync, Lockstep
<1>4. CASE MinorFrameInc
  <2>1. /\ pc = "inc" /\ pc' = "roll" /\ minorFrames' = minorFrames + 1
        /\ UNCHANGED <<source, sync, sem, behind>>
    BY <1>4 DEF MinorFrameInc, Lockstep, toneVars, envVars
  <2>2. lead' = lead - 1
    BY <1>4, LeadByFact, StepRanges DEF MinorFrameInc
  <2>3. LeadOfRun' = LeadOfRun
    BY <2>1, <2>2, StepRanges DEF LeadOfRun, Begun
  <2>4. nextSlot' - minorFrames' - 1 - lead' = nextSlot - minorFrames - 1 - lead /\ lead' \in Int
    BY <1>1, <2>1, <2>2, StepRanges
  <2>5. source' # "none"
    BY <2>1 DEF IInv, TimerOK, Lockstep
  <2> QED
    BY <1>1, <2>1, <2>3, <2>4, <2>5 DEF Lockstep
<1>5. CASE MinorFrameRoll
  <2>1. /\ pc = "roll" /\ pc' = "check" /\ source # "none"
        /\ UNCHANGED <<source, sync, sem, behind, lead>>
    BY <1>5 DEF MinorFrameRoll, Lockstep, IInv, TimerOK, toneVars, envVars
  <2>2. LeadOfRun' = LeadOfRun
    BY <2>1 DEF LeadOfRun, Begun
  <2>3. nextSlot' - minorFrames' - 1 - lead' \in {-SLOTS, 0, SLOTS}
    <3>1. CASE minorFrames >= SLOTS
      <4>1. minorFrames = SLOTS /\ minorFrames' = 0
        BY <1>5, <3>1, StepRanges DEF MinorFrameRoll
      <4>2. nextSlot - SLOTS - 1 - lead \in {-SLOTS, 0, SLOTS}
        BY <4>1 DEF Lockstep
      <4> QED
        BY <1>1, <2>1, <4>1, <4>2, StepRanges
    <3>2. CASE ~(minorFrames >= SLOTS)
      BY <1>1, <1>5, <2>1, <3>2 DEF MinorFrameRoll, Lockstep
    <3> QED
      BY <3>1, <3>2
  <2> QED
    BY <1>1, <2>1, <2>2, <2>3 DEF Lockstep
<1>6. CASE MinorFrameCheck \/ MinorFrameLong
  <2>1. /\ pc \in {"check", "long"} /\ pc' \in {"long", "give"} /\ source # "none"
        /\ UNCHANGED <<source, sync, sem, behind, lead, minorFrames>>
    BY <1>6 DEF MinorFrameCheck, MinorFrameLong, Lockstep, IInv, TimerOK, toneVars, envVars
  <2>2. LeadOfRun' = LeadOfRun
    BY <2>1 DEF LeadOfRun, Begun
  <2> QED
    BY <1>1, <2>1, <2>2 DEF Lockstep
<1>7. CASE MinorFrameGive
  <2>1. /\ pc = "give" /\ pc' = "idle" /\ source # "none"
        /\ sem' = 1 /\ behind' = behind + 1
        /\ UNCHANGED <<source, sync, lead, minorFrames>>
    BY <1>7 DEF MinorFrameGive, GiveSemaphore, Lockstep, IInv, TimerOK, toneVars
  <2>2. LeadOfRun' = LeadOfRun
    BY <2>1, StepRanges DEF LeadOfRun, Begun
  <2>3. behind' \in 0 .. scenario'.maxBehind /\ behind' > 0
    BY <1>1, <2>1, StepRanges DEF Lockstep
  <2> QED
    BY <1>1, <2>1, <2>2, <2>3 DEF Lockstep
<1> QED
  BY <1>2, <1>3, <1>4, <1>5, <1>6, <1>7 DEF TimerCallback

\* What a wakeup of a task that is in step counts: the slots it is late, a table
\* when nothing is to be done, and one slot more or less for the first jitter.
LEMMA CountInStep ==
  ASSUME InTime, IInv, Steady, Lockstep, awake, pc = "idle"
  PROVE  LET cur == CurrentSlot
             n   == Wanted(Smoothed(RawCount(cur)))
         IN  /\ cur = minorFrames
             /\ lead \in -(SLOTS - 1) .. 0
             /\ RawCount(cur) = IF lead = 0 THEN SLOTS ELSE -lead
             /\ n \in 0 .. SLOTS - 1
             /\ n > 1 => n = -lead
             /\ lead + n \in -1 .. 1
             /\ lead + n = 1 => RawCount(cur) = SLOTS /\ sem # 1
<1> DEFINE cur == CurrentSlot
           n   == Wanted(Smoothed(RawCount(cur)))
<1> SUFFICES /\ cur = minorFrames
             /\ lead \in -(SLOTS - 1) .. 0
             /\ RawCount(cur) = IF lead = 0 THEN SLOTS ELSE -lead
             /\ n \in 0 .. SLOTS - 1
             /\ n > 1 => n = -lead
             /\ lead + n \in -1 .. 1
             /\ lead + n = 1 => RawCount(cur) = SLOTS /\ sem # 1
    OBVIOUS
<1>1. TypeOK /\ SLOTS \in Nat /\ SLOTS >= 3 /\ nextSlot \in 0 .. SLOTS - 1
  BY StepRanges DEF IInv, StateOK
<1>2. cur = minorFrames /\ cur \in 0 .. SLOTS - 1
  BY StepRanges DEF CurrentSlot, Lockstep
<1>3. lead \in -(SLOTS - 1) .. 0
  <2>1. LeadOfRun \in -1 .. 1 /\ (LeadOfRun = 1 => behind > 0) /\ Begun = 0
    BY DEF Lockstep, Begun
  <2> QED
    BY <2>1, StepRanges
<1>4. RawCount(cur) = IF lead = 0 THEN SLOTS ELSE -lead
  <2>1. nextSlot - cur - 1 - lead \in {-SLOTS, 0, SLOTS}
    BY <1>2 DEF Lockstep
  <2>2. RawCount(cur) = IF cur < nextSlot THEN SLOTS - nextSlot + cur + 1 ELSE cur - nextSlot + 1
    BY <1>1, <1>2, RawFact
  <2> HIDE DEF cur
  <2> QED
    BY <1>1, <1>2, <1>3, <2>1, <2>2
<1> HIDE DEF cur
<1>5. CASE lead < 0
  <2>1. RawCount(cur) = -lead /\ -lead \in 1 .. SLOTS - 1
    BY <1>1, <1>3, <1>4, <1>5
  <2>2. n = IF lead = -2 /\ lastCount = 1 THEN 1 ELSE -lead
    BY <1>1, <1>3, <2>1 DEF Wanted, Smoothed
  <2> HIDE DEF n
  <2> QED
    BY <1>1, <1>2, <1>3, <1>4, <1>5, <2>1, <2>2
<1>6. CASE lead = 0
  <2>1. RawCount(cur) = SLOTS
    BY <1>4, <1>6
  <2>2. n = IF lastCount # SLOTS THEN 1 ELSE 0
    BY <1>1, <1>3, <2>1 DEF Wanted, Smoothed
  <2>3. lastCount # SLOTS => sem # 1
    <3>1. lastCount # SLOTS => LeadOfRun # 1
      BY DEF Lockstep
    <3>2. Begun = 0 /\ LeadOfRun \in -1 .. 1 /\ (sem = 1 => behind > 0)
      BY DEF Lockstep, Begun
    <3> QED
      BY <1>6, <3>1, <3>2, StepRanges
  <2> HIDE DEF n
  <2> QED
    BY <1>1, <1>2, <1>3, <1>4, <1>6, <2>1, <2>2, <2>3
<1> QED
  BY <1>3, <1>5, <1>6

\* From a slot of the table, k slots on: the lead and the slot after them.
LEMMA ProcessFact ==
  ASSUME InTime, IInv, Steady, Lockstep,
         NEW s \in 0 .. SLOTS - 1, NEW k \in 0 .. SLOTS - 1, NEW p \in {0, 1},
         ProcessSlots(s, p, k)
  PROVE  \E done \in {0, 1} :
           /\ done = 1 <=> s + k >= SLOTS
           /\ nextSlot' = s + k - (IF done = 1 THEN SLOTS ELSE 0)
           /\ lead + (IF p = 1 THEN SLOTS ELSE 0) + s + k - nextSlot \in -1 .. 1
              => lead' = lead + (IF p = 1 THEN SLOTS ELSE 0) + s + k - nextSlot
<1> DEFINE done == PassesCompleted(s, k)
           d == SLOTS * (p + done) + After(s, k) - nextSlot
<1>1. /\ done \in {0, 1} /\ (done = 1 <=> s + k >= SLOTS)
      /\ After(s, k) = s + k - (IF done = 1 THEN SLOTS ELSE 0)
  BY StepRanges DEF PassesCompleted, After
<1>2. nextSlot' = After(s, k) /\ LeadBy(d)
  BY DEF ProcessSlots
<1> HIDE DEF done
<1>3. SLOTS * (p + done) = (IF p = 1 THEN SLOTS ELSE 0) + (IF done = 1 THEN SLOTS ELSE 0)
  BY <1>1, StepRanges
<1>4. d = (IF p = 1 THEN SLOTS ELSE 0) + s + k - nextSlot /\ d \in Int
  BY <1>1, <1>3, StepRanges
<1> HIDE DEF d
<1>5. lead + d \in -1 .. 1 => lead' = lead + d
  BY <1>2, <1>4, LeadByFact, StepRanges
<1> QED
  BY <1>1, <1>2, <1>4, <1>5, StepRanges

LEMMA TaskInStep ==
  ASSUME InTime, IInv, Steady, Lockstep, ExecuteTake \/ ExecuteSlots \/ ResetStatus
  PROVE  Lockstep'
<1>1. /\ pc = "idle" /\ pc' = "idle" /\ Begun = 0 /\ Begun' = 0
      /\ UNCHANGED <<minorFrames, sync, source, timer, reg, scenario>>
  BY DEF ExecuteTake, ExecuteSlots, ResetStatus, IInv, MayRun, Begun, toneVars, envVars
<1>2. CASE ExecuteTake \/ ResetStatus
  <2>1. UNCHANGED <<nextSlot, lastCount, lead, behind>>
    BY <1>2 DEF ExecuteTake, ResetStatus, envVars
  <2>2. LeadOfRun' = LeadOfRun
    BY <1>1, <2>1 DEF LeadOfRun
  <2>3. (awake' \/ sem' = 1 => awake \/ sem = 1) /\ (awake' /\ sem' = 1 => awake /\ sem = 1)
    BY <1>2 DEF ExecuteTake, ResetStatus
  <2> QED
    BY <1>1, <2>1, <2>2, <2>3 DEF Lockstep
<1>3. CASE ExecuteSlots
  <2> DEFINE cur == CurrentSlot
             n   == Wanted(Smoothed(RawCount(cur)))
  <2>1. awake /\ ~awake' /\ behind' = 0 /\ sem' = sem /\ lastCount' = RawCount(cur)
    BY <1>3 DEF ExecuteSlots
  <2>2. /\ cur = minorFrames /\ lead \in -(SLOTS - 1) .. 0
        /\ RawCount(cur) = IF lead = 0 THEN SLOTS ELSE -lead
        /\ n \in 0 .. SLOTS - 1 /\ (n > 1 => n = -lead) /\ lead + n \in -1 .. 1
        /\ lead + n = 1 => RawCount(cur) = SLOTS /\ sem # 1
    BY <1>1, <2>1, CountInStep
  <2>3. /\ n > MaxLag => ProcessSlots(cur, PassesSkipped(cur), 1)
        /\ ~(n > MaxLag) => ProcessSlots(nextSlot, 0, Least(n, MaxSlotsPerWakeup))
    BY <1>3 DEF ExecuteSlots
  <2>4. minorFrames \in 0 .. SLOTS - 1
        /\ nextSlot - minorFrames - 1 - lead \in {-SLOTS, 0, SLOTS}
    BY <1>1, StepRanges DEF Lockstep
  <2>5. RawCount(cur) = IF cur < nextSlot THEN SLOTS - nextSlot + cur + 1 ELSE cur - nextSlot + 1
    BY <2>2, <2>4, RawFact DEF IInv, StateOK
  <2> HIDE DEF cur, n
  <2>6. lead' = lead + n /\ nextSlot' - minorFrames - 1 - lead' \in {-SLOTS, 0, SLOTS}
    <3>1. CASE n > MaxLag
      <4>1. n > 1 /\ n = -lead /\ RawCount(cur) = n
        BY <2>2, <3>1, SlotsAssumption
      <4>2. PassesSkipped(cur) \in {0, 1} /\ (PassesSkipped(cur) = 1 <=> cur < nextSlot)
        BY DEF PassesSkipped
      <4>3. PICK done \in {0, 1} :
              /\ done = 1 <=> cur + 1 >= SLOTS
              /\ nextSlot' = cur + 1 - (IF done = 1 THEN SLOTS ELSE 0)
              /\ lead + (IF PassesSkipped(cur) = 1 THEN SLOTS ELSE 0) + cur + 1 - nextSlot \in -1 .. 1
                 => lead' = lead + (IF PassesSkipped(cur) = 1 THEN SLOTS ELSE 0) + cur + 1 - nextSlot
        <5>1. cur \in 0 .. SLOTS - 1 /\ 1 \in 0 .. SLOTS - 1
          BY <2>2, <2>4, StepRanges
        <5> QED
          BY <2>3, <3>1, <4>2, <5>1, ProcessFact
      <4>4. (IF PassesSkipped(cur) = 1 THEN SLOTS ELSE 0) + cur + 1 - nextSlot = n
        BY <2>2, <2>4, <2>5, <4>1, <4>2, StepRanges
      <4>5. lead' = 0
        BY <2>2, <2>4, <4>1, <4>2, <4>3, <4>4, StepRanges
      <4> QED
        BY <2>2, <2>4, <4>1, <4>3, <4>5, StepRanges
    <3>2. CASE ~(n > MaxLag)
      <4>1. Least(n, MaxSlotsPerWakeup) = n
        BY <2>2, <3>2, StepRanges, SlotsAssumption DEF Least, InTime
      <4>2. PICK done \in {0, 1} :
              /\ done = 1 <=> nextSlot + n >= SLOTS
              /\ nextSlot' = nextSlot + n - (IF done = 1 THEN SLOTS ELSE 0)
              /\ lead + 0 + nextSlot + n - nextSlot \in -1 .. 1
                 => lead' = lead + 0 + nextSlot + n - nextSlot
        <5>1. ProcessSlots(nextSlot, 0, n) /\ nextSlot \in 0 .. SLOTS - 1
          BY <2>3, <3>2, <4>1, StepRanges
        <5>2. n \in 0 .. SLOTS - 1 /\ 0 \in {0, 1} /\ 0 # 1
          BY <2>2
        <5> QED
          BY <5>1, <5>2, ProcessFact
      <4>3. lead' = lead + n
        BY <2>2, <4>2, StepRanges
      <4> QED
        BY <2>2, <2>4, <4>2, <4>3, StepRanges
    <3> QED
      BY <3>1, <3>2
  <2>7. LeadOfRun' = lead + n /\ lead' \in Int /\ behind' \in 0 .. scenario'.maxBehind
    BY <1>1, <2>1, <2>2, <2>6, StepRanges DEF LeadOfRun
  <2>8. LeadOfRun' = 1 => lastCount' = SLOTS /\ sem' # 1 /\ ~awake'
    BY <2>1, <2>2, <2>7
  <2> QED
    BY <1>1, <2>1, <2>2, <2>6, <2>7, <2>8 DEF Lockstep
<1> QED
  BY <1>2, <1>3

LEMMA MetInStep ==
  ASSUME InTime, IInv, Steady, Lockstep, MetSlot \/ UNCHANGED vars
  PROVE  Lockstep'
<1>1. UNCHANGED <<scenario, minorFrames, timer, sem, pc, reg, lead, behind, toneVars, taskVars>>
  BY DEF MetSlot, vars, envVars
<1> QED
  BY <1>1 DEF Lockstep, LeadOfRun, Begun, toneVars, taskVars

-----------------------------------------------------------------------------
(* Theorems.                                                               *)

THEOREM Invariance ==
  ASSUME RunToEnd
  PROVE  Spec => []IInv
<1>1. Init => IInv
  BY InitIInv
<1>2. IInv /\ [Next]_vars => IInv'
  BY ToneStep, BeginsStep, SyncStep, CallbackStep, TaskStep, MetStep
     DEF Next, TimerCallback, Execute
<1> QED
  BY <1>1, <1>2, PTL DEF Spec

\* For callbacks that run to their end, the task never indexes outside the
\* scheduler table and the timer never stops, whatever tones and lags there are,
\* for every size of the table (scheduler.c:1116, 1147 and 1183).
THEOREM StateCorrect ==
  ASSUME RunToEnd
  PROVE  Spec => []StateOK
BY Invariance, PTL DEF IInv

\* The inductive invariant of InStep.
THEOREM StepInvariance ==
  ASSUME RunToEnd, InTime
  PROVE  Spec => [](IInv /\ StepInv)
<1>1. Init => IInv /\ StepInv
  BY InitIInv, InitStep
<1>2. IInv /\ StepInv /\ [Next]_vars => (IInv /\ StepInv)'
  <2>1. SUFFICES ASSUME IInv, StepInv, [Next]_vars
                 PROVE  (IInv /\ StepInv)'
    OBVIOUS
  <2>2. IInv'
    BY <2>1, ToneStep, BeginsStep, SyncStep, CallbackStep, TaskStep, MetStep
       DEF Next, TimerCallback, Execute
  <2>3. StepInv'
    <3>1. CASE Steady
      <4>1. Lockstep'
        BY <2>1, <3>1, ToneInStep, CallbackInStep, TaskInStep, MetInStep
           DEF StepInv, Next, TimerCallback, Execute
      <4> QED
        BY <2>1, <3>1, <4>1, SteadyStep DEF StepInv
    <3>2. CASE ~Steady
      BY <2>1, <3>2, SteadyStep, OtherStep DEF StepInv
    <3> QED
      BY <3>1, <3>2
  <2> QED
    BY <2>2, <2>3
<1> QED
  BY <1>1, <1>2, PTL DEF Spec

\* Whenever the task has run it is at most one slot early or late, over all
\* passes of the table: for every table size and lag limit, whatever the order
\* of tones, timer callbacks, late wakeups and resets, no pass is lost or run
\* twice (scheduler.c:880-965).
THEOREM InStepCorrect ==
  ASSUME RunToEnd, InTime
  PROVE  Spec => []InStep
<1>1. IInv /\ StepInv => InStep
  <2>1. CASE Steady
    <3>1. ASSUME Lockstep, behind = 0, pc = "idle"
          PROVE  lead \in -1 .. 1
      <4>1. Begun = 0
        BY <3>1 DEF Begun
      <4> QED
        BY <3>1, <4>1 DEF Lockstep, LeadOfRun
    <3> QED
      BY <2>1, <3>1 DEF StepInv, InStep
  <2>2. CASE ~Steady
    BY <2>2 DEF StepInv, InStep
  <2> QED
    BY <2>1, <2>2
<1> QED
  BY <1>1, StepInvariance, PTL

\* With the tone counting the slots, a task that is fewer callbacks late than
\* the lag limit processes every slot it is late by: for every table size and
\* limit it jumps over none (scheduler.c:356-391).
THEOREM NoSlotLostCorrect ==
  ASSUME RunToEnd, InTime
  PROVE  Spec => []NoSlotLost
<1> DEFINE n == Wanted(Smoothed(RawCount(CurrentSlot)))
<1>1. ASSUME IInv, StepInv, Steady, awake, pc = "idle", behind < MaxLag
      PROVE  n <= MaxLag
  <2>1. Lockstep
    BY <1>1 DEF StepInv
  <2>2. n \in 0 .. SLOTS - 1 /\ (n > 1 => n = -lead)
    BY <1>1, <2>1, CountInStep
  <2>3. /\ lead = LeadOfRun - behind /\ LeadOfRun \in -1 .. 1
        /\ behind \in Nat /\ MaxLag \in Nat \ {0}
    <3>1. Begun = 0
      BY <1>1 DEF Begun
    <3>2. lead = LeadOfRun - behind - Begun /\ behind \in Nat /\ LeadOfRun \in -1 .. 1
      BY <1>1, <2>1, StepRanges DEF Lockstep
    <3> QED
      BY <3>1, <3>2, SlotsAssumption
  <2> HIDE DEF n
  <2> QED
    BY <1>1, <2>2, <2>3, SlotsAssumption
<1>2. IInv /\ StepInv => NoSlotLost
  BY <1>1 DEF NoSlotLost
<1> QED
  BY <1>2, StepInvariance, PTL

\* Both together: the task processes every slot once in each pass, in order, for
\* every table size, lag limit and order of callbacks (scheduler.c:300-391).
THEOREM SlotsInOrderCorrect ==
  ASSUME RunToEnd, InTime
  PROVE  Spec => []SlotsInOrder
<1>1. InStep /\ NoSlotLost => SlotsInOrder
  BY DEF SlotsInOrder
<1> QED
  BY <1>1, InStepCorrect, NoSlotLostCorrect, PTL

-----------------------------------------------------------------------------
(* Facts about data.                                                       *)

\* A set of numbers has a least element; proofs about recursive functions take
\* the least counterexample.
LEMMA NatMin ==
  ASSUME NEW T \in SUBSET Nat, T # {}
  PROVE  \E t \in T : \A u \in T : t <= u
<1> DEFINE R == OpToRel(<, Nat)
<1>1. PICK t \in T : \A u \in T : ~ (<<u, t>> \in R)
  BY WFMin, NatLessThanWellFounded
<1>2. \A u \in T : ~(u < t)
  BY <1>1 DEF OpToRel
<1> QED
  BY <1>2

\* A bounded set of numbers has a maximum.
LEMMA MaxFact ==
  ASSUME NEW n \in Nat, NEW S \in SUBSET (1 .. n), S # {}
  PROVE  Max(S) \in S /\ \A y \in S : y <= Max(S)
<1> DEFINE T == {n - x : x \in S}
<1>1. T \in SUBSET Nat /\ T # {}
  <2>1. \A x \in S : n - x \in Nat
    OBVIOUS
  <2> QED
    BY <2>1
<1>2. PICK t \in T : \A u \in T : t <= u
  <2> HIDE DEF T
  <2> QED
    BY <1>1, NatMin
<1>3. PICK x \in S : t = n - x
  OBVIOUS
<1>4. \A y \in S : x >= y
  <2> TAKE y \in S
  <2>1. n - y \in T
    OBVIOUS
  <2>2. t <= n - y
    <3> HIDE DEF T
    <3> QED
      BY <1>2, <2>1
  <2> QED
    BY <1>3, <2>2
<1>5. \E z \in S : \A y \in S : z >= y
  BY <1>4
<1>6. Max(S) \in S /\ \A y \in S : Max(S) >= y
  BY <1>5 DEF Max
<1> QED
  BY <1>6

\* One step of a recursion over the numbers up to N, and its solutions.
Steps(X, N) == [(1 .. N) \X X -> X]
Solution(X, N, x0, step, g) ==
  /\ g \in [0 .. N -> X]
  /\ g[0] = x0
  /\ \A i \in 1 .. N : g[i] = step[<<i, g[i - 1]>>]

\* A recursion over the numbers up to N has a solution.
LEMMA RecursionExists ==
  ASSUME NEW N \in Nat, NEW X, NEW x0 \in X, NEW step \in Steps(X, N)
  PROVE  \E g : Solution(X, N, x0, step, g)
<1> USE DEF Steps
<1> DEFINE Good(g, n) == /\ g \in [0 .. n -> X]
                         /\ g[0] = x0
                         /\ \A i \in 1 .. n : g[i] = step[<<i, g[i - 1]>>]
           T == {n \in 0 .. N : ~ \E g : Good(g, n)}
<1>1. T = {}
  <2> SUFFICES ASSUME T # {} PROVE FALSE
      OBVIOUS
  <2>1. PICK n \in T : \A u \in T : n <= u
    <3>1. T \in SUBSET Nat
      OBVIOUS
    <3> HIDE DEF T
    <3> QED
      BY <3>1, NatMin
  <2>2. n # 0
    <3>1. Good([i \in 0 .. 0 |-> x0], 0)
      OBVIOUS
    <3> QED
      BY <3>1
  <2>3. PICK g : Good(g, n - 1)
    <3>1. n - 1 \in 0 .. N /\ n \in Nat
      BY <2>2
    <3>2. n - 1 \notin T
      <4> HIDE DEF T
      <4> QED
        BY <2>1, <3>1
    <3> QED
      BY <3>1, <3>2
  <2> DEFINE h == [i \in 0 .. n |-> IF i = n THEN step[<<n, g[n - 1]>>] ELSE g[i]]
  <2>4. n \in 1 .. N
    BY <2>2
  <2>5. g[n - 1] \in X /\ step[<<n, g[n - 1]>>] \in X
    <3>1. g[n - 1] \in X
      BY <2>3, <2>4
    <3>2. <<n, g[n - 1]>> \in (1 .. N) \X X
      BY <2>4, <3>1
    <3> QED
      BY <3>1, <3>2
  <2>6. h \in [0 .. n -> X] /\ h[0] = x0
    BY <2>3, <2>4, <2>5
  <2>7. \A i \in 1 .. n : h[i] = step[<<i, h[i - 1]>>]
    <3> TAKE i \in 1 .. n
    <3>1. i \in 0 .. n /\ i - 1 \in 0 .. n /\ i - 1 # n
      BY <2>4
    <3>2. h[i - 1] = g[i - 1] /\ h[i] = IF i = n THEN step[<<n, g[n - 1]>>] ELSE g[i]
      BY <3>1
    <3>3. i # n => i \in 1 .. n - 1
      BY <2>4
    <3> QED
      BY <2>3, <3>2, <3>3
  <2> QED
    BY <2>6, <2>7
<1>2. \E g : Good(g, N)
  <2>1. N \in 0 .. N
    OBVIOUS
  <2> HIDE DEF Good
  <2> QED
    BY <1>1, <2>1
<1> QED
  BY <1>2 DEF Solution

LEMMA DivModFact ==
  ASSUME NEW a \in Nat, NEW n \in Nat \ {0}
  PROVE  a = (a \div n) * n + (a % n)
OBVIOUS

\* The only multiple of n that is smaller than n is zero.
LEMMA SmallMultiple ==
  ASSUME NEW n \in Nat \ {0}, NEW d \in Int, d * n \in 1 - n .. n - 1
  PROVE  d = 0
OBVIOUS

\* The remainder of the next number.
LEMMA NextMod ==
  ASSUME NEW p \in Nat \ {0}, NEW a \in Nat
  PROVE  /\ a % p \in 0 .. p - 1
         /\ (a + 1) % p = IF a % p = p - 1 THEN 0 ELSE (a % p) + 1
         /\ 0 % p = 0
<1> DEFINE q == a \div p
           r == a % p
           b == a + 1
           qq == b \div p
           rr == b % p
<1>1. b \in Nat /\ b = a + 1
  OBVIOUS
<1>2. a = q * p + r /\ r \in 0 .. p - 1 /\ q \in Int
  OBVIOUS
<1>3. b = qq * p + rr /\ rr \in 0 .. p - 1 /\ qq \in Int
  <2> HIDE DEF b
  <2> QED
    BY <1>1
<1>4. 0 % p = 0
  OBVIOUS
<1> HIDE DEF q, r, qq, rr, b
<1>5. CASE r = p - 1
  <2>1. (qq - q - 1) * p = -rr
    BY <1>1, <1>2, <1>3, <1>5
  <2>2. qq - q - 1 = 0
    BY <1>2, <1>3, <2>1, SmallMultiple
  <2>3. (qq - q - 1) * p = 0
    BY <2>2
  <2>4. rr = 0
    BY <1>3, <2>1, <2>3
  <2> QED
    BY <1>2, <1>4, <1>5, <2>4 DEF r, rr, b
<1>6. CASE r # p - 1
  <2>1. (qq - q) * p = 1 + r - rr
    BY <1>1, <1>2, <1>3
  <2>2. qq - q = 0
    BY <1>2, <1>3, <1>6, <2>1, SmallMultiple
  <2>3. (qq - q) * p = 0
    BY <2>2
  <2>4. rr = r + 1
    BY <1>2, <1>3, <2>1, <2>3
  <2> QED
    BY <1>2, <1>4, <1>6, <2>4 DEF r, rr, b
<1> QED
  BY <1>5, <1>6

\* Rows of n: the row and the place in it of a number.
LEMMA RowFact ==
  ASSUME NEW m \in Nat \ {0}, NEW n \in Nat \ {0}, NEW a \in 0 .. m * n - 1
  PROVE  a \div n \in 0 .. m - 1 /\ a % n \in 0 .. n - 1
OBVIOUS

LEMMA PlaceFact ==
  ASSUME NEW m \in Nat \ {0}, NEW n \in Nat \ {0}, NEW x \in 0 .. m - 1, NEW y \in 0 .. n - 1
  PROVE  /\ x * n + y \in 0 .. m * n - 1
         /\ (x * n + y) \div n = x /\ (x * n + y) % n = y
<1>1. \A k \in Nat : k * n \in Nat
  OBVIOUS
<1>2. x * n + n <= m * n /\ m * n \in Nat
  <2>1. (m - 1 - x) * n \in Nat
    BY <1>1
  <2>2. m * n = (m - 1 - x) * n + x * n + n
    OBVIOUS
  <2> QED
    BY <1>1, <2>1, <2>2
<1>3. x * n + y \in 0 .. m * n - 1
  BY <1>1, <1>2
<1> DEFINE a == x * n + y
           q == a \div n
           r == a % n
<1>4. a \in Nat
  BY <1>3
<1>5. a = q * n + r /\ r \in 0 .. n - 1 /\ q \in Int
  <2> HIDE DEF a
  <2> QED
    BY <1>4
<1>6. (x - q) * n = r - y
  <2> HIDE DEF q, r
  <2> QED
    BY <1>5
<1>8. x - q = 0
  <2> HIDE DEF q, r
  <2> QED
    BY <1>5, <1>6, SmallMultiple
<1> QED
  <2>1. (x - q) * n = 0
    BY <1>8
  <2> HIDE DEF q, r
  <2>2. q = x /\ r = y
    BY <1>5, <1>6, <1>8, <2>1
  <2> QED
    BY <1>3, <2>2 DEF q, r

-----------------------------------------------------------------------------
(* Loading a scheduler table file.                                         *)

SchAcc == [ok : BOOLEAN, tbl : Table]

\* The entry a record is for.
At(r) == <<r.slot, r.act>>
Good(r) == r.complete /\ IndexOk(r)

\* The first n records have been read into acc.
SchUpTo(acc, file, n) ==
  /\ acc \in SchAcc
  /\ acc.ok <=> \A i \in 1 .. n : Good(file[i])
  /\ acc.ok => \A e \in Entries :
       /\ (\A i \in 1 .. n : At(file[i]) # e) => acc.tbl[e] = sch[e]
       /\ \A i \in 1 .. n :
            (At(file[i]) = e /\ \A j \in i + 1 .. n : At(file[j]) # e)
              => acc.tbl[e] = ToEntry(file[i])

LEMMA ToEntryFact ==
  ASSUME NEW r, r.enabled \in BOOLEAN, r.period \in Nat, r.offset \in Nat, r.msg \in Nat
  PROVE  ToEntry(r) \in Entry
<1>1. Byte \in Nat \ {0}
  BY SizesAssumption
<1>2. r.period % Byte \in 0 .. Byte - 1 /\ r.offset % Byte \in 0 .. Byte - 1
      /\ r.msg % Byte \in 0 .. Byte - 1
  BY <1>1, NextMod
<1> QED
  BY <1>2 DEF ToEntry, Entry

LEMMA SchStepFact ==
  ASSUME NEW acc \in SchAcc, NEW r \in SchRecord
  PROVE  /\ SchStep(acc, r) \in SchAcc
         /\ SchStep(acc, r).ok <=> acc.ok /\ Good(r)
         /\ acc.ok /\ Good(r) => /\ At(r) \in Entries
                                 /\ SchStep(acc, r).tbl[At(r)] = ToEntry(r)
                                 /\ \A e \in Entries : e # At(r) => SchStep(acc, r).tbl[e] = acc.tbl[e]
<1>1. acc.ok \in BOOLEAN /\ acc.tbl \in [Entries -> Entry]
  BY DEF SchAcc, Table
<1>2. ToEntry(r) \in Entry
  BY ToEntryFact DEF SchRecord
<1>3. CASE acc.ok /\ Good(r)
  <2>1. At(r) \in Entries
    BY <1>3, SizesAssumption DEF Good, IndexOk, At, Entries, SchRecord
  <2>2. SchStep(acc, r) = [ok |-> TRUE, tbl |-> [acc.tbl EXCEPT ![At(r)] = ToEntry(r)]]
    BY <1>3 DEF SchStep, Good, At
  <2> HIDE DEF At
  <2>3. [acc.tbl EXCEPT ![At(r)] = ToEntry(r)] \in [Entries -> Entry]
    BY <1>1, <1>2, <2>1
  <2> QED
    BY <1>1, <1>3, <2>1, <2>2, <2>3 DEF SchAcc, Table
<1>4. CASE ~(acc.ok /\ Good(r))
  <2>1. SchStep(acc, r) = [ok |-> FALSE, tbl |-> acc.tbl]
    BY <1>4 DEF SchStep, Good
  <2> QED
    BY <1>1, <1>4, <2>1 DEF SchAcc, Table
<1> QED
  BY <1>3, <1>4

LEMMA LoadSchFact ==
  ASSUME NEW file \in Seq(SchRecord), sch \in Table
  PROVE  SchUpTo(LoadSch(file), file, Len(file))
<1> DEFINE N == Len(file)
           x0 == [ok |-> TRUE, tbl |-> sch]
           step == [p \in (1 .. N) \X SchAcc |-> SchStep(p[2], file[p[1]])]
           Solves(f) == f = [i \in 0 .. N |-> IF i = 0 THEN x0 ELSE SchStep(f[i - 1], file[i])]
           read == CHOOSE f : Solves(f)
           T == {n \in 0 .. N : ~SchUpTo(read[n], file, n)}
<1>1. N \in Nat /\ (\A i \in 1 .. N : file[i] \in SchRecord) /\ x0 \in SchAcc
  <2>1. N \in Nat /\ \A i \in 1 .. N : file[i] \in SchRecord
    BY ElementOfSeq
  <2> QED
    BY <2>1 DEF SchAcc
<1>2. step \in [(1 .. N) \X SchAcc -> SchAcc]
  <2>1. \A p \in (1 .. N) \X SchAcc : SchStep(p[2], file[p[1]]) \in SchAcc
    BY <1>1, SchStepFact
  <2> QED
    BY <2>1
<1>3. PICK g \in [0 .. N -> SchAcc] : g[0] = x0 /\ \A n \in 1 .. N : g[n] = step[<<n, g[n - 1]>>]
  <2>1. x0 \in SchAcc /\ N \in Nat
    BY <1>1
  <2>2. step \in Steps(SchAcc, N)
    BY <1>2 DEF Steps
  <2>3. \E g : Solution(SchAcc, N, x0, step, g)
    <3> HIDE DEF step, x0, N
    <3> QED
      BY <2>1, <2>2, RecursionExists
  <2> QED
    BY <2>3 DEF Solution
<1>4. Solves(g)
  <2>1. \A n \in 1 .. N : g[n] = SchStep(g[n - 1], file[n])
    <3> TAKE n \in 1 .. N
    <3>1. <<n, g[n - 1]>> \in (1 .. N) \X SchAcc
      <4>1. n - 1 \in 0 .. N
        BY <1>1
      <4> QED
        BY <1>3, <4>1
    <3> HIDE DEF x0, N
    <3> QED
      BY <1>3, <3>1
  <2> HIDE DEF x0, step
  <2>2. \A n \in 0 .. N : g[n] = IF n = 0 THEN x0 ELSE SchStep(g[n - 1], file[n])
    BY <1>1, <1>3, <2>1
  <2> QED
    BY <1>3, <2>2
<1>5. Solves(read)
  <2> HIDE DEF Solves
  <2> QED
    BY <1>4
<1>6. LoadSch(file) = read[N]
  BY DEF LoadSch
<1>7. read[0] = x0 /\ \A n \in 1 .. N : read[n] = SchStep(read[n - 1], file[n])
  <2> HIDE DEF x0, read
  <2> QED
    BY <1>1, <1>5
<1> HIDE DEF read
<1>8. T = {}
  <2> SUFFICES ASSUME T # {} PROVE FALSE
      OBVIOUS
  <2>1. PICK n \in T : \A u \in T : n <= u
    <3>1. T \in SUBSET Nat
      BY <1>1
    <3> HIDE DEF T
    <3> QED
      BY <3>1, NatMin
  <2>2. n \in 0 .. N /\ ~SchUpTo(read[n], file, n)
    BY <2>1
  <2>3. CASE n = 0
    <3>1. SchUpTo(x0, file, 0)
      BY <1>1 DEF SchUpTo
    <3> HIDE DEF x0
    <3> QED
      BY <1>7, <2>2, <2>3, <3>1
  <2>4. CASE n # 0
    <3>1. n \in 1 .. N /\ n - 1 \in 0 .. N
      BY <1>1, <2>2, <2>4
    <3>2. SchUpTo(read[n - 1], file, n - 1)
      <4>1. n - 1 \notin T
        <5> HIDE DEF T
        <5> QED
          BY <2>1, <3>1
      <4> QED
        BY <3>1, <4>1
    <3> DEFINE a == read[n - 1]
               b == read[n]
               r == file[n]
    <3>3. b = SchStep(a, r) /\ a \in SchAcc /\ r \in SchRecord
      BY <1>1, <1>7, <3>1, <3>2 DEF SchUpTo
    <3>4. /\ b \in SchAcc /\ (b.ok <=> a.ok /\ Good(r))
          /\ b.ok => /\ b.tbl[At(r)] = ToEntry(r)
                     /\ \A e \in Entries : e # At(r) => b.tbl[e] = a.tbl[e]
      <4>1. PICK x \in SchAcc, y \in SchRecord : x = a /\ y = r
        BY <3>3
      <4>2. /\ SchStep(x, y) \in SchAcc /\ (SchStep(x, y).ok <=> x.ok /\ Good(y))
            /\ x.ok /\ Good(y) => /\ SchStep(x, y).tbl[At(y)] = ToEntry(y)
                                  /\ \A e \in Entries : e # At(y) => SchStep(x, y).tbl[e] = x.tbl[e]
        BY SchStepFact
      <4> HIDE DEF a, b, r
      <4> QED
        BY <3>3, <4>1, <4>2
    <3> HIDE DEF a, b
    <3>5. b.ok <=> \A i \in 1 .. n : Good(file[i])
      <4>1. a.ok <=> \A i \in 1 .. n - 1 : Good(file[i])
        BY <3>2 DEF SchUpTo, a
      <4> QED
        BY <3>1, <3>4, <4>1
    <3>6. ASSUME b.ok, NEW e \in Entries, \A i \in 1 .. n : At(file[i]) # e
          PROVE  b.tbl[e] = sch[e]
      <4>1. a.ok /\ (\A i \in 1 .. n - 1 : At(file[i]) # e) /\ At(r) # e
        BY <3>1, <3>4, <3>6
      <4>2. a.tbl[e] = sch[e]
        BY <3>2, <3>6, <4>1 DEF SchUpTo, a
      <4> QED
        BY <3>4, <3>6, <4>1, <4>2
    <3>7. ASSUME b.ok, NEW e \in Entries, NEW i \in 1 .. n, At(file[i]) = e,
                 \A j \in i + 1 .. n : At(file[j]) # e
          PROVE  b.tbl[e] = ToEntry(file[i])
      <4>1. CASE i = n
        BY <3>4, <3>7, <4>1
      <4>2. CASE i # n
        <5>0. n \in Nat /\ i \in 1 .. n - 1 /\ n \in i + 1 .. n
          BY <1>1, <3>1, <4>2
        <5>1. (\A j \in i + 1 .. n - 1 : At(file[j]) # e) /\ At(r) # e /\ a.ok
          BY <5>0, <3>4, <3>7
        <5>2. a.tbl[e] = ToEntry(file[i])
          BY <3>2, <3>7, <5>0, <5>1 DEF SchUpTo, a
        <5> QED
          BY <3>4, <3>7, <5>1, <5>2
      <4> QED
        BY <4>1, <4>2
    <3>8. SchUpTo(b, file, n)
      BY <3>4, <3>5, <3>6, <3>7 DEF SchUpTo
    <3> QED
      BY <2>2, <3>8 DEF b
  <2> QED
    BY <2>3, <2>4
<1>9. N \notin T
  BY <1>8
<1> QED
  <2>1. N \in 0 .. N
    BY <1>1
  <2> QED
    BY <1>6, <1>9, <2>1

-----------------------------------------------------------------------------
(* Loading a message table file.                                           *)

MsgAcc == [ok : BOOLEAN, go : BOOLEAN, tbl : MsgTable, cmd : MsgTable]

\* The first n records have been read into acc.
MsgUpTo(acc, file, n) ==
  /\ acc \in MsgAcc
  /\ acc.ok => acc.go
  /\ acc.ok => \A m \in 0 .. MSGS - 1 :
       /\ (\A i \in 1 .. n : file[i].id # m) => acc.tbl[m] = msgData[m]
       /\ \A i \in 1 .. n :
            (file[i].id = m /\ \A j \in i + 1 .. n : file[j].id # m)
              => acc.tbl[m] = file[i].topic /\ acc.cmd[m] = file[i].topic

LEMMA MsgStepFact ==
  ASSUME NEW acc \in MsgAcc, NEW r \in MsgRecord, acc.ok => acc.go
  PROVE  /\ MsgStep(acc, r) \in MsgAcc
         /\ MsgStep(acc, r).ok => /\ acc.ok /\ MsgStep(acc, r).go
                                  /\ r.id \in 0 .. MSGS - 1
                                  /\ MsgStep(acc, r).tbl[r.id] = r.topic
                                  /\ MsgStep(acc, r).cmd[r.id] = r.topic
                                  /\ \A m \in 0 .. MSGS - 1 : m # r.id =>
                                       /\ MsgStep(acc, r).tbl[m] = acc.tbl[m]
                                       /\ MsgStep(acc, r).cmd[m] = acc.cmd[m]
<1>1. /\ acc.ok \in BOOLEAN /\ acc.go \in BOOLEAN
      /\ acc.tbl \in [0 .. MSGS - 1 -> MsgIds] /\ acc.cmd \in [0 .. MSGS - 1 -> MsgIds]
      /\ acc = [ok |-> acc.ok, go |-> acc.go, tbl |-> acc.tbl, cmd |-> acc.cmd]
  BY DEF MsgAcc, MsgTable
<1>2. r.id \in Nat /\ r.topic \in MsgIds /\ MSGS \in Nat
  BY SizesAssumption DEF MsgRecord
<1>3. CASE ~acc.go
  <2>1. MsgStep(acc, r) = acc
    BY <1>3 DEF MsgStep
  <2> QED
    BY <1>3, <2>1
<1>4. CASE acc.go /\ r.id >= MSGS
  <2>1. MsgStep(acc, r) = [ok |-> FALSE, go |-> acc.go, tbl |-> acc.tbl, cmd |-> acc.cmd]
    BY <1>1, <1>4 DEF MsgStep
  <2> QED
    BY <1>1, <2>1 DEF MsgAcc, MsgTable
<1>5. CASE acc.go /\ ~(r.id >= MSGS) /\ ~r.complete
  <2>1. MsgStep(acc, r) = [ok |-> FALSE, go |-> FALSE, tbl |-> acc.tbl, cmd |-> acc.cmd]
    BY <1>1, <1>5 DEF MsgStep
  <2> QED
    BY <1>1, <2>1 DEF MsgAcc, MsgTable
<1>6. CASE acc.go /\ ~(r.id >= MSGS) /\ r.complete
  <2> DEFINE t == [acc.tbl EXCEPT ![r.id] = r.topic]
             c == [acc.cmd EXCEPT ![r.id] = r.topic]
  <2>1. MsgStep(acc, r) = [ok |-> acc.ok, go |-> acc.go, tbl |-> t, cmd |-> c]
    BY <1>1, <1>6 DEF MsgStep
  <2>2. r.id \in 0 .. MSGS - 1
    BY <1>2, <1>6
  <2>3. /\ t \in [0 .. MSGS - 1 -> MsgIds] /\ c \in [0 .. MSGS - 1 -> MsgIds]
        /\ t[r.id] = r.topic /\ c[r.id] = r.topic
        /\ \A m \in 0 .. MSGS - 1 : m # r.id => t[m] = acc.tbl[m] /\ c[m] = acc.cmd[m]
    BY <1>1, <1>2, <2>2
  <2> HIDE DEF t, c
  <2> QED
    BY <1>1, <1>6, <2>1, <2>2, <2>3 DEF MsgAcc, MsgTable
<1> QED
  BY <1>3, <1>4, <1>5, <1>6

LEMMA LoadMsgFact ==
  ASSUME NEW file \in Seq(MsgRecord), msgData \in MsgTable, msgCmd \in MsgTable
  PROVE  MsgUpTo(LoadMsg(file), file, Len(file))
<1> DEFINE N == Len(file)
           x0 == [ok |-> file # <<>>, go |-> TRUE, tbl |-> msgData, cmd |-> msgCmd]
           X == {x \in MsgAcc : x.ok => x.go}
           step == [p \in (1 .. N) \X X |-> MsgStep(p[2], file[p[1]])]
           Solves(f) == f = [i \in 0 .. N |-> IF i = 0 THEN x0 ELSE MsgStep(f[i - 1], file[i])]
           read == CHOOSE f : Solves(f)
           T == {n \in 0 .. N : ~MsgUpTo(read[n], file, n)}
<1>1. N \in Nat /\ (\A i \in 1 .. N : file[i] \in MsgRecord) /\ x0 \in X
  <2>1. N \in Nat /\ \A i \in 1 .. N : file[i] \in MsgRecord
    BY ElementOfSeq
  <2> QED
    BY <2>1 DEF MsgAcc
<1>2. step \in [(1 .. N) \X X -> X]
  <2>1. \A p \in (1 .. N) \X X : MsgStep(p[2], file[p[1]]) \in X
    BY <1>1, MsgStepFact
  <2> QED
    BY <2>1
<1>3. PICK g \in [0 .. N -> X] : g[0] = x0 /\ \A n \in 1 .. N : g[n] = step[<<n, g[n - 1]>>]
  <2>1. x0 \in X /\ N \in Nat
    BY <1>1
  <2>2. step \in Steps(X, N)
    BY <1>2 DEF Steps
  <2>3. \E g : Solution(X, N, x0, step, g)
    <3> HIDE DEF step, x0, N, X
    <3> QED
      BY <2>1, <2>2, RecursionExists
  <2> QED
    BY <2>3 DEF Solution
<1>4. Solves(g)
  <2>1. \A n \in 1 .. N : g[n] = MsgStep(g[n - 1], file[n])
    <3> TAKE n \in 1 .. N
    <3>1. <<n, g[n - 1]>> \in (1 .. N) \X X
      <4>1. n - 1 \in 0 .. N
        BY <1>1
      <4> QED
        BY <1>3, <4>1
    <3> HIDE DEF x0, N, X
    <3> QED
      BY <1>3, <3>1
  <2> HIDE DEF x0, step, X
  <2>2. \A n \in 0 .. N : g[n] = IF n = 0 THEN x0 ELSE MsgStep(g[n - 1], file[n])
    BY <1>1, <1>3, <2>1
  <2> QED
    BY <1>3, <2>2
<1>5. Solves(read)
  <2> HIDE DEF Solves
  <2> QED
    BY <1>4
<1>6. LoadMsg(file) = read[N]
  BY DEF LoadMsg
<1>7. read[0] = x0 /\ \A n \in 1 .. N : read[n] = MsgStep(read[n - 1], file[n])
  <2> HIDE DEF x0, read
  <2> QED
    BY <1>1, <1>5
<1> HIDE DEF read
<1>8. T = {}
  <2> SUFFICES ASSUME T # {} PROVE FALSE
      OBVIOUS
  <2>1. PICK n \in T : \A u \in T : n <= u
    <3>1. T \in SUBSET Nat
      BY <1>1
    <3> HIDE DEF T
    <3> QED
      BY <3>1, NatMin
  <2>2. n \in 0 .. N /\ ~MsgUpTo(read[n], file, n)
    BY <2>1
  <2>3. CASE n = 0
    <3>1. MsgUpTo(x0, file, 0)
      BY <1>1 DEF MsgUpTo
    <3> HIDE DEF x0
    <3> QED
      BY <1>7, <2>2, <2>3, <3>1
  <2>4. CASE n # 0
    <3>1. n \in 1 .. N /\ n - 1 \in 0 .. N
      BY <1>1, <2>2, <2>4
    <3>2. MsgUpTo(read[n - 1], file, n - 1)
      <4>1. n - 1 \notin T
        <5> HIDE DEF T
        <5> QED
          BY <2>1, <3>1
      <4> QED
        BY <3>1, <4>1
    <3> DEFINE a == read[n - 1]
               b == read[n]
               r == file[n]
    <3>3. b = MsgStep(a, r) /\ a \in MsgAcc /\ (a.ok => a.go) /\ r \in MsgRecord
      BY <1>1, <1>7, <3>1, <3>2 DEF MsgUpTo
    <3>4. /\ b \in MsgAcc
          /\ b.ok => /\ a.ok /\ b.go
                     /\ b.tbl[r.id] = r.topic /\ b.cmd[r.id] = r.topic
                     /\ \A m \in 0 .. MSGS - 1 : m # r.id =>
                          b.tbl[m] = a.tbl[m] /\ b.cmd[m] = a.cmd[m]
      <4>1. \A x \in MsgAcc, y \in MsgRecord : (x.ok => x.go) =>
              /\ MsgStep(x, y) \in MsgAcc
              /\ MsgStep(x, y).ok => /\ x.ok /\ MsgStep(x, y).go
                                     /\ MsgStep(x, y).tbl[y.id] = y.topic
                                     /\ MsgStep(x, y).cmd[y.id] = y.topic
                                     /\ \A m \in 0 .. MSGS - 1 : m # y.id =>
                                          /\ MsgStep(x, y).tbl[m] = x.tbl[m]
                                          /\ MsgStep(x, y).cmd[m] = x.cmd[m]
        BY MsgStepFact
      <4> HIDE DEF a, b, r
      <4> QED
        BY <3>3, <4>1
    <3> HIDE DEF a, b
    <3>5. ASSUME b.ok, NEW m \in 0 .. MSGS - 1, \A i \in 1 .. n : file[i].id # m
          PROVE  b.tbl[m] = msgData[m]
      <4>1. a.ok /\ (\A i \in 1 .. n - 1 : file[i].id # m) /\ r.id # m
        BY <3>1, <3>4, <3>5
      <4>2. a.tbl[m] = msgData[m]
        BY <3>2, <3>5, <4>1 DEF MsgUpTo, a
      <4> QED
        BY <3>4, <3>5, <4>1, <4>2
    <3>6. ASSUME b.ok, NEW m \in 0 .. MSGS - 1, NEW i \in 1 .. n, file[i].id = m,
                 \A j \in i + 1 .. n : file[j].id # m
          PROVE  b.tbl[m] = file[i].topic /\ b.cmd[m] = file[i].topic
      <4>1. CASE i = n
        BY <3>4, <3>6, <4>1
      <4>2. CASE i # n
        <5>0. n \in Nat /\ i \in 1 .. n - 1 /\ n \in i + 1 .. n
          BY <1>1, <3>1, <4>2
        <5>1. (\A j \in i + 1 .. n - 1 : file[j].id # m) /\ r.id # m /\ a.ok
          BY <5>0, <3>4, <3>6
        <5>2. a.tbl[m] = file[i].topic /\ a.cmd[m] = file[i].topic
          BY <3>2, <3>6, <5>0, <5>1 DEF MsgUpTo, a
        <5> QED
          BY <3>4, <3>6, <5>1, <5>2
      <4> QED
        BY <4>1, <4>2
    <3>7. MsgUpTo(b, file, n)
      BY <3>4, <3>5, <3>6 DEF MsgUpTo
    <3> QED
      BY <2>2, <3>7 DEF b
  <2> QED
    BY <2>3, <2>4
<1>9. N \notin T
  BY <1>8
<1> QED
  <2>1. N \in 0 .. N
    BY <1>1
  <2> QED
    BY <1>6, <1>9, <2>1

-----------------------------------------------------------------------------
(* Dumps.                                                                  *)

LEMMA EntryOfFact ==
  /\ SLOTS * ACTS \in Nat
  /\ \A i \in 1 .. SLOTS * ACTS : EntryOf(i) \in Entries
  /\ \A e \in Entries : \E i \in 1 .. SLOTS * ACTS :
       /\ EntryOf(i) = e
       /\ \A j \in 1 .. SLOTS * ACTS : EntryOf(j) = e => j = i
<1>1. SLOTS \in Nat \ {0} /\ ACTS \in Nat \ {0}
  BY SizesAssumption
<1>2. SLOTS * ACTS \in Nat
  BY <1>1
<1>3. ASSUME NEW i \in 1 .. SLOTS * ACTS PROVE EntryOf(i) \in Entries
  <2>1. i - 1 \in 0 .. SLOTS * ACTS - 1
    BY <1>2
  <2> QED
    BY <1>1, <2>1, RowFact DEF EntryOf, Entries
<1>4. ASSUME NEW e \in Entries
      PROVE  \E i \in 1 .. SLOTS * ACTS :
               /\ EntryOf(i) = e
               /\ \A j \in 1 .. SLOTS * ACTS : EntryOf(j) = e => j = i
  <2>1. e[1] \in 0 .. SLOTS - 1 /\ e[2] \in 0 .. ACTS - 1 /\ e = <<e[1], e[2]>>
    BY DEF Entries
  <2> DEFINE k == e[1] * ACTS + e[2]
  <2>2. k \in 0 .. SLOTS * ACTS - 1 /\ k \div ACTS = e[1] /\ k % ACTS = e[2]
    BY <1>1, <2>1, PlaceFact
  <2>3. ASSUME NEW j \in 1 .. SLOTS * ACTS, EntryOf(j) = e PROVE j = k + 1
    <3>1. (j - 1) \div ACTS = e[1] /\ (j - 1) % ACTS = e[2]
      BY <2>3 DEF EntryOf
    <3> DEFINE a == j - 1
    <3>2. a \in Nat /\ a \div ACTS = e[1] /\ a % ACTS = e[2]
      BY <1>2, <3>1
    <3> HIDE DEF a
    <3>3. a = (a \div ACTS) * ACTS + (a % ACTS)
      BY <1>1, <3>2, DivModFact
    <3>4. a = k
      <4> DEFINE x == a \div ACTS
                 y == a % ACTS
      <4>1. a = x * ACTS + y /\ x = e[1] /\ y = e[2]
        BY <3>2, <3>3
      <4> HIDE DEF x, y
      <4> QED
        BY <4>1 DEF k
    <3>5. j - 1 = k
      BY <3>4 DEF a
    <3> QED
      BY <1>2, <3>5
  <2> HIDE DEF k
  <2>4. k + 1 \in 1 .. SLOTS * ACTS /\ k + 1 - 1 = k
    BY <1>2, <2>2
  <2>5. EntryOf(k + 1) = e
    BY <2>1, <2>2, <2>4 DEF EntryOf
  <2> QED
    BY <2>3, <2>4, <2>5
<1> QED
  BY <1>2, <1>3, <1>4

LEMMA SchDumpFact ==
  ASSUME NEW t \in Table
  PROVE  /\ SchDump(t) \in Seq(SchRecord)
         /\ Len(SchDump(t)) = SLOTS * ACTS
         /\ \A i \in 1 .. SLOTS * ACTS : /\ Good(SchDump(t)[i])
                                         /\ At(SchDump(t)[i]) = EntryOf(i)
                                         /\ ToEntry(SchDump(t)[i]) = t[EntryOf(i)]
<1> DEFINE N == SLOTS * ACTS
           rec(i) == [slot |-> EntryOf(i)[1], act |-> EntryOf(i)[2],
                      enabled |-> t[EntryOf(i)].enabled, period |-> t[EntryOf(i)].period,
                      offset |-> t[EntryOf(i)].offset, msg |-> t[EntryOf(i)].msg,
                      complete |-> TRUE]
<1>1. N \in Nat /\ \A i \in 1 .. N : EntryOf(i) \in Entries
  BY EntryOfFact
<1>2. SchDump(t) = [i \in 1 .. N |-> rec(i)]
  BY DEF SchDump, Dumped
<1>3. ASSUME NEW i \in 1 .. N
      PROVE  /\ rec(i) \in SchRecord /\ Good(rec(i))
             /\ At(rec(i)) = EntryOf(i) /\ ToEntry(rec(i)) = t[EntryOf(i)]
  <2> DEFINE e == EntryOf(i)
  <2>1. e \in Entries
    BY <1>1
  <2> HIDE DEF e
  <2>2. /\ e[1] \in 0 .. SLOTS - 1 /\ e[2] \in 0 .. ACTS - 1 /\ e = <<e[1], e[2]>>
        /\ SLOTS \in Nat /\ ACTS \in Nat
    BY <2>1, SizesAssumption DEF Entries
  <2>3. t[e] \in Entry
    BY <2>1 DEF Table
  <2>4. rec(i) = [slot |-> e[1], act |-> e[2], enabled |-> t[e].enabled, period |-> t[e].period,
                  offset |-> t[e].offset, msg |-> t[e].msg, complete |-> TRUE]
    BY DEF e
  <2> HIDE DEF rec
  <2>5. Good(rec(i)) /\ At(rec(i)) = e
    BY <2>2, <2>4 DEF Good, IndexOk, At
  <2>6. Byte \in Nat \ {0} /\ \A x \in 0 .. Byte - 1 : x \in Nat /\ x % Byte = x
    BY SizesAssumption
  <2>7. rec(i) \in SchRecord
    BY <2>2, <2>3, <2>4, <2>6 DEF SchRecord, Entry
  <2>8. ToEntry(rec(i)) = t[e]
    BY <2>3, <2>4, <2>6 DEF ToEntry, Entry
  <2> QED
    BY <2>5, <2>7, <2>8 DEF e
<1> HIDE DEF N, rec
<1>4. SchDump(t) \in Seq(SchRecord) /\ Len(SchDump(t)) = N
  BY <1>1, <1>2, <1>3
<1>5. \A i \in 1 .. N : SchDump(t)[i] = rec(i)
  BY <1>2
<1> QED
  BY <1>3, <1>4, <1>5 DEF N

\* A dump brings the table back.
LEMMA RestoreFact ==
  ASSUME NEW t \in Table, sch \in Table
  PROVE  LoadSch(SchDump(t)).ok /\ LoadSch(SchDump(t)).tbl = t
<1> DEFINE d == SchDump(t)
           r == LoadSch(d)
           N == SLOTS * ACTS
<1>1. /\ d \in Seq(SchRecord) /\ Len(d) = N /\ N \in Nat
      /\ \A i \in 1 .. N : Good(d[i]) /\ At(d[i]) = EntryOf(i) /\ ToEntry(d[i]) = t[EntryOf(i)]
  BY SchDumpFact, EntryOfFact
<1> HIDE DEF d
<1>2. SchUpTo(r, d, N)
  BY <1>1, LoadSchFact
<1> HIDE DEF r
<1>3. r.ok /\ r.tbl \in [Entries -> Entry]
  BY <1>1, <1>2 DEF SchUpTo, SchAcc, Table
<1>4. ASSUME NEW e \in Entries PROVE r.tbl[e] = t[e]
  <2>1. PICK i \in 1 .. N : EntryOf(i) = e /\ \A j \in 1 .. N : EntryOf(j) = e => j = i
    BY EntryOfFact
  <2> HIDE DEF N
  <2>2. \A j \in i + 1 .. N : j \in 1 .. N /\ j # i
    BY <1>1
  <2>3. At(d[i]) = e /\ \A j \in i + 1 .. N : At(d[j]) # e
    BY <1>1, <2>1, <2>2
  <2>4. r.tbl[e] = ToEntry(d[i])
    BY <1>2, <1>3, <2>3 DEF SchUpTo
  <2> QED
    BY <1>1, <2>1, <2>4
<1>5. r.tbl = t
  BY <1>3, <1>4 DEF Table
<1> QED
  BY <1>3, <1>5 DEF r, d

LEMMA MsgDumpFact ==
  ASSUME msgData \in MsgTable
  PROVE  MsgDump \in Seq(MsgRecord)
<1>1. MSGS \in Nat
  BY SizesAssumption
<1>2. ASSUME NEW i \in 1 .. MSGS
      PROVE  [id |-> i - 1, topic |-> Swapped[msgData[i - 1]], complete |-> TRUE] \in MsgRecord
  <2>1. i - 1 \in 0 .. MSGS - 1 /\ i - 1 \in Nat
    BY <1>1
  <2> QED
    BY <2>1, MessagesAssumption DEF MsgTable, MsgRecord
<1> QED
  BY <1>1, <1>2 DEF MsgDump

-----------------------------------------------------------------------------
(* Waiting.                                                                *)

\* The distance to the next pass in which an entry is due falls by one a pass,
\* and is a period after that pass.
LEMMA DistanceFact ==
  ASSUME NEW p \in Nat \ {0}, NEW o \in 0 .. p - 1, NEW n \in Nat
  PROVE  /\ Distance(n, p, o) \in 0 .. p - 1
         /\ Distance(n, p, o) = 0 <=> n % p = o
         /\ Distance(n + 1, p, o) = IF n % p = o THEN p - 1 ELSE Distance(n, p, o) - 1
<1> DEFINE r == n % p
           s == (n + 1) % p
<1>1. r \in 0 .. p - 1 /\ s = IF r = p - 1 THEN 0 ELSE r + 1
  BY NextMod
<1>2. /\ Distance(n, p, o) = IF r <= o THEN o - r ELSE o - r + p
      /\ Distance(n + 1, p, o) = IF s <= o THEN o - s ELSE o - s + p
  BY DEF Distance
<1> HIDE DEF r, s
<1>3. Distance(n, p, o) \in 0 .. p - 1 /\ (Distance(n, p, o) = 0 <=> r = o)
  BY <1>1, <1>2
<1>4. Distance(n + 1, p, o) = IF r = o THEN p - 1 ELSE Distance(n, p, o) - 1
  BY <1>1, <1>2
<1> QED
  BY <1>3, <1>4 DEF r

\* The distance does not see the pass counter wrap.
LEMMA WrapFact ==
  ASSUME NEW p \in Nat \ {0}, PassMod % p = 0, NEW o
  PROVE  Distance(0, p, o) = Distance(PassMod, p, o)
<1>1. 0 % p = 0
  BY NextMod
<1> QED
  BY <1>1 DEF Distance

-----------------------------------------------------------------------------
(* The parts of the invariant that several actions share.                  *)

LEMMA LoadedFact ==
  ASSUME NEW file \in Seq(SchRecord), sch \in Table
  PROVE  LoadSch(file).ok \in BOOLEAN /\ Commit(LoadSch(file), sch) \in Table
<1> DEFINE r == LoadSch(file)
<1>1. r \in SchAcc
  BY LoadSchFact DEF SchUpTo
<1> HIDE DEF r
<1>2. r.ok \in BOOLEAN /\ Commit(r, sch) \in Table
  BY <1>1 DEF SchAcc, Commit
<1> QED
  BY <1>2 DEF r

LEMMA MsgLoadedFact ==
  ASSUME NEW file \in Seq(MsgRecord), msgData \in MsgTable, msgCmd \in MsgTable
  PROVE  /\ LoadMsg(file).ok \in BOOLEAN
         /\ Commit(LoadMsg(file), msgData) \in MsgTable /\ LoadMsg(file).cmd \in MsgTable
<1> DEFINE r == LoadMsg(file)
<1>1. r \in MsgAcc
  BY LoadMsgFact DEF MsgUpTo
<1> HIDE DEF r
<1>2. r.ok \in BOOLEAN /\ Commit(r, msgData) \in MsgTable /\ r.cmd \in MsgTable
  BY <1>1 DEF MsgAcc, Commit
<1> QED
  BY <1>2 DEF r

\* The files that can be loaded.
LEMMA FileFact ==
  ASSUME DumpTypeOK
  PROVE  /\ SchFiles \cup ({dumps.sch} \ {<<>>}) \subseteq Seq(SchRecord)
         /\ MsgFiles \cup ({dumps.msg} \ {<<>>}) \subseteq Seq(MsgRecord)
         /\ DefaultSch \in Seq(SchRecord) /\ DefaultMsg \in Seq(MsgRecord)
BY FilesAssumption DEF DumpTypeOK

LEMMA WaitBegins ==
  ASSUME NEW e \in Entries, sch' \in Table, nextSlot' \in 0 .. SLOTS - 1,
         passes' \in 0 .. PassMod - 1, wait'[e] = 0, timed'[e] = FALSE
  PROVE  WaitOK(e)'
<1> DEFINE p == sch'[e].period
           o == sch'[e].offset
           n == IF nextSlot' <= e[1] THEN passes' ELSE passes' + 1
<1>1. n \in Nat /\ p \in Nat /\ o \in Nat
  BY SizesAssumption DEF Table, Entry
<1> HIDE DEF p, o, n
<1>2. p # 0 /\ o < p => Distance(n, p, o) \in 0 .. p - 1
  <2> SUFFICES ASSUME p # 0, o < p PROVE Distance(n, p, o) \in 0 .. p - 1
      OBVIOUS
  <2>1. p \in Nat \ {0} /\ o \in 0 .. p - 1
    BY <1>1
  <2> QED
    BY <1>1, <2>1, DistanceFact
<1>3. p # 0 /\ o < p => wait'[e] + Distance(n, p, o) < p
  BY <1>1, <1>2
<1> QED
  BY <1>3 DEF WaitOK, Regular, NextPass, p, o, n

LEMMA WaitStays ==
  ASSUME NEW e, WaitOK(e), sch'[e] = sch[e], wait'[e] = wait[e], timed'[e] = timed[e],
         nextSlot' = nextSlot, passes' = passes
  PROVE  WaitOK(e)'
BY DEF WaitOK, Regular, NextPass

LEMMA RestartFact ==
  ASSUME TblTypeOK, HistoryOK, NEW s, Restart(s), campaign' = campaign,
         sch' \in Table, nextSlot' \in 0 .. SLOTS - 1, passes' \in 0 .. PassMod - 1,
         \A e \in Watched \ s : sch'[e] = sch[e] /\ nextSlot' = nextSlot /\ passes' = passes,
         op'.kind = "startup" => Entries \subseteq s
  PROVE  /\ HistoryOK'
         /\ wait' \in [Watched' -> 0 .. Byte] /\ timed' \in [Watched' -> BOOLEAN]
<1>1. Watched \subseteq Entries /\ Watched' = Watched /\ Byte \in Nat
  BY CampaignsAssumption, SizesAssumption DEF TblTypeOK, Watched, Campaign
<1>2. wait \in [Watched -> 0 .. Byte] /\ timed \in [Watched -> BOOLEAN]
  BY DEF TblTypeOK
<1>3. ASSUME NEW e \in Watched
      PROVE  /\ wait'[e] = IF e \in s THEN 0 ELSE wait[e]
             /\ timed'[e] = (timed[e] /\ e \notin s)
  BY DEF Restart
<1>4. wait' \in [Watched' -> 0 .. Byte]
  BY <1>1, <1>2 DEF Restart
<1>5. timed' \in [Watched' -> BOOLEAN]
  BY <1>1, <1>2 DEF Restart
<1>6. ASSUME NEW e \in Watched PROVE WaitOK(e)'
  <2>1. CASE e \in s
    <3>1. wait'[e] = 0 /\ timed'[e] = FALSE /\ e \in Entries
      BY <1>1, <1>2, <1>3, <2>1
    <3> QED
      BY <3>1, WaitBegins
  <2>2. CASE e \notin s
    <3>1. wait'[e] = wait[e]
      BY <1>3, <2>2
    <3>2. timed'[e] = timed[e]
      BY <1>2, <1>3, <2>2
    <3> QED
      BY <2>2, <3>1, <3>2, WaitStays DEF HistoryOK
  <2> QED
    BY <2>1, <2>2
<1>7. ASSUME op'.kind = "startup", NEW e \in Watched PROVE wait'[e] = 0 /\ ~timed'[e]
  BY <1>1, <1>2, <1>3, <1>7
<1> QED
  BY <1>1, <1>4, <1>5, <1>6, <1>7 DEF HistoryOK

\* A step that leaves the waits, the clock and the scheduler table alone.
LEMMA HistoryStays ==
  ASSUME TblTypeOK, HistoryOK, campaign' = campaign, sch' = sch, nextSlot' = nextSlot,
         passes' = passes, wait' = wait, timed' = timed, op'.kind # "startup"
  PROVE  HistoryOK'
<1>1. Watched' = Watched
  BY DEF Watched
<1>2. \A e \in Watched : WaitOK(e)'
  BY WaitStays DEF HistoryOK
<1> QED
  BY <1>1, <1>2 DEF HistoryOK

LEMMA FilesStay ==
  ASSUME DumpTypeOK, DumpOK, dumps' = dumps, dumped' = dumped, op'.kind # "load sch"
  PROVE  DumpTypeOK' /\ DumpOK' /\ DumpRestores'
BY DEF DumpTypeOK, DumpOK, DumpRestores

-----------------------------------------------------------------------------
(* Every step keeps the invariant.                                         *)

LEMMA InitTables == TblInit => TblInv
<1> SUFFICES ASSUME TblInit PROVE TblInv
    OBVIOUS
<1> USE DEF TblInit
<1>1. SLOTS \in Nat /\ SLOTS >= 2 /\ PassMod \in Nat \ {0} /\ Byte \in Nat \ {0} /\ MSGS \in Nat
  BY SizesAssumption
<1>2. ZeroEntry \in Entry /\ ZeroEntry.enabled = FALSE
  BY <1>1 DEF ZeroEntry, Entry
<1>3. sch \in Table /\ dumped \in Table /\ \A e \in Entries : sch[e].enabled = FALSE
  BY <1>2 DEF Table
<1>4. msgData \in MsgTable /\ msgCmd \in MsgTable
  BY MessagesAssumption DEF MsgTable
<1>5. Watched \subseteq Entries
  BY CampaignsAssumption DEF Watched, Campaign
<1>6. TblTypeOK
  <2>1. status \in [{"sch", "msg"} -> {"VALID", "INVALID"}]
    OBVIOUS
  <2>2. wait \in [Watched -> 0 .. Byte]
    <3>1. 0 \in 0 .. Byte
      BY <1>1
    <3> QED
      BY <3>1
  <2>4. timed \in [Watched -> BOOLEAN] /\ crashed \in BOOLEAN
    BY Zenon
  <2>3. nextSlot \in 0 .. SLOTS - 1 /\ passes \in 0 .. PassMod - 1
    <3>1. nextSlot = 0 /\ passes = 0
      OBVIOUS
    <3> QED
      BY <1>1, <3>1
  <2> QED
    BY <1>3, <1>4, <2>1, <2>2, <2>3, <2>4 DEF TblTypeOK
<1>7. HistoryOK
  BY <1>3, <1>5 DEF HistoryOK, WaitOK
<1>8. DumpTypeOK /\ DumpOK /\ DumpRestores
  BY DEF DumpTypeOK, DumpOK, DumpRestores
<1> QED
  BY <1>6, <1>7, <1>8 DEF TblInv

LEMMA StatusFact == \A ok : Status(ok) \in {"VALID", "INVALID"}
BY DEF Status

LEMMA StartupTables ==
  ASSUME TblInv, campaign' = campaign, Startup
  PROVE  TblInv'
<1> USE DEF TblInv
<1>1. sch' \in Table /\ msgData' \in MsgTable /\ msgCmd' \in MsgTable
  <2>1. /\ Commit(LoadSch(DefaultSch), sch) \in Table
        /\ Commit(LoadMsg(DefaultMsg), msgData) \in MsgTable /\ LoadMsg(DefaultMsg).cmd \in MsgTable
    BY FileFact, LoadedFact, MsgLoadedFact DEF TblTypeOK
  <2> QED
    BY <2>1 DEF Startup, TblTypeOK
<1>2. status' \in [{"sch", "msg"} -> {"VALID", "INVALID"}]
  BY StatusFact DEF Startup
<1>3. op'.kind = "none" /\ op.kind = "startup"
  BY DEF Startup, NoOp
<1>4. UNCHANGED <<clock, files, history, crashed>>
  BY DEF Startup
<1>5. Watched \subseteq Entries /\ Watched' = Watched
  BY CampaignsAssumption DEF TblTypeOK, Watched, Campaign
<1>6. TblTypeOK'
  BY <1>1, <1>2, <1>4, <1>5 DEF TblTypeOK, clock, files, history, Watched
<1>7. ASSUME NEW e \in Watched PROVE WaitOK(e)'
  <2>1. wait'[e] = 0 /\ timed'[e] = FALSE
    <3>1. wait[e] = 0 /\ ~timed[e] /\ timed[e] \in BOOLEAN
      BY <1>3 DEF HistoryOK, TblTypeOK
    <3> QED
      BY <1>4, <3>1 DEF history
  <2>2. nextSlot' \in 0 .. SLOTS - 1 /\ passes' \in 0 .. PassMod - 1
    BY <1>6 DEF TblTypeOK
  <2> QED
    BY <1>1, <1>5, <2>1, <2>2, WaitBegins
<1>8. HistoryOK'
  BY <1>3, <1>5, <1>7 DEF HistoryOK
<1>9. DumpTypeOK' /\ DumpOK' /\ DumpRestores'
  BY <1>3, <1>4, FilesStay DEF files
<1> QED
  BY <1>6, <1>8, <1>9

LEMMA LoadSchTables ==
  ASSUME TblInv, campaign' = campaign, NEW file \in Seq(SchRecord), LoadSchTbl(file)
  PROVE  TblInv'
<1> USE DEF TblInv
<1> DEFINE r == LoadSch(file)
<1>1. r.ok \in BOOLEAN /\ Commit(r, sch) \in Table
  BY LoadedFact DEF TblTypeOK
<1>2. PICK readable \in BOOLEAN :
        /\ sch' = IF readable THEN Commit(r, sch) ELSE sch
        /\ status' = [status EXCEPT !.sch = Status(readable /\ r.ok)]
        /\ op' = [kind |-> "load sch", file |-> file, readable |-> readable, ok |-> readable /\ r.ok]
  BY DEF LoadSchTbl
<1>3. Restart(Changed) /\ UNCHANGED <<msgData, msgCmd, clock, files, crashed>>
  BY DEF LoadSchTbl
<1> HIDE DEF r
<1>4. sch' \in Table
  BY <1>1, <1>2 DEF TblTypeOK
<1>5. op'.kind = "load sch" /\ op'.file = file /\ op'.readable = readable /\ op'.ok = (readable /\ r.ok)
  BY <1>2
<1>6. nextSlot' = nextSlot /\ passes' = passes /\ nextSlot' \in 0 .. SLOTS - 1 /\ passes' \in 0 .. PassMod - 1
  BY <1>3 DEF clock, TblTypeOK
<1>7. \A e \in Watched \ Changed : sch'[e] = sch[e]
  BY CampaignsAssumption DEF Changed, TblTypeOK, Watched, Campaign
<1>8. /\ HistoryOK'
      /\ wait' \in [Watched' -> 0 .. Byte] /\ timed' \in [Watched' -> BOOLEAN]
  BY <1>3, <1>4, <1>5, <1>6, <1>7, RestartFact
<1>9. TblTypeOK'
  <2>1. status' \in [{"sch", "msg"} -> {"VALID", "INVALID"}]
    BY <1>2, StatusFact DEF TblTypeOK
  <2> QED
    BY <1>3, <1>4, <1>6, <1>8, <2>1 DEF TblTypeOK, files
<1>10. DumpTypeOK' /\ DumpOK'
  BY <1>3 DEF DumpTypeOK, DumpOK, files
<1>11. DumpRestores'
  <2> SUFFICES ASSUME readable, file = dumps'.sch, dumps'.sch # <<>>
               PROVE  op'.ok /\ sch' = dumped'
      BY <1>5 DEF DumpRestores
  <2>1. file = SchDump(dumped) /\ dumped' = dumped /\ dumped \in Table /\ sch \in Table
    BY <1>3 DEF DumpOK, files, TblTypeOK
  <2>2. r.ok /\ r.tbl = dumped
    BY <2>1, RestoreFact DEF r
  <2>3. op'.ok
    BY <1>5, <2>2
  <2> QED
    BY <1>2, <2>1, <2>2, <2>3 DEF Commit
<1> QED
  BY <1>8, <1>9, <1>10, <1>11

LEMMA LoadMsgTables ==
  ASSUME TblInv, campaign' = campaign, NEW file \in Seq(MsgRecord), LoadMsgTbl(file)
  PROVE  TblInv'
<1> USE DEF TblInv
<1>1. msgData' \in MsgTable /\ msgCmd' \in MsgTable
  <2>1. Commit(LoadMsg(file), msgData) \in MsgTable /\ LoadMsg(file).cmd \in MsgTable
    BY MsgLoadedFact DEF TblTypeOK
  <2> QED
    BY <2>1 DEF LoadMsgTbl, TblTypeOK
<1>2. status' \in [{"sch", "msg"} -> {"VALID", "INVALID"}]
  BY StatusFact DEF LoadMsgTbl, TblTypeOK
<1>3. UNCHANGED <<sch, clock, files, history, crashed>> /\ op'.kind = "load msg"
  <2>1. PICK ok : op' = [kind |-> "load msg", file |-> file, ok |-> ok]
    BY DEF LoadMsgTbl
  <2>2. op'.kind = "load msg"
    BY <2>1
  <2>3. UNCHANGED <<sch, clock, files, history, crashed>>
    BY DEF LoadMsgTbl
  <2> QED
    BY <2>2, <2>3
<1>4. TblTypeOK'
  BY <1>1, <1>2, <1>3 DEF TblTypeOK, clock, files, history, Watched
<1>5. HistoryOK'
  BY <1>3, HistoryStays DEF clock, history
<1>6. DumpTypeOK' /\ DumpOK' /\ DumpRestores'
  BY <1>3, FilesStay DEF files
<1> QED
  BY <1>4, <1>5, <1>6

LEMMA DumpTables ==
  ASSUME TblInv, campaign' = campaign, DumpTbl
  PROVE  TblInv'
<1> USE DEF TblInv
<1>1. PICK t \in {"sch", "msg"}, created \in BOOLEAN :
       /\ dumps' = IF ~created THEN dumps
                   ELSE [dumps EXCEPT ![t] = IF t = "sch" THEN SchDump(sch) ELSE MsgDump]
       /\ status' = [status EXCEPT ![t] = Status(created)]
       /\ dumped' = IF created /\ t = "sch" THEN sch ELSE dumped
  BY DEF DumpTbl
<1>2. UNCHANGED <<data, clock, history, crashed>> /\ op'.kind = "dump"
  BY DEF DumpTbl
<1>3. status' \in [{"sch", "msg"} -> {"VALID", "INVALID"}]
  BY <1>1, StatusFact DEF TblTypeOK
<1>4. dumped' \in Table
  BY <1>1 DEF TblTypeOK
<1>5. TblTypeOK'
  BY <1>2, <1>3, <1>4 DEF TblTypeOK, data, clock, history, Watched
<1>6. HistoryOK'
  BY <1>2, HistoryStays DEF data, clock, history
<1>7. SchDump(sch) \in Seq(SchRecord) /\ MsgDump \in Seq(MsgRecord)
  BY SchDumpFact, MsgDumpFact DEF TblTypeOK
<1>8. DumpTypeOK' /\ DumpOK'
  <2>1. CASE created /\ t = "sch"
    <3>1. DOMAIN dumps' = {"sch", "msg"} /\ dumps'.sch = SchDump(sch) /\ dumps'.msg = dumps.msg /\ dumped' = sch
      BY <1>1, <2>1 DEF DumpTypeOK
    <3> QED
      BY <1>7, <3>1 DEF DumpTypeOK, DumpOK
  <2>2. CASE created /\ t # "sch"
    <3>1. DOMAIN dumps' = {"sch", "msg"} /\ dumps'.sch = dumps.sch /\ dumps'.msg = MsgDump /\ dumped' = dumped
      BY <1>1, <2>2 DEF DumpTypeOK
    <3> QED
      BY <1>7, <3>1 DEF DumpTypeOK, DumpOK
  <2>3. CASE ~created
    BY <1>1, <2>3 DEF DumpTypeOK, DumpOK
  <2> QED
    BY <2>1, <2>2, <2>3
<1>9. DumpRestores'
  BY <1>2 DEF DumpRestores
<1> QED
  BY <1>5, <1>6, <1>8, <1>9

LEMMA EntryTables ==
  ASSUME TblInv, campaign' = campaign, NEW e \in Entries, NEW enabled \in BOOLEAN,
         NEW period \in Args, NEW offset \in Args, NEW msg \in MsgArgs,
         LoadSchTblEntry(e, enabled, period, offset, msg)
  PROVE  TblInv'
<1> USE DEF TblInv
<1> DEFINE n == ToEntry([enabled |-> enabled, period |-> period, offset |-> offset, msg |-> msg])
<1>1. n \in Entry
  BY ToEntryFact, SizesAssumption
<1>2. sch' = [sch EXCEPT ![e] = n] /\ Restart({e}) /\ op'.kind = "entry"
      /\ UNCHANGED <<msgData, msgCmd, clock, status, files, crashed>>
  BY DEF LoadSchTblEntry
<1> HIDE DEF n
<1>3. sch' \in Table
  BY <1>1, <1>2 DEF TblTypeOK, Table
<1>4. \A x \in Watched \ {e} : sch'[x] = sch[x]
  BY <1>2, CampaignsAssumption DEF TblTypeOK, Table, Watched, Campaign
<1>5. nextSlot' = nextSlot /\ passes' = passes /\ nextSlot' \in 0 .. SLOTS - 1 /\ passes' \in 0 .. PassMod - 1
  BY <1>2 DEF clock, TblTypeOK
<1>6. /\ HistoryOK'
      /\ wait' \in [Watched' -> 0 .. Byte] /\ timed' \in [Watched' -> BOOLEAN]
  BY <1>2, <1>3, <1>4, <1>5, RestartFact
<1>7. TblTypeOK'
  BY <1>2, <1>3, <1>5, <1>6 DEF TblTypeOK, files
<1>8. DumpTypeOK' /\ DumpOK' /\ DumpRestores'
  BY <1>2, FilesStay DEF files
<1> QED
  BY <1>6, <1>7, <1>8

LEMMA CfgTables ==
  ASSUME TblInv, campaign' = campaign, NEW e \in Entries, NEW enabled \in BOOLEAN,
         CfgSchTblEntry(e, enabled)
  PROVE  TblInv'
<1> USE DEF TblInv
<1>1. sch' = [sch EXCEPT ![e].enabled = enabled] /\ Restart({e}) /\ op'.kind = "cfg"
      /\ UNCHANGED <<msgData, msgCmd, clock, status, files, crashed>>
  BY DEF CfgSchTblEntry
<1>2. sch' \in Table
  BY <1>1 DEF TblTypeOK, Table, Entry
<1>3. \A x \in Watched \ {e} : sch'[x] = sch[x]
  BY <1>1, CampaignsAssumption DEF TblTypeOK, Table, Watched, Campaign
<1>4. nextSlot' = nextSlot /\ passes' = passes /\ nextSlot' \in 0 .. SLOTS - 1 /\ passes' \in 0 .. PassMod - 1
  BY <1>1 DEF clock, TblTypeOK
<1>5. /\ HistoryOK'
      /\ wait' \in [Watched' -> 0 .. Byte] /\ timed' \in [Watched' -> BOOLEAN]
  BY <1>1, <1>2, <1>3, <1>4, RestartFact
<1>6. TblTypeOK'
  BY <1>1, <1>2, <1>4, <1>5 DEF TblTypeOK, files
<1>7. DumpTypeOK' /\ DumpOK' /\ DumpRestores'
  BY <1>1, FilesStay DEF files
<1> QED
  BY <1>5, <1>6, <1>7

LEMMA MsgEntryTables ==
  ASSUME TblInv, campaign' = campaign, NEW m \in 0 .. MSGS - 1, NEW id \in MsgIds,
         LoadMsgTblEntry(m, id)
  PROVE  TblInv'
<1> USE DEF TblInv
<1>1. msgData' = [msgData EXCEPT ![m] = Header[id]] /\ op'.kind = "msg entry"
      /\ UNCHANGED <<sch, msgCmd, clock, status, files, history, crashed>>
  BY DEF LoadMsgTblEntry
<1>2. msgData' \in MsgTable
  BY <1>1, MessagesAssumption DEF TblTypeOK, MsgTable
<1>3. TblTypeOK'
  BY <1>1, <1>2 DEF TblTypeOK, clock, files, history, Watched
<1>4. HistoryOK'
  BY <1>1, HistoryStays DEF clock, history
<1>5. DumpTypeOK' /\ DumpOK' /\ DumpRestores'
  BY <1>1, FilesStay DEF files
<1> QED
  BY <1>3, <1>4, <1>5

LEMMA ResetTables ==
  ASSUME TblInv, campaign' = campaign, ResetPassCount
  PROVE  TblInv'
<1> USE DEF TblInv
<1>1. passes' = 0 /\ Restart(Entries) /\ op'.kind = "reset"
      /\ UNCHANGED <<data, nextSlot, status, files, crashed>>
  BY DEF ResetPassCount
<1>2. sch' \in Table /\ nextSlot' \in 0 .. SLOTS - 1 /\ passes' \in 0 .. PassMod - 1
  BY <1>1, SizesAssumption DEF data, TblTypeOK
<1>3. Watched \ Entries = {}
  BY CampaignsAssumption DEF TblTypeOK, Watched, Campaign
<1>4. /\ HistoryOK'
      /\ wait' \in [Watched' -> 0 .. Byte] /\ timed' \in [Watched' -> BOOLEAN]
  BY <1>1, <1>2, <1>3, RestartFact
<1>5. TblTypeOK'
  BY <1>1, <1>2, <1>4 DEF TblTypeOK, data, files
<1>6. DumpTypeOK' /\ DumpOK' /\ DumpRestores'
  BY <1>1, FilesStay DEF files
<1> QED
  BY <1>4, <1>5, <1>6

LEMMA DivideTables ==
  ASSUME TblInv, campaign' = campaign, DivideByZero
  PROVE  TblInv'
<1> USE DEF TblInv
<1>1. crashed' = TRUE /\ op'.kind = "crash" /\ UNCHANGED <<data, clock, status, files, history>>
  BY DEF DivideByZero
<1>2. TblTypeOK'
  BY <1>1 DEF TblTypeOK, data, clock, files, history, Watched
<1>3. HistoryOK'
  BY <1>1, HistoryStays DEF data, clock, history
<1>4. DumpTypeOK' /\ DumpOK' /\ DumpRestores'
  BY <1>1, FilesStay DEF files
<1> QED
  BY <1>2, <1>3, <1>4

LEMMA RestartTables ==
  ASSUME TblInv, campaign' = campaign, RestartProcessor
  PROVE  TblInv'
<1> USE DEF TblInv
<1>1. sch' = [e \in Entries |-> ZeroEntry] /\ passes' = 0 /\ nextSlot' = 0
  BY DEF RestartProcessor
<1>2. msgData' = [m \in 0 .. MSGS - 1 |-> NoMsg] /\ msgCmd' = msgData'
  BY DEF RestartProcessor
<1>3. /\ status' = [t \in {"sch", "msg"} |-> "VALID"] /\ op'.kind = "startup" /\ Restart(Entries)
      /\ crashed' = FALSE /\ dumps' = dumps /\ dumped' = dumped
  BY DEF RestartProcessor, files
<1>4. ZeroEntry \in Entry
  BY SizesAssumption DEF ZeroEntry, Entry
<1>5. sch' \in Table /\ nextSlot' \in 0 .. SLOTS - 1 /\ passes' \in 0 .. PassMod - 1
  BY <1>1, <1>4, SizesAssumption DEF Table
<1>6. msgData' \in MsgTable /\ msgCmd' \in MsgTable
  BY <1>2, MessagesAssumption DEF MsgTable
<1>7. Watched \ Entries = {}
  BY CampaignsAssumption DEF TblTypeOK, Watched, Campaign
<1>8. /\ HistoryOK'
      /\ wait' \in [Watched' -> 0 .. Byte] /\ timed' \in [Watched' -> BOOLEAN]
  BY <1>3, <1>5, <1>7, RestartFact
<1>9. TblTypeOK'
  BY <1>3, <1>5, <1>6, <1>8 DEF TblTypeOK
<1>10. DumpTypeOK' /\ DumpOK' /\ DumpRestores'
  BY <1>3, FilesStay
<1> QED
  BY <1>8, <1>9, <1>10

-----------------------------------------------------------------------------
(* A slot.                                                                 *)

DueNow == {e \in Here : Due(e)}

\* What ProcessSlot does, the entries failed being those it disables.
SlotStep(failed) ==
  /\ failed \subseteq DueNow
  /\ sch' = Disable(failed)
  /\ op'.kind = "slot"
  /\ op'.sent = {[entry |-> e, msg |-> msgCmd[sch[e].msg]] : e \in DueNow \ failed}
  /\ wait' = [e \in Watched |-> IF e \in DueNow THEN 0
                                ELSE IF e \in Here /\ wait[e] < Byte THEN wait[e] + 1
                                ELSE wait[e]]
  /\ timed' = [e \in Watched |-> timed[e] \/ e \in DueNow]

LEMMA SlotFact ==
  ASSUME ProcessSlot
  PROVE  \E failed : SlotStep(failed)
<1>1. PICK refused \in SUBSET DueNow :
        LET failed == NotSent(DueNow, refused) IN
          /\ sch' = Disable(failed)
          /\ op' = [kind |-> "slot",
                    sent |-> {[entry |-> e, msg |-> msgCmd[sch[e].msg]] : e \in DueNow \ failed}]
          /\ wait' = [e \in Watched |-> IF e \in DueNow THEN 0
                                        ELSE IF e \in Here /\ wait[e] < Byte THEN wait[e] + 1
                                        ELSE wait[e]]
          /\ timed' = [e \in Watched |-> timed[e] \/ e \in DueNow]
  BY Zenon DEF ProcessSlot, DueNow
<1> DEFINE failed == NotSent(DueNow, refused)
<1>2. failed \subseteq DueNow
  BY DEF NotSent
<1> HIDE DEF failed
<1>3. op'.kind = "slot"
      /\ op'.sent = {[entry |-> e, msg |-> msgCmd[sch[e].msg]] : e \in DueNow \ failed}
  BY <1>1 DEF failed
<1>4. SlotStep(failed)
  BY <1>1, <1>2, <1>3, Zenon DEF SlotStep, failed
<1> QED
  BY <1>4

\* The clock moves to the next slot: for the entries of the slot it leaves the
\* next pass is one later.
LEMMA ClockFact ==
  ASSUME TblTypeOK, ProcessSlot, NEW e \in Entries, NEW p \in Nat \ {0}, PassMod % p = 0, NEW o
  PROVE  /\ nextSlot' \in 0 .. SLOTS - 1 /\ passes' \in 0 .. PassMod - 1
         /\ NextPass(e) \in Nat
         /\ Distance(NextPass(e)', p, o)
              = Distance(IF e[1] = nextSlot THEN NextPass(e) + 1 ELSE NextPass(e), p, o)
<1>1. /\ SLOTS \in Nat \ {0} /\ PassMod \in Nat \ {0} /\ e[1] \in 0 .. SLOTS - 1
      /\ nextSlot \in 0 .. SLOTS - 1 /\ passes \in 0 .. PassMod - 1
  BY SizesAssumption DEF TblTypeOK, Entries
<1>2. nextSlot' = IF nextSlot + 1 = SLOTS THEN 0 ELSE nextSlot + 1
  <2>1. nextSlot' = (nextSlot + 1) % SLOTS
    BY DEF ProcessSlot
  <2> QED
    BY <1>1, <2>1
<1>3. passes' = IF nextSlot + 1 = SLOTS THEN (IF passes + 1 = PassMod THEN 0 ELSE passes + 1) ELSE passes
  <2>1. passes' = IF nextSlot + 1 = SLOTS THEN (passes + 1) % PassMod ELSE passes
    BY DEF ProcessSlot
  <2>2. (passes + 1) % PassMod = IF passes + 1 = PassMod THEN 0 ELSE passes + 1
    BY <1>1
  <2> QED
    BY <2>1, <2>2
<1>4. nextSlot' \in 0 .. SLOTS - 1 /\ passes' \in 0 .. PassMod - 1 /\ NextPass(e) \in Nat
  BY <1>1, <1>2, <1>3 DEF NextPass
<1> DEFINE next == IF e[1] = nextSlot THEN NextPass(e) + 1 ELSE NextPass(e)
<1>5. NextPass(e)' = next \/ (NextPass(e)' = 0 /\ next = PassMod)
  BY <1>1, <1>2, <1>3 DEF NextPass
<1>6. Distance(NextPass(e)', p, o) = Distance(next, p, o)
  <2> HIDE DEF next
  <2> QED
    BY <1>5, WrapFact
<1> QED
  BY <1>4, <1>6

LEMMA SlotWait ==
  ASSUME TblTypeOK, HistoryOK, ProcessSlot, campaign' = campaign, NEW failed, SlotStep(failed),
         NEW e \in Watched
  PROVE  WaitOK(e)'
<1>1. e \in Entries /\ Byte \in Nat \ {0}
  BY CampaignsAssumption, SizesAssumption DEF TblTypeOK, Watched, Campaign
<1> DEFINE p == sch[e].period
           o == sch[e].offset
           n == NextPass(e)
           w == wait[e]
<1>2. sch[e] \in Entry /\ p \in 0 .. Byte - 1 /\ o \in 0 .. Byte - 1 /\ w \in 0 .. Byte /\ timed[e] \in BOOLEAN
  BY <1>1 DEF TblTypeOK, Table, Entry
<1>3. sch'[e] = IF e \in failed THEN [sch[e] EXCEPT !.enabled = FALSE] ELSE sch[e]
  BY <1>1 DEF SlotStep, Disable
<1>4. SUFFICES ASSUME sch'[e].enabled, Regular(e)', sch'[e].offset < sch'[e].period
               PROVE  LET ahead == Distance(NextPass(e)', sch'[e].period, sch'[e].offset)
                      IN  /\ wait'[e] + ahead < sch'[e].period
                          /\ timed'[e] => wait'[e] + ahead + 1 = sch'[e].period
  BY DEF WaitOK
<1>5. e \notin failed /\ sch'[e] = sch[e]
  BY <1>2, <1>3, <1>4 DEF Entry
<1>6. sch[e].enabled /\ Regular(e) /\ p \in Nat \ {0} /\ o \in 0 .. p - 1 /\ PassMod % p = 0
  BY <1>1, <1>2, <1>4, <1>5 DEF Regular
<1> DEFINE d == Distance(n, p, o)
           dd == Distance(NextPass(e)', p, o)
<1>7. w + d < p /\ (timed[e] => w + d + 1 = p)
  BY <1>6 DEF HistoryOK, WaitOK
<1>8. n \in Nat /\ dd = Distance(IF e[1] = nextSlot THEN n + 1 ELSE n, p, o)
  BY <1>1, <1>6, ClockFact
<1>9. d \in 0 .. p - 1 /\ (d = 0 <=> n % p = o)
      /\ Distance(n + 1, p, o) = IF n % p = o THEN p - 1 ELSE d - 1
  <2>1. p \in Nat \ {0} /\ o \in 0 .. p - 1 /\ n \in Nat /\ d = Distance(n, p, o)
    BY <1>6, <1>8
  <2> HIDE DEF p, o, n, d, dd
  <2> QED
    BY <2>1, DistanceFact
<1>10. e[1] = nextSlot => n = passes
  BY <1>1, SizesAssumption DEF NextPass, TblTypeOK
<1>11. (e \in Here <=> e[1] = nextSlot) /\ (e \in DueNow <=> e[1] = nextSlot /\ n % p = o)
  BY <1>1, <1>6, <1>10 DEF Here, DueNow, Due
<1>12. /\ wait'[e] = IF e \in DueNow THEN 0 ELSE IF e \in Here /\ w < Byte THEN w + 1 ELSE w
       /\ timed'[e] = (timed[e] \/ e \in DueNow)
  BY DEF SlotStep
<1> SUFFICES wait'[e] + dd < p /\ (timed'[e] => wait'[e] + dd + 1 = p)
    BY <1>5
<1> HIDE DEF p, o, n, w, d, dd
<1>13. CASE e \in DueNow
  <2>1. wait'[e] = 0 /\ dd = p - 1
    BY <1>8, <1>9, <1>11, <1>12, <1>13
  <2> QED
    BY <1>6, <2>1
<1>14. CASE e \in Here /\ e \notin DueNow
  <2>1. w < Byte /\ n % p # o
    BY <1>1, <1>2, <1>7, <1>9, <1>6, <1>11, <1>14
  <2>2. wait'[e] = w + 1 /\ dd = d - 1
    BY <1>8, <1>9, <1>11, <1>12, <1>14, <2>1
  <2>3. timed'[e] = timed[e]
    BY <1>2, <1>12, <1>14
  <2> QED
    BY <1>2, <1>6, <1>7, <1>9, <2>2, <2>3
<1>15. CASE e \notin Here
  <2>1. wait'[e] = w /\ dd = d /\ e \notin DueNow
    BY <1>8, <1>11, <1>12, <1>15 DEF d
  <2>2. timed'[e] = timed[e]
    BY <1>2, <1>12, <2>1
  <2> QED
    BY <1>7, <2>1, <2>2
<1> QED
  BY <1>13, <1>14, <1>15

LEMMA SlotTables ==
  ASSUME TblInv, campaign' = campaign, ProcessSlot
  PROVE  TblInv'
<1> USE DEF TblInv
<1>1. PICK failed : SlotStep(failed)
  BY SlotFact
<1>2. UNCHANGED <<msgData, msgCmd, status, files, crashed>>
  BY DEF ProcessSlot
<1>3. Watched \subseteq Entries /\ Watched' = Watched /\ Byte \in Nat
  BY CampaignsAssumption, SizesAssumption DEF TblTypeOK, Watched, Campaign
<1>4. sch' \in Table
  <2>1. ASSUME NEW e \in Entries
        PROVE  sch[e] \in Entry /\ [sch[e] EXCEPT !.enabled = FALSE] \in Entry
    BY DEF Entry, Table, TblTypeOK
  <2>2. sch' = [e \in Entries |-> IF e \in failed THEN [sch[e] EXCEPT !.enabled = FALSE] ELSE sch[e]]
    BY <1>1 DEF SlotStep, Disable
  <2> QED
    BY <2>1, <2>2 DEF Table
<1>5. wait' \in [Watched' -> 0 .. Byte]
  BY <1>1, <1>3 DEF SlotStep, TblTypeOK
<1>6. timed' \in [Watched' -> BOOLEAN]
  BY <1>1, <1>3 DEF SlotStep, TblTypeOK
<1>7. nextSlot' \in 0 .. SLOTS - 1 /\ passes' \in 0 .. PassMod - 1
  <2>1. SLOTS \in Nat \ {0} /\ ACTS \in Nat \ {0} /\ PassMod \in Nat
    BY SizesAssumption
  <2>2. <<0, 0>> \in Entries /\ PassMod % 1 = 0 /\ 1 \in Nat \ {0}
    BY <2>1 DEF Entries
  <2> QED
    BY <2>2, ClockFact
<1>8. TblTypeOK'
  BY <1>2, <1>4, <1>5, <1>6, <1>7 DEF TblTypeOK, files
<1>9. op'.kind = "slot"
  BY <1>1 DEF SlotStep
<1>10. HistoryOK'
  <2>1. \A e \in Watched : WaitOK(e)'
    BY <1>1, SlotWait
  <2> QED
    BY <1>3, <1>9, <2>1 DEF HistoryOK
<1>11. DumpTypeOK' /\ DumpOK' /\ DumpRestores'
  BY <1>2, <1>9, FilesStay DEF files
<1> QED
  BY <1>8, <1>10, <1>11

-----------------------------------------------------------------------------
(* The theorems about the tables.                                          *)

LEMMA TablesStep == TblInv /\ [TblNext]_tblVars => TblInv'
<1> SUFFICES ASSUME TblInv, [TblNext]_tblVars PROVE TblInv'
    OBVIOUS
<1>1. CASE UNCHANGED tblVars
  BY <1>1 DEF tblVars, data, clock, files, history, TblInv, TblTypeOK, HistoryOK, WaitOK, Regular,
              NextPass, DumpTypeOK, DumpOK, DumpRestores, Watched
<1>2. ASSUME TblNext PROVE TblInv'
  <2>1. campaign' = campaign /\ Step
    BY <1>2 DEF TblNext
  <2>2. CASE Load
    <3>1. ASSUME NEW file \in SchFiles \cup ({dumps.sch} \ {<<>>}), LoadSchTbl(file)
          PROVE  TblInv'
      <4>1. file \in Seq(SchRecord)
        BY FileFact DEF TblInv
      <4> QED
        BY <2>1, <3>1, <4>1, LoadSchTables
    <3>2. ASSUME NEW file \in MsgFiles \cup ({dumps.msg} \ {<<>>}), LoadMsgTbl(file)
          PROVE  TblInv'
      <4>1. file \in Seq(MsgRecord)
        BY FileFact DEF TblInv
      <4> QED
        BY <2>1, <3>2, <4>1, LoadMsgTables
    <3> QED
      BY <2>2, <3>1, <3>2 DEF Load
  <2>3. CASE \E e \in Entries, enabled \in BOOLEAN, period, offset \in Args, msg \in MsgArgs :
               LoadSchTblEntry(e, enabled, period, offset, msg)
    BY <2>1, <2>3, EntryTables
  <2>4. CASE \E e \in Entries, enabled \in BOOLEAN : CfgSchTblEntry(e, enabled)
    BY <2>1, <2>4, CfgTables
  <2>5. CASE \E m \in 0 .. MSGS - 1, id \in MsgIds : LoadMsgTblEntry(m, id)
    BY <2>1, <2>5, MsgEntryTables
  <2> QED
    BY <2>1, <2>2, <2>3, <2>4, <2>5, StartupTables, DumpTables, ResetTables, SlotTables,
       DivideTables, RestartTables DEF Step
<1> QED
  BY <1>1, <1>2

\* The invariant of the tables holds in every state.
THEOREM TablesInvariance == TblSpec => []TblInv
BY InitTables, TablesStep, PTL DEF TblSpec

LEMMA OverdueFact ==
  ASSUME TblInv
  PROVE  NeverOverdue
<1> SUFFICES ASSUME NEW e \in Watched, sch[e].enabled, Regular(e), sch[e].offset < sch[e].period
             PROVE  wait[e] < sch[e].period
    BY DEF NeverOverdue
<1> DEFINE p == sch[e].period
           o == sch[e].offset
           n == NextPass(e)
<1>1. e \in Entries /\ wait[e] \in Nat
  BY CampaignsAssumption DEF TblInv, TblTypeOK, Watched, Campaign
<1>2. p \in Nat \ {0} /\ o \in 0 .. p - 1 /\ n \in Nat
  BY <1>1, SizesAssumption DEF TblInv, TblTypeOK, Table, Entry, Regular, NextPass
<1>3. wait[e] + Distance(n, p, o) < p
  BY DEF TblInv, HistoryOK, WaitOK
<1> HIDE DEF p, o, n
<1>4. Distance(n, p, o) \in Nat
  BY <1>2, DistanceFact
<1>5. wait[e] < p
  BY <1>1, <1>2, <1>3, <1>4
<1> QED
  BY <1>5 DEF p

\* The tables stay sound: whatever a file or a command says, entries keep their
\* bytes, and no enabled entry waits a period (ProcessSlot of scheduler.c).
THEOREM TablesCorrect == TblSpec => []TablesOK
<1>1. TblInv => TablesOK
  BY OverdueFact DEF TablesOK, TblInv
<1> QED
  BY <1>1, TablesInvariance, PTL

\* A dump of the scheduler table, loaded later, is accepted and brings back the
\* table as it was dumped (SCHTBL_DumpCmd and LoadJsonData of schtbl.c).
THEOREM DumpCorrect == TblSpec => []DumpRestores
<1>1. TblInv => DumpRestores
  BY DEF TblInv
<1> QED
  BY <1>1, TablesInvariance, PTL

\* What only one kind of step does: the others are told by op.
LEMMA LoadSteps ==
  ASSUME TblInv, TblNext
  PROVE  /\ op'.kind = "load sch" => \E file \in Seq(SchRecord) : LoadSchTbl(file)
         /\ op'.kind = "load msg" => \E file \in Seq(MsgRecord) : LoadMsgTbl(file)
         /\ op'.kind = "slot" => ProcessSlot
<1>1. CASE Startup \/ DumpTbl \/ DivideByZero \/ RestartProcessor \/ ResetPassCount
  <2>1. op'.kind \in {"none", "dump", "crash", "startup", "reset"}
    BY <1>1 DEF Startup, NoOp, DumpTbl, DivideByZero, RestartProcessor, ResetPassCount
  <2> QED
    BY <2>1
<1>2. CASE \/ \E e \in Entries, enabled \in BOOLEAN, period, offset \in Args, msg \in MsgArgs :
               LoadSchTblEntry(e, enabled, period, offset, msg)
           \/ \E e \in Entries, enabled \in BOOLEAN : CfgSchTblEntry(e, enabled)
           \/ \E m \in 0 .. MSGS - 1, id \in MsgIds : LoadMsgTblEntry(m, id)
  <2>1. ASSUME NEW e, NEW enabled, NEW period, NEW offset, NEW msg,
               LoadSchTblEntry(e, enabled, period, offset, msg)
        PROVE  op'.kind = "entry"
    BY <2>1 DEF LoadSchTblEntry
  <2>2. ASSUME NEW e, NEW enabled, CfgSchTblEntry(e, enabled) PROVE op'.kind = "cfg"
    BY <2>2 DEF CfgSchTblEntry
  <2>3. ASSUME NEW m, NEW id, LoadMsgTblEntry(m, id) PROVE op'.kind = "msg entry"
    BY <2>3 DEF LoadMsgTblEntry
  <2>4. op'.kind = "entry" \/ op'.kind = "cfg" \/ op'.kind = "msg entry"
    BY <1>2, <2>1, <2>2, <2>3, Zenon
  <2> QED
    BY <2>4
<1>3. CASE ProcessSlot
  <2>1. op'.kind = "slot"
    BY <1>3, SlotFact DEF SlotStep
  <2> QED
    BY <1>3, <2>1
<1>4. CASE Load
  <2>1. ASSUME NEW file \in SchFiles \cup ({dumps.sch} \ {<<>>}), LoadSchTbl(file)
        PROVE  op'.kind = "load sch" /\ file \in Seq(SchRecord)
    <3>1. file \in Seq(SchRecord)
      BY FileFact DEF TblInv
    <3>2. PICK readable, ok : op' = [kind |-> "load sch", file |-> file, readable |-> readable, ok |-> ok]
      BY <2>1 DEF LoadSchTbl
    <3> QED
      BY <3>1, <3>2
  <2>2. ASSUME NEW file \in MsgFiles \cup ({dumps.msg} \ {<<>>}), LoadMsgTbl(file)
        PROVE  op'.kind = "load msg" /\ file \in Seq(MsgRecord)
    <3>1. file \in Seq(MsgRecord)
      BY FileFact DEF TblInv
    <3>2. PICK ok : op' = [kind |-> "load msg", file |-> file, ok |-> ok]
      BY <2>2 DEF LoadMsgTbl
    <3> QED
      BY <3>1, <3>2
  <2> QED
    BY <1>4, <2>1, <2>2 DEF Load
<1> QED
  BY <1>1, <1>2, <1>3, <1>4 DEF TblNext, Step

\* The last of some indices of a sequence.
LEMMA LastFact ==
  ASSUME NEW n \in Nat, NEW S \in SUBSET (1 .. n)
  PROVE  S # {} => Max(S) \in 1 .. n /\ Max(S) \in S /\ \A j \in Max(S) + 1 .. n : j \notin S
<1> SUFFICES ASSUME S # {}
             PROVE  Max(S) \in 1 .. n /\ Max(S) \in S /\ \A j \in Max(S) + 1 .. n : j \notin S
    OBVIOUS
<1> DEFINE m == Max(S)
<1>1. m \in S /\ m \in 1 .. n /\ \A y \in S : y <= m
  BY MaxFact
<1> HIDE DEF m
<1>2. \A j \in m + 1 .. n : j \notin S
  BY <1>1
<1> QED
  BY <1>1, <1>2 DEF m

LEMMA SchLoadStep ==
  ASSUME TblInv, NEW file \in Seq(SchRecord), LoadSchTbl(file), NEW e \in Entries
  PROVE  sch'[e] = IF op'.ok /\ For(e, op'.file) # {} THEN ToEntry(op'.file[Max(For(e, op'.file))])
                   ELSE sch[e]
<1> DEFINE r == LoadSch(file)
           recs == For(e, file)
           N == Len(file)
<1>1. SchUpTo(r, file, N)
  BY LoadSchFact DEF TblInv, TblTypeOK
<1>2. PICK readable \in BOOLEAN :
        /\ sch' = IF readable THEN Commit(r, sch) ELSE sch
        /\ op' = [kind |-> "load sch", file |-> file, readable |-> readable, ok |-> readable /\ r.ok]
  BY DEF LoadSchTbl
<1>3. op'.file = file /\ op'.ok = (readable /\ r.ok)
  BY <1>2
<1>4. N \in Nat /\ recs \in SUBSET (1 .. N) /\ \A i \in 1 .. N : i \in recs <=> At(file[i]) = e
  BY DEF For, At
<1> HIDE DEF r, recs, N
<1>5. CASE ~(readable /\ r.ok)
  BY <1>2, <1>3, <1>5 DEF Commit
<1>6. CASE readable /\ r.ok /\ recs = {}
  <2>1. sch' = r.tbl
    BY <1>2, <1>6 DEF Commit
  <2>2. r.tbl[e] = sch[e]
    BY <1>1, <1>4, <1>6 DEF SchUpTo
  <2> QED
    BY <1>3, <1>6, <2>1, <2>2 DEF recs
<1>7. CASE readable /\ r.ok /\ recs # {}
  <2>1. sch' = r.tbl
    BY <1>2, <1>7 DEF Commit
  <2> DEFINE m == Max(recs)
  <2>2. m \in 1 .. N /\ m \in recs /\ \A j \in m + 1 .. N : j \notin recs
    BY <1>4, <1>7, LastFact
  <2> HIDE DEF m
  <2>3. At(file[m]) = e /\ \A j \in m + 1 .. N : At(file[j]) # e
    <3>1. \A j \in m + 1 .. N : j \in 1 .. N
      BY <1>4, <2>2
    <3> QED
      BY <1>4, <2>2, <3>1
  <2>4. r.tbl[e] = ToEntry(file[m])
    BY <1>1, <1>7, <2>2, <2>3 DEF SchUpTo
  <2> QED
    BY <1>3, <1>7, <2>1, <2>4 DEF recs, m
<1> QED
  BY <1>5, <1>6, <1>7

LEMMA MsgLoadStep ==
  ASSUME TblInv, NEW file \in Seq(MsgRecord), LoadMsgTbl(file), NEW m \in 0 .. MSGS - 1
  PROVE  LET recs == {i \in DOMAIN op'.file : op'.file[i].id = m} IN
           IF op'.ok /\ recs # {}
           THEN msgData'[m] = op'.file[Max(recs)].topic /\ msgCmd'[m] = msgData'[m]
           ELSE msgData'[m] = msgData[m]
<1> DEFINE r == LoadMsg(file)
           recs == {i \in DOMAIN file : file[i].id = m}
           N == Len(file)
<1>1. MsgUpTo(r, file, N)
  BY LoadMsgFact DEF TblInv, TblTypeOK
<1>2. PICK json \in BOOLEAN :
        /\ msgData' = IF json THEN Commit(r, msgData) ELSE msgData
        /\ msgCmd' = IF json THEN r.cmd ELSE msgCmd
        /\ op' = [kind |-> "load msg", file |-> file, ok |-> json /\ r.ok]
  BY DEF LoadMsgTbl
<1>3. op'.file = file /\ op'.ok = (json /\ r.ok)
  BY <1>2
<1>4. N \in Nat /\ recs \in SUBSET (1 .. N) /\ \A i \in 1 .. N : i \in recs <=> file[i].id = m
  OBVIOUS
<1> SUFFICES IF op'.ok /\ recs # {}
             THEN msgData'[m] = file[Max(recs)].topic /\ msgCmd'[m] = msgData'[m]
             ELSE msgData'[m] = msgData[m]
    BY <1>3
<1> HIDE DEF r, recs, N
<1>5. CASE ~(json /\ r.ok)
  BY <1>2, <1>3, <1>5 DEF Commit
<1>6. CASE json /\ r.ok /\ recs = {}
  <2>1. msgData' = r.tbl
    BY <1>2, <1>6 DEF Commit
  <2>2. r.tbl[m] = msgData[m]
    BY <1>1, <1>4, <1>6 DEF MsgUpTo
  <2> QED
    BY <1>3, <1>6, <2>1, <2>2
<1>7. CASE json /\ r.ok /\ recs # {}
  <2>1. msgData' = r.tbl /\ msgCmd' = r.cmd
    BY <1>2, <1>7 DEF Commit
  <2> DEFINE k == Max(recs)
  <2>2. k \in 1 .. N /\ k \in recs /\ \A j \in k + 1 .. N : j \notin recs
    BY <1>4, <1>7, LastFact
  <2> HIDE DEF k
  <2>3. file[k].id = m /\ \A j \in k + 1 .. N : file[j].id # m
    <3>1. \A j \in k + 1 .. N : j \in 1 .. N
      BY <1>4, <2>2
    <3> QED
      BY <1>4, <2>2, <3>1
  <2>4. r.tbl[m] = file[k].topic /\ r.cmd[m] = file[k].topic
    BY <1>1, <1>7, <2>2, <2>3 DEF MsgUpTo
  <2> QED
    BY <1>3, <1>7, <2>1, <2>4 DEF k
<1> QED
  BY <1>5, <1>6, <1>7

\* A load of either table is all or nothing, whichever record of the file is
\* bad (LoadJsonData of schtbl.c and msgtbl.c).
THEOREM LoadCorrect == TblSpec => LoadAllOrNothing
<1>1. ASSUME TblInv, TblNext, op'.kind = "load sch", NEW e \in Entries
      PROVE  LET recs == For(e, op'.file) IN
               sch'[e] = IF op'.ok /\ recs # {} THEN ToEntry(op'.file[Max(recs)]) ELSE sch[e]
  BY <1>1, LoadSteps, SchLoadStep, Zenon
<1>2. ASSUME TblInv, TblNext, op'.kind = "load msg", NEW m \in 0 .. MSGS - 1
      PROVE  LET recs == {i \in DOMAIN op'.file : op'.file[i].id = m} IN
               IF op'.ok /\ recs # {}
               THEN msgData'[m] = op'.file[Max(recs)].topic /\ msgCmd'[m] = msgData'[m]
               ELSE msgData'[m] = msgData[m]
  BY <1>2, LoadSteps, MsgLoadStep, Zenon
<1>3. TblInv /\ [TblNext]_tblVars
        => [op'.kind = "load sch" =>
              \A e \in Entries :
                LET recs == For(e, op'.file) IN
                  sch'[e] = IF op'.ok /\ recs # {} THEN ToEntry(op'.file[Max(recs)]) ELSE sch[e]]_tblVars
  BY <1>1, Zenon
<1>4. TblInv /\ [TblNext]_tblVars
        => [op'.kind = "load msg" =>
              \A m \in 0 .. MSGS - 1 :
                LET recs == {i \in DOMAIN op'.file : op'.file[i].id = m} IN
                  IF op'.ok /\ recs # {}
                  THEN msgData'[m] = op'.file[Max(recs)].topic /\ msgCmd'[m] = msgData'[m]
                  ELSE msgData'[m] = msgData[m]]_tblVars
  BY <1>2, Zenon
<1> QED
  BY <1>3, <1>4, TablesInvariance, PTL DEF LoadAllOrNothing, SchLoadAllOrNothing,
     MsgLoadAllOrNothing, TblSpec

LEMMA ScheduleStep ==
  ASSUME TblInv, ProcessSlot, NEW s \in op'.sent,
         s.entry \in Watched, timed[s.entry], Regular(s.entry)
  PROVE  wait[s.entry] + 1 = sch[s.entry].period
<1>1. PICK failed : SlotStep(failed)
  BY SlotFact
<1>2. PICK e \in DueNow : s = [entry |-> e, msg |-> msgCmd[sch[e].msg]]
  BY <1>1 DEF SlotStep
<1>3. s.entry = e
  BY <1>2
<1> DEFINE p == sch[e].period
           o == sch[e].offset
           n == NextPass(e)
<1>4. e \in Entries /\ e[1] = nextSlot /\ sch[e].enabled /\ passes % p = o
  BY <1>2 DEF DueNow, Here, Due
<1>5. n = passes /\ passes \in Nat /\ p \in Nat \ {0} /\ wait[e] \in Nat
  BY <1>3, <1>4, SizesAssumption
     DEF TblInv, TblTypeOK, Table, Entry, Regular, NextPass
<1>6. o \in 0 .. p - 1
  BY <1>4, <1>5, NextMod
<1>7. wait[e] + Distance(n, p, o) + 1 = p
  BY <1>3, <1>4, <1>5, <1>6 DEF TblInv, HistoryOK, WaitOK
<1>8. n \in Nat /\ n % p = o
  BY <1>4, <1>5
<1> HIDE DEF p, o, n
<1>9. Distance(n, p, o) = 0
  BY <1>5, <1>6, <1>8, DistanceFact
<1>10. wait[e] + 1 = p
  BY <1>5, <1>7, <1>9
<1> QED
  BY <1>3, <1>10 DEF p

\* Between two sends of an entry that nobody touched lie exactly Period passes
\* of the table, across the wrap of TablePassCount too (ProcessSlot).
THEOREM ScheduleCorrect == TblSpec => OnSchedule
<1>1. ASSUME TblInv, TblNext, op'.kind = "slot", NEW s \in op'.sent,
             s.entry \in Watched, timed[s.entry], Regular(s.entry)
      PROVE  wait[s.entry] + 1 = sch[s.entry].period
  BY <1>1, LoadSteps, ScheduleStep, Zenon
<1>2. TblInv /\ [TblNext]_tblVars
        => [op'.kind = "slot" =>
              \A s \in op'.sent :
                s.entry \in Watched /\ timed[s.entry] /\ Regular(s.entry)
                  => wait[s.entry] + 1 = sch[s.entry].period]_tblVars
  BY <1>1, Zenon
<1> QED
  BY <1>2, TablesInvariance, PTL DEF OnSchedule, TblSpec
=============================================================================
