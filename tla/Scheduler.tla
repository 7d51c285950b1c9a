------------------------------ MODULE Scheduler ------------------------------
(***************************************************************************)
(* Slot timing of the KIT_SCH app (src/apps/kit_sch/fsw/src/scheduler.c).  *)
(* A major frame is divided into SCHTBL_SLOTS minor frames; in each of     *)
(* them the app must process one slot of the scheduler table.              *)
(*                                                                         *)
(* The slot and pass counters are those of KitSch.                        *)
(*                                                                         *)
(* Three contexts share the Scheduler object without a lock:               *)
(*   the app's task     SCHEDULER_Execute, woken by a binary semaphore,    *)
(*                      and the reset command;                             *)
(*   the tone callback  MajorFrameCallback, called by cFE TIME at 1 Hz;    *)
(*   the timer callback MinorFrameCallback, called when the OSAL timer     *)
(*                      expires.                                           *)
(* The timer callback is a sequence of steps, with the read and the write  *)
(* of MinorFramesSinceTone++ apart; the scenario says whether the other    *)
(* contexts may run between them.                                          *)
(*                                                                         *)
(* Time is not measured: the timer is known by how it was last set, tones  *)
(* arrive in some slots, and the task may be a number of callbacks late,   *)
(* both as the scenario says.                                              *)
(***************************************************************************)
EXTENDS KitSch, Integers

CONSTANTS
  MaxLag,            \* SCHEDULER_MAX_LAG_COUNT
  MaxSlotsPerWakeup, \* SCHEDULER_MAX_SLOTS_PER_WAKEUP
  MaxNoisy,          \* SCHEDULER_MAX_NOISY_MF
  MaxAttempts,       \* SCHEDULER_MAX_SYNC_ATTEMPTS
  WorstCase,         \* WorstCaseSlotsPerMinorFrame
  CountMod,          \* width of ProcessCount, 2^32
  Scenarios,         \* the environments: records of type Scenario
  MaxResets          \* bound on the number of reset commands

ASSUME SlotsAssumption ==
  /\ SLOTS \in Nat /\ SLOTS >= 2
  /\ MaxLag \in 1 .. SLOTS - 1 /\ MaxSlotsPerWakeup \in Nat \ {0}
  /\ MaxNoisy \in Nat \ {0} /\ MaxAttempts \in Nat \ {0} /\ WorstCase \in Nat \ {0}
  /\ PassMod \in Nat \ {0} /\ CountMod \in Nat /\ CountMod > 2 * SLOTS

Scenario ==
  [coarse : BOOLEAN,                \* the timer is too coarse for the slots:
                                    \* SyncToMET starts as SYNCH_TO_MINOR
   toneAtStart : BOOLEAN,           \* a tone comes before the startup timer expires
   toneSlots : SUBSET (0 .. SLOTS), \* minor frames in which a tone may arrive
   maxBehind : Nat \ {0},           \* callbacks before the task has run
   preempt : BOOLEAN]               \* the timer callback may be interrupted

ASSUME EnvironmentAssumption == Scenarios \subseteq Scenario /\ MaxResets \in Nat

SyncSlot == SLOTS - 1   \* SCHEDULER_TIME_SYNC_SLOT

VARIABLES
  scenario,      \* the environment, chosen at the start
  minorFrames,   \* MinorFramesSinceTone
  lastSync,      \* LastSyncMETSlot
  attempts,      \* SyncAttemptsLeft
  sync,          \* SyncToMET, a set of the flags "minor", "pending", "major"
  source,        \* MajorFrameSource
  ignore,        \* IgnoreMajorFrame
  noisy,         \* ConsecutiveNoisyFrameCounter
  lastCount,     \* LastProcessCount
  timer,         \* the minor frame timer: how it was set, or "off"
  sem,           \* TimeSemaphore
  pc,            \* where MinorFrameCallback is
  reg,           \* MinorFramesSinceTone as the ++ read it
  awake,         \* the task has taken the semaphore
  met,           \* MET slot number
  behind,        \* callbacks since the task last ran
  resets,        \* reset commands so far
  lead           \* slots processed or skipped, minus slots that have begun: a
                 \* history variable, kept while the tone counts the slots

toneVars == <<sync, source, ignore, noisy, lastSync>>
taskVars == <<nextSlot, lastCount, passes, awake>>
envVars  == <<met, behind, resets, scenario>>
vars == <<minorFrames, attempts, timer, sem, pc, reg, lead, toneVars, taskVars, envVars>>

Init ==
  /\ scenario \in Scenarios
  /\ minorFrames = SyncSlot /\ nextSlot = 0
  /\ lastSync = 0 /\ attempts = 0
  /\ sync = IF scenario.coarse THEN {"minor"} ELSE {}
  /\ source = "none"
  /\ ignore = FALSE /\ noisy = 0
  /\ lastCount = 0 /\ passes = 0
  /\ timer = "startup" /\ sem = 0
  /\ pc = "idle" /\ reg = 0 /\ awake = FALSE
  /\ met \in 0 .. SLOTS - 1 /\ behind = 0 /\ resets = 0
  /\ lead = 0

\* The other contexts run only between timer callbacks.
MayRun == scenario.preempt \/ pc = "idle"

\* The task is not too late for another callback.
OnTime == behind < scenario.maxBehind

\* OS_BinSemGive
GiveSemaphore == sem' = 1 /\ behind' = behind + 1

\* The tone counts the slots: it comes first, and only in the last slot.
Steady ==
  scenario.toneAtStart /\ ~scenario.coarse /\ scenario.toneSlots \subseteq {SyncSlot}

\* The lead changes by d slots; it is kept up to two passes.
LeadBy(d) ==
  lead' = LET l == lead + d
          IN  IF ~Steady \/ l > 2 * SLOTS \/ l < -2 * SLOTS
              THEN lead ELSE l

-----------------------------------------------------------------------------
(* The tone callback.                                                      *)

\* Mutant: the slots counted from the tone are not looked at.
NoisyByMetOnly ==
  sync = {"minor"} /\ nextSlot # 0 /\ nextSlot < (SLOTS - WorstCase - 1) % CountMod
\* A tone is noisy when it comes outside the last slot of the table, or, with
\* minor frames synchronized to the MET, outside a window at its end.
Noisy ==
  \/ sync = {} /\ minorFrames # SyncSlot
  \/ sync = {"minor"} /\ nextSlot # 0 /\ nextSlot < (SLOTS - WorstCase - 1) % CountMod

TooNoisy == noisy + 1 >= MaxNoisy

JudgeTone ==
  IF Noisy
  THEN IF ignore THEN UNCHANGED <<noisy, ignore>>
       ELSE noisy' = noisy + 1 /\ ignore' = TooNoisy
  ELSE noisy' = 0 /\ UNCHANGED ignore

\* A tone that is not ignored starts slot zero.
StartMajorFrame ==
  /\ timer' = "normal"
  /\ minorFrames' = 0
  /\ source' = "cfe_time"
  /\ sync' = sync \cap {"minor"}
  /\ GiveSemaphore
  /\ LeadBy(IF minorFrames = 0 THEN 0 ELSE minorFrames - SLOTS)

\* In flywheel mode nothing but LastSyncMETSlot follows the tone.
MajorFrameCallback ==
  /\ MayRun /\ OnTime
  /\ source = "cfe_time" => minorFrames \in scenario.toneSlots
  /\ \/ UNCHANGED <<noisy, ignore, timer, minorFrames, source, sync, sem, behind, lead>>
     \/ /\ JudgeTone
        /\ IF ignore' THEN UNCHANGED <<timer, minorFrames, source, sync, sem, behind, lead>>
                      ELSE StartMajorFrame
  /\ lastSync' = met
  /\ UNCHANGED <<attempts, pc, reg, taskVars, met, resets, scenario>>

-----------------------------------------------------------------------------
(* The timer callback.                                                     *)

\* How an expired timer goes on: the ones set with no interval stop.
Expired == IF timer \in {"normal", "short"} THEN "normal" ELSE "off"

FirstInterrupt == source = "none"
Pending == "pending" \in sync /\ source = "timer"

\* The first interrupt without a tone: the frames are synchronized to the MET.
MinorFrameBegins ==
  /\ pc = "idle" /\ timer # "off"
  /\ timer = "startup" => ~scenario.toneAtStart
  /\ OnTime
  /\ timer' = Expired
  /\ IF FirstInterrupt
     THEN /\ source' = "timer"
          /\ sync' = sync \cup {"pending"}
          /\ attempts' = MaxAttempts
          /\ lastSync' = 0
     ELSE UNCHANGED <<source, sync, attempts, lastSync>>
  /\ pc' = IF FirstInterrupt \/ Pending THEN "sync" ELSE "inc"
  /\ reg' = minorFrames
  /\ UNCHANGED <<minorFrames, sem, ignore, noisy, lead, taskVars, envVars>>

\* Wait for MET slot zero, or until the attempts run out.
MinorFrameSync ==
  /\ pc = "sync"
  /\ timer' = "normal"
  /\ attempts' = attempts - 1
  /\ IF met # 0 /\ attempts' > 0
     THEN pc' = "idle" /\ UNCHANGED <<sync, minorFrames, lastSync>>
     ELSE /\ pc' = "roll"
          /\ sync' = (sync \ {"pending"}) \cup {"major"}
          /\ minorFrames' = met
          /\ lastSync' = 0
  /\ UNCHANGED <<sem, reg, source, ignore, noisy, lead, taskVars, envVars>>

\* The write of MinorFramesSinceTone++.
MinorFrameInc ==
  /\ pc = "inc"
  /\ pc' = "roll"
  /\ minorFrames' = reg + 1
  /\ LeadBy(-1)
  /\ UNCHANGED <<attempts, timer, sem, reg, toneVars, taskVars, envVars>>

\* Mutant: the expired timer of the last slot is not set again.
KeepTimer == UNCHANGED timer
ShortTimer == timer' = "short"

\* No tone stopped the timer of the last slot: slot zero begins without it.
MinorFrameRoll ==
  /\ pc = "roll"
  /\ IF minorFrames >= SLOTS
     THEN ShortTimer /\ minorFrames' = 0
     ELSE UNCHANGED <<timer, minorFrames>>
  /\ pc' = "check"
  /\ UNCHANGED <<attempts, sem, reg, lead, toneVars, taskVars, envVars>>

MinorFrameCheck ==
  /\ pc = "check"
  /\ pc' = IF minorFrames = SyncSlot THEN "long" ELSE "give"
  /\ UNCHANGED <<minorFrames, attempts, timer, sem, reg, lead, toneVars, taskVars, envVars>>

MinorFrameLong ==
  /\ pc = "long"
  /\ timer' = "long"
  /\ pc' = "give"
  /\ UNCHANGED <<minorFrames, attempts, sem, reg, lead, toneVars, taskVars, envVars>>

MinorFrameGive ==
  /\ pc = "give"
  /\ GiveSemaphore
  /\ pc' = "idle"
  /\ UNCHANGED <<minorFrames, attempts, timer, reg, lead, toneVars, taskVars, met, resets, scenario>>

-----------------------------------------------------------------------------
(* The task.                                                               *)

\* GetCurrentSlotNumber
CurrentSlot ==
  IF sync = {} THEN minorFrames
  ELSE IF met < lastSync THEN met + SLOTS - lastSync ELSE met - lastSync

\* The number of slots to process, rollover included (uint32 arithmetic).
RawCount(cur) ==
  (IF cur < nextSlot THEN SLOTS - nextSlot + cur + 1 ELSE cur - nextSlot + 1) % CountMod

\* One slot late or one slot early for the first time is taken for jitter.
Smoothed(n) ==
  IF (n = 2 /\ lastCount = 1) \/ (n = SLOTS /\ n # 2 /\ lastCount # SLOTS) THEN 1 ELSE n

\* Mutant: a slot that did not increment is not told from a whole table.
AlwaysWanted(n) == n
\* The slot did not increment: nothing to do.
Wanted(n) == IF n = SLOTS THEN 0 ELSE n

PassesSkipped(cur) == IF cur < nextSlot THEN 1 ELSE 0

\* n calls of ProcessSlot from slot s, with NextSlotNumber == SLOTS as the
\* rollover test: the slot after them and the passes completed.
After(s, n) == IF s < SLOTS /\ s + n >= SLOTS THEN s + n - SLOTS ELSE s + n
PassesCompleted(s, n) == IF s < SLOTS /\ s + n >= SLOTS THEN 1 ELSE 0

Least(m, n) == IF m < n THEN m ELSE n

\* From slot s, p passes behind that are skipped, process n slots.
ProcessSlots(s, p, n) ==
  LET done == p + PassesCompleted(s, n)
  IN  /\ nextSlot' = After(s, n)
      /\ passes' = (passes + done) % PassMod
      /\ LeadBy(SLOTS * done + After(s, n) - nextSlot)

\* OS_BinSemTake
ExecuteTake ==
  /\ MayRun /\ ~awake /\ sem = 1
  /\ sem' = 0 /\ awake' = TRUE
  /\ UNCHANGED <<minorFrames, attempts, timer, pc, reg, lead, nextSlot, lastCount,
                 passes, toneVars, envVars>>

\* The rest of SCHEDULER_Execute: too far behind it jumps to the current slot.
ExecuteSlots ==
  /\ MayRun /\ awake
  /\ LET cur == CurrentSlot
         n   == Wanted(Smoothed(RawCount(cur)))
     IN  /\ lastCount' = RawCount(cur)
         /\ IF n > MaxLag THEN ProcessSlots(cur, PassesSkipped(cur), 1)
                          ELSE ProcessSlots(nextSlot, 0, Least(n, MaxSlotsPerWakeup))
  /\ awake' = FALSE /\ behind' = 0
  /\ UNCHANGED <<minorFrames, attempts, timer, sem, pc, reg, toneVars, met, resets, scenario>>

\* SCHEDULER_ResetStatus
ResetStatus ==
  /\ MayRun /\ ~awake /\ resets < MaxResets
  /\ resets' = resets + 1
  /\ passes' = 0
  /\ noisy' = 0 /\ ignore' = FALSE
  /\ UNCHANGED <<minorFrames, attempts, timer, sem, pc, reg, lead, sync, source,
                 lastSync, nextSlot, lastCount, awake, met, behind, scenario>>

\* The MET advances by a slot.
MetSlot ==
  /\ met' = (met + 1) % SLOTS
  /\ UNCHANGED <<minorFrames, attempts, timer, sem, pc, reg, lead, toneVars, taskVars,
                 behind, resets, scenario>>

TimerCallback ==
  \/ MinorFrameSync \/ MinorFrameInc \/ MinorFrameRoll \/ MinorFrameCheck
  \/ MinorFrameLong \/ MinorFrameGive

Execute == ExecuteTake \/ ExecuteSlots

Next ==
  \/ MajorFrameCallback \/ MinorFrameBegins \/ TimerCallback
  \/ Execute \/ ResetStatus \/ MetSlot

Spec == Init /\ [][Next]_vars

\* The timer expires, a callback that began ends, and the task that is woken
\* runs; tones may stop.
FairSpec ==
  Spec /\ SF_vars(MinorFrameBegins) /\ WF_vars(TimerCallback) /\ WF_vars(Execute)

-----------------------------------------------------------------------------
(* Properties                                                              *)

\* NextSlotNumber is a slot of the table: ProcessSlot indexes the table with
\* it.
SlotInTable == nextSlot \in 0 .. SLOTS - 1

\* The type of every variable, between callbacks.
TypeOK ==
  /\ scenario \in Scenarios
  /\ minorFrames \in 0 .. (IF pc = "roll" THEN SLOTS ELSE SyncSlot)
  /\ SlotInTable
  /\ lastSync \in 0 .. SLOTS - 1 /\ attempts \in 0 .. MaxAttempts
  /\ sync \subseteq {"minor", "pending", "major"}
  /\ source \in {"none", "cfe_time", "timer"}
  /\ ignore \in BOOLEAN /\ noisy \in 0 .. MaxNoisy
  /\ lastCount \in 0 .. SLOTS /\ passes \in 0 .. PassMod - 1
  /\ timer \in {"startup", "normal", "long", "short", "off"} /\ sem \in {0, 1}
  /\ pc \in {"idle", "sync", "inc", "roll", "check", "long", "give"}
  /\ reg \in 0 .. SyncSlot /\ awake \in BOOLEAN /\ met \in 0 .. SLOTS - 1

\* The timer that drives the slots never stops by itself: one that was set
\* without an interval is set again before the callback ends.
TimerRuns == pc = "idle" => timer # "off"

\* For callbacks that run to their end the slot counters stay in the table and
\* the timer that moves them never stops.
StateOK == TypeOK /\ TimerRuns

\* How the timer was set, at each place of the callback: it only stops where
\* the callback is bound to set it again, because the last slot is over or the
\* frames are being synchronized.
TimerOK ==
  /\ timer = "startup" => pc = "idle" /\ source = "none"
  /\ timer = "long" => pc \in {"idle", "give"} /\ minorFrames = SyncSlot
  /\ timer = "off" => \/ pc = "sync"
                      \/ pc = "inc" /\ reg = SyncSlot
                      \/ pc = "roll" /\ minorFrames = SLOTS
  /\ pc = "long" => minorFrames = SyncSlot

\* Tones are ignored before the count of noisy ones is full, and attempts are
\* left while the synchronization is pending.
CountsOK ==
  /\ ~ignore => noisy < MaxNoisy
  /\ pc = "sync" \/ Pending => attempts > 0

\* The inductive invariant, for callbacks that run to their end.
IInv == StateOK /\ TimerOK /\ CountsOK /\ ~scenario.preempt

\* The task keeps in step with the slots: whenever it has run it is at most
\* one slot early or late, over all passes, although it counts the slots to
\* do modulo the table, takes late wakeups for jitter and jumps when it is
\* too far behind.  No pass of the table is lost or run twice.
InStep == ~awake /\ behind = 0 /\ pc = "idle" => lead \in -1 .. 1

\* No slot is lost to the jump: with the tone counting the slots, a task that
\* is fewer than SCHEDULER_MAX_LAG_COUNT callbacks late never jumps over a slot
\* of the table (scheduler.c:356-391), whatever jitter it took a slot more or
\* less for before.
NoSlotLost ==
  Steady /\ awake /\ pc = "idle" /\ behind < MaxLag
    => Wanted(Smoothed(RawCount(CurrentSlot))) <= MaxLag

\* Every slot is processed once in each pass, by a task that is not too late.
SlotsInOrder == InStep /\ NoSlotLost

\* A slot has begun for which the semaphore is not given yet.
Begun == IF pc \in {"roll", "check", "long", "give"} THEN 1 ELSE 0

\* The lead right after the task last ran: every slot that has begun since is
\* one callback more that the task is behind.
LeadOfRun == lead + behind + Begun

\* What keeps the task in step: with the tone counting the slots, the lead is
\* the distance from the slot that runs to the next one to process, modulo the
\* table; and a task that is early by a slot has taken note of it in its last
\* count, and is not woken before that slot begins.
Lockstep ==
  /\ sync = {} /\ source # "timer" /\ pc # "sync"
  /\ source = "none" => timer = "startup" /\ minorFrames = SyncSlot
  /\ pc = "inc" => reg = minorFrames
  /\ behind \in 0 .. scenario.maxBehind /\ lead \in Int
  /\ pc # "idle" => behind < scenario.maxBehind
  /\ LeadOfRun \in -1 .. 1
  /\ nextSlot - minorFrames - 1 - lead \in {-SLOTS, 0, SLOTS}
  /\ LeadOfRun = 1 => lastCount = SLOTS /\ (awake \/ sem = 1 => behind > 0)
  /\ awake /\ sem = 1 => behind > 0

\* The inductive invariant of InStep, with IInv.
StepInv == IF Steady THEN Lockstep ELSE lead = 0

\* No slot starves from the first tone on: whatever tones come at the wrong
\* time, every slot of the table is again and again the next one, unless the
\* slots follow the MET or the task is more than one callback late, when it may
\* have to jump over the same slot in every pass.
EverySlotRuns ==
  \A s \in 0 .. SLOTS - 1 :
    []<>(\/ nextSlot = s
         \/ source # "cfe_time" \/ "minor" \in sync \/ scenario.maxBehind > 1)
=============================================================================
