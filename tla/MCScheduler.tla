----------------------------- MODULE MCScheduler -----------------------------
(* The constants of kit_sch_platform_cfg.h and scheduler.h, and three kinds  *)
(* of environment: tones at any time or none, late or early at the start,    *)
(* with a coarse timer or not; tones in the last slot only, with a task that *)
(* may be two callbacks late; and a timer callback that is interrupted.      *)
EXTENDS Scheduler

Any(coarse, atStart) ==
  [coarse |-> coarse, toneAtStart |-> atStart, toneSlots |-> 0 .. SLOTS,
   maxBehind |-> 1, preempt |-> FALSE]
MCSteady == [Any(FALSE, TRUE) EXCEPT !.toneSlots = {SyncSlot}, !.maxBehind = 2]
MCRunToEnd == {Any(c, s) : c, s \in BOOLEAN} \cup {MCSteady}
MCPreempted == {[Any(FALSE, TRUE) EXCEPT !.preempt = TRUE]}
=============================================================================
