-------------------------------- MODULE KitSch --------------------------------
(***************************************************************************)
(* What the two models of the KIT_SCH app have in common.  Scheduler says  *)
(* when a slot is processed, SchTables what processing it does; both move  *)
(* the two fields of the Scheduler object declared here (scheduler.h).     *)
(***************************************************************************)
CONSTANTS
  SLOTS,    \* SCHTBL_SLOTS
  PassMod   \* width of TablePassCount, 2^32

VARIABLES
  nextSlot,  \* NextSlotNumber
  passes     \* TablePassCount
=============================================================================
