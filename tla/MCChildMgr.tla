------------------------------ MODULE MCChildMgr ------------------------------
(* ChildMgr with the three entries of the framework's configuration, two     *)
(* commands that fit and one that does not.                                  *)
EXTENDS ChildMgr
CONSTANTS m1, m2, big
=============================================================================
