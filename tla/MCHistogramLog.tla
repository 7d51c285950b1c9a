---------------------------- MODULE MCHistogramLog ----------------------------
(* HistogramLog with two bins, a table of one bin and one with two bins that *)
(* overlap, and two values of the device.  Resets at any time are tried with *)
(* one entry in the queue, which is enough for a command to be run between   *)
(* the accesses of a reset.                                                  *)
EXTENDS HistogramLog
MCTables == {<<[lo |-> 0, hi |-> 1]>>, <<[lo |-> 0, hi |-> 1], [lo |-> 1, hi |-> 2]>>}
MCCampaigns == {[depth |-> 1, quiet |-> FALSE], [depth |-> 2, quiet |-> TRUE]}
=============================================================================
