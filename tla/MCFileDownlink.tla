---------------------------- MODULE MCFileDownlink ----------------------------
(* A file of two blocks and one of one block, three downloads.               *)
EXTENDS FileDownlink
CONSTANTS b1, b2, f1, f2
MCContent == [f \in Names |-> IF f = f1 THEN <<b1, b2>> ELSE <<b2>>]
=============================================================================
