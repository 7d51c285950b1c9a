-------------------------------- MODULE MCFotp --------------------------------
(* Fotp with a file of three blocks and one of one block, offsets inside and *)
(* outside them.                                                             *)
EXTENDS Fotp
CONSTANTS b1, b2, f1, f2
MCContent == [f \in Names |-> IF f = f1 THEN <<b1, b2, b1>> ELSE <<b2>>]
=============================================================================
