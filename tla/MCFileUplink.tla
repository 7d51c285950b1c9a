----------------------------- MODULE MCFileUplink -----------------------------
(* Three uploads: a text file of two blocks, the second with a line end of   *)
(* two bytes; a binary file of one block sent to another name; a text file   *)
(* to the first name again.                                                  *)
EXTENDS FileUplink
CONSTANTS b1, b2, crlf, f1, f2
MCHalf == [b \in Blocks |-> b1]
MCSize == [b \in Blocks |-> IF b = crlf THEN 2 ELSE 1]
MCAsText == [b \in Blocks |-> IF b = crlf THEN b2 ELSE b]
Up(n, c, b) == [name |-> n, content |-> c, bin |-> b]
MCUploads == <<Up(f1, <<b1, crlf>>, FALSE), Up(f2, <<b2>>, TRUE), Up(f1, <<crlf, b1>>, FALSE)>>
MCFinishCmds == {FinishCmd(k) : k \in Ups}
=============================================================================
