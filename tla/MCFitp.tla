-------------------------------- MODULE MCFitp --------------------------------
(* Fitp with two destination files, two blocks that share their first half   *)
(* and a third that is too long for a segment, ids that run out after two  *)
(* segments, and the finish commands of every file of at most two blocks,    *)
(* text CRC or hex CRC.                                                       *)
EXTENDS Fitp
CONSTANTS b1, b2, big

MCHalf == [b \in Blocks |-> b1]
MCSize == [b \in Blocks |-> IF b = b1 THEN 2 ELSE IF b = b2 THEN 1 ELSE 3]
MCCrcs == UNION {[1 .. k -> {[fmt |-> "text", data |-> b] : b \in {b1, b2}}
                             \cup {[fmt |-> "hex", data |-> b1]}] : k \in 0 .. 2}
RECURSIVE SumLen(_)
SumLen(crc) == IF crc = <<>> THEN 0 ELSE MCSize[Head(crc).data] + SumLen(Tail(crc))
MCFinishCmds ==
  {[fileLen |-> SumLen(crc), fileCrc |-> crc, lastDataSegmentId |-> Len(crc)] : crc \in MCCrcs}
  \cup {[fileLen |-> 9, fileCrc |-> <<>>, lastDataSegmentId |-> 0]}

=============================================================================
