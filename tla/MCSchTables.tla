----------------------------- MODULE MCSchTables -----------------------------
(* A table of two slots with one activity each; files that are good, sparse,  *)
(* that have a bad record after a good one, and values wider than a byte.     *)
EXTENDS SchTables
CONSTANTS none, hk, tone, swapped

SchRec(slot, period, offset, msg) ==
  [slot |-> slot, act |-> 0, enabled |-> TRUE, period |-> period, offset |-> offset,
   msg |-> msg, complete |-> TRUE]
MsgRec(id, topic) == [id |-> id, topic |-> topic, complete |-> TRUE]

MCIds == {none, hk, tone, swapped}
MCSwapped == [m \in MCIds |-> IF m = none THEN none ELSE IF m = swapped THEN hk ELSE swapped]

MCDefaultSch == <<SchRec(0, 1, 0, 0), SchRec(1, 2, 1, 1)>>
MCSchFiles ==
  {MCDefaultSch, <<SchRec(1, 4, 2, 3)>>, <<SchRec(0, 2, 1, 1), SchRec(2, 1, 0, 0)>>,
   <<SchRec(0, 2, 0, 0), [SchRec(1, 1, 0, 0) EXCEPT !.complete = FALSE]>>,
   <<SchRec(0, 10, 9, 0), SchRec(0, 8, 0, 0)>>}

MCDefaultMsg == <<MsgRec(0, hk)>>
\* Good, sparse, with a missing attribute, with a bad id after a good record.
MCMsgFiles == {MCDefaultMsg, <<MsgRec(1, tone)>>, <<MsgRec(7, hk)>>,
               <<[MsgRec(0, tone) EXCEPT !.complete = FALSE]>>,
               <<MsgRec(0, tone), MsgRec(7, hk)>>}

\* Loads and dumps of one table, of the other, and commands on single entries
\* with the waits of one of them counted.
MCCampaigns ==
  {[ops |-> {"load sch", "dump"}, watched |-> {}],
   [ops |-> {"load msg", "msg entry"}, watched |-> {}],
   [ops |-> {"entry", "cfg", "reset"}, watched |-> {<<1, 0>>}]}
=============================================================================
