-------------------------------- MODULE KitTo --------------------------------
(***************************************************************************)
(* The task of KIT_TO (src/apps/kit_to/fsw/src/kit_to_app.c): every cycle  *)
(* of its loop empties the telemetry pipe and then takes one message from  *)
(* the command pipe, a command or a housekeeping request.  The other apps, *)
(* which publish, and the event service run between any two steps.         *)
(*                                                                         *)
(* A behaviour commands either packets or playbacks, not both: the two     *)
(* objects share no state.                                                 *)
(***************************************************************************)
EXTENDS PktMgr, EvtPlbk

VARIABLES
  campaign,   \* "packets" or "playback"
  loop        \* where the task is: "output" or "command"

vars == <<campaign, loop, pktVars, plbkVars>>

Init ==
  /\ PktInit /\ PlbkInit /\ loop = "output"
  /\ campaign \in {"packets", "playback"}
  /\ campaign = "packets" => plbkCampaign = CHOOSE c \in PlbkCampaigns : TRUE
  /\ campaign = "playback" => pktCampaign = CHOOSE c \in PktCampaigns : TRUE

\* PKTMGR_OutputTelemetry takes one packet after the other.
OutputPacket ==
  /\ loop = "output"
  /\ DropSuppressed \/ DropFiltered \/ SendToGround \/ KeepOnBoard
  /\ UNCHANGED <<campaign, loop, plbkVars>>

\* Mutant: a cycle may stop before the pipe is empty.
StopsAnytime == TRUE

PipeEmptied == pipe = <<>>

\* The next cycle's SocketStatus is a new variable.
OutputEnds ==
  /\ loop = "output" /\ PipeEmptied
  /\ loop' = "command" /\ burst' = 0 /\ statusSet' = FALSE
  /\ UNCHANGED <<campaign, plbkVars, pktCampaign, tblVars, pipe, linkVars, outVars>>

OutputFails ==
  /\ loop = "output" /\ PackFails
  /\ loop' = "command"
  /\ UNCHANGED <<campaign, plbkVars>>

Commanding == loop = "command" /\ loop' = "output" /\ UNCHANGED campaign

\* The command pipe is empty, or its message changes nothing: a command that
\* is rejected, whose subscription the bus refuses, or that only reports.
NoCommand == Commanding /\ UNCHANGED <<pktVars, plbkVars>>

ProcessPktCommand == campaign = "packets" /\ Commanding /\ PktCommand /\ UNCHANGED plbkVars

ProcessPlbkCommand == campaign = "playback" /\ Commanding /\ PlbkCommand /\ UNCHANGED pktVars

HkRequest == campaign = "playback" /\ Commanding /\ Execute /\ UNCHANGED pktVars

OtherTasks ==
  \/ (\E m \in Mids : Publish(m)) /\ UNCHANGED <<campaign, loop, plbkVars>>
  \/ Evs /\ UNCHANGED <<campaign, loop, pktVars>>

Task ==
  \/ OutputPacket \/ OutputEnds \/ OutputFails
  \/ NoCommand \/ ProcessPktCommand \/ ProcessPlbkCommand \/ HkRequest

Next == Task \/ OtherTasks
Spec == Init /\ [][Next]_vars

\* The loop's task and the event service go on, and a housekeeping request
\* comes again and again: the scheduler table sends it periodically.
FairSpec == Spec /\ WF_vars(Task) /\ WF_vars(Evs /\ UNCHANGED <<campaign, loop, pktVars>>) /\ SF_vars(HkRequest)

TypeOK == PktTypeOK /\ PlbkTypeOK /\ loop \in {"output", "command"}

\* The inductive invariant of TypeOK.
TypeInv == TypeOK /\ PlbkBounds

\* The state of the app is sound, and its subscriptions follow the packet table
\* (pktmgr.c:791).
StateOK == TypeOK /\ SubscriptionsFollowTable

\* The inductive invariant of SubscriptionsFollowTable, SentUnderOwnEntry and
\* FreshLog.
IInv ==
  /\ loop \in {"output", "command"}
  /\ TableOK /\ subs \subseteq Mids /\ SubscriptionsFollowTable
  /\ pktCampaign.exact /\ pktCampaign.unpackable = {} => ~strayed /\ PipeOK(loop = "output")
  /\ LogFileOK /\ FreshLog

\* The output loop ends again and again, so that commands are taken: no packet
\* that is forwarded comes back and is forwarded again (pktmgr.c:912), as long
\* as the other apps pause for once.
LoopGoesOn == []<>(loop = "command")
=============================================================================
