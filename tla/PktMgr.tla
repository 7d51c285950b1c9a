-------------------------------- MODULE PktMgr --------------------------------
(***************************************************************************)
(* Telemetry output of KIT_TO (src/apps/kit_to/fsw/src/pktmgr.c and        *)
(* pkttbl.c): packets that are in the packet table are subscribed to on    *)
(* one software bus pipe, and those that are not filtered are sent to the  *)
(* ground, or forwarded in a wrapper, or both.  The table has an entry per *)
(* application id, which is a part of the message id.                      *)
(*                                                                         *)
(* The operations are actions without an order; KitTo puts them into the   *)
(* loop of the app's task.  Other apps publish between any two of them.    *)
(* A filter by count or time passes or holds any packet; statistics,       *)
(* addresses and quality of service are left out.                          *)
(***************************************************************************)
EXTENDS Integers, SequencesExt

CONSTANTS
  Mids,         \* message ids of telemetry packets
  AppIds, AppIdOf,   \* application ids, and the one in a message id
  SubWrapped,   \* SubWrappedTlmMid, packets another instance forwarded
  PubWrapped,   \* PubWrappedTlmMid, packets this instance forwards
  NoMid,        \* PKTTBL_UNUSED_MSG_ID
  Filters,      \* of {"always", "never", "some"}: the packets a filter holds
  Pkts,         \* entries that commands and files may name
  Files,        \* table files: sequences of entries
  PipeDepth, BufLim,   \* limits of the pipe, in all and per message id
  MaxBurst,     \* bound: packets published while KIT_TO empties the pipe once
  PktCampaigns  \* environments: records of type PktCampaign

PktCampaign ==
  [exact : BOOLEAN,            \* packets are removed by the id they were added with
   refuse : BOOLEAN,           \* the bus may refuse a subscription
   unpackable : SUBSET Mids]   \* packets the EDS library cannot pack

Entry == [mid : Mids, filter : Filters, forward : BOOLEAN]
Unused == [mid |-> NoMid, filter |-> "always", forward |-> FALSE]   \* PKTTBL_SetPacketToUnused

ASSUME PktAssumption ==
  /\ AppIdOf \in [Mids -> AppIds] /\ {SubWrapped, PubWrapped} \subseteq Mids /\ NoMid \notin Mids
  /\ Filters \subseteq {"always", "never", "some"} /\ Pkts \subseteq Entry /\ Files \subseteq Seq(Pkts)
  /\ PipeDepth \in Nat \ {0} /\ BufLim \in Nat \ {0} /\ MaxBurst \in Nat
  /\ PktCampaigns \subseteq PktCampaign

VARIABLES
  pktCampaign,   \* chosen at the start
  tbl,           \* PktTbl.Data
  subs,          \* message ids subscribed to on TlmPipe
  pipe,          \* packets on TlmPipe
  burst,         \* packets published since the pipe was last empty
  downlinkOn, suppressSend, tlmSource,
  forwardCnt,    \* PktForwardCnt, modulo 2
  statusSet,     \* SocketStatus has been assigned in this output cycle
  strayed        \* history: a packet was sent or forwarded under the entry of another

tblVars == <<tbl, subs>>
linkVars == <<downlinkOn, suppressSend, tlmSource>>
outVars == <<forwardCnt, strayed>>
pktVars == <<pktCampaign, tblVars, pipe, burst, linkVars, statusSet, outVars>>

PktInit ==
  /\ pktCampaign \in PktCampaigns
  /\ tbl = [a \in AppIds |-> Unused] /\ subs = {}
  /\ pipe = <<>> /\ burst = 0
  /\ downlinkOn = FALSE /\ suppressSend = TRUE /\ tlmSource = "local"
  /\ statusSet = FALSE /\ forwardCnt = 0 /\ strayed = FALSE

InTable(t) == {t[a].mid : a \in AppIds} \ {NoMid}

(***************************************************************************)
(* The software bus.                                                       *)
(***************************************************************************)

\* Delivery of a packet to the pipe, which has room or loses it.
Delivered(m, q) ==
  IF m \in subs /\ Len(q) < PipeDepth /\ Len(SelectSeq(q, LAMBDA x : x = m)) < BufLim
  THEN Append(q, m) ELSE q

Publish(m) ==
  /\ burst < MaxBurst /\ m \in subs
  /\ pipe' = Delivered(m, pipe) /\ burst' = burst + 1
  /\ UNCHANGED <<pktCampaign, tblVars, linkVars, statusSet, outVars>>

\* Mutant: the tunnel of the forwarded packets is subscribed to as well.
SubscribesAll(mids) == mids

\* SubscribeNewPkt: forwarded packets would come straight back.
Subscribes(mids) == mids \ {PubWrapped}

\* Of the subscriptions asked for the bus may refuse some.
MayRefuse(mids) == IF pktCampaign.refuse THEN SUBSET mids ELSE {{}}

(***************************************************************************)
(* Output of the packet at the head of the pipe.                           *)
(***************************************************************************)
EntryOf(m) == tbl[AppIdOf[m]]

\* PktUtil_IsPacketFiltered
Passes(e) == e.filter \in {"never", "some"}
Holds(e) == e.filter \in {"always", "some"}

Sendable(m) == IF tlmSource = "local" THEN m # SubWrapped ELSE m = SubWrapped
Packable(m) == m \notin pktCampaign.unpackable

DropSuppressed ==
  /\ pipe # <<>> /\ suppressSend
  /\ pipe' = Tail(pipe)
  /\ UNCHANGED <<pktCampaign, tblVars, burst, linkVars, statusSet, outVars>>

DropFiltered ==
  /\ pipe # <<>> /\ ~suppressSend /\ Holds(EntryOf(Head(pipe)))
  /\ pipe' = Tail(pipe) /\ statusSet' = TRUE
  /\ UNCHANGED <<pktCampaign, tblVars, burst, linkVars, outVars>>

Forwarded(m) ==
  IF EntryOf(m).forward THEN Delivered(PubWrapped, Tail(pipe)) ELSE Tail(pipe)

\* What PKTMGR_OutputTelemetry does with a packet that passes its filter
\* before it looks at SocketStatus.
PassFilter ==
  /\ pipe # <<>> /\ ~suppressSend /\ Passes(EntryOf(Head(pipe)))
  /\ pipe' = Forwarded(Head(pipe))
  /\ forwardCnt' = IF EntryOf(Head(pipe)).forward THEN 1 - forwardCnt ELSE forwardCnt
  /\ UNCHANGED <<pktCampaign, tblVars, burst, downlinkOn, tlmSource>>

ToGround(m) == downlinkOn /\ Sendable(m)
Record(m) == strayed' = (strayed \/ EntryOf(m).mid # m)

SendToGround ==
  /\ PassFilter
  /\ ToGround(Head(pipe)) /\ Packable(Head(pipe))
  /\ Record(Head(pipe))
  /\ suppressSend' \in BOOLEAN       \* OS_SocketSendTo succeeds or fails
  /\ statusSet' = TRUE

\* Nothing is sent: SocketStatus is that of an earlier packet of the cycle,
\* which was good, or has never been set and is any number.
NotSent(m) ==
  /\ IF EntryOf(m).forward THEN Record(m) ELSE UNCHANGED strayed
  /\ suppressSend' \in (IF statusSet THEN {FALSE} ELSE BOOLEAN)
  /\ UNCHANGED statusSet

KeepOnBoard == PassFilter /\ ~ToGround(Head(pipe)) /\ NotSent(Head(pipe))

\* The error of the EDS library ends the output cycle.
PackFails ==
  /\ PassFilter
  /\ ToGround(Head(pipe)) /\ ~Packable(Head(pipe))
  /\ NotSent(Head(pipe))

(***************************************************************************)
(* Commands.                                                               *)
(***************************************************************************)

\* Forward is a field of a local variable that is never assigned.
AddPktCmd(p, forward) ==
  LET a == AppIdOf[p.mid] IN
  /\ tbl[a].mid = NoMid
  /\ tbl' = [tbl EXCEPT ![a] = [p EXCEPT !.forward = forward]]
  /\ subs' = subs \cup Subscribes({p.mid})
  /\ UNCHANGED <<pktCampaign, pipe, burst, linkVars, statusSet, outVars>>

\* Mutant: the subscription stays.
UnsubscribeNone(mids) == subs

\* CFE_SB_Unsubscribe, which succeeds for what is not subscribed to as well.
Unsubscribe(mids) == subs \ mids

RemovePktCmd(m) ==
  LET a == AppIdOf[m] IN
  /\ tbl[a].mid # NoMid
  /\ pktCampaign.exact => tbl[a].mid = m
  /\ tbl' = [tbl EXCEPT ![a] = Unused]
  /\ subs' = Unsubscribe({m})
  /\ UNCHANGED <<pktCampaign, pipe, burst, linkVars, statusSet, outVars>>

RemoveAllPktsCmd ==
  /\ tbl' = [a \in AppIds |-> Unused]
  /\ subs' = Unsubscribe(InTable(tbl))
  /\ pipe' = <<>>
  /\ UNCHANGED <<pktCampaign, burst, linkVars, statusSet, outVars>>

\* LoadJsonData: the entries of a file replace those of their application
\* ids, the last one of an id counts, and the other entries are kept.
Loaded(f) ==
  LET of(a) == {i \in DOMAIN f : AppIdOf[f[i].mid] = a} IN
  [a \in AppIds |-> IF of(a) = {} THEN tbl[a] ELSE f[Max(of(a))]]

\* A load of a file without errors; no packet comes between the flush and the
\* new subscriptions, because nothing is subscribed to.
LoadPktTbl(f) ==
  /\ tbl' = Loaded(f)
  /\ \E refused \in MayRefuse(Subscribes(InTable(Loaded(f)))) :
       subs' = Unsubscribe(InTable(tbl)) \cup (Subscribes(InTable(Loaded(f))) \ refused)
  /\ pipe' = <<>>
  /\ UNCHANGED <<pktCampaign, burst, linkVars, statusSet, outVars>>

UpdatePktFilterCmd(m, filter) ==
  /\ EntryOf(m).mid # NoMid
  /\ tbl' = [tbl EXCEPT ![AppIdOf[m]].filter = filter]
  /\ UNCHANGED <<pktCampaign, subs, pipe, burst, linkVars, statusSet, outVars>>

\* A socket is opened, unless one is; output goes on after errors.
EnableOutputCmd ==
  /\ downlinkOn' = TRUE /\ suppressSend' = FALSE
  /\ UNCHANGED <<pktCampaign, tblVars, pipe, burst, tlmSource, statusSet, outVars>>

SetTlmSourceCmd(s) ==
  /\ tlmSource' = s
  /\ UNCHANGED <<pktCampaign, tblVars, pipe, burst, downlinkOn, suppressSend, statusSet, outVars>>

PktCommand ==
  \/ \E p \in Pkts, fwd \in BOOLEAN : AddPktCmd(p, fwd)
  \/ \E m \in Mids : RemovePktCmd(m)
  \/ RemoveAllPktsCmd
  \/ \E f \in Files : LoadPktTbl(f)
  \/ \E m \in Mids, filter \in Filters : UpdatePktFilterCmd(m, filter)
  \/ EnableOutputCmd
  \/ \E s \in {"local", "remote"} : SetTlmSourceCmd(s)

(***************************************************************************)
(* Properties.                                                             *)
(***************************************************************************)

PktTypeOK ==
  /\ tbl \in [AppIds -> Entry \cup {Unused}] /\ subs \subseteq Mids
  /\ pipe \in Seq(Mids) /\ Len(pipe) <= PipeDepth /\ burst \in 0 .. MaxBurst
  /\ downlinkOn \in BOOLEAN /\ suppressSend \in BOOLEAN /\ tlmSource \in {"local", "remote"}
  /\ statusSet \in BOOLEAN /\ forwardCnt \in 0 .. 1 /\ strayed \in BOOLEAN

\* Subscriptions follow the table through every order of commands and loads:
\* no packet is subscribed to that the table does not have, as long as packets
\* are removed by the id they were added with (pktmgr.c:493 unsubscribes from
\* the commanded id, not from that of the entry), and none is missing unless
\* the bus refused it.
SubscriptionsFollowTable ==
  pktCampaign.exact =>
    /\ subs \subseteq Subscribes(InTable(tbl))
    /\ ~pktCampaign.refuse => subs = Subscribes(InTable(tbl))

\* An entry is that of its application id, and an unused one holds all packets.
TableOK ==
  /\ tbl \in [AppIds -> Entry \cup {Unused}]
  /\ \A a \in AppIds : tbl[a].mid # NoMid => AppIdOf[tbl[a].mid] = a

\* The packets on the pipe have the entry they were subscribed with; after a
\* command, until the pipe is empty, some have none.
PipeOK(afterCommand) ==
  /\ pipe \in Seq(Mids)
  /\ \A i \in DOMAIN pipe :
       \/ EntryOf(pipe[i]).mid = pipe[i]
       \/ afterCommand /\ EntryOf(pipe[i]).mid = NoMid

\* A packet is sent or forwarded under the entry it was subscribed with, not
\* under one that took its place while it was on the pipe: between two commands
\* the pipe is emptied, unless a pack error ends the cycle early
\* (pktmgr.c:364 and 397).
SentUnderOwnEntry ==
  pktCampaign.exact /\ pktCampaign.unpackable = {} => ~strayed
=============================================================================
