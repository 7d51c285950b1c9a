----------------------------- MODULE KitTo_proofs -----------------------------
(***************************************************************************)
(* Proofs about KitTo for every packet table, every set of table files,    *)
(* every pipe and every order of commands: the subscriptions follow the    *)
(* table, packets leave under the entry they were subscribed with, and a   *)
(* playback is of the latest log; no field leaves its range.  The          *)
(* inductive invariants are IInv and, for the ranges, TypeInv.             *)
(***************************************************************************)
EXTENDS KitTo, SequenceTheorems, WellFoundedInduction, TLAPS

-----------------------------------------------------------------------------
(* Facts about data.                                                       *)

\* A set of numbers has a least element.
LEMMA NatMin ==
  ASSUME NEW T \in SUBSET Nat, T # {}
  PROVE  \E t \in T : \A u \in T : t <= u
<1> DEFINE R == OpToRel(<, Nat)
<1>1. PICK t \in T : \A u \in T : ~ (<<u, t>> \in R)
  BY WFMin, NatLessThanWellFounded
<1>2. \A u \in T : ~(u < t)
  BY <1>1 DEF OpToRel
<1> QED
  BY <1>2

\* A bounded set of numbers has a maximum.
LEMMA MaxFact ==
  ASSUME NEW n \in Nat, NEW S \in SUBSET (0 .. n), S # {}
  PROVE  Max(S) \in S
<1> DEFINE T == {n - x : x \in S}
<1>1. T \in SUBSET Nat /\ T # {}
  <2>1. \A x \in S : n - x \in Nat
    OBVIOUS
  <2> QED
    BY <2>1
<1>2. PICK t \in T : \A u \in T : t <= u
  <2> HIDE DEF T
  <2> QED
    BY <1>1, NatMin
<1>3. PICK x \in S : t = n - x
  OBVIOUS
<1>4. \A y \in S : x >= y
  BY <1>2, <1>3
<1> QED
  BY <1>4 DEF Max

\* A packet that is delivered is one that is subscribed to.
LEMMA DeliveredFact ==
  ASSUME NEW m \in Mids, NEW q \in Seq(Mids)
  PROVE  /\ Delivered(m, q) \in Seq(Mids)
         /\ \A i \in DOMAIN Delivered(m, q) :
              \/ i \in DOMAIN q /\ Delivered(m, q)[i] = q[i]
              \/ m \in subs /\ Delivered(m, q)[i] = m
<1>1. CASE Delivered(m, q) = q
  BY <1>1
<1>2. CASE m \in subs /\ Delivered(m, q) = Append(q, m)
  BY <1>2, AppendProperties
<1> QED
  BY <1>1, <1>2 DEF Delivered

\* The rest of the pipe.
LEMMA TailFact ==
  ASSUME NEW q \in Seq(Mids), q # <<>>
  PROVE  /\ Head(q) = q[1] /\ 1 \in DOMAIN q /\ Head(q) \in Mids
         /\ Tail(q) \in Seq(Mids)
         /\ \A i \in DOMAIN Tail(q) : i + 1 \in DOMAIN q /\ Tail(q)[i] = q[i + 1]
BY HeadTailProperties

-----------------------------------------------------------------------------
(* The packet half of the invariant.                                       *)
PktInv ==
  /\ TableOK /\ subs \subseteq Mids /\ SubscriptionsFollowTable
  /\ pktCampaign.exact /\ pktCampaign.unpackable = {} => ~strayed /\ PipeOK(loop = "output")

LEMMA UnusedFact == Unused.mid = NoMid /\ Unused \notin Entry /\ ~Passes(Unused)
BY PktAssumption DEF Unused, Entry, Passes

LEMMA EntryFact ==
  ASSUME TableOK, NEW a \in AppIds
  PROVE  /\ tbl[a].mid \in Mids \cup {NoMid}
         /\ tbl[a].mid = NoMid <=> tbl[a] = Unused
         /\ tbl[a].mid # NoMid => tbl[a] \in Entry
BY PktAssumption DEF TableOK, Entry, Unused

\* A packet that is subscribed to has its own entry.
LEMMA SubscribedFact ==
  ASSUME TableOK, SubscriptionsFollowTable, pktCampaign.exact, NEW m \in subs
  PROVE  EntryOf(m).mid = m /\ m # PubWrapped
BY DEF TableOK, SubscriptionsFollowTable, Subscribes, InTable, EntryOf

LEMMA InitPkt == PktInit => PktInv
<1> SUFFICES ASSUME PktInit PROVE PktInv
    OBVIOUS
<1>1. TableOK
  BY UnusedFact DEF PktInit, TableOK
<1>2. SubscriptionsFollowTable
  BY UnusedFact DEF PktInit, SubscriptionsFollowTable, Subscribes, InTable
<1>3. PipeOK(loop = "output") /\ ~strayed /\ subs \subseteq Mids
  BY DEF PktInit, PipeOK
<1> QED
  BY <1>1, <1>2, <1>3 DEF PktInv

LEMMA PublishStep ==
  ASSUME PktInv, NEW m \in Mids, Publish(m), loop' = loop
  PROVE  PktInv'
<1>1. UNCHANGED <<pktCampaign, tbl, subs, strayed>>
  BY DEF Publish, tblVars, outVars
<1>2. TableOK' /\ (subs \subseteq Mids)' /\ SubscriptionsFollowTable'
  BY <1>1 DEF PktInv, TableOK, SubscriptionsFollowTable, InTable
<1>3. ASSUME pktCampaign.exact, pktCampaign.unpackable = {}
      PROVE  PipeOK(loop = "output")'
  <2>1. pipe \in Seq(Mids) /\ m \in subs /\ pipe' = Delivered(m, pipe)
    BY <1>3 DEF PktInv, PipeOK, Publish
  <2>2. EntryOf(m).mid = m
    BY <1>3, <2>1, SubscribedFact DEF PktInv
  <2> QED
    BY <1>1, <1>3, <2>1, <2>2, DeliveredFact DEF PktInv, PipeOK, EntryOf
<1> QED
  BY <1>1, <1>2, <1>3 DEF PktInv

LEMMA DropStep ==
  ASSUME PktInv, DropSuppressed \/ DropFiltered, loop = "output", loop' = loop
  PROVE  PktInv'
<1>1. UNCHANGED <<pktCampaign, tbl, subs, strayed>> /\ pipe # <<>> /\ pipe' = Tail(pipe)
  BY DEF DropSuppressed, DropFiltered, tblVars, outVars
<1>2. TableOK' /\ (subs \subseteq Mids)' /\ SubscriptionsFollowTable'
  BY <1>1 DEF PktInv, TableOK, SubscriptionsFollowTable, InTable
<1>3. ASSUME pktCampaign.exact, pktCampaign.unpackable = {}
      PROVE  PipeOK(loop = "output")'
  BY <1>1, <1>3, TailFact DEF PktInv, PipeOK, EntryOf
<1> QED
  BY <1>1, <1>2, <1>3 DEF PktInv

\* A packet that passes its filter has an entry, which is its own.
LEMMA PassStep ==
  ASSUME PktInv, SendToGround \/ KeepOnBoard \/ PackFails,
         PackFails => loop' = "command",
         ~PackFails => loop' = loop,
         loop = "output"
  PROVE  PktInv'
<1>1. UNCHANGED <<pktCampaign, tbl, subs>> /\ PassFilter
  BY DEF SendToGround, KeepOnBoard, PackFails, PassFilter, tblVars
<1>2. TableOK' /\ (subs \subseteq Mids)' /\ SubscriptionsFollowTable'
  BY <1>1 DEF PktInv, TableOK, SubscriptionsFollowTable, InTable
<1>3. ASSUME pktCampaign.exact, pktCampaign.unpackable = {}
      PROVE  PipeOK(loop = "output")' /\ ~strayed'
  <2> DEFINE m == Head(pipe)
  <2>1. /\ pipe \in Seq(Mids) /\ pipe # <<>> /\ m \in Mids /\ Tail(pipe) \in Seq(Mids)
        /\ ~strayed /\ loop' = "output"
    <3>1. ~PackFails
      BY <1>3 DEF PackFails, Packable
    <3>2. pipe \in Seq(Mids) /\ pipe # <<>> /\ ~strayed
      BY <1>1, <1>3 DEF PktInv, PipeOK, PassFilter
    <3> QED
      BY <3>1, <3>2, TailFact
  <2>2. EntryOf(m).mid = m
    <3>1. EntryOf(m).mid \in {m, NoMid}
      BY <1>3, <2>1, TailFact DEF PktInv, PipeOK
    <3>2. AppIdOf[m] \in AppIds
      BY <2>1, PktAssumption
    <3>3. EntryOf(m).mid # NoMid
      BY <1>1, <3>2, EntryFact, UnusedFact DEF PktInv, PassFilter, EntryOf
    <3> QED
      BY <3>1, <3>3
  <2>3. ~strayed'
    BY <2>1, <2>2 DEF SendToGround, KeepOnBoard, PackFails, NotSent, Record
  <2>4. \/ pipe' = Tail(pipe)
        \/ pipe' = Delivered(PubWrapped, Tail(pipe))
    BY <1>1 DEF PassFilter, Forwarded
  <2>5. /\ pipe' \in Seq(Mids)
        /\ \A i \in DOMAIN pipe' :
             \/ i \in DOMAIN Tail(pipe) /\ pipe'[i] = Tail(pipe)[i]
             \/ PubWrapped \in subs
    <3>1. CASE pipe' = Tail(pipe)
      BY <2>1, <3>1
    <3>2. CASE pipe' = Delivered(PubWrapped, Tail(pipe))
      <4> DEFINE q == Tail(pipe)
      <4>1. q \in Seq(Mids) /\ PubWrapped \in Mids
        BY <2>1, PktAssumption
      <4> HIDE DEF q
      <4> QED
        BY <4>1, <3>2, DeliveredFact DEF q
    <3> QED
      BY <2>4, <3>1, <3>2
  <2>6. PubWrapped \notin subs
    BY <1>3, SubscribedFact DEF PktInv
  <2>7. \A i \in DOMAIN pipe' : EntryOf(pipe'[i]).mid \in {pipe'[i], NoMid}
    <3>1. \A i \in DOMAIN pipe' : i + 1 \in DOMAIN pipe /\ pipe'[i] = pipe[i + 1]
      BY <2>1, <2>5, <2>6, TailFact
    <3> QED
      BY <3>1, <1>3 DEF PktInv, PipeOK
  <2> QED
    BY <1>1, <2>1, <2>3, <2>5, <2>7 DEF PipeOK, EntryOf
<1> QED
  BY <1>1, <1>2, <1>3 DEF PktInv

LEMMA EndsStep ==
  ASSUME PktInv, OutputEnds
  PROVE  PktInv'
<1>1. UNCHANGED <<pktCampaign, tbl, subs, pipe, strayed>> /\ pipe = <<>>
  BY DEF OutputEnds, PipeEmptied, tblVars, outVars
<1>2. TableOK' /\ (subs \subseteq Mids)' /\ SubscriptionsFollowTable'
  BY <1>1 DEF PktInv, TableOK, SubscriptionsFollowTable, InTable
<1>3. PipeOK(loop = "output")'
  BY <1>1 DEF PipeOK
<1> QED
  BY <1>1, <1>2, <1>3 DEF PktInv

\* A pipe that held its own entries after a command that only removes entries.
LEMMA AfterCommand ==
  ASSUME loop = "command", PipeOK(loop = "output"), pipe' = pipe, loop' = "output",
         \A m \in Mids : EntryOf(m).mid = m => EntryOf(m)'.mid \in {m, NoMid}
  PROVE  PipeOK(loop = "output")'
<1>1. pipe \in Seq(Mids) /\ \A i \in DOMAIN pipe : EntryOf(pipe[i]).mid = pipe[i]
  BY DEF PipeOK
<1>2. \A i \in DOMAIN pipe : pipe[i] \in Mids
  BY <1>1
<1> QED
  BY <1>1, <1>2 DEF PipeOK, EntryOf

LEMMA AddStep ==
  ASSUME PktInv, NEW p \in Pkts, NEW fwd \in BOOLEAN, AddPktCmd(p, fwd),
         loop = "command", loop' = "output"
  PROVE  PktInv'
<1> DEFINE a == AppIdOf[p.mid]
           e == [p EXCEPT !.forward = fwd]
<1> USE DEF AddPktCmd
<1>1. p \in Entry /\ p.mid \in Mids /\ a \in AppIds /\ e \in Entry /\ e.mid = p.mid
  BY PktAssumption DEF Entry
<1>2. /\ tbl' = [tbl EXCEPT ![a] = e] /\ tbl[a].mid = NoMid
      /\ UNCHANGED <<pktCampaign, pipe, strayed>>
      /\ subs' = subs \cup Subscribes({p.mid})
  BY DEF outVars
<1> HIDE DEF AddPktCmd, e
<1>3. \A b \in AppIds : tbl'[b] = IF b = a THEN e ELSE tbl[b]
  BY <1>1, <1>2 DEF PktInv, TableOK
<1>4. TableOK' /\ (subs \subseteq Mids)'
  BY <1>1, <1>2, <1>3 DEF PktInv, TableOK, Subscribes
<1>5. InTable(tbl)' = InTable(tbl) \cup {p.mid}
  <2>1. p.mid # NoMid
    BY <1>1, PktAssumption
  <2> QED
    BY <1>1, <1>2, <1>3, <2>1 DEF InTable
<1>6. SubscriptionsFollowTable'
  BY <1>2, <1>5 DEF PktInv, SubscriptionsFollowTable, Subscribes
<1>7. ASSUME pktCampaign.exact, pktCampaign.unpackable = {}
      PROVE  PipeOK(loop = "output")'
  <2>1. \A m \in Mids : EntryOf(m).mid = m => EntryOf(m)'.mid = m
    BY <1>1, <1>2, <1>3, PktAssumption DEF EntryOf
  <2> QED
    BY <1>2, <1>7, <2>1, AfterCommand DEF PktInv
<1> QED
  BY <1>2, <1>4, <1>6, <1>7 DEF PktInv

LEMMA RemoveStep ==
  ASSUME PktInv, NEW m \in Mids, RemovePktCmd(m), loop = "command", loop' = "output"
  PROVE  PktInv'
<1> DEFINE a == AppIdOf[m]
<1>1. a \in AppIds
  BY PktAssumption
<1>2. /\ tbl' = [tbl EXCEPT ![a] = Unused] /\ subs' = subs \ {m}
      /\ pktCampaign.exact => tbl[a].mid = m
      /\ UNCHANGED <<pktCampaign, pipe, strayed>>
  BY DEF RemovePktCmd, Unsubscribe, outVars
<1>3. \A b \in AppIds : tbl'[b] = IF b = a THEN Unused ELSE tbl[b]
  BY <1>1, <1>2 DEF PktInv, TableOK
<1>4. TableOK' /\ (subs \subseteq Mids)'
  BY <1>1, <1>2, <1>3, UnusedFact DEF PktInv, TableOK
<1>5. SubscriptionsFollowTable'
  <2> SUFFICES ASSUME pktCampaign.exact PROVE SubscriptionsFollowTable'
    BY <1>2 DEF SubscriptionsFollowTable
  <2>1. \A b \in AppIds : b # a => tbl[b].mid # m
    BY PktAssumption DEF PktInv, TableOK
  <2>2. InTable(tbl)' = InTable(tbl) \ {m}
    BY <1>1, <1>2, <1>3, <2>1, UnusedFact DEF InTable
  <2> QED
    BY <1>2, <2>2 DEF PktInv, SubscriptionsFollowTable, Subscribes
<1>6. ASSUME pktCampaign.exact, pktCampaign.unpackable = {}
      PROVE  PipeOK(loop = "output")'
  <2>1. \A k \in Mids : EntryOf(k).mid = k => EntryOf(k)'.mid \in {k, NoMid}
    BY <1>1, <1>3, UnusedFact, PktAssumption DEF EntryOf
  <2> QED
    BY <1>2, <1>6, <2>1, AfterCommand DEF PktInv
<1> QED
  BY <1>2, <1>4, <1>5, <1>6 DEF PktInv

LEMMA RemoveAllStep ==
  ASSUME PktInv, RemoveAllPktsCmd
  PROVE  PktInv'
<1>1. /\ tbl' = [a \in AppIds |-> Unused] /\ subs' = subs \ InTable(tbl) /\ pipe' = <<>>
      /\ UNCHANGED <<pktCampaign, strayed>>
  BY DEF RemoveAllPktsCmd, Unsubscribe, outVars
<1>2. TableOK' /\ (subs \subseteq Mids)'
  BY <1>1, UnusedFact DEF PktInv, TableOK
<1>3. SubscriptionsFollowTable'
  <2>1. InTable(tbl)' = {}
    BY <1>1, UnusedFact DEF InTable
  <2> QED
    BY <1>1, <2>1 DEF PktInv, SubscriptionsFollowTable, Subscribes
<1>4. PipeOK(loop = "output")'
  BY <1>1 DEF PipeOK
<1> QED
  BY <1>1, <1>2, <1>3, <1>4 DEF PktInv

\* A table with the entries of a file is a table.
LEMMA LoadedFact ==
  ASSUME TableOK, NEW f \in Files, NEW a \in AppIds
  PROVE  /\ Loaded(f)[a] \in Entry \cup {Unused}
         /\ Loaded(f)[a].mid # NoMid => AppIdOf[Loaded(f)[a].mid] = a
<1> DEFINE of(b) == {i \in DOMAIN f : AppIdOf[f[i].mid] = b}
<1>1. Loaded(f)[a] = IF of(a) = {} THEN tbl[a] ELSE f[Max(of(a))]
  BY DEF Loaded
<1>2. CASE of(a) = {}
  BY <1>1, <1>2 DEF TableOK
<1>3. CASE of(a) # {}
  <2>1. f \in Seq(Pkts) /\ Len(f) \in Nat /\ DOMAIN f = 1 .. Len(f)
    BY PktAssumption
  <2>2. of(a) \in SUBSET (0 .. Len(f))
    BY <2>1
  <2>3. Max(of(a)) \in of(a)
    <3> HIDE DEF of
    <3> QED
      BY <1>3, <2>1, <2>2, MaxFact
  <2>4. f[Max(of(a))] \in Pkts
    BY <2>1, <2>3
  <2> QED
    BY <1>1, <1>3, <2>3, <2>4, PktAssumption
<1> QED
  BY <1>2, <1>3

LEMMA LoadStep ==
  ASSUME PktInv, NEW f \in Files, LoadPktTbl(f)
  PROVE  PktInv'
<1> DEFINE new == Loaded(f)
<1>1. PICK refused \in MayRefuse(Subscribes(InTable(new))) :
        subs' = (subs \ InTable(tbl)) \cup (Subscribes(InTable(new)) \ refused)
  BY DEF LoadPktTbl, Unsubscribe
<1>2. tbl' = new /\ pipe' = <<>> /\ UNCHANGED <<pktCampaign, strayed>>
  BY DEF LoadPktTbl, outVars
<1>3. TableOK'
  <2>1. new = [a \in AppIds |-> new[a]]
    BY DEF Loaded
  <2>2. \A a \in AppIds : /\ new[a] \in Entry \cup {Unused}
                          /\ new[a].mid # NoMid => AppIdOf[new[a].mid] = a
    BY LoadedFact DEF PktInv
  <2> HIDE DEF new
  <2> QED
    BY <1>2, <2>1, <2>2 DEF TableOK
<1>4. InTable(new) \subseteq Mids
  <2>1. \A a \in AppIds : new[a] \in Entry \cup {Unused}
    BY LoadedFact DEF PktInv
  <2> HIDE DEF new
  <2> QED
    BY <2>1, UnusedFact DEF InTable, Entry
<1> HIDE DEF new
<1>5. (subs \subseteq Mids)'
  BY <1>1, <1>4 DEF PktInv, Subscribes
<1>6. SubscriptionsFollowTable'
  <2> SUFFICES ASSUME pktCampaign.exact PROVE SubscriptionsFollowTable'
    BY <1>2 DEF SubscriptionsFollowTable
  <2>1. subs \ InTable(tbl) = {}
    BY DEF PktInv, SubscriptionsFollowTable, Subscribes
  <2>2. ~pktCampaign.refuse => refused = {}
    BY DEF MayRefuse
  <2> QED
    BY <1>1, <1>2, <2>1, <2>2 DEF SubscriptionsFollowTable, Subscribes
<1>7. PipeOK(loop = "output")'
  BY <1>2 DEF PipeOK
<1> QED
  BY <1>2, <1>3, <1>5, <1>6, <1>7 DEF PktInv

LEMMA FilterStep ==
  ASSUME PktInv, NEW m \in Mids, NEW filter \in Filters, UpdatePktFilterCmd(m, filter),
         loop = "command", loop' = "output"
  PROVE  PktInv'
<1> DEFINE a == AppIdOf[m]
           e == [tbl[a] EXCEPT !.filter = filter]
<1>1. a \in AppIds
  BY PktAssumption
<1>2. /\ tbl' = [tbl EXCEPT ![a] = e] /\ UNCHANGED <<pktCampaign, subs, pipe, strayed>>
      /\ tbl[a].mid # NoMid
  BY DEF UpdatePktFilterCmd, EntryOf, outVars
<1>3. e \in Entry /\ e.mid = tbl[a].mid
  BY <1>1, <1>2, EntryFact DEF PktInv, Entry
<1> HIDE DEF e
<1>4. \A b \in AppIds : tbl'[b] = IF b = a THEN e ELSE tbl[b]
  BY <1>1, <1>2 DEF PktInv, TableOK
<1>5. \A b \in AppIds : tbl'[b].mid = tbl[b].mid
  BY <1>3, <1>4
<1>6. TableOK' /\ (subs \subseteq Mids)'
  BY <1>1, <1>2, <1>3, <1>4 DEF PktInv, TableOK
<1>7. SubscriptionsFollowTable'
  <2>1. InTable(tbl)' = InTable(tbl)
    BY <1>5 DEF InTable
  <2> QED
    BY <1>2, <2>1 DEF PktInv, SubscriptionsFollowTable
<1>8. ASSUME pktCampaign.exact, pktCampaign.unpackable = {}
      PROVE  PipeOK(loop = "output")'
  <2>1. \A k \in Mids : EntryOf(k)'.mid = EntryOf(k).mid
    BY <1>5, PktAssumption DEF EntryOf
  <2> QED
    BY <1>2, <1>8, <2>1, AfterCommand DEF PktInv
<1> QED
  BY <1>2, <1>6, <1>7, <1>8 DEF PktInv

\* Steps that leave the table, the subscriptions and the pipe alone.
LEMMA QuietStep ==
  ASSUME PktInv, UNCHANGED <<pktCampaign, tblVars, pipe, strayed>>,
         loop' \in {loop, "output"}
  PROVE  PktInv'
BY DEF PktInv, TableOK, SubscriptionsFollowTable, InTable, PipeOK, EntryOf, tblVars

LEMMA PktCommandStep ==
  ASSUME PktInv, PktCommand, loop = "command", loop' = "output"
  PROVE  PktInv'
<1>1. CASE EnableOutputCmd \/ \E s \in {"local", "remote"} : SetTlmSourceCmd(s)
  <2>1. UNCHANGED <<pktCampaign, tblVars, pipe, strayed>>
    BY <1>1 DEF EnableOutputCmd, SetTlmSourceCmd, outVars
  <2> QED
    BY <2>1, QuietStep
<1> QED
  BY <1>1, AddStep, RemoveStep, RemoveAllStep, LoadStep, FilterStep DEF PktCommand

-----------------------------------------------------------------------------
(* The playback half of the invariant.                                     *)
PlbkInv == LogFileOK /\ FreshLog

LEMMA InitPlbk == PlbkInit => PlbkInv
<1> SUFFICES ASSUME PlbkInit PROVE PlbkInv
    OBVIOUS
<1>1. logFile \in LogFiles /\ evsFile = NoLogFile /\ evsCmds = <<>> /\ starts = 0
  BY PlbkAssumption DEF PlbkInit
<1>2. \A f \in LogFiles : disk[f] = Absent
  BY DEF PlbkInit
<1>3. disk \in [LogFiles -> [of : Nat, events : Int, header : BOOLEAN]]
  BY DEF PlbkInit, Absent
<1> QED
  BY <1>1, <1>2, <1>3 DEF PlbkInit, PlbkInv, LogFileOK, FreshLog

LEMMA EvsStep ==
  ASSUME PlbkInv, Evs
  PROVE  PlbkInv'
<1> USE DEF PlbkInv, LogFileOK, FreshLog
<1> DEFINE File == [of : Nat, events : Int, header : BOOLEAN]
<1>1. CASE EvsCreate
  <2> DEFINE c == Head(evsCmds)
  <2>1. c \in LogFiles /\ Tail(evsCmds) \in Seq(LogFiles)
    BY <1>1, HeadTailProperties DEF EvsCreate
  <2>2. /\ evsFile' = c /\ evsCmds' = Tail(evsCmds) /\ evsFile = NoLogFile
        /\ disk' = [disk EXCEPT ![c] = [of |-> starts, events |-> 0, header |-> FALSE]]
        /\ UNCHANGED <<plbkCampaign, enabled, copied, logFile, eventLog, starts>>
    BY <1>1 DEF EvsCreate
  <2> HIDE DEF c
  <2>3. \A f \in LogFiles :
          disk'[f] = IF f = c THEN [of |-> starts, events |-> 0, header |-> FALSE] ELSE disk[f]
    BY <2>1, <2>2
  <2>4. disk' \in [LogFiles -> File]
    BY <2>1, <2>2
  <2>5. \A f \in LogFiles : f # evsFile' => disk'[f] = Absent \/ disk'[f].header
    BY <2>2, <2>3, PlbkAssumption
  <2>6. plbkCampaign = "whole" /\ enabled =>
          (disk'[logFile] = Absent /\ c # logFile) \/ disk'[logFile].of = starts
    BY <2>3
  <2> QED
    BY <2>1, <2>2, <2>4, <2>5, <2>6
<1>2. CASE EvsWrite
  <2>1. /\ evsFile \in LogFiles
        /\ UNCHANGED <<plbkCampaign, enabled, copied, logFile, eventLog, evsCmds, evsFile, starts>>
    BY <1>2 DEF EvsWrite
  <2> DEFINE d == disk[evsFile]
  <2>2. PICK e : disk' = [disk EXCEPT ![evsFile] = e] /\ e \in File /\ e.of = d.of
    <3>1. d \in File
      BY <2>1
    <3>2. CASE ~d.header
      <4> DEFINE e == [d EXCEPT !.header = TRUE]
      <4>1. disk' = [disk EXCEPT ![evsFile] = e]
        BY <1>2, <3>2 DEF EvsWrite
      <4>2. e \in File /\ e.of = d.of
        BY <3>1
      <4> QED
        BY <4>1, <4>2
    <3>3. CASE d.header
      <4> DEFINE e == [d EXCEPT !.events = @ + 1]
      <4>1. disk' = [disk EXCEPT ![evsFile] = e]
        BY <1>2, <3>3 DEF EvsWrite
      <4>2. e \in File /\ e.of = d.of
        BY <3>1
      <4> QED
        BY <4>1, <4>2
    <3> QED
      BY <3>2, <3>3
  <2> QED
    BY <2>1, <2>2
<1>3. CASE EvsClose
  BY <1>3, PlbkAssumption DEF EvsClose
<1> QED
  BY <1>1, <1>2, <1>3 DEF Evs

LEMMA PlbkCommandStep ==
  ASSUME PlbkInv, PlbkCommand
  PROVE  PlbkInv'
<1> USE DEF PlbkInv, LogFileOK, FreshLog
<1>1. ASSUME NEW f \in LogFiles, NEW n \in Periods, ConfigCmd(f, n)
      PROVE  PlbkInv'
  BY <1>1 DEF ConfigCmd, ConfigAllowed, evsVars
<1>2. CASE StartCmd
  <2>1. /\ UNCHANGED <<plbkCampaign, logFile, eventLog, evsFile>> /\ enabled' /\ ~copied'
        /\ starts' = starts + 1 /\ evsCmds' = Append(evsCmds, logFile)
        /\ disk' = RemovesOldFile /\ (plbkCampaign = "whole" => evsFile = NoLogFile)
    BY <1>2 DEF StartCmd, NotAmidWrite
  <2>2. evsCmds' \in Seq(LogFiles) /\ starts' \in Nat
    BY <2>1, AppendProperties
  <2>3. disk' = disk \/ (evsFile # logFile /\ disk' = [disk EXCEPT ![logFile] = Absent])
    BY <2>1 DEF RemovesOldFile
  <2>4. Absent \in [of : Nat, events : Int, header : BOOLEAN]
    BY DEF Absent
  <2>5. plbkCampaign = "whole" => disk'[logFile] = Absent /\ evsFile # logFile
    BY <2>1, PlbkAssumption DEF RemovesOldFile
  <2> HIDE DEF Absent
  <2> QED
    BY <2>1, <2>2, <2>3, <2>4, <2>5
<1>3. CASE StopCmd
  BY <1>3 DEF StopCmd, evsVars
<1> QED
  BY <1>1, <1>2, <1>3 DEF PlbkCommand

LEMMA ExecuteStep ==
  ASSUME PlbkInv, Execute
  PROVE  PlbkInv'
<1> USE DEF PlbkInv, LogFileOK, FreshLog
<1>1. /\ UNCHANGED <<plbkCampaign, logFile, evsCmds, evsFile, disk, starts>>
      /\ plbkCampaign = "whole" => evsFile = NoLogFile
  BY DEF Execute, NotAmidWrite, evsVars
<1>2. CASE UNCHANGED <<enabled, copied, eventLog>>
  BY <1>1, <1>2
<1>3. CASE enabled /\ ~copied /\ LoadFails
  BY <1>1, <1>3 DEF LoadFails
<1>4. CASE enabled /\ ~copied /\ LoadSucceeds
  <2>1. ASSUME plbkCampaign = "whole" PROVE eventLog'.of = starts
    <3>1. disk[logFile] # Absent /\ logFile # evsFile
      BY <1>1, <1>4, <2>1, PlbkAssumption DEF LoadSucceeds
    <3>2. disk[logFile].header /\ disk[logFile].of = starts
      BY <1>4, <2>1, <3>1
    <3> QED
      BY <1>4, <3>2 DEF LoadSucceeds
  <2> QED
    BY <1>1, <1>4, <2>1 DEF LoadSucceeds
<1> QED
  BY <1>2, <1>3, <1>4 DEF Execute, WaitOrSend

-----------------------------------------------------------------------------
(* Both halves.                                                            *)
LEMMA Halves == IInv <=> loop \in {"output", "command"} /\ PktInv /\ PlbkInv
BY DEF IInv, PktInv, PlbkInv

LEMMA HalvesAfter ==
  ASSUME loop' \in {"output", "command"}, PktInv', PlbkInv'
  PROVE  IInv'
BY DEF IInv, PktInv, PlbkInv

LEMMA InitIInv == Init => IInv
<1> SUFFICES ASSUME Init PROVE IInv
    OBVIOUS
<1>1. PktInv /\ PlbkInv /\ loop = "output"
  BY InitPkt, InitPlbk DEF Init
<1> QED
  BY <1>1, Halves

\* The two halves share no variable.
LEMMA PlbkUnchanged ==
  ASSUME PlbkInv, UNCHANGED plbkVars
  PROVE  PlbkInv'
BY DEF PlbkInv, LogFileOK, FreshLog, plbkVars, evsVars

LEMMA PktUnchanged ==
  ASSUME PktInv, UNCHANGED pktVars, loop' \in {loop, "output"}
  PROVE  PktInv'
BY QuietStep DEF pktVars, outVars

LEMMA TaskStep ==
  ASSUME IInv, Task
  PROVE  IInv'
<1>1. PktInv /\ PlbkInv /\ loop \in {"output", "command"}
  BY Halves
<1>2. CASE OutputPacket
  BY <1>1, <1>2, DropStep, PassStep, PlbkUnchanged, HalvesAfter DEF OutputPacket, PackFails, SendToGround, KeepOnBoard
<1>3. CASE OutputEnds
  BY <1>1, <1>3, EndsStep, PlbkUnchanged, HalvesAfter DEF OutputEnds
<1>4. CASE OutputFails
  BY <1>1, <1>4, PassStep, PlbkUnchanged, HalvesAfter DEF OutputFails
<1>5. CASE NoCommand
  BY <1>1, <1>5, PktUnchanged, PlbkUnchanged, HalvesAfter DEF NoCommand, Commanding
<1>6. CASE ProcessPktCommand
  BY <1>1, <1>6, PktCommandStep, PlbkUnchanged, HalvesAfter DEF ProcessPktCommand, Commanding
<1>7. CASE ProcessPlbkCommand
  BY <1>1, <1>7, PktUnchanged, PlbkCommandStep, HalvesAfter DEF ProcessPlbkCommand, Commanding
<1>8. CASE HkRequest
  BY <1>1, <1>8, PktUnchanged, ExecuteStep, HalvesAfter DEF HkRequest, Commanding
<1> QED
  BY <1>2, <1>3, <1>4, <1>5, <1>6, <1>7, <1>8 DEF Task

LEMMA OtherStep ==
  ASSUME IInv, OtherTasks \/ UNCHANGED vars
  PROVE  IInv'
<1>1. PktInv /\ PlbkInv /\ loop' = loop /\ loop \in {"output", "command"}
  BY Halves DEF OtherTasks, vars
<1>2. ASSUME NEW m \in Mids, Publish(m), UNCHANGED plbkVars
      PROVE  IInv'
  BY <1>1, <1>2, PublishStep, PlbkUnchanged, HalvesAfter
<1>3. CASE Evs /\ UNCHANGED pktVars
  BY <1>1, <1>3, EvsStep, PktUnchanged, HalvesAfter
<1>4. CASE UNCHANGED vars
  BY <1>1, <1>4, PktUnchanged, PlbkUnchanged, HalvesAfter DEF vars
<1> QED
  BY <1>2, <1>3, <1>4 DEF OtherTasks

-----------------------------------------------------------------------------
(* Types.                                                                  *)

\* The recursive function Sent exists, and its values are indices of the log.
LEMMA SentFact ==
  ASSUME plbkIdx \in 0 .. LogMax
  PROVE  \A n \in 1 .. PerPkt :
           /\ Sent[n] \in 0 .. LogMax - 1
           /\ Sent[n] = Wrap(IF n = 1 THEN plbkIdx ELSE Sent[n - 1] + 1)
<1> DEFINE Good(g, n) == /\ g \in [1 .. n -> 0 .. LogMax - 1]
                         /\ \A i \in 1 .. n : g[i] = Wrap(IF i = 1 THEN plbkIdx ELSE g[i - 1] + 1)
           Solves(f) == f = [n \in 1 .. PerPkt |-> Wrap(IF n = 1 THEN plbkIdx ELSE f[n - 1] + 1)]
           T == {n \in 0 .. PerPkt : ~ \E g : Good(g, n)}
           U == {n \in 1 .. PerPkt : Sent[n] \notin 0 .. LogMax - 1}
<1>1. LogMax \in Nat \ {0} /\ PerPkt \in Nat \ {0}
  BY PlbkAssumption
<1>2. \A i \in 0 .. LogMax : Wrap(i) \in 0 .. LogMax - 1
  BY <1>1 DEF Wrap
<1>3. T = {}
  <2> SUFFICES ASSUME T # {} PROVE FALSE
      OBVIOUS
  <2>1. PICK n \in T : \A u \in T : n <= u
    <3>1. T \in SUBSET Nat
      BY <1>1
    <3> HIDE DEF T
    <3> QED
      BY <3>1, NatMin
  <2>2. n # 0
    <3>1. Good([i \in 1 .. 0 |-> 0], 0)
      BY <1>1
    <3> QED
      BY <3>1
  <2>3. PICK g : Good(g, n - 1)
    <3>1. n - 1 \in 0 .. PerPkt /\ n \in Nat
      BY <1>1, <2>2
    <3>2. n - 1 \notin T
      <4> HIDE DEF T
      <4> QED
        BY <2>1, <3>1
    <3> QED
      BY <3>1, <3>2
  <2> DEFINE next == Wrap(IF n = 1 THEN plbkIdx ELSE g[n - 1] + 1)
             h == [i \in 1 .. n |-> IF i = n THEN next ELSE g[i]]
  <2>4. next \in 0 .. LogMax - 1
    <3>1. n # 1 => g[n - 1] + 1 \in 0 .. LogMax
      BY <1>1, <2>1, <2>2, <2>3
    <3> QED
      BY <1>2, <3>1
  <2> HIDE DEF next
  <2>5. Good(h, n)
    <3>1. h \in [1 .. n -> 0 .. LogMax - 1]
      <4>1. \A i \in 1 .. n : i # n => i \in 1 .. n - 1
        BY <2>1
      <4>2. \A i \in 1 .. n - 1 : g[i] \in 0 .. LogMax - 1
        BY <2>3
      <4> QED
        BY <2>4, <4>1, <4>2
    <3>2. ASSUME NEW i \in 1 .. n
          PROVE  h[i] = Wrap(IF i = 1 THEN plbkIdx ELSE h[i - 1] + 1)
      <4>1. CASE i = n
        BY <1>1, <2>1, <2>2, <4>1 DEF next
      <4>2. CASE i # n
        <5>1. i \in 1 .. n - 1 /\ (i # 1 => i - 1 \in 1 .. n - 1)
          BY <2>1, <4>2
        <5> QED
          BY <2>3, <4>2, <5>1
      <4> QED
        BY <4>1, <4>2
    <3> QED
      BY <3>1, <3>2
  <2> QED
    BY <2>5
<1>4. PICK g : Good(g, PerPkt)
  <2>1. PerPkt \in 0 .. PerPkt
    BY <1>1
  <2>2. ~(PerPkt \in T)
    BY <1>3
  <2> QED
    BY <2>1, <2>2
<1>5. Solves(g)
  BY <1>1, <1>4
<1>6. Sent = CHOOSE f : Solves(f)
  BY DEF Sent
<1>7. Solves(Sent)
  <2> HIDE DEF Solves
  <2> QED
    BY <1>5, <1>6
<1>8. \A n \in 1 .. PerPkt : Sent[n] = Wrap(IF n = 1 THEN plbkIdx ELSE Sent[n - 1] + 1)
  BY <1>7
<1>9. U = {}
  <2> SUFFICES ASSUME U # {} PROVE FALSE
      OBVIOUS
  <2>1. PICK n \in U : \A u \in U : n <= u
    <3>1. U \in SUBSET Nat
      BY <1>1
    <3> HIDE DEF U
    <3> QED
      BY <3>1, NatMin
  <2>2. n # 1
    BY <1>2, <1>8, <2>1
  <2>3. n - 1 \in 1 .. PerPkt /\ Sent[n - 1] \in 0 .. LogMax - 1
    BY <1>1, <2>1, <2>2
  <2> QED
    BY <1>1, <1>2, <1>8, <2>1, <2>2, <2>3
<1> QED
  BY <1>8, <1>9

LEMMA InitTypes == Init => TypeInv
<1> SUFFICES ASSUME Init PROVE TypeInv
    OBVIOUS
<1>1. PktTypeOK
  <2>1. pipe \in Seq(Mids) /\ Len(pipe) <= PipeDepth
    BY PktAssumption DEF Init, PktInit
  <2>2. tbl \in [AppIds -> Entry \cup {Unused}]
    BY DEF Init, PktInit
  <2>3. subs \subseteq Mids /\ burst \in 0 .. MaxBurst
    BY PktAssumption DEF Init, PktInit
  <2>4. /\ downlinkOn \in BOOLEAN /\ suppressSend \in BOOLEAN
        /\ statusSet \in BOOLEAN /\ strayed \in BOOLEAN
    BY Zenon DEF Init, PktInit
  <2>5. tlmSource \in {"local", "remote"} /\ forwardCnt \in 0 .. 1
    BY DEF Init, PktInit
  <2> QED
    BY <2>1, <2>2, <2>3, <2>4, <2>5 DEF PktTypeOK
<1>2. PlbkTypeOK /\ PlbkBounds
  <2>1. <<>> \in Seq(LogFiles)
    OBVIOUS
  <2>2. hkPeriod \in Periods /\ logFile \in LogFiles
    BY PlbkAssumption DEF Init, PlbkInit
  <2>3. disk \in [LogFiles -> [of : 0 .. MaxStarts, events : 0 .. LogMax, header : BOOLEAN]]
    BY PlbkAssumption DEF Init, PlbkInit, Absent
  <2>4. eventLog.of = 0 /\ eventLog.cnt = 0 /\ starts = 0 /\ \A f \in LogFiles : disk[f].of = 0
    BY DEF Init, PlbkInit, Absent
  <2>5. evsCmds \in Seq(LogFiles) /\ covered \subseteq 0 .. LogMax - 1
    BY <2>1 DEF Init, PlbkInit
  <2>6. LogMax \in Nat /\ MaxStarts \in Nat
    BY PlbkAssumption
  <2>7. PlbkBounds
    BY <2>4 DEF Init, PlbkInit, PlbkBounds
  <2>8. enabled \in BOOLEAN /\ copied \in BOOLEAN /\ (copied => enabled)
    BY Zenon DEF Init, PlbkInit
  <2>9. /\ attempts \in 0 .. 3 /\ hkCount \in Nat /\ plbkIdx \in 0 .. LogMax
        /\ starts \in 0 .. MaxStarts /\ evsCount \in 0 .. LogMax
        /\ eventLog.of \in 0 .. starts /\ eventLog.cnt \in 0 .. LogMax
    BY <2>4, <2>6 DEF Init, PlbkInit
  <2>10. evsFile \in LogFiles \cup {NoLogFile}
    BY DEF Init, PlbkInit
  <2> QED
    BY <2>2, <2>3, <2>5, <2>7, <2>8, <2>9, <2>10 DEF PlbkTypeOK
<1> QED
  BY <1>1, <1>2 DEF Init, TypeInv, TypeOK

\* The pipe after a delivery holds no more than it may.
LEMMA DeliveredLength ==
  ASSUME NEW m \in Mids, NEW q \in Seq(Mids), Len(q) <= PipeDepth
  PROVE  Delivered(m, q) \in Seq(Mids) /\ Len(Delivered(m, q)) <= PipeDepth
<1>1. CASE Delivered(m, q) = q
  BY <1>1
<1>2. CASE Len(q) < PipeDepth /\ Delivered(m, q) = Append(q, m)
  BY <1>2, AppendProperties, PktAssumption
<1> QED
  BY <1>1, <1>2 DEF Delivered

LEMMA TailLength ==
  ASSUME NEW q \in Seq(Mids), q # <<>>, Len(q) <= PipeDepth
  PROVE  Head(q) \in Mids /\ Tail(q) \in Seq(Mids) /\ Len(Tail(q)) <= PipeDepth
BY HeadTailProperties, PktAssumption

\* The packet half keeps its types.
LEMMA OutputTypes ==
  ASSUME PktTypeOK, OutputPacket \/ OutputEnds \/ OutputFails
  PROVE  PktTypeOK'
<1>1. CASE OutputEnds
  <2>0. burst' \in 0 .. MaxBurst
    BY <1>1, PktAssumption DEF OutputEnds
  <2>1. statusSet' \in BOOLEAN
    BY <1>1, Zenon DEF OutputEnds
  <2> QED
    BY <1>1, <2>0, <2>1 DEF OutputEnds, PktTypeOK, tblVars, linkVars, outVars
<1>2. CASE DropSuppressed \/ DropFiltered
  <2>1. pipe' \in Seq(Mids) /\ Len(pipe') <= PipeDepth
    BY <1>2, TailLength DEF DropSuppressed, DropFiltered, PktTypeOK
  <2> QED
    BY <1>2, <2>1 DEF DropSuppressed, DropFiltered, PktTypeOK, tblVars, linkVars, outVars
<1>3. CASE SendToGround \/ KeepOnBoard \/ PackFails
  <2>1. PassFilter
    BY <1>3 DEF SendToGround, KeepOnBoard, PackFails
  <2>2. pipe' \in Seq(Mids) /\ Len(pipe') <= PipeDepth
    <3>1. Tail(pipe) \in Seq(Mids) /\ Len(Tail(pipe)) <= PipeDepth
      BY <2>1, TailLength DEF PassFilter, PktTypeOK
    <3> QED
      BY <2>1, <3>1, DeliveredLength, PktAssumption DEF PassFilter, Forwarded
  <2>3. forwardCnt' \in 0 .. 1
    BY <2>1 DEF PassFilter, PktTypeOK
  <2>4. strayed' \in BOOLEAN /\ suppressSend' \in BOOLEAN /\ statusSet' \in BOOLEAN
    BY <1>3 DEF SendToGround, KeepOnBoard, PackFails, NotSent, Record, PktTypeOK
  <2> QED
    BY <2>1, <2>2, <2>3, <2>4 DEF PassFilter, PktTypeOK, tblVars
<1> QED
  BY <1>1, <1>2, <1>3 DEF OutputPacket, OutputFails

LEMMA PktCommandTypes ==
  ASSUME PktTypeOK, PktCommand, TableOK', (subs \subseteq Mids)'
  PROVE  PktTypeOK'
<1>1. pipe' \in {pipe, <<>>} /\ UNCHANGED <<burst, statusSet, outVars>>
  BY DEF PktCommand, AddPktCmd, RemovePktCmd, RemoveAllPktsCmd, LoadPktTbl,
         UpdatePktFilterCmd, EnableOutputCmd, SetTlmSourceCmd
<1>2. /\ downlinkOn' \in BOOLEAN /\ suppressSend' \in BOOLEAN
      /\ tlmSource' \in {"local", "remote"}
  BY DEF PktCommand, AddPktCmd, RemovePktCmd, RemoveAllPktsCmd, LoadPktTbl,
         UpdatePktFilterCmd, EnableOutputCmd, SetTlmSourceCmd, PktTypeOK, linkVars
<1>3. pipe' \in Seq(Mids) /\ Len(pipe') <= PipeDepth
  <2>1. CASE pipe' = pipe
    BY <2>1 DEF PktTypeOK
  <2>2. CASE pipe' = <<>>
    BY <2>2, PktAssumption
  <2> QED
    BY <1>1, <2>1, <2>2
<1> QED
  BY <1>1, <1>2, <1>3 DEF PktTypeOK, TableOK, outVars

LEMMA PublishTypes ==
  ASSUME PktTypeOK, NEW m \in Mids, Publish(m)
  PROVE  PktTypeOK'
<1>1. pipe' \in Seq(Mids) /\ Len(pipe') <= PipeDepth
  BY DeliveredLength DEF Publish, PktTypeOK
<1>2. burst' \in 0 .. MaxBurst
  BY PktAssumption DEF Publish, PktTypeOK
<1> QED
  BY <1>1, <1>2 DEF Publish, PktTypeOK, tblVars, linkVars, outVars

\* The playback half keeps its types.
PlbkTypes == PlbkTypeOK /\ PlbkBounds

LEMMA EvsTypes ==
  ASSUME PlbkTypes, Evs
  PROVE  PlbkTypes'
<1> DEFINE File == [of : 0 .. MaxStarts, events : 0 .. LogMax, header : BOOLEAN]
<1> USE DEF PlbkTypes
<1>1. CASE EvsCreate
  <2> DEFINE c == Head(evsCmds)
             new == [of |-> starts, events |-> 0, header |-> FALSE]
  <2>1. c \in LogFiles /\ Tail(evsCmds) \in Seq(LogFiles)
    BY <1>1, HeadTailProperties DEF EvsCreate, PlbkTypeOK
  <2>2. new \in File /\ new.of <= starts
    BY PlbkAssumption DEF PlbkTypeOK
  <2>3. disk' = [disk EXCEPT ![c] = new]
    BY <1>1 DEF EvsCreate
  <2> HIDE DEF c, new
  <2>4. disk' \in [LogFiles -> File] /\ \A f \in LogFiles : disk'[f].of <= starts
    BY <2>1, <2>2, <2>3 DEF PlbkTypeOK, PlbkBounds
  <2>5. evsFile' \in LogFiles /\ evsCmds' \in Seq(LogFiles) /\ evsCount' \in 0 .. LogMax
    BY <1>1, <2>1, PlbkAssumption DEF EvsCreate, c
  <2> QED
    BY <1>1, <2>4, <2>5 DEF EvsCreate, PlbkTypeOK, PlbkBounds
<1>2. CASE EvsWrite
  <2> DEFINE d == disk[evsFile]
  <2>1. evsFile \in LogFiles /\ d \in File /\ d.of <= starts
    BY <1>2 DEF EvsWrite, PlbkTypeOK, PlbkBounds
  <2>2. PICK e : disk' = [disk EXCEPT ![evsFile] = e] /\ e \in File /\ e.of = d.of
    <3>1. CASE ~d.header
      <4> DEFINE e == [d EXCEPT !.header = TRUE]
      <4>1. disk' = [disk EXCEPT ![evsFile] = e]
        BY <1>2, <3>1 DEF EvsWrite
      <4>2. e \in File /\ e.of = d.of
        BY <2>1
      <4> QED
        BY <4>1, <4>2
    <3>2. CASE d.header
      <4> DEFINE e == [d EXCEPT !.events = @ + 1]
      <4>1. disk' = [disk EXCEPT ![evsFile] = e] /\ d.events < evsCount
        BY <1>2, <3>2 DEF EvsWrite
      <4>2. d.events + 1 \in 0 .. LogMax
        <5>1. d.events \in Nat /\ evsCount \in 0 .. LogMax /\ LogMax \in Nat
          BY <2>1, PlbkAssumption DEF PlbkTypeOK
        <5> HIDE DEF d
        <5> QED
          BY <4>1, <5>1
      <4>3. e \in File /\ e.of = d.of
        BY <2>1, <4>2
      <4> QED
        BY <4>1, <4>3
    <3> QED
      BY <3>1, <3>2
  <2>3. disk' \in [LogFiles -> File] /\ \A f \in LogFiles : disk'[f].of <= starts
    BY <2>1, <2>2 DEF PlbkTypeOK, PlbkBounds
  <2> QED
    BY <1>2, <2>3 DEF EvsWrite, PlbkTypeOK, PlbkBounds
<1>3. CASE EvsClose
  BY <1>3 DEF EvsClose, PlbkTypeOK, PlbkBounds
<1> QED
  BY <1>1, <1>2, <1>3 DEF Evs

LEMMA PlbkCommandTypes ==
  ASSUME PlbkTypes, PlbkCommand
  PROVE  PlbkTypes'
<1> USE DEF PlbkTypes
<1>1. ASSUME NEW f \in LogFiles, NEW n \in Periods, ConfigCmd(f, n)
      PROVE  PlbkTypes'
  BY <1>1 DEF ConfigCmd, evsVars, PlbkTypeOK, PlbkBounds
<1>2. CASE StartCmd
  <2>1. /\ UNCHANGED <<hkPeriod, logFile, eventLog, plbkIdx, covered, evsFile, evsCount>>
        /\ enabled' = TRUE /\ copied' = FALSE /\ attempts' = 0 /\ hkCount' = 0
        /\ starts < MaxStarts /\ starts' = starts + 1 /\ evsCmds' = Append(evsCmds, logFile)
        /\ disk' \in {disk, [disk EXCEPT ![logFile] = Absent]}
    BY <1>2 DEF StartCmd, RemovesOldFile
  <2>2. starts' \in 0 .. MaxStarts /\ evsCmds' \in Seq(LogFiles) /\ starts \in Nat
    BY <2>1, PlbkAssumption, AppendProperties DEF PlbkTypeOK
  <2>3. Absent \in [of : 0 .. MaxStarts, events : 0 .. LogMax, header : BOOLEAN] /\ Absent.of = 0
    BY PlbkAssumption DEF Absent
  <2>4. /\ disk' \in [LogFiles -> [of : 0 .. MaxStarts, events : 0 .. LogMax, header : BOOLEAN]]
        /\ \A f \in LogFiles : disk'[f].of <= starts'
    <3> DEFINE File == [of : 0 .. MaxStarts, events : 0 .. LogMax, header : BOOLEAN]
    <3>1. disk \in [LogFiles -> File] /\ \A f \in LogFiles : disk[f].of \in Int /\ disk[f].of <= starts
      BY PlbkAssumption DEF PlbkTypeOK, PlbkBounds
    <3> HIDE DEF Absent, File
    <3>2. disk' \in [LogFiles -> File]
      BY <2>1, <2>3, <3>1 DEF File
    <3>3. \A f \in LogFiles : disk'[f] \in {disk[f], Absent}
      BY <2>1, <3>1
    <3>4. \A f \in LogFiles : disk'[f].of <= starts'
      <4>1. starts \in Nat /\ starts' = starts + 1 /\ Absent.of = 0
        BY <2>1, <2>2, <2>3
      <4> QED
        BY <3>1, <3>3, <4>1
    <3> QED
      BY <3>2, <3>4 DEF File
  <2>5. eventLog'.of \in 0 .. starts'
    BY <2>1, <2>2 DEF PlbkTypeOK
  <2>6. PlbkBounds'
    BY <2>1, <2>4 DEF PlbkBounds
  <2>7. eventLog'.cnt \in 0 .. LogMax
    BY <2>1 DEF PlbkTypeOK
  <2>8. enabled' \in BOOLEAN /\ copied' \in BOOLEAN /\ (copied' => enabled')
    BY <2>1, Zenon
  <2>9. attempts' \in 0 .. 3 /\ hkCount' \in Nat
    BY <2>1
  <2> QED
    BY <2>1, <2>2, <2>4, <2>5, <2>6, <2>7, <2>8, <2>9 DEF PlbkTypeOK
<1>3. CASE StopCmd
  BY <1>3 DEF StopCmd, evsVars, PlbkTypeOK, PlbkBounds
<1> QED
  BY <1>1, <1>2, <1>3 DEF PlbkCommand

LEMMA ExecuteTypes ==
  ASSUME PlbkTypes, Execute
  PROVE  PlbkTypes'
<1> USE DEF PlbkTypes
<1>1. UNCHANGED <<hkPeriod, logFile, evsCmds, evsFile, evsCount, disk, starts>>
  BY DEF Execute, evsVars
<1>2. CASE UNCHANGED <<enabled, copied, attempts, hkCount, eventLog, plbkIdx, covered>>
  BY <1>1, <1>2 DEF PlbkTypeOK, PlbkBounds
<1>3. CASE WaitOrSend
  <2>1. CASE SendEvents
    <3> DEFINE s == Sent
    <3>1. /\ covered' = covered \cup {s[n] : n \in 1 .. PerPkt}
          /\ plbkIdx' = s[PerPkt] + 1 /\ hkCount' = 0
      BY <2>1 DEF SendEvents
    <3>2. \A n \in 1 .. PerPkt : s[n] \in 0 .. LogMax - 1
      BY SentFact DEF PlbkTypeOK
    <3> HIDE DEF s
    <3>3. covered' \subseteq 0 .. LogMax - 1
      BY <3>1, <3>2 DEF PlbkTypeOK
    <3>4. plbkIdx' \in 0 .. LogMax
      <4>1. PerPkt \in 1 .. PerPkt /\ LogMax \in Nat
        BY PlbkAssumption
      <4> QED
        BY <3>1, <3>2, <4>1
    <3> QED
      BY <1>1, <1>3, <3>1, <3>3, <3>4 DEF WaitOrSend, PlbkTypeOK, PlbkBounds
  <2>2. CASE hkCount' = hkCount + 1 /\ UNCHANGED <<plbkIdx, covered>>
    BY <1>1, <1>3, <2>2 DEF WaitOrSend, PlbkTypeOK, PlbkBounds
  <2> QED
    BY <1>3, <2>1, <2>2 DEF WaitOrSend
<1>4. CASE enabled /\ ~copied /\ LoadFails
  BY <1>1, <1>4 DEF LoadFails, CountAttempt, PlbkTypeOK, PlbkBounds
<1>5. CASE enabled /\ ~copied /\ LoadSucceeds
  <2> DEFINE d == disk[logFile]
  <2>1. /\ plbkIdx' = 0 /\ copied' = TRUE /\ covered' = {}
        /\ UNCHANGED <<enabled, attempts, hkCount>>
        /\ \/ eventLog' = [of |-> d.of, cnt |-> d.events]
           \/ eventLog' = [of |-> 0, cnt |-> 0]
    BY <1>5 DEF LoadSucceeds, Garbage
  <2>2. d.of \in 0 .. starts /\ d.events \in 0 .. LogMax /\ starts \in Nat /\ LogMax \in Nat
    BY PlbkAssumption DEF PlbkTypeOK, PlbkBounds
  <2>3. eventLog'.of \in 0 .. starts /\ eventLog'.cnt \in 0 .. LogMax
    BY <2>1, <2>2
  <2> QED
    BY <1>1, <1>5, <2>1, <2>2, <2>3 DEF PlbkTypeOK, PlbkBounds
<1> QED
  BY <1>2, <1>3, <1>4, <1>5 DEF Execute

LEMMA TypeStep ==
  ASSUME TypeInv, IInv', [Next]_vars
  PROVE  TypeInv'
<1> USE DEF TypeInv, TypeOK
<1>0. PktTypeOK /\ PlbkTypes
  BY DEF PlbkTypes
<1>1. UNCHANGED pktVars => PktTypeOK'
  BY DEF pktVars, PktTypeOK, tblVars, linkVars, outVars
<1>2. UNCHANGED plbkVars => PlbkTypes'
  BY DEF plbkVars, evsVars, PlbkTypes, PlbkTypeOK, PlbkBounds
<1>3. loop' \in {"output", "command"} /\ TableOK' /\ (subs \subseteq Mids)'
  BY DEF IInv
<1>4. CASE OutputPacket \/ OutputEnds \/ OutputFails
  BY <1>0, <1>2, <1>3, <1>4, OutputTypes DEF OutputPacket, OutputEnds, OutputFails, PlbkTypes
<1>5. CASE NoCommand
  BY <1>1, <1>2, <1>3, <1>5 DEF NoCommand, PlbkTypes
<1>6. CASE ProcessPktCommand
  BY <1>0, <1>2, <1>3, <1>6, PktCommandTypes DEF ProcessPktCommand, PlbkTypes
<1>7. CASE ProcessPlbkCommand
  BY <1>0, <1>1, <1>3, <1>7, PlbkCommandTypes DEF ProcessPlbkCommand, PlbkTypes
<1>8. CASE HkRequest
  BY <1>0, <1>1, <1>3, <1>8, ExecuteTypes DEF HkRequest, PlbkTypes
<1>9. CASE OtherTasks
  BY <1>0, <1>1, <1>2, <1>3, <1>9, PublishTypes, EvsTypes DEF OtherTasks, PlbkTypes
<1>10. CASE UNCHANGED vars
  BY <1>1, <1>2, <1>3, <1>10 DEF vars, PlbkTypes
<1> QED
  BY <1>4, <1>5, <1>6, <1>7, <1>8, <1>9, <1>10 DEF Next, Task

-----------------------------------------------------------------------------
(* The events sent.                                                        *)

Covers(C, i) == C = 0 .. i - 1 \/ C = 0 .. LogMax - 1

\* One event more.
LEMMA CoverFact ==
  ASSUME NEW C, NEW i \in 0 .. LogMax, Covers(C, i)
  PROVE  Covers(C \cup {Wrap(i)}, Wrap(i) + 1)
<1>1. LogMax \in Nat \ {0} /\ i \in Nat
  BY PlbkAssumption
<1>2. CASE i < LogMax
  <2>1. Wrap(i) = i /\ (i + 1) - 1 = i
    BY <1>1, <1>2 DEF Wrap
  <2>2. (0 .. i - 1) \cup {i} = 0 .. i /\ (0 .. LogMax - 1) \cup {i} = 0 .. LogMax - 1
    BY <1>1, <1>2
  <2> QED
    BY <2>1, <2>2 DEF Covers
<1>3. CASE i = LogMax
  <2>1. Wrap(i) = 0 /\ C = 0 .. LogMax - 1
    BY <1>1, <1>3 DEF Wrap, Covers
  <2>2. (0 .. LogMax - 1) \cup {0} = 0 .. LogMax - 1
    BY <1>1
  <2> QED
    BY <2>1, <2>2 DEF Covers
<1> QED
  BY <1>1, <1>2, <1>3

\* A packet of events, which may wrap more than once.
LEMMA PacketFact ==
  ASSUME plbkIdx \in 0 .. LogMax, Covers(covered, plbkIdx)
  PROVE  Covers(covered \cup {Sent[n] : n \in 1 .. PerPkt}, Sent[PerPkt] + 1)
<1> DEFINE upTo(n) == {Sent[k] : k \in 1 .. n}
           U == {n \in 1 .. PerPkt : ~Covers(covered \cup upTo(n), Sent[n] + 1)}
<1>1. LogMax \in Nat \ {0} /\ PerPkt \in Nat \ {0} /\ PerPkt \in 1 .. PerPkt
  BY PlbkAssumption
<1>2. \A n \in 1 .. PerPkt : /\ Sent[n] \in 0 .. LogMax - 1
                            /\ Sent[n] = Wrap(IF n = 1 THEN plbkIdx ELSE Sent[n - 1] + 1)
  BY SentFact
<1>3. U = {}
  <2> SUFFICES ASSUME U # {} PROVE FALSE
      OBVIOUS
  <2>1. PICK n \in U : \A u \in U : n <= u
    <3>1. U \in SUBSET Nat
      BY <1>1
    <3> HIDE DEF U
    <3> QED
      BY <3>1, NatMin
  <2>2. CASE n = 1
    <3>1. upTo(n) = {Sent[1]} /\ Sent[1] = Wrap(plbkIdx)
      <4>1. 1 .. n = {1}
        BY <2>2
      <4>2. 1 \in 1 .. PerPkt
        BY <1>1
      <4> QED
        BY <1>2, <4>1, <4>2
    <3>2. Covers(covered \cup {Wrap(plbkIdx)}, Wrap(plbkIdx) + 1)
      BY CoverFact
    <3> HIDE DEF upTo
    <3> QED
      BY <2>1, <2>2, <3>1, <3>2
  <2>3. CASE n # 1
    <3>1. n \in Nat /\ n - 1 \in 1 .. PerPkt /\ n - 1 \notin U
      <4>1. n \in 1 .. PerPkt
        BY <2>1
      <4>2. n \in Nat /\ n - 1 \in 1 .. PerPkt /\ ~(n <= n - 1)
        BY <1>1, <2>3, <4>1
      <4> HIDE DEF U
      <4> QED
        BY <2>1, <4>2
    <3>2. Covers(covered \cup upTo(n - 1), Sent[n - 1] + 1)
      BY <3>1
    <3>3. Sent[n] = Wrap(Sent[n - 1] + 1) /\ Sent[n - 1] + 1 \in 0 .. LogMax
      <4>1. n \in 1 .. PerPkt /\ Sent[n - 1] \in 0 .. LogMax - 1
        BY <1>2, <2>1, <3>1
      <4>2. Sent[n] = Wrap(Sent[n - 1] + 1)
        BY <1>2, <2>3, <4>1
      <4> QED
        BY <1>1, <4>1, <4>2
    <3>4. Covers((covered \cup upTo(n - 1)) \cup {Sent[n]}, Sent[n] + 1)
      <4> HIDE DEF upTo
      <4> QED
        BY <3>2, <3>3, CoverFact
    <3>5. upTo(n) = upTo(n - 1) \cup {Sent[n]}
      <4>1. 1 .. n = (1 .. n - 1) \cup {n}
        BY <3>1
      <4> QED
        BY <4>1
    <3>6. covered \cup upTo(n) = (covered \cup upTo(n - 1)) \cup {Sent[n]}
      BY <3>5
    <3> HIDE DEF upTo
    <3> QED
      BY <2>1, <3>4, <3>6
  <2> QED
    BY <2>2, <2>3
<1>4. ~(PerPkt \in U)
  BY <1>3
<1> QED
  BY <1>1, <1>4

LEMMA SkipStep ==
  ASSUME PlbkTypeOK, NoEventSkipped, [Next]_vars
  PROVE  NoEventSkipped'
<1>1. CASE UNCHANGED <<covered, plbkIdx>>
  BY <1>1 DEF NoEventSkipped
<1>2. CASE HkRequest
  <2>1. CASE SendEvents
    <3> DEFINE s == Sent
    <3>1. /\ covered' = covered \cup {s[n] : n \in 1 .. PerPkt}
          /\ plbkIdx' = s[PerPkt] + 1
      BY <2>1 DEF SendEvents
    <3>2. Covers(covered \cup {s[n] : n \in 1 .. PerPkt}, s[PerPkt] + 1)
      BY PacketFact DEF PlbkTypeOK, NoEventSkipped, Covers
    <3> HIDE DEF s
    <3> QED
      BY <3>1, <3>2 DEF NoEventSkipped, Covers
  <2>2. CASE LoadSucceeds
    <3>1. covered' = {} /\ plbkIdx' = 0
      BY <2>2 DEF LoadSucceeds
    <3>2. 0 .. 0 - 1 = {}
      OBVIOUS
    <3> QED
      BY <3>1, <3>2 DEF NoEventSkipped
  <2> QED
    BY <1>1, <1>2, <2>1, <2>2 DEF HkRequest, Execute, WaitOrSend, LoadFails
<1>3. CASE ~HkRequest
  BY <1>1, <1>3 DEF Next, Task, OutputPacket, OutputEnds, OutputFails, NoCommand, ProcessPktCommand,
     ProcessPlbkCommand, PlbkCommand, ConfigCmd, StartCmd, StopCmd, OtherTasks, Evs, EvsCreate,
     EvsWrite, EvsClose, vars, plbkVars
<1> QED
  BY <1>2, <1>3

-----------------------------------------------------------------------------
(* Theorems.                                                               *)
THEOREM Invariance == Spec => []IInv
<1>1. Init => IInv
  BY InitIInv
<1>2. IInv /\ [Next]_vars => IInv'
  BY TaskStep, OtherStep DEF Next
<1> QED
  BY <1>1, <1>2, PTL DEF Spec

\* The subscriptions follow the packet table through every order of commands
\* and loads (pktmgr.c:791).
THEOREM SubscriptionsCorrect == Spec => []SubscriptionsFollowTable
BY Invariance, PTL DEF IInv

\* A packet is sent or forwarded under the entry it was subscribed with, for
\* every pipe, table and traffic (pktmgr.c:364 and 397).
THEOREM EntryCorrect == Spec => []SentUnderOwnEntry
<1>1. IInv => SentUnderOwnEntry
  BY DEF IInv, SentUnderOwnEntry
<1> QED
  BY <1>1, Invariance, PTL

\* What is played back is a log written since the latest start (evt_plbk.c:207
\* and 217).
THEOREM LogCorrect == Spec => []FreshLog
<1>1. IInv => FreshLog
  BY DEF IInv
<1> QED
  BY <1>1, Invariance, PTL

\* No field leaves its range: the playback index stays in the log although the
\* packets wrap at its end, a pipe never holds more than its depth, and a
\* playback that waits has an attempt left (evt_plbk.c:134 and 434).
THEOREM TypeInvariance == Spec => []TypeInv
<1>1. TypeInv /\ IInv' /\ [Next]_vars => TypeInv'
  BY TypeStep
<1> QED
  BY <1>1, InitTypes, Invariance, PTL DEF Spec

\* The state of the app is sound and its subscriptions follow the packet table
\* (pktmgr.c:791).
THEOREM StateCorrect == Spec => []StateOK
<1>1. IInv /\ TypeInv => StateOK
  BY DEF IInv, TypeInv, StateOK
<1> QED
  BY <1>1, Invariance, TypeInvariance, PTL

\* Of the log that is played back no event is passed over, for logs and packets of
\* any size, although a packet begins and wraps anywhere in the log
\* (evt_plbk.c:434-450).
THEOREM NoEventSkippedCorrect == Spec => []NoEventSkipped
<1>1. Init => NoEventSkipped
  <2>1. 0 .. 0 - 1 = {}
    OBVIOUS
  <2> QED
    BY <2>1 DEF Init, PlbkInit, NoEventSkipped
<1>2. TypeInv => PlbkTypeOK
  BY DEF TypeInv, TypeOK
<1> QED
  BY <1>1, <1>2, SkipStep, TypeInvariance, PTL DEF Spec

\* Both together: a playback sends the log written since its start, event after
\* event (evt_plbk.c:207-217 and 434-450).
THEOREM PlaybackCorrect == Spec => []PlaybackTrue
<1>1. FreshLog /\ NoEventSkipped => PlaybackTrue
  BY DEF PlaybackTrue
<1> QED
  BY <1>1, LogCorrect, NoEventSkippedCorrect, PTL
=============================================================================
