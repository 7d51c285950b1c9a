------------------------------ MODULE CmdTlmRouter ------------------------------
(***************************************************************************)
(* cmdtlmrouter.py with the parts of basecamp.py, telemetry.py and          *)
(* cmdtlmprocess.py that use it: the thread that routes commands and        *)
(* telemetry between the flight software and the ground's processes.        *)
(*                                                                         *)
(* Four parties share the router's dictionaries, queues and sockets:        *)
(*   - the router's thread, which goes round in manage_routes;              *)
(*   - the thread of the main window (GUI), which launches tools, adds      *)
(*     their ports, passes their commands on and shuts down;                *)
(*   - the thread that accepts remote telemetry clients;                    *)
(*   - the tools, processes of their own with a command port, a telemetry   *)
(*     port or both, which send datagrams to the router.                    *)
(* Only tlm_dest_addr is guarded by a mutex.  What the other threads do     *)
(* while they hold it is one step; the router's fan-out of a datagram is    *)
(* not.  Nothing releases the mutex when an exception ends the thread that  *)
(* holds it.                                                                *)
(*                                                                         *)
(* A command is its sender and a number, a datagram of telemetry its        *)
(* number.  Queues are unbounded, datagrams between processes of one host   *)
(* arrive in order.                                                         *)
(***************************************************************************)
EXTENDS Integers, Sequences, FiniteSets

CONSTANTS CmdTools,   \* tools with a command port
          TlmTools,   \* tools with a telemetry port
          Remotes,    \* telemetry clients on other hosts
          PortOf,     \* the port of each destination, its key in tlm_dest_addr
          Gui,        \* the main window as a sender of commands
          Campaigns   \* what happens in a behaviour: bounds and care taken

Tools   == CmdTools \cup TlmTools
Senders == CmdTools \cup {Gui}
Dests   == TlmTools \cup Remotes
Cmds    == [src : Senders, n : Nat]
Ctrls   == [cmd : {"ClosePort"}, arg : TlmTools] \cup [cmd : {"SetCfsIpAddr"}, arg : {"remote"}]
           \cup [cmd : {"Other"}, arg : {"none"}]

\* A campaign says who takes part, bounds the commands of each sender, the
\* telemetry and the launches of each tool, and allows a switch to a remote
\* target.  In a calm one no source is added while the router iterates over
\* them; in a patient one a tool is launched again after it has ended and its
\* port has been closed.  Faults: a sendto may raise an exception ("send"), a
\* remote client may send a datagram that is not "host,port" ("connect"), and
\* the control port may get one that is none of its commands ("ctrl").
Faults == {"send", "connect", "ctrl"}
ASSUME CampaignAssumption ==
  Campaigns \subseteq [who : SUBSET (Tools \cup Remotes), cmds : Nat, tlm : Nat, launches : Nat, remote : BOOLEAN,
                       calm : BOOLEAN, patient : BOOLEAN, faults : SUBSET Faults]

\* Every tool has a port of its own (basecamp.ini, basecamp.py:1795); a remote
\* client may name any.
ASSUME ToolAssumption ==
  /\ Tools # {} /\ Gui \notin Tools /\ Remotes \cap TlmTools = {}
  /\ \A t, u \in TlmTools : PortOf[t] = PortOf[u] => t = u

VARIABLES
  campaign,
  sources,      \* cfs_cmd_source: ports in the order of the dictionary
  inbox,        \* the socket buffer of each command source
  sourceQueue,  \* cfs_cmd_source_queue: from the router to the GUI
  cmdQueue,     \* cfs_cmd_queue: from the GUI to the router
  sent,         \* what was sent to the flight software
  lost,         \* history: the command whose sendto raised an exception
  dests,        \* tlm_dest_addr
  mutex,        \* who holds tlm_dest_mutex: "none", "router" or "connect"
  connector,    \* tlm_dest_connect_thread: "ready", "ended" or, by an exception, "dead"
  cfsAddr,      \* cfs_ip_addr
  enabled,      \* enabled; the router's sockets are open
  pc, at, size, \* where the router's thread is, and its loop over the sources
  orphan,       \* the buffer of a replaced socket that is still being read
  replaced,     \* the socket that is read has been replaced
  todo,         \* destinations the datagram at hand has still to be sent to
  arrived,      \* telemetry datagrams that reached the router's socket
  taken,        \* those it has received, all put on gnd_tlm_queue
  got, since,   \* what each destination got since it was added, and when
  ctrlBox, ctrlQueue, \* the control socket's buffer and router_ctrl_queue
  gui, launching,     \* where the GUI thread is, and the tool it launches
  running, launches,  \* instances of each tool that run, and that were launched
  count, first        \* commands of each sender, and those before its launch

router == <<pc, at, size, orphan, replaced, todo>>
tlm    == <<arrived, taken, got, since, dests, mutex, connector>>
queues == <<inbox, sourceQueue, cmdQueue, sent, lost>>
ctrl   == <<ctrlBox, ctrlQueue, cfsAddr>>
tools  == <<gui, launching, running, launches, count, first, sources>>
vars   == <<campaign, router, tlm, queues, ctrl, tools, enabled>>

Init ==
  /\ campaign \in Campaigns
  /\ sources = <<>> /\ inbox = [t \in CmdTools |-> <<>>]
  /\ sourceQueue = <<>> /\ cmdQueue = <<>> /\ sent = <<>> /\ lost = <<>>
  /\ dests = {} /\ mutex = "none" /\ connector = "ready" /\ cfsAddr = "local" /\ enabled = TRUE
  /\ pc = "sources" /\ at = 1 /\ size = 0
  /\ orphan = <<>> /\ replaced = FALSE /\ todo = {}
  /\ arrived = 0 /\ taken = 0
  /\ got = [d \in Dests |-> <<>>] /\ since = [d \in Dests |-> 0]
  /\ ctrlBox = <<>> /\ ctrlQueue = <<>>
  /\ gui = "loop" /\ launching = CHOOSE t \in Tools : TRUE
  /\ running = [t \in Tools |-> 0] /\ launches = [t \in Tools |-> 0]
  /\ count = [s \in Senders |-> 0] /\ first = [s \in Senders |-> 0]

-----------------------------------------------------------------------------
(* The router's thread                                                      *)

\* An exception leaves the loop of run(), which shuts the router down.
Stop ==
  /\ pc' = "stopped" /\ enabled' = FALSE
  /\ UNCHANGED <<at, size, orphan, replaced, todo>>

\* The next source of the loop, or the end of the loop.
NextSource ==
  /\ pc = "sources" /\ Len(sources) = size
  /\ pc' = IF at <= size THEN "read" ELSE "cmds"
  /\ UNCHANGED <<campaign, at, size, orphan, replaced, todo, tlm, queues, ctrl, tools, enabled>>

\* The dictionary has grown since the loop began: a RuntimeError.
SourcesChanged ==
  /\ pc = "sources" /\ Len(sources) # size
  /\ Stop
  /\ UNCHANGED <<campaign, tlm, queues, ctrl, tools>>

\* read_cmd_port: datagrams are queued until none comes for a while.  A
\* replaced socket is read to its end.
ReadCmd ==
  /\ pc = "read" /\ ~replaced
  /\ LET t == sources[at]
     IN  /\ inbox[t] # <<>>
         /\ sourceQueue' = Append(sourceQueue, Head(inbox[t]))
         /\ inbox' = [inbox EXCEPT ![t] = Tail(inbox[t])]
  /\ UNCHANGED <<campaign, router, tlm, cmdQueue, sent, lost, ctrl, tools, enabled>>

ReadReplaced ==
  /\ pc = "read" /\ replaced /\ orphan # <<>>
  /\ sourceQueue' = Append(sourceQueue, Head(orphan))
  /\ orphan' = Tail(orphan)
  /\ UNCHANGED <<campaign, pc, at, size, replaced, todo, tlm, inbox, cmdQueue, sent, lost, ctrl, tools, enabled>>

ReadTimeout ==
  /\ pc = "read"
  /\ IF replaced THEN orphan = <<>> ELSE inbox[sources[at]] = <<>>
  /\ pc' = "sources" /\ at' = at + 1 /\ replaced' = FALSE
  /\ UNCHANGED <<campaign, size, orphan, todo, tlm, queues, ctrl, tools, enabled>>

\* Mutant: the queue is a stack.
SendLastCmd ==
  /\ pc = "cmds" /\ enabled /\ cmdQueue # <<>>
  /\ sent' = Append(sent, cmdQueue[Len(cmdQueue)])
  /\ cmdQueue' = SubSeq(cmdQueue, 1, Len(cmdQueue) - 1)
  /\ UNCHANGED <<campaign, router, tlm, inbox, sourceQueue, lost, ctrl, tools, enabled>>

\* Everything on cfs_cmd_queue goes to the flight software.
SendCmd ==
  /\ pc = "cmds" /\ enabled /\ cmdQueue # <<>>
  /\ sent' = Append(sent, Head(cmdQueue)) /\ cmdQueue' = Tail(cmdQueue)
  /\ UNCHANGED <<campaign, router, tlm, inbox, sourceQueue, lost, ctrl, tools, enabled>>

\* A closed socket, or an address that cannot be reached or is none, raises an
\* exception: the command that was taken from the queue is lost.
SendFails == ~enabled \/ "send" \in campaign.faults
SendCmdFails ==
  /\ pc = "cmds" /\ SendFails /\ cmdQueue # <<>>
  /\ lost' = <<Head(cmdQueue)>> /\ cmdQueue' = Tail(cmdQueue)
  /\ Stop
  /\ UNCHANGED <<campaign, tlm, inbox, sourceQueue, sent, ctrl, tools>>

CmdsSent ==
  /\ pc = "cmds" /\ cmdQueue = <<>>
  /\ pc' = "tlm"
  /\ UNCHANGED <<campaign, at, size, orphan, replaced, todo, tlm, queues, ctrl, tools, enabled>>

\* Telemetry is received until none comes for a while.
RecvTlm ==
  /\ pc = "tlm" /\ enabled /\ taken < arrived
  /\ taken' = taken + 1 /\ pc' = "lock"
  /\ UNCHANGED <<campaign, at, size, orphan, replaced, todo, arrived, got, since, dests, mutex, connector,
                 queues, ctrl, tools, enabled>>

TlmTimeout ==
  /\ pc = "tlm" /\ taken = arrived
  /\ pc' = "ctrl"
  /\ UNCHANGED <<campaign, at, size, orphan, replaced, todo, tlm, queues, ctrl, tools, enabled>>

TlmClosed ==
  /\ pc = "tlm" /\ ~enabled
  /\ Stop
  /\ UNCHANGED <<campaign, tlm, queues, ctrl, tools>>

\* Every datagram goes to all destinations, under the mutex.
AcquireMutex ==
  /\ pc = "lock" /\ mutex = "none"
  /\ mutex' = "router" /\ todo' = dests /\ pc' = "fanout"
  /\ UNCHANGED <<campaign, at, size, orphan, replaced, arrived, taken, got, since, dests, connector,
                 queues, ctrl, tools, enabled>>

\* Mutant: the release is inside the loop.
SendTlmReleasing ==
  /\ pc = "fanout" /\ enabled
  /\ \E d \in todo :
       /\ todo' = todo \ {d}
       /\ got' = [got EXCEPT ![d] = Append(got[d], taken)]
  /\ mutex' = "none"
  /\ UNCHANGED <<campaign, pc, at, size, orphan, replaced, arrived, taken, since, dests, connector,
                 queues, ctrl, tools, enabled>>

SendTlm ==
  /\ pc = "fanout" /\ enabled
  /\ \E d \in todo :
       /\ todo' = todo \ {d}
       /\ got' = [got EXCEPT ![d] = Append(got[d], taken)]
  /\ UNCHANGED <<campaign, pc, at, size, orphan, replaced, arrived, taken, since, dests, mutex, connector,
                 queues, ctrl, tools, enabled>>

\* The same for a destination: the thread ends and keeps the mutex.
SendTlmFails ==
  /\ pc = "fanout" /\ SendFails /\ todo # {}
  /\ Stop
  /\ UNCHANGED <<campaign, tlm, queues, ctrl, tools>>

ReleaseMutex ==
  /\ pc = "fanout" /\ todo = {}
  /\ mutex' = "none" /\ pc' = "tlm"
  /\ UNCHANGED <<campaign, at, size, orphan, replaced, todo, arrived, taken, got, since, dests, connector,
                 queues, ctrl, tools, enabled>>

\* The datagrams of the control port are queued, then executed.
ReadCtrl ==
  /\ pc = "ctrl" /\ ctrlBox # <<>>
  /\ ctrlQueue' = Append(ctrlQueue, Head(ctrlBox)) /\ ctrlBox' = Tail(ctrlBox)
  /\ UNCHANGED <<campaign, router, tlm, queues, cfsAddr, tools, enabled>>

CtrlTimeout ==
  /\ pc = "ctrl" /\ ctrlBox = <<>>
  /\ pc' = "ctrlcmds"
  /\ UNCHANGED <<campaign, at, size, orphan, replaced, todo, tlm, queues, ctrl, tools, enabled>>

\* Whoever is listed for the port is removed.
RemoveDest ==
  /\ pc = "ctrlcmds" /\ ctrlQueue # <<>> /\ Head(ctrlQueue).cmd = "ClosePort" /\ mutex = "none"
  /\ dests' = {d \in dests : PortOf[d] # PortOf[Head(ctrlQueue).arg]}
  /\ ctrlQueue' = Tail(ctrlQueue)
  /\ UNCHANGED <<campaign, router, arrived, taken, got, since, mutex, connector, queues, ctrlBox,
                 cfsAddr, tools, enabled>>

SetCfsIpAddr ==
  /\ pc = "ctrlcmds" /\ ctrlQueue # <<>> /\ Head(ctrlQueue).cmd = "SetCfsIpAddr"
  /\ cfsAddr' = Head(ctrlQueue).arg
  /\ ctrlQueue' = Tail(ctrlQueue)
  /\ UNCHANGED <<campaign, router, tlm, queues, ctrlBox, tools, enabled>>

\* A datagram that is no command is left, and one that cannot be parsed as one
\* ends the thread.
OtherCtrl ==
  /\ pc = "ctrlcmds" /\ ctrlQueue # <<>> /\ Head(ctrlQueue).cmd = "Other"
  /\ ctrlQueue' = Tail(ctrlQueue)
  /\ \/ UNCHANGED <<router, enabled>>
     \/ Stop
  /\ UNCHANGED <<campaign, tlm, queues, ctrlBox, cfsAddr, tools>>

\* Mutant: the iterator over the sources is made once.
PassEndsAtLast ==
  /\ pc = "ctrlcmds" /\ ctrlQueue = <<>>
  /\ \/ /\ enabled
        /\ pc' = "sources" /\ size' = Len(sources)
        /\ at' = IF at > size THEN size' + 1 ELSE at
        /\ UNCHANGED <<orphan, replaced, todo, enabled>>
     \/ ~enabled /\ Stop
  /\ UNCHANGED <<campaign, tlm, queues, ctrl, tools>>

\* The end of manage_routes: another round, or the end of run().
PassEnds ==
  /\ pc = "ctrlcmds" /\ ctrlQueue = <<>>
  /\ \/ /\ enabled
        /\ pc' = "sources" /\ at' = 1 /\ size' = Len(sources)
        /\ UNCHANGED <<orphan, replaced, todo, enabled>>
     \/ ~enabled /\ Stop
  /\ UNCHANGED <<campaign, tlm, queues, ctrl, tools>>

Router ==
  \/ NextSource \/ SourcesChanged \/ ReadCmd \/ ReadReplaced \/ ReadTimeout
  \/ SendCmd \/ SendCmdFails \/ CmdsSent
  \/ RecvTlm \/ TlmClosed \/ AcquireMutex \/ SendTlm \/ SendTlmFails \/ ReleaseMutex
  \/ ReadCtrl \/ CtrlTimeout \/ RemoveDest \/ SetCfsIpAddr \/ OtherCtrl \/ PassEnds

-----------------------------------------------------------------------------
(* Threads that add destinations                                            *)

\* add_gnd_tlm_dest and the same by tlm_dest_connect_thread: d takes the place
\* of whoever was listed for its port.  What a destination gets is counted from
\* the first datagram it is listed for.
AddDest(d) ==
  /\ mutex = "none"
  /\ dests' = {x \in dests : PortOf[x] # PortOf[d]} \cup {d}
  /\ IF d \in dests
     THEN UNCHANGED <<got, since>>
     ELSE /\ got' = [got EXCEPT ![d] = <<>>]
          /\ since' = [since EXCEPT ![d] = IF pc = "lock" THEN taken - 1 ELSE taken]

\* The thread waits in recvfrom when it is told to end, and serves the client
\* that comes next.
Connect(r) ==
  /\ connector = "ready" /\ r \in campaign.who \ dests
  /\ AddDest(r)
  /\ connector' = IF enabled THEN "ready" ELSE "ended"
  /\ UNCHANGED <<campaign, router, arrived, taken, mutex, queues, ctrl, tools, enabled>>

\* The datagram is parsed under the mutex: an exception ends the thread, which
\* keeps it.
ConnectFails ==
  /\ connector = "ready" /\ "connect" \in campaign.faults
  /\ mutex = "none" /\ mutex' = "connect"
  /\ connector' = "dead"
  /\ UNCHANGED <<campaign, router, arrived, taken, got, since, dests, queues, ctrl, tools, enabled>>

-----------------------------------------------------------------------------
(* The GUI thread                                                           *)

Iterating == pc \in {"sources", "read"}
Has(q, c)  == \E i \in DOMAIN q : q[i] = c
Closing(t) == [cmd |-> "ClosePort", arg |-> t]
Pending(t) == Has(ctrlBox, Closing(t)) \/ Has(ctrlQueue, Closing(t))

MayLaunch(t) ==
  /\ gui = "loop" /\ t \in campaign.who /\ launches[t] < campaign.launches
  /\ campaign.patient => running[t] = 0 /\ ~Pending(t)
  /\ campaign.calm /\ t \in CmdTools /\ ~Has(sources, t) => ~Iterating

\* add_cfs_cmd_source: a new socket takes the place of an old one on the same
\* port, and what is left in that is lost unless it is being read.
AddSource(t) ==
  LET reading == pc = "read" /\ ~replaced /\ sources[at] = t
  IN  /\ sources' = IF Has(sources, t) THEN sources ELSE Append(sources, t)
      /\ inbox' = [inbox EXCEPT ![t] = <<>>]
      /\ replaced' = (replaced \/ reading)
      /\ orphan' = IF reading THEN inbox[t] ELSE orphan
      /\ first' = [first EXCEPT ![t] = count[t]]

Launch(t) ==
  /\ MayLaunch(t)
  /\ gui' = "adding" /\ launching' = t
  /\ \/ t \in CmdTools /\ cfsAddr = "local" /\ AddSource(t)
     \/ t \notin CmdTools /\ UNCHANGED <<sources, inbox, replaced, orphan, first>>
  /\ UNCHANGED <<campaign, pc, at, size, todo, tlm, sourceQueue, cmdQueue, sent, lost, ctrl, running,
                 launches, count, enabled>>

\* The sources' sockets are bound to the address of the flight software.  When
\* that is another host the call fails, and nobody catches the exception.
BindFails(t) ==
  /\ MayLaunch(t) /\ t \in CmdTools /\ cfsAddr = "remote"
  /\ gui' = "dead"
  /\ UNCHANGED <<campaign, router, tlm, queues, ctrl, launching, running, launches, count, first,
                 sources, enabled>>

\* The tool's telemetry port is added, and its process is started.
FinishLaunch ==
  /\ gui = "adding"
  /\ \/ launching \in TlmTools /\ AddDest(launching)
     \/ launching \notin TlmTools /\ UNCHANGED <<dests, got, since>>
  /\ gui' = "loop"
  /\ running' = [running EXCEPT ![launching] = running[launching] + 1]
  /\ launches' = [launches EXCEPT ![launching] = launches[launching] + 1]
  /\ UNCHANGED <<campaign, router, arrived, taken, mutex, connector, queues, ctrl, launching, count, first,
                 sources, enabled>>

\* The main loop passes one command of a tool on.
RouteCmd ==
  /\ gui = "loop" /\ sourceQueue # <<>>
  /\ cmdQueue' = Append(cmdQueue, Head(sourceQueue)) /\ sourceQueue' = Tail(sourceQueue)
  /\ UNCHANGED <<campaign, router, tlm, inbox, sent, lost, ctrl, tools, enabled>>

\* A command of the main window itself.
GuiCommand ==
  /\ gui = "loop" /\ count[Gui] < campaign.cmds
  /\ cmdQueue' = Append(cmdQueue, [src |-> Gui, n |-> count[Gui] + 1])
  /\ count' = [count EXCEPT ![Gui] = count[Gui] + 1]
  /\ UNCHANGED <<campaign, router, tlm, inbox, sourceQueue, sent, lost, ctrl, gui, launching, running,
                 launches, first, sources, enabled>>

\* The window is closed: the router's sockets are closed under its feet.
Shutdown ==
  /\ gui = "loop"
  /\ gui' = "closed" /\ enabled' = FALSE
  /\ UNCHANGED <<campaign, router, tlm, queues, ctrl, launching, running, launches, count, first,
                 sources>>

-----------------------------------------------------------------------------
(* Other processes                                                          *)

ToolSends(t) ==
  /\ running[t] > 0 /\ count[t] < campaign.cmds
  /\ inbox' = [inbox EXCEPT ![t] = Append(inbox[t], [src |-> t, n |-> count[t] + 1])]
  /\ count' = [count EXCEPT ![t] = count[t] + 1]
  /\ UNCHANGED <<campaign, router, tlm, sourceQueue, cmdQueue, sent, lost, ctrl, gui, launching, running,
                 launches, first, sources, enabled>>

\* The target control switches to a remote target.
SetTarget(t) ==
  /\ running[t] > 0 /\ campaign.remote /\ cfsAddr = "local" /\ ctrlBox = <<>> /\ ctrlQueue = <<>>
  /\ ctrlBox' = <<[cmd |-> "SetCfsIpAddr", arg |-> "remote"]>>
  /\ UNCHANGED <<campaign, router, tlm, queues, ctrlQueue, cfsAddr, tools, enabled>>

\* A tool that ends asks the router to close its telemetry port.
CloseTool(t) ==
  /\ running[t] > 0
  /\ running' = [running EXCEPT ![t] = running[t] - 1]
  /\ ctrlBox' = IF t \in TlmTools
                THEN Append(ctrlBox, [cmd |-> "ClosePort", arg |-> t]) ELSE ctrlBox
  /\ UNCHANGED <<campaign, router, tlm, queues, ctrlQueue, cfsAddr, gui, launching, launches, count,
                 first, sources, enabled>>

\* Some process sends a datagram to the control port that is not meant for it.
Stray == [cmd |-> "Other", arg |-> "none"]
StrayCtrl ==
  /\ "ctrl" \in campaign.faults
  /\ ~Has(ctrlBox, Stray) /\ ~Has(ctrlQueue, Stray)
  /\ ctrlBox' = Append(ctrlBox, Stray)
  /\ UNCHANGED <<campaign, router, tlm, queues, ctrlQueue, cfsAddr, tools, enabled>>

TlmArrives ==
  /\ enabled /\ arrived < campaign.tlm
  /\ arrived' = arrived + 1
  /\ UNCHANGED <<campaign, router, taken, got, since, dests, mutex, connector, queues, ctrl, tools, enabled>>

Next ==
  \/ Router \/ TlmTimeout
  \/ FinishLaunch \/ RouteCmd \/ GuiCommand \/ Shutdown \/ TlmArrives
  \/ ConnectFails \/ StrayCtrl
  \/ \E t \in Tools : Launch(t) \/ BindFails(t) \/ CloseTool(t)
  \/ \E t \in CmdTools : ToolSends(t) \/ SetTarget(t)
  \/ \E r \in Remotes : Connect(r)

\* The router's thread and the main loop run on.  The loop comes by RouteCmd in
\* every round and gets the mutex between two datagrams; telemetry pauses for
\* the time of the timeout again and again.
Fairness ==
  /\ WF_vars(Router) /\ SF_vars(TlmTimeout)
  /\ SF_vars(FinishLaunch) /\ SF_vars(RouteCmd)

Spec == Init /\ [][Next]_vars /\ Fairness

-----------------------------------------------------------------------------
(* Properties                                                               *)

TypeOK ==
  /\ campaign \in Campaigns
  /\ sources \in Seq(CmdTools) /\ inbox \in [CmdTools -> Seq(Cmds)]
  /\ sourceQueue \in Seq(Cmds) /\ cmdQueue \in Seq(Cmds) /\ sent \in Seq(Cmds)
  /\ lost \in Seq(Cmds)
  /\ dests \subseteq Dests /\ mutex \in {"none", "router", "connect"}
  /\ connector \in {"ready", "ended", "dead"}
  /\ cfsAddr \in {"local", "remote"} /\ enabled \in BOOLEAN
  /\ pc \in {"sources", "read", "cmds", "tlm", "lock", "fanout", "ctrl", "ctrlcmds", "stopped"}
  /\ size \in 0 .. Len(sources) /\ at \in 1 .. size + 1 /\ (pc = "read" => at <= size)
  /\ orphan \in Seq(Cmds) /\ replaced \in BOOLEAN /\ (replaced => pc = "read")
  /\ arrived \in Nat /\ taken \in 0 .. arrived
  /\ got \in [Dests -> Seq(Nat)] /\ since \in [Dests -> Nat]
  /\ ctrlBox \in Seq(Ctrls) /\ ctrlQueue \in Seq(Ctrls)
  /\ gui \in {"loop", "adding", "closed", "dead"} /\ launching \in Tools
  /\ running \in [Tools -> Nat] /\ launches \in [Tools -> Nat]
  /\ count \in [Senders -> Nat] /\ first \in [Senders -> Nat]

\* The mutex is held for one fan-out, or for ever by a thread that an exception
\* ended with it: the router's, whose sendto failed (cmdtlmrouter.py:247), or
\* the one that accepts clients (279-281).  While the window is open nobody
\* waits for it in vain, unless one of these faults happens.
MutexHeld ==
  /\ mutex = "router" <=> pc = "fanout" \/ todo # {}
  /\ todo # {} => todo \subseteq dests /\ pc \in {"fanout", "stopped"}
  /\ mutex = "connect" <=> connector = "dead"
  /\ campaign.faults \cap {"send", "connect"} = {} /\ mutex # "none" =>
       pc = "fanout" \/ gui = "closed"

\* The router stops when it is told to.  It stops before that only for a
\* source that is added while it iterates over them (cmdtlmrouter.py:231), a
\* sendto that fails (236, 247) or a control datagram it cannot parse (260-267).
StopsWhenTold ==
  /\ pc = "stopped" => ~enabled
  /\ ~enabled => pc = "stopped" \/ gui = "closed"
  /\ campaign.calm /\ Iterating => size = Len(sources)
  /\ campaign.calm /\ campaign.faults \subseteq {"connect"} => (~enabled <=> gui = "closed")

\* Every destination is sent each datagram that is routed while it is listed,
\* once and in order, whatever is listed, replaced and removed meanwhile
\* (cmdtlmrouter.py:245-249).
Served ==
  \A d \in dests :
    LET last == IF pc = "lock" \/ d \in todo THEN taken - 1 ELSE taken
    IN  pc # "stopped" => got[d] = [i \in 1 .. last - since[d] |-> since[d] + i]

\* The port of a running tool is listed, for the tool or for a remote client
\* that gave the same port: a request of its predecessor to close the port
\* (telemetry.py:432) does not hit it.  For two instances at a time it may.
OpenToolsListed ==
  campaign.patient =>
    \A t \in TlmTools : running[t] > 0 => \E d \in dests : PortOf[d] = PortOf[t]

StateOK == TypeOK /\ MutexHeld /\ StopsWhenTold /\ Served /\ OpenToolsListed

\* The queues a command passes, the last one first: what was handed to sendto,
\* the queues of the two threads, a replaced socket that is still read, the socket.
Handed == sent \o lost
Way(s) ==
  <<Handed, cmdQueue, sourceQueue,
    IF replaced /\ sources[at] = s THEN orphan ELSE <<>>,
    IF s = Gui THEN <<>> ELSE inbox[s]>>

\* The commands of sender s in queue q are in order, and those in p come
\* before those in q.
Rising(q, s) ==
  \A i, j \in DOMAIN q : i < j /\ q[i].src = s /\ q[j].src = s => q[i].n < q[j].n
Before(p, q, s) ==
  \A i \in DOMAIN p, j \in DOMAIN q : p[i].src = s /\ q[j].src = s => p[i].n < q[j].n

InOrder(W, s) ==
  \A k \in 1 .. 5 : Rising(W[k], s) /\ \A l \in k + 1 .. 5 : Before(W[k], W[l], s)
Somewhere(W, c) == \E k \in 1 .. 5 : Has(W[k], c)
NoneLost(s) ==
  \A n \in first[s] + 1 .. count[s] : Somewhere(Way(s), [src |-> s, n |-> n])

\* The flight software gets the commands of each sender in order and each at
\* most once, through two threads and three queues (cmdtlmrouter.py:231-236,
\* basecamp.py:1268).  Lost on the way are only those a tool left in a socket
\* when it was launched again, and the one at hand when a sendto fails, with
\* which the thread ends; the others that are under way then stay where they are.
CommandsInOrder ==
  /\ lost # <<>> => pc = "stopped"
  /\ \A s \in Senders : InOrder(Way(s), s) /\ NoneLost(s)

\* What the proofs add.
ThreadOK ==
  /\ pc = "lock" => taken > 0
  /\ campaign.faults \cap {"send"} = {} /\ todo # {} => pc = "fanout" \/ gui = "closed"
  /\ "connect" \notin campaign.faults => connector # "dead"

\* A destination is not listed before the datagram it was listed for.
SinceOK ==
  \A d \in dests : pc # "stopped" =>
    since[d] <= IF pc = "lock" \/ d \in todo THEN taken - 1 ELSE taken

\* For a patient user a tool that is being launched does not run, and no
\* request to close its port is under way then or later, until it ends.
LaunchOK ==
  campaign.patient =>
    /\ gui = "adding" => running[launching] = 0
    /\ \A t \in Tools : running[t] <= 1
    /\ \A t \in TlmTools : Pending(t) => running[t] = 0 /\ (gui = "adding" => launching # t)

\* Only what happens in the campaign is on the control port.
CtrlOK == Has(ctrlBox, Stray) \/ Has(ctrlQueue, Stray) => "ctrl" \in campaign.faults

\* A queue holds commands that were given, a socket those of its tool.
Given(q) == \A i \in DOMAIN q : q[i].n <= count[q[i].src]
Only(q, t) == \A i \in DOMAIN q : q[i].src = t
QueuesOK ==
  /\ Given(Handed) /\ Given(cmdQueue) /\ Given(sourceQueue)
  /\ \A i \in DOMAIN sourceQueue : sourceQueue[i].src # Gui
  /\ \A t \in CmdTools : Given(inbox[t]) /\ Only(inbox[t], t)
  /\ replaced => Given(orphan) /\ Only(orphan, sources[at])

IInv == StateOK /\ ThreadOK /\ SinceOK /\ LaunchOK /\ CtrlOK /\ QueuesOK /\ CommandsInOrder

Numbers == UNION {1 .. c.cmds : c \in Campaigns}
\* An exception ended the thread that accepts clients, and it keeps the mutex.
Kept == mutex = "connect"
Gone(s, n) == n <= first[s] \/ ~enabled \/ Kept \/ (gui = "dead" /\ s # Gui)

\* Every command reaches the flight software, a window that is closed ends the
\* router's thread, a window that launches a tool goes on, and the port of a
\* tool that has ended is closed; unless the router stops or the mutex is kept
\* by a thread that an exception ended.
RouterProgress ==
  /\ \A s \in Senders : \A n \in Numbers :
       (count[s] >= n) ~>
         (Gone(s, n) \/ Has(sent, [src |-> s, n |-> n]))
  /\ (gui = "closed") ~> (pc = "stopped" \/ Kept)
  /\ (gui = "adding") ~> (gui = "loop" \/ Kept \/ (mutex = "router" /\ pc = "stopped"))
  /\ \A t \in TlmTools :
       (t \in dests /\ running[t] = 0) ~> (t \notin dests \/ running[t] > 0 \/ ~enabled \/ Kept)
=============================================================================
