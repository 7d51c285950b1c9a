----------------------------- MODULE FileDownlink -----------------------------
(***************************************************************************)
(* Downloading files: FOTP, the telemetry link and the ground system's     *)
(* FileXfer (gnd-sys/app/cfsinterface/filebrowser.py).                     *)
(*                                                                         *)
(* Two threads of the file browser share the receive state: the GUI thread *)
(* asks for a file (start_recv_file) or cancels, and the telemetry thread  *)
(* (TelemetrySocketServer._recv_tlm_handler, telemetry.py) runs            *)
(* tlm_callback on each packet.  The telemetry thread catches only socket  *)
(* timeouts and RuntimeError: another exception in the callback ends it.   *)
(* Both links keep their order and lose nothing; a flight file is stored   *)
(* under its own name on the ground.                                       *)
(***************************************************************************)
EXTENDS Fotp

CONSTANTS
  Modes,        \* binary flags of the downloads the operator asks for
  Patient,      \* TRUE: a download is asked for only when nothing is going on
  MaxRequests,  \* bound on the number of downloads
  MaxCancels,   \* bound on the number of cancels the operator asks for
  NoFile        \* recv_file is None

ASSUME DownlinkAssumption ==
  /\ Modes \subseteq BOOLEAN /\ Patient \in BOOLEAN /\ MaxRequests \in Nat
  /\ MaxCancels \in Nat
  /\ 0 \in Offsets
  /\ NoFile \notin [name : Names, bin : BOOLEAN]

VARIABLES
  cmds,       \* commands on their way to FILE_XFER
  tlm,        \* packets on their way to the ground
  recvState,  \* recv_state
  recvFile,   \* recv_file: the open ground file, with its mode
  recvBin,    \* recv_bin_file
  recvName,   \* recv_gnd_filename
  request,    \* start_recv_file between closing the file and sending commands
  requests,   \* downloads asked for so far
  cancels,    \* cancels asked for so far
  gndFiles,   \* contents of the ground files
  complete,   \* ground files closed by a finish packet
  alive,      \* the telemetry thread runs
  startBin    \* BinFile of the last start packet

gui == <<request, requests, cancels>>
gnd == <<recvState, recvFile, recvBin, recvName, gndFiles, complete, alive, startBin>>
dvars == <<vars, cmds, tlm, gui, gnd>>

DInit ==
  /\ Init
  /\ cmds = <<>> /\ tlm = <<>>
  /\ recvState = "IDLE" /\ recvFile = NoFile /\ recvBin = FALSE /\ recvName = NoName
  /\ request = {} /\ requests = 0 /\ cancels = 0
  /\ gndFiles = [f \in Names |-> <<>>]
  /\ complete = {} /\ alive = TRUE /\ startBin = FALSE

-----------------------------------------------------------------------------
(* The GUI thread.                                                         *)

CancelCmd == [cmd |-> "cancel"]

Quiet == cmds = <<>> /\ tlm = <<>> /\ state = "IDLE"

\* start_recv_file up to closing the file of an earlier download.
RecvBegin(f, bin) ==
  /\ request = {} /\ requests < MaxRequests
  /\ Patient => Quiet
  /\ request' = {[cmd |-> "start", name |-> f, bin |-> bin]} /\ requests' = requests + 1
  /\ recvName' = f
  /\ recvFile' = NoFile
  /\ UNCHANGED <<vars, cmds, tlm, cancels, recvState, recvBin, gndFiles, complete,
                 alive, startBin>>

\* The rest of it: cancel an unfinished download, then send the start command.
RecvSend ==
  \E r \in request :
    /\ LET unfinished == recvState \notin {"IDLE", "FINISH"}
       IN  /\ cmds' = cmds \o (IF unfinished THEN <<CancelCmd>> ELSE <<>>) \o <<r>>
           /\ recvState' = IF unfinished THEN "IDLE" ELSE recvState
    /\ request' = {}
    /\ UNCHANGED <<vars, tlm, requests, cancels, recvFile, recvBin, recvName, gndFiles,
                   complete, alive, startBin>>

\* Mutant: the cancel closes recv_file.
ClosedFile == NoFile
\* recv_file stays open: packets of the cancelled download are still to come.
FileAfterCancel == recvFile

\* cancel_recv_file: the operator may press Cancel Send whatever recv_state is,
\* before the start command of a download has arrived and after it finished.
CancelRecv ==
  /\ request = {} /\ cancels < MaxCancels
  /\ cancels' = cancels + 1
  /\ cmds' = Append(cmds, CancelCmd)
  /\ recvState' = "IDLE"
  /\ recvFile' = FileAfterCancel
  /\ UNCHANGED <<vars, tlm, request, requests, recvBin, recvName, gndFiles, complete,
                 alive, startBin>>

-----------------------------------------------------------------------------
(* The flight side.                                                        *)
Command ==
  /\ cmds # <<>>
  /\ cmds' = Tail(cmds)
  /\ IF Head(cmds).cmd = "cancel" THEN CancelTransferCmd
     ELSE StartTransferCmd(Head(cmds).name, 0, Head(cmds).bin)
  /\ UNCHANGED <<tlm, gui, gnd>>

Fly ==
  /\ Execute
  /\ tlm' = IF out' = out THEN tlm ELSE Append(tlm, out'[Len(out')])
  /\ UNCHANGED <<cmds, gui, gnd>>

-----------------------------------------------------------------------------
(* The telemetry thread: tlm_callback.                                     *)
Dies ==
  /\ alive' = FALSE
  /\ UNCHANGED <<recvFile, gndFiles, complete>>

\* Mutant: the ground file is opened for appending.
Appended(f) == gndFiles[f]
\* open() with mode w or wb empties the ground file.
Opened(f) == <<>>

\* START_FOTP_TLM: recv_bin_file is set by a binary start packet, and left as
\* it is by a text one.
OnStart(p) ==
  /\ p.kind = "start"
  /\ recvState' = "START"
  /\ recvBin' = (recvBin \/ p.bin)
  /\ startBin' = p.bin
  /\ recvFile' = [name |-> recvName, bin |-> p.bin]
  /\ gndFiles' = [gndFiles EXCEPT ![recvName] = Opened(recvName)]
  /\ complete' = complete \ {recvName}
  /\ UNCHANGED alive

\* What write() puts into the file: the bytes of a block or its hex text.
Stored(p) == [blk |-> p.blk, hex |-> p.bin /\ ~recvBin]

\* Decoded bytes go into a file opened in binary mode only, and text that is
\* not hex decodes to None.
CanWrite(p) ==
  /\ recvFile # NoFile
  /\ recvBin => p.bin /\ recvFile.bin

OnSegment(p) ==
  /\ p.kind = "data"
  /\ recvState' = "RECV_DATA"
  /\ IF CanWrite(p)
     THEN /\ gndFiles' = [gndFiles EXCEPT ![recvFile.name] = Append(@, Stored(p))]
          /\ UNCHANGED <<recvFile, complete, alive>>
     ELSE Dies
  /\ UNCHANGED <<recvBin, startBin>>

\* FINISH_FOTP_TLM: the CRC and the length are only displayed.
OnFinish(p) ==
  /\ p.kind = "finish"
  /\ recvState' = "FINISH"
  /\ IF recvFile # NoFile
     THEN /\ complete' = complete \cup {recvFile.name}
          /\ recvFile' = NoFile
          /\ recvBin' = FALSE
          /\ UNCHANGED <<gndFiles, alive>>
     ELSE Dies /\ UNCHANGED recvBin
  /\ UNCHANGED startBin

Receive ==
  /\ alive /\ tlm # <<>>
  /\ tlm' = Tail(tlm)
  /\ LET p == Head(tlm) IN OnStart(p) \/ OnSegment(p) \/ OnFinish(p)
  /\ UNCHANGED <<vars, cmds, gui, recvName>>

DNext ==
  \/ \E f \in Names, bin \in Modes : RecvBegin(f, bin)
  \/ RecvSend \/ CancelRecv \/ Command \/ Fly \/ Receive

DSpec == DInit /\ [][DNext]_dvars

\* Commands and packets arrive, the scheduler requests executes, the software
\* bus takes a packet that is offered again and again, start_recv_file goes on.
FairDSpec ==
  /\ DSpec
  /\ WF_dvars(RecvSend) /\ WF_dvars(Command) /\ WF_dvars(Receive)
  /\ WF_dvars(Fly) /\ SF_dvars(Fly /\ out' # out)

-----------------------------------------------------------------------------
(* Properties                                                              *)

\* A ground file that a finish packet closed is the flight file, block for
\* block, whatever downloads were cancelled or cut short before it.
DownloadIntact ==
  \A f \in complete :
    gndFiles[f] = [i \in DOMAIN Content[f] |-> [blk |-> Content[f][i], hex |-> FALSE]]

\* A download ends: its file is complete, or the operator cancelled it or FOTP
\* gave it up and is idle with nothing left to say; or the telemetry thread has
\* ended, and nothing will end any more.
DownloadEnds == (cmds # <<>>) ~> (recvState = "FINISH" \/ Quiet \/ ~alive)

\* Packets still on their way when a download is cancelled, given up or begun
\* again never find the ground file closed, for an operator who waits: all that
\* can end the telemetry thread then is a text download received with the mode
\* of a binary one that never finished (tlm_callback clears recv_bin_file only
\* on a finish packet).
ThreadEndsByModeOnly == ~alive => recvBin /\ ~startBin

\* What an earlier download left behind spoils no file that a finish packet
\* closes and does not end the thread but through the mode.
DownloadSafe == DownloadIntact /\ ThreadEndsByModeOnly

-----------------------------------------------------------------------------
(* The inductive invariant, for an operator who waits.                     *)

DTypeOK ==
  /\ recvState \in {"IDLE", "START", "RECV_DATA", "FINISH"}
  /\ recvBin \in BOOLEAN /\ startBin \in BOOLEAN /\ alive \in BOOLEAN
  /\ recvName \in Names \cup {NoName}
  /\ tlm \in Seq(Packets)
  /\ gndFiles \in [Names -> Seq([blk : Blocks, hex : BOOLEAN])]
  /\ complete \subseteq Names

\* A download is under way, on board or on the link.
Streaming == state # "IDLE" \/ tlm # <<>>

StartCmd(bin) == [cmd |-> "start", name |-> recvName, bin |-> bin]

DownCommands == [cmd : {"cancel"}] \cup [cmd : {"start"}, name : Names, bin : BOOLEAN]

\* At most one command on its way is a start, and FOTP is idle till then.
CommandsInOrder ==
  /\ cmds \in Seq(DownCommands)
  /\ \A i \in DOMAIN cmds : cmds[i] # CancelCmd =>
       /\ cmds[i] \in {StartCmd(bin) : bin \in BOOLEAN}
       /\ \A j \in DOMAIN cmds : j # i => cmds[j] = CancelCmd
       /\ ~Streaming /\ request = {} /\ recvState \in {"IDLE", "FINISH"}

RequestWaits ==
  request # {} => Quiet /\ recvName \in Names /\ \E bin \in BOOLEAN : request = {StartCmd(bin)}

\* The packets the ground has taken of those sent since the start.
Received == Len(out) - Len(tlm)

\* The packets on the link are the last ones sent, and all that were sent are
\* the transcript of the file that was asked for, in one mode.
LinkInOrder ==
  Streaming =>
    /\ srcFilename \in Names /\ srcFilename = recvName /\ FileLen > 0
    /\ out \in Seq(Packets) /\ Len(tlm) <= Len(out)
    /\ \A i \in DOMAIN tlm : tlm[i] = out[Received + i]
    /\ LET t == Transcript(srcFilename, 0)
       IN  /\ Len(out) <= Len(t)
           /\ \A i \in DOMAIN out :
                Plain(out[i]) = t[i] /\ (out[i].kind # "finish" => out[i].bin = binFile)

\* The first n blocks of a flight file, stored on the ground.
Copy(f, n) == [i \in 1 .. n |-> [blk |-> Content[f][i], hex |-> FALSE]]

\* The ground file holds what the packets taken so far brought.
GroundFollows ==
  Streaming /\ alive /\ Received \in 1 .. FileLen + 1 =>
    /\ recvFile = [name |-> recvName, bin |-> binFile]
    /\ recvName \notin complete
    /\ gndFiles[recvName] = Copy(recvName, Received - 1)
    /\ startBin = binFile
    /\ binFile => recvBin

DownlinkOK ==
  /\ offset = 0 /\ state # "PAUSED"
  /\ DTypeOK /\ CommandsInOrder /\ RequestWaits /\ LinkInOrder /\ GroundFollows
  /\ DownloadSafe

DInv == IInv /\ DownlinkOK
=============================================================================
