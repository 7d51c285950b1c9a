------------------------------ MODULE FileUplink ------------------------------
(***************************************************************************)
(* Uploading files: the ground system's FileXfer (send_file,               *)
(* send_bin_file in gnd-sys/app/cfsinterface/filebrowser.py), the command  *)
(* link (UDP to the command ingest app, then the software bus) and FITP.   *)
(*                                                                         *)
(* The ground sends a start command, the numbered segments and the finish  *)
(* command of one upload after the other, paced by a timer and without     *)
(* looking at any telemetry.  The link may lose a command, deliver it      *)
(* twice or swap it with the next one, and the ground may stop in the      *)
(* middle of an upload, at most MaxFaults times in all; the file system    *)
(* may fail an open or a write.                                            *)
(*                                                                         *)
(* What arrives.  send_bin_file reads bytes and sends their hex text, so   *)
(* FITP writes the bytes of the ground file.  send_file reads characters:  *)
(* text mode turns the line ends of the ground file into one character     *)
(* each, Len counts characters, and FITP takes the first Len bytes of      *)
(* their utf-8 coding.  AsText is the outcome, a block for each block of   *)
(* the ground file: itself for plain text, another one for text with       *)
(* carriage returns or with characters of several bytes.                   *)
(***************************************************************************)
EXTENDS Fitp, FiniteSets, SequencesExt

CONSTANTS
  Uploads,    \* the uploads the operator asks for, in order
  AsText,     \* AsText[b]: what FITP takes of block b read as text
  Faults,     \* what may go wrong: a subset of {"lose", "dup", "swap", "quit"}
  MaxFaults   \* bound on the number of these faults

ASSUME UploadsAssumption ==
  Uploads \in Seq([name : Names, content : Seq(Blocks), bin : BOOLEAN])
ASSUME AsTextAssumption == AsText \in [Blocks -> Blocks]

VARIABLES
  cur,        \* the upload the ground is sending
  next,       \* its next command: 0 start, i segment i, one more for finish
  link,       \* commands on their way
  faults,     \* faults so far
  hit,        \* uploads that lost or swapped a command or failed a file call
  arrived     \* uploads whose finish command closed their own, whole file

gnd == <<cur, next>>
uvars == <<vars, gnd, link, faults, hit, arrived>>

Ups == DOMAIN Uploads
NSegs(k) == Len(Uploads[k].content)

UInit ==
  /\ Init
  /\ cur = 1 /\ next = 0
  /\ link = <<>>
  /\ faults = 0
  /\ hit = {}
  /\ arrived = {}

-----------------------------------------------------------------------------
(* The ground.                                                             *)

\* The running file_crc of send_file and send_bin_file: over the utf-8 coding of
\* the characters that were read, or the bytes before the hex encoding, in
\* Python's integers, which keep their sign: FITP's CRC of the same bytes is
\* another number (crc.c:65, tools/utils.py:60).
FileCrc(k) ==
  [i \in 1 .. NSegs(k) |-> [fmt |-> "signed", data |-> Uploads[k].content[i]]]

\* os.stat: the bytes of the ground file, whatever they are read as.
FileLen(k) == FoldSeq(LAMBDA b, len : len + Size[b], 0, Uploads[k].content)

\* Mutant: the first segment is numbered 0.
SegmentIdFrom0(i) == i - 1
SegmentId(i) == i

Segment(k, i) ==
  IF Uploads[k].bin
  THEN [id |-> SegmentId(i), blk |-> Uploads[k].content[i], fmt |-> "hex"]
  ELSE [id |-> SegmentId(i), blk |-> AsText[Uploads[k].content[i]], fmt |-> "text"]

FinishCmd(k) ==
  [fileLen |-> FileLen(k), fileCrc |-> FileCrc(k), lastDataSegmentId |-> NSegs(k)]

\* The ground reads its files in pieces that FITP takes (FILE_XFER_DATA_SEG_LEN
\* is FITP_DATA_SEG_MAX_LEN), and the segment ids of an upload do not run out.
ASSUME SegmentsAssumption ==
  \A k \in Ups :
    /\ FinishCmd(k) \in FinishCmds
    /\ \A i \in 1 .. NSegs(k) : Size[Segment(k, i).blk] <= MaxLen

\* One send_cfs_cmd of the upload's loop.
Send ==
  /\ cur \in Ups
  /\ link' = Append(link, [up |-> cur, part |-> next])
  /\ IF next > NSegs(cur)
     THEN cur' = cur + 1 /\ next' = 0
     ELSE cur' = cur /\ next' = next + 1
  /\ UNCHANGED <<vars, faults, hit, arrived>>

-----------------------------------------------------------------------------
(* Faults of the ground and of the link.                                   *)
Fault(f) == f \in Faults /\ faults < MaxFaults /\ faults' = faults + 1

\* The browser is closed, or send_file ends with an exception at bytes that are
\* no utf-8: the rest of the upload is not sent.
Quit ==
  /\ Fault("quit")
  /\ cur \in Ups
  /\ cur' = cur + 1 /\ next' = 0
  /\ hit' = hit \cup {cur}
  /\ UNCHANGED <<vars, link, arrived>>

Lose ==
  /\ Fault("lose")
  /\ \E i \in DOMAIN link : /\ link' = RemoveAt(link, i)
                            /\ hit' = hit \cup {link[i].up}
  /\ UNCHANGED <<vars, gnd, arrived>>

Duplicate ==
  /\ Fault("dup")
  /\ \E i \in DOMAIN link : link' = InsertAt(link, i, link[i])
  /\ UNCHANGED <<vars, gnd, hit, arrived>>

Swap ==
  /\ Fault("swap")
  /\ \E i \in 1 .. Len(link) - 1 :
       /\ link[i] # link[i + 1]
       /\ link' = [link EXCEPT ![i] = link[i + 1], ![i + 1] = link[i]]
       /\ hit' = hit \cup {link[i].up, link[i + 1].up}
  /\ UNCHANGED <<vars, gnd, arrived>>

\* What the destination of upload k holds when all of it came.
Arrives(k) ==
  [i \in 1 .. NSegs(k) |-> [fmt |-> "text", data |-> Segment(k, i).blk]]

Holds(k) == destFilename = Uploads[k].name /\ disk[destFilename] = Arrives(k)

\* The oldest command reaches FILE_XFER's command dispatcher.
DeliverStart(k) ==
  /\ StartTransferCmd(Uploads[k].name, Uploads[k].bin)
  /\ hit' = IF StartAllowed /\ ~fileTransferActive' THEN hit \cup {k} ELSE hit
  /\ UNCHANGED arrived

DeliverSegment(k, i) ==
  /\ DataSegmentCmd(Segment(k, i))
  /\ hit' = IF fileTransferActive /\ ~fileTransferActive' THEN hit \cup {k} ELSE hit
  /\ UNCHANGED arrived

DeliverFinish(k) ==
  /\ FinishTransferCmd(FinishCmd(k))
  /\ arrived' = IF fileTransferActive /\ Holds(k) THEN arrived \cup {k} ELSE arrived
  /\ UNCHANGED hit

Deliver ==
  /\ link # <<>>
  /\ link' = Tail(link)
  /\ LET k == Head(link).up
         i == Head(link).part
     IN  \/ i = 0 /\ DeliverStart(k)
         \/ i \in 1 .. NSegs(k) /\ DeliverSegment(k, i)
         \/ i > NSegs(k) /\ DeliverFinish(k)
  /\ UNCHANGED <<gnd, faults>>

UNext == Send \/ Quit \/ Lose \/ Duplicate \/ Swap \/ Deliver

USpec == UInit /\ [][UNext]_uvars

\* The upload loop runs to its end, and a command the link holds is delivered.
FairUSpec == USpec /\ WF_uvars(Send) /\ WF_uvars(Deliver)

-----------------------------------------------------------------------------
(* Properties                                                              *)

Clean(k) == k \notin hit /\ (k > 1 => k - 1 \notin hit)
Arrived(k) == k \in arrived
Over(k) == cur > k /\ \A i \in DOMAIN link : link[i].up # k

\* An upload that no fault touched, nor the upload before it, has arrived: its
\* finish command closed the file of its own name with every segment in it, once
\* and in order.  Whatever earlier uploads lost, wherever the ground left off,
\* and whatever commands came twice, FITP is ready again after one intact
\* upload, although the ground never looks.
UploadSafe ==
  \A k \in Ups : Over(k) /\ Clean(k) => Arrived(k)

\* Every upload that stays untouched, with the one before it, arrives at last.
CleanUploadCompletes ==
  \A k \in Ups : <>(~Clean(k)) \/ <>Arrived(k)

-----------------------------------------------------------------------------
(* The inductive invariant.  The line is what FITP has yet to see: the     *)
(* commands on the link, and the one the ground sends next.                *)

Command == [up : Ups, part : Nat]

UTypeOK ==
  /\ link \in Seq({c \in Command : c.part <= NSegs(c.up) + 1})
  /\ cur \in 1 .. Len(Uploads) + 1
  /\ next \in Nat
  /\ cur \in Ups => next <= NSegs(cur) + 1

Line(i) == IF i <= Len(link) THEN link[i] ELSE [up |-> cur, part |-> next]

\* Where a command lies as upload k sees it: before it, in it or after it.
Rank(k, c) == IF c.up < k THEN -1 ELSE IF c.up > k THEN NSegs(k) + 2 ELSE c.part

\* An upload that no fault touched goes by in one piece, whatever the others
\* lost: along the line its rank stays or grows by one.
InOneStride ==
  \A k \in Ups \ hit : \A i \in 1 .. Len(link) :
    Rank(k, Line(i + 1)) \in {Rank(k, Line(i)), Rank(k, Line(i)) + 1}

\* FITP has taken the first q segments of upload k.
Took(k, q) ==
  /\ fileTransferActive
  /\ binFile = Uploads[k].bin
  /\ destFilename = Uploads[k].name
  /\ lastDataSegmentId = q
  /\ disk[destFilename] = SubSeq(Arrives(k), 1, q)

\* FITP is ready for the next command of a clean upload: it has seen all that
\* went before it, and perhaps this one too.
Ready(k, r) ==
  \/ r = -1
  \/ r = 0 /\ (~fileTransferActive \/ Took(k, 0))
  \/ r \in 1 .. NSegs(k) /\ (Took(k, r - 1) \/ Took(k, r))
  \/ r = NSegs(k) + 1 /\ (Took(k, NSegs(k)) \/ Arrived(k))
  \/ r = NSegs(k) + 2 /\ Arrived(k)

KeepsUp == \A k \in Ups : Clean(k) => Ready(k, Rank(k, Line(1)))

UInv == IInv /\ UTypeOK /\ InOneStride /\ KeepsUp
=============================================================================
