# A formal model of cfs-basecamp

TLA+ modules, TLC configurations and TLAPS proofs for the parts of cfs-basecamp that
carry its own logic: the Basecamp flight apps under `src/apps` and the ground system
under `src/gnd-sys/app`. NASA's cFE/OSAL/PSP under `src/cfe-eds-framework` is the
platform they run on; the functions that the apps' correctness rests on are modelled with them.

    tlc -workers 2 -config MCFitp.cfg MCFitp.tla     # model-check one component
    tlapm Fitp_proofs.tla                            # check the proofs

`PROJECT.json` lists every run, every property with a mutated definition that breaks it,
the source lines each definition stands for, the findings and the hazards.

## 1. Inventory

A flight app is one task that waits on a software bus pipe and handles one message at a
time, so that a command handler is atomic with respect to the app's other commands.
What interrupts it is listed below under "hard". Names in parentheses are source files.

| Component | State it keeps | Operations | Talks to | Correct when |
|---|---|---|---|---|
| FITP, file input (`file_xfer/fitp.c`) | transfer active, mode, name and handle, last segment id, error count, byte count, running CRC, transfer count | start, start binary, data segment, finish, cancel, reset, destructor | commands from the ground, OSAL files | no handle leaks, the status describes the file, a reported file is the file that was verified |
| FOTP, file output (`file_xfer/fotp.c`) | five-state machine and the state to resume, name and handle, offset, next id, byte count, CRC, last-segment and send-failed flags | start, start binary, cancel, pause, resume, reset, execute | scheduler requests, software bus (may refuse a packet), OSAL files | packets in order, none lost or doubled, counted only when complete, every transfer ends |
| FILE_XFER app (`file_xfer_app.c`) | the two objects | dispatch of commands and of the execute request, reset | FITP, FOTP | a request or a command reaches one object as a whole |
| Ground file transfer (`filebrowser.py`, FileXfer) | send position; receive state, file, mode, name | send a file, receive a file, cancel, telemetry callback | commands, telemetry thread | an upload or download gives the same file on the other side |
| Ground telemetry (`telemetry.py`) | receive thread, observers | receive and hand out packets | FileXfer and other observers | the thread survives what observers do |
| KIT_SCH timing (`kit_sch/scheduler.c`) | minor frame counter, next slot, timer, semaphore, synchronization flags, noise counters, pass count | execute, tone callback, timer callback, reset | cFE TIME (1 Hz tone), OSAL timer, semaphore | every slot is processed once per pass, in its minor frame |
| KIT_SCH tables (`schtbl.c`, `msgtbl.c`, table commands of `scheduler.c`) | scheduler table; messages as table data and as command messages; table status | load, dump, load one entry, enable, send | table manager, JSON files, ProcessSlot | loads are all or nothing, what is loaded is what is sent, activities keep their period |
| Framework table manager (`app_c_fw/tblmgr.c`) | registered tables, last action of each | register with default load, load, dump | table objects | the status says what the last action did |
| Framework command manager (`cmdmgr.c`) | function table, counters | register, dispatch, reset | app objects | each command runs one handler and is counted once |
| Framework child task manager (`childmgr.c`) | command queue, its indices and count, mutex, counting semaphore, counters | register, invoke in the child, child task loop, pause | parent and child task | commands run once, in order; the queue's indices and count agree |
| Framework state reporter (`staterep.c`) | latched and unlatched bits, report mode | set a bit, generate a report, clear, configure | health report packet | no reported state is lost between two reports |
| Framework utilities (`pktutil.c`, `crc.c`, `fileutil.c`, `cjson.c`, `initbl.c`) | none, or a configuration read at startup | encoding, CRC, packet filters, file names, JSON | all apps | pure functions of their input |
| KIT_TO (`pktmgr.c`, `pkttbl.c`, `evt_plbk.c`) | packet table, subscriptions, socket state, statistics; event log | add, remove, update filter, load, output, event playback | telemetry pipe, event messages | subscriptions follow the packet table |
| FILE_MGR (`file.c`, `dir.c`, `filesys.c`) | current command, directory listing state | copy, move, delete, concatenate, list, send listing | child task, OSAL | no open file is changed, an overwrite is asked for |
| APP_C_DEMO (`histogram*.c`, `device.c`) | histogram, log file, playback state | start, stop, log, play back | table, device, child task | playback returns what was logged |
| Ground routing (`cmdtlmrouter.py`, with what `basecamp.py`, `telemetry.py`, `cmdtlmprocess.py` do to it) | command sources, their sockets and queues, telemetry destinations under a mutex, control port, flight address | add a source or a destination, route commands and telemetry, close a port, set the address, shut down | main window, tools (processes), remote clients, flight target | commands of each sender are sent in order, once; telemetry reaches everyone listed; a running tool stays listed; the thread ends when told to |
| Ground control and tools (`targetcontrol.py`, `basecamp.py`, `tools/`, `remoteops/`) | windows, child processes, an MQTT session | user interface, project files | router | mostly input and output |
| cFE/OSAL/PSP with EDS, performance monitor (Java) | platform, stand-alone viewer | | | not part of this project |

What is hard about this system:

- KIT_SCH: three contexts (task, tone callback, timer callback) share one object without
  a lock; a binary semaphore joins wakeups, so the task infers the number of slots to do
  from two slot numbers modulo the table; tones may be noisy, missing or in flywheel mode.
- File transfer: the ground sends an upload open loop; commands are lost, doubled and
  swapped by UDP; the software bus refuses packets; reads, writes and opens fail half way;
  a new transfer meets the leftovers of the one before on both sides.
- Ground: the GUI thread and the telemetry thread share the receive state of a download. The
  router's thread, the main window's and the one that accepts remote clients share dictionaries
  and queues, of which one is under a mutex; tools are processes that end and come back while
  their requests are still in a socket.
- Child tasks: an app and its child share a queue and, in APP_C_DEMO, an object, with a mutex
  around one counter only; a command is run long after it was accepted.
- FILE_MGR: a command is many system calls, each of which may fail, while other tasks open,
  write and close the files it looked at; a directory is read while it changes.
- KIT_TO: the packet table changes while packets subscribed from it are on the pipe; the
  playback waits for a file that another task writes.
- Tables: partial failures in the middle of a file, two copies of the same data, fields
  narrower than the commands that set them, dumps that must load again.

The hazards are listed one by one, with lines, in `PROJECT.json`.

## 2. Modules

| Module | Models | State and actions |
|---|---|---|
| `VerifiedStore` | abstract specification: a file becomes known in one step and what is known of it is only ever lost | one map from names to contents; `Deliver`, `Reopen` |
| `Fitp` | `fitp.c` | one variable per field of the FITP object, the files it holds open, the disk, and what was reported of each file; one action per command, `RestartApp` |
| `Fitp_proofs` | | theorems about `Fitp` and `FileUplink` |
| `FileUplink` | extends `Fitp` with `send_file`/`send_bin_file` and the command link | `Send`, `Quit`, `Lose`, `Duplicate`, `Swap`, `Deliver` |
| `Fotp` | `fotp.c` | one variable per field of the FOTP object, open files, packets sent; one action per command; `FOTP_Execute` by state and outcome |
| `Fotp_proofs` | | theorems about `Fotp` and `FileDownlink` |
| `FileDownlink` | extends `Fotp` with `start_recv_file`, `cancel_recv_file`, `tlm_callback` and the two links | GUI thread: `RecvBegin`, `RecvSend`, `CancelRecv`; flight: `Command`, `Fly`; telemetry thread: `Receive` |
| `KitSch` | the two counters that both halves of KIT_SCH move | variables only |
| `Scheduler` | timing half of `scheduler.c` | `MajorFrameCallback` (tone), `MinorFrame...` (the steps of the timer callback), `ExecuteTake`/`ExecuteSlots` (task), `ResetStatus`, `MetSlot` |
| `SchTables` | `schtbl.c`, `msgtbl.c`, the table commands and `ProcessSlot` of `scheduler.c`, with the table manager between | `Startup`, `Load`, `DumpTbl`, one action per entry command, `ProcessSlot`, `DivideByZero`, `RestartProcessor` |
| `KitSch_proofs` | | theorems about `Scheduler` and `SchTables` |
| `ChildQueue` | abstract specification: a bounded queue and the command that runs | `Accept`, `Begin`, `End` |
| `ChildMgr` | `childmgr.c` | the ring, its count, the semaphore, and where the two tasks are; one action per access of the parent (`InvokeChildCmd`, `WriteEntry`, `CountEntry`, `GiveSemaphore`) and of the child (`TakeSemaphore` ... `ReleaseEntry`) |
| `ChildMgr_proofs` | | theorems about `ChildMgr` |
| `HistogramLog` | `histogram_log.c`, on `ChildQueue`, with what `histogram.c` and the app hand to it | app's task: `SetHistogram`, `AcceptNewTbl`, `Invoke`, `Execute`, the steps of `ResetStatus`; child: one action per command handler |
| `HistogramLog_proofs` | | theorems about `HistogramLog` |
| `PktMgr` | `pktmgr.c`, `pkttbl.c` | table, subscriptions, pipe, socket state; one action per command, and per outcome of a packet in `PKTMGR_OutputTelemetry` |
| `EvtPlbk` | `evt_plbk.c` and the log file command of `cfe_evs_log.c` | playback state, log files; commands, `Execute`, and the steps of EVS |
| `KitTo` | extends both with the loop of `kit_to_app.c` | `OutputPacket`, `OutputEnds`, `OutputFails`, commands, `HkRequest` |
| `KitTo_proofs` | | theorems about `KitTo` |
| `FileStore` | files, the streams other tasks have open, `fileutil.c`'s state of a file, `OS_remove`, `OS_rename` | `Others`, `Check` |
| `FileOps` | the file commands of `file.c`, with `OS_cp` and `OS_mv` | one action per system call |
| `DirOps` | delete-all and the listings of `dir.c` | one action per entry read and per system call |
| `FileMgr` | extends both: the child task of FILE_MGR | `Command`, `Child`, `Others` |
| `FileMgr_proofs` | | theorems about `FileMgr` |
| `CmdTlmRouter` | `cmdtlmrouter.py` with the threads and processes that use it | router thread: one action per read, send, timeout and mutex operation of `manage_routes`; main window: `Launch`, `FinishLaunch`, `RouteCmd`, `GuiCommand`, `Shutdown`; `Connect` of a remote client; tools: `ToolSends`, `CloseTool`, `SetTarget`; faults: `SendCmdFails`, `SendTlmFails`, `ConnectFails`, `StrayCtrl` |
| `CmdTlmRouter_proofs` | | theorems about `CmdTlmRouter` |

`HistogramLog` stands on the abstract `ChildQueue`, which `ChildMgr` is proved to implement;
`FileMgr` uses less of it: commands come one after the other.

`MC...` modules give the constants their values. `map` in `PROJECT.json` names the source
lines of every definition.

How data is abstracted:

- A data segment carries a *block*, a model value. What is written to a file, or covered
  by a CRC, is a sequence of *units*, one per segment: the block, the first half of its
  hex text, or what a torn write leaves. A CRC is the sequence it covers, that is, CRC-32C
  is taken to have no collisions among the files of interest; the CRC of the ground, which is
  another function (see "Other divergences"), is marked so. Hex decoding is modelled by
  what it does: it turns the hex unit back into the block and gives nothing for other text.
- Text of the ground is read in characters, with line ends turned into one character each, and sent
  with a length in characters of which FITP takes as many bytes (`filebrowser.py:258-266`).
  `AsText` gives, for each block that is read, the block FITP takes; the two differ for carriage
  returns and for characters of several bytes, and so may their lengths.
- A download's `DataSegLen` is checked against the same limits in text and in binary mode
  (`fotp.c:595-596`), although hex doubles the data (`fotp.c:405`). The model is of segments
  whose text fits into a packet, as the ground asks for them (`filebrowser.py:312`).
- A table file is the sequence of its records, each with a flag that says whether all its
  attributes are there. A message is known by its id; the byte swaps of a dump are kept.
- Time is not measured in `Scheduler`. The timer is known by how it was last set (with an
  interval, or once), tones come in given minor frames, and the task is at most
  `maxBehind` callbacks late.
- In `HistogramLog` a file is the sequence of its lines, a line the bin and the value of its
  sample; behind a write that was cut short it has bytes that are no lines (`frayed`). In `FileMgr` a file is a sequence of blocks; statistics and entries of a list file
  are blocks too. What a file system does to streams whose file is removed or renamed is
  modelled by the stream's name (`other`, `orphan`).
- In `PktMgr` a packet is its message id and a filter passes, holds, or does either with any
  packet, which covers every filter by count and time.
- Fields that are narrower than what is put into them keep their width (`IdMax`, `CntMax`,
  `Byte`, `PassMod`, `CountMod`); the runs use small widths so that they wrap.

## 3. Runs

All passing runs explore their whole state space. States are distinct states. The smaller
invariants of a component are joined, with its type invariant, into `StateOK` (`TablesOK` in
`SchTables`, which is proved about together with `Scheduler`); they stay named parts of it.

### `fitp` (70,984 states)
FITP under any commands in any order, with failing opens, failing and torn writes, resets
and restarts. Two names, three blocks of which two share their first half and one is longer
than a segment may be, ids that run out after two segments (`IdMax = 2`), counters that wrap at
two. The finish commands are those of every file of at most two blocks, and one that
matches nothing.
- `StateOK`, which joins the types with `NoHandleLeak` (exactly the destination is open,
  exactly while a transfer is active), `StatusTracksFile` (id, CRC and file describe the same
  segments during a transfer) and `ByteCountBounded` (the byte count is that of the accepted
  segments).
- `Integrity`: a reported file holds the bytes the finish command's CRC was taken over.
- `VerifiedFileIsFinal`: after the success event only a new start changes the file.
- `ImplementsStore`: FITP refines `VerifiedStore`, where a file is known from the success
  event until the next start for its name. The mapping `Known` takes the disk contents of
  reported files; a file reported with a CRC over hex text is not known (see "Other divergences").

Two names are enough because FITP holds one file: a second one shows that nothing else is
touched. Two segments are enough for a wrong order, a repeat and a skipped id.

### `uplink` (400,047 states)
Three uploads in sequence: text with a line end of two bytes, binary to another name, text to the
first name again, over a link that loses, doubles or swaps commands, from a ground that may stop in
the middle of an upload (`Quit`), at most three such faults in all, with failing file operations.
- `UploadSafe`: an upload that no fault touched, after one that no fault touched, has *arrived*: when
  its finish command closed the file of its own name, every segment was in it, once and in order.
  The ground never looks at telemetry. The one before matters: its lost finish command
  would leave FITP busy with the earlier file.
- `CleanUploadCompletes`: the same as liveness. Fairness: the ground's send loop is a plain
  loop that runs to its end (`WF` of `Send`), and a command on the link arrives
  (`WF` of `Deliver`) unless it is one of the at most `MaxFaults` lost ones.

What arrives is what FITP takes of the text (`AsText`), or the bytes of a binary file. That FITP then
*reports* the upload cannot be promised: the ground's checksum is another function (see "Other divergences"),
the length and the checksum of text with carriage returns or characters of several bytes
differ from those of what arrives, and that of a binary upload covers the hex text.
`SegmentsAssumption` says how the ground cuts a file: no segment is longer than FITP takes
(`filebrowser.py:252-270`).

### `fotp` (3,136 states)
FOTP for an operator who starts when it is idle, pauses what runs and resumes what is paused
(`AnyOrder = FALSE`); cancel, reset and restart at any time; packets refused, reads and opens
failing. A file of three blocks and one of one block, offsets inside and outside of them.
- `StateOK` joins the types with `HandleFollowsPhase` (the file is open exactly while there is
  something left to read, seen through a pause) and `ReadAheadByOne` (position, CRC and count
  differ by exactly the refused block).
- `TranscriptInOrder`: what was sent is a prefix of the start, data, finish sequence of the
  file, so that no refused packet is lost, doubled or renumbered.
- `CountedWhenComplete`: a transfer is counted exactly when that sequence is complete.
- `TransferEnds`. Fairness: the scheduler keeps requesting executes (`WF` of `Execute`), and
  a packet that is offered again and again is finally taken (`SF` of `Sending`: the software
  bus refuses packets when a pipe is full, and the pipe's reader empties it).

### `downlink` (34,747 states)
FOTP, both links and the ground receiver; three downloads, each text or binary, for an operator who
asks for the next one only when the links are quiet and FOTP is idle (`Patient = TRUE`). He may
press Cancel at any moment, twice in a run (`MaxCancels`): before the start command has arrived,
amid the packets, after the end, and with nothing going on (`filebrowser.py:492`). The links keep
order and lose nothing: what is studied here is the two threads and the leftovers of an earlier
download.
- `DownloadSafe` joins `DownloadIntact` (a file that a finish packet closed is the flight file)
  and `ThreadEndsByModeOnly`: packets that are on their way when a download is cancelled or given
  up never find the ground file closed; the only thing that can end the telemetry thread for
  this operator is a text download received in the mode of an unfinished binary one.
- `DownloadEnds`. Fairness: as for FOTP; commands and packets arrive, and `start_recv_file`
  runs on (`WF`).

Without patience `DownloadIntact` fails, as packets of one download enter the file of the
next, and a late packet may end the telemetry thread (see below).

### `scheduler` (647,856 states)
The real constants (`SLOTS = 4`, `MaxLag = 2`, `MaxSlotsPerWakeup = 5`, `MaxNoisy = 2`),
except that the search for MET slot zero gives up after 2 attempts instead of 12, and pass
and count widths are small. The environment (`scenario`) is chosen once:
- tones in any minor frame, or none, in flywheel mode or not, before or after the startup
  timer, with a coarse timer (`SYNCH_TO_MINOR`) or a fine one, the task at most one callback
  late (`Any` in `MCScheduler`);
- tones in the last slot or none, the task up to two callbacks late (`MCSteady`).

In both the timer callback runs to its end: the OSAL timer task has a higher priority than
the app's task on one processor. What happens otherwise is the finding `scheduler_race`.
- `StateOK` joins `TypeOK`, which includes that the slot stays in the table and the frame
  counter in its range, and `TimerRuns`: a timer set without an interval is set again before
  the callback ends.
- `SlotsInOrder`, two things about the steady environment, where the task sees slot numbers modulo the
  table only. `InStep`: `lead` counts slots processed minus slots begun, over all passes; after the
  task has run it is at most one to either side. Two callbacks is the most the design can take: with
  three, or with a noisy tone in addition, a lag of a whole table cannot be told from none. Runs with
  other table sizes gave `SLOTS - 2` as the bound, and the proof shows that it is the bound
  (section 4). `NoSlotLost`: a task that is fewer than `MaxLag` callbacks late never decides to jump
  over slots (`scheduler.c:356-391`), whatever it took for jitter before. `InStep` alone would
  allow it: a jump keeps the task in step and loses the activities of the slots.
- `EverySlotRuns`: no slot starves, whatever tones come at the wrong time; a noisy tone
  restarts the table, and the rule that ignores tones after `MaxNoisy` saves the last slots.
  Stated for slots counted from the tone, with a task at most one callback late: one that is
  always two late may jump over the same slot in every pass. Fairness: `SF` of
  `MinorFrameBegins` (a running timer expires; strong, because it waits while a task is
  behind), `WF` of the callback's steps and of the task.

An instance with 12 attempts and tones anywhere with a task two callbacks late (14.5 million
states) was explored for `StateOK` once and is not kept for its size.

### `tables` (412,913 states)
Two slots with one activity, three messages, fields of 3 bits, pass counter modulo 4, one of
three campaigns chosen at the start so that the state spaces add up instead of multiplying:
loads and dumps of the scheduler table; loads and entry commands of the message table;
entry, enable and reset commands with the waiting time of one entry counted. Files are good,
sparse, with a bad index or a missing attribute after a good record, with values wider than
a field and the same entry twice; every file may also be unreadable.
- `LoadAllOrNothing`, for either table (`SchLoadAllOrNothing`, `MsgLoadAllOrNothing`): a good load sets exactly the entries of the file
  (the last record of each), a bad one changes no table data.
- `DumpRestores`: a dump of the scheduler table, loaded after any history, is accepted and
  gives back the dumped table.
- `OnSchedule`: an entry nobody touched is sent every `Period` passes, across the wrap of the
  pass counter; `TablesOK`, beside the types, is `NeverOverdue`: an enabled entry never waits
  `Period` passes, also after a load, an enable or a reset. Both are about periods that divide the counter's range, as
  the powers of two of the shipped table do.

### `childmgr` (145,892 states)
The parent dispatches commands of three kinds, one too long, and resets the counters at any
time; the child takes, runs and releases them; the steps interleave at every access. Three
entries as configured (`CHILDMGR_CMD_Q_ENTRIES`), counters that wrap at three. Registration
races with the start of the child.
- `ImplementsQueue`: the ring refines `ChildQueue`: commands are run one at a time, in order,
  once each, and the entry a handler works on is not overwritten.
- `StateOK` joins the types with `NeverWokenInVain` and `TokensMatchCount`: no wakeup for nothing and no command in the queue of
  a child that sleeps, although count and semaphore are changed apart.
- `CountersExact`: the counters count the commands that returned since the last reset, except
  for a reset between load and store of an increment.
- `Progress`: while commands wait, the child begins another one or exits. Fairness: `WF` of
  the parent's call once begun and of the child's steps (both are tasks of a preemptive
  scheduler; taking a mutex is part of a step, its holder never waits for anything else). A
  failing `OS_CountSemTake` is possible but not fair.

### `histlog` (6,328,856 states)
Two bins, a table of one bin and one of two that overlap, logs of at most two samples, files of
at most two lines; the queue holds one command when resets may come at any time, two when
they are commanded while the child is idle (`quiet`). Writes, opens and reads fail, and a write
may be cut short and be counted all the same (`histogram_log.c:383`).
- `StateOK` joins the types with `OneOwnerOfHandle` (log and playback share a handle; it is open
  exactly while one of them is on, they are never both on, and the open file is the named one;
  for any reset) and `CountIsLogged` (the counter is the number of samples in the log and ends
  it at its maximum).
- `PlaybackFaithful`: a playback entry is one of the log that was started last, and as far as every line
  before it was written whole, entry `i` is the `i`-th sample logged, also after the wrap.
- `FileOfOneBin`: a sample that waited while the bin or the table changed is not logged in the
  file of another bin.

All but the types and `OneOwnerOfHandle` are for quiet resets: the other ones do harm, see below.

### `kitto` (142,416 states)
Either packet commands or playback commands, one of several `campaigns`: the two objects share no
state. Three message ids of two application ids, a packet, the tunnel it is forwarded through
and the tunnel of another instance; a pipe of two packets, at most one of each id (`BufLim = 1`), and bursts of two that fill it; table files of
two entries. In one campaign the bus may refuse a subscription, in another the EDS library a
packet. The event log holds up to three events, two are sent in a packet, so that the packets do
not fit the log evenly; the playback is started at most twice, with either of two file names.
- `StateOK` joins the types with `SubscriptionsFollowTable`: after every mix of commands and loads the subscriptions are those
  of the table (less what the bus refused), for packets removed by the id they were added with.
- `SentUnderOwnEntry`: no packet is sent or forwarded under an entry that took the place of its
  own while it was on the pipe.
- `LoopGoesOn`: the output loop ends again and again, so forwarding does not feed itself.
- `PlaybackTrue` joins `FreshLog` (what is played back was written since the latest start) and
  `NoEventSkipped` (what was sent since the load is an initial part of the log, or all of it,
  wherever in a packet the index wraps).
- `PlaybackRuns` joins `StartResolves` (a start leads to a load or is given up) and
  `PlaybackCovers` (every loaded event is sent). Fairness: `WF` of the app's loop and of EVS (tasks of their own), and `SF` of the
  housekeeping request, which the shipped scheduler table sends again and again.

### `filemgr` (724,609 states)
One command of FILE_MGR, of every kind modelled, on six paths, one of them on another file
system and one with a name too long for a listing, while another task opens one file, writes
it and closes it at any point. Opens, creations, reads, writes, renames, removals, directory reads and
rewinds, and the transmission of a packet may fail; a close does not, nor does the look at the
state of a file: `FileUtil_GetFileInfo` takes a failing `OS_stat` for a file that is not there. Packets of two entries, list files
of three. Longer sequences (two commands with one such file, one command with two) were
explored once and are not kept for their size.
- `TypeOK` includes that no handle stays open after a command.
- `DataKept` joins `MoveKeepsData` (at every moment of a move one of the two files holds all
  data) and `ReportIsTrue` (success means the target has the data, failure that the source still
  has it).
- `OpenFilesSafe`: a file that another task had open when the command looked at it is not
  truncated, overwritten or removed.
- `DirectoryTrue` joins `DeleteAllClears` (delete-all leaves nothing it could have deleted, or says so),
  `ListingComplete` (the packets of a listing name no file twice, and every file that was there all the time) and
  `ListFileHonest` (a list file whose statistics are not zero has the entries they count). That nothing is
  left or missing is promised as long as no directory read, rewind or transmission of the command
  failed (`unnoticed = {}`): the code does not look at their status (`dir.c:167`, 196, 743).
- `NearerToEnd`: every step of the child lowers a measure of what is left of its command: the steps to
  come (`Left`), the blocks not yet copied (`Unread`), the files of the directory, those of them not read
  since the last rewind (`Unseen`). A copy never runs after its own output, even of a file to itself, and
  a directory is read from the beginning again only when a file of it is gone.
- `CommandEnds`. Fairness: `WF` of the child task, as for `childmgr`. Directories change only a
  bounded number of times, which is what makes delete-all end in the code too.

Deadlock is not checked in this module: when the bounds on commands and opens are used up it
stops.

### `router` (106,149 states)
The ground's router with a browser that has both ports, a target control that commands only, a
screen that listens only, a remote client, and a second one that gives the port of the screen. A
*campaign*, one of ten, says who takes part, how
many commands each sender gives, how many datagrams of telemetry arrive, how often a tool is
launched, which care is taken and which faults happen: commands while sources are added at any time;
commands with a tool that is closed, or launched a second time, while its socket is read; telemetry
to two tools; telemetry with a remote client and a tool that comes back; the same with a client on
the tool's port; the same for a user who launches a tool again without waiting for its end
(`basecamp.py:1324` does not look); a switch to a remote target; commands and telemetry with a
`sendto` that raises an exception; with a client's datagram that is not `host,port`; with a
control datagram that is none. Two of each are enough for an order, a replacement and a leftover.
- `StateOK` joins the types with `MutexHeld` (the mutex is held for one fan-out, or for ever by a thread
  that a failing `sendto` or a bad datagram ended; without these faults nobody waits for it in
  vain while the window is open), `StopsWhenTold` (the router ends when it is told to; before that only
  for a source added inside of its loop over them, a failing `sendto`, or a control datagram it
  cannot parse), `Served` (each destination got the datagrams routed since it was listed, each once and in
  order, whatever is listed, replaced or removed meanwhile) and `OpenToolsListed` (a running tool's port is listed,
  for a patient user, for the tool or for a client that named the same port).
- `CommandsInOrder`: through the tool's socket, a replaced socket that is still read, and the three
  queues of two threads, the commands of each sender stay in order; none is lost but those a tool
  left in its socket when it was launched again, and the one at hand when a `sendto` fails, with which
  the thread ends.
- `RouterProgress`: every command is sent, a closed window ends the router's
  thread, a launch is finished, and the port of a tool that has ended is closed; unless the router has
  stopped or the mutex is kept by a thread that an exception ended. Fairness: `WF` of the router's
  thread, `SF` of the main window's steps (its loop comes by them in every round; the mutex is free between
  datagrams), and `SF` of the telemetry timeout: telemetry is assumed to pause for the length of
  the timeout again and again. Without that commands starve (see below).

Deadlock is not checked: commands, telemetry and launches are bounded, and when they are used up and the
window is closed nothing is left to do.

### The run that shows a divergence
It checks one property that states what a comment says, and TLC finds it violated by what the
code does. The quotation is in `PROJECT.json`.

| Run | What happens |
|---|---|
| `scheduler_race` | If the task runs between the increment and the rollover of the frame counter (two processors, or no priority between timer and task), the next slot leaves the table and, as the rollover tests for equality, stays outside. |

Other divergences met while modelling; the models contain the behaviour, no run is kept:

- FITP: in a binary upload the running CRC covers the hex text of the command (`fitp.c:152`),
  not the "Running CRC of file data received" (`file_xfer.xml:120`): no binary upload would verify
  if the two checksums were one function either.
- Ground: `crc_32c` complements and shifts Python's signed integers (`utils.py:52-62`), `CRC_32c` on
  board unsigned ones of 32 bits (`crc.c:53-68`), though both name the same polynomial (`utils.py:49`,
  `crc.c:51`). A file of one byte zero has 0xAD7D5351 on the ground, where a shift to the right
  brings in ones, and 0x527D5351 on board. The difference depends on the length only; computed outside
  this project for every length an upload can have, it is zero for the empty file only. FITP therefore
  reports no upload of this ground system as transferred (`fitp.c:233`), although the file is there.
- Ground: a text file is sized in bytes (`filebrowser.py:250`) and sent in characters (258-265):
  with carriage returns or characters of several bytes the length, the checksum and the file on board
  disagree, and bytes that are no utf-8 end the upload with an exception in the middle.
- FOTP: a start that is rejected because a transfer runs has switched that transfer between
  text and binary (`fotp.c:288`, 307), although "All command parameters are validated prior to
  updating and FOTP state data" (`fotp.c:299-300`).
- Ground: a packet of the last download after `start_recv_file` closed the file
  (`filebrowser.py:290`) raises an exception that nobody catches (`telemetry.py:393`, 398), and
  "_recv_tlm_handler() runs in a thread that ingests tlm messages" (`telemetry.py:151`) no more.
- KIT_SCH: an enabled entry with period zero, from a table file or within `Offset <= Period`
  (`schtbl.c:325`), divides by zero in its slot (`scheduler.c:1193`), although the code means
  to refuse it "because an invalid entry could crash the system" (`scheduler.c:191-194`).
- KIT_SCH: the command to "Load a message table entry" (`kit_sch.xml:110`) changes the copy
  that is dumped (`scheduler.c:451`), not the one that is sent (`scheduler.c:1210`).
- FITP: after a lost finish command the next upload's start is rejected and its segments go
  to, and are reported under, the earlier name (`fitp.c:366`).
- FOTP: a second pause overwrites the state to resume (`fotp.c:203`); a resume without a
  pause jumps to the state of an earlier pause and may leave the file open with state IDLE
  (`fotp.c:264`); a failed read aborts although `fotp.h:45-47` speaks of repeated attempts
  (`fotp.c:442-450`); the byte count includes skipped bytes before an offset (`fotp.c:646`).
- Ground: `recv_bin_file` is only cleared by a finish packet, so a text download after an
  unfinished binary one is decoded as hex (`filebrowser.py:282`).
- KIT_SCH: a tone in flywheel mode moves the MET slot used as the table's origin
  (`scheduler.c:1029`, against the comment at 828); a tone that interrupts the timer callback
  between its test for the last slot and `OS_TimerSet` leaves a one-shot timer and the slots
  stop (`scheduler.c:1147`); `Offset == Period` is accepted and never runs (`schtbl.c:325`);
  16-bit command values are narrowed to bytes after validation (`scheduler.c:502`); the load
  type REPLACE is ignored (`schtbl.c:275`, `msgtbl.c:241`); a rejected message table load has
  changed the messages that are sent (`msgtbl.c:419`); a dump of all 200 messages is longer
  than the 16384 characters a load reads (`msgtbl.c:246`); `schtbl.c:109-111` speaks of load
  errors for unused entries that do not occur.
- Child task manager: a child that runs before its instance is registered exits and leaves the
  semaphore valid (`childmgr.c:452`), so the parent goes on queueing to nobody, although it is
  to "Verify child task is active and queue interface is healthy" (`childmgr.c:193`); a counter
  reset between load and store of an increment is lost (`childmgr.c:365`); commands registered
  with the alternate counter are counted like the others by the child; two bytes beyond a
  message are copied (`childmgr.c:223`).
- APP_C_DEMO: a reset while the child starts a log or a playback clears counters in the middle
  of it, a reset during a playback sets `Cnt` to zero and ends it, and one after a log makes its
  playback impossible (`histogram_log.c:129`); the playback stands still while the histogram is
  off, as samples drive it; a log file is not truncated (`histogram_log.c:177`); a
  write that was cut short counts as a line (`histogram_log.c:383`), so that behind it entry `i` is
  no longer sample `i`; a dump of a
  table with fewer than five bins cannot be loaded again.
- KIT_TO: `RemovePkt` unsubscribes the commanded id and removes the entry of its application id
  (`pktmgr.c:493`), which may leave another id subscribed to; a cycle that sends nothing reads
  `SocketStatus` uninitialised and may suppress all output (`pktmgr.c:386`), and a packing
  error ends the cycle (`pktmgr.c:364`); subscriptions the bus refuses in a load are only
  reported (`pktmgr.c:815`); `Forward` of an added packet is never assigned
  (`pktmgr.c:133-186`); a dump writes `forward` as a number while a load wants "true"
  (`pkttbl.c:345`); apps that publish faster than KIT_TO sends keep it in its output loop; a
  filter by time ignores subseconds (`pktutil.c:176`). The playback may read a file that EVS has
  not finished, since KIT_TO has the higher priority; a configuration between start and load
  makes it play an old file, and its period is taken over with a bad file name too
  (`evt_plbk.c:175`).
- FILE_MGR: a concatenation opens its second source, not its target, for writing
  (`file.c:860`): the second source is emptied, the target holds the first source only, and success
  is reported. A copy of a file to itself with overwrite truncates it and reports success; a move
  to another file system removes a source another task still writes, and ignores whether the
  removal worked (`osapi-file.c:502`); a decompression does nothing and reports success
  (`file.c:296`); delete-all always reports failure, and counts files it could not delete again
  after every rewind; a failing directory read ends a listing or delete-all as if it were
  complete (`dir.c:167`, 677, 898), and a packet that is not transmitted is not missed (`dir.c:743`); listing offsets are off after names that are too long; a list of an empty
  directory is reported as failed; a file opened between the look at its state and the system
  call is lost (`file.c:186`).
- Ground router: "The router supports additional UDP command and telemetry connections"
  (`cmdtlmrouter.py:22-23`), but a source that is added while the router's loop over the sources
  runs ends its thread with a RuntimeError (`cmdtlmrouter.py:231`). After a switch to a
  remote target a source's socket is bound to the remote address when its tool is launched, which
  fails and ends the main window (`cmdtlmrouter.py:141`, 61). The request of an old tool to close
  its port, handled after the tool was launched again, removes the new one's
  (`telemetry.py:432`). Telemetry that arrives faster than the timeout keeps the router from
  commands (`cmdtlmrouter.py:241`). An address that cannot be reached, or is none, makes `sendto` raise an
  `OSError`, which `run` takes for a shutdown (`cmdtlmrouter.py:213`): the thread ends with the window open, which
  is not told, and its commands pile up. If that happens in a fan-out, or the thread that accepts clients
  gets a datagram that is not `host,port` (277-282), the mutex is kept, and the main window stands
  still when it next launches a tool (171). When one of two instances of a tool ends, it closes the
  port of both.

## 4. Proofs

Every modelled component has proofs, and every safety and action property of the passing runs is a
theorem, for every value of the constants. What the theorems assume is named:

- the `ASSUME`s on the constants of each module, as weak as the code justifies (TLC evaluates them
  in the runs);
- where a theorem says so, the care the operator takes, which the runs fix in the same way:
  `AnyOrder = FALSE` (pauses what runs, resumes what is paused) and `Patient = TRUE` (waits until
  the links are quiet);
- for KIT_SCH timing, that callbacks run to their end (`RunToEnd`) and, for
  `SlotsInOrder`, that the task is not too late (`InTime`).

Each proof has one lemma per action and rests on an inductive invariant that stands in the
component's module and that TLC checked on the run's instance first.

| Module | Component | Properties of the runs that are theorems |
|---|---|---|
| `Fitp_proofs` | FITP; uploads | `StateOK`, `Integrity`, `VerifiedFileIsFinal`, `ImplementsStore`; `UploadSafe` |
| `Fotp_proofs` | FOTP; downloads | `StateOK`, `TranscriptInOrder`, `CountedWhenComplete`; `DownloadSafe` |
| `KitSch_proofs` | KIT_SCH timing; tables | `StateOK`, `SlotsInOrder`; `TablesOK`, `LoadAllOrNothing`, `DumpRestores`, `OnSchedule` |
| `ChildMgr_proofs` | child task manager | `StateOK`, `CountersExact`, `ImplementsQueue` |
| `HistogramLog_proofs` | APP_C_DEMO | `StateOK`, `PlaybackFaithful`, `FileOfOneBin` |
| `KitTo_proofs` | KIT_TO | `StateOK`, `SentUnderOwnEntry`, `PlaybackTrue` |
| `FileMgr_proofs` | FILE_MGR | `TypeOK`, `OpenFilesSafe`, `DataKept`, `DirectoryTrue`, `NearerToEnd` |
| `CmdTlmRouter_proofs` | ground routing | `StateOK`, `CommandsInOrder` |

The provers cannot use the library's induction theorems, which take an operator as a parameter. Where a
model reads a file by recursion (`Sent` of the playback, `LoadSch` and `LoadMsg` of the
tables) the proofs argue by the least counterexample instead: a set of numbers has a least element
(`NatMin`), a recursion over the numbers up to `N` has a solution (`RecursionExists`), and the
first step at which the claim fails contradicts the step before it. That is why these definitions are
recursive functions, not folds.

### FITP

`Fitp_proofs` proves for all constants that satisfy the named assumptions of `Fitp` (blocks
have at least one byte, widths are naturals, finish commands carry sequences of units):

| Theorem | States |
|---|---|
| `TypeCorrect` | `Spec => []TypeOK` |
| `StatusCorrect` | `Spec => []StateOK`, that is, also `NoHandleLeak`, `StatusTracksFile`, `ByteCountBounded` |
| `IntegrityCorrect` | `Integrity` always |
| `FinalCorrect` | `Spec => VerifiedFileIsFinal` |
| `Refinement` | `Spec => ImplementsStore` |

All of them come from `Invariance`, `Spec => []IInv`. `Integrity` is not inductive: from a
state in which the destination of an active transfer is already reported, the next segment
would change a reported file. `IInv` therefore adds `ActiveNotReported`, which a start
establishes (it clears the report) and a finish keeps (it ends the transfer in the step in
which it reports). To see that the finish reports the right bytes one needs
`StatusTracksFile` (a text CRC equals the file, unit by unit), which needs the handle and the
type of every variable. The lemmas go one action at a time; `QuietStep` serves all actions
that touch neither a file nor its report nor the transfer's description. The action property and the
refinement then follow from `IInv` and one lemma per kind of step: a finish is `Deliver`,
a start of a known name is `Reopen`, everything else stutters.

### Uploads

`UplinkRefinesFitp` (`USpec => Spec`) says that the link only chooses which commands FITP gets: all
theorems about FITP hold of uploads. `UploadCorrect`, from `UplinkInvariance`, holds for any number of
uploads, files of any length, any text (`AsText`), any number of faults at any place of the link, and
failing file operations.

`UploadSafe` says nothing about what is still on the link, so it is not inductive. `UInv` looks along the
*line* of commands FITP has yet to see, the link and the command the ground sends next. For an
upload that no fault touched, the rank of the commands on the line (before it, its own command `i`, after
it) stays or grows by one from each command to the next (`InOneStride`); and FITP is where the
first command of the line needs it (`KeepsUp`): inactive or taken over by its start, with the
first `i` segments taken, or arrived. A duplicated command repeats a rank and is refused by FITP, a lost
or swapped one marks the uploads it belongs to as hit, and so does an upload that is broken off.

### FOTP

`StateCorrect`, `TranscriptCorrect` and `CountCorrect`, from `Invariance`, hold for files of any
length and content, any offsets and widths, and an operator who keeps the order
(`AnyOrder = FALSE`; without it they are false, see section 3). `IInv` is `StateOK`,
`TranscriptInOrder` and `PhaseOK`, which ties the number of packets sent and the next id to the position in the
file, and the flag of a last segment to the block that is held back.
`PacketFact` says that the next packet is the one the transcript has next; the rest is that a
pause keeps the phase.

### Downloads

`DownlinkRefinesFotp` (`DSpec => Spec`) and `DownloadCorrect`, from `DownlinkInvariance`, hold for any
files, any number of requests, and cancels at any moment, in text or binary, of an operator with
`AnyOrder = FALSE` and `Patient = TRUE`. `DInv` adds to FOTP's invariant what lies between the two
sides: the commands under way are cancels, and among them at most one start, while FOTP is idle
(`CommandsInOrder`); the packets under way are the last ones sent, and all that were sent are a
prefix of the transcript of the file that was asked for, in one mode (`LinkInOrder`); and the ground
file is the copy of as many blocks as the ground has received (`GroundFollows`).

### KIT_SCH timing

`StateCorrect`, from `Invariance`, holds for callbacks that run to their end (`RunToEnd`; the finding
`scheduler_race` is about the others), tables of any size, any tones and any lag.
That the timer never stops (`TimerRuns`) is not inductive: the timer is set once while a tone is
awaited, and goes on only if the callback that follows sets it again. `TimerOK` says at which place of the
callback it is bound to do so, `CountsOK` what the noise and attempt counters are there.

`InStepCorrect`, from `StepInvariance`, adds the assumption `InTime`: the task may process as many slots in
a wakeup as the count at which it jumps (`MaxLag <= MaxSlotsPerWakeup`, 2 and 5 as configured), and
where `lead` is counted it is at most `SLOTS - 2` callbacks late. The second is the exact
limit of the design and was found on the way to the proof: with `SLOTS - 1`, TLC shows `InStep` violated for
3, 4 and 5 slots. `StepInv` says, with the tone counting the slots, that the lead the task had when it last ran
is at most one to either side (`LeadOfRun`), that lead, next slot and minor frame agree modulo the table,
and that a task that is early has seen so in its last count and is not woken before
that slot begins (`Lockstep`). The lemmas `CountInStep` and `ProcessFact` then recover the number of slots to
process from two slot numbers; without the bound, two different leads have the same slot numbers.

`NoSlotLostCorrect` follows from the same invariant: by `CountInStep` a count above one is exactly what the
task is behind, which is at most the callbacks it is late plus the one slot `LeadOfRun` allows.
`SlotsInOrderCorrect` joins the two.

### KIT_SCH tables

The theorems hold for tables, fields and pass counters of any size, files of any length and any content, and
any history of loads, dumps, commands, slots, divisions by zero and restarts.

| Theorem | States |
|---|---|
| `TablesCorrect` | `TblSpec => []TablesOK`: types, and `NeverOverdue` |
| `LoadCorrect` | `TblSpec => LoadAllOrNothing` |
| `DumpCorrect` | `TblSpec => []DumpRestores` |
| `ScheduleCorrect` | `TblSpec => OnSchedule` |

- A load: `SchUpTo` and `MsgUpTo` say what the first `n` records of a file have done to the copy of the
  table; they hold for all `n` by least counterexample (`LoadSchFact`, `LoadMsgFact`).
- A dump: `EntryOfFact` says that the rows of a dump are the entries of the table, each once, so a
  load of it meets every entry at its last record (`RestoreFact`). The invariant only has to keep that
  the dump file is one of the table it was taken from (`DumpOK`).
- The schedule: `OnSchedule` and `NeverOverdue` are not inductive, as the wait of an entry says nothing
  about the pass in which it is due. `WaitOK` adds the distance to that pass: wait and distance fill less than
  a period, and after a send exactly one less than it. `DistanceFact` and `WrapFact` are the arithmetic: the distance falls by
  one in each pass and does not see the pass counter wrap if the period divides its width.

### Child task manager

`ChildMgr_proofs` proves for any number of entries, commands and counter widths:

| Theorem | States |
|---|---|
| `TypeCorrect` | `Spec => []TypeOK` |
| `TokensCorrect` | `Spec => []TokensMatchCount` |
| `WakeCorrect`, `StateCorrect` | `Spec => []NeverWokenInVain`, `Spec => []StateOK` |
| `CountersCorrect` | `Spec => []CountersExact` |
| `QueueCorrect` | `Spec => ImplementsQueue` |

All of them come from `Inductive`, `Spec => []IInv`. None of the properties is inductive: that
`count` stays below `Entries` needs that the parent looked at it before and that the child only
lowers it (`FlowOK`); that a woken child finds a command needs `TokensMatchCount`; and that the
child runs the right command needs `RingOK`, which ties the two indices together, `writeIndex`
being `readIndex` plus the entries in use plus the one written but not yet counted, and says
that all of those hold commands. `LoadedOK` says what the child's register holds in the middle
of an increment. The proof has one lemma per action; the arithmetic of the ring is in lemmas
about `Nth`. For the refinement `CountEntry` is `Accept`, `CallHandler` is `Begin`,
`HandlerReturns` is `End`, and everything else leaves the abstract queue as it is.

### APP_C_DEMO

`StateCorrect`, `PlaybackCorrect` and `FilesCorrect`, from `Invariance`, hold for any number of bins,
tables, samples, lines and commands in the queue, and for any order of commands and resets as far
as the properties themselves do (`OneOwnerOfHandle` for any resets, the others for quiet ones). `IInv` adds `LogTracked`:
the lines logged so far, up to the first cut one (`whole`), are the beginning of the named file, and the position of the handle is
the counter of the side that owns it. `ResetWaits` says that a quiet reset runs with nothing in the queue, and `FieldsOK`
what the fields of a log or playback that is off are.

### KIT_TO

`SubscriptionsCorrect`, `EntryCorrect` and `LogCorrect` (`FreshLog`), from `Invariance`, and `StateCorrect`, from
`TypeInvariance` in addition, hold for any message ids, tables, pipe depths and log sizes. The two halves, packets and playback, are proved apart: each one's steps leave
the other's variables alone. `IInv` adds `TableOK` (an entry stands at its application id),
`PipeOK` (after a command has run, what is on the pipe finds its own entry or none, as the pipe was
emptied before the command) and `LogFileOK` (while a playback is started or on, its file is absent
or was written since the start). The types are proved from `TypeInv`, which bounds the playback's indices
by the length of the loaded log (`PlbkBounds`).

`NoEventSkippedCorrect` is about a packet of any size: `Sent`, the indices of its events, is a
recursion, and `PacketFact` shows by least counterexample that each event extends what was sent before
(`CoverFact` is the step, with and without a wrap). `PlaybackCorrect` joins it with `LogCorrect`.

### FILE_MGR

`TypeCorrect`, `OpenFilesCorrect`, `DataCorrect`, `DeleteAllCorrect` and `ListingsCorrect`, from `Invariance`,
hold for any paths, volumes, commands, file lengths and packet sizes, whichever of the system calls fail and
whatever another task opens, writes and closes. `IInv` ties the system call a command stands at to the
files:

- `Placed` says which steps each command has and which files it works on there, `Named` that a file
  that is written is still there;
- `Guarded` follows the checks of a command: a file that was found closed is open only if it was
  opened since, which is all `OpenFilesSafe` allows;
- `CopyFollows` says how far a copy has come: the target is the part of the source read so far, and the
  whole of it when the source is removed. `DataKept` follows in every state in between;
- `DeleteFollows` (what is left in the directory has not been read yet, or could not be deleted),
  `ListingReads`, `SendFollows` and `ListFileFollows` (what was read is in the packets or in the list
  file exactly once) are the same for the directory commands. `DirectoryCorrect` joins `DeleteAllCorrect`
  and `ListingsCorrect`.

`NearerToEndCorrect` has one case for each step of a command. It is about the child's own steps: what another
task writes or adds between them may lengthen the rest of the command. That a copy of a file to itself does
not lengthen what it reads needs `InStride` (`StrideInvariance`): reader and writer advance together.

### Ground routing

`StateCorrect` and `OrderCorrect`, from `Inductive`, hold for any number of tools, remote clients,
commands and datagrams, in any order of launches and closures.

- For the order of commands the five places a command passes (the tool's socket, a replaced socket
  that is still read, the queue of the sources, the queue of commands, the flight side) are one long sequence `Way`.
  The lemmas `Moved`, `Foreign`, `Added`, `Dropped` and `Replaced` say what a step does to the order
  along it: a command moves from the head of one place to the end of the next, one of somebody else
  comes or goes, the sender gives a new one, the commands in a socket are dropped, or go on in the
  replaced one. `QueuesOK` says
  that what lies in a socket is its tool's, and that no place holds a command that was never given.
  A command whose `sendto` failed stands behind the sent ones (`Handed`), where it stays the last as
  the thread has ended.
- `ThreadOK` ties the places of the threads to the faults of the campaign: destinations are left to
  serve only in a fan-out, after a failing `sendto` or behind a closed window, and the thread that accepts
  clients dies of a bad datagram only; `CtrlOK` says the same of the control port.
- `SinceOK` says that no destination was listed later than the datagrams it is about to get, inside a
  fan-out too; `LaunchOK` says that between the steps of a launch, for a patient user, no request to close the
  tool's port is left.

### What is only model-checked

- All liveness, as fairness and `ENABLED` are out of the prover's reach: `CleanUploadCompletes`,
  `TransferEnds`, `DownloadEnds`, `EverySlotRuns`, `Progress`, `LoopGoesOn`, `PlaybackRuns`,
  `CommandEnds`, `RouterProgress`. For `CommandEnds` the measure is proved (`NearerToEnd`), and for
  `PlaybackRuns` that no event is passed over (`NoEventSkipped`), so that the fairness argument is what
  rests on TLC.
- What the code does outside of the assumptions above: other orders of pause and resume, an impatient
  operator, callbacks that are interrupted. The properties are false there (section 3).

## 5. Not modelled, and why

- cFE, OSAL, PSP and the EDS tools beyond the functions named in section 2: the platform; its
  calls succeed or fail as the apps allow. It is NASA's code and most of the repository's lines.
- Initialisation failures, no-op commands, event texts, housekeeping output: no state of
  interest, or wording. A failing `OS_BinSemTake`, whose error the KIT_SCH main loop
  overwrites (`kit_sch_app.c:120`), is listed as a hazard without a model.
- Message lengths and data words; JSON syntax (a file is readable or not).
- KIT_TO: packet statistics, the table dump, the EDS data type test packets, quality of service.
- APP_C_DEMO: bin counts and their telemetry; the content of table files.
- FILE_MGR: creating and deleting a directory, permissions, file information with a CRC, and the
  volume table. Each is one system call, or a report.
- Framework state reporter: no app of the repository uses it. Command manager: a table lookup and a
  counter within one task. Table manager: one task, its effect is part of the loads of `SchTables`.
- Ground routing: how a command is made from the EDS database, and the removal of a command source, which
  nobody calls.
- User interface, project generation, MQTT bridge, performance monitor: input and output.

## 6. Plan

Done: everything in section 2, and the proof of every safety and action property of the runs. What
is left:

1. Safety halves of more liveness properties as theorems, as `NearerToEnd` is one of `CommandEnds`: what
   cannot block (`Progress`, `RouterProgress`), and a measure that falls with each packet sent
   (`TransferEnds`).
2. An abstract specification of the scheduler (each slot once per pass, in order) that `Scheduler`
   implements in step, and its composition with `SchTables`.
3. `CmdMgr` and `TblMgr` as modules of their own, should an app use them from two tasks.
