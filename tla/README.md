# ZiFi-ESP32-S3-Zero: a TLA+ model of the firmware

The repository is the firmware of an ESP32-S3 that gives a ZX Evolution (TS-Conf,
a Z80) a network: an SMB2/3 server, an FTP server and an updater for the SD card
of the Z80 machine, HTTP/TLS, NTP, weather and an OTA update of its own. The SD
card belongs to the Z80: everything the ESP32 does with a file goes as frames
over a UART, and the Z80 plugin on the other end does the work.

This directory holds the specifications of the parts of the firmware in which the
order of things matters, the TLC configurations that check them, and proofs of
their safety properties. `PROJECT.json` lists the components, the runs, which
source lines each definition stands for, the hazards, and the theorems.

## The system

| component | source | state | operations |
|---|---|---|---|
| SpscByteRing | `spsc_ring.cpp` | storage, two 32-bit positions, high-water mark | write, peekAt, discard, read, freeSpace, available, reset |
| VfsBridge | `vfs_bridge.cpp` | one shared Exchange, two one-slot queues, `requestPending_`, two rings, `writeSession_` | submit*, takeResult, reclaim on core 0; pollCore1 and processCore1 on core 1 |
| VfsClient | `vfs_client.cpp` | open mode, capabilities, sticky write error, sequence numbers, volume cache | one call per VFS command of the Z80 |
| UartTransport, FrameParser | `uart_transport.cpp`, `protocol.cpp` | parser state, last byte time | feed, waitFor, send |
| SmbServer | `smb_server.cpp` | clients, 8 handles, 32 byte-range locks, queues of READs, WRITEs and CLOSEs, directory snapshots | one handler per SMB2 command, pollers for the queues, a task |
| FtpServer | `ftp_server.cpp` | sessions, data sockets, the owner of the bridge | one handler per command, RETR/STOR pumps |
| WcUpdater, WcUpdateService | `wc_updater.cpp`, `wc_update_service.cpp` | list of files, progress; a task, a queue of two commands | check, apply, sync, stop |
| ConfigStore | `config_store.cpp` | three files in LittleFS, the CRC of the last text | begin, load, saveIfChanged |
| FatAllocationCache, DirectoryCache | `fat_allocation_cache.cpp`, `directory_cache.cpp` | counts of free clusters, snapshots | prepare, ingestMap, noteResize; load, invalidate |
| Application | `main.cpp` | which service runs, request, response and event queues | the two loops, one handler per UART command |
| OTA, online update | `ota_server.cpp`, `online_updater.cpp`, `ota_image.cpp` | partition, progress | receive, commit, confirm |
| small services | `net_client.cpp`, `ws_discovery*.cpp`, `weather_*.cpp`, `ntp_*.cpp`, `fat_time.cpp`, `config.cpp`, `github_tree.cpp`, `git_sha1.cpp`, `diagnostic_log.cpp` | little | one request at a time |

How they interact:

- **Core 1** runs `loopTask` alone. It owns the UART and the VfsClient: it polls
  the bridge, forwards responses and events to the Z80, and takes frames from it.
- **Core 0** runs the network task (requests of the Z80, discovery, OTA or FTP),
  the SMB task and the Wild Commander updater task. They all reach the SD card
  through the one VfsBridge. `main.cpp` is to run one of SMB, FTP and OTA at a
  time; nothing in the bridge itself separates two users.
- Request and answer pass through one shared record without a lock; a token in a
  queue of length one hands it over and another hands it back. File data goes
  beside it through the two rings, which both cores use while a request runs.
- A request may time out on either side. A caller that gave up leaves
  `requestPending_` set and takes the answer later (`reclaim()`); core 1 always
  ends a request, because every wait in VfsClient has a time-out.
- The SMB server runs on one task: handlers, pollers and cleanups never overlap,
  but a request that needs the card is queued and served many handlers later,
  when its handle, its connection or its file may have changed.

What is hard in it: two cores in a ring without locks, and counters that wrap;
time-outs that say nothing of what the other side did; answers that arrive after
their request was given up; deferred requests that outlive what they refer to;
files known to the server only by their path, while renames and overwrites go on;
power failing between the steps of a replacement. What has to be true of each
component:

- *SpscByteRing*: a FIFO that loses, repeats and reorders nothing; what a side
  was told of room or contents stays true until it acts on it.
- *VfsBridge*: the record has one owner at a time; an answer belongs to the last
  request; a file reported as committed has every byte; every request is answered.
- *SmbServer*: a file is not replaced under an open handle; locks exclude, end
  with their open, and a refused LOCK leaves no trace; a late CLOSE touches only
  the open it was sent for; a disposition that keeps a file keeps it.
- *ConfigStore*: after a reset anywhere the old or the new text is loaded; what
  is reported is what the next start finds.
- *WcUpdater*: after a power failure anywhere an old or a new file is there; what
  is reported per file is true; the task ends when told to.
- *Application*: two services never use the bridge at once; an answer belongs to its
  request; a service told to stop ends, and what it uses is not deleted before.
- *SmbServer, its queues*: every request is answered once, truly, and in the end; a
  result on the card is taken by the request that asked for it; FLUSH and CLOSE do
  not overtake WRITEs; a lost connection leaves nothing behind.
- *UART*: an answer is taken for the request it belongs to; a lost frame is noticed.
- *Caches*: what they say agrees with the card, or they say nothing.
- *FtpServer*: a truncated upload is not committed; one command owns the bridge and
  gives it back; a queued line belongs to the client that sent it.

`PROJECT.json` lists under "hazards" the lines at which these bite.

## Modules

| module | models | checked by | proved in |
|---|---|---|---|
| `ByteFifo` | what a ring promises | (refined by SpscRing) | |
| `SpscRing` | SpscByteRing, one access to shared memory per step | `MCSpscRing` | `VfsBridgeProofs` |
| `VfsBridge` | VfsBridge, and VfsClient as far as it decides its outcomes | `MCVfsBridge` | `VfsBridgeProofs` |
| `SmbOpens` | handles, locks and deferred CLOSEs of the SMB server | `MCSmbOpens` | `SmbOpensProofs` |
| `ConfigStore` | ConfigStore | `MCConfigStore` | `ConfigStoreProofs` |
| `WcUpdate` | WcUpdater: the check and the replacement of files | `MCWcUpdate` | `WcUpdateProofs` |
| `SmbQueue` | the queues of waiting SMB requests and their polls, time-outs and cancellation | itself | `SmbQueueProofs` |
| `FtpSessions` | FtpServer: its sessions, transfers and waits | `MCFtpSessions` | `FtpSessionsProofs` |
| `UartLink` | the requests of VfsClient and the Z80's answers, over UartTransport | itself | `UartLinkProofs` |
| `Services` | the request path of Application, the start and stop of every service, WcUpdateService, the SMB task | `MCServices` | `ServicesProofs` |

### SpscRing

A step is at most one access to memory the other core also uses: a call is
`WriteMeasure` (the load of the read position), `WriteCopy` per byte, `WritePublish`
(the store of the write position), `WriteMark`; reading is cut the same way. The
release/acquire pairs make a copied byte visible no later than the position
published after it, so that interleaving these steps covers what the build can do.
Positions wrap at `Modulus` and bytes live at `position % Capacity`, as in the
code. `FreeSpace` and `Available` record what a side was told; `RoomIsReal` and
`AvailIsReal` say that it stays true whatever the other core does meanwhile, which
is what `VfsBridge` relies on. The ring refines `ByteFifo`: the queue is the bytes
between the two positions, a write happens when the position is published.
`reset()` is only called while neither side is inside, which is the contract of
its callers.

Run `spsc_ring`: capacity 2, counters modulo 8, calls of up to 3 bytes. Every
capacity is passed, both the slot index and the counters wrap several times, and a
call can be longer than the ring.

### VfsBridge

Core 0 is `Submit` (filling the record), `SubmitSend`, `TakeToken`, `TakeCopy`, and
`Feed` and `Drain` on the rings at any time; core 1 is `Receive`, one action per
operation, `Post`. A read or write is cut into its frames and windows, since the
other core uses the ring between them. A ring is its fill level (`SpscRing` shows
that this is enough). What the Z80 answers is a choice. `accepted` and `stored`
count the bytes the ring took and the bytes the Z80 stored in this session. A window
whose acknowledgement is lost has been stored or has not: its bytes are still in the
ring, and only the sticky error (`FailureSticks`) keeps them from being sent twice.

Assumed of the callers, from the comment at `kResetBuffers` and from how they are
written: who asks for a reset keeps out of the rings until the answer, and a
session being closed is no longer fed (`MayFeed`, `MayDrain`). Within one service
this is how the code waits; that there is one service at a time is the business of
`Services`. That an acknowledged window is on the card is the Z80's business.

Run `vfs_bridge`: rings of 3 bytes, windows of 2, sizes up to 3, at most 4 bytes
per session. A write takes several windows, a ring can be fuller and emptier than a
window, and a session can outgrow the ring. Fairness: weak fairness of core 1
(a task of its own on a core of its own, all of whose waits end), of `SubmitSend`
and of `TakeCopy` (the second half of a call that has begun). Nothing is assumed of
whether core 0 ever calls, takes an answer or reads a ring; `EveryRequestAnswered`
holds all the same.

### SmbOpens

A handler is one step, except LOCK, whose elements are handled in a loop
(`LockBegin`, `LockElement`, `LockRefused`, `UnlockElement`, `LockEnd`) and must be
seen in the middle to say what a refusal undoes. A file has an identity the server
does not see, so that a rename or a replacement can be told from the file it
concerns. READs and WRITEs are only which handles have some (`waiting`) and whose
window is on its way (`window`): the handlers here ask nothing else of them. What
the Z80 answers, and whether the answer arrives, is a choice.

Runs: `smb_opens` has two connections, two names, two slots, two opens, two
files and no locks; `smb_locks` one name, two opens, two entries in the lock table,
two bytes and no READs or WRITEs. With two opens a slot is reused, an open meets a
deferred CLOSE of its predecessor, and two opens meet on a file; with two lock
entries a request of two ranges is refused at the second, and the table is full in
the middle of one. `MaxOpens`, `MaxFiles` and `IoDepth` bound what would grow without
end; a connection that is gone does not come back (an ownerId is never reused).
Behaviours therefore end, and deadlock is not checked. Names, slots and connections
are symmetric.

`docs/PROTOCOL.md:517` says that CREATE makes no empty file; `createHandler()`
calls `createEmptyFile()`, and so does `CreateEmptyFile`. When CREATE has made the
file and then finds no free handle, the file stays (`Allocate`).

### ConfigStore

`saveIfChanged()` is one action per operation on LittleFS, so that `Reset` may come
between any two; with `Fails` each may also fail. A failed mount formats the
partition, as `begin(true)` does, which loses the text; nothing after it claims
otherwise. `held` and `main` remember what was loadable and what `zifi.cfg` held
when the save began. Each LittleFS operation is atomic, as its documentation
promises; a write that reports its full length is taken for complete, because
`flush()` and `close()` report nothing and LittleFS is not in the repository.

Run `config_store`: three texts, all failures. A save that finds `zifi.cfg` valid
is all or nothing, and its report is true. After a save that fails without a `zifi.cfg`, the remembered checksum
and the files differ, so that saving the old text again reports "unchanged";
`CacheIsMain` says exactly when the two agree.

### WcUpdate

One folder of the card. `Check` is `check()`: what the listing has seen, what the
hashes said, and whether a leftover of an earlier session was found. `Apply` enters
`updateFile()`, whose body is one action per operation on the card, so that
`Restart` (the power fails, or the session ends) and `RequestStop` may come between
any two. `pc` names the operation that comes next. The content of a file is what
the properties tell apart: none, old, what GitHub has, anything else ("torn").
`had` remembers which files were there, and whole, in the beginning.

The card is outside the firmware. The model lets it do what the comments in
`vfsReplace` and `renameReplace` expect of it: an operation is refused, fails half
done, or is carried out and its answer is lost (a time-out of `awaitVfs`); a listing
or a STAT overlooks what is there (`Misses`); a hash says "read error" or "other" of
a good file; a MOVE that fails may leave both names on one chain (`twin`), so that
deleting the copy tears the file; a RENAME that fails may have removed the entry
(`losses`). Two things are taken for granted, as the code does: no operation
replaces a name that exists unless told to (OPEN for writing, RENAME, MOVE without
REPLACE), and a read never yields the SHA-1 of what is not there. `MaxLosses` is at
most one: with two lost entries in one replacement (the copy's, then the one of
WCUPD.OLD) there is nothing the updater could do.

Run `wc_update`: a replaceable and a protected file, two rounds and two attempts
(kWriteAttempts is three; the third differs from the second in nothing), with and
without FILEX MOVE. `CopySurvives` and `NameSurvives` say what a failure anywhere
leaves on the card, `SameIsNew` that the list shown to the user is true,
`KeptUntouched` that `wc.ini` is never replaced even when nothing on the card
admits that it exists, `QuietWhenInDoubt` that writing stops once an outcome is
unknown. The status "failed" is weaker than its comment (`wc_updater.hpp:34`, "the
previous file is whole"): when the file was replaced and could not be read back,
and the second download fails or the user stops, the file fails although the new
one is in place.

The updater is one task and nothing obliges it to go on (the user may stop it, the
network may be gone), so the module states no liveness.

### Services

Core 1 is `Submit` and `TakeAnswer`; the record `exchange_` between the cores is
`command` and `answer`, and its two queues of one token `requestToken` and
`responseToken`. The network task is `Receive`, one action per step of a handler, and
`Answer`. A handler is a record that names, for each of its steps, the step that
follows (`ProcessFtpStart` and so on, one per request that starts or stops anything;
`ProcessNet` stands for NET_OPEN, NET_HTTP_GET and NET_PING, which stop FTP in the
same order). The steps themselves are shared: stopping FTP or SMB or the session is
the same code whoever calls it. The SMB task and the task of the session go on
between any two steps: all tasks of core 0 have one priority, and every wait in a
handler lets them run. A wait with a limit (3 s for the SMB task, 5 s for its
listener, 20 s for the session) may end either way while what it waits for has not
happened. `SmbServer::stop()` reads `taskAlive`, stores it in `runningFlag` and reads
it again for its result (`AwaitSmb`, `FlagSmb`, `ResultSmb`), since the task may end
between any two of these. What the session's task does to the card is `WcUpdate`.
`Reboot` may come at any time: SYS_RESET, the end of an OTA update, a panic.

Left out: the events for the display, the Wi-Fi connection, requests that start and
stop nothing, failures of `xTaskCreate` other than as a refusal, and discovery, which
lives in the network task and follows the SMB server.

Run `services`: every kind of request, in any order, with the queue of two that the
code has; nothing else bounds it. `OneBridgeUser` is what `VfsBridge` takes for
granted of its callers. `ApplyOnce` says that a list of files accepted by WCU_APPLY is
on its way exactly once, from the acceptance through the queue to its end, and that
`applying_` says so; `SessionOutlivesTask` that nothing is deleted under the task,
also when a stop has waited in vain. `StopEnds` is a liveness property: STOP may find
the queue full, and the flag then ends the session. Fairness: the network task and
the session's task get their share of core 0 (one priority, time slices), and their
steps end, because every wait in them has a limit; nothing is assumed of the Z80, of
core 1 or of the SMB task.

Two more things the model shows and the documents say otherwise or not at all.
`docs/PROTOCOL.md:254` has WCU_APPLY accepted only while the task waits for a command;
`apply()` also accepts it during the check, and it is carried out afterwards.
UPDATE_START and the online update stop FTP and SMB but not the session, which goes on
writing to the card until the restart cuts it off: `OneBridgeUser` therefore says
nothing of OTA beside a session, and `CopySurvives` of `WcUpdate` covers what the
restart leaves.

### SmbQueue

READ, WRITE, QUERY_DIRECTORY, CREATE of a directory, CLOSE, FLUSH and SET_EOF are
answered later: `readHandler` and the others put them into tables, and every pass of
`serviceHandler()` polls the tables. One physical exchange runs at a time. `req` is
all the tables by sequence number, `active` the one `activeAsync...` index that is
set, `bridge` the exchange. `Due` is `nextAsyncVfsServiceSequence()`: after an
exchange the oldest request of another owner, else the oldest, except that a client
that has just got a directory entry keeps the card for 750 ms (`cont`). The polls
are steps of their own in any order (only the one whose turn it is does anything,
so their order in the code is immaterial); core 1's answer, the clients and the
time-outs come between. `TakeRead` and the other `Take...` are the part of a poll
after `takeResult()`, `Start...` the part that begins. A WRITE that has failed is
answered at once, and its slot stays until the window is back and CLOSE_ABORT has
been carried out (`Recover`). TREE_DISCONNECT waits inside its handler and polls
nothing but READs, then nothing but WRITEs (`task`).

Abstracted: an owner is a connection with one tree, one file and one directory; a
READ or WRITE is a number of windows; contents, offsets, sizes and names are left
out; the RESET before an OPEN is part of the OPEN; directory handles are not closed;
interim PENDING answers and credits change no queue. `Polite` lets a client send
LOGOFF only when nothing of it is waiting, and TREE_DISCONNECT only without a FLUSH
or SET_EOF: what happens otherwise is told below.

Run `smb_queue`: two owners, all seven kinds, two requests of any kind
(`MaxMixed`), or three when they are WRITEs and FLUSHes and nobody leaves or cancels
(`Trio`, `MaxRequests`), so that the
rotation passes between a WRITE and its FLUSH; READs and WRITEs of one or two
windows; one cancellation or departure (`MaxTroubles`), while time-outs and failing
exchanges are not bounded. `OneTrueAnswer`: one answer each, SUCCESS only when
every window was moved. `ResultIsOwn`: the exchange under way belongs to the request
that will take its result. `BarrierHolds`: FLUSH and CLOSE after the WRITEs before
them. `FilesFreed`: a lost connection's file is released with its last request.
`Served`: every request leaves the queues; since finitely many are sent, that is
"the queues are empty again and again". Fairness is weak fairness of each poll
(serviceHandler calls them all in every pass), of core 1 (`EveryRequestAnswered` of
`VfsBridge`) and of the two waits that time ends; nothing is assumed of clients.
`Served` excepts two things the code really does: two readers stop each other (run
`smb_readers`), and a QUERY_DIRECTORY or CREATE that is cancelled while it waits is
skipped by `Due` and answered by nobody until its client disconnects.

With `Polite = FALSE` TLC finds two more ways to stop the server: a LOGOFF while a
WRITE waits (its handle is gone, `findReadyAsyncWrite()` skips it, and its sequence
number stays due for ever), and a LOGOFF or TREE_DISCONNECT while a FLUSH or SET_EOF
has its exchange on the card (`pollAsyncClose()` ends the request without taking the
result, and the bridge stays taken: `ResultIsOwn` fails). And while a
TREE_DISCONNECT waits for its WRITEs, an exchange of another kind that is active or
due is not polled: no WRITE is started, and after 90 s `failAsyncWrites()` fails the
WRITEs of every client, although `smb_server.cpp:3709` speaks of finishing the
accepted ones. Also, `readHandler()` refuses a READ while any client's WRITE waits,
and a lost connection takes back the cancellation of a WRITE (`cleanupClient()`
resets `cancelRequested`), which is then written.

### FtpSessions

All sessions live in the network task, but a command that uses the card waits in
`awaitVfs()`, and from inside that wait `serviceSessions()` accepts connections and
carries out commands of the other sessions. `stack` holds the commands under way,
`owner` is `vfsOwner_`; a command that needs the card while another has it is put
into the session's one queued line (`Dispatch`, `MustWait`) and run later by
`RunPending`. `Prefetch` and `Carry` are what a transfer does between and during its
requests. A file is a sequence of chunks marked with the command that moved them.

Run `ftp_sessions`: two sessions (of the three), two connections in their lives, two
commands on the card, files of up to two chunks, rings of two. `CommandOwnsCard`,
`QueueIsOwn`, `RetrOwnBytes` and `PublishedIsReceived` are what nesting, a dropped
session and a time-out could break; `CardIsReleased` is the liveness property, under
weak fairness of the two tasks: a wait ends with an answer or its time. Nothing is
assumed of peers or the card. Run `ftp_stor` is a violation (Findings).

What else the model shows: a client that is accepted into the slot of a dropped STOR
gets that command's last answer and is dropped with it; after a time-out every request
is refused as "bridge-busy" until another service reclaims the bridge, where
`docs/PROTOCOL.md:133` has the commands of all sessions carried out one after the
other; and the queued line of one session can wait for ever while two others keep the
card busy (`runPendingCommand()` always takes the least index), which needs three
sessions and is not checked.

### UartLink

One request of `VfsClient` at a time (`AskOpen` and the other `Ask...`), the frames
of both directions, and the Z80 that answers in order. An answer is matched by its
command byte; windows carry a sequence number, offsets and a CRC as well. Each frame
carries the request it belongs to (`of`), which the program cannot see and the
properties compare. The line loses frames; a damaged frame fails its checksum and is
lost. An answer of a command in `Slow` may come after its wait has ended, and then
meets the next request; `late` keeps the commands this has happened to.

The frames of a batch of a directory are entries (status 0), which carry no number,
and one with another status: 2 when the batch is full and the directory goes on, any
other when it has ended. An error of the Z80 has such a status too and is taken for
the end (`docs/PROTOCOL.md:239-240`), and so is a "more" without an entry; a frame
too short for an entry, an entry too many or a time-out is a failure (`TakeEntry`).
After a failure the SMB server answers with the names it has and asks for the next
batch without an OPENDIR (`smb_server.cpp:7843-7857`): `dir` is then "failed", and
`AskBatch` goes on. The Z80 without batches, which sends an entry per request, is left
out.

Run `uart_link`: five requests, windows and batches of two frames, two commands given
up too early, one lost frame. `WindowOwn` and `AckedIsWritten` hold although sequence
numbers start again with every OPEN, because every caller closes a file after a failure
and CLOSE is waited for 180 s: `Slow` leaves "close" out, and the proofs assume that.
With it, after OPEN, READ and CLOSE have all timed out, a window of the earlier open is
taken for one of the later. `ListingIsWhole` speaks of a batch taken for complete in a
directory on which nothing has failed. Its entries are those of its own request, also
when frames were lost and earlier batches come late, since an OPENDIR lies between them
and answers come in order; only an OPENDIR given up before its answer breaks that. On a
line that loses nothing and is in time it is the very batch the Z80 ended, and the
directory is over only if the Z80 said so: an exchange that breaks off is not an end. A
lost entry goes unnoticed, so no more is said of a line that loses frames. A late answer
to STAT, OPEN or OPENDIR is taken for the answer to the next one; no document says
otherwise. `RequestEnds` under weak fairness of the wait, its time-out and the Z80's
steps.

## Findings

Two disagreements between the code and its comments are among the runs:

- `smb_readers`: two clients that each read more than one window. After a window
  the first gives way to the second (`Due` counts queued READs), whose READ is in the
  list because one READ at a time has a slot, and cannot be promoted because the
  first still has it. Nothing is active, so the watchdog sees nothing.
- `ftp_stor`: when the control connection fails at the 150 answer, the server closes
  the data socket itself and takes that for the end of the upload: what has arrived
  is committed and reported as complete.

Five more have a .cfg and a property of their own, to be run by hand (the property
is violated):

- `SmbOpensCreate.cfg` (module `MCSmbOpens`, `CreateKeepsFile`): while READs or
  WRITEs wait, `statPath()` (`smb_server.cpp:4507`) answers "not-found" for a path
  that no handle and no snapshot knows, and CREATE then replaces a file that it
  should keep. The comment at 8380 says that it waits or answers from memory.
- `SmbOpensShared.cfg` (`MCSmbOpens`, `SharedLockStopsWrites`): a lock is keyed by
  the path of the handle that took it; after a rename through that handle a shared
  lock no longer stops writes (comment at `smb_server.cpp:2380`).
- `ConfigStoreResets.cfg` (`MCConfigStore`, `ReplaceSurvivesReset`): without any
  failure, but when a reset has left the only text in `zifi.new`, the next save
  begins by deleting it, against the comment at `config_store.cpp:154` that the
  replacement survives a reset at any point.
- `ServicesFtpServed.cfg` (`MCServices`, `FtpServed`): when the three seconds of
  `SmbServer::stop()` run out while the SMB task is ending, `runningFlag` stays set
  without a task, FTP starts, and the network task never serves it.
- `UartLinkResumed.cfg` (`UartLink`, `ResumedIsWhole`): a directory the SMB server
  reads on after a READDIR that timed out (5 s, `vfs_client.cpp:19`, before the 10 s of
  its own watchdog). The entries of the late batch are discarded between requests, its
  status "more" meets the next READDIR, is an empty batch there, and ends the directory:
  the listing is cut short and reported as complete, while the comments have no name
  lost (`smb_server.cpp:7844-7845`) and a failed exchange is to be no end, or the
  listing would be cut off in silence (`vfs_client.cpp:250-251`, `docs/PROTOCOL.md:443`).

## Proofs

| theorem | says | rests on |
|---|---|---|
| `RingTypes`, `RingNoSlotRace`, `RingPromises` | the invariants of SpscRing, for every capacity dividing the counters' range | `RingInv`: a call in progress has measured no more than is free or filled now; modular arithmetic lemmas, since the positions wrap |
| `RingIsFifo` | SpscRing implements ByteFifo (`RefinesFifo`), for every capacity, counter width and argument | the same, and `CopyInv`: what the producer has copied so far is in its slots, what the consumer has copied is still in its own. The queue of ByteFifo is `Contents`, the bytes between the positions; the step that stores a position maps to the put or the take, every other step to a stutter |
| `BridgeInvariant` and its corollaries | the safety properties of VfsBridge, for all sizes and bounds | `BridgeInv`: `TokenInv` (exactly one token while a request is pending), `AnswerInv`, `TransferInv` (what was measured is still there), `LedgerInv` (a byte accepted is in the ring or stored, and not both unless a window has failed, which sticks) |
| `LocksInvariant` and its corollaries, `SharedSafe`, `StaleHarmless` | the lock table and the two action properties of SmbOpens, for any number of connections, slots, names, locks and bytes | types, `LocksHaveOwner`, `LocksExclude` and the state of the LOCK in progress together; generations grow, so a slot's new open is never the old one |
| `StoreInvariant` and its corollaries | all properties of ConfigStore, with failures | `StoreInv`: only `zifi.new` is ever incomplete, and a save that found `zifi.cfg` valid has its text under that name or as `zifi.bak` until its own takes its place |
| `UpdateInvariant` and its corollaries, `UpdateKeeps`, `UpdateQuiet` | all properties of WcUpdate, for any number of files, rounds and attempts | `UpdateInv`: the copy is only begun when its name was free, so the card is whole without it (`OwnInv`); where the two RENAMEs stand (`RenameInv`); where doubt is possible (`DoubtInv`) |
| `ServicesInvariant` and its corollaries, `ServicesApplyOnce` | all safety properties of Services, for any choice of requests and any size of the queue | `ServicesInv`: each request is at a step of its own handler, what that handler has stopped so far is stopped (`OrderInv`), and the tasks' flags are right (`TaskInv`); for `ApplyOnce` that the places an APPLY can be in are followed one by one |
| `FtpInvariant` and its corollaries | all safety properties of FtpSessions that hold, for any number of sessions and any sizes | `FtpInv`: who is where in a session (`SessionInv`), the one command and its claim on the bridge (`StackInv`), what holds at each place of a STOR, a RETR or an MFMT (`PhaseInv`), and, after a STOR has given up waiting, that its commit still finds the whole upload (`CommitInv`) |
| `QueueInvariant`, `QueueOneTrueAnswer`, `QueueBarrierHolds`, `QueueFilesFreed`, `QueueResultIsOwn` | the four safety properties of SmbQueue, for any number of connections, requests and windows, any depth of the queue and any number of cancellations and departures | `QueueInv`: what one request may be, by kind, place and phase (`RequestOK`); that the exchange is the active request's (`ActiveOK`, `BridgeOK`), and a WRITE in recovery is the active one (`RecoveryIsActive`); windows moved and windows left make up the request (`CountOK`); a FLUSH under way has every WRITE before it settled (`PassingOK`); what a lost connection leaves (`LostOK`, `FilesFreed`) and what a polite client does not take away (`ValidOK`, `TaskOK`). `QueueResultIsOwn` alone assumes `Polite` |
| `UartInvariant`, `UartWindowOwn`, `UartAcked` | two invariants of UartLink, for any number of requests, late answers and lost frames | `UartInv`: the frames on the line are in the order of the requests and an answer that ends its request is its last frame (`OrderInv`), so that the answer taken last leaves the line empty; nothing of an earlier CLOSE, of an earlier window of a usable file or, while no OPENDIR was given up, of an earlier batch of a directory on which nothing has failed is on it (`TimelyInv`). Assumes `CloseInTime`: "close" is not in `Slow` |
| `UartListing` | the invariant `ListingIsWhole`, for batches of any size; assumes `CloseInTime` | `BatchInv`, that is `UartInv`; that what has been taken of a batch is of its own request (`BatchOwn`); and `ListingInv`: while no frame is lost and nothing late, all that is on the line belongs to the request waited for, its frames continue what has been taken without a gap (`OwnLine`), and a status on it stands for a batch the Z80 has ended. `ListingInv` itself does not need `CloseInTime` |

The assumptions are those on the constants, named in each module; the theorems about
the invariants of `UartLink` add `CloseInTime`, without which TLC finds `WindowOwn` and `AckedIsWritten` violated, and
`QueueResultIsOwn` adds `Polite` for the same reason: without it `QueueInv` says how
far the exchange may then be from its request (`LeftBehind`), and the other three
properties hold all the same. A step of SmbQueue is proved to keep `QueueInv` through
what it does to each request by itself (`Follows`: it stays, waits on or ends) and to
the card (`CardOK`); `Onward` puts the two together. Each
invariant was checked with TLC before it was proved; the ones in the table are
inductive only as strengthened.

`SpscRing!AvailIsReal` and `HighWaterCovers`, `VfsBridge!ReadFits`,
`ConfigStore!FailureKeepsOld` and the type invariants of these modules were
checked with TLC while they were proved and are no longer asked for in the .cfg
files: the theorems hold for every instance.

Every safety property of a passing run is a theorem, the refinement and the action
properties included. Only model-checked are the liveness properties
`EveryRequestAnswered`, `StopEnds`, `CardIsReleased`, `RequestEnds` and `Served`,
which are out of reach of the prover. No theorem is an induction over data:
`RingIsFifo` compares the two queues element by element instead.

## Plan

Left, in this order:

1. Interim PENDING answers and credits of the SMB server; CHANGE_NOTIFY; the budget
   of the directory snapshots.
2. The search of `FrameParser` for the next header.
3. Reception, commit and rollback of an OTA image.

## Not modelled

- `FatAllocationCache` and `VfsClient::noteFileResized`: nothing in `src/` asks for
  the exact free space (`kGetFsInfo` with 1) or submits `kNoteResize`, so that the
  map is never built and the sizes are never counted outside the host tests,
  although `vfs_client.hpp:183` says the volume information stays exact by them. In
  the same way `removePath()` (`smb_server.cpp:4545`) computes the size it has
  released and uses it for nothing.
- `libsmb2` (vendored, more than half of the lines of code here), and with it SMB signing,
  NTLM and compound requests.
- `ws_discovery_xml`, `weather_parse`, `github_tree`, `git_sha1`, `config`,
  `ntp_time`, `fat_time`: pure functions the host tests cover.
- `net_client` (a thin layer over a library, one connection used by one task),
  discovery (stateless answers), the diagnostic log.
- The Z80 programs, the other end of the UART: the models let them answer, refuse or
  stay silent.
