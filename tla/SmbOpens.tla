----------------------------- MODULE SmbOpens ------------------------------
(***************************************************************************)
(* SmbOpens: the open files of the SMB server.  A handle table, a table of *)
(* byte-range locks and a queue of deferred CLOSEs are shared by all the   *)
(* connections; everything runs on one task, so a handler is one step,     *)
(* except LOCK, whose elements are handled one after another.              *)
(*                                                                         *)
(* A file has an identity of its own (a number), which the server does not *)
(* see: it knows a file by the path its handle was opened with, and a lock *)
(* by a hash of that path (no collisions here).                            *)
(*                                                                         *)
(* The READs and WRITEs that wait for the Z80 are only as present as these *)
(* handlers look at them: which handles have some, and whose window is     *)
(* active.  Directories, pipes and the root are left out, and so is the    *)
(* data of the files.                                                      *)
(***************************************************************************)
EXTENDS Integers, FiniteSets

CONSTANTS
  Path,       (* names in the one directory modelled                        *)
  Conn,       (* connections; an ownerId is never used twice                *)
  Slot,       (* indices of handles[]                                       *)
  LockSlot,   (* indices of byteRangeLocks[], in the order of the table     *)
  Byte,       (* byte offsets of a file                                     *)
  IoDepth,    (* bound: handles with READs or WRITEs at a time              *)
  MaxOpens,   (* bound: handles ever opened                                 *)
  MaxFiles    (* bound: files ever created                                  *)

ASSUME OpensAssumption ==
  /\ 0 \notin Slot
  /\ LockSlot \subseteq Nat /\ IsFiniteSet(LockSlot)
  /\ MaxOpens \in Nat /\ MaxFiles \in Nat /\ IoDepth \in Nat
  /\ Byte \subseteq Nat /\ IsFiniteSet(Path)

VARIABLES
  disk,        (* the file at each path, 0 for none                         *)
  files,       (* files created so far                                      *)
  snapshot,    (* directoryCache of the directory: its names, or NoSnapshot *)
  waiting,     (* slots of the asynchronous READs and WRITEs                *)
  window,      (* slot of the one whose window is active, or NoSlot         *)
  conn,        (* connections, by what cleanupClient() has done             *)
  handles,     (* handles[], Free where unused                              *)
  opens,       (* generationCounter                                         *)
  closes,      (* asyncCloses[]                                             *)
  locks,       (* byteRangeLocks[], Free where unused                       *)
  locker       (* the LOCK request being handled, or NoLocker               *)

diskVars == <<disk, files, snapshot>>
tableVars == <<handles, opens, closes>>
ioVars == <<waiting, window>>
vars == <<diskVars, ioVars, conn, tableVars, locks, locker>>

NoFile == 0
NoSlot == 0
Free == [used |-> FALSE]
NoSnapshot == [names |-> {}, valid |-> FALSE]
NoLocker == [slot |-> NoSlot, unlock |-> FALSE, added |-> {}, before |-> <<>>]

Dispositions == {"open", "create", "openIf", "overwrite", "overwriteIf"}
Overwrites == {"overwrite", "overwriteIf"}
MakesNew == {"create", "openIf", "overwriteIf"}

Used == {s \in Slot : handles[s].used}
UsedLocks == {l \in LockSlot : locks[l].used}
Idle == locker = NoLocker

-----------------------------------------------------------------------------
Init ==
  /\ \E names \in SUBSET Path :
       /\ disk \in [Path -> 0 .. Cardinality(Path)]
       /\ names = {p \in Path : disk[p] # NoFile}
       /\ \A p, q \in names : disk[p] = disk[q] => p = q
       /\ files = Cardinality(names)
       /\ \A p \in names : disk[p] <= files
  /\ snapshot = NoSnapshot
  /\ waiting = {} /\ window = NoSlot
  /\ conn = [c \in Conn |-> "live"]
  /\ handles = [s \in Slot |-> Free]
  /\ opens = 0 /\ closes = {}
  /\ locks = [l \in LockSlot |-> Free]
  /\ locker = NoLocker

-----------------------------------------------------------------------------
(* What a handler asks of the tables.                                      *)

(* findHandle(): the slot is in use, by the connection that asks. *)
Found(c, s) == conn[c] = "live" /\ s \in Used /\ handles[s].conn = c

OpenOn(p) == {s \in Used : handles[s].path = p}

Owns(s, l) == locks[l].slot = s /\ locks[l].gen = handles[s].gen

(* releaseByteRangeLocksForHandle() for the handles of a set.  Variant: the
   locks stay (LocksHaveOwner). *)
KeptLocks(gone) == locks
WithoutLocksOf(gone) ==
  [l \in LockSlot |->
     IF locks[l].used /\ \E s \in gone : Owns(s, l) THEN Free ELSE locks[l]]

(* statPath(): an open handle or a snapshot of the directory knows; while
   READs or WRITEs wait the answer is "not-found", and so is a STAT that the
   Z80 did not answer.  Variant: open handles are not asked
   (SharedNeverTruncated). *)
AskDisk(p) ==
  IF snapshot.valid
    THEN {p \in snapshot.names}
    ELSE IF waiting # {} THEN {FALSE} ELSE {disk[p] # NoFile, FALSE}
StatPath(p) == IF OpenOn(p) # {} THEN {TRUE} ELSE AskDisk(p)

(* createEmptyFile(), whether it reports success or not: closeActive() stands
   in its way while a window is active; the Z80 creates or replaces the file,
   and may then fail to commit it. *)
CreateEmptyFile(p, ok) ==
  \/ /\ window = NoSlot /\ files < MaxFiles
     /\ files' = files + 1
     /\ disk' = [disk EXCEPT ![p] = files + 1]
     /\ snapshot' = IF ok THEN NoSnapshot ELSE snapshot
  \/ ~ok /\ UNCHANGED diskVars

(* allocateHandle() and what CREATE puts into the handle. *)
Allocate(c, p, made, doomed) ==
  /\ opens < MaxOpens
  /\ \/ \E s \in Slot \ Used :
          /\ opens' = opens + 1
          /\ handles' = [handles EXCEPT ![s] =
               [used |-> TRUE, conn |-> c, gen |-> opens + 1, path |-> p,
                file |-> disk'[p], made |-> made, deletePending |-> doomed]]
     \/ Slot \ Used = {} /\ UNCHANGED <<handles, opens>>

-----------------------------------------------------------------------------
(* createHandler() for a file: what exists is opened, or replaced when no
   handle is open on its path; what does not exist is created. *)
CreateOpened(c, p, disposition, doomed) ==
  /\ TRUE \in StatPath(p)
  /\ disposition \in {"open", "openIf"}
  /\ UNCHANGED diskVars
  /\ Allocate(c, p, "opened", doomed)

(* Variant: handles on the same path do not stop it (SharedNeverTruncated). *)
SharingIgnored(p) == FALSE
SharingViolation(p) == OpenOn(p) # {}

CreateReplaced(c, p, disposition, doomed) ==
  /\ TRUE \in StatPath(p)
  /\ disposition \in Overwrites
  /\ ~SharingViolation(p)
  /\ \/ CreateEmptyFile(p, TRUE) /\ Allocate(c, p, "created", doomed)
     \/ CreateEmptyFile(p, FALSE) /\ UNCHANGED <<handles, opens>>

CreateMade(c, p, disposition, doomed) ==
  /\ FALSE \in StatPath(p)
  /\ disposition \in MakesNew
  /\ \/ CreateEmptyFile(p, TRUE) /\ Allocate(c, p, "created", doomed)
     \/ CreateEmptyFile(p, FALSE) /\ UNCHANGED <<handles, opens>>

Create(c, p, disposition, doomed) ==
  /\ Idle /\ conn[c] = "live"
  /\ \/ CreateOpened(c, p, disposition, doomed)
     \/ CreateReplaced(c, p, disposition, doomed)
     \/ CreateMade(c, p, disposition, doomed)
  /\ UNCHANGED <<ioVars, conn, closes, locks, locker>>

(* QUERY_DIRECTORY has read the whole directory. *)
LoadSnapshot ==
  /\ Idle /\ window = NoSlot /\ ~snapshot.valid
  /\ snapshot' = [names |-> {p \in Path : disk[p] # NoFile}, valid |-> TRUE]
  /\ UNCHANGED <<disk, files, ioVars, conn, tableVars, locks, locker>>

(* SET_INFO, FILE_DISPOSITION_INFORMATION. *)
SetDisposition(c, s, doomed) ==
  /\ Idle /\ Found(c, s) /\ handles[s].deletePending # doomed
  /\ handles' = [handles EXCEPT ![s].deletePending = doomed]
  /\ UNCHANGED <<diskVars, ioVars, conn, opens, closes, locks, locker>>

(* SET_INFO, FILE_RENAME_INFORMATION: the file moves and only the handle that
   asked learns its new path, unless the answer of the Z80 is lost. *)
Rename(c, s, target, replace, answered) ==
  /\ Idle /\ Found(c, s) /\ window = NoSlot
  /\ handles[s].path # target
  /\ disk[handles[s].path] # NoFile
  /\ disk[target] = NoFile \/ replace
  /\ disk' = [disk EXCEPT ![target] = disk[handles[s].path],
                          ![handles[s].path] = NoFile]
  /\ IF answered
       THEN /\ snapshot' = NoSnapshot
            /\ handles' = [handles EXCEPT ![s].path = target]
       ELSE UNCHANGED <<snapshot, handles>>
  /\ UNCHANGED <<files, ioVars, conn, opens, closes, locks, locker>>

-----------------------------------------------------------------------------
(* The end of a handle.                                                    *)

SlotsOf(c) == {s \in Used : handles[s].conn = c}

(* removePath() of the paths of a set of handles: not while a window is active;
   each may fail, and may have been carried out all the same. *)
Remove(doomed) ==
  \E removed \in SUBSET {handles[s].path : s \in doomed}, answered \in BOOLEAN :
    /\ window' # NoSlot => removed = {}
    /\ disk' = [p \in Path |-> IF p \in removed THEN NoFile ELSE disk[p]]
    /\ snapshot' = IF removed # {} /\ answered THEN NoSnapshot ELSE snapshot
    /\ UNCHANGED files

(* releaseHandle() and its equals in the cleanup of a tree or a connection. *)
Release(gone) ==
  /\ handles' = [s \in Slot |-> IF s \in gone THEN Free ELSE handles[s]]
  /\ locks' = WithoutLocksOf(gone)
  /\ UNCHANGED opens

(* A new file whose WRITE has failed goes with its handle, and so does what was
   marked for deletion. *)
Doomed(gone) ==
  {s \in gone : handles[s].deletePending \/ handles[s].made = "spoiled"}

(* finalizeClose() and releaseTreeHandles(): the WRITEs of the handles are
   carried out first and may fail; the READs `stale` outlive their handle, and
   somebody else's window may be active in the end. *)
Finalize(gone, stale) ==
  /\ waiting' = (waiting \ gone) \union stale
  /\ window' \in IF waiting \intersect gone = {} THEN {window}
                   ELSE {NoSlot} \union (waiting \ gone)
  /\ \E failed \in SUBSET {s \in gone \intersect waiting :
                             handles[s].made = "created"} :
       Remove(Doomed(gone) \union failed)
  /\ Release(gone)

(* releaseClientHandles(): only what was marked for deletion is removed. *)
ReleaseClient(c) ==
  /\ Remove({s \in SlotsOf(c) : handles[s].deletePending})
  /\ Release(SlotsOf(c))

(* closeHandler(): a CLOSE that needs the card waits behind what occupies it.
   Which handle the card is open for is not modelled, so any CLOSE may. *)
NeedsCard(s) ==
  \/ s \in waiting \/ Doomed({s}) # {}
  \/ \E q \in closes : q.slot = s /\ q.gen = handles[s].gen

Close(c, s) ==
  LET busy == waiting # {} \/ closes # {}
  IN  /\ Idle /\ Found(c, s)
      /\ \/ /\ ~(busy /\ NeedsCard(s))
            /\ Finalize({s}, {})
            /\ UNCHANGED closes
         \/ /\ busy
            /\ closes' = closes \union
                 {[conn |-> c, slot |-> s, gen |-> handles[s].gen]}
            /\ UNCHANGED <<diskVars, ioVars, handles, opens, locks>>
      /\ UNCHANGED <<conn, locker>>

(* pollAsyncClose(), right after the CLOSE or later: the handle may be gone by
   then, and its slot in use again.  Variant: only the slot is looked at
   (StaleCloseHarmless). *)
SlotOnly(q) == q.slot \in Used
StillOpen(q) ==
  q.slot \in Used /\ handles[q.slot].gen = q.gen /\ handles[q.slot].conn = q.conn

ServeClose(q) ==
  /\ Idle /\ window = NoSlot /\ q \in closes
  /\ closes' = closes \ {q}
  /\ IF StillOpen(q)
       THEN \E stale \in SUBSET (waiting \intersect {q.slot}) :
              Finalize({q.slot}, stale)
       ELSE UNCHANGED <<diskVars, ioVars, handles, opens, locks>>
  /\ UNCHANGED <<conn, locker>>

(* CANCEL of a deferred CLOSE: the handle stays open. *)
CancelClose(q) ==
  /\ Idle /\ q \in closes
  /\ closes' = closes \ {q}
  /\ UNCHANGED <<diskVars, ioVars, conn, handles, opens, locks, locker>>

(* releaseTreeHandles(): the deferred CLOSEs stay in their queue. *)
TreeDisconnect(c) ==
  /\ Idle /\ conn[c] = "live" /\ SlotsOf(c) # {}
  /\ Finalize(SlotsOf(c), {})
  /\ UNCHANGED <<conn, closes, locker>>

(* logoffHandler(): READs, WRITEs and deferred CLOSEs stay in their queues. *)
Logoff(c) ==
  /\ Idle /\ conn[c] = "live" /\ SlotsOf(c) # {}
  /\ UNCHANGED <<ioVars, conn, closes, locker>>
  /\ ReleaseClient(c)

(* cleanupClient(): the deferred CLOSEs go, and the READs that have not begun.
   While READs or WRITEs are left the handles stay, without a connection. *)
Disconnect(c) ==
  /\ Idle /\ conn[c] = "live"
  /\ closes' = {q \in closes : q.conn # c}
  /\ \E kept \in SUBSET (waiting \intersect SlotsOf(c)) :
       /\ window \in SlotsOf(c) => window \in kept
       /\ waiting' = (waiting \ SlotsOf(c)) \union kept
       /\ UNCHANGED window
       /\ IF kept # {}
            THEN /\ conn' = [conn EXCEPT ![c] = "detached"]
                 /\ UNCHANGED <<diskVars, handles, opens, locks>>
            ELSE /\ conn' = [conn EXCEPT ![c] = "gone"]
                 /\ ReleaseClient(c)
  /\ UNCHANGED locker

-----------------------------------------------------------------------------
(* READ and WRITE.  A request of a handle waits, and becomes the active one;
   after each window the channel is free, and the request may wait again. *)
QueueIo(c, s) ==
  /\ Idle /\ Found(c, s) /\ Cardinality(waiting \ {s}) < IoDepth
  /\ waiting' = waiting \union {s}
  /\ UNCHANGED <<diskVars, window, conn, tableVars, locks, locker>>

StartWindow(s) ==
  /\ Idle /\ window = NoSlot /\ s \in waiting
  /\ window' = s
  /\ UNCHANGED <<diskVars, waiting, conn, tableVars, locks, locker>>

(* releaseDetachedOwnerIfIdle(), after a request is over; a WRITE that fails
   for good marks the handle otherwise. *)
IoOver(s, failed) ==
  LET c == handles[s].conn
      last == /\ s \in Used /\ conn[c] = "detached"
              /\ waiting' \intersect SlotsOf(c) = {}
  IN  IF last
        THEN conn' = [conn EXCEPT ![c] = "gone"] /\ ReleaseClient(c)
        ELSE /\ handles' = IF failed /\ s \in Used /\ handles[s].made = "created"
                             THEN [handles EXCEPT ![s].made = "spoiled"]
                             ELSE handles
             /\ UNCHANGED <<diskVars, conn, opens, locks>>

EndWindow(over, failed) ==
  /\ Idle /\ window # NoSlot
  /\ window' = NoSlot
  /\ waiting' = IF over THEN waiting \ {window} ELSE waiting
  /\ IoOver(window, failed)
  /\ UNCHANGED <<closes, locker>>

(* A request is cancelled, or its handle is gone, before its next window. *)
DropIo(s) ==
  /\ Idle /\ s \in waiting \ {window}
  /\ waiting' = waiting \ {s}
  /\ UNCHANGED window
  /\ IoOver(s, FALSE)
  /\ UNCHANGED <<closes, locker>>

-----------------------------------------------------------------------------
(* LOCK.                                                                   *)

(* lockRangeConflicts(): a new exclusive lock conflicts with every lock it
   overlaps, a shared one only with an exclusive lock of another open.
   Variant: an exclusive lock is only compared with exclusive ones
   (LocksExclude). *)
ConflictsExclusive(s, range, exclusive) ==
  \E l \in UsedLocks :
    /\ locks[l].path = handles[s].path
    /\ locks[l].range \intersect range # {}
    /\ locks[l].exclusive /\ (~Owns(s, l) \/ exclusive)

Conflicts(s, range, exclusive) ==
  \E l \in UsedLocks :
    /\ locks[l].path = handles[s].path
    /\ locks[l].range \intersect range # {}
    /\ \/ exclusive
       \/ locks[l].exclusive /\ ~Owns(s, l)

LockBegin(c, s, unlock) ==
  /\ Idle /\ Found(c, s)
  /\ locker' = [slot |-> s, unlock |-> unlock, added |-> {},
                before |-> IF unlock THEN <<>> ELSE locks]
  /\ UNCHANGED <<diskVars, ioVars, conn, tableVars, locks>>

(* The first free entry, if there is one.  Variant: that the table may be full
   is not looked at (TypeOK). *)
FirstFreeUnchecked ==
  IF UsedLocks = LockSlot THEN {Cardinality(LockSlot) + 1}
    ELSE {l \in LockSlot \ UsedLocks :
            \A k \in LockSlot \ UsedLocks : l <= k}
FirstFree == {l \in LockSlot \ UsedLocks :
                \A k \in LockSlot \ UsedLocks : l <= k}

LockElement(range, exclusive) ==
  /\ ~Idle /\ ~locker.unlock
  /\ ~Conflicts(locker.slot, range, exclusive)
  /\ \E l \in FirstFree :
       /\ locks' = [locks EXCEPT ![l] =
            [used |-> TRUE, exclusive |-> exclusive, slot |-> locker.slot,
             gen |-> handles[locker.slot].gen,
             path |-> handles[locker.slot].path, range |-> range]]
       /\ locker' = [locker EXCEPT !.added = @ \union {l}]
  /\ UNCHANGED <<diskVars, ioVars, conn, tableVars>>

(* STATUS_LOCK_NOT_GRANTED: the ranges this request has added are taken back.
   Variant: all but the last (RefusedLockUndone). *)
RollbackShort(added) ==
  [l \in LockSlot |-> IF l \in added /\ \E k \in added : l < k
                        THEN Free ELSE locks[l]]
Rollback(added) ==
  [l \in LockSlot |-> IF l \in added THEN Free ELSE locks[l]]

LockRefused(range, exclusive) ==
  /\ ~Idle /\ ~locker.unlock
  /\ Conflicts(locker.slot, range, exclusive)
  /\ locks' = Rollback(locker.added)
  /\ locker' = NoLocker
  /\ UNCHANGED <<diskVars, ioVars, conn, tableVars>>

(* Among equal ranges of the same open the first exclusive lock goes first,
   else the last shared one. *)
UnlockElement(range) ==
  /\ ~Idle /\ locker.unlock
  /\ LET same == {l \in UsedLocks :
                    /\ locks[l].path = handles[locker.slot].path
                    /\ Owns(locker.slot, l)
                    /\ locks[l].range = range}
         exclusive == {l \in same : locks[l].exclusive}
     IN  \E l \in same :
           /\ IF exclusive # {}
                THEN l \in exclusive /\ \A k \in exclusive : l <= k
                ELSE \A k \in same : k <= l
           /\ locks' = [locks EXCEPT ![l] = Free]
  /\ UNCHANGED <<diskVars, ioVars, conn, tableVars, locker>>

(* The request ends: after its last element, or at one that is malformed, that
   finds the table full, or that unlocks what is not locked.  What came before
   stays done. *)
LockEnd ==
  /\ ~Idle
  /\ locker' = NoLocker
  /\ UNCHANGED <<diskVars, ioVars, conn, tableVars, locks>>

-----------------------------------------------------------------------------
Ranges == {r \in SUBSET Byte : \A a, b \in r : a .. b \subseteq r}

Next ==
  \/ \E c \in Conn, p \in Path, d \in Dispositions, doomed \in BOOLEAN :
       Create(c, p, d, doomed)
  \/ LoadSnapshot
  \/ \E c \in Conn, s \in Slot, doomed \in BOOLEAN : SetDisposition(c, s, doomed)
  \/ \E c \in Conn, s \in Slot, p \in Path, replace, answered \in BOOLEAN :
       Rename(c, s, p, replace, answered)
  \/ \E c \in Conn, s \in Slot : Close(c, s)
  \/ \E q \in closes : ServeClose(q)
  \/ \E q \in closes : CancelClose(q)
  \/ \E c \in Conn : TreeDisconnect(c)
  \/ \E c \in Conn : Logoff(c)
  \/ \E c \in Conn : Disconnect(c)
  \/ \E c \in Conn, s \in Slot : QueueIo(c, s)
  \/ \E s \in Slot : StartWindow(s)
  \/ \E over, failed \in BOOLEAN : EndWindow(over, failed)
  \/ \E s \in Slot : DropIo(s)
  \/ \E c \in Conn, s \in Slot, unlock \in BOOLEAN : LockBegin(c, s, unlock)
  \/ \E range \in Ranges, exclusive \in BOOLEAN : LockElement(range, exclusive)
  \/ \E range \in Ranges, exclusive \in BOOLEAN : LockRefused(range, exclusive)
  \/ \E range \in Ranges : UnlockElement(range)
  \/ LockEnd

Spec == Init /\ [][Next]_vars

-----------------------------------------------------------------------------
Handle == [used : {TRUE}, conn : Conn, gen : Nat, path : Path, file : Nat,
           made : {"opened", "created", "spoiled"}, deletePending : BOOLEAN]
Lock == [used : {TRUE}, exclusive : BOOLEAN, slot : Slot, gen : Nat,
         path : Path, range : Ranges]

DiskOK ==
  /\ disk \in [Path -> Nat] /\ files \in Nat
  /\ snapshot \in [names : SUBSET Path, valid : BOOLEAN]
IoOK == waiting \subseteq Slot /\ window \in waiting \union {NoSlot}
TableOK ==
  /\ conn \in [Conn -> {"live", "detached", "gone"}]
  /\ handles \in [Slot -> Handle \union {Free}]
  /\ opens \in Nat
  /\ closes \subseteq [conn : Conn, slot : Slot, gen : Nat]
LocksOK == locks \in [LockSlot -> Lock \union {Free}]
LockerOK ==
  \/ Idle
  \/ /\ locker \in [slot : Used, unlock : BOOLEAN, added : SUBSET UsedLocks,
                    before : [LockSlot -> Lock \union {Free}] \union {<<>>}]
     /\ locker.unlock => locker.added = {}

(* Types, and that the window, the LOCK in progress and the ranges it has
   added refer to things that exist. *)
TypeOK == DiskOK /\ IoOK /\ TableOK /\ LocksOK /\ LockerOK

(* No lock outlives its open: neither the end of a connection, deferred or
   not, nor the reuse of a slot leaves a range locked for ever. *)
LocksHaveOwner ==
  \A l \in UsedLocks :
    locks[l].slot \in Used /\ handles[locks[l].slot].gen = locks[l].gen

(* Two locks on one path that overlap, one of them exclusive, belong to the
   same open, and are not both exclusive. *)
LocksExclude ==
  \A k, l \in UsedLocks :
    (/\ k # l /\ locks[k].exclusive
     /\ locks[k].path = locks[l].path
     /\ locks[k].range \intersect locks[l].range # {})
    => /\ locks[k].slot = locks[l].slot /\ locks[k].gen = locks[l].gen
       /\ ~locks[l].exclusive

(* A LOCK request that is not granted leaves the table as it found it. *)
RefusedLockUndone ==
  [][(locker' # locker /\ \E range \in Ranges, exclusive \in BOOLEAN :
                             LockRefused(range, exclusive))
      => locks' = locker.before]_vars

(* A deferred CLOSE never closes the open that has taken its slot since. *)
StaleCloseHarmless ==
  [][\A q \in closes :
       (/\ handles' # handles /\ handles'[q.slot] # handles[q.slot]
        /\ ServeClose(q))
       => handles[q.slot].gen = q.gen]_vars

(* A file is not replaced by a new one while a handle is open on its path. *)
SharedNeverTruncated ==
  [][files' # files =>
       \A p \in Path : OpenOn(p) # {} => disk'[p] \in 0 .. files]_vars

(* "A busy channel no longer becomes a refusal: statPath answers from memory or
   waits until it is free" (comment at smb_server.cpp:8380): so while READs or
   WRITEs wait, a CREATE that does not ask for an overwrite leaves a file that
   exists alone. *)
CreateKeepsFile ==
  [][\A p \in Path :
       (/\ waiting # {} /\ files' # files
        /\ disk[p] # NoFile /\ disk'[p] # disk[p])
       => \A c \in Conn, doomed \in BOOLEAN, d \in Dispositions \ Overwrites :
            ~Create(c, p, d, doomed)]_vars

(* "A shared lock allows reading but forbids writing to every open, its owner
   included" (comment at smb_server.cpp:2380). *)
WriteConflicts(s, range) ==
  \E l \in UsedLocks :
    /\ locks[l].path = handles[s].path
    /\ locks[l].range \intersect range # {}
    /\ locks[l].exclusive => ~Owns(s, l)

SharedLockStopsWrites ==
  Idle => \A l \in UsedLocks, s \in Used :
    (/\ ~locks[l].exclusive /\ locks[l].range # {}
     /\ locks[l].slot \in Used
     /\ handles[locks[l].slot].file = handles[s].file)
    => WriteConflicts(s, locks[l].range)
=============================================================================
