-------------------------- MODULE SmbOpensProofs ---------------------------
(***************************************************************************)
(* That the table of byte-range locks is sound, for any number of          *)
(* connections, names, slots, locks and bytes.  The two invariants need    *)
(* nothing but the types to be inductive; what has to be seen is that a    *)
(* handle in use keeps its generation until it is released, and that its   *)
(* locks go with it.                                                       *)
(***************************************************************************)
EXTENDS SmbOpens, FiniteSetTheorems, TLAPS

(* An entry in use is not Free. *)
LEMMA UsedEntries ==
  /\ TableOK => \A s \in Used : s \in Slot /\ handles[s] \in Handle
  /\ LocksOK => \A l \in UsedLocks : l \in LockSlot /\ locks[l] \in Lock
BY DEF TableOK, LocksOK, Used, UsedLocks, Free

-----------------------------------------------------------------------------
(* What the parts of the handlers do to the types.                         *)

(* Removing files leaves the disk a disk. *)
LEMMA RemoveTyped ==
  ASSUME DiskOK, NEW doomed, Remove(doomed)
  PROVE  DiskOK'
<1>1. NoSnapshot \in [names : SUBSET Path, valid : BOOLEAN]
  BY DEF NoSnapshot
<1>2. PICK removed \in SUBSET {handles[s].path : s \in doomed},
           answered \in BOOLEAN :
        /\ disk' = [p \in Path |-> IF p \in removed THEN NoFile ELSE disk[p]]
        /\ snapshot' = IF removed # {} /\ answered THEN NoSnapshot ELSE snapshot
        /\ files' = files
  BY DEF Remove
<1>3. disk' \in [Path -> Nat]
  BY <1>2 DEF DiskOK, NoFile
<1>4. snapshot' \in [names : SUBSET Path, valid : BOOLEAN]
  BY <1>1, <1>2 DEF DiskOK
<1> QED
  BY <1>2, <1>3, <1>4 DEF DiskOK

(* So does creating one. *)
LEMMA CreateTyped ==
  ASSUME DiskOK, NEW p \in Path, NEW ok \in BOOLEAN, CreateEmptyFile(p, ok)
  PROVE  DiskOK'
<1>1. NoSnapshot \in [names : SUBSET Path, valid : BOOLEAN]
  BY DEF NoSnapshot
<1>2. CASE UNCHANGED diskVars
  BY <1>2 DEF diskVars, DiskOK
<1>3. CASE /\ files' = files + 1
           /\ disk' = [disk EXCEPT ![p] = files + 1]
           /\ snapshot' = IF ok THEN NoSnapshot ELSE snapshot
  BY <1>1, <1>3 DEF DiskOK
<1> QED
  BY <1>2, <1>3 DEF CreateEmptyFile

(* Releasing handles leaves the tables tables. *)
LEMMA ReleaseTyped ==
  ASSUME TableOK, LocksOK, NEW gone, Release(gone)
  PROVE  /\ handles' \in [Slot -> Handle \union {Free}] /\ opens' \in Nat
         /\ LocksOK'
BY DEF TableOK, LocksOK, Release, WithoutLocksOf

(* A new handle. *)
LEMMA AllocateTyped ==
  ASSUME TableOK, DiskOK', NEW c \in Conn, NEW p \in Path,
         NEW made \in {"opened", "created"}, NEW doomed \in BOOLEAN,
         Allocate(c, p, made, doomed)
  PROVE  handles' \in [Slot -> Handle \union {Free}] /\ opens' \in Nat
<1>1. CASE UNCHANGED <<handles, opens>>
  BY <1>1 DEF TableOK
<1>2. CASE \E s \in Slot \ Used :
             /\ opens' = opens + 1
             /\ handles' = [handles EXCEPT ![s] =
                  [used |-> TRUE, conn |-> c, gen |-> opens + 1, path |-> p,
                   file |-> disk'[p], made |-> made, deletePending |-> doomed]]
  <2>1. disk'[p] \in Nat /\ opens + 1 \in Nat
    BY DEF DiskOK, TableOK
  <2>2. [used |-> TRUE, conn |-> c, gen |-> opens + 1, path |-> p,
         file |-> disk'[p], made |-> made, deletePending |-> doomed] \in Handle
    BY <2>1 DEF Handle
  <2> QED
    BY <1>2, <2>1, <2>2 DEF TableOK
<1> QED
  BY <1>1, <1>2 DEF Allocate

-----------------------------------------------------------------------------
(* What they do to the locks.                                              *)

(* The handles in use stay in use, with their generations. *)
HandlesKept ==
  \A s \in Used : s \in Used' /\ handles'[s].gen = handles[s].gen

(* While that is so and no lock changes, locks keep their owners. *)
LEMMA OwnersKept ==
  ASSUME LocksHaveOwner, LocksExclude, HandlesKept, UNCHANGED locks
  PROVE  LocksHaveOwner' /\ LocksExclude'
<1>1. UsedLocks' = UsedLocks
  BY DEF UsedLocks
<1>2. LocksHaveOwner'
  BY <1>1 DEF LocksHaveOwner, HandlesKept
<1>3. LocksExclude'
  BY <1>1 DEF LocksExclude
<1> QED
  BY <1>2, <1>3

(* Fewer locks exclude each other all the more. *)
LEMMA Thinned ==
  ASSUME LocksExclude,
         \A l \in LockSlot : locks'[l] = locks[l] \/ locks'[l] = Free
  PROVE  /\ \A l \in UsedLocks' : l \in UsedLocks /\ locks'[l] = locks[l]
         /\ LocksExclude'
<1>1. \A l \in UsedLocks' : l \in UsedLocks /\ locks'[l] = locks[l]
  BY DEF UsedLocks, Free
<1>2. LocksExclude'
  BY <1>1 DEF LocksExclude
<1> QED
  BY <1>1, <1>2

(* The locks of a released handle go with it: the rest have their owners. *)
LEMMA ReleaseSound ==
  ASSUME TableOK, LocksOK, LocksHaveOwner, LocksExclude,
         NEW gone, Release(gone)
  PROVE  LocksHaveOwner' /\ LocksExclude'
<1>1. \A l \in LockSlot : locks'[l] = locks[l] \/ locks'[l] = Free
  BY DEF Release, WithoutLocksOf
<1>2. LocksExclude' /\ \A l \in UsedLocks' : l \in UsedLocks /\ locks'[l] = locks[l]
  BY <1>1, Thinned
<1>3. ASSUME NEW l \in UsedLocks'
      PROVE  /\ locks'[l].slot \in Used'
             /\ handles'[locks'[l].slot].gen = locks'[l].gen
  <2>1. /\ l \in UsedLocks /\ locks'[l] = locks[l] /\ l \in LockSlot
        /\ locks[l].used /\ locks[l].slot \in Used /\ locks[l].slot \in Slot
        /\ handles[locks[l].slot].gen = locks[l].gen
    BY <1>2, <1>3, UsedEntries DEF LocksHaveOwner, UsedLocks
  <2>2. locks'[l].used
    BY <1>3 DEF UsedLocks
  <2>3. locks[l].slot \notin gone
    <3>1. SUFFICES ASSUME locks[l].slot \in gone PROVE FALSE
      OBVIOUS
    <3>2. Owns(locks[l].slot, l)
      BY <2>1 DEF Owns
    <3>3. locks'[l] = Free
      BY <2>1, <3>1, <3>2 DEF Release, WithoutLocksOf
    <3> QED
      BY <2>2, <3>3 DEF Free
  <2>4. handles'[locks[l].slot] = handles[locks[l].slot]
    BY <2>1, <2>3 DEF Release
  <2> QED
    BY <2>1, <2>4 DEF Used
<1> QED
  BY <1>2, <1>3 DEF LocksHaveOwner

-----------------------------------------------------------------------------
LockInv == TypeOK /\ LocksHaveOwner /\ LocksExclude

(* Handlers outside LOCK leave no request behind. *)
LEMMA NoLock == ASSUME Idle, UNCHANGED locker PROVE LockerOK'
BY DEF Idle, LockerOK

LEMMA InitInv == Init => LockInv
<1> SUFFICES ASSUME Init PROVE LockInv
  OBVIOUS
<1>1. DiskOK
  <2>1. PICK names \in SUBSET Path :
          /\ disk \in [Path -> 0 .. Cardinality(Path)]
          /\ files = Cardinality(names)
    BY DEF Init
  <2>2. files \in Nat /\ Cardinality(Path) \in Nat
    BY <2>1, OpensAssumption, FS_Subset, FS_CardinalityType
  <2>3. snapshot \in [names : SUBSET Path, valid : BOOLEAN]
    BY DEF Init, NoSnapshot
  <2>4. disk \in [Path -> Nat]
    BY <2>1, <2>2
  <2> QED
    BY <2>2, <2>3, <2>4 DEF DiskOK
<1>2. IoOK /\ TableOK /\ LocksOK
  BY DEF Init, IoOK, TableOK, LocksOK
<1>3. LockerOK
  BY DEF Init, LockerOK, Idle
<1>4. LocksHaveOwner /\ LocksExclude
  BY DEF Init, LocksHaveOwner, LocksExclude, UsedLocks, Free
<1> QED
  BY <1>1, <1>2, <1>3, <1>4 DEF LockInv, TypeOK

(* allocateHandle() takes a slot that is not in use. *)
LEMMA AllocateKeeps ==
  ASSUME TableOK, NEW c, NEW p, NEW made, NEW doomed,
         Allocate(c, p, made, doomed)
  PROVE  HandlesKept
BY DEF Allocate, HandlesKept, Used, TableOK

LEMMA CreateInv ==
  ASSUME LockInv, NEW c \in Conn, NEW p \in Path, NEW d, NEW doomed \in BOOLEAN,
         Create(c, p, d, doomed)
  PROVE  LockInv'
<1>1. TableOK /\ LocksOK /\ IoOK /\ DiskOK /\ Idle /\ LocksHaveOwner /\ LocksExclude
  BY DEF LockInv, TypeOK, Create
<1>2. DiskOK'
  <2>1. CASE CreateOpened(c, p, d, doomed)
    BY <1>1, <2>1 DEF CreateOpened, DiskOK, diskVars
  <2>2. CASE CreateReplaced(c, p, d, doomed)
    BY <1>1, <2>2, CreateTyped DEF CreateReplaced
  <2>3. CASE CreateMade(c, p, d, doomed)
    BY <1>1, <2>3, CreateTyped DEF CreateMade
  <2> QED
    BY <2>1, <2>2, <2>3 DEF Create
<1>3. \/ \E made \in {"opened", "created"} : Allocate(c, p, made, doomed)
      \/ UNCHANGED <<handles, opens>>
  BY DEF Create, CreateOpened, CreateReplaced, CreateMade
<1>4. handles' \in [Slot -> Handle \union {Free}] /\ opens' \in Nat
  BY <1>1, <1>2, <1>3, AllocateTyped DEF TableOK
<1>5. HandlesKept
  BY <1>1, <1>3, AllocateKeeps DEF HandlesKept, Used
<1>6. IoOK' /\ TableOK' /\ LocksOK' /\ LockerOK'
  BY <1>1, <1>4, NoLock DEF Create, IoOK, TableOK, LocksOK, ioVars
<1>7. LocksHaveOwner' /\ LocksExclude'
  BY <1>1, <1>5, OwnersKept DEF Create
<1> QED
  BY <1>2, <1>6, <1>7 DEF LockInv, TypeOK

(* A handler that changes one handle in use, and not its generation. *)
LEMMA HandleInv ==
  ASSUME LockInv, Idle, DiskOK', IoOK',
         conn' \in [Conn -> {"live", "detached", "gone"}],
         closes' \subseteq [conn : Conn, slot : Slot, gen : Nat],
         \/ handles' = handles
         \/ \E s \in Used, h \in Handle :
              h.gen = handles[s].gen /\ handles' = [handles EXCEPT ![s] = h],
         UNCHANGED <<opens, locks, locker>>
  PROVE  LockInv'
<1>1. TableOK /\ LocksOK /\ LocksHaveOwner /\ LocksExclude
  BY DEF LockInv, TypeOK
<1>2. /\ handles' \in [Slot -> Handle \union {Free}]
      /\ HandlesKept
  <2>1. CASE handles' = handles
    BY <1>1, <2>1 DEF TableOK, HandlesKept, Used
  <2>2. CASE \E s \in Used, h \in Handle :
               h.gen = handles[s].gen /\ handles' = [handles EXCEPT ![s] = h]
    <3>1. PICK s \in Used, h \in Handle :
            h.gen = handles[s].gen /\ handles' = [handles EXCEPT ![s] = h]
      BY <2>2
    <3>2. s \in Slot /\ h.used
      BY DEF Used, Handle
    <3>3. handles' \in [Slot -> Handle \union {Free}]
      BY <1>1, <3>1, <3>2 DEF TableOK
    <3>4. HandlesKept
      BY <1>1, <3>1, <3>2 DEF TableOK, HandlesKept, Used
    <3> QED
      BY <3>3, <3>4
  <2> QED
    BY <2>1, <2>2
<1>3. TableOK' /\ LocksOK' /\ LockerOK'
  BY <1>1, <1>2, NoLock DEF TableOK, LocksOK
<1>4. LocksHaveOwner' /\ LocksExclude'
  BY <1>1, <1>2, OwnersKept
<1> QED
  BY <1>3, <1>4 DEF LockInv, TypeOK

(* A handler that releases handles. *)
LEMMA ReleaseInv ==
  ASSUME LockInv, Idle, DiskOK', IoOK',
         conn' \in [Conn -> {"live", "detached", "gone"}],
         closes' \subseteq [conn : Conn, slot : Slot, gen : Nat],
         NEW gone, Release(gone), UNCHANGED locker
  PROVE  LockInv'
<1>1. TableOK /\ LocksOK /\ LocksHaveOwner /\ LocksExclude
  BY DEF LockInv, TypeOK
<1>2. TableOK' /\ LocksOK' /\ LockerOK'
  BY <1>1, ReleaseTyped, NoLock DEF TableOK
<1>3. LocksHaveOwner' /\ LocksExclude'
  BY <1>1, ReleaseSound
<1> QED
  BY <1>2, <1>3 DEF LockInv, TypeOK

(* The end of some handles of CLOSE or of a tree. *)
LEMMA FinalizeInv ==
  ASSUME LockInv, Idle, NEW gone, NEW stale \in SUBSET waiting,
         Finalize(gone, stale), UNCHANGED <<conn, locker>>, closes' \subseteq closes
  PROVE  LockInv'
<1>1. DiskOK /\ IoOK /\ TableOK
  BY DEF LockInv, TypeOK
<1>2. DiskOK'
  BY <1>1, RemoveTyped DEF Finalize
<1>3. IoOK'
  BY <1>1 DEF Finalize, IoOK
<1>4. Release(gone) /\ TableOK
  BY <1>1 DEF Finalize
<1>5. /\ conn' \in [Conn -> {"live", "detached", "gone"}]
      /\ closes' \subseteq [conn : Conn, slot : Slot, gen : Nat]
  BY <1>4 DEF TableOK
<1> QED
  BY <1>2, <1>3, <1>4, <1>5, ReleaseInv

(* releaseClientHandles(). *)
LEMMA ReleaseClientInv ==
  ASSUME LockInv, Idle, IoOK', NEW c, ReleaseClient(c), UNCHANGED locker,
         conn' \in [Conn -> {"live", "detached", "gone"}],
         closes' \subseteq [conn : Conn, slot : Slot, gen : Nat]
  PROVE  LockInv'
<1>1. DiskOK'
  BY RemoveTyped DEF ReleaseClient, LockInv, TypeOK
<1> QED
  BY <1>1, ReleaseInv DEF ReleaseClient

(* The handlers outside LOCK, CREATE aside. *)
LEMMA HandlerInv ==
  ASSUME LockInv,
         \/ LoadSnapshot
         \/ \E c \in Conn, s \in Slot, doomed \in BOOLEAN : SetDisposition(c, s, doomed)
         \/ \E c \in Conn, s \in Slot, p \in Path, replace, answered \in BOOLEAN :
              Rename(c, s, p, replace, answered)
         \/ \E c \in Conn, s \in Slot : Close(c, s)
         \/ \E q \in closes : ServeClose(q)
         \/ \E q \in closes : CancelClose(q)
         \/ \E c \in Conn : TreeDisconnect(c)
         \/ \E c \in Conn : Logoff(c)
         \/ \E c \in Conn : Disconnect(c)
  PROVE  LockInv'
<1>0. DiskOK /\ IoOK /\ TableOK
  BY DEF LockInv, TypeOK
<1>t. /\ conn \in [Conn -> {"live", "detached", "gone"}]
      /\ closes \subseteq [conn : Conn, slot : Slot, gen : Nat]
  BY <1>0 DEF TableOK
<1>1. CASE LoadSnapshot
  <2>1. DiskOK'
    BY <1>0, <1>1 DEF LoadSnapshot, DiskOK
  <2>2. IoOK' /\ UNCHANGED <<handles, conn, closes, opens, locks, locker>> /\ Idle
    BY <1>0, <1>1 DEF LoadSnapshot, IoOK, ioVars, tableVars
  <2> QED
    BY <1>t, <2>1, <2>2, HandleInv
<1>2. CASE \E c \in Conn, s \in Slot, doomed \in BOOLEAN : SetDisposition(c, s, doomed)
  <2>1. PICK c \in Conn, s \in Slot, doomed \in BOOLEAN : SetDisposition(c, s, doomed)
    BY <1>2
  <2>2. s \in Used /\ handles[s] \in Handle
    BY <1>0, <2>1, UsedEntries DEF SetDisposition, Found
  <2> DEFINE h == [handles[s] EXCEPT !.deletePending = doomed]
  <2>3. h \in Handle /\ h.gen = handles[s].gen
    BY <2>2 DEF Handle
  <2>4. handles' = [handles EXCEPT ![s] = h]
    BY <2>1 DEF SetDisposition
  <2>5. DiskOK' /\ IoOK' /\ UNCHANGED <<conn, closes, opens, locks, locker>> /\ Idle
    BY <1>0, <2>1 DEF SetDisposition, DiskOK, IoOK, diskVars, ioVars
  <2> HIDE DEF h
  <2> QED
    BY <1>t, <2>2, <2>3, <2>4, <2>5, HandleInv
<1>3. CASE \E c \in Conn, s \in Slot, p \in Path, replace, answered \in BOOLEAN :
             Rename(c, s, p, replace, answered)
  <2>1. PICK c \in Conn, s \in Slot, p \in Path, replace \in BOOLEAN,
             answered \in BOOLEAN : Rename(c, s, p, replace, answered)
    BY <1>3
  <2>2. s \in Used /\ handles[s] \in Handle
    BY <1>0, <2>1, UsedEntries DEF Rename, Found
  <2> DEFINE h == [handles[s] EXCEPT !.path = p]
  <2>3. h \in Handle /\ h.gen = handles[s].gen /\ handles[s].path \in Path
    BY <2>2 DEF Handle
  <2>4. handles' = handles \/ handles' = [handles EXCEPT ![s] = h]
    BY <2>1 DEF Rename
  <2>5. NoSnapshot \in [names : SUBSET Path, valid : BOOLEAN]
    BY DEF NoSnapshot
  <2>6. DiskOK'
    <3>1. disk' \in [Path -> Nat]
      BY <1>0, <2>1, <2>3 DEF Rename, DiskOK, NoFile
    <3>2. files' \in Nat /\ snapshot' \in [names : SUBSET Path, valid : BOOLEAN]
      BY <1>0, <2>1, <2>5 DEF Rename, DiskOK
    <3> QED
      BY <3>1, <3>2 DEF DiskOK
  <2>7. IoOK' /\ UNCHANGED <<conn, closes, opens, locks, locker>> /\ Idle
    BY <1>0, <2>1 DEF Rename, IoOK, ioVars
  <2> HIDE DEF h
  <2> QED
    BY <1>t, <2>2, <2>3, <2>4, <2>6, <2>7, HandleInv
<1>4. CASE \E c \in Conn, s \in Slot : Close(c, s)
  <2>1. PICK c \in Conn, s \in Slot : Close(c, s)
    BY <1>4
  <2>2. Idle /\ UNCHANGED <<conn, locker>> /\ s \in Used /\ handles[s] \in Handle
    BY <1>0, <2>1, UsedEntries DEF Close, Found
  <2>3. CASE Finalize({s}, {}) /\ UNCHANGED closes
    BY <2>2, <2>3, FinalizeInv
  <2>4. CASE /\ closes' = closes \union
                  {[conn |-> c, slot |-> s, gen |-> handles[s].gen]}
             /\ UNCHANGED <<diskVars, ioVars, handles, opens, locks>>
    <3>0. handles[s].gen \in Nat
      BY <2>2 DEF Handle
    <3>q. [conn |-> c, slot |-> s, gen |-> handles[s].gen]
            \in [conn : Conn, slot : Slot, gen : Nat]
      BY <3>0
    <3>1. closes' \subseteq [conn : Conn, slot : Slot, gen : Nat]
      BY <1>t, <2>4, <3>q
    <3>2. DiskOK' /\ IoOK'
      BY <1>0, <2>4 DEF DiskOK, IoOK, diskVars, ioVars
    <3> QED
      BY <1>t, <2>2, <2>4, <3>1, <3>2, HandleInv
  <2> QED
    BY <2>1, <2>3, <2>4 DEF Close
<1>5. CASE \E q \in closes : ServeClose(q)
  <2>1. PICK q \in closes : ServeClose(q)
    BY <1>5
  <2>2. Idle /\ UNCHANGED <<conn, locker>> /\ closes' \subseteq closes
    BY <2>1 DEF ServeClose
  <2>3. CASE \E stale \in SUBSET (waiting \intersect {q.slot}) :
               Finalize({q.slot}, stale)
    BY <2>2, <2>3, FinalizeInv
  <2>4. CASE UNCHANGED <<diskVars, ioVars, handles, opens, locks>>
    <3>1. DiskOK' /\ IoOK'
      BY <1>0, <2>4 DEF DiskOK, IoOK, diskVars, ioVars
    <3> QED
      BY <1>t, <2>2, <2>4, <3>1, HandleInv
  <2> QED
    BY <2>1, <2>3, <2>4 DEF ServeClose
<1>6. CASE \E q \in closes : CancelClose(q)
  <2>1. DiskOK' /\ IoOK' /\ Idle /\ closes' \subseteq closes
        /\ UNCHANGED <<conn, handles, opens, locks, locker>>
    BY <1>0, <1>6 DEF CancelClose, DiskOK, IoOK, diskVars, ioVars
  <2> QED
    BY <1>t, <2>1, HandleInv
<1>7. CASE \E c \in Conn : TreeDisconnect(c)
  BY <1>7, FinalizeInv DEF TreeDisconnect
<1>8. CASE \E c \in Conn : Logoff(c)
  <2>1. PICK c \in Conn : Logoff(c)
    BY <1>8
  <2>2. IoOK' /\ Idle /\ ReleaseClient(c) /\ UNCHANGED <<conn, closes, locker>>
    BY <1>0, <2>1 DEF Logoff, IoOK, ioVars
  <2> QED
    BY <1>t, <2>2, ReleaseClientInv
<1>9. CASE \E c \in Conn : Disconnect(c)
  <2>1. PICK c \in Conn : Disconnect(c)
    BY <1>9
  <2>2. PICK kept \in SUBSET (waiting \intersect SlotsOf(c)) :
          /\ window \in SlotsOf(c) => window \in kept
          /\ waiting' = (waiting \ SlotsOf(c)) \union kept
          /\ UNCHANGED window
          /\ IF kept # {}
               THEN /\ conn' = [conn EXCEPT ![c] = "detached"]
                    /\ UNCHANGED <<diskVars, handles, opens, locks>>
               ELSE /\ conn' = [conn EXCEPT ![c] = "gone"]
                    /\ ReleaseClient(c)
    BY <2>1 DEF Disconnect
  <2>3. IoOK'
    BY <1>0, <2>2 DEF IoOK
  <2>4. /\ Idle /\ UNCHANGED locker
        /\ closes' \subseteq [conn : Conn, slot : Slot, gen : Nat]
        /\ conn' \in [Conn -> {"live", "detached", "gone"}]
    BY <1>t, <2>1, <2>2 DEF Disconnect
  <2>5. CASE UNCHANGED <<diskVars, handles, opens, locks>>
    <3>1. DiskOK'
      BY <1>0, <2>5 DEF DiskOK, diskVars
    <3> QED
      BY <2>3, <2>4, <2>5, <3>1, HandleInv
  <2>6. CASE ReleaseClient(c)
    BY <2>3, <2>4, <2>6, ReleaseClientInv
  <2> QED
    BY <2>2, <2>5, <2>6
<1> QED
  BY <1>1, <1>2, <1>3, <1>4, <1>5, <1>6, <1>7, <1>8, <1>9

(* The end of a request for I/O. *)
LEMMA IoOverInv ==
  ASSUME LockInv, Idle, IoOK', NEW s, NEW failed, IoOver(s, failed),
         UNCHANGED <<closes, locker>>
  PROVE  LockInv'
<1>0. DiskOK /\ IoOK /\ TableOK
  BY DEF LockInv, TypeOK
<1>t. /\ conn \in [Conn -> {"live", "detached", "gone"}]
      /\ closes' \subseteq [conn : Conn, slot : Slot, gen : Nat]
  BY <1>0 DEF TableOK
<1>1. CASE \E c : conn' = [conn EXCEPT ![c] = "gone"] /\ ReleaseClient(c)
  <2>1. PICK c : conn' = [conn EXCEPT ![c] = "gone"] /\ ReleaseClient(c)
    BY <1>1
  <2>2. conn' \in [Conn -> {"live", "detached", "gone"}]
    BY <1>t, <2>1
  <2> QED
    BY <1>t, <2>1, <2>2, ReleaseClientInv
<1>2. CASE /\ handles' = handles \/ /\ s \in Used
                                    /\ handles' = [handles EXCEPT ![s].made = "spoiled"]
           /\ UNCHANGED <<diskVars, conn, opens, locks>>
  <2> DEFINE h == [handles[s] EXCEPT !.made = "spoiled"]
  <2>1. s \in Used => h \in Handle /\ h.gen = handles[s].gen
    BY <1>0, UsedEntries DEF Handle
  <2>2. \/ handles' = handles
        \/ s \in Used /\ handles' = [handles EXCEPT ![s] = h]
    BY <1>2
  <2>3. DiskOK' /\ conn' \in [Conn -> {"live", "detached", "gone"}]
    BY <1>0, <1>t, <1>2 DEF DiskOK, diskVars
  <2> HIDE DEF h
  <2> QED
    BY <1>t, <1>2, <2>1, <2>2, <2>3, HandleInv
<1> QED
  BY <1>1, <1>2 DEF IoOver

LEMMA IoInv ==
  ASSUME LockInv,
         \/ \E c \in Conn, s \in Slot : QueueIo(c, s)
         \/ \E s \in Slot : StartWindow(s)
         \/ \E over, failed \in BOOLEAN : EndWindow(over, failed)
         \/ \E s \in Slot : DropIo(s)
  PROVE  LockInv'
<1>0. DiskOK /\ IoOK /\ TableOK
  BY DEF LockInv, TypeOK
<1>t. /\ conn \in [Conn -> {"live", "detached", "gone"}]
      /\ closes \subseteq [conn : Conn, slot : Slot, gen : Nat]
  BY <1>0 DEF TableOK
<1>1. CASE \/ \E c \in Conn, s \in Slot : QueueIo(c, s)
           \/ \E s \in Slot : StartWindow(s)
  <2>1. IoOK'
    BY <1>0, <1>1 DEF QueueIo, StartWindow, IoOK
  <2>2. DiskOK' /\ Idle /\ UNCHANGED <<conn, handles, closes, opens, locks, locker>>
    BY <1>0, <1>1 DEF QueueIo, StartWindow, DiskOK, diskVars, tableVars
  <2> QED
    BY <1>t, <2>1, <2>2, HandleInv
<1>2. CASE \E over, failed \in BOOLEAN : EndWindow(over, failed)
  <2>1. PICK over \in BOOLEAN, failed \in BOOLEAN : EndWindow(over, failed)
    BY <1>2
  <2>2. IoOK'
    BY <1>0, <2>1 DEF EndWindow, IoOK
  <2> QED
    BY <2>1, <2>2, IoOverInv DEF EndWindow
<1>3. CASE \E s \in Slot : DropIo(s)
  <2>1. PICK s \in Slot : DropIo(s)
    BY <1>3
  <2>2. IoOK'
    BY <1>0, <2>1 DEF DropIo, IoOK
  <2> QED
    BY <2>1, <2>2, IoOverInv DEF DropIo
<1> QED
  BY <1>1, <1>2, <1>3

-----------------------------------------------------------------------------
(* lockHandler().                                                          *)

(* A new lock, where nothing conflicts, excludes and is owned as it should. *)
LEMMA LockElementInv ==
  ASSUME LockInv, NEW range \in Ranges, NEW exclusive \in BOOLEAN,
         LockElement(range, exclusive)
  PROVE  LockInv'
<1>0. /\ DiskOK /\ IoOK /\ TableOK /\ LocksOK /\ LockerOK
      /\ LocksHaveOwner /\ LocksExclude
  BY DEF LockInv, TypeOK
<1> DEFINE s == locker.slot
           h == [used |-> TRUE, exclusive |-> exclusive, slot |-> s,
                 gen |-> handles[s].gen, path |-> handles[s].path,
                 range |-> range]
<1>1. PICK l \in FirstFree :
        /\ locks' = [locks EXCEPT ![l] = h]
        /\ locker' = [locker EXCEPT !.added = @ \union {l}]
  BY DEF LockElement
<1>2. l \in LockSlot \ UsedLocks
  BY <1>0 DEF LockElement, FirstFree, Conflicts, FirstFree
<1>3. s \in Used /\ s \in Slot /\ handles[s] \in Handle
  BY <1>0, UsedEntries DEF LockElement, LockerOK
<1>4. h \in Lock
  BY <1>3 DEF Handle, Lock
<1>h. /\ h.used /\ h.exclusive = exclusive /\ h.slot = s
      /\ h.gen = handles[s].gen /\ h.path = handles[s].path /\ h.range = range
  OBVIOUS
<1>5. ~Conflicts(s, range, exclusive) /\ ~Idle
      /\ UNCHANGED <<diskVars, ioVars, conn, tableVars>>
  BY DEF LockElement
<1> HIDE DEF h
<1>6. LocksOK'
  BY <1>0, <1>1, <1>4 DEF LocksOK
<1>7. DiskOK' /\ IoOK' /\ TableOK' /\ Used' = Used
  BY <1>0, <1>5 DEF DiskOK, IoOK, TableOK, Used, diskVars, ioVars, tableVars
<1>8. /\ UsedLocks' = UsedLocks \union {l}
      /\ locks'[l] = h /\ \A k \in UsedLocks : locks'[k] = locks[k]
  BY <1>0, <1>1, <1>2, <1>h DEF LocksOK, UsedLocks
<1>9. LockerOK'
  <2> DEFINE before == [LockSlot -> Lock \union {Free}] \union {<<>>}
  <2>1. locker \in [slot : Used, unlock : BOOLEAN, added : SUBSET UsedLocks,
                    before : before]
    BY <1>0, <1>5 DEF LockerOK
  <2>2. locker.added \union {l} \in SUBSET (UsedLocks')
    BY <1>8, <2>1
  <2>3. before' = before
    OBVIOUS
  <2> HIDE DEF before
  <2>4. locker' \in [slot : Used', unlock : BOOLEAN, added : SUBSET (UsedLocks'),
                     before : before']
    BY <1>1, <1>7, <1>8, <2>1, <2>2, <2>3
  <2>5. ~locker'.unlock
    BY <1>1, <2>1 DEF LockElement
  <2> USE DEF before
  <2> QED
    BY <2>4, <2>5 DEF LockerOK
<1>10. LocksHaveOwner'
  BY <1>0, <1>3, <1>5, <1>7, <1>8, <1>h DEF LocksHaveOwner, tableVars
<1>11. LocksExclude'
  <2>1. ASSUME NEW k \in UsedLocks, locks[k].path = h.path,
               locks[k].range \intersect h.range # {}
        PROVE  /\ ~exclusive
               /\ locks[k].exclusive =>
                    locks[k].slot = h.slot /\ locks[k].gen = h.gen
    BY <1>5, <1>h, <2>1 DEF Conflicts, Owns
  <2>2. ASSUME NEW k \in UsedLocks', NEW m \in UsedLocks',
               k # m, locks'[k].exclusive, locks'[k].path = locks'[m].path,
               locks'[k].range \intersect locks'[m].range # {}
        PROVE  /\ locks'[k].slot = locks'[m].slot
               /\ locks'[k].gen = locks'[m].gen
               /\ ~locks'[m].exclusive
    <3>1. CASE k \in UsedLocks /\ m \in UsedLocks
      BY <1>0, <1>8, <2>2, <3>1 DEF LocksExclude
    <3>2. CASE k = l /\ m \in UsedLocks
      BY <1>8, <1>h, <2>1, <2>2, <3>2
    <3>3. CASE m = l /\ k \in UsedLocks
      BY <1>8, <1>h, <2>1, <2>2, <3>3
    <3> QED
      BY <1>8, <2>2, <3>1, <3>2, <3>3
  <2> QED
    BY <2>2 DEF LocksExclude
<1> QED
  BY <1>6, <1>7, <1>9, <1>10, <1>11 DEF LockInv, TypeOK

(* A step of LOCK that only takes ranges away. *)
LEMMA FewerLocksInv ==
  ASSUME LockInv, \A l \in LockSlot : locks'[l] = locks[l] \/ locks'[l] = Free,
         LocksOK', LockerOK', UNCHANGED <<diskVars, ioVars, conn, tableVars>>
  PROVE  LockInv'
<1>0. DiskOK /\ IoOK /\ TableOK /\ LocksHaveOwner /\ LocksExclude
  BY DEF LockInv, TypeOK
<1>1. DiskOK' /\ IoOK' /\ TableOK' /\ Used' = Used
  BY <1>0 DEF DiskOK, IoOK, TableOK, Used, diskVars, ioVars, tableVars
<1>2. LocksExclude' /\ \A l \in UsedLocks' : l \in UsedLocks /\ locks'[l] = locks[l]
  BY <1>0, Thinned
<1>3. LocksHaveOwner'
  BY <1>0, <1>1, <1>2 DEF LocksHaveOwner, tableVars
<1> QED
  BY <1>1, <1>2, <1>3 DEF LockInv, TypeOK

(* lockHandler() from its first element to its answer. *)
LEMMA LockHandlerInv ==
  ASSUME LockInv,
         \/ \E c \in Conn, s \in Slot, unlock \in BOOLEAN : LockBegin(c, s, unlock)
         \/ \E range \in Ranges, exclusive \in BOOLEAN : LockElement(range, exclusive)
         \/ \E range \in Ranges, exclusive \in BOOLEAN : LockRefused(range, exclusive)
         \/ \E range \in Ranges : UnlockElement(range)
         \/ LockEnd
  PROVE  LockInv'
<1>0. DiskOK /\ IoOK /\ TableOK /\ LocksOK /\ LockerOK
  BY DEF LockInv, TypeOK
<1>1. CASE \E c \in Conn, s \in Slot, unlock \in BOOLEAN : LockBegin(c, s, unlock)
  <2>1. PICK c \in Conn, s \in Slot, unlock \in BOOLEAN : LockBegin(c, s, unlock)
    BY <1>1
  <2>2. /\ UNCHANGED locks /\ UNCHANGED <<diskVars, ioVars, conn, tableVars>>
        /\ s \in Used
    BY <2>1 DEF LockBegin, Found
  <2>3. Used' = Used /\ UsedLocks' = UsedLocks
    BY <2>2 DEF Used, UsedLocks, tableVars
  <2>4. (IF unlock THEN <<>> ELSE locks)
          \in [LockSlot -> Lock \union {Free}] \union {<<>>}
    BY <1>0 DEF LocksOK
  <2>5. LockerOK'
    BY <2>1, <2>2, <2>3, <2>4 DEF LockBegin, LockerOK
  <2>6. LocksOK'
    BY <1>0, <2>2 DEF LocksOK
  <2> QED
    BY <2>2, <2>5, <2>6, FewerLocksInv
<1>2. CASE \E range \in Ranges, exclusive \in BOOLEAN : LockElement(range, exclusive)
  BY <1>2, LockElementInv
<1>3. CASE \E range \in Ranges, exclusive \in BOOLEAN : LockRefused(range, exclusive)
  <2>1. LocksOK' /\ \A l \in LockSlot : locks'[l] = locks[l] \/ locks'[l] = Free
    BY <1>0, <1>3 DEF LockRefused, Rollback, LocksOK
  <2>2. LockerOK'
    BY <1>3 DEF LockRefused, LockerOK, Idle
  <2> QED
    BY <1>3, <2>1, <2>2, FewerLocksInv DEF LockRefused
<1>4. CASE \E range \in Ranges : UnlockElement(range)
  <2>1. PICK l \in LockSlot : locks' = [locks EXCEPT ![l] = Free]
    BY <1>4 DEF UnlockElement, UsedLocks
  <2>2. LocksOK' /\ \A k \in LockSlot : locks'[k] = locks[k] \/ locks'[k] = Free
    BY <1>0, <2>1 DEF LocksOK
  <2>3. ~Idle /\ locker.unlock /\ UNCHANGED locker
        /\ UNCHANGED <<diskVars, ioVars, conn, tableVars>>
    BY <1>4 DEF UnlockElement
  <2>4. LockerOK'
    <3>1. locker \in [slot : Used, unlock : BOOLEAN, added : SUBSET UsedLocks,
                      before : [LockSlot -> Lock \union {Free}] \union {<<>>}]
      BY <1>0, <2>3 DEF LockerOK
    <3>2. locker.added = {}
      BY <1>0, <2>3 DEF LockerOK
    <3>3. Used' = Used
      BY <2>3 DEF Used, tableVars
    <3>4. locker \in [slot : Used', unlock : BOOLEAN, added : SUBSET (UsedLocks'),
                      before : [LockSlot -> Lock \union {Free}] \union {<<>>}]
      BY <3>1, <3>2, <3>3
    <3> QED
      BY <2>3, <3>2, <3>4 DEF LockerOK
  <2> QED
    BY <2>2, <2>3, <2>4, FewerLocksInv
<1>5. CASE LockEnd
  <2>1. LockerOK' /\ LocksOK'
    BY <1>0, <1>5 DEF LockEnd, LockerOK, Idle, LocksOK
  <2> QED
    BY <1>5, <2>1, FewerLocksInv DEF LockEnd
<1> QED
  BY <1>1, <1>2, <1>3, <1>4, <1>5

(* What LOCK adds, it can take back: without the ranges of the request in
   progress the table is what the request has found. *)
UndoInv ==
  (~Idle /\ ~locker.unlock) => Rollback(locker.added) = locker.before

LEMMA UndoStep == ASSUME LockInv, UndoInv, [Next]_vars PROVE UndoInv'
<1>0. LocksOK /\ LockerOK
  BY DEF LockInv, TypeOK
<1>1. CASE \E c \in Conn, s \in Slot, unlock \in BOOLEAN : LockBegin(c, s, unlock)
  BY <1>0, <1>1 DEF LockBegin, UndoInv, Rollback, LocksOK
<1>2. CASE \E range \in Ranges, exclusive \in BOOLEAN : LockElement(range, exclusive)
  <2>1. PICK l \in FirstFree :
          /\ \E h : locks' = [locks EXCEPT ![l] = h]
          /\ locker' = [locker EXCEPT !.added = @ \union {l}]
          /\ ~Idle /\ ~locker.unlock
    BY <1>2 DEF LockElement
  <2>2. l \in LockSlot /\ locks[l] = Free
    BY <1>0, <2>1 DEF FirstFree, UsedLocks, LocksOK, Lock
  <2>3. /\ locker'.added = locker.added \union {l}
        /\ locker'.before = locker.before
    BY <1>0, <2>1 DEF LockerOK
  <2>4. Rollback(locker.added \union {l})' = Rollback(locker.added)
    BY <1>0, <2>1, <2>2 DEF Rollback, LocksOK
  <2> QED
    BY <2>1, <2>3, <2>4 DEF UndoInv, Rollback
<1>3. CASE UNCHANGED <<locks, locker>>
  BY <1>3 DEF UndoInv, Rollback, Idle
<1>4. CASE locker'.unlock /\ ~Idle'
  BY <1>4 DEF UndoInv
<1>5. CASE Idle'
  BY <1>5 DEF UndoInv
<1> QED
  BY <1>1, <1>2, <1>3, <1>4, <1>5 DEF Next, vars, Idle, Create, LoadSnapshot,
     SetDisposition, Rename, Close, ServeClose, CancelClose, TreeDisconnect,
     Logoff, Disconnect, QueueIo, StartWindow, EndWindow, DropIo, LockRefused,
     UnlockElement, LockEnd

-----------------------------------------------------------------------------
(* The invariant: types, owners and exclusion. *)
THEOREM LocksInvariant == Spec => []LockInv
<1>1. LockInv /\ [Next]_vars => LockInv'
  <2> SUFFICES ASSUME LockInv, [Next]_vars PROVE LockInv'
    OBVIOUS
  <2>1. CASE UNCHANGED vars
    BY <2>1 DEF LockInv, TypeOK, DiskOK, IoOK, TableOK, LocksOK, LockerOK, Idle,
       Used, UsedLocks, LocksHaveOwner, LocksExclude, vars, diskVars, ioVars,
       tableVars
  <2> QED
    BY <2>1, CreateInv, HandlerInv, IoInv, LockHandlerInv DEF Next
<1> QED
  BY InitInv, <1>1, PTL DEF Spec

(* createHandler(), closeHandler(), lockHandler() and the clean-ups keep every
   table in its types, whatever their order. *)
THEOREM OpensTypes == Spec => []TypeOK
<1>1. LockInv => TypeOK
  BY DEF LockInv
<1> QED
  BY LocksInvariant, <1>1, PTL

(* releaseByteRangeLocksForHandle() 2313-2324 is called wherever a handle ends:
   no byte-range lock is left whose open is gone. *)
THEOREM LocksOwned == Spec => []LocksHaveOwner
<1>1. LockInv => LocksHaveOwner
  BY DEF LockInv
<1> QED
  BY LocksInvariant, <1>1, PTL

(* lockRangeConflicts() 2326-2355 suffices: renames and releases in between do
   not bring two excluding locks together. *)
THEOREM LocksExclusive == Spec => []LocksExclude
<1>1. LockInv => LocksExclude
  BY DEF LockInv
<1> QED
  BY LocksInvariant, <1>1, PTL

(* The roll-back of lockHandler() 9241-9248 restores the table exactly. *)
THEOREM RefusalUndone == Spec => RefusedLockUndone
<1>1. Init => UndoInv
  BY DEF Init, UndoInv, Idle
<1>2. ASSUME LockInv, UndoInv, [Next]_vars
      PROVE  [(locker' # locker /\ \E range \in Ranges, exclusive \in BOOLEAN :
                                     LockRefused(range, exclusive))
              => locks' = locker.before]_vars
  BY <1>2 DEF UndoInv, LockRefused
<1> QED
  BY LocksInvariant, UndoStep, <1>1, <1>2, PTL DEF Spec, RefusedLockUndone

-----------------------------------------------------------------------------
(* No file is younger than the youngest. *)
FilesCounted == \A p \in Path : disk[p] \in 0 .. files

LEMMA CountedInit == Init => FilesCounted
<1> SUFFICES ASSUME Init PROVE FilesCounted
  OBVIOUS
<1>1. PICK names \in SUBSET Path :
        /\ names = {p \in Path : disk[p] # NoFile}
        /\ \A p \in names : disk[p] <= files
  BY DEF Init
<1>2. files \in Nat /\ \A p \in Path : disk[p] \in Nat
  BY InitInv DEF LockInv, TypeOK, DiskOK
<1> QED
  BY <1>1, <1>2 DEF FilesCounted, NoFile

LEMMA CountedStep ==
  ASSUME LockInv, FilesCounted, [Next]_vars PROVE FilesCounted'
<1>0. DiskOK /\ files \in Nat
  BY DEF LockInv, TypeOK, DiskOK
<1>1. CASE UNCHANGED <<disk, files>>
  BY <1>1 DEF FilesCounted
<1>2. CASE \E doomed : Remove(doomed)
  BY <1>0, <1>2 DEF Remove, FilesCounted, NoFile
<1>3. CASE \E p \in Path, ok \in BOOLEAN : CreateEmptyFile(p, ok)
  BY <1>0, <1>3 DEF CreateEmptyFile, FilesCounted, DiskOK, diskVars
<1>4. CASE \E c \in Conn, s \in Slot, p \in Path, replace, answered \in BOOLEAN :
             Rename(c, s, p, replace, answered)
  <2>1. PICK c \in Conn, s \in Slot, p \in Path, replace \in BOOLEAN,
             answered \in BOOLEAN : Rename(c, s, p, replace, answered)
    BY <1>4
  <2>2. handles[s].path \in Path
    BY <2>1, UsedEntries DEF LockInv, TypeOK, Rename, Found, Handle
  <2> QED
    BY <1>0, <2>1, <2>2 DEF Rename, FilesCounted, DiskOK, NoFile
<1>5. CASE \E c \in Conn, p \in Path, d \in Dispositions, doomed \in BOOLEAN :
             Create(c, p, d, doomed)
  BY <1>1, <1>3, <1>5 DEF Create, CreateOpened, CreateReplaced, CreateMade,
     diskVars
<1>6. CASE \/ \E c \in Conn, s \in Slot : Close(c, s)
           \/ \E q \in closes : ServeClose(q)
           \/ \E c \in Conn : TreeDisconnect(c)
           \/ \E c \in Conn : Logoff(c)
           \/ \E c \in Conn : Disconnect(c)
           \/ \E over, failed \in BOOLEAN : EndWindow(over, failed)
           \/ \E s \in Slot : DropIo(s)
  BY <1>1, <1>2, <1>6 DEF Close, ServeClose, TreeDisconnect, Logoff, Disconnect,
     EndWindow, DropIo, IoOver, Finalize, ReleaseClient, diskVars
<1> QED
  BY <1>1, <1>4, <1>5, <1>6 DEF Next, vars, diskVars, LoadSnapshot,
     SetDisposition, CancelClose, QueueIo, StartWindow, LockBegin, LockElement,
     LockRefused, UnlockElement, LockEnd

(* Only CREATE makes files, and never at a path with an open handle. *)
LEMMA SharedStep ==
  ASSUME LockInv, FilesCounted, Next, files' # files,
         NEW p \in Path, OpenOn(p) # {}
  PROVE  disk'[p] \in 0 .. files
<1>0. DiskOK
  BY DEF LockInv, TypeOK
<1>1. PICK c \in Conn, r \in Path, d \in Dispositions, doomed \in BOOLEAN :
        Create(c, r, d, doomed)
  BY DEF Next, diskVars, Close, ServeClose, TreeDisconnect, Logoff, Disconnect,
     EndWindow, DropIo, IoOver, Finalize, ReleaseClient, Remove, LoadSnapshot,
     SetDisposition, Rename, CancelClose, QueueIo, StartWindow, LockBegin,
     LockElement, LockRefused, UnlockElement, LockEnd
<1>2. r # p
  <2>1. SUFFICES ASSUME r = p PROVE FALSE
    OBVIOUS
  <2>2. ~CreateReplaced(c, r, d, doomed)
    BY <2>1 DEF CreateReplaced, SharingViolation
  <2>3. ~CreateMade(c, r, d, doomed)
    BY <2>1 DEF CreateMade, StatPath
  <2> QED
    BY <1>1, <2>2, <2>3 DEF Create, CreateOpened, diskVars
<1>3. disk'[p] = disk[p]
  BY <1>0, <1>1, <1>2 DEF Create, CreateOpened, CreateReplaced, CreateMade,
     CreateEmptyFile, DiskOK, diskVars
<1> QED
  BY <1>3 DEF FilesCounted

(* createHandler() 8426-8442 refuses to overwrite what is open, and statPath()
   4430-4447 never takes what is open for absent: an open file is not replaced. *)
THEOREM SharedSafe == Spec => SharedNeverTruncated
<1>1. ASSUME LockInv, FilesCounted, [Next]_vars
      PROVE  [files' # files =>
                \A p \in Path : OpenOn(p) # {} => disk'[p] \in 0 .. files]_vars
  BY <1>1, SharedStep
<1> QED
  BY LocksInvariant, CountedInit, CountedStep, <1>1, PTL
     DEF Spec, SharedNeverTruncated

(* pollAsyncClose() 7425-7445 checks generation and owner before it closes. *)
THEOREM StaleHarmless == Spec => StaleCloseHarmless
<1>1. [Next]_vars =>
        [\A q \in closes :
           (/\ handles' # handles /\ handles'[q.slot] # handles[q.slot]
            /\ ServeClose(q))
           => handles[q.slot].gen = q.gen]_vars
  BY DEF ServeClose, StillOpen
<1>2. StaleCloseHarmless <=>
        [][\A q \in closes :
             (/\ handles' # handles /\ handles'[q.slot] # handles[q.slot]
              /\ ServeClose(q))
             => handles[q.slot].gen = q.gen]_vars
  BY DEF StaleCloseHarmless
<1> QED
  BY <1>1, <1>2, PTL DEF Spec
=============================================================================
