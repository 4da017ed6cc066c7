------------------------------ MODULE SmbQueue ------------------------------
(***************************************************************************)
(* SmbQueue: the requests of the SMB clients that wait for the card        *)
(* (smb_server.cpp).  READ, WRITE, QUERY_DIRECTORY, CREATE of a directory, *)
(* CLOSE, FLUSH and SET_EOF are answered later, by the polls of            *)
(* serviceHandler, one physical exchange at a time over the one VfsBridge. *)
(*                                                                         *)
(* An owner is a connection.  Each has one file and one directory on one   *)
(* tree; `open` follows the file and the tree.  A physical exchange        *)
(* answers well or badly; a synchronous one inside a step has either       *)
(* outcome.  The cards' contents, offsets, sizes and names are left out: a *)
(* READ or WRITE is a number of windows.  An answer that cannot be queued  *)
(* for want of memory closes the connection: Disconnect.                   *)
(***************************************************************************)
EXTENDS Naturals, Sequences, FiniteSetsExt

CONSTANTS
  Owners,       (* connections                                              *)
  NoOwner,
  Kinds,        (* the requests sent in this instance ...                   *)
  Trio,         (* ... and bound: those sent beyond MaxMixed                *)
  Windows,      (* windows of the longest READ or WRITE                     *)
  Depth,        (* kAsyncIoQueueDepth                                       *)
  Polite,       (* LOGOFF and TREE_DISCONNECT wait for the answers a client
                   can lose by them: see Outstanding                        *)
  MaxRequests,  (* bound: requests ever sent                                *)
  MaxMixed,     (* bound: up to as many, they may be of any kind in Kinds
                   and meet with troubles                                   *)
  MaxTroubles   (* bound: cancelled requests and owners that leave          *)

AllKinds == {"READ", "WRITE", "DIR", "CREATE", "CLOSE", "FLUSH", "SETEOF"}

ASSUME QueueAssumption ==
  /\ NoOwner \notin Owners /\ Kinds \subseteq AllKinds /\ Trio \subseteq Kinds /\ Windows \in Nat \ {0}
  /\ Depth \in Nat \ {0} /\ Polite \in BOOLEAN /\ MaxRequests \in Nat
  /\ {MaxMixed, MaxTroubles} \subseteq Nat

VARIABLES
  req,       (* asyncReads, queuedRead list, asyncWrites, asyncDirectories,
                asyncCreates, asyncCloses, by sequence; and the answers     *)
  active,    (* the one of activeAsyncRead .. activeAsyncClose that is set  *)
  bridge,    (* the exchange with core 1 and, for the record, whose it is   *)
  lastOwner, (* lastVfsOwnerId                                              *)
  cont,      (* directoryContinuationOwnerId while its time runs            *)
  phys,      (* activeSlot, activeMode: the file open on the card           *)
  open,      (* the owner's file: open, closed, or gone with its tree       *)
  failed,    (* Handle::failed                                              *)
  link,      (* the connection                                              *)
  task       (* the loop, or a TREE_DISCONNECT that waits inside a handler  *)

vars == <<req, active, bridge, lastOwner, cont, phys, open, failed, link, task>>

Ids == 1..MaxRequests
Idle == [st |-> "idle", for |-> 0]
Nobody == [by |-> NoOwner, mode |-> "none"]
Loop == [phase |-> "loop", owner |-> NoOwner]
Unsent == [at |-> "unsent", kind |-> "none", owner |-> NoOwner, size |-> 0, left |-> 0, moved |-> 0,
           phase |-> "new", cancel |-> FALSE, live |-> TRUE, replied |-> FALSE, said |-> <<>>]

Init ==
  /\ req = [i \in Ids |-> Unsent] /\ active = 0 /\ bridge = Idle /\ lastOwner = NoOwner
  /\ cont = NoOwner /\ phys = Nobody /\ open = [o \in Owners |-> "open"]
  /\ failed = [o \in Owners |-> FALSE] /\ link = [o \in Owners |-> "up"] /\ task = Loop

-----------------------------------------------------------------------------
(* The queues.                                                             *)

Pending == {i \in Ids : req[i].at \in {"queued", "slot"}}
Of(kind) == {i \in Pending : req[i].kind = kind}
Queued == {i \in Pending : req[i].at = "queued"}
InSlot(kind) == Of(kind) \ Queued
IoCount == Cardinality(InSlot("READ") \cup InSlot("WRITE"))
ActiveKind == IF active = 0 THEN "none" ELSE req[active].kind
Valid(i) == open[req[i].owner] = "open"
Least(S) == IF S = {} THEN 0 ELSE Min(S)

(* Variants: the newest first (BarrierHolds); nothing for the owner just
   served (Served). *)
DueNewest(last) == LET S == {i \in Pending : ~req[i].cancel} IN IF S = {} THEN 0 ELSE Max(S)
DueOthers(last) == Least({i \in Pending : ~req[i].cancel /\ req[i].owner /= last})

(* nextAsyncVfsServiceSequence(), after an exchange of `last`.  A directory
   just answered keeps the card for its owner until its time is over. *)
Due(last) ==
  LET waiting == {i \in Pending : ~req[i].cancel}
      others == {i \in waiting : req[i].owner /= last}
  IN IF cont /= NoOwner
       THEN Least({i \in waiting : req[i].owner = cont /\ req[i].kind = "DIR"})
     ELSE IF last /= NoOwner /\ others /= {} THEN Least(others) ELSE Least(waiting)

(* The next request may start: nothing is active, the bridge is free. *)
Turn(i) == active = 0 /\ bridge = Idle /\ Due(lastOwner) = i

Submit(i) == bridge' = [st |-> "busy", for |-> i]
Came == bridge.st \in {"ok", "bad"}

(* Requests leave the queues; those whose client is there are answered. *)
Out(r, S, answer) ==
  [i \in Ids |->
     IF i \in S THEN [r[i] EXCEPT !.at = "done", !.phase = "new", !.left = 0, !.replied = FALSE,
                        !.said = IF r[i].live /\ ~r[i].replied THEN Append(@, answer) ELSE @]
     ELSE r[i]]

(* Variant: a lost owner keeps them (FilesFreed). *)
FreedNever(r, S) == {}

(* releaseDetachedOwnerIfIdle(): the last request of a lost client frees
   its file and tree. *)
FreedBy(r, S) ==
  {o \in Owners : /\ link[o] = "gone"
                  /\ \E i \in S : r[i].owner = o
                  /\ \A j \in Ids : r[j].owner = o => r[j].at \notin {"queued", "slot"}}

FailFile(o) == IF o = NoOwner THEN failed ELSE [failed EXCEPT ![o] = TRUE]
Writer == IF phys.mode = "write" THEN phys.by ELSE NoOwner

(* closeActive() when nothing refuses it: a file being written is damaged
   when the card does not close it. *)
CloseActive(close) ==
  IF close /\ phys /= Nobody THEN failed' \in {failed, FailFile(Writer)} ELSE UNCHANGED failed

(* What follows when the requests of S have left the queues. *)
Free(S) == open' = [o \in Owners |-> IF o \in FreedBy(req', S) THEN "gone" ELSE open[o]]
After(S, close) ==
  /\ Free(S) /\ CloseActive(close)
  /\ phys' = IF close \/ phys.by \in FreedBy(req', S) THEN Nobody ELSE phys

(* completeAsync...(): one request ends. *)
Ends(i, answer, close) ==
  /\ req' = Out(req, {i}, answer) /\ active' = (IF active = i THEN 0 ELSE active)
  /\ After({i}, close)

(* activateRead(), activateWrite(): the file is the open one, or the open
   one is closed and it is opened. *)
Activated(o, mode) == phys' = [by |-> o, mode |-> mode] /\ UNCHANGED failed
NotActivated(o, mode) ==
  /\ phys /= [by |-> o, mode |-> mode]
  /\ phys' = Nobody /\ failed' \in {failed, FailFile(Writer)}

-----------------------------------------------------------------------------
(* The handlers: what a client may send.                                   *)

Troubles == Cardinality({i \in Ids : req[i].cancel})
            + Cardinality({o \in Owners : link[o] = "gone" \/ open[o] = "gone" \/ task.owner = o})
Calm == Troubles < MaxTroubles /\ (\A i \in Ids : i > MaxMixed => req[i].at = "unsent")
MaySend(o, kind) ==
  /\ task = Loop /\ link[o] = "up" /\ kind \in Kinds
  /\ \E i \in Ids : req[i].at = "unsent" /\
       (i > MaxMixed => Troubles = 0 /\ {req[j].kind : j \in 1..i-1} \cup {kind} \subseteq Trio)
NewId == Min({i \in Ids : req[i].at = "unsent"})
Enqueue(o, kind, n, at) ==
  req' = [req EXCEPT ![NewId] = [Unsent EXCEPT !.at = at, !.kind = kind, !.owner = o,
                                                !.size = n, !.left = n]]
Busy == Pending /= {} \/ bridge /= Idle
(* hasPendingPhysicalWorkForHandle(). *)
HandleWork(o) == \E i \in Pending : req[i].owner = o /\ req[i].kind \notin {"DIR", "CREATE"}

(* readHandler(): behind a WRITE a READ is refused; one READ has a slot. *)
SendRead(o, n) ==
  /\ MaySend(o, "READ") /\ open[o] = "open" /\ InSlot("WRITE") = {}
  /\ Cardinality(Queued) + IoCount < Depth
  /\ Enqueue(o, "READ", n, IF Queued = {} /\ InSlot("READ") = {} THEN "slot" ELSE "queued")
  /\ UNCHANGED <<active, bridge, lastOwner, cont, phys, open, failed, link, task>>

(* writeHandler(), the part for a busy card or a long WRITE. *)
SendWrite(o, n) ==
  /\ MaySend(o, "WRITE") /\ open[o] = "open" /\ ~failed[o] /\ (n > 1 \/ Busy) /\ IoCount < Depth
  /\ Enqueue(o, "WRITE", n, "slot")
  /\ UNCHANGED <<active, bridge, lastOwner, cont, phys, open, failed, link, task>>

(* writeHandler(), one window on an idle card: written before it returns. *)
WriteNow(o) ==
  /\ MaySend(o, "WRITE") /\ open[o] = "open" /\ ~failed[o] /\ ~Busy
  /\ \E out \in {"ok", "error"} :
       /\ req' = [req EXCEPT ![NewId] = [Unsent EXCEPT !.at = "done", !.kind = "WRITE", !.owner = o,
                    !.size = 1, !.moved = IF out = "ok" THEN 1 ELSE 0, !.said = <<out>>]]
       /\ \/ out = "ok" /\ Activated(o, "write")
          \/ out = "error" /\ NotActivated(o, "write")
          \/ out = "error" /\ phys' = Nobody /\ failed' = FailFile(o)
  /\ UNCHANGED <<active, bridge, lastOwner, cont, open, link, task>>

(* queryDirectoryHandler() for a directory without a snapshot. *)
SendDirectory(o) ==
  /\ MaySend(o, "DIR") /\ open[o] /= "gone" /\ Enqueue(o, "DIR", 1, "slot")
  /\ UNCHANGED <<active, bridge, lastOwner, cont, phys, open, failed, link, task>>

(* createHandler() for a directory: queued behind the others, or done. *)
SendCreate(o) ==
  /\ MaySend(o, "CREATE") /\ open[o] /= "gone" /\ Busy /\ Enqueue(o, "CREATE", 1, "slot")
  /\ UNCHANGED <<active, bridge, lastOwner, cont, phys, open, failed, link, task>>

CreateNow(o) ==
  /\ MaySend(o, "CREATE") /\ open[o] /= "gone" /\ ~Busy
  /\ req' = [req EXCEPT ![NewId] = [Unsent EXCEPT !.at = "done", !.kind = "CREATE", !.owner = o,
                                                   !.said = <<"ok">>]]
  /\ cont' = o /\ phys' = Nobody /\ CloseActive(TRUE)
  /\ UNCHANGED <<active, bridge, lastOwner, open, link, task>>

(* flushHandler() behind a barrier; setInfoHandler() for the length. *)
SendBarrier(o, kind) ==
  /\ kind \in {"FLUSH", "SETEOF"} /\ MaySend(o, kind) /\ open[o] = "open"
  /\ Enqueue(o, kind, 1, "slot")
  /\ UNCHANGED <<active, bridge, lastOwner, cont, phys, open, failed, link, task>>

(* closeHandler(): queued when the card is busy and this file needs it. *)
SendClose(o) ==
  /\ MaySend(o, "CLOSE") /\ open[o] = "open" /\ Busy /\ Enqueue(o, "CLOSE", 1, "slot")
  /\ UNCHANGED <<active, bridge, lastOwner, cont, phys, open, failed, link, task>>

Recovery == {"window", "submit", "abort"}

(* Variants: the WRITE on the card is not noted as answered (OneTrueAnswer); it
   loses its slot like the others (ResultIsOwn). *)
FailWritesTwice(r, rec, st) ==
  Out(IF rec = 0 THEN r ELSE [r EXCEPT ![rec].phase = IF st = "idle" THEN "submit" ELSE "window",
                                       ![rec].cancel = TRUE, ![rec].said = Append(@, "error")],
      {i \in Ids : r[i].at = "slot" /\ r[i].kind = "WRITE"} \ {rec}, "error")
FailWritesAll(r, rec, st) == Out(r, {i \in Ids : r[i].at = "slot" /\ r[i].kind = "WRITE"}, "error")

(* failAsyncWrites(): every WRITE is answered and its file marked.  The one
   whose window or open file is on the card, `rec`, keeps its slot until
   the card has let go of it. *)
FailWrites(r, rec, st) ==
  LET lost == {i \in Ids : r[i].at = "slot" /\ r[i].kind = "WRITE"} \ {rec}
      kept == IF rec = 0 THEN r
              ELSE [r EXCEPT ![rec].phase = IF @ \in Recovery THEN @
                                            ELSE IF st = "idle" THEN "submit" ELSE "window",
                             ![rec].cancel = TRUE, ![rec].replied = TRUE,
                             ![rec].said = IF r[rec].live /\ ~r[rec].replied
                                             THEN Append(@, "error") ELSE @]
  IN Out(kept, lost, "error")
(* The WRITE whose file is open on the card when no exchange is active. *)
OnCard == IF phys.mode = "write" /\ open[phys.by] = "open"
            THEN Least({j \in InSlot("WRITE") : req[j].owner = phys.by}) ELSE 0
WritersFailed ==
  [o \in Owners |-> failed[o] \/ (open[o] = "open" /\ \E i \in InSlot("WRITE") : req[i].owner = o)]

(* finalizeClose(): WRITEs sent after the CLOSE cannot be served while it is
   active; the wait for them ends in failAsyncWrites(). *)
Finalize(o, i) ==
  LET late == {j \in InSlot("WRITE") : req[j].owner = o}
      marked == IF late = {} THEN failed ELSE WritersFailed
      left == IF late = {} THEN req ELSE FailWrites(req, 0, "idle")
  IN \E bad \in {marked[o], marked[o] \/ phys = [by |-> o, mode |-> "write"]} :
       /\ req' = Out(left, {i}, IF bad THEN "error" ELSE "ok")
       /\ failed' = [marked EXCEPT ![o] = bad]
       /\ phys' = IF phys.by = o THEN Nobody ELSE phys
       /\ LET freed == FreedBy(req', late \cup {i} \cup InSlot("WRITE")) IN
            open' = [p \in Owners |-> IF p \in freed THEN "gone"
                                      ELSE IF p = o THEN "closed" ELSE open[p]]

CloseNow(o) ==
  /\ MaySend(o, "CLOSE") /\ open[o] = "open" /\ ~HandleWork(o)
  /\ Busy => phys.by /= o
  /\ open' = [open EXCEPT ![o] = "closed"]
  /\ IF phys.by = o THEN phys' = Nobody /\ CloseActive(TRUE) ELSE UNCHANGED <<phys, failed>>
  /\ UNCHANGED <<req, active, bridge, lastOwner, cont, link, task>>

-----------------------------------------------------------------------------
(* pollAsyncRead(), which a TREE_DISCONNECT also calls.                    *)

MayPollRead == task.phase \in {"loop", "reads"}
Sound(i) == bridge.st = "ok" /\ ~req[i].cancel /\ Valid(i)
           /\ (req[i].live \/ (req[i].kind = "WRITE" /\ req[i].replied))

(* A window of the active READ has come: the READ ends, goes on, or makes
   room for the owner whose turn it is. *)
TakeRead(i) ==
  LET r == req[i]
      rest == [req EXCEPT ![i].left = @ - 1] IN
  /\ MayPollRead /\ active = i /\ r.kind = "READ" /\ Came
  /\ lastOwner' = r.owner
  /\ IF ~Sound(i) THEN bridge' = Idle /\ Ends(i, "error", TRUE)
     ELSE IF r.left = 1 THEN bridge' = Idle /\ Ends(i, "ok", FALSE)
     ELSE /\ req' = rest /\ UNCHANGED <<phys, open, failed>>
          /\ IF Due(r.owner) = i THEN Submit(i) /\ UNCHANGED active
             ELSE bridge' = Idle /\ active' = 0
  /\ UNCHANGED <<cont, link, task>>

(* A READ that was cancelled, or whose file is gone. *)
DropRead(i) ==
  /\ MayPollRead /\ ActiveKind /= "READ" /\ i \in InSlot("READ") /\ (req[i].cancel \/ ~Valid(i))
  /\ Ends(i, "error", FALSE)
  /\ UNCHANGED <<bridge, lastOwner, cont, link, task>>

StartRead(i) ==
  /\ MayPollRead /\ Turn(i) /\ i \in InSlot("READ") /\ Valid(i)
  /\ \/ /\ Activated(req[i].owner, "read") /\ active' = i /\ Submit(i)
        /\ UNCHANGED <<req, open>>
     \/ /\ NotActivated(req[i].owner, "read")
        /\ req' = Out(req, {i}, "error") /\ UNCHANGED <<active, bridge, open>>
  /\ UNCHANGED <<lastOwner, cont, link, task>>

(* promoteQueuedReads(): the head of the list takes the slot for READs. *)
MayPromote == InSlot("READ") = {} /\ IoCount < Depth
Promote(i) ==
  /\ task = Loop /\ MayPromote /\ i = Least(Queued) /\ i /= 0
  /\ req' = IF Valid(i) THEN [req EXCEPT ![i].at = "slot"] ELSE Out(req, {i}, "error")
  /\ UNCHANGED <<active, bridge, lastOwner, cont, phys, open, failed, link, task>>

-----------------------------------------------------------------------------
(* pollAsyncWrite(), likewise.                                             *)

MayPollWrite == task.phase \in {"loop", "writes"}

(* A window of the active WRITE has come.  SUCCESS is for the last one. *)
TakeWrite(i) ==
  LET r == req[i]
      rest == [req EXCEPT ![i].left = @ - 1] IN
  /\ MayPollWrite /\ active = i /\ r.kind = "WRITE" /\ r.phase = "work" /\ Came
  /\ lastOwner' = r.owner /\ bridge' = Idle
  /\ IF ~Sound(i) THEN
       IF r.cancel THEN Ends(i, "error", TRUE)
       ELSE /\ req' = FailWrites(req, OnCard, "idle") /\ active' = OnCard
            /\ failed' = WritersFailed /\ Free(InSlot("WRITE")) /\ UNCHANGED phys
     ELSE IF r.left = 1 THEN Ends(i, "ok", ~r.live)
     ELSE req' = rest /\ active' = 0 /\ UNCHANGED <<phys, open, failed>>
  /\ UNCHANGED <<cont, link, task>>

DropWrite(i) ==
  /\ MayPollWrite /\ ActiveKind /= "WRITE" /\ i \in InSlot("WRITE") /\ req[i].cancel
  /\ Ends(i, "error", FALSE)
  /\ UNCHANGED <<bridge, lastOwner, cont, link, task>>

(* A WRITE whose file cannot be opened fails them all (resetBuffers, then
   failAsyncWrites: no file is open for writing). *)
StartWrite(i) ==
  /\ MayPollWrite /\ Turn(i) /\ i \in InSlot("WRITE") /\ Valid(i)
  /\ \/ /\ Activated(req[i].owner, "write") /\ active' = i /\ Submit(i)
        /\ req' = [req EXCEPT ![i].phase = "work"] /\ UNCHANGED open
     \/ /\ phys /= [by |-> req[i].owner, mode |-> "write"] /\ phys' = Nobody
        /\ \E f \in {failed, FailFile(Writer)} :
             failed' = [o \in Owners |-> f[o] \/ WritersFailed[o]]
        /\ req' = FailWrites(req, 0, "idle")
        /\ Free(InSlot("WRITE"))
        /\ UNCHANGED <<active, bridge>>
  /\ UNCHANGED <<lastOwner, cont, link, task>>

(* A WRITE that was answered with an error: its window is awaited, the file
   closed by CLOSE_ABORT, and only then is the slot free. *)
Recover(i) ==
  /\ MayPollWrite /\ active = i /\ req[i].kind = "WRITE"
  /\ \/ /\ req[i].phase = "window" /\ Came /\ Submit(i)
        /\ req' = [req EXCEPT ![i].phase = "abort"]
        /\ UNCHANGED <<active, phys, open, failed>>
     \/ /\ req[i].phase = "submit" /\ bridge = Idle /\ Submit(i)
        /\ req' = [req EXCEPT ![i].phase = "abort"]
        /\ UNCHANGED <<active, phys, open, failed>>
     \/ /\ req[i].phase = "abort" /\ Came /\ bridge' = Idle
        /\ req' = Out(req, {i}, "error") /\ active' = 0
        /\ Free({i})
        /\ phys' = Nobody /\ UNCHANGED failed
  /\ UNCHANGED <<lastOwner, cont, link, task>>

-----------------------------------------------------------------------------
(* pollAsyncDirectory(), pollAsyncCreate(), pollAsyncClose(): chains of     *)
(* exchanges, which first give up the file open on the card.               *)

Chains == {"DIR", "CREATE", "FLUSH", "SETEOF"}
Holder(i) == IF req[i].kind \in {"DIR", "CREATE"} THEN open[req[i].owner] /= "gone" ELSE Valid(i)
Goes(i) == req[i].live /\ ~req[i].cancel /\ Holder(i)
Detached(i) == req[i].kind = "DIR" /\ ~req[i].live
Step(i, phase) == req' = [req EXCEPT ![i].phase = phase] /\ active' = i /\ Submit(i)

(* The exchange the work proper begins with. *)
First(i) ==
  LET mine(mode) == phys = [by |-> req[i].owner, mode |-> mode] IN
  CASE req[i].kind = "DIR" -> IF mine("dir") THEN "read" ELSE "open"
    [] req[i].kind = "CREATE" -> "mkdir"
    [] OTHER -> IF mine("write") THEN "apply" ELSE "open"

(* Either the file open on the card is closed first, or the work begins. *)
Begin(i) ==
  IF First(i) \in {"read", "apply"} THEN Step(i, First(i)) /\ UNCHANGED phys
  ELSE IF phys.mode \in {"read", "write"} THEN Step(i, "commit") /\ UNCHANGED phys
  ELSE Step(i, First(i)) /\ phys' = Nobody

(* The request ends and leaves no file open on the card. *)
Abandon(i, marked) ==
  /\ req' = Out(req, {i}, "error") /\ active' = 0 /\ bridge' = Idle
  /\ Free({i})
  /\ phys' = Nobody /\ failed' = FailFile(marked)

(* The request's turn.  A CLOSE does all its work here. *)
StartChain(i) ==
  /\ task = Loop /\ Turn(i) /\ req[i].kind \in Chains /\ Holder(i)
  /\ \/ req[i].kind = "CREATE" /\ Step(i, "stat") /\ UNCHANGED <<phys, open, failed>>
     \/ req[i].kind \in {"DIR", "SETEOF"} /\ Begin(i) /\ UNCHANGED <<open, failed>>
     \/ /\ req[i].kind = "FLUSH" /\ ~failed[req[i].owner]
        /\ Begin(i) /\ UNCHANGED <<open, failed>>
     \/ /\ req[i].kind = "FLUSH" /\ UNCHANGED bridge
        /\ Ends(i, IF failed[req[i].owner] THEN "error" ELSE "ok", FALSE)
  /\ UNCHANGED <<lastOwner, cont, link, task>>

StartClose(i) ==
  /\ task = Loop /\ Turn(i) /\ req[i].kind = "CLOSE" /\ Valid(i)
  /\ Finalize(req[i].owner, i)
  /\ UNCHANGED <<active, bridge, lastOwner, cont, link, task>>

(* A directory at its end, or an entry kept from the last listing. *)
AnswerDirectory(i) ==
  /\ task = Loop /\ Turn(i) /\ req[i].kind = "DIR" /\ Holder(i)
  /\ \/ Ends(i, "error", FALSE) /\ UNCHANGED cont
     \/ Ends(i, "ok", FALSE) /\ cont' = req[i].owner
  /\ UNCHANGED <<bridge, lastOwner, link, task>>

(* The file or tree is gone.  pollAsyncClose() looks before it takes. *)
Lost(i) ==
  /\ task = Loop /\ i \in Pending /\ req[i].kind \in Chains \cup {"CLOSE"} /\ ~Holder(i)
  /\ Turn(i) \/ (active = i /\ req[i].kind \in {"FLUSH", "SETEOF"})
  /\ Ends(i, "error", FALSE)
  /\ UNCHANGED <<bridge, lastOwner, cont, link, task>>

(* A cancelled CLOSE, FLUSH or SET_EOF that waits. *)
DropClose(i) ==
  /\ task = Loop /\ i \in Pending /\ req[i].kind \in {"CLOSE", "FLUSH", "SETEOF"} /\ req[i].cancel
  /\ ActiveKind \notin {"FLUSH", "SETEOF"}
  /\ Ends(i, "error", FALSE)
  /\ UNCHANGED <<bridge, lastOwner, cont, link, task>>

Takes(i, phases) ==
  /\ task = Loop /\ active = i /\ req[i].kind \in Chains /\ req[i].phase \in phases /\ Came
  /\ req[i].kind \in {"FLUSH", "SETEOF"} => Holder(i)
  /\ lastOwner' = req[i].owner /\ UNCHANGED <<link, task>>

(* A listing whose handle has gone is answered before its exchange is looked
   at: the card keeps the file it names, though it may have closed it. *)
Orphaned(i) == req[i].kind = "DIR" /\ ~Detached(i) /\ ~Holder(i)
FileClosed(i) == Orphaned(i) /\ bridge' = Idle /\ Ends(i, "error", FALSE)

(* CLOSE_COMMIT of the file that was open. *)
TakeCommit(i) ==
  /\ Takes(i, {"commit"}) /\ UNCHANGED cont
  /\ \/ FileClosed(i)
     \/ Detached(i) /\ Abandon(i, NoOwner)
     \/ /\ ~Detached(i) /\ ~Orphaned(i) /\ bridge.st = "bad" /\ Step(i, "abort")
        /\ UNCHANGED <<phys, open, failed>>
     \/ /\ ~Detached(i) /\ bridge.st = "ok" /\ Goes(i)
        /\ Step(i, IF req[i].kind = "CREATE" THEN "mkdir" ELSE "open")
        /\ phys' = Nobody /\ UNCHANGED <<open, failed>>
     \/ /\ ~Detached(i) /\ ~Orphaned(i) /\ bridge.st = "ok" /\ ~Goes(i)
        /\ Abandon(i, NoOwner)

(* CLOSE_ABORT after it failed: what was written is lost. *)
TakeAbort(i) ==
  /\ Takes(i, {"abort"}) /\ UNCHANGED cont
  /\ \/ FileClosed(i)
     \/ ~Orphaned(i) /\ Abandon(i, IF Detached(i) THEN NoOwner ELSE Writer)

(* STAT: an open is answered; a creation goes on when there is nothing. *)
TakeStat(i) ==
  /\ Takes(i, {"stat"})
  /\ \/ bridge' = Idle /\ Ends(i, "error", FALSE) /\ UNCHANGED cont
     \/ /\ bridge.st = "ok" /\ req[i].live /\ Holder(i)
        /\ bridge' = Idle /\ Ends(i, "ok", FALSE) /\ cont' = req[i].owner
     \/ bridge.st = "bad" /\ Goes(i) /\ Begin(i) /\ UNCHANGED <<open, failed, cont>>

Opened(i) == [by |-> req[i].owner, mode |-> IF req[i].kind = "DIR" THEN "dir" ELSE "write"]

(* OPEN of the directory, or of the file to be resized. *)
TakeOpen(i) ==
  /\ Takes(i, {"open"}) /\ UNCHANGED cont
  /\ \/ Detached(i) /\ Abandon(i, NoOwner)
     \/ ~Detached(i) /\ bridge.st = "bad" /\ bridge' = Idle /\ Ends(i, "error", FALSE)
     \/ /\ ~Detached(i) /\ bridge.st = "ok" /\ Goes(i)
        /\ Step(i, IF req[i].kind = "DIR" THEN "read" ELSE "apply")
        /\ phys' = Opened(i) /\ UNCHANGED <<open, failed>>
     \/ /\ ~Detached(i) /\ bridge.st = "ok" /\ ~Goes(i) /\ bridge' = Idle
        /\ req' = Out(req, {i}, "error") /\ active' = 0 /\ Free({i}) /\ UNCHANGED failed
        /\ phys' = IF FreedBy(req', {i}) /= {} THEN Nobody
                   ELSE IF Holder(i) THEN Opened(i) ELSE phys

(* The last exchange: entries of the directory, MKDIR, SET_EOF.  A listing
   that goes on and a new directory keep the card for their owner. *)
TakeLast(i) ==
  /\ Takes(i, {"read", "mkdir", "apply"})
  /\ \/ Detached(i) /\ Abandon(i, NoOwner) /\ UNCHANGED cont
     \/ ~Detached(i) /\ bridge' = Idle /\ Ends(i, "error", FALSE) /\ UNCHANGED cont
     \/ /\ ~Detached(i) /\ bridge.st = "ok" /\ (Holder(i) \/ ~req[i].live)
        /\ bridge' = Idle /\ Ends(i, "ok", FALSE)
        /\ cont' = IF req[i].kind \in {"DIR", "CREATE"} /\ req[i].live THEN req[i].owner ELSE cont

-----------------------------------------------------------------------------
(* Time, core 1 and the clients.                                           *)

(* Core 1 has carried the exchange out, well or badly. *)
Answer ==
  /\ bridge.st = "busy"
  /\ \E st \in {"ok", "bad"} :
       /\ bridge' = [bridge EXCEPT !.st = st]
       /\ req' = IF st = "ok" /\ req[bridge.for].kind \in {"READ", "WRITE"}
                    /\ req[bridge.for].phase /= "abort"
                   THEN [req EXCEPT ![bridge.for].moved = @ + 1] ELSE req
  /\ UNCHANGED <<active, lastOwner, cont, phys, open, failed, link, task>>

(* The 750 ms after a listing are over. *)
ContinuationEnds ==
  /\ cont /= NoOwner /\ cont' = NoOwner
  /\ UNCHANGED <<req, active, bridge, lastOwner, phys, open, failed, link, task>>

(* asyncIoTimedOut() for a READ: failAsyncReads().  The bridge gives the
   exchange back within 5 s, or the READs are cancelled and wait for it. *)
ReadTimeOut ==
  /\ task = Loop /\ ActiveKind = "READ" /\ bridge.st = "busy"
  /\ \/ /\ req' = Out(req, Of("READ"), "error") /\ active' = 0 /\ bridge' = Idle
        /\ After(Of("READ"), TRUE)
     \/ /\ req' = Out([i \in Ids |-> IF i \in InSlot("READ") THEN [req[i] EXCEPT !.cancel = TRUE]
                                     ELSE req[i]], Queued, "error")
        /\ UNCHANGED <<active, bridge, phys, open, failed>>
  /\ UNCHANGED <<lastOwner, cont, link, task>>

WriteTimeOut ==
  /\ task = Loop /\ ActiveKind = "WRITE" /\ req[active].phase = "work" /\ bridge.st = "busy"
  /\ req' = FailWrites(req, active, bridge.st) /\ failed' = WritersFailed
  /\ Free(InSlot("WRITE"))
  /\ UNCHANGED <<active, bridge, lastOwner, cont, phys, link, task>>

(* Answered with an error, but its exchange is still on the card. *)
Deaf(r, i) ==
  [r EXCEPT ![i].live = FALSE, ![i].replied = TRUE,
            ![i].said = IF r[i].live /\ ~r[i].replied THEN Append(@, "error") ELSE @]

(* failAsyncDirectories(): one that hangs fails them all; its own slot stays
   until the exchange is back. *)
DirectoryTimeOut ==
  /\ task = Loop /\ ActiveKind = "DIR" /\ bridge.st = "busy" /\ ~req[active].replied
  /\ LET r == Out(req, Of("DIR") \ {active}, "error") IN req' = Deaf(r, active)
  /\ UNCHANGED <<active, bridge, lastOwner, cont, phys, open, failed, link, task>>

CreateTimeOut ==
  /\ task = Loop /\ ActiveKind = "CREATE" /\ bridge.st = "busy" /\ req[active].live
  /\ req' = Deaf([req EXCEPT ![active].cancel = TRUE], active)
  /\ UNCHANGED <<active, bridge, lastOwner, cont, phys, open, failed, link, task>>

(* cancelHandler().  A READ without a slot ends at once. *)
Cancel(i) ==
  /\ task = Loop /\ Calm /\ i \in Pending /\ req[i].live /\ link[req[i].owner] = "up"
  /\ ~req[i].cancel /\ ~req[i].replied
  /\ req' = IF i \in Queued THEN Out(req, {i}, "error") ELSE [req EXCEPT ![i].cancel = TRUE]
  /\ UNCHANGED <<active, bridge, lastOwner, cont, phys, open, failed, link, task>>

(* cleanupClient(): what the card is not busy with is dropped, a WRITE is
   written to its end, and the file waits for what is left. *)
Disconnect(o) ==
  LET mine == {i \in Pending : req[i].owner = o}
      inFlight(i) == active = i /\ bridge /= Idle
      drop == {i \in mine : req[i].kind /= "WRITE" /\ ~inFlight(i)}
      orphan(i) == [req[i] EXCEPT !.live = FALSE,
                      !.replied = @ \/ req[i].kind \in {"WRITE", "DIR"},
                      !.cancel = IF req[i].kind = "WRITE" THEN req[i].phase \in Recovery
                                 ELSE IF req[i].kind = "DIR" THEN @ ELSE TRUE]
  IN /\ task = Loop /\ Calm /\ link[o] = "up"
     /\ link' = [link EXCEPT ![o] = "gone"]
     /\ req' = [i \in Ids |-> IF i \in drop THEN [req[i] EXCEPT !.at = "done", !.live = FALSE, !.left = 0,
                                                                     !.phase = "new"]
                              ELSE IF i \in mine THEN orphan(i) ELSE req[i]]
     /\ IF mine \subseteq drop
          THEN /\ open' = [open EXCEPT ![o] = "gone"]
               /\ phys' = IF phys.by = o THEN Nobody ELSE phys
          ELSE UNCHANGED <<open, phys>>
     /\ UNCHANGED <<active, bridge, lastOwner, cont, failed, task>>

(* The requests a client can lose by a LOGOFF or a TREE_DISCONNECT. *)
Outstanding(o, kinds) == \E i \in Pending : req[i].owner = o /\ req[i].kind \in kinds

(* logoffHandler(): the files and trees go, the requests stay. *)
Logoff(o) ==
  /\ task = Loop /\ Calm /\ link[o] = "up" /\ open[o] /= "gone" /\ (Polite => ~Outstanding(o, Kinds))
  /\ open' = [open EXCEPT ![o] = "gone"] /\ phys' = IF phys.by = o THEN Nobody ELSE phys
  /\ UNCHANGED <<req, active, bridge, lastOwner, cont, failed, link, task>>

(* treeDisconnectHandler(): the READs of the tree are cancelled; the handler
   waits for them, polling nothing but READs, ... *)
TreeDisconnect(o) ==
  /\ task = Loop /\ Calm /\ link[o] = "up" /\ open[o] /= "gone"
  /\ Polite => ~Outstanding(o, {"FLUSH", "SETEOF"})
  /\ task' = [phase |-> "reads", owner |-> o]
  /\ LET mine(i) == req[i].owner = o /\ req[i].kind = "READ" /\ Valid(i)
         r == Out(req, {i \in Queued : mine(i)}, "error")
     IN req' = [i \in Ids |-> IF mine(i) /\ r[i].at = "slot" THEN [r[i] EXCEPT !.cancel = TRUE]
                             ELSE r[i]]
  /\ UNCHANGED <<active, bridge, lastOwner, cont, phys, open, failed, link>>

Mine(kind) == {i \in InSlot(kind) : req[i].owner = task.owner /\ Valid(i)}

(* ... or gives up after 90 s; ... *)
TreeReadsDone ==
  /\ task.phase = "reads"
  /\ \/ Mine("READ") = {} /\ task' = [task EXCEPT !.phase = "writes"]
     \/ Mine("READ") /= {} /\ task' = Loop
  /\ UNCHANGED <<req, active, bridge, lastOwner, cont, phys, open, failed, link>>

(* ... then for its WRITEs, polling nothing but WRITEs; 90 s without one
   moving fail the WRITEs of every client. *)
TreeWritesDone ==
  /\ task.phase = "writes" /\ task' = Loop
  /\ LET rec == IF active = 0 THEN OnCard ELSE IF ActiveKind = "WRITE" THEN active ELSE 0 IN
       IF Mine("WRITE") = {}
       THEN UNCHANGED <<req, active, failed>> /\ open' = [open EXCEPT ![task.owner] = "gone"]
       ELSE /\ req' = FailWrites(req, rec, bridge.st) /\ failed' = WritersFailed
            /\ active' = IF active = 0 THEN rec ELSE active
            /\ open' = [o \in Owners |-> IF o = task.owner \/ o \in FreedBy(req', InSlot("WRITE"))
                                         THEN "gone" ELSE open[o]]
  /\ phys' = IF phys.by = task.owner /\ active' = 0 THEN Nobody ELSE phys
  /\ UNCHANGED <<bridge, lastOwner, cont, link>>

-----------------------------------------------------------------------------
(* The system.                                                             *)

Client ==
  \/ \E o \in Owners :
       \/ \E n \in 1..Windows : SendRead(o, n) \/ SendWrite(o, n)
       \/ WriteNow(o) \/ SendDirectory(o) \/ SendCreate(o) \/ CreateNow(o)
       \/ \E kind \in Kinds : SendBarrier(o, kind)
       \/ SendClose(o) \/ CloseNow(o) \/ Disconnect(o) \/ Logoff(o) \/ TreeDisconnect(o)
  \/ \E i \in Ids : Cancel(i)

PollRead == \E i \in Ids : TakeRead(i) \/ DropRead(i) \/ StartRead(i) \/ Promote(i)
PollWrite == \E i \in Ids : TakeWrite(i) \/ DropWrite(i) \/ StartWrite(i) \/ Recover(i)
PollDirectory == \E i \in Ids : StartChain(i) \/ AnswerDirectory(i) \/ Lost(i)
PollChain == \E i \in Ids : TakeCommit(i) \/ TakeAbort(i) \/ TakeStat(i) \/ TakeOpen(i) \/ TakeLast(i)
PollClose == \E i \in Ids : StartClose(i) \/ DropClose(i)
TimeOut == ReadTimeOut \/ WriteTimeOut \/ DirectoryTimeOut \/ CreateTimeOut

Next ==
  \/ Client \/ PollRead \/ PollWrite \/ PollDirectory \/ PollChain \/ PollClose
  \/ Answer \/ ContinuationEnds \/ TimeOut \/ TreeReadsDone \/ TreeWritesDone

(* serviceHandler() calls every poll in every pass; core 1 answers every
   request (VfsBridge!EveryRequestAnswered); the two waits end by time. *)
Fairness ==
  /\ WF_vars(PollRead) /\ WF_vars(PollWrite) /\ WF_vars(PollDirectory) /\ WF_vars(PollChain)
  /\ WF_vars(PollClose) /\ WF_vars(Answer) /\ WF_vars(ContinuationEnds)
  /\ WF_vars(TreeReadsDone) /\ WF_vars(TreeWritesDone)

Spec == Init /\ [][Next]_vars /\ Fairness

-----------------------------------------------------------------------------
(* Properties.                                                             *)

(* Types. *)
TypeOK ==
  /\ req \in [Ids -> [at : {"unsent", "queued", "slot", "done"}, kind : AllKinds \cup {"none"},
                      owner : Owners \cup {NoOwner}, size : 0..Windows, left : 0..Windows,
                      moved : Nat, cancel : BOOLEAN, live : BOOLEAN, replied : BOOLEAN,
                      phase : Recovery \cup {"new", "work", "stat", "commit", "open", "read", "mkdir", "apply"},
                      said : Seq({"ok", "error"})]]
  /\ active \in 0..MaxRequests
  /\ bridge \in [st : {"idle", "busy", "ok", "bad"}, for : 0..MaxRequests]
  /\ {lastOwner, cont} \subseteq Owners \cup {NoOwner}
  /\ phys \in [by : Owners \cup {NoOwner}, mode : {"none", "read", "write", "dir"}]
  /\ open \in [Owners -> {"open", "closed", "gone"}] /\ failed \in [Owners -> BOOLEAN]
  /\ link \in [Owners -> {"up", "gone"}]
  /\ task \in [phase : {"loop", "reads", "writes"}, owner : Owners \cup {NoOwner}]

(* A request is answered once, whatever times out, is cancelled or comes
   late; SUCCESS means that every window of it was moved; and no request
   leaves the queues unanswered while its client is there. *)
OneTrueAnswer ==
  \A i \in Ids :
    /\ Len(req[i].said) <= 1
    /\ req[i].kind \in {"READ", "WRITE"} /\ req[i].said = <<"ok">> => req[i].moved = req[i].size
    /\ req[i].at = "done" /\ req[i].live => Len(req[i].said) = 1

(* The exchange under way belongs to the request that will take its result:
   neither a time-out, a lost connection nor a failed WRITE leaves a result
   for the next one, or a bridge that nobody frees. *)
ResultIsOwn == bridge /= Idle => bridge.for = active /\ active \in Pending

(* FLUSH and CLOSE succeed after the WRITEs sent before them have ended,
   whichever owners the rotation serves in between.  A cancelled WRITE is
   not waited for (a lost connection takes the cancellation back). *)
BarrierHolds ==
  \A f \in Ids : req[f].kind \in {"FLUSH", "CLOSE"} /\ req[f].said = <<"ok">> =>
    \A w \in 1..f-1 : req[w].kind = "WRITE" /\ req[w].owner = req[f].owner =>
      req[w].at = "done" \/ req[w].cancel \/ ~req[w].live

(* The file and tree of a lost connection are freed, when the last of its
   requests the card was busy with has ended. *)
FilesFreed ==
  \A o \in Owners : link[o] = "gone" /\ (\A i \in Pending : req[i].owner /= o) => open[o] = "gone"

TwoReaders == \E i, j \in Of("READ") : req[i].owner /= req[j].owner

(* Every request leaves the queues (answered, by OneTrueAnswer), those of a
   lost connection too: finitely many are sent, so the queues become empty
   again and again.  Two exceptions of the code: READs of two owners stop
   the queue (ReadersServed), and a QUERY_DIRECTORY or CREATE cancelled while
   it waits is never looked at again. *)
Forgotten(i) == req[i].kind \in {"DIR", "CREATE"} /\ req[i].cancel
Served == []<>(TwoReaders \/ \A i \in Pending : Forgotten(i))

(* "A waiting slot does not hang: it rightly stands behind the active
   exchange" (asyncIoTimedOut): a READ that waits is answered.  It is not
   when two owners read more than a window each. *)
ReadersServed == \A i \in Ids : i \in Of("READ") ~> i \notin Of("READ")
=============================================================================
