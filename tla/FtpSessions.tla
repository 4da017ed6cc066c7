---------------------------- MODULE FtpSessions ----------------------------
(***************************************************************************)
(* FtpSessions: the FTP server (ftp_server.cpp), its control connections   *)
(* and the commands that use the card, over the bridge to core 1.          *)
(*                                                                         *)
(* Everything runs on the network task of core 0, but a command waits in   *)
(* loops that serve the other sessions from inside: `stack` holds the      *)
(* commands being carried out, the innermost first, and vfsOwner_ is what  *)
(* keeps a second one from starting inside the first.  Core 1, the card    *)
(* and the peers go on meanwhile.                                          *)
(*                                                                         *)
(* A file is a sequence of chunks, each marked with the command that moved *)
(* it.  Names, listings, dates and the text of the answers are left out;   *)
(* CWD, SIZE, MDTM, MLST, DELE and MKD are the same single request here.   *)
(***************************************************************************)
EXTENDS Integers, Sequences

CONSTANTS
  Session,      (* sessions_, by index                                      *)
  RingSize,     (* chunks in a ring of the bridge                           *)
  Window,       (* chunks moved per request at most                         *)
  MaxChunks,    (* bound: chunks of a file, entries of a directory          *)
  MaxClients,   (* bound: control connections ever                          *)
  MaxLines      (* bound: commands ever received that use the card          *)

ASSUME FtpAssumption ==
  /\ Session \subseteq Nat \ {0}
  /\ RingSize \in Nat \ {0} /\ Window \in 1..RingSize
  /\ MaxChunks \in Nat /\ MaxClients \in Nat /\ MaxLines \in Nat

VARIABLES
  running,      (* running_                                                 *)
  slots,        (* sessions_: client, login, data endpoint, queued command  *)
  data,         (* dataClient of each session and what its peer has sent    *)
  owner,        (* vfsOwner_                                                *)
  stack,        (* commands being carried out                               *)
  stor,         (* storEof_, storError_, storReceived_ and, for the record, *)
                (* whether the server cut the upload off itself             *)
  bridge,       (* the request in the bridge                                *)
  toCard, fromCard,   (* its two rings                                      *)
  open,         (* what the card has open                                   *)
  file,         (* chunks written to the file open for writing              *)
  published,    (* the file a commit has left under its name                *)
  clients, lines      (* counted so far                                     *)

sessionVars == <<running, slots, data, clients>>
taskVars == <<owner, stack, stor, lines>>
cardVars == <<toCard, fromCard, open, file, published>>
vars == <<sessionVars, taskVars, bridge, cardVars>>

NoSlot == 0
NoClient == 0
NoLine == [id |-> 0, cmd |-> "none", client |-> NoClient]
NoData == [live |-> FALSE, unread |-> 0, eof |-> FALSE]
NewData == [live |-> TRUE, unread |-> 0, eof |-> FALSE]
IdleBridge == [pending |-> FALSE, answered |-> FALSE, ok |-> FALSE,
               op |-> "none", by |-> 0, count |-> 0]
NoFile == [by |-> 0, chunks |-> <<>>, received |-> 0, cut |-> FALSE]
NewStor == [eof |-> FALSE, error |-> FALSE, received |-> 0, cut |-> FALSE]

Cmds == {"STOR", "RETR", "LIST", "MFMT", "ONE"}
Top == stack[1]

Least(a, b) == IF a < b THEN a ELSE b

-----------------------------------------------------------------------------
(* A session whose control connection has just begun or ended: dropControl()
   and acceptControl() reset the same fields.  Variant: the queued command is
   kept (QueueIsOwn). *)
FreshKeepsQueue(s, client) ==
  [client |-> client, loggedIn |-> FALSE, endpoint |-> "none",
   queued |-> slots[s].queued]
Fresh(s, client) ==
  [client |-> client, loggedIn |-> FALSE, endpoint |-> "none",
   queued |-> NoLine]

Init ==
  /\ running = TRUE
  /\ slots = [s \in Session |->
                [client |-> NoClient, loggedIn |-> FALSE, endpoint |-> "none",
                 queued |-> NoLine]]
  /\ data = [s \in Session |-> NoData]
  /\ owner = NoSlot /\ stack = <<>> /\ stor = NewStor
  /\ bridge = IdleBridge /\ toCard = <<>> /\ fromCard = <<>>
  /\ open = "no" /\ file = <<>> /\ published = NoFile
  /\ clients = 0 /\ lines = 0

(* dropControl() *)
Dropped(s) == /\ slots' = [slots EXCEPT ![s] = Fresh(s, NoClient)]
              /\ data' = [data EXCEPT ![s] = NoData]

(* reply(): nothing is sent in a session that has been dropped. *)
Replied(s) ==
  \/ UNCHANGED <<slots, data>>
  \/ slots[s].client # NoClient /\ Dropped(s)

-----------------------------------------------------------------------------
(* serviceSessions(): between commands, and from inside the waits of one, for
   all the sessions but its own.                                            *)
OpeningPassive ==
  /\ Top.pc \in {"storData", "retrData", "listData"}
  /\ slots[Top.slot].endpoint = "passive"

Listening ==
  stack # <<>> =>
    Top.asked \/ Top.pc \in {"storLoop", "retrLoop"} \/ OpeningPassive

Serviced(s) == running /\ s # owner /\ Listening

(* acceptControl(): the first session without a client, whatever its last
   command may still be doing, or none. *)
AcceptControl ==
  /\ running /\ clients < MaxClients /\ Listening
  /\ clients' = clients + 1
  /\ LET available == {s \in Session : slots[s].client = NoClient}
     IN  \/ /\ available = {}
            /\ UNCHANGED <<slots, data>>
         \/ \E s \in available :
              /\ \A t \in available : s <= t
              /\ data' = [data EXCEPT ![s] = NoData]
              /\ slots' = [slots EXCEPT ![s] = Fresh(s, clients + 1)]
  /\ UNCHANGED <<running, taskVars, bridge, cardVars>>

(* receiveControl(): QUIT, a closed connection, five idle minutes. *)
LoseControl(s) ==
  /\ Serviced(s) /\ slots[s].client # NoClient
  /\ Dropped(s)
  /\ UNCHANGED <<running, clients, taskVars, bridge, cardVars>>

Login(s) ==
  /\ Serviced(s) /\ slots[s].client # NoClient /\ ~slots[s].loggedIn
  /\ slots[s].queued = NoLine
  /\ slots' = [slots EXCEPT ![s].loggedIn = TRUE]
  /\ UNCHANGED <<running, data, clients, taskVars, bridge, cardVars>>

(* enterPassive() and setActive() *)
SetEndpoint(s, endpoint) ==
  /\ Serviced(s) /\ slots[s].loggedIn /\ slots[s].queued = NoLine
  /\ slots[s].endpoint # endpoint
  /\ slots' = [slots EXCEPT ![s].endpoint = endpoint]
  /\ data' = [data EXCEPT ![s] = NoData]
  /\ UNCHANGED <<running, clients, taskVars, bridge, cardVars>>

-----------------------------------------------------------------------------
(* Requests to the bridge.                                                 *)

(* submit(): refused while a request is pending, also one that an earlier
   command has given up on. *)
Ask(after, run, op, count, pc) ==
  /\ stack' = <<[run EXCEPT !.pc = pc, !.asked = ~after.pending]>>
                \o Tail(stack)
  /\ bridge' = IF after.pending THEN after
               ELSE [pending |-> TRUE, answered |-> FALSE, ok |-> FALSE,
                     op |-> op, by |-> run.id, count |-> count]

(* Requests that core 1 may take longer over than awaitVfs() waits. *)
Slow == {"read", "write", "readDir", "commit", "abort"}

(* awaitVfs(): the answer, "bridge-busy", or "bridge-timeout" with the request
   left where it is. *)
Outcomes ==
  (IF Top.asked /\ bridge.answered
     THEN {[ok |-> bridge.ok, after |-> IdleBridge, count |-> bridge.count]}
     ELSE {})
  \cup (IF ~Top.asked \/ bridge.op \in Slow
          THEN {[ok |-> FALSE, after |-> bridge, count |-> 0]} ELSE {})

(* dispatchCommand() after the command; Variant: vfsOwner_ is not reset
   (CardIsReleased). *)
KeepOwner == owner
Release == IF owner = Top.slot THEN NoSlot ELSE owner
End(after) ==
  /\ stack' = Tail(stack) /\ owner' = Release /\ bridge' = after

Become(run) == stack' = <<[run EXCEPT !.asked = FALSE]>> \o Tail(stack)

(* executeCommand() up to the first request. *)
FirstStep ==
  [STOR |-> [op |-> "reset", pc |-> "storReset"],
   RETR |-> [op |-> "other", pc |-> "retrStat"],
   LIST |-> [op |-> "other", pc |-> "listOpen"],
   MFMT |-> [op |-> "other", pc |-> "mfmtStat"],
   ONE  |-> [op |-> "other", pc |-> "one"]]

Begin(s, line) ==
  /\ owner' = s
  /\ stack' = <<[slot |-> s, id |-> line.id, client |-> line.client,
                 pc |-> FirstStep[line.cmd].pc, asked |-> ~bridge.pending,
                 size |-> 0, sent |-> 0, failed |-> FALSE, alien |-> FALSE]>>
              \o stack
  /\ bridge' = IF bridge.pending THEN bridge
               ELSE [IdleBridge EXCEPT !.pending = TRUE, !.by = line.id,
                                       !.op = FirstStep[line.cmd].op]

(* Variant: a command never waits (CommandOwnsCard). *)
MustWaitNever(s) == FALSE
MustWait(s) == owner \notin {NoSlot, s}

(* dispatchCommand() of a line that uses the card; a second line is not even
   read while one is queued (receiveControl()).  A session that has not logged
   in is refused and nothing changes. *)
Dispatch(s, cmd) ==
  /\ Serviced(s) /\ slots[s].loggedIn /\ slots[s].queued = NoLine
  /\ lines < MaxLines
  /\ lines' = lines + 1
  /\ LET line == [id |-> lines + 1, cmd |-> cmd, client |-> slots[s].client]
     IN  \/ /\ MustWait(s)
            /\ slots' = [slots EXCEPT ![s].queued = line]
            /\ UNCHANGED <<owner, stack, bridge>>
         \/ /\ ~MustWait(s)
            /\ Begin(s, line)
            /\ UNCHANGED slots
  /\ UNCHANGED <<running, data, clients, stor, cardVars>>

(* runPendingCommand(): the first session with a queued line. *)
RunPending ==
  /\ running /\ stack = <<>> /\ owner = NoSlot
  /\ \E s \in Session :
       /\ slots[s].queued # NoLine
       /\ \A t \in Session : slots[t].queued # NoLine => s <= t
       /\ slots' = [slots EXCEPT ![s].queued = NoLine]
       /\ Begin(s, slots[s].queued)
  /\ UNCHANGED <<running, data, clients, stor, lines, cardVars>>

(* stop() and start(), between two calls of poll(). *)
Stop ==
  /\ running /\ stack = <<>>
  /\ running' = FALSE /\ owner' = NoSlot
  /\ slots' = [s \in Session |-> Fresh(s, NoClient)]
  /\ data' = [s \in Session |-> NoData]
  /\ UNCHANGED <<clients, stack, stor, lines, bridge, cardVars>>

Start ==
  /\ ~running /\ running' = TRUE
  /\ UNCHANGED <<slots, data, clients, taskVars, bridge, cardVars>>

(* Another service uses the bridge in the meantime: VfsBridge::reclaim() takes
   away an answer nobody took. *)
Reclaim ==
  /\ ~running /\ bridge.answered
  /\ bridge' = IdleBridge
  /\ UNCHANGED <<sessionVars, taskVars, cardVars>>

-----------------------------------------------------------------------------
(* openData() *)
ClosePassive(s) ==
  IF slots[s].endpoint = "passive" THEN "none" ELSE slots[s].endpoint

(* A refusal before the data connection: closePassive() and the answer, which
   ends the session if it does not go out. *)
Refused(s) ==
  \/ /\ slots' = [slots EXCEPT ![s].endpoint = ClosePassive(s)]
     /\ UNCHANGED data
  \/ slots[s].client # NoClient /\ Dropped(s)

Connected(s) ==
  /\ slots[s].endpoint # "none"
  /\ slots' = [slots EXCEPT ![s].endpoint = "none"]
  /\ data' = [data EXCEPT ![s] = NewData]

NotConnected(s) ==
  /\ data' = [data EXCEPT ![s] = NoData]
  /\ \/ slots' = [slots EXCEPT ![s].endpoint = "none"]
     \/ slots' = [slots EXCEPT ![s] = Fresh(s, NoClient)]

(* closeData() and an answer *)
ClosedAndReplied(s) ==
  /\ data' = [data EXCEPT ![s] = NoData]
  /\ \/ UNCHANGED slots
     \/ /\ slots[s].client # NoClient
        /\ slots' = [slots EXCEPT ![s] = Fresh(s, NoClient)]

-----------------------------------------------------------------------------
(* store().  Prefetching goes on from inside the waits for the card. *)
StorDataOpened ==
  /\ Top.pc = "storData"
  /\ \/ /\ Connected(Top.slot)
        /\ stor' = NewStor
        /\ Ask(bridge, Top, "openWrite", 0, "storOpen")
        /\ UNCHANGED owner
     \/ /\ NotConnected(Top.slot) /\ End(bridge) /\ UNCHANGED stor

StorReset ==
  /\ Top.pc = "storReset" /\ UNCHANGED stor
  /\ \E o \in Outcomes :
       \/ /\ o.ok /\ bridge' = o.after
          /\ Become([Top EXCEPT !.pc = "storData"])
          /\ UNCHANGED <<slots, data, owner>>
       \/ ~o.ok /\ Refused(Top.slot) /\ End(o.after)

(* The upload has all arrived, noticed or not. *)
Complete(s) == data[s].eof /\ data[s].unread = 0

(* The "150" that does not go out closes the data connection as well. *)
StorOpened ==
  /\ Top.pc = "storOpen"
  /\ \E o \in Outcomes :
       \/ /\ o.ok /\ bridge' = o.after
          /\ Become([Top EXCEPT !.pc = "storLoop"])
          /\ Replied(Top.slot)
          /\ stor' = [stor EXCEPT !.cut = /\ data'[Top.slot] = NoData
                                          /\ ~Complete(Top.slot)]
          /\ UNCHANGED owner
       \/ /\ ~o.ok /\ ClosedAndReplied(Top.slot) /\ End(o.after)
          /\ UNCHANGED stor

(* prefetchStore(), one chunk at a time. *)
Prefetch ==
  /\ stack # <<>>
  /\ \/ Top.pc \in {"storOpen", "storWrite"} /\ Top.asked
     \/ Top.pc = "storLoop"
  /\ ~stor.eof /\ ~stor.error
  /\ LET d == data[Top.slot]
     IN  \/ /\ d.unread > 0 /\ Len(toCard) < RingSize
            /\ data' = [data EXCEPT ![Top.slot].unread = d.unread - 1]
            /\ toCard' = Append(toCard, Top.id)
            /\ stor' = [stor EXCEPT !.received = stor.received + 1]
         \/ /\ d.unread > 0 /\ Len(toCard) < RingSize
            /\ stor' = [stor EXCEPT !.error = TRUE]
            /\ UNCHANGED <<data, toCard>>
         \/ /\ d.unread = 0 /\ (d.eof \/ ~d.live)
            /\ stor' = [stor EXCEPT !.eof = TRUE]
            /\ UNCHANGED <<data, toCard>>
  /\ UNCHANGED <<running, slots, clients, owner, stack, lines, bridge,
                 fromCard, open, file, published>>

(* A full window, or what is left at the end. *)
WindowReady == Len(toCard) >= Window \/ (stor.eof /\ toCard # <<>>)

(* Nothing came for a minute. *)
StorIdle == ~stor.eof /\ data[Top.slot].unread = 0

StorFail(after) == Ask(after, Top, "abort", 0, "storAbort")

StorLoop ==
  /\ Top.pc = "storLoop" /\ UNCHANGED <<slots, owner, stor>>
  /\ \/ /\ ~stor.error /\ WindowReady
        /\ Ask(bridge, Top, "write", Least(Len(toCard), Window), "storWrite")
        /\ UNCHANGED data
     \/ /\ stor.error \/ (~WindowReady /\ StorIdle)
           \/ (~WindowReady /\ stor.eof /\ stor.received = 0)
        /\ data' = [data EXCEPT ![Top.slot] = NoData]
        /\ StorFail(bridge)
     \/ /\ ~stor.error /\ ~WindowReady /\ stor.eof /\ stor.received # 0
        /\ data' = [data EXCEPT ![Top.slot] = NoData]
        /\ Ask(bridge, Top, "commit", 0, "storCommit")

StorWritten ==
  /\ Top.pc = "storWrite" /\ UNCHANGED <<slots, owner, stor>>
  /\ \E o \in Outcomes :
       \/ /\ o.ok /\ o.count # 0 /\ bridge' = o.after
          /\ Become([Top EXCEPT !.pc = "storLoop"])
          /\ UNCHANGED data
       \/ /\ ~o.ok \/ o.count = 0
          /\ data' = [data EXCEPT ![Top.slot] = NoData]
          /\ StorFail(o.after)

(* A STOR that has failed drops whoever is in its slot by then. *)
StorClosed ==
  /\ UNCHANGED stor
  /\ \E o \in Outcomes :
       \/ /\ Top.pc = "storAbort" \/ (Top.pc = "storCommit" /\ ~o.ok)
          /\ Ask(o.after, Top, "delete", 0, "storDelete")
          /\ UNCHANGED <<slots, data, owner>>
       \/ Top.pc = "storCommit" /\ o.ok /\ Replied(Top.slot) /\ End(o.after)
       \/ Top.pc = "storDelete" /\ Dropped(Top.slot) /\ End(o.after)

Store == StorReset \/ StorDataOpened \/ StorOpened \/ StorLoop
         \/ StorWritten \/ StorClosed

-----------------------------------------------------------------------------
(* retrieve() *)
RetrPrepared ==
  \E o \in Outcomes :
    \/ /\ ~o.ok /\ Top.pc \in {"retrStat", "retrReset", "retrOpen"}
       /\ Refused(Top.slot) /\ End(o.after)
    \/ /\ o.ok /\ Top.pc = "retrStat" /\ UNCHANGED <<slots, data, owner>>
       /\ \E size \in 0..MaxChunks :
            Ask(o.after, [Top EXCEPT !.size = size], "reset", 0, "retrReset")
    \/ /\ o.ok /\ Top.pc = "retrReset" /\ UNCHANGED <<slots, data, owner>>
       /\ Ask(o.after, Top, "openRead", 0, "retrOpen")
    \/ /\ o.ok /\ Top.pc = "retrOpen" /\ UNCHANGED owner
       /\ bridge' = o.after /\ Become([Top EXCEPT !.pc = "retrData"])
       /\ Replied(Top.slot)

RetrDataOpened ==
  /\ Top.pc = "retrData" /\ UNCHANGED owner
  /\ \/ /\ Connected(Top.slot) /\ UNCHANGED bridge
        /\ Become([Top EXCEPT !.pc = "retrLoop"])
     \/ /\ NotConnected(Top.slot)
        /\ Ask(bridge, Top, "commit", 0, "retrGiveUp")

RetrFinish(after, failed) ==
  /\ data' = [data EXCEPT ![Top.slot] = NoData] /\ UNCHANGED slots
  /\ Ask(after, [Top EXCEPT !.failed = failed], "commit", 0, "retrClose")

(* One chunk from the ring to the client; the ring is filled when empty. *)
RetrLoop ==
  /\ Top.pc = "retrLoop" /\ UNCHANGED <<owner, slots>>
  /\ \/ /\ Top.sent >= Top.size /\ RetrFinish(bridge, FALSE)
        /\ UNCHANGED fromCard
     \/ /\ Top.sent < Top.size /\ fromCard = <<>>
        /\ Ask(bridge, Top, "read", Least(Top.size - Top.sent, Window),
               "retrRead")
        /\ UNCHANGED <<data, fromCard>>
     \/ /\ Top.sent < Top.size /\ fromCard # <<>>
        /\ fromCard' = Tail(fromCard)
        /\ \/ /\ Become([Top EXCEPT !.sent = Top.sent + 1,
                           !.alien = Top.alien \/ fromCard[1] # Top.id])
              /\ UNCHANGED <<data, bridge>>
           \/ RetrFinish(bridge, TRUE)

RetrRead ==
  /\ Top.pc = "retrRead" /\ UNCHANGED <<owner, slots>>
  /\ \E o \in Outcomes :
       \/ /\ o.ok /\ o.count # 0 /\ bridge' = o.after
          /\ Become([Top EXCEPT !.pc = "retrLoop"])
          /\ UNCHANGED data
       \/ (~o.ok \/ o.count = 0) /\ RetrFinish(o.after, TRUE)

RetrClosed ==
  \E o \in Outcomes :
    \/ Top.pc = "retrClose" /\ Replied(Top.slot) /\ End(o.after)
    \/ Top.pc = "retrGiveUp" /\ UNCHANGED <<slots, data>> /\ End(o.after)

Retrieve == /\ UNCHANGED stor
            /\ \/ RetrLoop
               \/ /\ RetrPrepared \/ RetrDataOpened \/ RetrRead \/ RetrClosed
                  /\ UNCHANGED fromCard

-----------------------------------------------------------------------------
(* list(): a request per entry. *)
ListOpened ==
  /\ Top.pc = "listOpen"
  /\ \E o \in Outcomes :
       \/ ~o.ok /\ Refused(Top.slot) /\ End(o.after)
       \/ /\ o.ok /\ bridge' = o.after
          /\ Become([Top EXCEPT !.pc = "listData"])
          /\ Replied(Top.slot) /\ UNCHANGED owner

ListDataOpened ==
  /\ Top.pc = "listData"
  /\ \/ /\ Connected(Top.slot) /\ UNCHANGED owner
        /\ Ask(bridge, Top, "readDir", 0, "listRead")
     \/ NotConnected(Top.slot) /\ End(bridge)

ListRead ==
  /\ Top.pc = "listRead"
  /\ \E o \in Outcomes :
       \/ /\ o.ok /\ Top.sent < MaxChunks
          /\ Ask(o.after, [Top EXCEPT !.sent = Top.sent + 1], "readDir", 0,
                 "listRead")
          /\ UNCHANGED <<slots, data, owner>>
       \/ ClosedAndReplied(Top.slot) /\ End(o.after)

(* setModificationTime(): the file is closed whatever came of it. *)
Mfmt ==
  \E o \in Outcomes :
    \/ /\ ~o.ok /\ Top.pc \in {"mfmtStat", "mfmtOpen"}
       /\ Replied(Top.slot) /\ End(o.after)
    \/ /\ o.ok /\ Top.pc = "mfmtStat" /\ UNCHANGED <<slots, data, owner>>
       /\ Ask(o.after, Top, "openRandom", 0, "mfmtOpen")
    \/ /\ o.ok /\ Top.pc = "mfmtOpen" /\ UNCHANGED <<slots, data, owner>>
       /\ Ask(o.after, Top, "other", 0, "mfmtSet")
    \/ /\ Top.pc = "mfmtSet" /\ UNCHANGED <<slots, data, owner>>
       /\ Ask(o.after, Top, "commit", 0, "mfmtClose")
    \/ Top.pc = "mfmtClose" /\ Replied(Top.slot) /\ End(o.after)

(* CWD, SIZE, MDTM, MLST, DELE, MKD *)
One ==
  /\ Top.pc = "one"
  /\ \E o \in Outcomes : Replied(Top.slot) /\ End(o.after)

(* One step of the innermost command. *)
Carry ==
  /\ stack # <<>>
  /\ \/ Store /\ UNCHANGED fromCard
     \/ Retrieve
     \/ /\ ListOpened \/ ListDataOpened \/ ListRead \/ Mfmt \/ One
        /\ UNCHANGED <<stor, fromCard>>
  /\ UNCHANGED <<running, clients, lines, toCard, open, file, published>>

-----------------------------------------------------------------------------
(* The peer of a data connection sends, or is done. *)
Upload(s) ==
  /\ data[s].live /\ ~data[s].eof
  /\ stor.received + data[s].unread < MaxChunks
  /\ data' = [data EXCEPT ![s].unread = data[s].unread + 1]
  /\ UNCHANGED <<running, slots, clients, taskVars, bridge, cardVars>>

CloseUpload(s) ==
  /\ data[s].live /\ ~data[s].eof
  /\ data' = [data EXCEPT ![s].eof = TRUE]
  /\ UNCHANGED <<running, slots, clients, taskVars, bridge, cardVars>>

-----------------------------------------------------------------------------
(* Core 1: VfsBridge::processCore1() of one request, and the card.         *)

Finish(ok, count) ==
  bridge' = [bridge EXCEPT !.answered = TRUE, !.ok = ok, !.count = count]

(* Variants: a ring keeps what an earlier command left in it
   (PublishedIsReceived, RetrOwnBytes). *)
ClearRingsKeepIn == fromCard' = <<>> /\ UNCHANGED toCard
ClearRingsKeepOut == toCard' = <<>> /\ UNCHANGED fromCard
ClearRings == toCard' = <<>> /\ fromCard' = <<>>

ResetRings ==
  /\ bridge.op = "reset" /\ ClearRings /\ Finish(TRUE, 0)
  /\ UNCHANGED <<open, file, published>>

OpenMode == [openWrite |-> "write", openRead |-> "read",
             openRandom |-> "random"]

(* An open that fails leaves writeSession_ as a read would. *)
OpenFile ==
  /\ bridge.op \in DOMAIN OpenMode
  /\ \/ /\ open' = OpenMode[bridge.op] /\ Finish(TRUE, 0)
        /\ \/ bridge.op = "openWrite" /\ file' = <<>> /\ published' = NoFile
           \/ bridge.op # "openWrite" /\ UNCHANGED <<file, published>>
     \/ /\ Finish(FALSE, 0) /\ UNCHANGED published
        /\ open' = IF bridge.op = "openRead" THEN open ELSE "no"
        /\ UNCHANGED file
  /\ UNCHANGED <<toCard, fromCard>>

(* processWrite(): what the Z80 has confirmed leaves the ring, all or less. *)
WriteFile ==
  /\ bridge.op = "write"
  /\ LET wanted == Least(bridge.count, Len(toCard))
     IN  \E n \in 0..wanted :
           /\ file' = file \o SubSeq(toCard, 1, n)
           /\ toCard' = SubSeq(toCard, n + 1, Len(toCard))
           /\ Finish(n = wanted, n)
  /\ UNCHANGED <<fromCard, open, published>>

(* processRead(): "early-eof" is a success with nothing transferred. *)
ReadFile ==
  /\ bridge.op = "read"
  /\ \E n \in 0..Least(bridge.count, RingSize - Len(fromCard)) :
       /\ fromCard' = fromCard \o [i \in 1..n |-> bridge.by]
       /\ Finish(TRUE, n) \/ Finish(FALSE, n)
  /\ UNCHANGED <<toCard, open, file, published>>

(* kCloseCommit: refused while part of an upload is still in the ring.  A
   write that failed is reported here as well, and the file may be there. *)
CommitFile ==
  /\ bridge.op = "commit"
  /\ LET writes == open \in {"write", "random"}
     IN  \/ /\ writes /\ toCard # <<>>
            /\ Finish(FALSE, 0) /\ UNCHANGED <<open, published>>
         \/ /\ ~(writes /\ toCard # <<>>)
            /\ Finish(TRUE, 0) \/ Finish(FALSE, 0)
            /\ open' = "no"
            /\ published' =
                 IF open = "write"
                   THEN [by |-> bridge.by, chunks |-> file,
                         received |-> stor.received, cut |-> stor.cut]
                   ELSE published
  /\ UNCHANGED <<toCard, fromCard, file>>

AbortFile ==
  /\ bridge.op = "abort"
  /\ Finish(TRUE, 0) \/ Finish(FALSE, 0)
  /\ open' = "no" /\ toCard' = <<>>
  /\ UNCHANGED <<fromCard, file, published>>

OtherRequest ==
  /\ bridge.op \in {"delete", "other", "readDir"}
  /\ Finish(TRUE, 0) \/ Finish(FALSE, 0)
  /\ published' = IF bridge.op = "delete" /\ bridge'.ok THEN NoFile
                  ELSE published
  /\ UNCHANGED <<toCard, fromCard, open, file>>

Core1 ==
  /\ bridge.pending /\ ~bridge.answered
  /\ \/ ResetRings \/ OpenFile \/ WriteFile \/ ReadFile \/ CommitFile
     \/ AbortFile \/ OtherRequest
  /\ UNCHANGED <<sessionVars, taskVars>>

-----------------------------------------------------------------------------
Next ==
  \/ AcceptControl
  \/ \E s \in Session :
       \/ LoseControl(s) \/ Login(s)
       \/ \E endpoint \in {"passive", "active"} : SetEndpoint(s, endpoint)
       \/ \E cmd \in Cmds : Dispatch(s, cmd)
       \/ Upload(s) \/ CloseUpload(s)
  \/ RunPending \/ Stop \/ Start \/ Reclaim
  \/ Prefetch \/ Carry \/ Core1

(* Both tasks keep running; the peers and the card owe nothing. *)
Spec == /\ Init /\ [][Next]_vars
        /\ WF_vars(Prefetch) /\ WF_vars(Carry) /\ WF_vars(Core1)

-----------------------------------------------------------------------------
TypeOK ==
  /\ running \in BOOLEAN
  /\ owner \in Session \cup {NoSlot}
  /\ \A s \in Session :
       /\ slots[s].client \in 0..clients
       /\ slots[s].loggedIn => slots[s].client # NoClient
       /\ data[s].unread \in 0..MaxChunks
  /\ Len(toCard) <= RingSize /\ Len(fromCard) <= RingSize
  /\ stor.received \in 0..MaxChunks

(* However the sessions interleave, one command at a time uses the card, it is
   the one vfsOwner_ names, and the answer in the bridge is to its request. *)
CommandOwnsCard ==
  /\ Len(stack) <= 1
  /\ stack = <<>> <=> owner = NoSlot
  /\ stack # <<>> => /\ owner = Top.slot
                     /\ Top.asked => bridge.pending /\ bridge.by = Top.id

(* A queued line is executed for the client that sent it, also when the
   session has been dropped and taken by another in the meantime. *)
QueueIsOwn ==
  \A s \in Session :
    slots[s].queued # NoLine => slots[s].queued.client = slots[s].client

(* A download never sends bytes that another command left in the ring. *)
RetrOwnBytes == \A i \in 1..Len(stack) : ~stack[i].alien

(* A file a STOR has published is what came over its data connection: every
   chunk, nothing of another upload. *)
PublishedIsReceived ==
  published # NoFile =>
    /\ Len(published.chunks) = published.received
    /\ \A i \in 1..Len(published.chunks) : published.chunks[i] = published.by

(* ... and the server has not ended it itself: "an interrupted STOR is not
   published as a success". *)
CommitAtClientEof == ~published.cut

(* Whatever the card and the peers do or fail to do, a command that has the
   card lets go of it. *)
CardIsReleased == owner # NoSlot ~> owner = NoSlot
=============================================================================
