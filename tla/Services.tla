------------------------------ MODULE Services ------------------------------
(***************************************************************************)
(* The services of the firmware and the two loops that start and stop      *)
(* them: Application (main.cpp) with FtpServer, SmbServer and OtaServer as *)
(* far as they run or do not, and the session of WcUpdateService.          *)
(*                                                                         *)
(* Core 1 passes one request of the Z80 at a time through `exchange_` to   *)
(* the network task of core 0, which carries it out and passes an answer   *)
(* back.  Starting a service means stopping the others first; the SMB      *)
(* server and the session are tasks of their own, are only asked to stop,  *)
(* and may not have done so when the wait for them ends.                   *)
(*                                                                         *)
(* All tasks of core 0 have the same priority and share its time, so that  *)
(* any of them goes on between two accesses to what they share.            *)
(***************************************************************************)
EXTENDS Naturals, Sequences

CONSTANTS
  Commands,     (* kinds of requests of the Z80, see Handler                 *)
  QueueSize     (* two: places in commands_                                  *)

VARIABLES
  (* between the cores                                                       *)
  command,      (* exchange_->requestCommand                                 *)
  answer,       (* exchange_->responseCommand, and whether it is a success   *)
  requestPending, requestToken, responseToken,
  (* the network task                                                        *)
  pc,           (* the step of the handler                                   *)
  handling,     (* the request it carries out                                *)
  seen,         (* taskAlive as SmbServer::stop() has just read it           *)
  ftp, ota,     (* running_ of FtpServer and OtaServer                       *)
  (* SmbServer                                                               *)
  smb,          (* the task: "none" or where it is                           *)
  taskAlive, runningFlag, stopRequested, listenerReady,
  (* WcUpdateService                                                         *)
  wcu,          (* its task: "none" or where it is                           *)
  taken,        (* the command it has taken                                  *)
  session,      (* task_ is set, and updater_ and commands_ exist            *)
  finished, applying,
  stop,         (* stop_ of the updater                                      *)
  commands      (* commands_                                                 *)

coreVars == <<command, answer, requestPending, requestToken, responseToken>>
handlerVars == <<pc, handling, seen>>
smbVars == <<smb, taskAlive, runningFlag, stopRequested, listenerReady>>
wcuVars == <<wcu, taken, session, finished, applying, stop, commands>>
vars == <<coreVars, handlerVars, ftp, ota, smbVars, wcuVars>>

NoCommand == "none"

(* What a request makes the network task do, step by step, up to its answer. *)
ProcessFtpStart ==
  [begin |-> "noOta", noOta |-> "stopWcu", stopWcu |-> "stopSmb",
   stopSmb |-> "stopFtp", stopFtp |-> "startFtp"]
ProcessFtpStop == [begin |-> "stopFtp", stopFtp |-> "answer"]
ProcessSmbStart ==
  [begin |-> "noOta", noOta |-> "stopFtp", stopFtp |-> "stopWcu",
   stopWcu |-> "stopSmb", stopSmb |-> "startSmb"]
ProcessSmbStop == [begin |-> "stopSmb", stopSmb |-> "answer"]
ProcessWcuStart ==
  [begin |-> "noOta", noOta |-> "stopFtp", stopFtp |-> "stopSmb",
   stopSmb |-> "stopWcu", stopWcu |-> "wifi", wifi |-> "startWcu"]
ProcessWcuApply == [begin |-> "applyWcu"]
ProcessWcuSync == [begin |-> "syncWcu"]
ProcessWcuStop == [begin |-> "stopWcu", stopWcu |-> "answer"]
ProcessUpdateStart ==
  [begin |-> "wifi", wifi |-> "stopFtp", stopFtp |-> "stopSmb",
   stopSmb |-> "startOta"]
ProcessUpdateStop == [begin |-> "stopOta"]
ProcessOnlineUpdate ==
  [begin |-> "wifi", wifi |-> "noOta", noOta |-> "stopFtp",
   stopFtp |-> "stopSmb", stopSmb |-> "install"]
(* NET_OPEN, NET_HTTP_GET and NET_PING. *)
ProcessNet ==
  [begin |-> "noOta", noOta |-> "parse", parse |-> "stopFtp", stopFtp |-> "fetch"]

Handler == [
  ftpStart |-> ProcessFtpStart, ftpStop |-> ProcessFtpStop,
  smbStart |-> ProcessSmbStart, smbStop |-> ProcessSmbStop,
  wcuStart |-> ProcessWcuStart, wcuStop |-> ProcessWcuStop,
  wcuApply |-> ProcessWcuApply, wcuSync |-> ProcessWcuSync,
  updateStart |-> ProcessUpdateStart, updateStop |-> ProcessUpdateStop,
  onlineUpdate |-> ProcessOnlineUpdate, net |-> ProcessNet]

ASSUME ServicesAssumption ==
  /\ Commands \subseteq DOMAIN Handler
  /\ QueueSize \in Nat \ {0}

-----------------------------------------------------------------------------
Init ==
  /\ command = NoCommand /\ answer = [to |-> NoCommand, ok |-> FALSE]
  /\ requestPending = FALSE /\ requestToken = FALSE /\ responseToken = FALSE
  /\ pc = "loop" /\ handling = NoCommand /\ seen = FALSE
  /\ ftp = FALSE /\ ota = FALSE
  /\ smb = "none" /\ taskAlive = FALSE /\ runningFlag = FALSE
  /\ stopRequested = FALSE /\ listenerReady = FALSE
  /\ wcu = "none" /\ taken = NoCommand /\ session = FALSE /\ finished = TRUE
  /\ applying = FALSE /\ stop = FALSE /\ commands = <<>>

(* SYS_RESET, an OTA image received, a panic. *)
Reboot ==
  /\ command' = NoCommand /\ answer' = [to |-> NoCommand, ok |-> FALSE]
  /\ requestPending' = FALSE /\ requestToken' = FALSE /\ responseToken' = FALSE
  /\ pc' = "loop" /\ handling' = NoCommand /\ seen' = FALSE
  /\ ftp' = FALSE /\ ota' = FALSE
  /\ smb' = "none" /\ taskAlive' = FALSE /\ runningFlag' = FALSE
  /\ stopRequested' = FALSE /\ listenerReady' = FALSE
  /\ wcu' = "none" /\ taken' = NoCommand /\ session' = FALSE /\ finished' = TRUE
  /\ applying' = FALSE /\ stop' = FALSE /\ commands' = <<>>

-----------------------------------------------------------------------------
(* Core 1.  A request that finds another one pending is refused, and changes
   nothing.  Variant: it is let through (AnswerMatches). *)
Put(c) ==
  /\ command' = c /\ requestToken' = TRUE /\ requestPending' = TRUE
  /\ UNCHANGED <<answer, responseToken, handlerVars, ftp, ota, smbVars, wcuVars>>

SubmitAlways(c) == ~requestToken /\ Put(c)
Submit(c) == ~requestPending /\ ~requestToken /\ Put(c)

(* The answer goes to the Z80.  After an update the ESP restarts. *)
TakeAnswer ==
  /\ requestPending /\ responseToken
  /\ IF answer = [to |-> "onlineUpdate", ok |-> TRUE]
       THEN Reboot
       ELSE /\ requestPending' = FALSE /\ responseToken' = FALSE
            /\ UNCHANGED <<command, answer, requestToken, handlerVars, ftp, ota,
                           smbVars, wcuVars>>

-----------------------------------------------------------------------------
(* The network task.                                                       *)
Goto(step) == pc' = step /\ UNCHANGED <<handling, seen>>

(* A step is done, or the request fails. *)
Then(step) == Goto(Handler[handling][step]) /\ UNCHANGED coreVars
Reply(success) ==
  /\ answer' = [to |-> handling, ok |-> success]
  /\ Goto("answer")
  /\ UNCHANGED <<command, requestPending, requestToken, responseToken>>

Receive ==
  /\ pc = "loop" /\ requestToken
  /\ requestToken' = FALSE
  /\ handling' = command
  /\ pc' = Handler[command].begin
  /\ UNCHANGED <<command, answer, requestPending, responseToken, seen, ftp, ota,
                 smbVars, wcuVars>>

Answer ==
  /\ pc = "answer"
  /\ responseToken' = TRUE
  /\ pc' = "loop" /\ handling' = NoCommand /\ seen' = FALSE
  /\ UNCHANGED <<command, answer, requestPending, requestToken, ftp, ota,
                 smbVars, wcuVars>>

NoOta ==
  /\ pc = "noOta"
  /\ IF ota THEN Reply(FALSE) ELSE Then("noOta")
  /\ UNCHANGED <<ftp, ota, smbVars, wcuVars>>

(* There is no connection, or the payload is not well formed.                *)
MayFail ==
  /\ pc \in {"wifi", "parse"}
  /\ Reply(FALSE) \/ Then(pc)
  /\ UNCHANGED <<ftp, ota, smbVars, wcuVars>>

(* FTP runs in the network task itself, so that it stops at once. *)
StopFtp ==
  /\ pc = "stopFtp"
  /\ ftp' = FALSE
  /\ IF Handler[handling].stopFtp = "answer" THEN Reply(TRUE) ELSE Then("stopFtp")
  /\ UNCHANGED <<ota, smbVars, wcuVars>>

StartFtp ==
  /\ pc = "startFtp"
  /\ \/ ftp' = TRUE /\ Reply(TRUE)
     \/ ftp' = FALSE /\ Reply(FALSE)
  /\ UNCHANGED <<ota, smbVars, wcuVars>>

StartOta ==
  /\ pc = "startOta"
  /\ \/ ota' = TRUE /\ Reply(TRUE)
     \/ ~ota /\ UNCHANGED ota /\ Reply(FALSE)
  /\ UNCHANGED <<ftp, smbVars, wcuVars>>

StopOta ==
  /\ pc = "stopOta"
  /\ ota' = FALSE /\ Reply(TRUE)
  /\ UNCHANGED <<ftp, smbVars, wcuVars>>

(* Downloading and installing an image, or talking to a host. *)
Fetch ==
  /\ pc \in {"install", "fetch"}
  /\ \E success \in BOOLEAN : Reply(success)
  /\ UNCHANGED <<ftp, ota, smbVars, wcuVars>>

-----------------------------------------------------------------------------
(* SmbServer::stop() waits up to three seconds for the task.  The last line
   that concerns runningFlag reads taskAlive and stores what it has read.
   Variant: the caller goes on all the same (OneBridgeUser). *)
SmbStoppedAlways(success) ==
  IF Handler[handling].stopSmb # "answer" THEN Then("stopSmb") ELSE Reply(success)
SmbStopped(success) ==
  IF success /\ Handler[handling].stopSmb # "answer" THEN Then("stopSmb")
    ELSE Reply(success)

StopSmb ==
  /\ pc = "stopSmb"
  /\ IF taskAlive
       THEN /\ stopRequested' = TRUE
            /\ Goto("awaitSmb") /\ UNCHANGED <<coreVars, runningFlag>>
       ELSE /\ runningFlag' = FALSE
            /\ SmbStopped(TRUE) /\ UNCHANGED stopRequested
  /\ UNCHANGED <<ftp, ota, smb, taskAlive, listenerReady, wcuVars>>

(* Whether or not the task has ended: the wait may have run out. *)
AwaitSmb ==
  /\ pc = "awaitSmb"
  /\ seen' = taskAlive
  /\ pc' = "flagSmb"
  /\ UNCHANGED <<handling, coreVars, ftp, ota, smbVars, wcuVars>>

FlagSmb ==
  /\ pc = "flagSmb"
  /\ runningFlag' = seen
  /\ Goto("resultSmb")
  /\ UNCHANGED <<coreVars, ftp, ota, smb, taskAlive, stopRequested, listenerReady,
                 wcuVars>>

ResultSmb ==
  /\ pc = "resultSmb"
  /\ SmbStopped(~taskAlive)
  /\ UNCHANGED <<ftp, ota, smbVars, wcuVars>>

(* SmbServer::start() may fail before it has begun; it then waits five seconds
   for the listener. *)
StartSmb ==
  /\ pc = "startSmb"
  /\ \/ Reply(FALSE) /\ UNCHANGED smbVars
     \/ /\ ~taskAlive
        /\ taskAlive' = TRUE /\ runningFlag' = FALSE
        /\ stopRequested' = FALSE /\ listenerReady' = FALSE
        /\ smb' = "serve"
        /\ Goto("awaitListener") /\ UNCHANGED coreVars
  /\ UNCHANGED <<ftp, ota, wcuVars>>

AwaitListener ==
  /\ pc = "awaitListener"
  /\ IF listenerReady
       THEN runningFlag' = TRUE /\ UNCHANGED stopRequested
       ELSE stopRequested' = TRUE /\ UNCHANGED runningFlag
  /\ Reply(listenerReady)
  /\ UNCHANGED <<ftp, ota, smb, taskAlive, listenerReady, wcuVars>>

(* The SMB task: smb2_serve_port(), which listens until it is told to stop or
   fails; what is left to finish on the card; the end, or another round. *)
SmbListens ==
  /\ smb = "serve" /\ ~listenerReady
  /\ listenerReady' = TRUE
  /\ UNCHANGED <<coreVars, handlerVars, ftp, ota, smb, taskAlive, runningFlag,
                 stopRequested, wcuVars>>

SmbServeEnds ==
  /\ smb = "serve"
  /\ listenerReady' = FALSE /\ smb' = "drain"
  /\ UNCHANGED <<coreVars, handlerVars, ftp, ota, taskAlive, runningFlag,
                 stopRequested, wcuVars>>

SmbDrained ==
  /\ smb = "drain"
  /\ IF stopRequested
       THEN smb' = "end" /\ runningFlag' = FALSE
       ELSE smb' = "serve" /\ UNCHANGED runningFlag
  /\ UNCHANGED <<coreVars, handlerVars, ftp, ota, taskAlive, stopRequested,
                 listenerReady, wcuVars>>

SmbEnds ==
  /\ smb = "end"
  /\ smb' = "none" /\ taskAlive' = FALSE
  /\ UNCHANGED <<coreVars, handlerVars, ftp, ota, runningFlag, stopRequested,
                 listenerReady, wcuVars>>

SmbTask == SmbListens \/ SmbServeEnds \/ SmbDrained \/ SmbEnds

-----------------------------------------------------------------------------
(* WcUpdateService::stop(): the flag, the command, the wait of twenty seconds,
   and the release of the session if its task has finished. *)
WcuStopped(success) ==
  IF success /\ Handler[handling].stopWcu # "answer" THEN Then("stopWcu")
    ELSE Reply(success)

(* Variant: a full queue is trusted to end the session (StopEnds). *)
NoFlag ==
  /\ UNCHANGED stop
  /\ Goto("sendStop")
SetFlag ==
  /\ stop' = TRUE
  /\ Goto("sendStop")

StopWcu ==
  /\ pc = "stopWcu"
  /\ IF session THEN SetFlag /\ UNCHANGED coreVars
       ELSE WcuStopped(TRUE) /\ UNCHANGED stop
  /\ UNCHANGED <<ftp, ota, smbVars, wcu, taken, session, finished, applying,
                 commands>>

(* Variant: the queue holds one more than it has places for (TypeOK). *)
RoomForOneMore == Len(commands) <= QueueSize
Room == Len(commands) < QueueSize

(* STOP waits 100 ms for a place. *)
SendStop ==
  /\ pc = "sendStop"
  /\ commands' = IF Room THEN Append(commands, "stop") ELSE commands
  /\ Goto("awaitWcu")
  /\ UNCHANGED <<coreVars, ftp, ota, smbVars, wcu, taken, session, finished,
                 applying, stop>>

(* Variant: the session is released when the wait has run out as well
   (SessionOutlivesTask). *)
Release ==
  /\ session' = FALSE /\ commands' = <<>>
  /\ WcuStopped(TRUE)
ReleaseAnyway == Release
ReleaseFinished == finished /\ Release

AwaitWcu ==
  /\ pc = "awaitWcu"
  /\ \/ ReleaseFinished
     \/ ~finished /\ WcuStopped(FALSE) /\ UNCHANGED <<session, commands>>
  /\ UNCHANGED <<ftp, ota, smbVars, wcu, taken, finished, applying, stop>>

StartWcu ==
  /\ pc = "startWcu"
  /\ \/ Reply(FALSE)
        /\ applying' \in (IF session THEN {applying} ELSE {applying, FALSE})
        /\ UNCHANGED <<wcu, taken, session, finished, stop, commands>>
     \/ /\ ~session
        /\ session' = TRUE /\ commands' = <<>> /\ stop' = FALSE
        /\ finished' = FALSE /\ applying' = FALSE
        /\ wcu' = "check" /\ taken' = NoCommand
        /\ Reply(TRUE)
  /\ UNCHANGED <<ftp, ota, smbVars>>

(* apply() sets its flag first, then sends; a list too long is refused as well.
   Variant: it sends whatever has been accepted before (ApplyOnce). *)
AcceptsMore == session /\ ~finished /\ ~stop
Accepts == session /\ ~finished /\ ~applying /\ ~stop

ApplyWcu ==
  /\ pc = "applyWcu"
  /\ \/ Accepts /\ applying' = TRUE /\ Goto("sendApply") /\ UNCHANGED coreVars
     \/ Reply(FALSE) /\ UNCHANGED applying
  /\ UNCHANGED <<ftp, ota, smbVars, wcu, taken, session, finished, stop, commands>>

SendApply ==
  /\ pc = "sendApply"
  /\ IF Room
       THEN commands' = Append(commands, "apply") /\ UNCHANGED applying
       ELSE applying' = FALSE /\ UNCHANGED commands
  /\ Reply(Room)
  /\ UNCHANGED <<ftp, ota, smbVars, wcu, taken, session, finished, stop>>

SyncWcu ==
  /\ pc = "syncWcu"
  /\ IF session /\ ~finished /\ ~stop /\ Room
       THEN commands' = Append(commands, "sync") /\ Reply(TRUE)
       ELSE UNCHANGED commands /\ Reply(FALSE)
  /\ UNCHANGED <<ftp, ota, smbVars, wcu, taken, session, finished, applying, stop>>

-----------------------------------------------------------------------------
(* The task of the session: the check, then one command after another. *)
WcuGoes(from, to) ==
  /\ wcu = from /\ wcu' = to
  /\ UNCHANGED <<coreVars, handlerVars, ftp, ota, smbVars, session, stop>>

WcuChecked ==
  /\ WcuGoes("check", "top")
  /\ UNCHANGED <<taken, finished, applying, commands>>

WcuLooks ==
  /\ WcuGoes("top", IF stop THEN "end" ELSE "receive")
  /\ UNCHANGED <<taken, finished, applying, commands>>

WcuReceives ==
  /\ WcuGoes("receive", "taken")
  /\ commands # <<>>
  /\ taken' = Head(commands) /\ commands' = Tail(commands)
  /\ UNCHANGED <<finished, applying>>

WcuDecides ==
  /\ WcuGoes("taken", IF taken = "stop" \/ stop THEN "end" ELSE taken)
  /\ UNCHANGED <<taken, finished, applying, commands>>

WcuApplied ==
  /\ WcuGoes("apply", "top")
  /\ applying' = FALSE /\ taken' = NoCommand
  /\ UNCHANGED <<finished, commands>>

WcuResent ==
  /\ WcuGoes("sync", "top")
  /\ taken' = NoCommand
  /\ UNCHANGED <<finished, applying, commands>>

WcuEnds ==
  /\ WcuGoes("end", "none")
  /\ finished' = TRUE
  /\ UNCHANGED <<taken, applying, commands>>

WcuTask ==
  \/ WcuChecked
  \/ WcuLooks
  \/ WcuReceives
  \/ WcuDecides
  \/ WcuApplied
  \/ WcuResent
  \/ WcuEnds

-----------------------------------------------------------------------------
NetworkTask ==
  \/ Receive
  \/ Answer
  \/ NoOta
  \/ MayFail
  \/ StopFtp
  \/ StartFtp
  \/ StartOta
  \/ StopOta
  \/ Fetch
  \/ StopSmb
  \/ AwaitSmb
  \/ FlagSmb
  \/ ResultSmb
  \/ StartSmb
  \/ AwaitListener
  \/ StopWcu
  \/ SendStop
  \/ AwaitWcu
  \/ StartWcu
  \/ ApplyWcu
  \/ SendApply
  \/ SyncWcu

Next ==
  \/ \E c \in Commands : Submit(c)
  \/ TakeAnswer
  \/ NetworkTask
  \/ SmbTask
  \/ WcuTask
  \/ Reboot

(* Every task of core 0 gets its share of it, and nothing in it waits without
   a limit; the Z80 sends what it likes. *)
Fairness == WF_vars(NetworkTask) /\ WF_vars(WcuTask)
Spec == Init /\ [][Next]_vars /\ Fairness
-----------------------------------------------------------------------------
Steps == {"loop", "answer", "noOta", "wifi", "parse", "stopFtp", "startFtp",
          "startOta", "stopOta", "install", "fetch", "stopSmb", "awaitSmb",
          "flagSmb", "resultSmb", "startSmb", "awaitListener", "stopWcu",
          "sendStop", "awaitWcu", "startWcu", "applyWcu", "sendApply", "syncWcu"}

(* Every variable has its type; commands_ never holds more than it has room
   for (wc_update_service.cpp:105). *)
TypeOK ==
  /\ command \in Commands \cup {NoCommand}
  /\ answer \in [to : Commands \cup {NoCommand}, ok : BOOLEAN]
  /\ requestPending \in BOOLEAN /\ requestToken \in BOOLEAN
  /\ responseToken \in BOOLEAN
  /\ pc \in Steps /\ handling \in Commands \cup {NoCommand}
  /\ seen \in BOOLEAN /\ ftp \in BOOLEAN /\ ota \in BOOLEAN
  /\ smb \in {"none", "serve", "drain", "end"}
  /\ taskAlive \in BOOLEAN /\ runningFlag \in BOOLEAN
  /\ stopRequested \in BOOLEAN /\ listenerReady \in BOOLEAN
  /\ wcu \in {"none", "check", "top", "receive", "taken", "apply", "sync", "end"}
  /\ taken \in {NoCommand, "apply", "sync", "stop"}
  /\ session \in BOOLEAN /\ finished \in BOOLEAN
  /\ applying \in BOOLEAN /\ stop \in BOOLEAN
  /\ commands \in Seq({"apply", "sync", "stop"}) /\ Len(commands) <= QueueSize

(* FTP, SMB and the session all use the one VFS bridge, and none of them runs
   while another does, however late a task that was told to stop ends; an OTA
   listener runs without a file server (main.cpp:568, 806). *)
OneBridgeUser ==
  /\ ftp => ~taskAlive /\ wcu = "none"
  /\ taskAlive => wcu = "none"
  /\ ota => ~ftp /\ ~taskAlive

(* exchange_ belongs to one core at a time: the network task carries out the
   request that was put there, and the answer the Z80 gets is the answer to
   it (main.cpp:1304-1322, 1411-1437). *)
AnswerMatches ==
  /\ pc # "loop" => requestPending /\ handling = command
  /\ responseToken => requestPending /\ answer.to = command

(* A list of files accepted by WCU_APPLY is carried out once: while a session
   is not stopped, applying_ is set exactly when one APPLY is on its way from
   its acceptance to its end (wc_update_service.cpp:144-147, 155-172).  Its
   places: before the queue, in it, and 0 when it has been taken. *)
OnTheWay ==
  {place \in 1..Len(commands) : commands[place] = "apply"}
  \cup (IF wcu \in {"taken", "apply"} /\ taken = "apply" THEN {0} ELSE {})
  \cup (IF pc = "sendApply" THEN {QueueSize + 1} ELSE {})

ApplyOnce ==
  session =>
    /\ \A p, q \in OnTheWay : p = q
    /\ ~finished /\ ~stop => (applying <=> OnTheWay # {})

(* What the task of a session uses is not deleted under it: stop() that has
   waited in vain leaves it to the next stop()
   (wc_update_service.cpp:82-92, 192-202). *)
SessionOutlivesTask ==
  /\ wcu # "none" => session /\ ~finished
  /\ ~session => commands = <<>>

(* A session told to stop ends, also when its queue had no room for STOP and
   also when an APPLY stood before it (wc_update_service.cpp:137-143, 190). *)
StopEnds == (pc = "sendStop") ~> (wcu = "none")

(* "OTA, FTP and SMB are started so as to exclude one another" (main.cpp:568):
   the network task serves FTP only while smb_.running() is false. *)
FtpServed == ftp => ~runningFlag
=============================================================================
