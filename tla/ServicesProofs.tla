--------------------------- MODULE ServicesProofs ---------------------------
(***************************************************************************)
(* Proofs about Services, in three layers: the request and the path of its *)
(* handler (RequestInv), the tasks and what has been stopped so far on     *)
(* that path (OrderInv), and the commands of a session (ApplyOnce).  They  *)
(* hold for every choice of requests and every size of the queue.          *)
(***************************************************************************)
EXTENDS Services, TLAPS

StoppingSmb == {"stopSmb", "awaitSmb", "flagSmb", "resultSmb"}
StoppingWcu == {"stopWcu", "sendStop", "awaitWcu"}

(* The steps of each request before its answer. *)
InPath(h, p) ==
  \/ h = "ftpStart" /\ p \in {"noOta", "stopFtp", "startFtp"}
                             \cup StoppingSmb \cup StoppingWcu
  \/ h = "ftpStop" /\ p = "stopFtp"
  \/ h = "smbStart" /\ p \in {"noOta", "stopFtp", "startSmb", "awaitListener"}
                             \cup StoppingSmb \cup StoppingWcu
  \/ h = "smbStop" /\ p \in StoppingSmb
  \/ h = "wcuStart" /\ p \in {"noOta", "stopFtp", "wifi", "startWcu"}
                             \cup StoppingSmb \cup StoppingWcu
  \/ h = "wcuStop" /\ p \in StoppingWcu
  \/ h = "wcuApply" /\ p \in {"applyWcu", "sendApply"}
  \/ h = "wcuSync" /\ p = "syncWcu"
  \/ h = "updateStart" /\ p \in {"wifi", "stopFtp", "startOta"} \cup StoppingSmb
  \/ h = "updateStop" /\ p = "stopOta"
  \/ h = "onlineUpdate" /\ p \in {"wifi", "noOta", "stopFtp", "install"}
                                 \cup StoppingSmb
  \/ h = "net" /\ p \in {"noOta", "parse", "stopFtp", "fetch"}

(* The entries of Handler. *)
LEMMA Entries ==
  /\ Handler["ftpStart"] = ProcessFtpStart /\ Handler["ftpStop"] = ProcessFtpStop
  /\ Handler["smbStart"] = ProcessSmbStart /\ Handler["smbStop"] = ProcessSmbStop
  /\ Handler["wcuStart"] = ProcessWcuStart /\ Handler["wcuStop"] = ProcessWcuStop
  /\ Handler["wcuApply"] = ProcessWcuApply /\ Handler["wcuSync"] = ProcessWcuSync
  /\ Handler["updateStart"] = ProcessUpdateStart
  /\ Handler["updateStop"] = ProcessUpdateStop
  /\ Handler["onlineUpdate"] = ProcessOnlineUpdate
  /\ Handler["net"] = ProcessNet
  /\ DOMAIN Handler = {"ftpStart", "ftpStop", "smbStart", "smbStop", "wcuStart",
                       "wcuStop", "wcuApply", "wcuSync", "updateStart",
                       "updateStop", "onlineUpdate", "net"}
  BY DEF Handler

(* The first step of a request is on its path. *)
LEMMA FirstStep ==
  ASSUME NEW h \in DOMAIN Handler
  PROVE  InPath(h, Handler[h].begin)
  BY Entries DEF InPath, StoppingSmb, StoppingWcu, ProcessFtpStart,
     ProcessFtpStop, ProcessSmbStart, ProcessSmbStop, ProcessWcuStart,
     ProcessWcuStop, ProcessWcuApply, ProcessWcuSync, ProcessUpdateStart,
     ProcessUpdateStop, ProcessOnlineUpdate, ProcessNet

(* What comes after a step that can be followed by different ones. *)
LEMMA AfterNoOta ==
  ASSUME NEW h, InPath(h, "noOta")
  PROVE  \/ h = "ftpStart" /\ Handler[h]["noOta"] = "stopWcu"
         \/ h \in {"smbStart", "wcuStart", "onlineUpdate"}
            /\ Handler[h]["noOta"] = "stopFtp"
         \/ h = "net" /\ Handler[h]["noOta"] = "parse"
  BY Entries DEF InPath, StoppingSmb, StoppingWcu, ProcessFtpStart,
     ProcessSmbStart, ProcessWcuStart, ProcessOnlineUpdate, ProcessNet

LEMMA AfterCheck ==
  ASSUME NEW h, NEW p \in {"wifi", "parse"}, InPath(h, p)
  PROVE  \/ h = "wcuStart" /\ Handler[h][p] = "startWcu"
         \/ h \in {"updateStart", "net"} /\ Handler[h][p] = "stopFtp"
         \/ h = "onlineUpdate" /\ Handler[h][p] = "noOta"
  BY Entries DEF InPath, StoppingSmb, StoppingWcu, ProcessWcuStart,
     ProcessUpdateStart, ProcessOnlineUpdate, ProcessNet

LEMMA AfterStopFtp ==
  ASSUME NEW h, InPath(h, "stopFtp")
  PROVE  \/ h = "ftpStart" /\ Handler[h]["stopFtp"] = "startFtp"
         \/ h = "ftpStop" /\ Handler[h]["stopFtp"] = "answer"
         \/ h = "smbStart" /\ Handler[h]["stopFtp"] = "stopWcu"
         \/ h \in {"wcuStart", "updateStart", "onlineUpdate"}
            /\ Handler[h]["stopFtp"] = "stopSmb"
         \/ h = "net" /\ Handler[h]["stopFtp"] = "fetch"
  BY Entries DEF InPath, StoppingSmb, StoppingWcu, ProcessFtpStart,
     ProcessFtpStop, ProcessSmbStart, ProcessWcuStart, ProcessUpdateStart,
     ProcessOnlineUpdate, ProcessNet

LEMMA AfterStopSmb ==
  ASSUME NEW h, NEW p \in StoppingSmb, InPath(h, p)
  PROVE  \/ h = "ftpStart" /\ Handler[h]["stopSmb"] = "stopFtp"
         \/ h = "smbStart" /\ Handler[h]["stopSmb"] = "startSmb"
         \/ h = "smbStop" /\ Handler[h]["stopSmb"] = "answer"
         \/ h = "wcuStart" /\ Handler[h]["stopSmb"] = "stopWcu"
         \/ h = "updateStart" /\ Handler[h]["stopSmb"] = "startOta"
         \/ h = "onlineUpdate" /\ Handler[h]["stopSmb"] = "install"
  BY Entries DEF InPath, StoppingSmb, StoppingWcu, ProcessFtpStart,
     ProcessSmbStart, ProcessSmbStop, ProcessWcuStart, ProcessUpdateStart,
     ProcessOnlineUpdate

LEMMA AfterStopWcu ==
  ASSUME NEW h, NEW p \in StoppingWcu, InPath(h, p)
  PROVE  \/ h = "ftpStart" /\ Handler[h]["stopWcu"] = "stopSmb"
         \/ h = "smbStart" /\ Handler[h]["stopWcu"] = "stopSmb"
         \/ h = "wcuStart" /\ Handler[h]["stopWcu"] = "wifi"
         \/ h = "wcuStop" /\ Handler[h]["stopWcu"] = "answer"
  BY Entries DEF InPath, StoppingSmb, StoppingWcu, ProcessFtpStart,
     ProcessSmbStart, ProcessWcuStart, ProcessWcuStop

-----------------------------------------------------------------------------
(* The request of the Z80, on either core. *)
RequestTypes ==
  /\ command \in Commands \cup {NoCommand}
  /\ answer \in [to : Commands \cup {NoCommand}, ok : BOOLEAN]
  /\ requestPending \in BOOLEAN /\ requestToken \in BOOLEAN
  /\ responseToken \in BOOLEAN
  /\ pc \in Steps /\ handling \in Commands \cup {NoCommand}
  /\ seen \in BOOLEAN

Tokens ==
  /\ pc # "loop" => /\ requestPending /\ ~requestToken /\ ~responseToken
                    /\ handling = command /\ command \in Commands
  /\ requestToken => requestPending /\ ~responseToken /\ command \in Commands
  /\ responseToken => requestPending /\ answer.to = command
  /\ pc = "answer" => answer.to = command

RequestInv ==
  /\ RequestTypes
  /\ Tokens
  /\ pc \notin {"loop", "answer"} => InPath(handling, pc)

ServiceTypes ==
  /\ ftp \in BOOLEAN /\ ota \in BOOLEAN
  /\ smb \in {"none", "serve", "drain", "end"}
  /\ taskAlive \in BOOLEAN /\ runningFlag \in BOOLEAN
  /\ stopRequested \in BOOLEAN /\ listenerReady \in BOOLEAN
  /\ wcu \in {"none", "check", "top", "receive", "taken", "apply", "sync", "end"}
  /\ taken \in {NoCommand, "apply", "sync", "stop"}
  /\ session \in BOOLEAN /\ finished \in BOOLEAN
  /\ applying \in BOOLEAN /\ stop \in BOOLEAN
  /\ commands \in Seq({"apply", "sync", "stop"}) /\ Len(commands) <= QueueSize
  /\ wcu = "taken" => taken # NoCommand

LEMMA PathSteps ==
  ASSUME NEW h, NEW p, InPath(h, p)
  PROVE  p \in Steps \ {"loop", "answer"}
  BY DEF InPath, StoppingSmb, StoppingWcu, Steps

(* A request that is answered, and one that goes on along its path. *)
LEMMA RequestReply ==
  ASSUME RequestInv, pc # "loop", NEW s \in BOOLEAN, Reply(s)
  PROVE  RequestInv'
<1>1. answer' = [to |-> command, ok |-> s] /\ answer'.to = command
  BY DEF Reply, RequestInv, Tokens
<1>2. RequestTypes'
  BY <1>1 DEF Reply, Goto, RequestInv, RequestTypes, Tokens, Steps
<1>3. Tokens'
  BY <1>1 DEF Reply, Goto, RequestInv, Tokens
<1> QED BY <1>2, <1>3 DEF Reply, Goto, RequestInv

LEMMA RequestGoes ==
  ASSUME RequestInv, pc # "loop", NEW p, InPath(handling, p), Goto(p),
         UNCHANGED coreVars
  PROVE  RequestInv'
<1>1. p \in Steps \ {"loop", "answer"}
  BY PathSteps
<1> QED BY <1>1 DEF Goto, coreVars, RequestInv, RequestTypes, Tokens

LEMMA RequestStays ==
  ASSUME RequestInv, UNCHANGED <<coreVars, handlerVars>>
  PROVE  RequestInv'
  BY DEF coreVars, handlerVars, RequestInv, RequestTypes, Tokens

LEMMA RequestThenSmb ==
  ASSUME RequestInv, pc \in StoppingSmb, NEW s \in BOOLEAN, SmbStopped(s)
  PROVE  RequestInv'
<1>1. pc # "loop" /\ pc # "answer" /\ InPath(handling, pc)
  BY DEF StoppingSmb, RequestInv
<1>2. CASE s /\ Handler[handling].stopSmb # "answer"
  <2>1. Then("stopSmb")
    BY <1>2 DEF SmbStopped
  <2>2. InPath(handling, Handler[handling]["stopSmb"])
    BY <1>1, <1>2, AfterStopSmb DEF InPath, StoppingSmb, StoppingWcu
  <2> QED BY <1>1, <2>1, <2>2, RequestGoes DEF Then
<1>3. CASE ~(s /\ Handler[handling].stopSmb # "answer")
  BY <1>1, <1>3, RequestReply DEF SmbStopped
<1> QED BY <1>2, <1>3

LEMMA RequestThenWcu ==
  ASSUME RequestInv, pc \in StoppingWcu, NEW s \in BOOLEAN, WcuStopped(s)
  PROVE  RequestInv'
<1>1. pc # "loop" /\ pc # "answer" /\ InPath(handling, pc)
  BY DEF StoppingWcu, RequestInv
<1>2. CASE s /\ Handler[handling].stopWcu # "answer"
  <2>1. Then("stopWcu")
    BY <1>2 DEF WcuStopped
  <2>2. InPath(handling, Handler[handling]["stopWcu"])
    BY <1>1, <1>2, AfterStopWcu DEF InPath, StoppingSmb, StoppingWcu
  <2> QED BY <1>1, <2>1, <2>2, RequestGoes DEF Then
<1>3. CASE ~(s /\ Handler[handling].stopWcu # "answer")
  BY <1>1, <1>3, RequestReply DEF WcuStopped
<1> QED BY <1>2, <1>3

LEMMA RequestInit ==
  ASSUME Init
  PROVE  RequestInv
<1>1. answer \in [to : Commands \cup {NoCommand}, ok : BOOLEAN]
  BY DEF Init
<1>2. pc \in Steps /\ pc = "loop"
  BY DEF Init, Steps
<1>3. RequestTypes
  BY <1>1, <1>2 DEF Init, RequestTypes
<1>4. Tokens
  BY DEF Init, Tokens
<1> QED BY <1>2, <1>3, <1>4 DEF RequestInv

(* Core 1, and both ends of the exchange. *)
LEMMA RequestCores ==
  ASSUME RequestInv,
         (\E c \in Commands : Submit(c)) \/ TakeAnswer \/ Receive \/ Answer \/ Reboot
  PROVE  RequestInv'
<1>1. CASE Reboot
  BY <1>1 DEF Reboot, RequestInv, RequestTypes, Tokens, Steps
<1>2. ASSUME NEW c \in Commands, Submit(c) PROVE RequestInv'
  <2>1. pc = "loop" /\ ~responseToken
    BY <1>2 DEF Submit, RequestInv, Tokens
  <2> QED BY <1>2, <2>1 DEF Submit, Put, handlerVars, RequestInv, RequestTypes,
             Tokens
<1>3. CASE TakeAnswer
  <2>1. CASE answer = [to |-> "onlineUpdate", ok |-> TRUE]
    BY <1>1, <1>3, <2>1 DEF TakeAnswer
  <2>2. CASE answer # [to |-> "onlineUpdate", ok |-> TRUE]
    <3>1. pc = "loop" /\ ~requestToken
      BY <1>3 DEF TakeAnswer, RequestInv, Tokens
    <3> QED BY <1>3, <2>2, <3>1 DEF TakeAnswer, handlerVars, RequestInv,
               RequestTypes, Tokens
  <2> QED BY <2>1, <2>2
<1>4. CASE Receive
  <2>1. command \in Commands /\ requestPending /\ ~responseToken
    BY <1>4 DEF Receive, RequestInv, Tokens
  <2>2. InPath(command, Handler[command].begin)
    BY <2>1, FirstStep, ServicesAssumption
  <2>3. Handler[command].begin \in Steps \ {"loop", "answer"}
    BY <2>2, PathSteps
  <2> QED BY <1>4, <2>1, <2>2, <2>3 DEF Receive, RequestInv, RequestTypes, Tokens
<1>5. CASE Answer
  BY <1>5 DEF Answer, RequestInv, RequestTypes, Tokens, Steps
<1> QED BY <1>1, <1>2, <1>3, <1>4, <1>5

(* Every step between the two follows the path of the request. *)
LEMMA RequestHandler ==
  ASSUME RequestInv, ServiceTypes, NetworkTask
  PROVE  RequestInv'
<1>1. CASE pc \in {"loop", "answer"}
  <2>1. Receive \/ Answer
    BY <1>1 DEF NetworkTask, Receive, Answer, NoOta, MayFail, StopFtp, StartFtp,
       StartOta, StopOta, Fetch, StopSmb, AwaitSmb, FlagSmb, ResultSmb, StartSmb,
       AwaitListener, StopWcu, SendStop, AwaitWcu, StartWcu, ApplyWcu, SendApply,
       SyncWcu
  <2> QED BY <2>1, RequestCores
<1>2. CASE pc \notin {"loop", "answer"}
  <2>p. InPath(handling, pc) /\ pc # "loop" /\ pc # "answer"
    BY <1>2 DEF RequestInv
  <2>1. CASE Receive \/ Answer
    BY <1>2, <2>1 DEF Receive, Answer
  <2>2. CASE NoOta
    <3>1. InPath(handling, Handler[handling]["noOta"])
      BY <2>p, <2>2, AfterNoOta DEF NoOta, InPath, StoppingSmb, StoppingWcu
    <3> QED BY <2>p, <2>2, <3>1, RequestReply, RequestGoes DEF NoOta, Then
  <2>3. CASE MayFail
    <3>1. InPath(handling, Handler[handling][pc])
      BY <2>p, <2>3, AfterCheck DEF MayFail, InPath, StoppingSmb, StoppingWcu
    <3> QED BY <2>p, <2>3, <3>1, RequestReply, RequestGoes DEF MayFail, Then
  <2>4. CASE StopFtp
    <3>1. Handler[handling].stopFtp = "answer"
          \/ InPath(handling, Handler[handling]["stopFtp"])
      BY <2>p, <2>4, AfterStopFtp DEF StopFtp, InPath, StoppingSmb, StoppingWcu
    <3> QED BY <2>p, <2>4, <3>1, RequestReply, RequestGoes DEF StopFtp, Then
  <2>5. CASE StartFtp \/ StartOta \/ StopOta \/ Fetch \/ SyncWcu \/ StartWcu
    BY <2>p, <2>5, RequestReply DEF StartFtp, StartOta, StopOta, Fetch, SyncWcu,
       StartWcu
  <2>6. CASE StopSmb
    <3>1. pc \in StoppingSmb
      BY <2>6 DEF StopSmb, StoppingSmb
    <3>2. CASE taskAlive
      <4>1. InPath(handling, "awaitSmb")
        BY <2>p, <2>6 DEF StopSmb, InPath, StoppingSmb, StoppingWcu
      <4> QED BY <2>p, <2>6, <3>2, <4>1, RequestGoes DEF StopSmb
    <3>3. CASE ~taskAlive
      BY <2>6, <3>1, <3>3, RequestThenSmb DEF StopSmb
    <3> QED BY <3>2, <3>3
  <2>7. CASE AwaitSmb
    <3>1. InPath(handling, "flagSmb")
      BY <2>p, <2>7 DEF AwaitSmb, InPath, StoppingSmb, StoppingWcu
    <3>2. seen' \in BOOLEAN
      BY <2>7 DEF AwaitSmb, ServiceTypes
    <3> QED BY <2>p, <2>7, <3>1, <3>2 DEF AwaitSmb, coreVars, RequestInv,
               RequestTypes, Tokens, Steps
  <2>8. CASE FlagSmb
    <3>1. InPath(handling, "resultSmb")
      BY <2>p, <2>8 DEF FlagSmb, InPath, StoppingSmb, StoppingWcu
    <3> QED BY <2>p, <2>8, <3>1, RequestGoes DEF FlagSmb
  <2>9. CASE ResultSmb
    BY <2>9, RequestThenSmb DEF ResultSmb, StoppingSmb
  <2>10. CASE StartSmb
    <3>1. InPath(handling, "awaitListener")
      BY <2>p, <2>10 DEF StartSmb, InPath, StoppingSmb, StoppingWcu
    <3> QED BY <2>p, <2>10, <3>1, RequestGoes, RequestReply DEF StartSmb
  <2>11. CASE AwaitListener
    BY <2>p, <2>11, RequestReply DEF AwaitListener, ServiceTypes
  <2>12. CASE StopWcu
    <3>1. InPath(handling, "sendStop") /\ pc \in StoppingWcu
      BY <2>p, <2>12 DEF StopWcu, InPath, StoppingSmb, StoppingWcu
    <3>2. CASE session
      BY <2>p, <2>12, <3>1, <3>2, RequestGoes DEF StopWcu, SetFlag
    <3>3. CASE ~session
      BY <2>12, <3>1, <3>3, RequestThenWcu DEF StopWcu
    <3> QED BY <3>2, <3>3
  <2>13. CASE SendStop
    <3>1. InPath(handling, "awaitWcu")
      BY <2>p, <2>13 DEF SendStop, InPath, StoppingSmb, StoppingWcu
    <3> QED BY <2>p, <2>13, <3>1, RequestGoes DEF SendStop
  <2>14. CASE AwaitWcu
    BY <2>14, RequestThenWcu DEF AwaitWcu, ReleaseFinished, Release, StoppingWcu
  <2>15. CASE ApplyWcu
    <3>1. InPath(handling, "sendApply")
      BY <2>p, <2>15 DEF ApplyWcu, InPath, StoppingSmb, StoppingWcu
    <3> QED BY <2>p, <2>15, <3>1, RequestGoes, RequestReply DEF ApplyWcu
  <2>16. CASE SendApply
    <3>1. Room \in BOOLEAN
      BY DEF Room
    <3> QED BY <2>p, <2>16, <3>1, RequestReply DEF SendApply
  <2> QED BY <2>1, <2>2, <2>3, <2>4, <2>5, <2>6, <2>7, <2>8, <2>9, <2>10, <2>11,
             <2>12, <2>13, <2>14, <2>15, <2>16 DEF NetworkTask
<1> QED BY <1>1, <1>2

(* The tasks of core 0 leave the request alone. *)
LEMMA RequestStep ==
  ASSUME RequestInv, ServiceTypes, [Next]_vars
  PROVE  RequestInv'
<1>1. CASE SmbTask
  BY <1>1, RequestStays DEF SmbTask, SmbListens, SmbServeEnds, SmbDrained, SmbEnds
<1>2. CASE WcuTask
  BY <1>2, RequestStays DEF WcuTask, WcuChecked, WcuLooks, WcuReceives, WcuDecides,
     WcuApplied, WcuResent, WcuEnds, WcuGoes
<1>3. CASE UNCHANGED vars
  BY <1>3, RequestStays DEF vars
<1> QED BY <1>1, <1>2, <1>3, RequestCores, RequestHandler DEF Next

-----------------------------------------------------------------------------
(* The types of what belongs to the services. *)
LEMMA ServiceInit ==
  ASSUME Init
  PROVE  ServiceTypes
<1>1. commands \in Seq({"apply", "sync", "stop"}) /\ Len(commands) = 0
  BY DEF Init
<1>2. Len(commands) <= QueueSize
  BY <1>1, ServicesAssumption
<1> QED BY <1>1, <1>2 DEF Init, ServiceTypes

Queue == Seq({"apply", "sync", "stop"})

LEMMA QueueTypes ==
  ASSUME ServiceTypes
  PROVE  /\ <<>> \in Queue /\ Len(<<>>) <= QueueSize
         /\ \A c \in {"apply", "sync", "stop"} : Room =>
              Append(commands, c) \in Queue /\ Len(Append(commands, c)) <= QueueSize
         /\ commands # <<>> =>
              /\ Head(commands) \in {"apply", "sync", "stop"}
              /\ Tail(commands) \in Queue /\ Len(Tail(commands)) <= QueueSize
  BY ServicesAssumption DEF ServiceTypes, Queue, Room

LEMMA ServiceReboot ==
  ASSUME ServiceTypes, Reboot
  PROVE  ServiceTypes'
<1>1. commands' \in Queue /\ Len(commands') <= QueueSize
  BY QueueTypes DEF Reboot
<1> QED BY <1>1 DEF Reboot, ServiceTypes, Queue

LEMMA ServiceSmb ==
  ASSUME ServiceTypes, SmbTask
  PROVE  ServiceTypes'
<1>1. UNCHANGED <<ftp, ota, wcuVars>>
  BY DEF SmbTask, SmbListens, SmbServeEnds, SmbDrained, SmbEnds
<1>2. /\ smb' \in {"none", "serve", "drain", "end"}
      /\ taskAlive' \in BOOLEAN /\ runningFlag' \in BOOLEAN
      /\ stopRequested' \in BOOLEAN /\ listenerReady' \in BOOLEAN
  BY DEF SmbTask, SmbListens, SmbServeEnds, SmbDrained, SmbEnds, ServiceTypes
<1> QED BY <1>1, <1>2 DEF ServiceTypes, wcuVars

LEMMA ServiceWcu ==
  ASSUME ServiceTypes, WcuTask
  PROVE  ServiceTypes'
<1>1. UNCHANGED <<ftp, ota, smbVars, session, stop>>
  BY DEF WcuTask, WcuChecked, WcuLooks, WcuReceives, WcuDecides, WcuApplied,
     WcuResent, WcuEnds, WcuGoes
<1>2. commands' \in Queue /\ Len(commands') <= QueueSize
  BY QueueTypes DEF WcuTask, WcuChecked, WcuLooks, WcuReceives, WcuDecides,
     WcuApplied, WcuResent, WcuEnds, ServiceTypes, Queue
<1>3. /\ wcu' \in {"none", "check", "top", "receive", "taken", "apply", "sync", "end"}
      /\ taken' \in {NoCommand, "apply", "sync", "stop"}
      /\ wcu' = "taken" => taken' # NoCommand
  BY QueueTypes DEF WcuTask, WcuChecked, WcuLooks, WcuReceives, WcuDecides,
     WcuApplied, WcuResent, WcuEnds, WcuGoes, ServiceTypes, NoCommand
<1>4. finished' \in BOOLEAN /\ applying' \in BOOLEAN
  BY DEF WcuTask, WcuChecked, WcuLooks, WcuReceives, WcuDecides, WcuApplied,
     WcuResent, WcuEnds, ServiceTypes
<1> QED BY <1>1, <1>2, <1>3, <1>4 DEF ServiceTypes, smbVars, Queue

(* The network task. *)
LEMMA ServiceHandler ==
  ASSUME RequestInv, ServiceTypes, NetworkTask
  PROVE  ServiceTypes'
<1>1. CASE Receive \/ Answer \/ NoOta \/ MayFail \/ StopFtp \/ StartFtp
           \/ StartOta \/ StopOta \/ Fetch
  <2>1. UNCHANGED <<smbVars, wcuVars>> /\ ftp' \in BOOLEAN /\ ota' \in BOOLEAN
    BY <1>1 DEF Receive, Answer, NoOta, MayFail, StopFtp, StartFtp, StartOta,
       StopOta, Fetch, ServiceTypes
  <2> QED BY <2>1 DEF ServiceTypes, smbVars, wcuVars
<1>2. CASE StopSmb \/ AwaitSmb \/ FlagSmb \/ ResultSmb \/ StartSmb \/ AwaitListener
  <2>1. UNCHANGED <<ftp, ota, wcuVars>>
    BY <1>2 DEF StopSmb, AwaitSmb, FlagSmb, ResultSmb, StartSmb, AwaitListener
  <2>2. /\ smb' \in {"none", "serve", "drain", "end"}
        /\ taskAlive' \in BOOLEAN /\ stopRequested' \in BOOLEAN
        /\ listenerReady' \in BOOLEAN
    BY <1>2 DEF StopSmb, AwaitSmb, FlagSmb, ResultSmb, StartSmb, AwaitListener,
       smbVars, ServiceTypes
  <2>3. runningFlag' \in BOOLEAN
    BY <1>2 DEF StopSmb, AwaitSmb, FlagSmb, ResultSmb, StartSmb, AwaitListener,
       smbVars, ServiceTypes, RequestInv, RequestTypes
  <2> QED BY <2>1, <2>2, <2>3 DEF ServiceTypes, wcuVars
<1>3. CASE StopWcu \/ SendStop \/ AwaitWcu \/ StartWcu \/ ApplyWcu \/ SendApply
           \/ SyncWcu
  <2>1. UNCHANGED <<ftp, ota, smbVars>>
    BY <1>3 DEF StopWcu, SendStop, AwaitWcu, StartWcu, ApplyWcu, SendApply, SyncWcu
  <2>2. commands' \in Queue /\ Len(commands') <= QueueSize
    BY <1>3, QueueTypes DEF StopWcu, SendStop, AwaitWcu, ReleaseFinished, Release,
       StartWcu, ApplyWcu, SendApply, SyncWcu, ServiceTypes, Queue
  <2>3. /\ wcu' \in {"none", "check", "top", "receive", "taken", "apply", "sync", "end"}
        /\ taken' \in {NoCommand, "apply", "sync", "stop"}
        /\ wcu' = "taken" => taken' # NoCommand
    BY <1>3 DEF StopWcu, SendStop, AwaitWcu, StartWcu, ApplyWcu, SendApply, SyncWcu,
       ServiceTypes
  <2>4. session' \in BOOLEAN /\ finished' \in BOOLEAN /\ stop' \in BOOLEAN
    BY <1>3 DEF StopWcu, SetFlag, SendStop, AwaitWcu, ReleaseFinished, Release,
       StartWcu, ApplyWcu, SendApply, SyncWcu, ServiceTypes
  <2>5. applying' \in BOOLEAN
    BY <1>3 DEF StopWcu, SendStop, AwaitWcu, StartWcu, ApplyWcu, SendApply, SyncWcu,
       ServiceTypes
  <2> QED BY <2>1, <2>2, <2>3, <2>4, <2>5 DEF ServiceTypes, smbVars, Queue
<1> QED BY <1>1, <1>2, <1>3 DEF NetworkTask

LEMMA ServiceStep ==
  ASSUME RequestInv, ServiceTypes, [Next]_vars
  PROVE  ServiceTypes'
<1>1. CASE UNCHANGED <<ftp, ota, smbVars, wcuVars>>
  BY <1>1 DEF ServiceTypes, smbVars, wcuVars
<1>2. ASSUME NEW c \in Commands, Submit(c) PROVE ServiceTypes'
  BY <1>1, <1>2 DEF Submit, Put
<1>3. CASE TakeAnswer
  BY <1>1, <1>3, ServiceReboot DEF TakeAnswer
<1>4. CASE UNCHANGED vars
  BY <1>1, <1>4 DEF vars
<1> QED BY <1>2, <1>3, <1>4, ServiceReboot, ServiceHandler, ServiceSmb, ServiceWcu
        DEF Next

-----------------------------------------------------------------------------
(* The flags of the two tasks say whether they exist, and what a handler has
   stopped stays stopped until it is done: only a handler starts anything. *)
TaskInv ==
  /\ taskAlive <=> smb # "none"
  /\ finished <=> wcu = "none"
  /\ wcu # "none" => session
  /\ ~session => commands = <<>>

WcuIsStopped ==
  \/ handling = "ftpStart" /\ pc \in StoppingSmb \cup {"stopFtp", "startFtp"}
  \/ handling = "smbStart" /\ pc \in StoppingSmb \cup {"startSmb", "awaitListener"}
  \/ handling = "wcuStart" /\ pc \in {"wifi", "startWcu"}

SmbIsStopped ==
  \/ handling = "ftpStart" /\ pc \in {"stopFtp", "startFtp"}
  \/ handling = "smbStart" /\ pc = "startSmb"
  \/ handling = "wcuStart" /\ pc \in StoppingWcu \cup {"wifi", "startWcu"}
  \/ handling = "updateStart" /\ pc = "startOta"

FtpIsStopped ==
  \/ handling = "smbStart"
     /\ pc \in StoppingSmb \cup StoppingWcu \cup {"startSmb", "awaitListener"}
  \/ handling = "wcuStart"
     /\ pc \in StoppingSmb \cup StoppingWcu \cup {"wifi", "startWcu"}
  \/ handling = "updateStart" /\ pc \in StoppingSmb \cup {"startOta"}

OtaIsOff ==
  \/ handling = "ftpStart"
     /\ pc \in StoppingSmb \cup StoppingWcu \cup {"stopFtp", "startFtp"}
  \/ handling = "smbStart"
     /\ pc \in StoppingSmb \cup StoppingWcu
               \cup {"stopFtp", "startSmb", "awaitListener"}

OrderInv ==
  /\ WcuIsStopped => ~session
  /\ SmbIsStopped => ~taskAlive
  /\ FtpIsStopped => ~ftp
  /\ OtaIsOff => ~ota
  /\ pc \in {"sendStop", "sendApply"} => session

LEMMA TaskInit ==
  ASSUME Init
  PROVE  TaskInv /\ OrderInv /\ OneBridgeUser
  BY DEF Init, TaskInv, OrderInv, WcuIsStopped, SmbIsStopped, FtpIsStopped,
     OtaIsOff, StoppingSmb, StoppingWcu, OneBridgeUser

LEMMA TaskReboot ==
  ASSUME Reboot
  PROVE  TaskInv' /\ OrderInv' /\ OneBridgeUser'
  BY DEF Reboot, TaskInv, OrderInv, WcuIsStopped, SmbIsStopped, FtpIsStopped,
     OtaIsOff, StoppingSmb, StoppingWcu, OneBridgeUser

(* At "loop" and "answer" nothing is promised. *)
LEMMA OrderEnds ==
  ASSUME pc' \in {"loop", "answer"}
  PROVE  OrderInv'
  BY DEF OrderInv, WcuIsStopped, SmbIsStopped, FtpIsStopped, OtaIsOff,
     StoppingSmb, StoppingWcu

(* What a handler has stopped does not start by itself. *)
LEMMA OrderStays ==
  ASSUME OrderInv, UNCHANGED <<handling, pc>>,
         UNCHANGED session, taskAlive' => taskAlive, ftp' => ftp, ota' => ota
  PROVE  OrderInv'
  BY DEF OrderInv, WcuIsStopped, SmbIsStopped, FtpIsStopped, OtaIsOff

(* The two tasks. *)
LEMMA TasksOrder ==
  ASSUME ServiceTypes, TaskInv, OrderInv, OneBridgeUser, SmbTask \/ WcuTask
  PROVE  TaskInv' /\ OrderInv' /\ OneBridgeUser'
<1>1. CASE SmbTask
  <2>1. /\ UNCHANGED <<handling, pc, ftp, ota, wcu, session, finished, commands>>
        /\ taskAlive' => taskAlive
        /\ taskAlive' <=> smb' # "none"
    BY <1>1 DEF SmbTask, SmbListens, SmbServeEnds, SmbDrained, SmbEnds, handlerVars,
       wcuVars, TaskInv
  <2> QED BY <2>1, OrderStays DEF TaskInv, OneBridgeUser
<1>2. CASE WcuTask
  <2>1. /\ UNCHANGED <<handling, pc, ftp, ota, smb, taskAlive, session>>
        /\ finished' <=> wcu' = "none"
        /\ wcu # "none"
    BY <1>2 DEF WcuTask, WcuChecked, WcuLooks, WcuReceives, WcuDecides, WcuApplied,
       WcuResent, WcuEnds, WcuGoes, handlerVars, smbVars, TaskInv, ServiceTypes,
       NoCommand
  <2> QED BY <2>1, OrderStays DEF TaskInv, OneBridgeUser
<1> QED BY <1>1, <1>2

(* A handler goes on when what it stops has stopped. *)
LEMMA OrderThenSmb ==
  ASSUME RequestInv, OrderInv, pc \in StoppingSmb, NEW s \in BOOLEAN,
         SmbStopped(s), UNCHANGED <<session, taskAlive, ftp, ota>>, s => ~taskAlive
  PROVE  OrderInv'
<1>1. InPath(handling, pc)
  BY DEF RequestInv, StoppingSmb
<1>2. CASE s /\ Handler[handling].stopSmb # "answer"
  <2>1. handling' = handling /\ pc' = Handler[handling]["stopSmb"] /\ ~taskAlive
    BY <1>2 DEF SmbStopped, Then, Goto
  <2> QED BY <1>1, <1>2, <2>1, AfterStopSmb DEF OrderInv, WcuIsStopped,
             SmbIsStopped, FtpIsStopped, OtaIsOff, StoppingSmb, StoppingWcu
<1>3. CASE ~(s /\ Handler[handling].stopSmb # "answer")
  BY <1>3, OrderEnds DEF SmbStopped, Reply, Goto
<1> QED BY <1>2, <1>3

LEMMA OrderThenWcu ==
  ASSUME RequestInv, OrderInv, pc \in StoppingWcu, NEW s \in BOOLEAN,
         WcuStopped(s), UNCHANGED <<taskAlive, ftp, ota>>, s => ~session'
  PROVE  OrderInv'
<1>1. InPath(handling, pc)
  BY DEF RequestInv, StoppingWcu
<1>2. CASE s /\ Handler[handling].stopWcu # "answer"
  <2>1. handling' = handling /\ pc' = Handler[handling]["stopWcu"] /\ ~session'
    BY <1>2 DEF WcuStopped, Then, Goto
  <2> QED BY <1>1, <1>2, <2>1, AfterStopWcu DEF OrderInv, WcuIsStopped,
             SmbIsStopped, FtpIsStopped, OtaIsOff, StoppingSmb, StoppingWcu
<1>3. CASE ~(s /\ Handler[handling].stopWcu # "answer")
  BY <1>3, OrderEnds DEF WcuStopped, Reply, Goto
<1> QED BY <1>2, <1>3

(* The order in which each handler stops the services before it starts one. *)
LEMMA HandlerOrder ==
  ASSUME RequestInv, ServiceTypes, TaskInv, OrderInv, NetworkTask
  PROVE  OrderInv'
<1>1. CASE Receive
  <2>1. handling' \in DOMAIN Handler /\ pc' = Handler[handling'].begin
    BY <1>1, ServicesAssumption DEF Receive, RequestInv, Tokens
  <2> QED BY <2>1, Entries DEF OrderInv, WcuIsStopped, SmbIsStopped, FtpIsStopped,
             OtaIsOff, StoppingSmb, StoppingWcu, ProcessFtpStart, ProcessFtpStop,
             ProcessSmbStart, ProcessSmbStop, ProcessWcuStart, ProcessWcuStop,
             ProcessWcuApply, ProcessWcuSync, ProcessUpdateStart,
             ProcessUpdateStop, ProcessOnlineUpdate, ProcessNet
<1>2. CASE Answer
  BY <1>2, OrderEnds DEF Answer
<1>3. CASE pc' = "answer"
  BY <1>3, OrderEnds
<1>4. CASE NoOta
  <2>1. CASE ota
    BY <1>4, <2>1, OrderEnds DEF NoOta, Reply, Goto
  <2>2. CASE ~ota
    <3>1. /\ handling' = handling /\ pc' = Handler[handling]["noOta"]
          /\ UNCHANGED <<session, taskAlive, ftp, ota>>
      BY <1>4, <2>2 DEF NoOta, Then, Goto, smbVars, wcuVars
    <3>2. InPath(handling, "noOta")
      BY <1>4 DEF NoOta, RequestInv
    <3> QED BY <2>2, <3>1, <3>2, AfterNoOta DEF OrderInv, WcuIsStopped,
               SmbIsStopped, FtpIsStopped, OtaIsOff, StoppingSmb, StoppingWcu
  <2> QED BY <2>1, <2>2
<1>5. CASE MayFail /\ pc' # "answer"
  <2>1. /\ handling' = handling /\ pc' = Handler[handling][pc]
        /\ pc \in {"wifi", "parse"}
        /\ UNCHANGED <<session, taskAlive, ftp, ota>>
    BY <1>5 DEF MayFail, Then, Reply, Goto, smbVars, wcuVars
  <2>2. InPath(handling, pc)
    BY <2>1 DEF RequestInv
  <2>3. \/ handling = "wcuStart" /\ pc' = "startWcu" /\ pc = "wifi"
        \/ handling \in {"updateStart", "net"} /\ pc' = "stopFtp"
        \/ handling = "onlineUpdate" /\ pc' = "noOta"
    <3>1. handling = "wcuStart" => pc # "parse"
      BY <2>2 DEF InPath, StoppingSmb, StoppingWcu
    <3> QED BY <2>1, <2>2, <3>1, AfterCheck
  <2> QED BY <2>1, <2>3 DEF OrderInv, WcuIsStopped, SmbIsStopped, FtpIsStopped,
             OtaIsOff, StoppingSmb, StoppingWcu
<1>6. CASE StopFtp /\ pc' # "answer"
  <2>1. /\ handling' = handling /\ pc' = Handler[handling]["stopFtp"]
        /\ ftp' = FALSE /\ UNCHANGED <<session, taskAlive, ota>>
    BY <1>6 DEF StopFtp, Then, Reply, Goto, smbVars, wcuVars
  <2>2. pc = "stopFtp" /\ InPath(handling, "stopFtp")
    BY <1>6 DEF StopFtp, RequestInv
  <2> QED BY <1>6, <2>1, <2>2, AfterStopFtp DEF OrderInv, WcuIsStopped,
             SmbIsStopped, FtpIsStopped, OtaIsOff, StoppingSmb, StoppingWcu
<1>7. CASE StopSmb
  <2>1. UNCHANGED <<session, taskAlive, ftp, ota>> /\ pc = "stopSmb"
    BY <1>7 DEF StopSmb, wcuVars
  <2>2. CASE taskAlive
    <3>1. handling' = handling /\ pc' = "awaitSmb"
      BY <1>7, <2>2 DEF StopSmb, Goto
    <3> QED BY <2>1, <3>1 DEF OrderInv, WcuIsStopped, SmbIsStopped, FtpIsStopped,
               OtaIsOff, StoppingSmb, StoppingWcu
  <2>3. CASE ~taskAlive
    BY <1>7, <2>1, <2>3, OrderThenSmb DEF StopSmb, StoppingSmb
  <2> QED BY <2>2, <2>3
<1>8. CASE AwaitSmb \/ FlagSmb
  <2>1. /\ handling' = handling /\ UNCHANGED <<session, taskAlive, ftp, ota>>
        /\ pc \in {"awaitSmb", "flagSmb"} /\ pc' \in {"flagSmb", "resultSmb"}
    BY <1>8 DEF AwaitSmb, FlagSmb, Goto, smbVars, wcuVars
  <2> QED BY <2>1 DEF OrderInv, WcuIsStopped, SmbIsStopped, FtpIsStopped, OtaIsOff,
             StoppingSmb, StoppingWcu
<1>9. CASE ResultSmb
  <2>1. /\ UNCHANGED <<session, taskAlive, ftp, ota>> /\ pc \in StoppingSmb
        /\ SmbStopped(~taskAlive)
    BY <1>9 DEF ResultSmb, smbVars, wcuVars, StoppingSmb
  <2> QED BY <2>1, OrderThenSmb
<1>10. CASE StartSmb /\ pc' # "answer"
  <2>1. /\ handling' = handling /\ UNCHANGED <<session, ftp, ota>>
        /\ pc = "startSmb" /\ pc' = "awaitListener"
    BY <1>10 DEF StartSmb, Reply, Goto, wcuVars
  <2> QED BY <2>1 DEF OrderInv, WcuIsStopped, SmbIsStopped, FtpIsStopped, OtaIsOff,
             StoppingSmb, StoppingWcu
<1>11. CASE StopWcu
  <2>1. UNCHANGED <<session, taskAlive, ftp, ota>> /\ pc = "stopWcu"
    BY <1>11 DEF StopWcu, smbVars
  <2>2. CASE session
    <3>1. handling' = handling /\ pc' = "sendStop"
      BY <1>11, <2>2 DEF StopWcu, SetFlag, Goto
    <3> QED BY <2>1, <2>2, <3>1 DEF OrderInv, WcuIsStopped, SmbIsStopped, FtpIsStopped,
               OtaIsOff, StoppingSmb, StoppingWcu
  <2>3. CASE ~session
    <3>1. WcuStopped(TRUE)
      BY <1>11, <2>3, Zenon DEF StopWcu
    <3>2. ~session' /\ pc \in StoppingWcu
      BY <2>1, <2>3 DEF StoppingWcu
    <3> QED BY <2>1, <3>1, <3>2, OrderThenWcu
  <2> QED BY <2>2, <2>3
<1>12. CASE SendStop
  <2>1. /\ handling' = handling /\ UNCHANGED <<session, taskAlive, ftp, ota>>
        /\ pc = "sendStop" /\ pc' = "awaitWcu"
    BY <1>12 DEF SendStop, Goto, smbVars
  <2> QED BY <2>1 DEF OrderInv, WcuIsStopped, SmbIsStopped, FtpIsStopped, OtaIsOff,
             StoppingSmb, StoppingWcu
<1>13. CASE AwaitWcu
  <2>1. UNCHANGED <<taskAlive, ftp, ota>> /\ pc \in StoppingWcu
    BY <1>13 DEF AwaitWcu, smbVars, StoppingWcu
  <2> QED BY <1>13, <2>1, OrderThenWcu DEF AwaitWcu, ReleaseFinished, Release
<1>14. CASE ApplyWcu /\ pc' # "answer"
  <2>1. /\ handling = "wcuApply" /\ handling' = handling
        /\ session /\ UNCHANGED session
    BY <1>14 DEF ApplyWcu, Accepts, Reply, Goto, RequestInv, InPath, StoppingSmb,
       StoppingWcu
  <2> QED BY <2>1 DEF OrderInv, WcuIsStopped, SmbIsStopped, FtpIsStopped, OtaIsOff
<1>15. StartFtp \/ StartOta \/ StopOta \/ Fetch \/ AwaitListener \/ StartWcu
       \/ SendApply \/ SyncWcu => pc' = "answer"
  BY DEF StartFtp, StartOta, StopOta, Fetch, AwaitListener, StartWcu, SendApply,
     SyncWcu, Reply, Goto
<1> QED BY <1>1, <1>2, <1>3, <1>4, <1>5, <1>6, <1>7, <1>8, <1>9, <1>10, <1>11,
           <1>12, <1>13, <1>14, <1>15 DEF NetworkTask

(* The flags of the tasks, and one user of the bridge at a time. *)
LEMMA HandlerTasks ==
  ASSUME RequestInv, ServiceTypes, TaskInv, OrderInv, OneBridgeUser, NetworkTask
  PROVE  TaskInv' /\ OneBridgeUser'
<1>1. CASE Receive \/ Answer \/ NoOta \/ MayFail \/ Fetch \/ SendStop \/ ApplyWcu
           \/ SendApply \/ SyncWcu \/ AwaitSmb \/ FlagSmb \/ ResultSmb \/ StopSmb
           \/ AwaitListener
  <2>1. UNCHANGED <<ftp, ota, smb, taskAlive, wcu, session, finished>>
    BY <1>1 DEF Receive, Answer, NoOta, MayFail, Fetch, SendStop, ApplyWcu, SendApply,
       SyncWcu, AwaitSmb, FlagSmb, ResultSmb, StopSmb, AwaitListener, smbVars, wcuVars
  <2>2. ~session => UNCHANGED commands
    BY <1>1 DEF Receive, Answer, NoOta, MayFail, Fetch, SendStop, ApplyWcu, SendApply,
       SyncWcu, AwaitSmb, FlagSmb, ResultSmb, StopSmb, AwaitListener, wcuVars,
       OrderInv
  <2> QED BY <2>1, <2>2 DEF TaskInv, OneBridgeUser
<1>2. CASE StopFtp \/ StartFtp \/ StartOta \/ StopOta
  <2>1. UNCHANGED <<smb, taskAlive, wcu, session, finished, commands>>
    BY <1>2 DEF StopFtp, StartFtp, StartOta, StopOta, smbVars, wcuVars
  <2>2. CASE StopFtp \/ StopOta
    <3>1. CASE StopFtp
      <4>1. ftp' = FALSE /\ ota' = ota
        BY <3>1, Zenon DEF StopFtp
      <4> QED BY <2>1, <4>1 DEF TaskInv, OneBridgeUser
    <3>2. CASE StopOta
      <4>1. ftp' = ftp /\ ota' = FALSE
        BY <3>2, Zenon DEF StopOta
      <4> QED BY <2>1, <4>1 DEF TaskInv, OneBridgeUser
    <3> QED BY <2>2, <3>1, <3>2
  <2>3. CASE StartFtp
    <3>1. pc = "startFtp" /\ handling = "ftpStart"
      BY <2>3 DEF StartFtp, RequestInv, InPath, StoppingSmb, StoppingWcu
    <3>2. ~taskAlive /\ ~session /\ ~ota /\ wcu = "none" /\ UNCHANGED ota
      BY <2>3, <3>1 DEF StartFtp, OrderInv, WcuIsStopped, SmbIsStopped, OtaIsOff,
         TaskInv
    <3> QED BY <2>1, <3>2 DEF TaskInv, OneBridgeUser
  <2>4. CASE StartOta
    <3>1. pc = "startOta" /\ handling = "updateStart" /\ UNCHANGED ftp
      BY <2>4 DEF StartOta, RequestInv, InPath, StoppingSmb, StoppingWcu
    <3>2. ~taskAlive /\ ~ftp
      BY <3>1 DEF OrderInv, SmbIsStopped, FtpIsStopped
    <3> QED BY <2>1, <3>1, <3>2 DEF TaskInv, OneBridgeUser
  <2> QED BY <1>2, <2>2, <2>3, <2>4
<1>3. CASE StartSmb
  <2>1. UNCHANGED <<ftp, ota, wcu, session, finished, commands>>
    BY <1>3 DEF StartSmb, wcuVars
  <2>2. CASE UNCHANGED smbVars
    BY <2>1, <2>2 DEF TaskInv, OneBridgeUser, smbVars
  <2>3. CASE taskAlive' = TRUE /\ smb' = "serve"
    <3>1. pc = "startSmb" /\ handling = "smbStart"
      BY <1>3 DEF StartSmb, RequestInv, InPath, StoppingSmb, StoppingWcu
    <3>2. ~ftp /\ ~ota /\ wcu = "none"
      BY <3>1 DEF OrderInv, WcuIsStopped, FtpIsStopped, OtaIsOff, TaskInv
    <3> QED BY <2>1, <2>3, <3>2 DEF TaskInv, OneBridgeUser
  <2> QED BY <1>3, <2>2, <2>3 DEF StartSmb
<1>4. CASE StopWcu \/ AwaitWcu
  <2>1. UNCHANGED <<ftp, ota, smb, taskAlive, wcu, finished>>
    BY <1>4 DEF StopWcu, AwaitWcu, smbVars
  <2>2. \/ UNCHANGED <<session, commands>>
        \/ finished /\ ~session' /\ commands' = <<>>
    BY <1>4 DEF StopWcu, AwaitWcu, ReleaseFinished, Release
  <2> QED BY <2>1, <2>2 DEF TaskInv, OneBridgeUser
<1>5. CASE StartWcu
  <2>1. UNCHANGED <<ftp, ota, smb, taskAlive>>
    BY <1>5 DEF StartWcu, smbVars
  <2>2. CASE UNCHANGED <<wcu, session, finished, commands>>
    BY <2>1, <2>2 DEF TaskInv, OneBridgeUser
  <2>3. CASE /\ session' /\ commands' = <<>> /\ finished' = FALSE
             /\ wcu' = "check"
    <3>1. pc = "startWcu" /\ handling = "wcuStart"
      BY <1>5 DEF StartWcu, RequestInv, InPath, StoppingSmb, StoppingWcu
    <3>2. ~ftp /\ ~taskAlive
      BY <3>1 DEF OrderInv, FtpIsStopped, SmbIsStopped
    <3> QED BY <2>1, <2>3, <3>2 DEF TaskInv, OneBridgeUser
  <2> QED BY <1>5, <2>2, <2>3 DEF StartWcu
<1> QED BY <1>1, <1>2, <1>3, <1>4, <1>5 DEF NetworkTask

LEMMA TaskStep ==
  ASSUME RequestInv, ServiceTypes, TaskInv, OrderInv, OneBridgeUser, [Next]_vars
  PROVE  TaskInv' /\ OrderInv' /\ OneBridgeUser'
<1>1. CASE UNCHANGED <<ftp, ota, smbVars, wcuVars>> /\ UNCHANGED handlerVars
  <2>1. /\ UNCHANGED <<handling, pc, ftp, ota, session, taskAlive>>
        /\ UNCHANGED <<smb, wcu, finished, commands>>
    BY <1>1 DEF smbVars, wcuVars, handlerVars
  <2> QED BY <2>1, OrderStays DEF TaskInv, OneBridgeUser
<1>2. ASSUME NEW c \in Commands, Submit(c)
      PROVE  TaskInv' /\ OrderInv' /\ OneBridgeUser'
  BY <1>1, <1>2 DEF Submit, Put
<1>3. CASE TakeAnswer
  BY <1>1, <1>3, TaskReboot DEF TakeAnswer
<1>4. CASE UNCHANGED vars
  BY <1>1, <1>4 DEF vars
<1>5. CASE NetworkTask
  BY <1>5, HandlerOrder, HandlerTasks
<1> QED BY <1>2, <1>3, <1>4, <1>5, TaskReboot, TasksOrder DEF Next

ServicesInv ==
  /\ RequestInv
  /\ ServiceTypes
  /\ TaskInv
  /\ OrderInv
  /\ OneBridgeUser

(* The request, the tasks and the order of stopping and starting hold
   together: every step of either core and of every task preserves them. *)
THEOREM ServicesInvariant == Spec => []ServicesInv
<1>1. Init => ServicesInv
  BY RequestInit, ServiceInit, TaskInit DEF ServicesInv
<1>2. ServicesInv /\ [Next]_vars => ServicesInv'
  BY RequestStep, ServiceStep, TaskStep DEF ServicesInv
<1> QED BY <1>1, <1>2, PTL DEF Spec

(* Every variable keeps its type, and commands_ never holds more than it has
   places for. *)
THEOREM ServicesTypes == Spec => []TypeOK
<1>1. ServicesInv => TypeOK
  BY DEF ServicesInv, RequestInv, RequestTypes, ServiceTypes, TypeOK
<1> QED BY <1>1, ServicesInvariant, PTL

(* exchange_ has one owner, and every answer is the answer to the request that
   was sent. *)
THEOREM ServicesAnswers == Spec => []AnswerMatches
<1>1. ServicesInv => AnswerMatches
  BY DEF ServicesInv, RequestInv, Tokens, AnswerMatches
<1> QED BY <1>1, ServicesInvariant, PTL

(* FTP, the SMB task and the task of a session never exist together, and no
   file server runs beside an OTA listener. *)
THEOREM ServicesExclude == Spec => []OneBridgeUser
<1>1. ServicesInv => OneBridgeUser
  BY DEF ServicesInv
<1> QED BY <1>1, ServicesInvariant, PTL

(* The updater, the fetcher and the queue outlive the task that uses them. *)
THEOREM ServicesSession == Spec => []SessionOutlivesTask
<1>1. ServicesInv => SessionOutlivesTask
  BY DEF ServicesInv, TaskInv, SessionOutlivesTask
<1> QED BY <1>1, ServicesInvariant, PTL

-----------------------------------------------------------------------------
(* The commands of a session. *)
Carried == wcu \in {"taken", "apply"} /\ taken = "apply"

CommandInv ==
  /\ wcu = "apply" => taken = "apply"
  /\ ApplyOnce

LEMMA Places ==
  ASSUME NEW p
  PROVE  p \in OnTheWay <=>
           \/ p \in 1..Len(commands) /\ commands[p] = "apply"
           \/ p = 0 /\ Carried
           \/ p = QueueSize + 1 /\ pc = "sendApply"
  BY DEF OnTheWay, Carried

LEMMA PlacesThen ==
  ASSUME NEW p
  PROVE  p \in OnTheWay' <=>
           \/ p \in 1..Len(commands') /\ commands'[p] = "apply"
           \/ p = 0 /\ Carried'
           \/ p = QueueSize + 1 /\ pc' = "sendApply"
  BY DEF OnTheWay, Carried

(* Nothing is on its way anew, and the flags say what they said. *)
LEMMA CommandStays ==
  ASSUME CommandInv, OnTheWay' = OnTheWay, wcu' = "apply" => taken' = "apply",
         session' => session /\ (~finished' /\ ~stop' =>
                                   ~finished /\ ~stop /\ applying' = applying)
  PROVE  CommandInv'
  BY DEF CommandInv, ApplyOnce

LEMMA AppendOther ==
  ASSUME ServiceTypes, NEW c \in {"sync", "stop"}, commands' = Append(commands, c),
         Carried' <=> Carried, pc # "sendApply", pc' # "sendApply"
  PROVE  OnTheWay' = OnTheWay
<1>1. /\ Len(commands) \in Nat /\ Len(commands') = Len(commands) + 1
      /\ commands'[Len(commands) + 1] = c
      /\ \A p \in 1..Len(commands) : commands'[p] = commands[p]
  BY DEF ServiceTypes
<1>2. \A p : p \in 1..Len(commands') /\ commands'[p] = "apply"
             <=> p \in 1..Len(commands) /\ commands[p] = "apply"
  BY <1>1
<1>3. \A p : p \in OnTheWay' <=> p \in OnTheWay
  BY <1>2, Places, PlacesThen
<1> QED BY <1>3

LEMMA SamePlaces ==
  ASSUME commands' = commands, Carried' <=> Carried,
         pc' = "sendApply" <=> pc = "sendApply"
  PROVE  OnTheWay' = OnTheWay
<1>1. \A p : p \in OnTheWay' <=> p \in OnTheWay
  BY Places, PlacesThen
<1> QED BY ONLY <1>1

(* The head of the queue is taken. *)
LEMMA CommandReceived ==
  ASSUME ServiceTypes, TaskInv, CommandInv, WcuReceives
  PROVE  CommandInv'
<1>1. /\ wcu = "receive" /\ wcu' = "taken" /\ commands # <<>>
      /\ taken' = Head(commands) /\ commands' = Tail(commands)
      /\ UNCHANGED <<pc, session, stop, finished, applying>>
  BY DEF WcuReceives, WcuGoes, handlerVars
<1>2. session
  BY <1>1 DEF TaskInv
<1>3. /\ Len(commands) \in Nat /\ Len(commands) >= 1 /\ Len(commands) <= QueueSize
      /\ QueueSize \in Nat
      /\ Len(commands') = Len(commands) - 1
      /\ taken' = commands[1]
      /\ \A p \in 1..Len(commands') : commands'[p] = commands[p + 1]
  BY <1>1, ServicesAssumption DEF ServiceTypes
<1> DEFINE before(p) == IF p = QueueSize + 1 THEN p ELSE p + 1
<1>4. ASSUME NEW p \in OnTheWay'
      PROVE  p \in Nat /\ before(p) \in OnTheWay
  <2>1. CASE p \in 1..Len(commands') /\ commands'[p] = "apply"
    <3>1. p + 1 \in 1..Len(commands) /\ commands[p + 1] = "apply" /\ p # QueueSize + 1
      BY <1>3, <2>1
    <3>2. before(p) = p + 1 /\ p \in Nat
      BY <1>3, <2>1, <3>1
    <3>3. p + 1 \in OnTheWay
      BY <3>1, Places, Zenon
    <3> QED BY <3>2, <3>3
  <2>2. CASE p = 0 /\ Carried'
    <3>1. commands[1] = "apply" /\ 1 \in 1..Len(commands)
      BY <1>1, <1>3, <2>2 DEF Carried
    <3>2. before(p) = 1
      BY <1>3, <2>2
    <3>3. 1 \in OnTheWay
      BY <3>1, Places, Zenon
    <3> QED BY <2>2, <3>2, <3>3
  <2>3. CASE p = QueueSize + 1 /\ pc' = "sendApply"
    BY <1>1, <1>3, <2>3, Places
  <2> QED BY <2>1, <2>2, <2>3, PlacesThen
<1>5. \A p, q \in OnTheWay' : p = q
  <2> TAKE p, q \in OnTheWay'
  <2>1. p \in Nat /\ q \in Nat /\ before(p) = before(q)
    BY <1>2, <1>4 DEF CommandInv, ApplyOnce
  <2>2. before(p) \in OnTheWay /\ before(q) \in OnTheWay
    BY <1>4
  <2>3. p = QueueSize <=> q = QueueSize
    <3>1. p # QueueSize /\ q # QueueSize
      BY <1>1, <1>3, PlacesThen DEF Carried
    <3> QED BY <3>1
  <2> QED BY <1>3, <2>1, <2>3
<1>6. OnTheWay # {} => OnTheWay' # {}
  <2> SUFFICES ASSUME NEW p \in OnTheWay PROVE OnTheWay' # {}
    OBVIOUS
  <2>1. ~Carried
    BY <1>1 DEF Carried
  <2>2. CASE p \in 1..Len(commands) /\ commands[p] = "apply"
    <3>1. CASE p = 1
      <4>1. taken' = "apply"
        BY <1>3, <2>2, <3>1
      <4>2. Carried'
        BY <1>1, <4>1 DEF Carried
      <4>3. 0 \in OnTheWay'
        BY <4>2, PlacesThen, Zenon
      <4> QED BY <4>3
    <3>2. CASE p # 1
      <4>1. p - 1 \in 1..Len(commands') /\ commands'[p - 1] = "apply"
        BY <1>3, <2>2, <3>2
      <4>2. p - 1 \in OnTheWay'
        BY <4>1, PlacesThen, Zenon
      <4> QED BY <4>2
    <3> QED BY <3>1, <3>2
  <2>3. CASE p = QueueSize + 1 /\ pc = "sendApply"
    BY <1>1, <2>3, PlacesThen
  <2> QED BY <2>1, <2>2, <2>3, Places
<1> QED BY <1>1, <1>2, <1>4, <1>5, <1>6 DEF CommandInv, ApplyOnce

(* The APPLY that is carried out is the only one: its end leaves none. *)
LEMMA CommandApplied ==
  ASSUME ServiceTypes, TaskInv, CommandInv, WcuApplied
  PROVE  CommandInv'
<1>1. /\ wcu = "apply" /\ wcu' = "top" /\ applying' = FALSE
      /\ UNCHANGED <<pc, session, commands>>
  BY DEF WcuApplied, WcuGoes, handlerVars
<1>2. session /\ Carried /\ ~Carried'
  BY <1>1 DEF TaskInv, CommandInv, Carried
<1>3. 0 \in OnTheWay
  BY <1>2, Places
<1>4. OnTheWay' = {}
  <2> SUFFICES ASSUME NEW p \in OnTheWay' PROVE FALSE
    OBVIOUS
  <2>1. p \in OnTheWay /\ p # 0
    BY <1>1, <1>2, Places, PlacesThen, ServicesAssumption DEF ServiceTypes
  <2> QED BY <1>2, <1>3, <2>1 DEF CommandInv, ApplyOnce
<1> QED BY <1>1, <1>4 DEF CommandInv, ApplyOnce

LEMMA CommandWcu ==
  ASSUME ServiceTypes, TaskInv, CommandInv, WcuTask
  PROVE  CommandInv'
<1>0. UNCHANGED <<pc, session, stop>>
  BY DEF WcuTask, WcuChecked, WcuLooks, WcuReceives, WcuDecides, WcuApplied,
     WcuResent, WcuEnds, WcuGoes, handlerVars
<1>1. CASE WcuChecked \/ WcuLooks \/ WcuResent \/ WcuEnds
  <2>1. /\ ~Carried /\ ~Carried' /\ wcu' # "apply"
        /\ UNCHANGED <<commands, applying>>
    BY <1>1 DEF WcuChecked, WcuLooks, WcuResent, WcuEnds, WcuGoes, Carried
  <2>2. ~finished' => ~finished
    BY <1>1 DEF WcuChecked, WcuLooks, WcuResent, WcuEnds
  <2> QED BY <1>0, <2>1, <2>2, SamePlaces, CommandStays
<1>2. CASE WcuDecides
  <2>1. /\ wcu = "taken" /\ wcu' = (IF taken = "stop" \/ stop THEN "end" ELSE taken)
        /\ UNCHANGED <<taken, finished, applying, commands>>
    BY <1>2 DEF WcuDecides, WcuGoes
  <2>2. CASE Carried' <=> Carried
    BY <1>0, <2>1, <2>2, SamePlaces, CommandStays
  <2>3. CASE ~(Carried' <=> Carried)
    <3>1. Carried /\ ~Carried' /\ stop' /\ wcu' # "apply"
      BY <1>0, <2>1, <2>3 DEF Carried
    <3>2. \A p \in OnTheWay' : p \in OnTheWay
      BY <1>0, <2>1, <3>1, Places, PlacesThen
    <3> QED BY <1>0, <3>1, <3>2 DEF CommandInv, ApplyOnce
  <2> QED BY <2>2, <2>3
<1> QED BY <1>1, <1>2, CommandReceived, CommandApplied DEF WcuTask

(* Only WCU_APPLY comes to "sendApply". *)
LEMMA OnlyApplySends ==
  ASSUME RequestInv, NetworkTask, ~ApplyWcu, ~SendApply
  PROVE  pc # "sendApply" /\ pc' # "sendApply"
<1>1. CASE Receive
  <2>1. command \in DOMAIN Handler /\ pc' = Handler[command].begin /\ pc = "loop"
    BY <1>1, ServicesAssumption DEF Receive, RequestInv, Tokens
  <2> QED BY <2>1, Entries DEF ProcessFtpStart, ProcessFtpStop, ProcessSmbStart,
             ProcessSmbStop, ProcessWcuStart, ProcessWcuStop, ProcessWcuApply,
             ProcessWcuSync, ProcessUpdateStart, ProcessUpdateStop,
             ProcessOnlineUpdate, ProcessNet
<1>2. CASE NoOta
  <2>1. pc = "noOta" /\ InPath(handling, "noOta")
    BY <1>2 DEF NoOta, RequestInv
  <2> QED BY <1>2, <2>1, AfterNoOta DEF NoOta, Reply, Then, Goto
<1>3. CASE MayFail
  <2>1. pc \in {"wifi", "parse"} /\ InPath(handling, pc)
    BY <1>3 DEF MayFail, RequestInv
  <2>2. Handler[handling][pc] # "sendApply"
    BY <2>1, AfterCheck
  <2> QED BY <1>3, <2>1, <2>2 DEF MayFail, Reply, Then, Goto
<1>4. CASE StopFtp
  <2>1. pc = "stopFtp" /\ InPath(handling, "stopFtp")
    BY <1>4 DEF StopFtp, RequestInv
  <2> QED BY <1>4, <2>1, AfterStopFtp DEF StopFtp, Reply, Then, Goto
<1>5. CASE StopSmb \/ ResultSmb
  <2>1. pc \in StoppingSmb /\ pc # "sendApply" /\ InPath(handling, pc)
    BY <1>5 DEF StopSmb, ResultSmb, StoppingSmb, RequestInv
  <2>2. Handler[handling].stopSmb # "sendApply"
    BY <2>1, AfterStopSmb
  <2> QED BY <1>5, <2>1, <2>2 DEF StopSmb, ResultSmb, SmbStopped, Reply, Then, Goto
<1>6. CASE StopWcu \/ AwaitWcu
  <2>1. pc \in StoppingWcu /\ pc # "sendApply" /\ InPath(handling, pc)
    BY <1>6 DEF StopWcu, AwaitWcu, StoppingWcu, RequestInv
  <2>2. Handler[handling].stopWcu # "sendApply"
    BY <2>1, AfterStopWcu
  <2> QED BY <1>6, <2>1, <2>2 DEF StopWcu, SetFlag, AwaitWcu, ReleaseFinished, Release,
             WcuStopped, Reply, Then, Goto
<1>7. CASE Answer \/ StartFtp \/ StartOta \/ StopOta \/ Fetch \/ AwaitSmb \/ FlagSmb
           \/ StartSmb \/ AwaitListener \/ SendStop \/ StartWcu \/ SyncWcu
  BY <1>7 DEF Answer, StartFtp, StartOta, StopOta, Fetch, AwaitSmb, FlagSmb, StartSmb,
     AwaitListener, SendStop, StartWcu, SyncWcu, Reply, Goto
<1> QED BY <1>1, <1>2, <1>3, <1>4, <1>5, <1>6, <1>7 DEF NetworkTask

(* An APPLY is accepted when none is on its way. *)
LEMMA CommandApply ==
  ASSUME CommandInv, ApplyWcu
  PROVE  CommandInv'
<1>0. /\ pc = "applyWcu" /\ UNCHANGED <<commands, wcu, taken, session, finished, stop>>
      /\ Carried' <=> Carried
  BY DEF ApplyWcu, Carried
<1>1. CASE pc' = "answer" /\ UNCHANGED applying
  BY <1>0, <1>1, SamePlaces, CommandStays DEF CommandInv
<1>2. CASE Accepts /\ applying' = TRUE /\ pc' = "sendApply"
  <2>1. OnTheWay = {}
    BY <1>2 DEF Accepts, CommandInv, ApplyOnce
  <2>2. \A p : p \in OnTheWay' <=> p = QueueSize + 1
    BY <1>0, <1>2, <2>1, Places, PlacesThen
  <2> QED BY <1>0, <1>2, <2>2 DEF CommandInv, ApplyOnce
<1> QED BY <1>1, <1>2 DEF ApplyWcu, Reply, Goto

(* It takes its place in the queue, or there is none and the flag is reset. *)
LEMMA CommandSent ==
  ASSUME ServiceTypes, OrderInv, CommandInv, SendApply
  PROVE  CommandInv'
<1>0. /\ pc = "sendApply" /\ pc' = "answer"
      /\ UNCHANGED <<wcu, taken, session, finished, stop>>
      /\ Carried' <=> Carried
  BY DEF SendApply, Carried, Reply, Goto
<1>1. /\ QueueSize \in Nat /\ Len(commands) \in Nat /\ Len(commands) <= QueueSize
      /\ 0 # QueueSize + 1
  BY ServicesAssumption DEF ServiceTypes
<1>2. QueueSize + 1 \in OnTheWay /\ session
  BY <1>0, Places DEF OrderInv
<1>3. \A p \in OnTheWay : p = QueueSize + 1
  BY <1>2 DEF CommandInv, ApplyOnce
<1>4. ~Carried /\ \A p \in 1..Len(commands) : commands[p] # "apply"
  BY <1>1, <1>3, Places
<1>5. CASE Room
  <2>1. commands' = Append(commands, "apply") /\ applying' = applying
    BY <1>5 DEF SendApply
  <2>2. /\ Len(commands') = Len(commands) + 1
        /\ commands'[Len(commands) + 1] = "apply"
        /\ \A p \in 1..Len(commands) : commands'[p] = commands[p]
    BY <2>1 DEF ServiceTypes
  <2>3. \A p : p \in 1..Len(commands') /\ commands'[p] = "apply"
               <=> p = Len(commands) + 1
    BY <1>1, <1>4, <2>2
  <2>4. \A p : p \in OnTheWay' <=> p = Len(commands) + 1
    BY <1>0, <1>4, <2>3, PlacesThen
  <2> QED BY <1>0, <1>2, <2>1, <2>4 DEF CommandInv, ApplyOnce
<1>6. CASE ~Room
  <2>1. commands' = commands /\ applying' = FALSE
    BY <1>6 DEF SendApply
  <2>2. OnTheWay' = {}
    BY <1>0, <1>4, <2>1, PlacesThen
  <2> QED BY <1>0, <2>1, <2>2 DEF CommandInv, ApplyOnce
<1> QED BY <1>5, <1>6

LEMMA CommandHandler ==
  ASSUME RequestInv, ServiceTypes, TaskInv, OrderInv, CommandInv, NetworkTask
  PROVE  CommandInv'
<1>1. CASE ApplyWcu \/ SendApply
  BY <1>1, CommandApply, CommandSent
<1>2. CASE ~ApplyWcu /\ ~SendApply
  <2>0. pc # "sendApply" /\ pc' # "sendApply"
    BY <1>2, OnlyApplySends
  <2>1. CASE Receive \/ Answer \/ NoOta \/ MayFail \/ StopFtp \/ StartFtp \/ StartOta
             \/ StopOta \/ Fetch \/ StopSmb \/ AwaitSmb \/ FlagSmb \/ ResultSmb
             \/ StartSmb \/ AwaitListener
    <3>1. UNCHANGED wcuVars
      BY <2>1 DEF Receive, Answer, NoOta, MayFail, StopFtp, StartFtp, StartOta, StopOta,
         Fetch, StopSmb, AwaitSmb, FlagSmb, ResultSmb, StartSmb, AwaitListener
    <3>2. Carried' <=> Carried
      BY <3>1 DEF Carried, wcuVars
    <3> QED BY <2>0, <3>1, <3>2, SamePlaces, CommandStays DEF CommandInv, wcuVars
  <2>2. CASE StopWcu
    <3>1. UNCHANGED <<wcu, taken, session, finished, applying, commands>>
      BY <2>2 DEF StopWcu
    <3>2. stop' = TRUE \/ stop' = stop
      BY <2>2 DEF StopWcu, SetFlag
    <3>3. Carried' <=> Carried
      BY <3>1 DEF Carried
    <3>4. OnTheWay' = OnTheWay
      BY <2>0, <3>1, <3>3, SamePlaces
    <3> QED BY <3>1, <3>2, <3>4, CommandStays DEF CommandInv
  <2>3. CASE SendStop \/ SyncWcu
    <3>1. /\ UNCHANGED <<wcu, taken, session, finished, applying, stop>>
          /\ Carried' <=> Carried
      BY <2>3 DEF SendStop, SyncWcu, Carried
    <3>2. \/ commands' = commands
          \/ commands' = Append(commands, "stop")
          \/ commands' = Append(commands, "sync")
      BY <2>3 DEF SendStop, SyncWcu
    <3>3. OnTheWay' = OnTheWay
      BY <2>0, <3>1, <3>2, SamePlaces, AppendOther
    <3> QED BY <3>1, <3>3, CommandStays DEF CommandInv
  <2>4. CASE AwaitWcu
    <3>1. UNCHANGED <<wcu, taken, finished, applying, stop>>
      BY <2>4 DEF AwaitWcu
    <3>2. session' = FALSE \/ UNCHANGED <<session, commands>>
      BY <2>4 DEF AwaitWcu, ReleaseFinished, Release
    <3>3. CASE session' = FALSE
      BY <3>1, <3>3 DEF CommandInv, ApplyOnce
    <3>4. CASE UNCHANGED <<session, commands>>
      <4>1. Carried' <=> Carried
        BY <3>1 DEF Carried
      <4>2. OnTheWay' = OnTheWay
        BY <2>0, <3>4, <4>1, SamePlaces
      <4> QED BY <3>1, <3>4, <4>2, CommandStays DEF CommandInv
    <3> QED BY <3>2, <3>3, <3>4
  <2>5. CASE StartWcu
    <3>1. CASE /\ UNCHANGED <<wcu, taken, session, finished, stop, commands>>
               /\ applying' \in (IF session THEN {applying} ELSE {applying, FALSE})
      <4>1. Carried' <=> Carried
        BY <3>1 DEF Carried
      <4>2. OnTheWay' = OnTheWay
        BY <2>0, <3>1, <4>1, SamePlaces
      <4>3. session' => session /\ applying' = applying
        BY <3>1
      <4> QED BY <3>1, <4>2, <4>3, CommandStays DEF CommandInv
    <3>2. CASE /\ commands' = <<>> /\ applying' = FALSE /\ wcu' = "check"
      <4>1. \A p : p \notin OnTheWay'
        BY <2>0, <3>2, PlacesThen DEF Carried
      <4> QED BY <3>2, <4>1 DEF CommandInv, ApplyOnce
    <3> QED BY <2>5, <3>1, <3>2 DEF StartWcu
  <2> QED BY <1>2, <2>1, <2>2, <2>3, <2>4, <2>5 DEF NetworkTask
<1> QED BY <1>1, <1>2

LEMMA CommandStep ==
  ASSUME ServicesInv, CommandInv, [Next]_vars
  PROVE  CommandInv'
<1>1. CASE UNCHANGED <<pc, wcuVars>>
  <2>1. /\ UNCHANGED <<wcu, taken, session, finished, applying, stop, commands>>
        /\ Carried' <=> Carried
    BY <1>1 DEF wcuVars, Carried
  <2> QED BY <1>1, <2>1, SamePlaces, CommandStays DEF CommandInv
<1>2. CASE Reboot
  BY <1>2 DEF Reboot, CommandInv, ApplyOnce
<1>3. ASSUME NEW c \in Commands, Submit(c) PROVE CommandInv'
  BY <1>1, <1>3 DEF Submit, Put, handlerVars
<1>4. CASE TakeAnswer
  BY <1>1, <1>2, <1>4 DEF TakeAnswer, handlerVars
<1>5. CASE SmbTask
  BY <1>1, <1>5 DEF SmbTask, SmbListens, SmbServeEnds, SmbDrained, SmbEnds, handlerVars
<1>6. CASE UNCHANGED vars
  BY <1>1, <1>6 DEF vars, handlerVars
<1> QED BY <1>2, <1>3, <1>4, <1>5, <1>6, CommandHandler, CommandWcu
        DEF Next, ServicesInv

(* An accepted list of files is carried out once, and no second one is
   accepted before. *)
THEOREM ServicesApplyOnce == Spec => []ApplyOnce
<1>1. Init => ServicesInv /\ CommandInv
  <2>1. Init => CommandInv
    BY DEF Init, CommandInv, ApplyOnce
  <2> QED BY <2>1, RequestInit, ServiceInit, TaskInit DEF ServicesInv
<1>2. ServicesInv /\ CommandInv /\ [Next]_vars => ServicesInv' /\ CommandInv'
  BY RequestStep, ServiceStep, TaskStep, CommandStep DEF ServicesInv
<1>3. CommandInv => ApplyOnce
  BY DEF CommandInv
<1> QED BY <1>1, <1>2, <1>3, PTL DEF Spec

=============================================================================
