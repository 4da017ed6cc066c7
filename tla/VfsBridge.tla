----------------------------- MODULE VfsBridge -----------------------------
(***************************************************************************)
(* VfsBridge: the only path from the network core (core 0) to the SD card, *)
(* which core 1 reaches over the UART.  The two cores share one Exchange   *)
(* record without a lock; a token in a one-slot FreeRTOS queue hands it    *)
(* over, and a token in another hands it back.  File data goes beside it,  *)
(* through two SpscByteRings that both cores use at any time.              *)
(*                                                                         *)
(* Rings: SpscRing.tla shows that a ring is a FIFO in which the fill level *)
(* one side has seen can only have changed in its favour, so a ring is its *)
(* fill level here and a ring operation is one step.                       *)
(*                                                                         *)
(* VfsClient: each of its calls ends in success or in an error (a refusal  *)
(* of the Z80, a broken frame, a time-out); which one is a choice here.    *)
(***************************************************************************)
EXTENDS Naturals

CONSTANTS
  RingBytes, (* bytes in each ring                                          *)
  Window,    (* bytes VfsClient moves per acknowledged window               *)
  MaxValue,  (* bound: the largest byte count in a request                  *)
  MaxBytes   (* bound: bytes the network feeds into one session             *)

ASSUME BridgeAssumption ==
  /\ RingBytes \in Nat \ {0}
  /\ Window \in Nat \ {0}
  /\ MaxValue \in Nat \ {0}
  /\ MaxBytes \in Nat

VARIABLES
  core0,           (* core 0 inside submit*() or takeResult()               *)
  core1,           (* core 1 inside pollCore1()                             *)
  requestPending,  (* requestPending_                                       *)
  requestQueue,    (* tokens in requestQueue_                               *)
  responseQueue,   (* tokens in responseQueue_                              *)
  request,         (* exchange_->request; id tells successive ones apart    *)
  result,          (* exchange_->result; id of the request it answers       *)
  ingress,         (* bytes in networkToVfs_                                *)
  egress,          (* bytes in vfsToNetwork_                                *)
  openMode,        (* VfsClient::openMode_, append counting as write        *)
  capable,         (* VfsClient::capabilities_ has the write window         *)
  writeActive,     (* VfsClient::writeActive_                               *)
  writeFailed,     (* VfsClient::writeFailed_                               *)
  writeSession,    (* writeSession_                                         *)
  left,            (* `requested` of processWrite() or `wanted` of
                      processRead(), less what has been moved               *)
  accepted,        (* bytes the ring took for this session                  *)
  stored           (* bytes of this session the Z80 acknowledged            *)

fileVars == <<openMode, capable, writeActive, writeFailed, writeSession>>
core1Vars == <<core1, result, fileVars, left, stored>>
exchangeVars == <<core0, requestPending, requestQueue, responseQueue, request>>
ringVars == <<ingress, egress, accepted>>
vars == <<core1Vars, exchangeVars, ringVars>>

Operations == {"reset", "openRead", "openWrite", "openRandom", "read", "write",
               "extend", "commit", "abort", "other"}

Results == [id : {0, 1}, ok : BOOLEAN, wrote : BOOLEAN]

(* The byte counts a request may carry: only two operations look at one. *)
Values(op) == IF op \in {"read", "write"} THEN 0 .. MaxValue ELSE {0}

Smaller(a, b) == IF a < b THEN a ELSE b

-----------------------------------------------------------------------------
Init ==
  /\ core0 = "free" /\ core1 = "idle"
  /\ requestPending = FALSE
  /\ requestQueue = 0 /\ responseQueue = 0
  /\ request = [op |-> "other", value |-> 0, id |-> 0]
  /\ result = [id |-> 0, ok |-> FALSE, wrote |-> FALSE]
  /\ ingress = 0 /\ egress = 0
  /\ openMode = "none" /\ capable = FALSE
  /\ writeActive = FALSE /\ writeFailed = FALSE /\ writeSession = FALSE
  /\ left = 0 /\ accepted = 0 /\ stored = 0

-----------------------------------------------------------------------------
(* Core 0.                                                                 *)

(* submit(), submitAt(), submitRename(), submitMoveRename() and
   submitMetadata() fill the same request under the same guard.
   Variant: a submit that does not look at the flag (ExchangeOwned). *)
SubmitUnguarded(op, value) ==
  /\ core0 = "free"
  /\ core0' = "filled"
  /\ request' = [op |-> op, value |-> value, id |-> 1 - request.id]
  /\ UNCHANGED <<core1Vars, ringVars, requestPending, requestQueue,
                 responseQueue>>

Submit(op, value) ==
  /\ core0 = "free"
  /\ ~requestPending
  /\ core0' = "filled"
  /\ request' = [op |-> op, value |-> value, id |-> 1 - request.id]
  /\ UNCHANGED <<core1Vars, ringVars, requestPending, requestQueue,
                 responseQueue>>

(* xQueueSend(requestQueue_, &token, 0): on a full queue submit() fails. *)
SubmitSend ==
  /\ core0 = "filled"
  /\ core0' = "free"
  /\ IF requestQueue = 0
       THEN /\ requestQueue' = 1
            /\ requestPending' = TRUE
       ELSE UNCHANGED <<requestQueue, requestPending>>
  /\ UNCHANGED <<core1Vars, ringVars, responseQueue, request>>

(* takeResult(), also in the loop of reclaim(): no token, no result.
   Variant: reclaim() that forces the flag down when it runs out of time
   (AnswerMatches). *)
TakeForced ==
  /\ core0 = "free"
  /\ requestPending
  /\ core0' = "taking"
  /\ responseQueue' = 0
  /\ UNCHANGED <<core1Vars, ringVars, requestPending, requestQueue, request>>

TakeToken ==
  /\ core0 = "free"
  /\ requestPending /\ responseQueue = 1
  /\ core0' = "taking"
  /\ responseQueue' = 0
  /\ UNCHANGED <<core1Vars, ringVars, requestPending, requestQueue, request>>

TakeCopy ==
  /\ core0 = "taking"
  /\ core0' = "free"
  /\ requestPending' = FALSE
  /\ UNCHANGED <<core1Vars, ringVars, requestQueue, responseQueue, request>>

(* The contract in the comment at kResetBuffers: whoever asks for a ring to
   be reset keeps out of it until the answer, and a session that is being
   closed is no longer fed. *)
MayFeed == ~(requestPending /\ request.op \in {"reset", "commit", "abort"})
MayDrain == ~(requestPending /\ request.op = "reset")

(* writeFromNetwork(): the ring takes what it has room for. *)
Feed(n) ==
  /\ core0 = "free" /\ MayFeed
  /\ accepted + n <= MaxBytes
  /\ ingress + n <= RingBytes
  /\ ingress' = ingress + n
  /\ accepted' = accepted + n
  /\ UNCHANGED <<core1Vars, exchangeVars, egress>>

(* readForNetwork(). *)
Drain(n) ==
  /\ core0 = "free" /\ MayDrain
  /\ n <= egress
  /\ egress' = egress - n
  /\ UNCHANGED <<core1Vars, exchangeVars, ingress, accepted>>

-----------------------------------------------------------------------------
(* Core 1.                                                                 *)

(* finish(): the result is complete, its token is sent next. *)
Finish(ok) ==
  /\ core1' = "post"
  /\ result' = [id |-> request.id, ok |-> ok, wrote |-> writeSession]
  /\ left' = 0

(* pollCore1() takes the token; processCore1() starts with an empty result. *)
Receive ==
  /\ core1 = "idle" /\ requestQueue = 1
  /\ requestQueue' = 0
  /\ core1' = "run"
  /\ UNCHANGED <<ringVars, fileVars, core0, requestPending, responseQueue,
                 request, result, left, stored>>

(* xQueueOverwrite(responseQueue_, &token).  Variant: the token is forgotten
   (EveryRequestAnswered). *)
PostSilent ==
  /\ core1 = "post"
  /\ core1' = "idle"
  /\ UNCHANGED <<ringVars, fileVars, exchangeVars, result, left, stored>>

Post ==
  /\ core1 = "post"
  /\ responseQueue' = 1
  /\ core1' = "idle"
  /\ UNCHANGED <<ringVars, fileVars, core0, requestPending, requestQueue,
                 request, result, left, stored>>

Running(op) == core1 = "run" /\ request.op = op

(* kResetBuffers. *)
ResetBuffers ==
  /\ Running("reset")
  /\ ingress' = 0 /\ egress' = 0
  /\ accepted' = stored
  /\ Finish(TRUE)
  /\ UNCHANGED <<exchangeVars, fileVars, stored>>

(* kOpenRead.  openFileMode() forgets the capabilities before it asks and
   keeps the old mode when it is refused. *)
OpenRead ==
  /\ Running("openRead")
  /\ \/ /\ Finish(TRUE)
        /\ openMode' = "read" /\ writeSession' = FALSE
        /\ capable' \in BOOLEAN
     \/ /\ Finish(FALSE)
        /\ capable' = FALSE
        /\ UNCHANGED <<openMode, writeSession>>
  /\ UNCHANGED <<exchangeVars, ringVars, writeActive, writeFailed, stored>>

(* kOpenWrite, kOpenAppend, kOpenRandom: openFileMode() clears the sticky
   write error before it asks, and writeSession_ follows the outcome.  Mode 3
   is also refused after the answer, when the Z80 does not offer it.  What is
   in the ring by then was fed for the new session. *)
OpenForWrite ==
  /\ core1 = "run" /\ request.op \in {"openWrite", "openRandom"}
  /\ writeFailed' = FALSE
  /\ capable' \in BOOLEAN
  /\ \/ /\ Finish(TRUE)
        /\ openMode' = IF request.op = "openWrite" THEN "write" ELSE "random"
        /\ writeActive' = (request.op = "openWrite")
        /\ writeSession' = TRUE
        /\ stored' = 0 /\ accepted' = ingress
     \/ /\ Finish(FALSE)
        /\ capable' => request.op = "openRandom"
        /\ writeActive' = FALSE /\ writeSession' = FALSE
        /\ UNCHANGED <<openMode, stored, accepted>>
  /\ UNCHANGED <<exchangeVars, ingress, egress>>

(* processRead(): no more than one window, and never more than the ring has
   room for.  Variant: the room is not looked at (ReadFits). *)
RoomIgnored(value) == Smaller(value, Window)
ReadSize(value) == Smaller(Smaller(value, Window), RingBytes - egress)

ReadBegin ==
  /\ Running("read")
  /\ \/ ReadSize(request.value) = 0 /\ Finish(TRUE)
     \/ ReadSize(request.value) # 0 /\ Finish(FALSE)
     \/ /\ ReadSize(request.value) # 0
        /\ core1' = "frames"
        /\ left' = ReadSize(request.value)
        /\ UNCHANGED result
  /\ UNCHANGED <<exchangeVars, ringVars, fileVars, stored>>

(* One frame of the window goes straight into the ring; a ring that does not
   take all of it ends the read. *)
ReadFrame ==
  /\ core1 = "frames"
  /\ \E part \in 1 .. left :
       IF egress + part <= RingBytes
         THEN /\ egress' = egress + part
              /\ left' = left - part
              /\ UNCHANGED <<core1, result>>
         ELSE /\ egress' = RingBytes
              /\ Finish(FALSE)
  /\ UNCHANGED <<exchangeVars, ingress, accepted, fileVars, stored>>

(* The last frame with a good CRC, the end of the file before any frame, or a
   failure anywhere on the way. *)
ReadEnd ==
  /\ core1 = "frames"
  /\ \E ok \in BOOLEAN : Finish(ok)
  /\ UNCHANGED <<exchangeVars, ringVars, fileVars, stored>>

(* processWrite(): what the ring held when it looked.  Variant: the size asked
   for (IngressHolds, TypeOK). *)
WriteAsked(value) == value
WriteSize(value) == Smaller(value, ingress)

(* kWriteAt may fail on its seek before the ring is looked at. *)
WriteBegin ==
  /\ Running("write")
  /\ \/ Finish(FALSE)
     \/ WriteSize(request.value) = 0 /\ Finish(TRUE)
     \/ /\ WriteSize(request.value) # 0
        /\ core1' = "windows"
        /\ left' = WriteSize(request.value)
        /\ UNCHANGED result
  /\ UNCHANGED <<exchangeVars, ringVars, fileVars, stored>>

(* writeFileWindow() sends nothing without a file open for writing, and
   nothing more once a window has failed; mode 3 needs the write window of the
   Z80.  Variant: the failure is forgotten (CommitIsWhole). *)
FailureForgotten == FALSE
Random == openMode = "random"
CanSend == ~writeFailed /\ (IF Random THEN capable ELSE writeActive)
FailureSticks == writeActive \/ Random

(* One window, sent from the ring and acknowledged by the Z80; only then are
   its bytes discarded, and an acknowledged window is not sent again.  One that
   fails stays in the ring; the Z80 may have stored it all the same, when its
   acknowledgement is lost. *)
WriteWindow ==
  /\ core1 = "windows"
  /\ LET size == Smaller(left, Window) IN
       \/ /\ CanSend
          /\ ingress' = ingress - size
          /\ stored' = stored + size
          /\ IF left = size
               THEN Finish(TRUE)
               ELSE left' = left - size /\ UNCHANGED <<core1, result>>
          /\ UNCHANGED writeFailed
       \/ /\ writeFailed' = (writeFailed \/ FailureSticks)
          /\ Finish(FALSE)
          /\ UNCHANGED ingress
          /\ \/ UNCHANGED stored
             \/ CanSend /\ writeSession /\ stored' = stored + size
  /\ UNCHANGED <<exchangeVars, egress, accepted, openMode, capable,
                 writeActive, writeSession>>

(* kExtend: a lost answer may hide zeros already appended, so the error sticks
   until the file is closed; a Z80 that cannot do it is not an error. *)
Extend ==
  /\ Running("extend")
  /\ \/ /\ writeActive /\ ~writeFailed
        /\ \E ok \in BOOLEAN : Finish(ok) /\ writeFailed' = ~ok
     \/ Finish(FALSE) /\ UNCHANGED writeFailed
  /\ UNCHANGED <<exchangeVars, ringVars, openMode, capable, writeActive,
                 writeSession, stored>>

(* VfsClient::closeFile(): an attempt to publish a file with a failed window
   becomes an abort, and the mode is left as it was. *)
CloseFile(commit) ==
  /\ writeActive' = FALSE /\ writeFailed' = FALSE /\ writeSession' = FALSE
  /\ IF commit /\ writeActive /\ writeFailed
       THEN Finish(FALSE) /\ UNCHANGED <<openMode, capable>>
       ELSE /\ \E ok \in BOOLEAN : Finish(ok)
            /\ openMode' = "none" /\ capable' = FALSE

(* kCloseCommit: bytes still in the ring refuse it and keep the file open. *)
CloseCommit ==
  /\ Running("commit")
  /\ IF writeSession /\ ingress # 0
       THEN Finish(FALSE) /\ UNCHANGED fileVars
       ELSE CloseFile(TRUE)
  /\ UNCHANGED <<exchangeVars, ringVars, stored>>

(* kCloseAbort: what was fed but not written is thrown away with the file. *)
CloseAbort ==
  /\ Running("abort")
  /\ CloseFile(FALSE)
  /\ ingress' = 0
  /\ accepted' = stored
  /\ UNCHANGED <<exchangeVars, egress, stored>>

(* Every other operation touches neither the rings nor the open file. *)
OtherOperation ==
  /\ Running("other")
  /\ \E ok \in BOOLEAN : Finish(ok)
  /\ UNCHANGED <<exchangeVars, ringVars, fileVars, stored>>

-----------------------------------------------------------------------------
Core0Step ==
  \/ \E op \in Operations : \E value \in Values(op) : Submit(op, value)
  \/ SubmitSend
  \/ TakeToken
  \/ TakeCopy
  \/ \E n \in 1 .. RingBytes : Feed(n)
  \/ \E n \in 1 .. RingBytes : Drain(n)

Core1Step ==
  \/ Receive
  \/ Post
  \/ ResetBuffers
  \/ OpenRead
  \/ OpenForWrite
  \/ ReadBegin
  \/ ReadFrame
  \/ ReadEnd
  \/ WriteBegin
  \/ WriteWindow
  \/ Extend
  \/ CloseCommit
  \/ CloseAbort
  \/ OtherOperation

Next == Core0Step \/ Core1Step

Spec == Init /\ [][Next]_vars

(* loopTask runs on a core of its own and every wait inside VfsClient has a
   time-out; a waiting task of core 0 polls takeResult() every millisecond. *)
Fairness == WF_vars(Core1Step) /\ WF_vars(SubmitSend) /\ WF_vars(TakeCopy)
FairSpec == Spec /\ Fairness

-----------------------------------------------------------------------------
FileOK ==
  /\ openMode \in {"none", "read", "write", "random"}
  /\ capable \in BOOLEAN
  /\ writeActive \in BOOLEAN /\ writeFailed \in BOOLEAN
  /\ writeSession \in BOOLEAN

TypeOK ==
  /\ core0 \in {"free", "filled", "taking"}
  /\ core1 \in {"idle", "run", "frames", "windows", "post"}
  /\ requestPending \in BOOLEAN
  /\ requestQueue \in {0, 1} /\ responseQueue \in {0, 1}
  /\ request \in [op : Operations, value : 0 .. MaxValue, id : {0, 1}]
  /\ result \in Results
  /\ ingress \in 0 .. RingBytes /\ egress \in 0 .. RingBytes
  /\ FileOK
  /\ left \in Nat /\ accepted \in Nat /\ stored \in Nat

(* The Exchange is never in two hands: while core 0 fills the request or
   copies the result, core 1 is outside and nothing is on its way to it. *)
ExchangeOwned ==
  core0 # "free" => core1 = "idle" /\ requestQueue = 0 /\ responseQueue = 0

(* The result core 0 takes answers the request it sent last, also when it had
   given up on that request and reclaims the bridge much later. *)
AnswerMatches == core0 = "taking" => result.id = request.id

(* A frame of a read always fits the ring, although core 0 drains the ring
   and core 1 looked at its room before the window began. *)
ReadFits == core1 = "frames" => egress + left <= RingBytes

(* The bytes of a write stay in the ring until they are acknowledged: the
   "ingress-race" answer of processWrite() is impossible. *)
IngressHolds == core1 = "windows" => left <= ingress

(* A commit reported as done has stored every byte the ring had accepted for
   the file, and none of them twice, although the network kept feeding the ring
   while it was written and the acknowledgement of a window may have been lost:
   the sticky error keeps that window from being sent again. *)
CommitIsWhole ==
  core1 = "post" /\ request.op = "commit" /\ result.ok /\ result.wrote
    => stored = accepted

(* Every request is answered, whatever the Z80 does. *)
EveryRequestAnswered == requestPending ~> (responseQueue = 1 \/ ~requestPending)

-----------------------------------------------------------------------------
(* What the steps preserve together, and the proofs in VfsBridgeProofs use.  *)

(* One token exists while a request is pending, and none otherwise. *)
TokenInv ==
  /\ core0 = "filled" => ~requestPending
  /\ core0 = "taking" => requestPending
  /\ requestQueue = 1 =>
       requestPending /\ core1 = "idle" /\ responseQueue = 0 /\ core0 = "free"
  /\ responseQueue = 1 =>
       requestPending /\ core1 = "idle" /\ core0 = "free"
  /\ core1 # "idle" => requestPending /\ core0 = "free"

(* From finish() on, the result belongs to the request in the record. *)
AnswerInv ==
  core1 = "post" \/ responseQueue = 1 \/ core0 = "taking"
    => result.id = request.id

(* A transfer belongs to a request that leaves the rings to core 1's side. *)
TransferInv ==
  /\ core1 = "frames" => request.op = "read" /\ egress + left <= RingBytes
  /\ core1 = "windows" => request.op = "write" /\ left # 0 /\ left <= ingress

(* Bytes the ring accepted for a file are in it or stored; a window that may
   be both has failed, and stays in the ring. *)
LedgerInv ==
  /\ writeSession => accepted = stored + ingress \/ (writeFailed /\ ingress # 0)
  /\ core1 = "post" /\ request.op = "commit" /\ result.ok /\ result.wrote
       => stored = accepted

BridgeInv == TypeOK /\ TokenInv /\ AnswerInv /\ TransferInv /\ LedgerInv
=============================================================================
