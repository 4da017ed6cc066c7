------------------------------ MODULE UartLink ------------------------------
(***************************************************************************)
(* UartLink: one request of VfsClient at a time and the answers of the     *)
(* Z80, over a line that may lose frames and an answer that may come after *)
(* the wait for it has ended (vfs_client.cpp, uart_transport.cpp).         *)
(*                                                                         *)
(* An answer is matched by its command byte alone; the windows of a file   *)
(* add a sequence number, offsets and a CRC.  The module asks how far that *)
(* goes, with the callers' habit of closing and reopening a file after any *)
(* failure.  Every frame is marked with the request it answers (`of`); the *)
(* program cannot see that mark.  A frame that the line damages fails its  *)
(* checksum in FrameParser and is a lost frame here.  The Z80 answers in   *)
(* the order it is asked (external), and only the commands of Slow ever    *)
(* later than the wait for them.                                           *)
(***************************************************************************)
EXTENDS Integers, Sequences, FiniteSets

CONSTANTS
  Frames,       (* frames of a window, entries of a full batch              *)
  Slow,         (* commands whose answer may come after the wait for it     *)
  MaxRequests,  (* bound: requests ever sent                                *)
  MaxLate,      (* bound: commands of which an answer has come too late     *)
  MaxLosses     (* bound: frames lost on the line                           *)

Commands == {"open", "openDir", "stat", "read", "write", "readDir", "close"}

ASSUME UartAssumption ==
  Frames \in Nat \ {0} /\ Slow \subseteq Commands /\ MaxRequests \in Nat /\ MaxLate \in Nat
    /\ MaxLosses \in Nat

VARIABLES
  wait,       (* the request waited for, with what has come of it           *)
  file,       (* openMode_, readSequence_, writeSequence_, writeFailed_     *)
  dir,        (* the directory: "shut", "open", "failed" (a batch of it has) *)
  taken,      (* the window handed to a caller last, for the record         *)
  listed,     (* the last batch taken of an open directory, for the record  *)
  acked,      (* windows whose acknowledgement was accepted                 *)
  toZ, fromZ, (* frames on the line                                         *)
  z80,        (* the frame under way and the window being received          *)
  written,    (* windows the Z80 has written                                *)
  told,       (* batches and directories the Z80 has ended, for the record  *)
  requests,
  late,       (* commands given up although their answer was to come        *)
  losses

clientVars == <<wait, file, dir, taken, listed, acked, requests>>
vars == <<clientVars, toZ, fromZ, z80, written, told, late, losses>>

None == 0
MaxBatch == Frames   (* kDirectoryBatchEntries *)
NoWait == [cmd |-> "none", id |-> None, seq |-> 0, got |-> <<>>]
Closed == [open |-> FALSE, readSeq |-> 0, writeSeq |-> 0, failed |-> FALSE]
Opened == [Closed EXCEPT !.open = TRUE]
ZIdle == [sending |-> None, cmd |-> "none", seq |-> 0, next |-> 0,
          window |-> None, frames |-> 0]

Init ==
  /\ wait = NoWait /\ file = Closed /\ dir = "shut"
  /\ taken = [id |-> None, of |-> <<>>]
  /\ listed = [id |-> None, of |-> <<>>, ended |-> FALSE]
  /\ acked = {}
  /\ toZ = <<>> /\ fromZ = <<>> /\ z80 = ZIdle /\ written = {}
  /\ told = {} /\ requests = 0 /\ late = {} /\ losses = 0

-----------------------------------------------------------------------------
(* Requests.                                                               *)

Frame(cmd, id, seq, off) == [cmd |-> cmd, id |-> id, seq |-> seq, off |-> off]

(* request(), or the first part of a window. *)
Send(cmd, seq, frames) ==
  /\ wait.cmd = "none" /\ requests < MaxRequests
  /\ requests' = requests + 1
  /\ wait' = [cmd |-> cmd, id |-> requests + 1, seq |-> seq, got |-> <<>>]
  /\ toZ' = toZ \o [k \in 1..frames |-> Frame(cmd, requests + 1, seq, k - 1)]
  /\ UNCHANGED <<taken, listed, acked, fromZ, z80, written, told, late, losses>>

(* openFileMode(): forgets the sequence numbers before it asks. *)
AskOpen ==
  /\ ~file.open /\ ~file.failed
  /\ Send("open", 0, 1) /\ file' = Closed /\ UNCHANGED dir

AskStat ==
  /\ ~file.open /\ ~file.failed
  /\ Send("stat", 0, 1) /\ UNCHANGED <<file, dir>>

AskOpenDirectory ==
  /\ ~file.open /\ ~file.failed
  /\ Send("openDir", 0, 1) /\ dir' = "shut" /\ UNCHANGED file

(* readDirectory() when the entries kept are used up and the directory has not
   ended; also after a batch that failed: pollAsyncDirectory() answers with
   the names it has and reads on without an OPENDIR. *)
AskBatch ==
  /\ dir # "shut" /\ ~file.open /\ ~file.failed
  /\ Send("readDir", 0, 1) /\ UNCHANGED <<file, dir>>

(* After a window that failed, every caller closes the file before it reads
   on: the sequence number stays where it was.
   Variant: the window is asked for again at once (WindowOwn). *)
MayReadAgain == file.open
MayRead == file.open /\ ~file.failed

AskRead ==
  /\ MayRead
  /\ Send("read", file.readSeq, 1) /\ UNCHANGED <<file, dir>>

(* writeFileWindow(): all the frames at once; refused while writeFailed_.
   Variant: the failure of a window is forgotten (AckedIsWritten). *)
MayWriteAgain == file.open
MayWrite == file.open /\ ~file.failed

AskWrite ==
  /\ MayWrite
  /\ Send("write", file.writeSeq, Frames) /\ UNCHANGED <<file, dir>>

(* closeFile(): what every caller does next after a failure. *)
AskClose ==
  /\ file.open \/ file.failed
  /\ Send("close", 0, 1) /\ UNCHANGED <<file, dir>>

-----------------------------------------------------------------------------
(* Answers.                                                                *)

Answer == Head(fromZ)
Done == wait' = NoWait
(* A failed request on an open file makes the caller close it. *)
Failed ==
  /\ Done
  /\ dir' = IF wait.cmd = "readDir" THEN "failed" ELSE dir
  /\ file' = IF wait.cmd = "close" \/ ~file.open THEN Closed
             ELSE [file EXCEPT !.failed = TRUE]
  /\ UNCHANGED <<taken, listed, acked>>

(* waitFor(): a frame of another command is handed to handleUnexpected();
   between requests the loop takes every frame and answers "unsupported". *)
Discard ==
  /\ fromZ # <<>> /\ Answer.cmd # wait.cmd
  /\ fromZ' = Tail(fromZ)
  /\ UNCHANGED <<clientVars, toZ, z80, written, told, late, losses>>

InSequence(f) == f.seq = wait.seq

(* readFileWindow(): order, and the CRC over the frames of the window. *)
TakeRead ==
  /\ wait.cmd = "read"
  /\ LET got == Append(wait.got, Answer.of)
         inOrder == InSequence(Answer) /\ Answer.off = Len(wait.got)
         whole == \A k \in 1..Len(got) : got[k] = Answer.of
     IN  \/ /\ Answer.ok /\ inOrder /\ ~Answer.last
            /\ wait' = [wait EXCEPT !.got = got]
            /\ UNCHANGED <<file, dir, taken, listed, acked>>
         \/ /\ Answer.ok /\ inOrder /\ Answer.last /\ whole
            /\ Done /\ taken' = [id |-> wait.id, of |-> got]
            /\ file' = [file EXCEPT !.readSeq = file.readSeq + 1]
            /\ UNCHANGED <<dir, listed, acked>>
         \/ ~(Answer.ok /\ inOrder /\ (Answer.last => whole)) /\ Failed

(* checkBlockAck() *)
TakeAck ==
  /\ wait.cmd = "write"
  /\ \/ /\ Answer.ok /\ Answer.seq = wait.seq
        /\ Done /\ acked' = acked \cup {wait.id}
        /\ file' = [file EXCEPT !.writeSeq = file.writeSeq + 1]
        /\ UNCHANGED <<dir, taken, listed>>
     \/ ~(Answer.ok /\ Answer.seq = wait.seq) /\ Failed

(* A frame of a batch is an entry (status 0), or has another status and is the
   last of it: 2 when the directory goes on, any other when it has ended, an
   error too.  A frame of status 0 that is too short for an entry is neither.
   Variant: it ends the directory (ListingIsWhole). *)
IsEntry(f) == ~f.last /\ f.ok
ShortHasStatus(f) == ~IsEntry(f)
HasStatus(f) == f.last
More(f) == f.last /\ f.ok

(* fetchDirectoryBatch(): entries until the frame with a status; they carry no
   number.  A batch without an entry ends the directory whatever its status. *)
TakeEntry ==
  /\ wait.cmd = "readDir"
  /\ LET ended == ~More(Answer) \/ wait.got = <<>>
     IN  \/ /\ IsEntry(Answer) /\ Len(wait.got) < MaxBatch
            /\ wait' = [wait EXCEPT !.got = Append(wait.got, Answer.of)]
            /\ UNCHANGED <<file, dir, taken, acked, listed>>
         \/ /\ HasStatus(Answer) /\ Done
            /\ dir' = IF ended THEN "shut" ELSE dir
            /\ listed' = IF dir # "open" THEN listed
                         ELSE [id |-> wait.id, of |-> wait.got, ended |-> ended]
            /\ UNCHANGED <<file, taken, acked>>
         \/ /\ ~HasStatus(Answer)
            /\ IsEntry(Answer) => Len(wait.got) >= MaxBatch
            /\ Failed

TakeOther ==
  /\ wait.cmd \in {"open", "openDir", "stat", "close"}
  /\ \/ /\ Answer.ok /\ Done
        /\ file' = IF wait.cmd = "open" THEN Opened
                   ELSE IF wait.cmd = "close" THEN Closed ELSE file
        /\ dir' = IF wait.cmd = "openDir" THEN "open" ELSE dir
        /\ UNCHANGED <<taken, listed, acked>>
     \/ ~Answer.ok /\ Failed

Take ==
  /\ wait.cmd # "none" /\ fromZ # <<>> /\ Answer.cmd = wait.cmd
  /\ TakeRead \/ TakeAck \/ TakeEntry \/ TakeOther
  /\ fromZ' = Tail(fromZ)
  /\ UNCHANGED <<requests, toZ, z80, written, told, late, losses>>

(* waitFor() ends without the answer: because nothing will come any more, or
   because the Z80 takes longer over it. *)
NothingToCome == toZ = <<>> /\ z80.sending = None

(* Variant: the wait has no end of its own (RequestEnds). *)
NoTimeOut == FALSE
MayTimeOut == wait.cmd # "none" /\ fromZ = <<>>

TimeOut ==
  /\ MayTimeOut
  /\ \/ NothingToCome /\ UNCHANGED late
     \/ /\ ~NothingToCome /\ wait.cmd \in Slow
        /\ late' = late \cup {wait.cmd} /\ Cardinality(late') <= MaxLate
  /\ Failed
  /\ UNCHANGED <<requests, toZ, fromZ, z80, written, told, losses>>

-----------------------------------------------------------------------------
(* The other end (external): requests in order, one frame at a time.       *)

Out(cmd, of, seq, off, last, ok) ==
  Append(fromZ, [cmd |-> cmd, of |-> of, seq |-> seq, off |-> off,
                 last |-> last, ok |-> ok])

ZAnswer ==
  /\ toZ # <<>> /\ z80.sending = None /\ Head(toZ).cmd # "write"
  /\ LET r == Head(toZ)
     IN  \/ /\ r.cmd \in {"read", "readDir"}
            /\ z80' = [ZIdle EXCEPT !.sending = r.id, !.cmd = r.cmd,
                                    !.seq = r.seq]
            /\ UNCHANGED <<fromZ, told>>
         \/ /\ r.cmd \notin {"read", "readDir"}
            /\ fromZ' = Out(r.cmd, r.id, 0, 0, TRUE, TRUE)
            /\ z80' = ZIdle /\ UNCHANGED told
         \/ /\ r.cmd # "readDir"
            /\ fromZ' = Out(r.cmd, r.id, r.seq, 0, TRUE, FALSE)
            /\ z80' = ZIdle /\ UNCHANGED told
  /\ toZ' = Tail(toZ)
  /\ UNCHANGED <<clientVars, written, late, losses>>

(* What the Z80 sends next, and what becomes of it. *)
Say(last, ok) == fromZ' = Out(z80.cmd, z80.sending, z80.seq, z80.next, last, ok)
GoOn == z80' = [z80 EXCEPT !.next = z80.next + 1]

(* A window ends with its last frame, or breaks off with an error. *)
ZWindow ==
  /\ z80.cmd = "read"
  /\ \/ Say(FALSE, FALSE) /\ z80' = ZIdle
     \/ z80.next < Frames - 1 /\ Say(FALSE, TRUE) /\ GoOn
     \/ z80.next = Frames - 1 /\ Say(TRUE, TRUE) /\ z80' = ZIdle
  /\ UNCHANGED told

(* A batch ends with a status of its own: more when it is full, else the end
   of the directory or an error, which look the same.  It may also break off
   with a frame that is too short. *)
ZBatch ==
  /\ z80.cmd = "readDir"
  /\ \/ Say(FALSE, FALSE) /\ z80' = ZIdle /\ UNCHANGED told
     \/ z80.next < Frames /\ Say(FALSE, TRUE) /\ GoOn /\ UNCHANGED told
     \/ \E more \in BOOLEAN :
          /\ more => z80.next = Frames
          /\ Say(TRUE, more) /\ z80' = ZIdle
          /\ told' = told \cup
               {[id |-> z80.sending, count |-> z80.next, ended |-> ~more]}

ZFrame ==
  /\ z80.sending # None
  /\ ZWindow \/ ZBatch
  /\ UNCHANGED <<clientVars, toZ, written, late, losses>>

(* A window is written when all its frames have come in order. *)
ZWrite ==
  /\ toZ # <<>> /\ z80.sending = None /\ Head(toZ).cmd = "write"
  /\ LET r == Head(toZ)
         frames == IF r.off = 0 THEN 1
                   ELSE IF z80.window = r.id /\ z80.frames = r.off
                     THEN z80.frames + 1 ELSE 0
         end == r.off = Frames - 1
     IN  /\ z80' = IF end THEN ZIdle
                   ELSE [ZIdle EXCEPT !.window = r.id, !.frames = frames]
         /\ \/ ~end /\ UNCHANGED <<fromZ, written>>
            \/ /\ end /\ frames = Frames
               /\ fromZ' = Out("write", r.id, r.seq, 0, TRUE, TRUE)
               /\ written' = written \cup {r.id}
            \/ /\ end
               /\ fromZ' = Out("write", r.id, r.seq, 0, TRUE, FALSE)
               /\ UNCHANGED written
  /\ toZ' = Tail(toZ)
  /\ UNCHANGED <<clientVars, told, late, losses>>

(* The line loses a frame. *)
LoseRequest ==
  /\ losses < MaxLosses /\ losses' = losses + 1
  /\ toZ # <<>> /\ toZ' = Tail(toZ)
  /\ UNCHANGED <<clientVars, fromZ, z80, written, told, late>>

LoseAnswer ==
  /\ losses < MaxLosses /\ losses' = losses + 1
  /\ fromZ # <<>> /\ fromZ' = Tail(fromZ)
  /\ UNCHANGED <<clientVars, toZ, z80, written, told, late>>

-----------------------------------------------------------------------------
Next ==
  \/ AskOpen \/ AskStat \/ AskOpenDirectory \/ AskBatch
  \/ AskRead \/ AskWrite \/ AskClose
  \/ Discard \/ Take \/ TimeOut
  \/ ZAnswer \/ ZFrame \/ ZWrite \/ LoseRequest \/ LoseAnswer

(* waitFor() goes on until its time is up, and the Z80 does not stop. *)
Spec == /\ Init /\ [][Next]_vars
        /\ WF_vars(Discard) /\ WF_vars(Take) /\ WF_vars(TimeOut)
        /\ WF_vars(ZAnswer) /\ WF_vars(ZFrame) /\ WF_vars(ZWrite)

-----------------------------------------------------------------------------
(* The bytes of a window handed to a caller were sent for that very request,
   also when answers to earlier ones came too late: readFileWindow() never
   passes on another part of the file, or of another file. *)
WindowOwn == \A k \in 1..Len(taken.of) : taken.of[k] = taken.id

(* A window whose acknowledgement checkBlockAck() accepted has been written,
   whatever was lost and however late the acknowledgement of the window
   before it. *)
AckedIsWritten == acked \subseteq written

(* A batch that fetchDirectoryBatch() took for complete, in a directory on which
   nothing has failed.  Every entry of it was sent for this very request, also
   when frames were lost and earlier batches came too late, unless an OPENDIR
   was given up before its answer.  On a line that loses nothing and is in time
   it is the batch the Z80 ended, with every entry of it, and the directory is
   over only if the Z80 said so: an exchange that breaks off is no end. *)
ListingIsWhole ==
  listed.id # None =>
    /\ "openDir" \notin late =>
         \A k \in 1..Len(listed.of) : listed.of[k] = listed.id
    /\ losses = 0 /\ late = {} =>
         [id |-> listed.id, count |-> Len(listed.of), ended |-> listed.ended]
           \in told

(* pollAsyncDirectory() on a batch that failed: the names it has are answered,
   the error comes again with the next request, and no name is lost.  So a
   directory is taken for ended only if the Z80 has ended one.  It does not
   hold (README, Findings). *)
ResumedIsWhole ==
  [][dir # "shut" /\ dir' = "shut" /\ wait.cmd = "readDir" /\ losses = 0
       => \E t \in told : t.ended]_vars

(* Every request of core 1 ends, whatever the line loses: the exchange of
   core 0 that waits for it is answered. *)
RequestEnds == wait.cmd # "none" ~> wait.cmd = "none"
=============================================================================
