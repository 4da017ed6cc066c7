----------------------------- MODULE WcUpdate ------------------------------
(***************************************************************************)
(* WcUpdater: the files of Wild Commander in one folder of the SD card,    *)
(* checked against GitHub and replaced.  A file is downloaded, written as  *)
(* WCUPD.TMP, read back, and only then put in the place of the old one: by *)
(* one FILEX MOVE, or, where the kernel has none, by two RENAMEs with the  *)
(* old file set aside as WCUPD.OLD.                                        *)
(*                                                                         *)
(* The card is on the other side of the Z80 and may be bad: an operation   *)
(* is refused, fails half done, or is carried out and its answer lost; a   *)
(* read fails; a listing or a STAT overlooks what is there (Misses).  The  *)
(* power may fail between any two operations.  A MOVE that fails may leave *)
(* the copy and the file on one chain of clusters.  What is never lied     *)
(* about is that a name is taken: neither OPEN for writing nor RENAME nor  *)
(* MOVE without REPLACE touches a name that exists.                        *)
(***************************************************************************)
EXTENDS Naturals

CONSTANTS
  File,        (* the files GitHub lists for the folder                     *)
  Kept,        (* the protected ones (wc.ini)                               *)
  NoFile,      (* no file                                                   *)
  Misses,      (* whether a listing or a STAT may overlook a file           *)
  MaxLosses,   (* bound: failing RENAMEs that lose the entry altogether     *)
  Rounds,      (* two: downloads of one file                                *)
  Attempts     (* kWriteAttempts: copies written in one round               *)

ASSUME UpdateAssumption ==
  /\ Kept \subseteq File /\ NoFile \notin File /\ Misses \in BOOLEAN
  /\ MaxLosses \in {0, 1}
  /\ Rounds \in Nat \ {0} /\ Attempts \in Nat \ {0}

VARIABLES
  (* the card: contents are "none", "old", "new" (as on GitHub), "torn"     *)
  file,        (* the content under each file's own name                    *)
  tmp,         (* WCUPD.TMP                                                 *)
  tmpOf,       (* the file it is a copy of                                  *)
  twin,        (* it shares its chain with that file                        *)
  aside,       (* WCUPD.OLD                                                 *)
  asideOf,     (* the file it was                                           *)
  losses,      (* entries lost so far                                       *)
  filex,       (* the kernel on the card has FILEX MOVE                     *)
  had,         (* the files that were there, and whole, in the beginning    *)
  (* the session                                                            *)
  status,      (* WcFile::status                                            *)
  local,       (* WcFile::local                                             *)
  present,     (* present_ of the folder                                    *)
  leftover,    (* leftover_ of the folder                                   *)
  suspect,     (* diskSuspect_                                              *)
  stop,        (* stop_                                                     *)
  (* updateFile()                                                           *)
  pc, cur,     (* where it is, and for which file                           *)
  round,       (* `round`                                                   *)
  attempt,     (* `attempt`                                                 *)
  installed    (* `installed`                                               *)

tmpVars == <<tmp, tmpOf, twin>>
asideVars == <<aside, asideOf>>
cardVars == <<file, tmpVars, asideVars, losses, filex, had>>
doubtVars == <<present, leftover, suspect>>
listVars == <<status, local>>
loopVars == <<cur, round, attempt, installed>>
vars == <<cardVars, doubtVars, listVars, loopVars, stop, pc>>

Contents == {"none", "old", "new", "torn"}
Whole == {"old", "new"}
Statuses == {"unknown", "same", "different", "new", "keptSame",
             "keptDifferent", "readError", "updated", "failed"}
Updatable == {"different", "new", "readError", "failed"}

-----------------------------------------------------------------------------
(* What the card answers.                                                  *)

(* STAT: that it is there, that it is not ("stat-1"), or an error. *)
Stat(there) ==
  {"error"} \union (IF there THEN {"yes"} ELSE {"no"})
            \union (IF Misses THEN {"no"} ELSE {})

(* hashLocal(): a read may fail or return what is not there, but never a
   text with the SHA of another. *)
Hash(content) == {"fail", "other"} \union (IF content = "new" THEN {"good"} ELSE {})

(* Whether the file is what GitHub has.  Variant: any file that could be read
   (SameIsNew). *)
GoodIfRead(hash) == hash # "fail"
Good(hash) == hash = "good"

(* DELETE of the copy frees its chain, and with it what the file is made of
   where the two share it. *)
DeleteTmp ==
  /\ tmp # "none"
  /\ tmp' = "none" /\ twin' = FALSE
  /\ file' = IF twin THEN [file EXCEPT ![tmpOf] = "torn"] ELSE file
  /\ UNCHANGED <<tmpOf, asideVars, losses, filex, had>>

(* It may fail to, and it may fail to say so. *)
DeleteTmpFails == DeleteTmp \/ UNCHANGED cardVars

(* RENAME of a file to WCUPD.OLD, of the copy to the file, and of WCUPD.OLD
   back: what changes on the card when it is carried out. *)
SetAside ==
  /\ file[cur] # "none" /\ aside = "none"
  /\ aside' = file[cur] /\ asideOf' = cur
  /\ file' = [file EXCEPT ![cur] = "none"]
  /\ UNCHANGED <<tmpVars, losses, filex, had>>

Install ==
  /\ file[cur] = "none" /\ tmp # "none"
  /\ file' = [file EXCEPT ![cur] = tmp]
  /\ tmp' = "none" /\ twin' = FALSE
  /\ UNCHANGED <<tmpOf, asideVars, losses, filex, had>>

PutBack ==
  /\ file[cur] = "none" /\ aside # "none"
  /\ file' = [file EXCEPT ![cur] = aside]
  /\ aside' = "none"
  /\ UNCHANGED <<tmpVars, asideOf, losses, filex, had>>

(* A RENAME that reports a failure has changed nothing, has been carried out,
   or has removed the old entry and not kept the new one. *)
LoseFile ==
  /\ file[cur] # "none" /\ aside = "none" /\ losses < MaxLosses
  /\ file' = [file EXCEPT ![cur] = "none"] /\ losses' = losses + 1
  /\ UNCHANGED <<tmpVars, asideVars, filex, had>>

LoseTmp ==
  /\ file[cur] = "none" /\ tmp # "none" /\ losses < MaxLosses
  /\ tmp' = "none" /\ twin' = FALSE /\ losses' = losses + 1
  /\ UNCHANGED <<file, tmpOf, asideVars, filex, had>>

LoseAside ==
  /\ file[cur] = "none" /\ aside # "none" /\ losses < MaxLosses
  /\ aside' = "none" /\ losses' = losses + 1
  /\ UNCHANGED <<file, tmpVars, asideOf, filex, had>>

(* FILEX MOVE with REPLACE puts the chain of the copy under the file's name in
   one sector; without REPLACE it refuses a name that exists.  Variant: the
   protected files are replaced as well (KeptUntouched). *)
ReplacesAll == TRUE
Replaces == cur \notin Kept

Movable == filex /\ tmp # "none" /\ (Replaces \/ file[cur] = "none")

Move ==
  /\ Movable
  /\ file' = [file EXCEPT ![cur] = tmp]
  /\ tmp' = "none" /\ twin' = FALSE
  /\ UNCHANGED <<tmpOf, asideVars, losses, filex, had>>

(* Its failure may leave both names on one chain. *)
MoveHalfway ==
  /\ Movable
  /\ file' = [file EXCEPT ![cur] = tmp]
  /\ twin' = TRUE
  /\ UNCHANGED <<tmp, tmpOf, asideVars, losses, filex, had>>

-----------------------------------------------------------------------------
Init ==
  /\ file \in [File -> {"none", "old", "new"}]
  /\ had = {f \in File : file[f] # "none"}
  /\ tmp = "none" /\ tmpOf = NoFile /\ twin = FALSE
  /\ aside = "none" /\ asideOf = NoFile
  /\ losses = 0 /\ filex \in BOOLEAN
  /\ status = [f \in File |-> "unknown"] /\ local = [f \in File |-> FALSE]
  /\ present = FALSE /\ leftover = FALSE /\ suspect = FALSE /\ stop = FALSE
  /\ pc = "off" /\ cur = NoFile /\ round = 0 /\ attempt = 0
  /\ installed = FALSE

(* The power fails at any point, or the session ends and another begins. *)
Restart ==
  /\ pc # "off"
  /\ pc' = "off"
  /\ status' = [f \in File |-> "unknown"] /\ local' = [f \in File |-> FALSE]
  /\ present' = FALSE /\ leftover' = FALSE /\ suspect' = FALSE /\ stop' = FALSE
  /\ cur' = NoFile /\ round' = 0 /\ attempt' = 0 /\ installed' = FALSE
  /\ UNCHANGED cardVars

RequestStop ==
  /\ pc # "off" /\ ~stop
  /\ stop' = TRUE
  /\ UNCHANGED <<cardVars, doubtVars, listVars, loopVars, pc>>

Empty == tmp = "none" /\ aside = "none" /\ \A f \in File : file[f] = "none"

(* check(): the inventory of the folder, then the SHA of each file; it stops
   anywhere on an error or a stop, and the rest stays unknown. *)
Verdicts(f, seen) ==
  IF f \notin seen THEN {"new"}
    ELSE {IF f \in Kept
            THEN IF Good(h) THEN "keptSame" ELSE "keptDifferent"
            ELSE IF h = "fail" THEN "readError"
                   ELSE IF Good(h) THEN "same" ELSE "different" :
          h \in Hash(file[f])}

Check ==
  /\ pc = "off"
  /\ pc' = "ready"
  /\ \E seen \in SUBSET {f \in File : file[f] # "none"} :
       /\ ~Misses => seen = {f \in File : file[f] # "none"}
       /\ local' = [f \in File |-> f \in seen]
       /\ \E s \in [File -> Statuses] :
            /\ \A f \in File : s[f] \in Verdicts(f, seen) \union {"unknown"}
            /\ status' = s
       /\ present' \in IF (Misses \/ Empty) /\ seen = {} THEN BOOLEAN ELSE {TRUE}
  /\ LET there == tmp # "none" \/ aside # "none"
     IN  leftover' \in {there} \union (IF Misses THEN {FALSE} ELSE {})
  /\ UNCHANGED <<cardVars, suspect, stop, loopVars>>

-----------------------------------------------------------------------------
(* updateFile().                                                           *)

(* leftoverIn().  Variant: what the inventory has found is not asked
   (QuietWhenInDoubt). *)
ClearAlways == TRUE
Clear == ~leftover

CanUpdate(f) == status[f] \in Updatable /\ (f \in Kept => ~local[f])

(* apply() comes to a file.  Too large a file, or no memory, fails it. *)
Apply(f) ==
  /\ pc = "ready" /\ ~stop /\ ~suspect /\ CanUpdate(f)
  /\ \/ /\ status' = [status EXCEPT ![f] = "failed"]
        /\ UNCHANGED <<pc, loopVars>>
     \/ /\ Clear
        /\ pc' = "round"
        /\ cur' = f /\ round' = 0 /\ attempt' = 0 /\ installed' = FALSE
        /\ UNCHANGED status
  /\ UNCHANGED <<cardVars, doubtVars, local, stop>>

Finish(verdict, there) ==
  /\ pc' = "ready"
  /\ status' = [status EXCEPT ![cur] = verdict]
  /\ local' = [local EXCEPT ![cur] = there]
  /\ cur' = NoFile /\ round' = 0 /\ attempt' = 0 /\ installed' = FALSE
Done == Finish("updated", TRUE)
Failed == Finish("failed", local[cur])

GoOn(step) == pc' = step /\ UNCHANGED <<listVars, loopVars>>

RoundEnds ==
  /\ pc = "round" /\ (stop \/ round = Rounds)
  /\ Failed
  /\ UNCHANGED <<cardVars, doubtVars, stop>>

(* A protected file that is found is only checked. *)
KeptFound ==
  /\ pc = "round" /\ ~stop /\ round < Rounds
  /\ cur \in Kept /\ "yes" \in Stat(file[cur] # "none")
  /\ \E h \in Hash(file[cur]) :
       Finish(IF ~Good(h) THEN "keptDifferent"
                ELSE IF installed THEN "updated" ELSE "keptSame", TRUE)
  /\ UNCHANGED <<cardVars, doubtVars, stop>>

(* Nothing to write, or nowhere to: the download, the folder or a STAT fails,
   the copy's name is taken, or the folder was overlooked by the inventory. *)
RoundFails ==
  /\ pc = "round" /\ ~stop /\ round < Rounds
  /\ Failed
  /\ \/ UNCHANGED doubtVars
     \/ /\ ~present /\ suspect' = TRUE
        /\ UNCHANGED <<present, leftover>>
     \/ /\ present /\ "yes" \in Stat(tmp # "none") /\ leftover' = TRUE
        /\ UNCHANGED <<present, suspect>>
  /\ UNCHANGED <<cardVars, stop>>

(* A folder that is not there yet is made. *)
RoundBegins ==
  /\ pc = "round" /\ ~stop /\ round < Rounds /\ Clear
  /\ present \/ Empty
  /\ present' = TRUE
  /\ cur \in Kept => "no" \in Stat(file[cur] # "none")
  /\ "no" \in Stat(tmp # "none")
  /\ pc' = "write" /\ round' = round + 1 /\ attempt' = 0
  /\ UNCHANGED <<cardVars, leftover, suspect, listVars, stop, cur, installed>>

AttemptsEnd ==
  /\ pc = "write" /\ (stop \/ attempt = Attempts)
  /\ Failed
  /\ UNCHANGED <<cardVars, doubtVars, stop>>

(* writeLocal(): OPEN, whose answer may be lost; then the data and the commit,
   which may write what was not sent, or fail. *)
OpenCopy ==
  /\ pc = "write" /\ ~stop /\ attempt < Attempts
  /\ attempt' = attempt + 1
  /\ \/ /\ tmp = "none"
        /\ tmp' = "torn" /\ tmpOf' = cur /\ twin' = FALSE
        /\ pc' \in {"fill", "write"}
     \/ UNCHANGED <<tmpVars, pc>>
  /\ UNCHANGED <<file, asideVars, losses, filex, had, doubtVars, listVars,
                 stop, cur, round, installed>>

FillCopy ==
  /\ pc = "fill"
  /\ \/ tmp' \in {"new", "torn"} /\ GoOn("verify")
     \/ tmp' \in {"new", "torn", "none"} /\ GoOn("drop")
  /\ UNCHANGED <<file, tmpOf, twin, asideVars, losses, filex, had, doubtVars,
                 stop>>

(* hashLocal() of the copy.  Variant: that it was written is enough
   (CopySurvives). *)
VerifyNothing == pc = "verify" /\ GoOn("replace")
                   /\ UNCHANGED <<cardVars, doubtVars, stop>>
VerifyCopy ==
  /\ pc = "verify"
  /\ \E h \in Hash(tmp) : GoOn(IF Good(h) THEN "replace" ELSE "drop")
  /\ UNCHANGED <<cardVars, doubtVars, stop>>

(* The own copy is not good: it goes, or it becomes a leftover. *)
DropCopy ==
  /\ pc = "drop"
  /\ \/ /\ DeleteTmp /\ GoOn("write")
        /\ UNCHANGED doubtVars
     \/ /\ DeleteTmpFails /\ Failed
        /\ leftover' = TRUE /\ UNCHANGED <<present, suspect>>
  /\ UNCHANGED stop

-----------------------------------------------------------------------------
(* vfsReplace().  Variant: a failure of the medium is taken for a refusal
   (CopySurvives). *)
UntouchedLoose == {"refused", "media"}
Untouched == {"refused"}

Replace ==
  /\ pc = "replace"
  /\ \E answer \in {"done", "unsupported", "refused", "media", "lost"} :
       /\ \/ answer = "done" /\ Move
          \/ answer \in {"media", "lost"} /\ (Move \/ MoveHalfway)
          \/ answer # "done" /\ UNCHANGED cardVars
       /\ answer = "unsupported" => ~filex
       /\ pc' = CASE answer = "done" -> "judge"
                  [] answer = "unsupported" -> "statFile"
                  [] answer \in Untouched -> "untouched"
                  [] OTHER -> "judgeUnknown"
       /\ installed' = (installed \/ answer = "done")
  /\ UNCHANGED <<doubtVars, listVars, stop, cur, round, attempt>>

(* renameReplace(). *)
StatFile ==
  /\ pc = "statFile"
  /\ \E answer \in Stat(file[cur] # "none") :
       GoOn(CASE answer = "no" -> "installNew"
              [] answer = "yes" /\ Replaces -> "statAside"
              [] OTHER -> "untouched")
  /\ UNCHANGED <<cardVars, doubtVars, stop>>

StatAside ==
  /\ pc = "statAside"
  /\ \E answer \in Stat(aside # "none") :
       /\ GoOn(IF answer = "no" THEN "setAside" ELSE "untouched")
       /\ leftover' = (leftover \/ answer = "yes")
  /\ UNCHANGED <<cardVars, present, suspect, stop>>

RenameOld ==
  /\ pc = "setAside"
  /\ \/ SetAside /\ GoOn("installOver")
     \/ (SetAside \/ LoseFile \/ UNCHANGED cardVars) /\ GoOn("judgeUnknown")
  /\ UNCHANGED <<doubtVars, stop>>

RenameCopy ==
  /\ pc \in {"installNew", "installOver"}
  /\ \/ /\ Install
        /\ pc' = IF pc = "installOver" THEN "dropOld" ELSE "judge"
        /\ installed' = TRUE
     \/ /\ Install \/ LoseTmp \/ UNCHANGED cardVars
        /\ pc' = IF pc = "installOver" THEN "putBack" ELSE "judgeUnknown"
        /\ UNCHANGED installed
  /\ UNCHANGED <<doubtVars, listVars, stop, cur, round, attempt>>

RenameBack ==
  /\ pc = "putBack"
  /\ PutBack \/ LoseAside \/ UNCHANGED cardVars
  /\ GoOn("judgeUnknown")
  /\ UNCHANGED <<doubtVars, stop>>

DeleteOld ==
  /\ pc = "dropOld"
  /\ GoOn("judge")
  /\ \/ /\ aside # "none" /\ aside' = "none"
        /\ leftover' \in {leftover, TRUE}
     \/ leftover' = TRUE /\ UNCHANGED aside
  /\ UNCHANGED <<file, tmpVars, asideOf, losses, filex, had, present, suspect,
                 stop>>

-----------------------------------------------------------------------------
(* Nothing was changed: the copy goes.  A protected file may have been found,
   and the next round checks it. *)
DropUntouched ==
  /\ pc = "untouched"
  /\ \/ /\ DeleteTmp
        /\ IF cur \in Kept THEN GoOn("round") ELSE Failed
        /\ UNCHANGED doubtVars
     \/ /\ DeleteTmpFails /\ Failed
        /\ leftover' = TRUE /\ UNCHANGED <<present, suspect>>
  /\ UNCHANGED stop

(* The file is read again, and the verdict is what is on the card. *)
Judge ==
  /\ pc = "judge"
  /\ \E h \in Hash(file[cur]) : IF Good(h) THEN Done ELSE GoOn("round")
  /\ UNCHANGED <<cardVars, doubtVars, stop>>

(* After an unknown outcome nothing more is written in this session. *)
JudgeUnknown ==
  /\ pc = "judgeUnknown"
  /\ \E h \in Hash(file[cur]) : IF Good(h) THEN Done ELSE Failed
  /\ suspect' = TRUE
  /\ UNCHANGED <<cardVars, present, leftover, stop>>

Update ==
  \/ RoundEnds
  \/ KeptFound
  \/ RoundFails
  \/ RoundBegins
  \/ AttemptsEnd
  \/ OpenCopy
  \/ FillCopy
  \/ VerifyCopy
  \/ DropCopy
  \/ Replace
  \/ StatFile
  \/ StatAside
  \/ RenameOld
  \/ RenameCopy
  \/ RenameBack
  \/ DeleteOld
  \/ DropUntouched
  \/ Judge
  \/ JudgeUnknown

Next ==
  \/ Restart
  \/ RequestStop
  \/ Check
  \/ \E f \in File : Apply(f)
  \/ Update

Spec == Init /\ [][Next]_vars
-----------------------------------------------------------------------------
Pcs == {"off", "ready", "round", "write", "fill", "verify", "drop", "replace",
        "statFile", "statAside", "setAside", "installNew", "installOver",
        "putBack", "dropOld", "untouched", "judge", "judgeUnknown"}
Updating == pc \notin {"off", "ready"}
Staged == {"replace", "statFile", "statAside", "setAside", "installNew",
           "installOver"}

CardOK ==
  /\ file \in [File -> Contents]
  /\ tmp \in {"none", "new", "torn"} /\ tmpOf \in File \union {NoFile}
  /\ aside \in Contents /\ asideOf \in File \union {NoFile}
  /\ twin \in BOOLEAN /\ filex \in BOOLEAN /\ had \subseteq File
  /\ losses \in 0 .. MaxLosses
SessionOK ==
  /\ status \in [File -> Statuses] /\ local \in [File -> BOOLEAN]
  /\ present \in BOOLEAN /\ leftover \in BOOLEAN
  /\ suspect \in BOOLEAN /\ stop \in BOOLEAN
  /\ pc \in Pcs /\ cur \in IF Updating THEN File ELSE {NoFile}
  /\ round \in 0 .. Rounds /\ attempt \in 0 .. Attempts
  /\ installed \in BOOLEAN

(* Types, that a file is being updated exactly inside updateFile(), and that a
   copy that is about to replace it is whole and its own. *)
TypeOK ==
  /\ CardOK /\ SessionOK
  /\ pc \in Staged => tmp = "new" /\ tmpOf = cur /\ ~twin

(* A file that was whole in the beginning is always on the card, the old one
   or the new one: under its name, as WCUPD.OLD or as WCUPD.TMP.  So it is
   after a power failure anywhere and after a failing medium. *)
Intact(f) ==
  \/ file[f] \in Whole
  \/ tmp = "new" /\ tmpOf = f
  \/ aside \in Whole /\ asideOf = f
CopySurvives == \A f \in had : Intact(f)

(* With FILEX MOVE it is there under its own name at every moment (README of
   WC Update: "the name of the file does not vanish for an instant"). *)
NameSurvives == filex => \A f \in had : file[f] \in Whole

(* A file that the list shows as equal to GitHub is, until the session ends,
   whatever was updated, cleaned up or left behind since. *)
SameIsNew ==
  \A f \in File : status[f] \in {"same", "keptSame", "updated"} => file[f] = "new"

(* A protected file that is on the card is never changed, also when the
   inventory and every STAT have overlooked it. *)
KeptUntouched ==
  [][\A f \in Kept : file[f] # "none" => file'[f] = file[f]]_vars

(* Once an outcome is unknown nothing is written in this session; once a
   leftover is known, at most the updater's own copy is removed. *)
QuietWhenInDoubt ==
  [][/\ suspect => UNCHANGED cardVars
     /\ leftover => UNCHANGED <<file, asideVars>> /\ tmp' \in {tmp, "none"}]_vars

-----------------------------------------------------------------------------
(* What the steps preserve together, and the proofs in WcUpdateProofs use.   *)

Own == {"fill", "verify", "drop", "untouched"} \union Staged
Renaming == {"statFile", "statAside", "setAside", "installNew", "installOver",
             "putBack", "dropOld"}

(* No chain is freed under a name that is in use; and the copy the updater is
   working on is the one it has made, beside a card that did without it. *)
OwnInv ==
  /\ \A f \in File : file[f] # "torn"
  /\ aside # "torn"
  /\ pc \in Own => /\ tmpOf = cur /\ ~twin
                    /\ \A f \in had : file[f] \in Whole
                                       \/ (aside \in Whole /\ asideOf = f)

(* The two RENAMEs: the old file is set aside while the new one waits, and at
   most one of them is lost. *)
RenameInv ==
  /\ pc \in Renaming => ~filex
  /\ pc \in {"statAside", "setAside", "installOver", "putBack", "dropOld"}
       => cur \notin Kept
  /\ pc \in {"installOver", "putBack", "dropOld"} => asideOf = cur
  /\ pc = "dropOld" => file[cur] = "new"
  /\ pc = "putBack" /\ losses < MaxLosses /\ cur \in had
       => file[cur] \in Whole \/ (tmp = "new" /\ tmpOf = cur)

(* The file being updated is not shown as equal, and doubt ends the writing. *)
ListInv == Updating => status[cur] \in Updatable
DoubtInv ==
  /\ suspect => pc = "ready"
  /\ leftover => pc \in {"ready", "round", "untouched", "judge"}

UpdateInv ==
  /\ TypeOK /\ OwnInv /\ RenameInv /\ ListInv /\ DoubtInv
  /\ CopySurvives /\ NameSurvives /\ SameIsNew
=============================================================================
