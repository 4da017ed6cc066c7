--------------------------- MODULE WcUpdateProofs ---------------------------
(***************************************************************************)
(* The safety properties of WcUpdate, for any number of files, rounds and  *)
(* attempts.  UpdateInv is inductive.  Its heart is OwnInv: a copy is only *)
(* ever begun when the name WCUPD.TMP was free, so the card was whole      *)
(* without it; as long as the copy is the updater's own it may be deleted, *)
(* and from the moment an outcome is unknown it is not touched any more.   *)
(***************************************************************************)
EXTENDS WcUpdate, TLAPS

(* What the invariant says of the card alone. *)
Sound ==
  /\ CardOK /\ CopySurvives /\ NameSurvives
  /\ \A f \in File : file[f] # "torn"
  /\ aside # "torn"

LEMMA InvSound == UpdateInv => Sound
BY DEF UpdateInv, TypeOK, OwnInv, Sound

LEMMA SoundStays == ASSUME Sound, UNCHANGED cardVars PROVE Sound'
BY DEF Sound, CardOK, CopySurvives, NameSurvives, Intact, Whole, cardVars,
       tmpVars, asideVars

(* updateFile() returns: the verdict may only be that the file is equal where
   it is. *)
LEMMA FinishInv ==
  ASSUME UpdateInv, Updating, Sound', NEW verdict \in Statuses, NEW there \in BOOLEAN,
         Finish(verdict, there),
         verdict \in {"same", "keptSame", "updated"} => file'[cur] = "new",
         \A f \in File \ {cur} : file[f] = "new" => file'[f] = "new",
         present' \in BOOLEAN, leftover' \in BOOLEAN, suspect' \in BOOLEAN,
         stop' = stop
  PROVE  UpdateInv'
<1>1. cur \in File
  BY DEF UpdateInv, TypeOK, SessionOK
<1>2. /\ pc' = "ready" /\ cur' = NoFile /\ round' = 0 /\ attempt' = 0
      /\ installed' = FALSE
      /\ status' = [status EXCEPT ![cur] = verdict]
      /\ local' = [local EXCEPT ![cur] = there]
  BY DEF Finish
<1>3. SessionOK'
  <2>1. status' \in [File -> Statuses]
    BY <1>1, <1>2 DEF UpdateInv, TypeOK, SessionOK
  <2>2. local' \in [File -> BOOLEAN]
    BY <1>1, <1>2 DEF UpdateInv, TypeOK, SessionOK
  <2>3. stop' \in BOOLEAN
    BY DEF UpdateInv, TypeOK, SessionOK
  <2>4. /\ pc' \in Pcs /\ ~Updating' /\ cur' = NoFile
        /\ round' \in 0 .. Rounds /\ attempt' \in 0 .. Attempts
    BY <1>2, UpdateAssumption DEF Pcs, Updating
  <2>5. installed' \in BOOLEAN
    BY <1>2
  <2> QED
    BY <2>1, <2>2, <2>3, <2>4, <2>5 DEF SessionOK
<1>4. TypeOK'
  BY <1>2, <1>3 DEF TypeOK, Sound, Staged
<1>5. SameIsNew'
  BY <1>1, <1>2 DEF UpdateInv, TypeOK, SessionOK, SameIsNew
<1>6. OwnInv' /\ RenameInv' /\ ListInv' /\ DoubtInv'
  BY <1>2 DEF OwnInv, RenameInv, ListInv, DoubtInv, Sound, Own, Staged,
              Renaming, Updating
<1> QED
  BY <1>4, <1>5, <1>6 DEF UpdateInv, Sound

(* It fails. *)
LEMMA FailedInv ==
  ASSUME UpdateInv, Updating, Sound', Failed,
         \A f \in File \ {cur} : file[f] = "new" => file'[f] = "new",
         present' \in BOOLEAN, leftover' \in BOOLEAN, suspect' \in BOOLEAN,
         stop' = stop
  PROVE  UpdateInv'
<1>1. cur \in File /\ local[cur] \in BOOLEAN
  BY DEF UpdateInv, TypeOK, SessionOK
<1>2. "failed" \in Statuses
  BY DEF Statuses
<1>3. Finish("failed", local[cur])
  BY DEF Failed
<1> QED
  BY <1>1, <1>2, <1>3, FinishInv

(* It is done, because the file was read and is what GitHub has. *)
LEMMA DoneInv ==
  ASSUME UpdateInv, Updating, Done, file[cur] = "new", UNCHANGED cardVars,
         present' \in BOOLEAN, leftover' \in BOOLEAN, suspect' \in BOOLEAN,
         stop' = stop
  PROVE  UpdateInv'
<1>1. Sound' /\ UNCHANGED file
  BY InvSound, SoundStays DEF cardVars
<1>2. file'[cur] = "new" /\ "updated" \in Statuses
  BY <1>1 DEF Statuses
<1>3. Finish("updated", TRUE)
  BY DEF Done
<1> QED
  BY <1>1, <1>2, <1>3, FinishInv

-----------------------------------------------------------------------------
(* Steps that end updateFile() without having written.                     *)

LEMMA DoubtTyped == UpdateInv =>
  /\ present \in BOOLEAN /\ leftover \in BOOLEAN /\ suspect \in BOOLEAN
BY DEF UpdateInv, TypeOK, SessionOK

LEMMA QuietFailedInv ==
  ASSUME UpdateInv, Updating, Failed, UNCHANGED cardVars,
         present' \in BOOLEAN, leftover' \in BOOLEAN, suspect' \in BOOLEAN,
         stop' = stop
  PROVE  UpdateInv'
<1>1. Sound' /\ UNCHANGED file
  BY InvSound, SoundStays DEF cardVars
<1> QED
  BY <1>1, FailedInv

LEMMA RoundEndsInv == ASSUME UpdateInv, RoundEnds PROVE UpdateInv'
BY QuietFailedInv, DoubtTyped DEF RoundEnds, doubtVars, Updating

LEMMA AttemptsEndInv == ASSUME UpdateInv, AttemptsEnd PROVE UpdateInv'
BY QuietFailedInv, DoubtTyped DEF AttemptsEnd, doubtVars, Updating

LEMMA RoundFailsInv == ASSUME UpdateInv, RoundFails PROVE UpdateInv'
BY QuietFailedInv, DoubtTyped DEF RoundFails, doubtVars, Updating

LEMMA KeptFoundInv == ASSUME UpdateInv, KeptFound PROVE UpdateInv'
<1>1. PICK h \in Hash(file[cur]) :
        Finish(IF ~Good(h) THEN "keptDifferent"
                 ELSE IF installed THEN "updated" ELSE "keptSame", TRUE)
  BY DEF KeptFound
<1>2. Sound' /\ UNCHANGED file
  BY InvSound, SoundStays DEF KeptFound, cardVars
<1>3. Good(h) => file'[cur] = "new"
  BY <1>1, <1>2 DEF Hash, Good
<1>4. PICK verdict \in Statuses :
        /\ verdict = IF ~Good(h) THEN "keptDifferent"
                       ELSE IF installed THEN "updated" ELSE "keptSame"
        /\ verdict \in {"same", "keptSame", "updated"} => Good(h)
  BY DEF Statuses
<1>5. Finish(verdict, TRUE)
  BY <1>1, <1>4
<1> QED
  BY <1>2, <1>3, <1>4, <1>5, FinishInv, DoubtTyped
     DEF KeptFound, doubtVars, Updating

LEMMA JudgeUnknownInv == ASSUME UpdateInv, JudgeUnknown PROVE UpdateInv'
<1>1. PICK h \in Hash(file[cur]) : IF Good(h) THEN Done ELSE Failed
  BY DEF JudgeUnknown
<1>2. Good(h) => file[cur] = "new"
  BY <1>1 DEF Hash, Good
<1>3. /\ UNCHANGED cardVars /\ Updating /\ stop' = stop
      /\ present' \in BOOLEAN /\ leftover' \in BOOLEAN /\ suspect' \in BOOLEAN
  BY DoubtTyped DEF JudgeUnknown, Updating
<1>4. CASE Good(h)
  BY <1>1, <1>2, <1>3, <1>4, DoneInv
<1>5. CASE ~Good(h)
  BY <1>1, <1>3, <1>5, QuietFailedInv
<1> QED
  BY <1>4, <1>5

LEMMA JudgeInv == ASSUME UpdateInv, Judge PROVE UpdateInv'
<1>1. PICK h \in Hash(file[cur]) : IF Good(h) THEN Done ELSE GoOn("round")
  BY DEF Judge
<1>2. Good(h) => file[cur] = "new"
  BY <1>1 DEF Hash, Good
<1>3. /\ UNCHANGED cardVars /\ Updating /\ stop' = stop /\ UNCHANGED doubtVars
      /\ present' \in BOOLEAN /\ leftover' \in BOOLEAN /\ suspect' \in BOOLEAN
  BY DoubtTyped DEF Judge, Updating, doubtVars
<1>4. CASE Good(h)
  BY <1>1, <1>2, <1>3, <1>4, DoneInv
<1>5. CASE ~Good(h)
  <2>1. pc' = "round" /\ UNCHANGED <<listVars, loopVars>> /\ pc = "judge"
    BY <1>1, <1>5 DEF GoOn, Judge
  <2>2. Sound'
    BY <1>3, InvSound, SoundStays
  <2> QED
    BY <1>3, <2>1, <2>2
       DEF UpdateInv, TypeOK, SessionOK, Sound, OwnInv, RenameInv, ListInv,
           DoubtInv, SameIsNew, Pcs, Updating, Staged, Own, Renaming,
           listVars, loopVars, doubtVars, cardVars
<1> QED
  BY <1>4, <1>5

-----------------------------------------------------------------------------
(* Steps that delete the updater's own copy: the card was whole without it. *)

LEMMA DeleteOwn ==
  ASSUME UpdateInv, pc \in {"drop", "untouched"}, DeleteTmpFails
  PROVE  Sound' /\ UNCHANGED file
<1>1. Sound /\ ~twin /\ \A f \in had : file[f] \in Whole \/ (aside \in Whole /\ asideOf = f)
  BY InvSound DEF UpdateInv, OwnInv, Own
<1>2. CASE UNCHANGED cardVars
  BY <1>1, <1>2, SoundStays DEF cardVars
<1>3. CASE DeleteTmp
  <2>1. /\ tmp' = "none" /\ twin' = FALSE /\ file' = file
        /\ UNCHANGED <<tmpOf, aside, asideOf, losses, filex, had>>
    BY <1>1, <1>3 DEF DeleteTmp, asideVars
  <2> QED
    BY <1>1, <2>1 DEF Sound, CardOK, CopySurvives, NameSurvives, Intact
<1> QED
  BY <1>2, <1>3 DEF DeleteTmpFails

LEMMA DropCopyInv == ASSUME UpdateInv, DropCopy PROVE UpdateInv'
<1>1. pc = "drop" /\ stop' = stop
  BY DEF DropCopy
<1>2. CASE DeleteTmp /\ GoOn("write") /\ UNCHANGED doubtVars
  <2>1. Sound' /\ UNCHANGED file
    BY <1>1, <1>2, DeleteOwn DEF DeleteTmpFails
  <2>2. pc' = "write" /\ UNCHANGED <<listVars, loopVars, doubtVars>>
    BY <1>2 DEF GoOn
  <2> QED
    BY <1>1, <2>1, <2>2
       DEF UpdateInv, TypeOK, SessionOK, Sound, OwnInv, RenameInv, ListInv,
           DoubtInv, SameIsNew, Pcs, Updating, Staged, Own, Renaming,
           listVars, loopVars, doubtVars
<1>3. CASE /\ DeleteTmpFails /\ Failed
           /\ leftover' = TRUE /\ UNCHANGED <<present, suspect>>
  BY <1>1, <1>3, DeleteOwn, FailedInv, DoubtTyped DEF Updating
<1> QED
  BY <1>2, <1>3 DEF DropCopy, DeleteTmpFails

LEMMA DropUntouchedInv == ASSUME UpdateInv, DropUntouched PROVE UpdateInv'
<1>1. pc = "untouched" /\ stop' = stop
  BY DEF DropUntouched
<1>2. CASE DeleteTmp /\ GoOn("round") /\ UNCHANGED doubtVars
  <2>1. Sound' /\ UNCHANGED file
    BY <1>1, <1>2, DeleteOwn DEF DeleteTmpFails
  <2>2. pc' = "round" /\ UNCHANGED <<listVars, loopVars, doubtVars>>
    BY <1>2 DEF GoOn
  <2> QED
    BY <1>1, <2>1, <2>2
       DEF UpdateInv, TypeOK, SessionOK, Sound, OwnInv, RenameInv, ListInv,
           DoubtInv, SameIsNew, Pcs, Updating, Staged, Own, Renaming,
           listVars, loopVars, doubtVars
<1>3. CASE /\ DeleteTmpFails /\ Failed
           /\ present' \in BOOLEAN /\ leftover' \in BOOLEAN /\ suspect' \in BOOLEAN
  BY <1>1, <1>3, DeleteOwn, FailedInv DEF Updating
<1> QED
  BY <1>1, <1>2, <1>3, DoubtTyped DEF DropUntouched, DeleteTmpFails, doubtVars

-----------------------------------------------------------------------------
(* Steps that leave the list alone and go on inside updateFile().  What is
   left to show of each is the card, and what the two RENAMEs rely on. *)
LEMMA GoOnInv ==
  ASSUME UpdateInv, Updating, Sound',
         pc' \in Pcs \ {"off", "ready"}, UNCHANGED <<listVars, cur>>,
         round' \in 0 .. Rounds, attempt' \in 0 .. Attempts,
         installed' \in BOOLEAN, present' \in BOOLEAN,
         leftover' \in BOOLEAN, suspect' = suspect, stop' = stop,
         \A f \in File \ {cur} : file[f] = "new" => file'[f] = "new",
         leftover' => pc' \in {"round", "untouched", "judge"},
         pc' \in Staged => tmp' = "new" /\ tmpOf' = cur /\ ~twin',
         OwnInv', RenameInv'
  PROVE  UpdateInv'
<1>1. /\ cur \in File /\ cur' \in File /\ Updating'
      /\ status' = status /\ local' = local /\ cur' = cur
  BY DEF UpdateInv, TypeOK, SessionOK, Updating, listVars
<1>2. SessionOK'
  <2>1. /\ status' \in [File -> Statuses] /\ local' \in [File -> BOOLEAN]
    BY <1>1 DEF UpdateInv, TypeOK, SessionOK
  <2>2. suspect' \in BOOLEAN /\ stop' \in BOOLEAN
    BY DEF UpdateInv, TypeOK, SessionOK
  <2> QED
    BY <1>1, <2>1, <2>2 DEF SessionOK
<1>3. TypeOK' /\ CopySurvives' /\ NameSurvives'
  BY <1>1, <1>2 DEF TypeOK, Sound
<1>4. ListInv' /\ SameIsNew'
  <2>1. status[cur] \in Updatable
    BY DEF UpdateInv, ListInv
  <2> QED
    BY <1>1, <2>1 DEF UpdateInv, ListInv, SameIsNew, Updatable
<1>5. DoubtInv'
  BY <1>1 DEF UpdateInv, DoubtInv, Updating
<1> QED
  BY <1>3, <1>4, <1>5 DEF UpdateInv

LEMMA RoundBeginsInv == ASSUME UpdateInv, RoundBegins PROVE UpdateInv'
<1>1. Sound' /\ UNCHANGED file
  BY InvSound, SoundStays DEF RoundBegins, cardVars
<1>2. /\ pc = "round" /\ Updating /\ pc' = "write"
      /\ round' \in 0 .. Rounds /\ attempt' \in 0 .. Attempts
  BY UpdateAssumption DEF RoundBegins, Updating, UpdateInv, TypeOK, SessionOK
<1>3. /\ present' \in BOOLEAN /\ leftover' = leftover /\ leftover' = FALSE
      /\ installed' \in BOOLEAN
  BY DEF RoundBegins, Clear, UpdateInv, TypeOK, SessionOK
<1>4. OwnInv' /\ RenameInv'
  BY <1>1, <1>2 DEF UpdateInv, OwnInv, RenameInv, Sound, Own, Staged, Renaming
<1> QED
  BY <1>1, <1>2, <1>3, <1>4, GoOnInv DEF RoundBegins, Pcs, Staged

LEMMA OpenCopyInv == ASSUME UpdateInv, OpenCopy PROVE UpdateInv'
<1>1. /\ pc = "write" /\ Updating /\ UNCHANGED <<listVars, cur, round>>
      /\ UNCHANGED <<file, aside, asideOf, losses, filex, had>>
      /\ UNCHANGED <<present, leftover, suspect, stop, installed>>
      /\ cur \in File /\ leftover = FALSE
  BY DEF OpenCopy, Updating, doubtVars, asideVars, UpdateInv, TypeOK, SessionOK,
         DoubtInv
<1>2. round' \in 0 .. Rounds /\ attempt' \in 0 .. Attempts
  BY UpdateAssumption DEF OpenCopy, UpdateInv, TypeOK, SessionOK
<1>3. CASE UNCHANGED <<tmpVars, pc>>
  <2>1. Sound'
    BY <1>1, <1>3, InvSound, SoundStays DEF cardVars, asideVars
  <2>2. OwnInv' /\ RenameInv'
    BY <1>1, <1>3, <2>1
       DEF UpdateInv, OwnInv, RenameInv, Sound, Own, Staged, Renaming
  <2> QED
    BY <1>1, <1>2, <1>3, <2>1, <2>2, GoOnInv, DoubtTyped
       DEF Pcs, Staged, UpdateInv, TypeOK, SessionOK
<1>4. CASE /\ tmp = "none" /\ tmp' = "torn" /\ tmpOf' = cur /\ twin' = FALSE
           /\ pc' \in {"fill", "write"}
  <2>1. \A f \in had : file[f] \in Whole \/ (aside \in Whole /\ asideOf = f)
    BY <1>4 DEF UpdateInv, CopySurvives, Intact
  <2>2. Sound'
    BY <1>1, <1>4, <2>1, InvSound
       DEF Sound, CardOK, CopySurvives, NameSurvives, Intact
  <2>3. OwnInv' /\ RenameInv'
    BY <1>1, <1>4, <2>1, <2>2 DEF OwnInv, RenameInv, Sound, Own, Staged, Renaming
  <2> QED
    BY <1>1, <1>2, <1>4, <2>2, <2>3, GoOnInv, DoubtTyped
       DEF Pcs, Staged, UpdateInv, TypeOK, SessionOK
<1> QED
  BY <1>3, <1>4 DEF OpenCopy

LEMMA FillCopyInv == ASSUME UpdateInv, FillCopy PROVE UpdateInv'
<1>1. /\ pc = "fill" /\ Updating /\ UNCHANGED <<listVars, loopVars>>
      /\ UNCHANGED <<file, tmpOf, twin, aside, asideOf, losses, filex, had>>
      /\ UNCHANGED <<present, leftover, suspect, stop>>
      /\ tmp' \in {"new", "torn", "none"} /\ pc' \in {"verify", "drop"}
      /\ leftover = FALSE
  BY DEF FillCopy, GoOn, Updating, doubtVars, asideVars, UpdateInv, DoubtInv
<1>2. /\ tmpOf = cur /\ ~twin
      /\ \A f \in had : file[f] \in Whole \/ (aside \in Whole /\ asideOf = f)
  BY <1>1 DEF UpdateInv, OwnInv, Own
<1>3. Sound'
  BY <1>1, <1>2, InvSound DEF Sound, CardOK, CopySurvives, NameSurvives, Intact
<1>4. OwnInv' /\ RenameInv'
  BY <1>1, <1>2, <1>3
     DEF OwnInv, RenameInv, Sound, Own, Staged, Renaming, loopVars
<1> QED
  BY <1>1, <1>3, <1>4, GoOnInv, DoubtTyped
     DEF Pcs, Staged, loopVars, UpdateInv, TypeOK, SessionOK

LEMMA VerifyCopyInv == ASSUME UpdateInv, VerifyCopy PROVE UpdateInv'
<1>1. /\ pc = "verify" /\ Updating /\ UNCHANGED <<listVars, loopVars>>
      /\ UNCHANGED cardVars /\ UNCHANGED <<present, leftover, suspect, stop>>
      /\ pc' \in {"replace", "drop"} /\ leftover = FALSE
      /\ pc' = "replace" => tmp = "new"
  BY DEF VerifyCopy, Hash, Good, GoOn, Updating, doubtVars, UpdateInv, DoubtInv
<1>2. tmpOf = cur /\ ~twin
  BY <1>1 DEF UpdateInv, OwnInv, Own
<1>3. Sound'
  BY <1>1, InvSound, SoundStays
<1>4. OwnInv' /\ RenameInv'
  BY <1>1, <1>3
     DEF UpdateInv, OwnInv, RenameInv, Sound, Own, Staged, Renaming, loopVars,
         cardVars, tmpVars, asideVars
<1> QED
  BY <1>1, <1>2, <1>3, <1>4, GoOnInv, DoubtTyped
     DEF Pcs, Staged, loopVars, UpdateInv, TypeOK, SessionOK, cardVars, tmpVars

-----------------------------------------------------------------------------
(* The copy takes the place of the file.                                   *)

(* From here on the copy is whole and nothing is left over. *)
LEMMA StagedFacts ==
  ASSUME UpdateInv, pc \in Staged
  PROVE  /\ Updating /\ cur \in File /\ leftover = FALSE
         /\ tmp = "new" /\ tmpOf = cur /\ ~twin
         /\ round \in 0 .. Rounds /\ attempt \in 0 .. Attempts
         /\ installed \in BOOLEAN /\ Sound
BY InvSound DEF UpdateInv, TypeOK, SessionOK, DoubtInv, Updating, Staged

(* The copy under the file's own name, whether its own is gone or not. *)
LEMMA InstalledSound ==
  ASSUME UpdateInv, pc \in Staged, file' = [file EXCEPT ![cur] = tmp],
         twin' \in BOOLEAN, tmp' \in {tmp, "none"},
         UNCHANGED <<tmpOf, asideVars, losses, filex, had>>
  PROVE  Sound' /\ \A f \in File \ {cur} : file'[f] = file[f]
BY StagedFacts
   DEF Sound, CardOK, CopySurvives, NameSurvives, Intact, Whole, Contents,
       asideVars

LEMMA ReplaceInv == ASSUME UpdateInv, Replace PROVE UpdateInv'
<1> USE DEF Replace
<1>1. /\ pc = "replace" /\ pc \in Staged
      /\ UNCHANGED <<listVars, cur, round, attempt>>
      /\ UNCHANGED <<present, leftover, suspect, stop>>
      /\ installed' \in BOOLEAN
  BY DEF doubtVars, Staged, UpdateInv, TypeOK, SessionOK
<1>2. /\ Updating /\ cur \in File /\ leftover = FALSE
      /\ tmp = "new" /\ tmpOf = cur /\ ~twin
      /\ round \in 0 .. Rounds /\ attempt \in 0 .. Attempts /\ Sound
  BY <1>1, StagedFacts
<1>3. CASE UNCHANGED cardVars
  <2>1. Sound'
    BY <1>2, <1>3, SoundStays
  <2>2. /\ pc' \in {"judge", "judgeUnknown", "untouched", "statFile"}
        /\ pc' = "statFile" => ~filex
    BY DEF Untouched
  <2>3. OwnInv' /\ RenameInv'
    BY <1>1, <1>3, <2>1, <2>2
       DEF UpdateInv, OwnInv, RenameInv, Sound, Own, Staged, Renaming,
           cardVars, tmpVars, asideVars
  <2> QED
    BY <1>1, <1>2, <1>3, <2>1, <2>2, <2>3, GoOnInv, DoubtTyped
       DEF Pcs, cardVars, tmpVars
<1>4. CASE (Move \/ MoveHalfway) /\ pc' \in {"judge", "judgeUnknown"}
  <2>1. /\ file' = [file EXCEPT ![cur] = tmp] /\ twin' \in BOOLEAN
        /\ tmp' \in {tmp, "none"}
        /\ UNCHANGED <<tmpOf, asideVars, losses, filex, had>>
    BY <1>4 DEF Move, MoveHalfway
  <2>2. Sound' /\ \A f \in File \ {cur} : file'[f] = file[f]
    BY <1>1, <2>1, InstalledSound
  <2>3. OwnInv' /\ RenameInv'
    BY <1>4, <2>2 DEF OwnInv, RenameInv, Sound, Own, Staged, Renaming
  <2> QED
    BY <1>1, <1>2, <1>4, <2>2, <2>3, GoOnInv, DoubtTyped DEF Pcs, Staged
<1> QED
  BY <1>3, <1>4 DEF Untouched

LEMMA StatFileInv == ASSUME UpdateInv, StatFile PROVE UpdateInv'
<1>1. /\ pc = "statFile" /\ pc \in Staged /\ UNCHANGED <<listVars, loopVars>>
      /\ UNCHANGED cardVars /\ UNCHANGED <<present, leftover, suspect, stop>>
      /\ pc' \in {"installNew", "statAside", "untouched"}
      /\ pc' = "statAside" => cur \notin Kept
  BY DEF StatFile, GoOn, Replaces, doubtVars, Staged
<1>2. Sound'
  BY <1>1, StagedFacts, SoundStays
<1>3. OwnInv' /\ RenameInv'
  BY <1>1, <1>2
     DEF UpdateInv, OwnInv, RenameInv, Sound, Own, Staged, Renaming, loopVars,
         cardVars, tmpVars, asideVars
<1> QED
  BY <1>1, <1>2, <1>3, StagedFacts, GoOnInv, DoubtTyped
     DEF Pcs, loopVars, cardVars, tmpVars

LEMMA StatAsideInv == ASSUME UpdateInv, StatAside PROVE UpdateInv'
<1>1. /\ pc = "statAside" /\ pc \in Staged /\ UNCHANGED <<listVars, loopVars>>
      /\ UNCHANGED cardVars /\ UNCHANGED <<present, suspect, stop>>
      /\ leftover' \in BOOLEAN
      /\ \/ pc' = "setAside" /\ leftover' = leftover
         \/ pc' = "untouched"
  BY DEF StatAside, GoOn, Staged, UpdateInv, TypeOK, SessionOK
<1>2. Sound'
  BY <1>1, StagedFacts, SoundStays
<1>3. OwnInv' /\ RenameInv'
  BY <1>1, <1>2
     DEF UpdateInv, OwnInv, RenameInv, Sound, Own, Staged, Renaming, loopVars,
         cardVars, tmpVars, asideVars
<1> QED
  BY <1>1, <1>2, <1>3, StagedFacts, GoOnInv, DoubtTyped
     DEF Pcs, loopVars, cardVars, tmpVars

(* RENAME of the old file to WCUPD.OLD.  Until now the card was whole without
   the copy; if the entry is lost, the copy is what is left of the file. *)
LEMMA RenameOldInv == ASSUME UpdateInv, RenameOld PROVE UpdateInv'
<1>1. /\ pc = "setAside" /\ pc \in Staged /\ UNCHANGED <<listVars, loopVars>>
      /\ UNCHANGED <<present, leftover, suspect, stop>>
      /\ pc' \in {"installOver", "judgeUnknown"}
      /\ SetAside \/ (pc' = "judgeUnknown" /\ (LoseFile \/ UNCHANGED cardVars))
  BY DEF RenameOld, GoOn, doubtVars, Staged
<1>2. /\ Updating /\ cur \in File /\ leftover = FALSE
      /\ tmp = "new" /\ tmpOf = cur /\ ~twin /\ Sound
  BY <1>1, StagedFacts
<1>3. /\ ~filex /\ cur \notin Kept
      /\ \A f \in had : file[f] \in Whole \/ (aside \in Whole /\ asideOf = f)
  BY <1>1 DEF UpdateInv, OwnInv, RenameInv, Own, Renaming
<1>4. UNCHANGED <<tmp, tmpOf, twin, filex, had>>
  BY <1>1 DEF SetAside, LoseFile, cardVars, tmpVars
<1>5. Sound'
  <2>1. CASE SetAside
    BY <1>2, <1>3, <1>4, <2>1
       DEF SetAside, Sound, CardOK, CopySurvives, NameSurvives, Intact, Whole,
           Contents
  <2>2. CASE LoseFile
    BY <1>2, <1>3, <1>4, <2>2, UpdateAssumption
       DEF LoseFile, Sound, CardOK, CopySurvives, NameSurvives, Intact, Whole,
           Contents, asideVars
  <2>3. CASE UNCHANGED cardVars
    BY <1>2, <2>3, SoundStays
  <2> QED
    BY <1>1, <2>1, <2>2, <2>3
<1>6. \A f \in File \ {cur} : file'[f] = file[f]
  BY <1>1, <1>2 DEF SetAside, LoseFile, Sound, CardOK, cardVars
<1>7. OwnInv'
  <2>1. CASE pc' = "installOver"
    <3>1. SetAside
      BY <1>1, <2>1
    <3>2. \A f \in had' : file'[f] \in Whole \/ (aside' \in Whole /\ asideOf' = f)
      BY <1>2, <1>3, <1>4, <1>6, <3>1 DEF SetAside, Whole, Sound, CardOK
    <3> QED
      BY <1>1, <1>2, <1>4, <1>5, <3>2 DEF OwnInv, Sound, loopVars
  <2>2. CASE pc' = "judgeUnknown"
    BY <1>5, <2>2 DEF OwnInv, Sound, Own, Staged
  <2> QED
    BY <1>1, <2>1, <2>2
<1>8. RenameInv'
  BY <1>1, <1>3, <1>4 DEF RenameInv, Renaming, SetAside, loopVars
<1> QED
  BY <1>1, <1>2, <1>4, <1>5, <1>6, <1>7, <1>8, GoOnInv, DoubtTyped, StagedFacts
     DEF Pcs, Staged, loopVars

(* RENAME of the copy to the file. *)
LEMMA RenameCopyInv == ASSUME UpdateInv, RenameCopy PROVE UpdateInv'
<1>1. /\ pc \in {"installNew", "installOver"} /\ pc \in Staged
      /\ UNCHANGED <<listVars, cur, round, attempt>>
      /\ UNCHANGED <<present, leftover, suspect, stop>>
      /\ installed' \in BOOLEAN
      /\ Install \/ LoseTmp \/ UNCHANGED cardVars
      /\ pc' \in IF pc = "installOver" THEN {"dropOld", "putBack"}
                   ELSE {"judge", "judgeUnknown"}
      /\ pc' = "dropOld" => Install
  BY DEF RenameCopy, doubtVars, Staged, UpdateInv, TypeOK, SessionOK
<1>2. /\ Updating /\ cur \in File /\ leftover = FALSE
      /\ tmp = "new" /\ tmpOf = cur /\ ~twin /\ Sound
  BY <1>1, StagedFacts
<1>3. /\ ~filex /\ losses \in 0 .. MaxLosses
      /\ pc = "installOver" => cur \notin Kept /\ asideOf = cur
      /\ \A f \in had : file[f] \in Whole \/ (aside \in Whole /\ asideOf = f)
  BY <1>1
     DEF UpdateInv, TypeOK, CardOK, OwnInv, RenameInv, Own, Renaming
<1>4. UNCHANGED <<tmpOf, aside, asideOf, filex, had>>
  BY <1>1 DEF Install, LoseTmp, cardVars, tmpVars, asideVars
<1>5. Sound' /\ \A f \in File \ {cur} : file'[f] = file[f]
  <2>1. CASE Install
    <3>1. /\ file' = [file EXCEPT ![cur] = tmp] /\ twin' \in BOOLEAN
          /\ tmp' \in {tmp, "none"}
          /\ UNCHANGED <<tmpOf, asideVars, losses, filex, had>>
      BY <2>1 DEF Install
    <3> QED
      BY <1>1, <3>1, InstalledSound
  <2>2. CASE LoseTmp
    <3>1. tmp' = "none" /\ twin' = FALSE /\ file' = file
      BY <2>2 DEF LoseTmp
    <3>2. losses' \in 0 .. MaxLosses
      BY <1>3, <2>2, UpdateAssumption DEF LoseTmp
    <3> QED
      BY <1>2, <1>3, <1>4, <3>1, <3>2
         DEF Sound, CardOK, CopySurvives, NameSurvives, Intact
  <2>3. CASE UNCHANGED cardVars
    BY <1>2, <2>3, SoundStays DEF cardVars
  <2> QED
    BY <1>1, <2>1, <2>2, <2>3
<1>6. OwnInv'
  BY <1>1, <1>5 DEF OwnInv, Sound, Own, Staged
<1>7. RenameInv'
  <2>1. pc' = "dropOld" => file'[cur] = "new"
    BY <1>1, <1>2 DEF Install, Sound, CardOK
  <2>2. \/ file'[cur] = "new" \/ (tmp' = "new" /\ tmpOf' = cur)
        \/ ~(losses' < MaxLosses)
    BY <1>1, <1>2, <1>3, <1>4, UpdateAssumption
       DEF Install, LoseTmp, Sound, CardOK, cardVars, tmpVars
  <2> QED
    BY <1>1, <1>3, <1>4, <2>1, <2>2 DEF RenameInv, Renaming, Whole
<1> QED
  BY <1>1, <1>2, <1>5, <1>6, <1>7, GoOnInv, DoubtTyped, StagedFacts
     DEF Pcs, Staged

(* RENAME of WCUPD.OLD back; only one entry is ever lost, so that either it
   or the new file is there. *)
LEMMA RenameBackInv == ASSUME UpdateInv, RenameBack PROVE UpdateInv'
<1>1. /\ pc = "putBack" /\ Updating /\ UNCHANGED <<listVars, loopVars>>
      /\ UNCHANGED <<present, leftover, suspect, stop>>
      /\ pc' = "judgeUnknown" /\ cur \in File /\ Sound /\ leftover = FALSE
      /\ PutBack \/ LoseAside \/ UNCHANGED cardVars
  BY InvSound
     DEF RenameBack, GoOn, doubtVars, Updating, UpdateInv, TypeOK, SessionOK,
         DoubtInv
<1>2. /\ ~filex /\ asideOf = cur
      /\ losses < MaxLosses /\ cur \in had
           => file[cur] \in Whole \/ (tmp = "new" /\ tmpOf = cur)
  BY <1>1 DEF UpdateInv, RenameInv, Renaming
<1>3. Sound' /\ \A f \in File \ {cur} : file'[f] = file[f]
  <2>1. CASE PutBack
    BY <1>1, <1>2, <2>1
       DEF PutBack, Sound, CardOK, CopySurvives, NameSurvives, Intact, Whole,
           Contents, tmpVars
  <2>2. CASE LoseAside
    BY <1>1, <1>2, <2>2, UpdateAssumption
       DEF LoseAside, Sound, CardOK, CopySurvives, NameSurvives, Intact, Whole,
           Contents, tmpVars
  <2>3. CASE UNCHANGED cardVars
    BY <1>1, <2>3, SoundStays DEF cardVars
  <2> QED
    BY <1>1, <2>1, <2>2, <2>3
<1>4. OwnInv' /\ RenameInv'
  BY <1>1, <1>3 DEF OwnInv, RenameInv, Sound, Own, Staged, Renaming
<1> QED
  BY <1>1, <1>3, <1>4, GoOnInv, DoubtTyped
     DEF Pcs, Staged, loopVars, UpdateInv, TypeOK, SessionOK

LEMMA DeleteOldInv == ASSUME UpdateInv, DeleteOld PROVE UpdateInv'
<1>1. /\ pc = "dropOld" /\ Updating /\ UNCHANGED <<listVars, loopVars>>
      /\ UNCHANGED <<file, tmpVars, asideOf, losses, filex, had>>
      /\ UNCHANGED <<present, suspect, stop>> /\ leftover' \in BOOLEAN
      /\ pc' = "judge" /\ cur \in File /\ Sound /\ aside' \in {aside, "none"}
  BY InvSound
     DEF DeleteOld, GoOn, Updating, UpdateInv, TypeOK, SessionOK
<1>2. ~filex /\ asideOf = cur /\ file[cur] = "new"
  BY <1>1 DEF UpdateInv, RenameInv, Renaming
<1>3. Sound'
  BY <1>1, <1>2
     DEF Sound, CardOK, CopySurvives, NameSurvives, Intact, Whole, Contents,
         tmpVars
<1>4. OwnInv' /\ RenameInv'
  BY <1>1, <1>3 DEF OwnInv, RenameInv, Sound, Own, Staged, Renaming
<1> QED
  BY <1>1, <1>3, <1>4, GoOnInv, DoubtTyped
     DEF Pcs, Staged, loopVars, UpdateInv, TypeOK, SessionOK

-----------------------------------------------------------------------------
(* The session around updateFile().                                        *)

LEMMA InitInv == Init => UpdateInv
<1> SUFFICES ASSUME Init PROVE UpdateInv
  OBVIOUS
<1>1. CardOK /\ had = {f \in File : file[f] # "none"}
  <2>1. file \in [File -> Contents] /\ had \subseteq File
    BY DEF Init, Contents
  <2>2. losses \in 0 .. MaxLosses
    BY UpdateAssumption DEF Init
  <2> QED
    BY <2>1, <2>2 DEF Init, CardOK, Contents
<1>2. SessionOK
  <2>1. status \in [File -> Statuses] /\ local \in [File -> BOOLEAN]
    BY DEF Init, Statuses
  <2>2. /\ round \in 0 .. Rounds /\ attempt \in 0 .. Attempts
        /\ pc \in Pcs /\ cur \in IF Updating THEN File ELSE {NoFile}
    BY UpdateAssumption DEF Init, Pcs, Updating
  <2> QED
    BY <2>1, <2>2 DEF Init, SessionOK
<1>3. TypeOK /\ OwnInv /\ RenameInv /\ ListInv /\ DoubtInv
  BY <1>1, <1>2
     DEF Init, TypeOK, OwnInv, RenameInv, ListInv, DoubtInv, Staged, Own,
         Renaming, Updating
<1>4. CopySurvives /\ NameSurvives /\ SameIsNew
  <2>1. \A f \in had : file[f] \in Whole
    BY <1>1 DEF Init, Whole
  <2>2. \A f \in File : status[f] = "unknown"
    BY DEF Init
  <2> QED
    BY <2>1, <2>2 DEF CopySurvives, NameSurvives, SameIsNew, Intact
<1> QED
  BY <1>3, <1>4 DEF UpdateInv

(* Between two files only the card and the list matter. *)
LEMMA OutsideInv ==
  ASSUME UpdateInv, UNCHANGED cardVars, SessionOK', ~Updating', SameIsNew',
         suspect' => pc' = "ready", leftover' => pc' = "ready"
  PROVE  UpdateInv'
<1>1. Sound'
  BY InvSound, SoundStays
<1>2. TypeOK'
  BY <1>1 DEF TypeOK, Sound, Updating, Staged
<1>3. OwnInv' /\ RenameInv' /\ ListInv' /\ DoubtInv'
  BY <1>1
     DEF OwnInv, RenameInv, ListInv, DoubtInv, Sound, Own, Staged, Renaming,
         Updating
<1> QED
  BY <1>1, <1>2, <1>3 DEF UpdateInv, Sound

LEMMA RestartInv == ASSUME UpdateInv, Restart PROVE UpdateInv'
<1>1. SessionOK'
  <2>1. status' \in [File -> Statuses] /\ local' \in [File -> BOOLEAN]
    BY DEF Restart, Statuses
  <2>2. /\ round' \in 0 .. Rounds /\ attempt' \in 0 .. Attempts
        /\ pc' \in Pcs /\ cur' = NoFile /\ ~Updating'
    BY UpdateAssumption DEF Restart, Pcs, Updating
  <2> QED
    BY <2>1, <2>2 DEF Restart, SessionOK
<1>2. SameIsNew'
  BY DEF Restart, SameIsNew
<1> QED
  BY <1>1, <1>2, OutsideInv DEF Restart, Updating

LEMMA RequestStopInv == ASSUME UpdateInv, RequestStop PROVE UpdateInv'
BY DEF RequestStop, UpdateInv, TypeOK, CardOK, SessionOK, OwnInv, RenameInv,
       ListInv, DoubtInv, CopySurvives, NameSurvives, SameIsNew, Intact,
       Updating, cardVars, tmpVars, asideVars, doubtVars, listVars, loopVars

(* A verdict of the check that says "equal" has read the file. *)
LEMMA CheckInv == ASSUME UpdateInv, Check PROVE UpdateInv'
<1>1. PICK seen \in SUBSET {f \in File : file[f] # "none"} :
        /\ local' = [f \in File |-> f \in seen]
        /\ \E s \in [File -> Statuses] :
             /\ \A f \in File : s[f] \in Verdicts(f, seen) \union {"unknown"}
             /\ status' = s
        /\ present' \in BOOLEAN
  <2>1. PICK seen \in SUBSET {f \in File : file[f] # "none"} :
          /\ local' = [f \in File |-> f \in seen]
          /\ \E s \in [File -> Statuses] :
               /\ \A f \in File : s[f] \in Verdicts(f, seen) \union {"unknown"}
               /\ status' = s
          /\ present' \in IF (Misses \/ Empty) /\ seen = {} THEN BOOLEAN ELSE {TRUE}
    BY DEF Check
  <2>2. present' \in BOOLEAN
    BY <2>1
  <2> QED
    BY <2>1, <2>2
<1>2. /\ pc = "off" /\ pc' = "ready" /\ leftover' \in BOOLEAN
      /\ UNCHANGED <<cardVars, suspect, stop, loopVars>>
  BY DEF Check
<1>3. status' \in [File -> Statuses]
  BY <1>1
<1>4. local' \in [File -> BOOLEAN]
  BY <1>1
<1>5. SessionOK'
  BY <1>1, <1>2, <1>3, <1>4
     DEF UpdateInv, TypeOK, SessionOK, Pcs, Updating, loopVars
<1>6. SameIsNew'
  <2> SUFFICES ASSUME NEW f \in File, status'[f] \in {"same", "keptSame", "updated"}
               PROVE  file[f] = "new"
    BY <1>2 DEF SameIsNew, cardVars
  <2>1. status'[f] \in Verdicts(f, seen)
    BY <1>1
  <2>2. PICK h \in Hash(file[f]) : Good(h)
    BY <2>1 DEF Verdicts
  <2> QED
    BY <2>2 DEF Hash, Good
<1> QED
  BY <1>2, <1>5, <1>6, OutsideInv DEF Updating

LEMMA ApplyInv == ASSUME UpdateInv, NEW f \in File, Apply(f) PROVE UpdateInv'
<1>1. /\ pc = "ready" /\ ~suspect /\ status[f] \in Updatable
      /\ UNCHANGED <<cardVars, doubtVars, local, stop>> /\ cur = NoFile
  BY DEF Apply, CanUpdate, UpdateInv, TypeOK, SessionOK, Updating
<1>2. CASE /\ status' = [status EXCEPT ![f] = "failed"]
           /\ UNCHANGED <<pc, loopVars>>
  <2>1. status' \in [File -> Statuses]
    BY <1>2 DEF UpdateInv, TypeOK, SessionOK, Statuses
  <2>2. SessionOK' /\ ~Updating'
    BY <1>1, <1>2, <2>1
       DEF UpdateInv, TypeOK, SessionOK, Updating, doubtVars, loopVars
  <2>3. SameIsNew'
    BY <1>1, <1>2
       DEF UpdateInv, TypeOK, SessionOK, SameIsNew, cardVars
  <2> QED
    BY <1>1, <1>2, <2>2, <2>3, OutsideInv
<1>3. CASE /\ Clear
           /\ pc' = "round"
           /\ cur' = f /\ round' = 0 /\ attempt' = 0 /\ installed' = FALSE
           /\ UNCHANGED status
  <2>1. Sound'
    BY <1>1, InvSound, SoundStays
  <2>2. /\ round' \in 0 .. Rounds /\ attempt' \in 0 .. Attempts
        /\ pc' \in Pcs /\ cur' \in IF Updating' THEN File ELSE {NoFile}
    BY <1>3, UpdateAssumption DEF Pcs, Updating
  <2>3. SessionOK'
    BY <1>1, <1>3, <2>2 DEF UpdateInv, TypeOK, SessionOK, doubtVars
  <2>4. TypeOK'
    BY <1>3, <2>1, <2>3 DEF TypeOK, Sound, Staged
  <2>5. /\ OwnInv' /\ RenameInv' /\ ListInv' /\ DoubtInv' /\ SameIsNew'
    BY <1>1, <1>3, <2>1
       DEF UpdateInv, OwnInv, RenameInv, ListInv, DoubtInv, SameIsNew, Sound,
           Own, Staged, Renaming, Updating, Clear, doubtVars, cardVars
  <2> QED
    BY <2>1, <2>4, <2>5 DEF UpdateInv, Sound
<1> QED
  BY <1>2, <1>3 DEF Apply

-----------------------------------------------------------------------------
LEMMA NextInv == UpdateInv /\ [Next]_vars => UpdateInv'
<1> SUFFICES ASSUME UpdateInv, [Next]_vars PROVE UpdateInv'
  OBVIOUS
<1>1. CASE Restart
  BY <1>1, RestartInv
<1>2. CASE RequestStop
  BY <1>2, RequestStopInv
<1>3. CASE Check
  BY <1>3, CheckInv
<1>4. CASE \E f \in File : Apply(f)
  BY <1>4, ApplyInv
<1>5. CASE Update
  BY <1>5, RoundEndsInv, KeptFoundInv, RoundFailsInv, RoundBeginsInv,
     AttemptsEndInv, OpenCopyInv, FillCopyInv, VerifyCopyInv, DropCopyInv,
     ReplaceInv, StatFileInv, StatAsideInv, RenameOldInv, RenameCopyInv,
     RenameBackInv, DeleteOldInv, DropUntouchedInv, JudgeInv, JudgeUnknownInv
     DEF Update
<1>6. CASE UNCHANGED vars
  BY <1>6
     DEF vars, UpdateInv, TypeOK, CardOK, SessionOK, OwnInv, RenameInv,
         ListInv, DoubtInv, CopySurvives, NameSurvives, SameIsNew, Intact,
         Updating, cardVars, tmpVars, asideVars, doubtVars, listVars, loopVars
<1> QED
  BY <1>1, <1>2, <1>3, <1>4, <1>5, <1>6 DEF Next

(* UpdateInv holds of every reachable state (updateFile, vfsReplace and
   renameReplace with every failure of the card between their steps). *)
THEOREM UpdateInvariant == Spec => []UpdateInv
<1>1. Init => UpdateInv
  BY InitInv
<1>2. UpdateInv /\ [Next]_vars => UpdateInv'
  BY NextInv
<1> QED
  BY <1>1, <1>2, PTL DEF Spec

(* Type correctness, and that a copy put in place of a file (vfsReplace) is
   whole, verified and that file's own. *)
THEOREM UpdateTypes == Spec => []TypeOK
<1>1. UpdateInv => TypeOK
  BY DEF UpdateInv
<1> QED
  BY <1>1, UpdateInvariant, PTL

(* No step of updateFile(), no power failure between two and no failing medium
   leaves the card without a whole copy of a file that was there. *)
THEOREM UpdateCopySurvives == Spec => []CopySurvives
<1>1. UpdateInv => CopySurvives
  BY DEF UpdateInv
<1> QED
  BY <1>1, UpdateInvariant, PTL

(* With FILEX MOVE (vfsReplace) the file is whole under its own name always. *)
THEOREM UpdateNameSurvives == Spec => []NameSurvives
<1>1. UpdateInv => NameSurvives
  BY DEF UpdateInv
<1> QED
  BY <1>1, UpdateInvariant, PTL

(* A verdict that a file equals GitHub's stays true while it is shown. *)
THEOREM UpdateSameIsNew == Spec => []SameIsNew
<1>1. UpdateInv => SameIsNew
  BY DEF UpdateInv
<1> QED
  BY <1>1, UpdateInvariant, PTL

(* What a step may change under the name of a file. *)
LEMMA KeptStep == UpdateInv /\ [Next]_vars =>
                    \A f \in Kept : file[f] # "none" => file'[f] = file[f]
<1> SUFFICES ASSUME UpdateInv, [Next]_vars, NEW f \in Kept, file[f] # "none"
             PROVE  file'[f] = file[f]
  OBVIOUS
<1>1. file \in [File -> Contents] /\ f \in File
  BY UpdateAssumption DEF UpdateInv, TypeOK, CardOK
<1>2. CASE UNCHANGED file
  BY <1>2
<1>3. CASE DropCopy \/ DropUntouched
  <2>1. pc \in {"drop", "untouched"} /\ DeleteTmpFails
    BY <1>3 DEF DropCopy, DropUntouched, DeleteTmpFails
  <2> QED
    BY <2>1, DeleteOwn
<1>4. CASE Replace
  <2>1. (Move \/ MoveHalfway) => file' = [file EXCEPT ![cur] = tmp] /\ Movable
    BY DEF Move, MoveHalfway
  <2>2. Move \/ MoveHalfway \/ UNCHANGED cardVars
    BY <1>4 DEF Replace
  <2> QED
    BY <1>1, <2>1, <2>2 DEF Movable, Replaces, cardVars
<1>5. CASE RenameOld
  <2>1. cur \notin Kept
    BY <1>5 DEF RenameOld, UpdateInv, RenameInv
  <2> QED
    BY <1>1, <1>5, <2>1 DEF RenameOld, SetAside, LoseFile, cardVars
<1>6. CASE RenameCopy
  BY <1>1, <1>6 DEF RenameCopy, Install, LoseTmp, cardVars
<1>7. CASE RenameBack
  BY <1>1, <1>7 DEF RenameBack, PutBack, LoseAside, cardVars
<1>8. Next \/ UNCHANGED file
  BY DEF vars, cardVars
<1> QED
  BY <1>2, <1>3, <1>4, <1>5, <1>6, <1>7, <1>8
     DEF Next, Update, Restart, RequestStop, Check, Apply, RoundEnds, KeptFound,
         RoundFails, RoundBegins, AttemptsEnd, OpenCopy, FillCopy, VerifyCopy,
         StatFile, StatAside, DeleteOld, Judge, JudgeUnknown, cardVars

(* A protected file that exists is changed by no step (the protected names of
   updateFile() and vfsReplace without REPLACE). *)
THEOREM UpdateKeeps == Spec => KeptUntouched
<1>1. UpdateInv /\ [Next]_vars
        => [\A f \in Kept : file[f] # "none" => file'[f] = file[f]]_vars
  BY KeptStep
<1> QED
  BY <1>1, UpdateInvariant, PTL DEF Spec, KeptUntouched

LEMMA QuietStep == UpdateInv /\ [Next]_vars =>
                     /\ suspect => UNCHANGED cardVars
                     /\ leftover => /\ UNCHANGED <<file, asideVars>>
                                    /\ tmp' \in {tmp, "none"}
<1> SUFFICES ASSUME UpdateInv, [Next]_vars
             PROVE  /\ suspect => UNCHANGED cardVars
                    /\ leftover => /\ UNCHANGED <<file, asideVars>>
                                   /\ tmp' \in {tmp, "none"}
  OBVIOUS
<1>1. CASE UNCHANGED cardVars
  BY <1>1 DEF cardVars, tmpVars
<1>2. CASE DropUntouched
  <2>1. pc = "untouched" /\ DeleteTmpFails
    BY <1>2 DEF DropUntouched, DeleteTmpFails
  <2>2. ~suspect
    BY <2>1 DEF UpdateInv, DoubtInv
  <2>3. UNCHANGED file
    BY <2>1, DeleteOwn
  <2>4. UNCHANGED asideVars /\ tmp' \in {tmp, "none"}
    BY <2>1 DEF DeleteTmpFails, DeleteTmp, cardVars, tmpVars
  <2> QED
    BY <2>2, <2>3, <2>4
<1>3. CASE pc \in {"write", "fill", "drop", "replace", "setAside",
                    "installNew", "installOver", "putBack", "dropOld"}
  BY <1>3 DEF UpdateInv, DoubtInv
<1>4. Next \/ UNCHANGED cardVars
  BY DEF vars
<1> QED
  BY <1>1, <1>2, <1>3, <1>4
     DEF Next, Update, Restart, RequestStop, Check, Apply, RoundEnds, KeptFound,
         RoundFails, RoundBegins, AttemptsEnd, OpenCopy, FillCopy, VerifyCopy,
         DropCopy, Replace, StatFile, StatAside, RenameOld, RenameCopy,
         RenameBack, DeleteOld, Judge, JudgeUnknown

(* After an unknown outcome (diskSuspect_) nothing is written; beside a known
   leftover (leftover_) at most the updater's own copy is removed. *)
THEOREM UpdateQuiet == Spec => QuietWhenInDoubt
<1>1. UpdateInv /\ [Next]_vars
        => [/\ suspect => UNCHANGED cardVars
            /\ leftover => /\ UNCHANGED <<file, asideVars>>
                           /\ tmp' \in {tmp, "none"}]_vars
  BY QuietStep
<1> QED
  BY <1>1, UpdateInvariant, PTL DEF Spec, QuietWhenInDoubt
=============================================================================
