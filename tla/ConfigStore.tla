---------------------------- MODULE ConfigStore -----------------------------
(***************************************************************************)
(* ConfigStore: the copy of zifi.ini in LittleFS.  A text is written to    *)
(* zifi.new, the old file is set aside as zifi.bak, the new one gets the   *)
(* name zifi.cfg.  The power may fail between any two operations on the    *)
(* file system, each of which is atomic; what a reset leaves is a state of *)
(* the three names.                                                        *)
(*                                                                         *)
(* A text stands for its length and CRC as well (no collisions).  A file   *)
(* that is not complete fails its CRC and is Broken here.                  *)
(***************************************************************************)
EXTENDS Sequences, Naturals

CONSTANTS
  Text,   (* the texts of zifi.ini                                          *)
  NoText, (* no text                                                        *)
  Broken, (* the content of a file that was not completed                   *)
  Fails   (* whether operations of the file system may fail                 *)

ASSUME StoreAssumption ==
  NoText \notin Text /\ Broken \notin Text /\ NoText # Broken /\ Fails \in BOOLEAN

VARIABLES
  files,      (* the content of cfg, bak and new, NoText where there is none *)
  available,  (* available_                                                 *)
  cached,     (* the text checksum_ and length_ belong to, NoText: ~valid_  *)
  pc,         (* the next operation                                         *)
  text,       (* the argument of saveIfChanged()                            *)
  hadOld,     (* `hadOld`                                                   *)
  outcome,    (* of the last save                                           *)
  held,       (* what load() would have found when the save began           *)
  main        (* and the content of zifi.cfg then                           *)

saveVars == <<text, held, main>>
vars == <<files, available, cached, pc, hadOld, outcome, saveVars>>

Names == {"cfg", "bak", "new"}
Steps == {"removeNew", "open", "write", "removeBackup", "renameOld", "commit",
          "restore", "cleanup"}
Saving == pc \in Steps
Firm == main \in Text

(* What load() takes of the three files.  Variants: the file set aside comes
   first (WrittenIsStored), or the new one before it (FailureKeepsOld). *)
BackupFirst == <<"bak", "cfg", "new">>
NewSecond == <<"cfg", "new", "bak">>
Candidates == <<"cfg", "bak", "new">>

FirstValid(f) ==
  LET valid == {i \in 1 .. 3 : f[Candidates[i]] \in Text}
  IN  IF valid = {} THEN NoText
        ELSE f[Candidates[CHOOSE i \in valid : \A j \in valid : i <= j]]
Loadable == FirstValid(files)

(* A file that may be gone afterwards: the result of remove() is not looked
   at. *)
Removed(name) ==
  \/ files' = [files EXCEPT ![name] = NoText]
  \/ Fails /\ UNCHANGED files

Moved(old, new) == [files EXCEPT ![new] = files[old], ![old] = NoText]

-----------------------------------------------------------------------------
Init ==
  /\ files = [name \in Names |-> NoText]
  /\ available = FALSE /\ cached = NoText
  /\ pc = "off" /\ hadOld = FALSE /\ outcome = "none"
  /\ text = NoText /\ held = NoText /\ main = NoText

(* The power fails, or the firmware restarts. *)
Reset ==
  /\ pc # "off"
  /\ pc' = "off"
  /\ available' = FALSE /\ cached' = NoText /\ hadOld' = FALSE
  /\ outcome' = IF Saving THEN "none" ELSE outcome
  /\ UNCHANGED <<files, saveVars>>

(* begin(): a file system that cannot be mounted is formatted, which may fail
   as well, and so may the second attempt to mount. *)
Begin ==
  /\ pc = "off"
  /\ pc' = "begun"
  /\ available' = TRUE
  /\ UNCHANGED <<files, cached, hadOld, outcome, saveVars>>

Format ==
  /\ pc = "off" /\ Fails
  /\ pc' = "begun"
  /\ available' \in BOOLEAN
  /\ files' = [name \in Names |-> NoText]
  /\ outcome' = "none" /\ main' = NoText
  /\ UNCHANGED <<cached, hadOld, text, held>>

BeginFailed ==
  /\ pc = "off" /\ Fails
  /\ pc' = "begun"
  /\ UNCHANGED <<files, available, cached, hadOld, outcome, saveVars>>

(* load(), once after begin(). *)
Load ==
  /\ pc = "begun"
  /\ pc' = "idle"
  /\ cached' \in (IF available THEN {Loadable} ELSE {})
                   \union (IF available /\ ~Fails THEN {} ELSE {NoText})
  /\ UNCHANGED <<files, available, hadOld, outcome, saveVars>>

-----------------------------------------------------------------------------
(* saveIfChanged().  A text that is the cached one writes nothing. *)
Unchanged(t) ==
  /\ pc = "idle" /\ available /\ cached = t
  /\ text' = t /\ held' = Loadable /\ main' = files["cfg"]
  /\ outcome' = "unchanged"
  /\ UNCHANGED <<files, available, cached, pc, hadOld>>

Save(t) ==
  /\ pc = "idle" /\ ~(available /\ cached = t)
  /\ text' = t /\ held' = Loadable /\ main' = files["cfg"]
  /\ \/ available /\ pc' = "removeNew" /\ outcome' = "none"
     \/ (available => Fails) /\ outcome' = "error" /\ UNCHANGED pc
  /\ UNCHANGED <<files, available, cached, hadOld>>

(* What the store remembers of the text it was asked to save.  Variant: it is
   remembered although it was not written (CacheIsMain). *)
RememberAlways(result) == text
Remember(result) == IF result = "written" THEN text ELSE cached

Done(result) ==
  /\ pc' = "idle"
  /\ outcome' = result
  /\ cached' = Remember(result)

RemoveNew ==
  /\ pc = "removeNew"
  /\ pc' = "open"
  /\ Removed("new")
  /\ UNCHANGED <<available, cached, hadOld, outcome, saveVars>>

OpenNew ==
  /\ pc = "open"
  /\ \/ /\ pc' = "write"
        /\ files' = [files EXCEPT !["new"] = Broken]
        /\ UNCHANGED <<cached, outcome>>
     \/ Fails /\ Done("error") /\ UNCHANGED files
  /\ UNCHANGED <<available, hadOld, saveVars>>

(* write(), flush() and close(), and remove() after a short write.  Variant:
   that it was short is not looked at (TypeOK, ReplaceIsAtomic). *)
WriteUnchecked ==
  /\ pc = "write"
  /\ pc' = "removeBackup"
  /\ files' \in {[files EXCEPT !["new"] = text], files}
  /\ UNCHANGED <<available, cached, hadOld, outcome, saveVars>>

WriteNew ==
  /\ pc = "write"
  /\ \/ /\ pc' = "removeBackup"
        /\ files' = [files EXCEPT !["new"] = text]
        /\ UNCHANGED <<cached, outcome>>
     \/ Fails /\ Removed("new") /\ Done("error")
  /\ UNCHANGED <<available, hadOld, saveVars>>

RemoveBackup ==
  /\ pc = "removeBackup"
  /\ pc' = "renameOld"
  /\ Removed("bak")
  /\ UNCHANGED <<available, cached, hadOld, outcome, saveVars>>

RenameOld ==
  /\ pc = "renameOld"
  /\ hadOld' = (files["cfg"] # NoText)
  /\ \/ /\ pc' = "commit"
        /\ files' = IF hadOld' THEN Moved("cfg", "bak") ELSE files
        /\ UNCHANGED <<cached, outcome>>
     \/ Fails /\ hadOld' /\ Removed("new") /\ Done("error")
  /\ UNCHANGED <<available, saveVars>>

Commit ==
  /\ pc = "commit"
  /\ \/ /\ pc' = "cleanup"
        /\ files' = Moved("new", "cfg")
        /\ UNCHANGED <<cached, outcome>>
     \/ Fails /\ hadOld /\ pc' = "restore" /\ UNCHANGED <<files, cached, outcome>>
     \/ Fails /\ ~hadOld /\ Done("error") /\ UNCHANGED files
  /\ UNCHANGED <<available, hadOld, saveVars>>

Restore ==
  /\ pc = "restore"
  /\ \/ files' = Moved("bak", "cfg")
     \/ UNCHANGED files
  /\ Done("error")
  /\ UNCHANGED <<available, hadOld, saveVars>>

Cleanup ==
  /\ pc = "cleanup"
  /\ Removed("bak")
  /\ Done("written")
  /\ UNCHANGED <<available, hadOld, saveVars>>

Next ==
  \/ Reset
  \/ Begin
  \/ Format
  \/ BeginFailed
  \/ Load
  \/ \E t \in Text : Unchanged(t)
  \/ \E t \in Text : Save(t)
  \/ RemoveNew
  \/ OpenNew
  \/ WriteNew
  \/ RemoveBackup
  \/ RenameOld
  \/ Commit
  \/ Restore
  \/ Cleanup

Spec == Init /\ [][Next]_vars

-----------------------------------------------------------------------------
(* Types, and that the file which replaces zifi.cfg is complete by then. *)
TypeOK ==
  /\ files \in [Names -> Text \union {NoText, Broken}]
  /\ available \in BOOLEAN
  /\ cached \in Text \union {NoText}
  /\ pc \in {"off", "begun", "idle"} \union Steps
  /\ hadOld \in BOOLEAN
  /\ outcome \in {"none", "unchanged", "written", "error"}
  /\ text \in Text \union {NoText} /\ held \in Text \union {NoText}
  /\ main \in Text \union {NoText, Broken}
  /\ Saving => text \in Text
  /\ pc \in {"removeBackup", "renameOld", "commit", "restore"}
       => files["new"] = text

(* A save that found zifi.cfg valid may be cut short by a reset or a failure
   anywhere: during it and afterwards a start finds the old text or the new
   one. *)
ReplaceIsAtomic == Firm => Loadable \in {held, text}

(* A text reported as written is what the next start finds, whatever was left
   behind under the two other names. *)
WrittenIsStored == outcome = "written" => Loadable = text

(* A save reported as failed has changed nothing, when zifi.cfg was valid. *)
FailureKeepsOld == outcome = "error" /\ Firm => Loadable = held

(* A text is only taken for unchanged, and not written, when it is the one in
   zifi.cfg, if there is one. *)
CacheIsMain ==
  pc = "idle" /\ cached # NoText /\ files["cfg"] \in Text => cached = files["cfg"]

-----------------------------------------------------------------------------
(* What the steps preserve together, and the proofs in ConfigStoreProofs use.
   Only zifi.new is ever incomplete; a save that found zifi.cfg valid has it
   under that name, then under zifi.bak, until its own text takes its place. *)
WholeInv == files["cfg"] # Broken /\ files["bak"] # Broken

StepInv ==
  /\ Saving => outcome = "none"
  /\ pc \in {"removeNew", "open", "write", "removeBackup", "renameOld"} =>
       IF Firm THEN files["cfg"] = held ELSE files["cfg"] = NoText
  /\ pc \in {"commit", "restore"} =>
       /\ files["cfg"] = NoText /\ (hadOld <=> Firm)
       /\ Firm => files["bak"] = held
  /\ pc = "restore" => Firm
  /\ pc = "cleanup" => files["cfg"] = text
  /\ Saving /\ Firm => held \in Text /\ cached \in {NoText, held}

StoreInv ==
  /\ TypeOK /\ WholeInv /\ StepInv
  /\ ReplaceIsAtomic /\ WrittenIsStored /\ FailureKeepsOld /\ CacheIsMain

-----------------------------------------------------------------------------
(* "The two-step replacement survives a reset at any point" (comment at
   config_store.cpp:154): at every point of a save a start finds a text, if one
   was to be found when the save began. *)
ReplaceSurvivesReset == Saving /\ held # NoText => Loadable # NoText
=============================================================================
