------------------------- MODULE ConfigStoreProofs --------------------------
(***************************************************************************)
(* Proofs about ConfigStore: StoreInv is inductive, and its conjuncts are  *)
(* the invariants MCConfigStore checks.  They hold for every set of texts, *)
(* with and without failures of the file system.                           *)
(***************************************************************************)
EXTENDS ConfigStore, TLAPS

Contents == [Names -> Text \union {NoText, Broken}]

(* load() takes zifi.cfg if it is valid, then zifi.bak, then zifi.new. *)
LEMMA LoadOrder ==
  ASSUME NEW f \in Contents
  PROVE  /\ FirstValid(f) \in Text \union {NoText}
         /\ f["cfg"] \in Text => FirstValid(f) = f["cfg"]
         /\ f["cfg"] \notin Text /\ f["bak"] \in Text
              => FirstValid(f) = f["bak"]
<1> DEFINE valid == {i \in 1 .. 3 : f[Candidates[i]] \in Text}
           least == CHOOSE i \in valid : \A j \in valid : i <= j
<1>1. /\ Candidates[1] = "cfg" /\ Candidates[2] = "bak"
      /\ Candidates[3] = "new"
  BY DEF Candidates
<1>2. FirstValid(f) = IF valid = {} THEN NoText ELSE f[Candidates[least]]
  BY DEF FirstValid
<1>3. ASSUME valid # {}
      PROVE  least \in valid /\ \A j \in valid : least <= j
  <2>1. \E i \in valid : \A j \in valid : i <= j
    <3>1. CASE 1 \in valid
      BY <3>1
    <3>2. CASE 1 \notin valid /\ 2 \in valid
      BY <3>2
    <3>3. CASE 1 \notin valid /\ 2 \notin valid
      <4>1. valid = {3}
        BY <3>3, <1>3
      <4> QED BY <4>1
    <3> QED BY <3>1, <3>2, <3>3
  <2> QED BY <2>1
<1>4. valid = {} \/ f[Candidates[least]] \in Text
  BY <1>3
<1>5. f["cfg"] \in Text => valid # {} /\ least = 1
  <2>1. f["cfg"] \in Text => 1 \in valid
    BY <1>1
  <2>2. 1 \in valid => least \in 1 .. 3 /\ least <= 1
    BY <1>3
  <2> QED BY <2>1, <2>2
<1>6. f["cfg"] \notin Text /\ f["bak"] \in Text => valid # {} /\ least = 2
  <2>1. f["cfg"] \notin Text /\ f["bak"] \in Text
          => 1 \notin valid /\ 2 \in valid
    BY <1>1
  <2>2. 1 \notin valid /\ 2 \in valid
          => least \in 1 .. 3 /\ least # 1 /\ least <= 2
    BY <1>3
  <2> QED BY <2>1, <2>2
<1> QED BY <1>1, <1>2, <1>4, <1>5, <1>6

(* A fresh store satisfies the invariant. *)
LEMMA StoreStarts == Init => StoreInv
  BY StoreAssumption DEF Init, StoreInv, TypeOK, WholeInv, StepInv, Saving,
     Firm, Steps, Names, ReplaceIsAtomic, WrittenIsStored, FailureKeepsOld,
     CacheIsMain

(* No step between two operations, no reset and no failure breaks it. *)
LEMMA StoreStep == StoreInv /\ [Next]_vars => StoreInv'
<1> SUFFICES ASSUME StoreInv, [Next]_vars PROVE StoreInv'
  OBVIOUS
<1> USE StoreAssumption DEF StoreInv
<1>a. files \in Contents /\ Names = {"cfg", "bak", "new"}
  BY DEF TypeOK, Contents, Names
<1>b. /\ files["cfg"] \in Text => Loadable = files["cfg"]
      /\ files["cfg"] \notin Text /\ files["bak"] \in Text
           => Loadable = files["bak"]
      /\ Loadable \in Text \union {NoText}
  BY <1>a, LoadOrder DEF Loadable
<1>c. ASSUME files' \in Contents
      PROVE  /\ files'["cfg"] \in Text => Loadable' = files'["cfg"]
             /\ files'["cfg"] \notin Text /\ files'["bak"] \in Text
                  => Loadable' = files'["bak"]
             /\ Loadable' \in Text \union {NoText}
  BY <1>c, LoadOrder DEF Loadable
<1>d. files' = files => Loadable' = Loadable
  BY DEF Loadable
<1>1. CASE Reset
  BY <1>1, <1>d DEF Reset, saveVars, TypeOK, WholeInv, StepInv, Saving, Firm,
     Steps, ReplaceIsAtomic, WrittenIsStored, FailureKeepsOld, CacheIsMain
<1>2. CASE Begin
  BY <1>2, <1>d DEF Begin, saveVars, TypeOK, WholeInv, StepInv, Saving, Firm,
     Steps, ReplaceIsAtomic, WrittenIsStored, FailureKeepsOld, CacheIsMain
<1>3. CASE Format
  BY <1>3 DEF Format, TypeOK, WholeInv, StepInv, Saving, Firm, Steps, Names,
     ReplaceIsAtomic, WrittenIsStored, FailureKeepsOld, CacheIsMain
<1>4. CASE BeginFailed
  BY <1>4, <1>d DEF BeginFailed, saveVars, TypeOK, WholeInv, StepInv, Saving,
     Firm, Steps, ReplaceIsAtomic, WrittenIsStored, FailureKeepsOld,
     CacheIsMain
<1>5. CASE Load
  BY <1>5, <1>b, <1>d DEF Load, saveVars, TypeOK, WholeInv, StepInv, Saving,
     Firm, Steps, ReplaceIsAtomic, WrittenIsStored, FailureKeepsOld,
     CacheIsMain
<1>6. ASSUME NEW t \in Text, Unchanged(t) PROVE StoreInv'
  BY <1>6, <1>a, <1>b, <1>d DEF Unchanged, Contents, TypeOK, WholeInv,
     StepInv, Saving, Firm, Steps, ReplaceIsAtomic, WrittenIsStored,
     FailureKeepsOld, CacheIsMain
<1>7. ASSUME NEW t \in Text, Save(t) PROVE StoreInv'
  <2>1. files["cfg"] \in Text \union {NoText}
    BY <1>a DEF WholeInv, Contents
  <2>2. /\ files' = files /\ Loadable' = Loadable /\ cached' = cached
        /\ held' = Loadable /\ main' = files["cfg"] /\ text' = t /\ pc = "idle"
        /\ available' = available /\ hadOld' = hadOld
    BY <1>7, <1>d DEF Save
  <2>3. CASE pc' = "removeNew" /\ outcome' = "none"
    BY <2>1, <2>2, <2>3, <1>b DEF TypeOK, WholeInv, StepInv, Saving, Firm,
       Steps, ReplaceIsAtomic, WrittenIsStored, FailureKeepsOld, CacheIsMain
  <2>4. CASE pc' = "idle" /\ outcome' = "error"
    BY <2>1, <2>2, <2>4, <1>b DEF TypeOK, WholeInv, StepInv, Saving, Firm,
       Steps, ReplaceIsAtomic, WrittenIsStored, FailureKeepsOld, CacheIsMain
  <2> QED BY <1>7, <2>2, <2>3, <2>4 DEF Save
<1>8. CASE RemoveNew
  BY <1>8, <1>a, <1>b, <1>c DEF RemoveNew, Removed, saveVars, TypeOK,
     WholeInv, StepInv, Saving, Firm, Steps, Contents, ReplaceIsAtomic,
     WrittenIsStored, FailureKeepsOld, CacheIsMain
<1>9. CASE OpenNew
  BY <1>9, <1>a, <1>b, <1>c DEF OpenNew, Done, Remember, saveVars, TypeOK,
     WholeInv, StepInv, Saving, Firm, Steps, Contents, ReplaceIsAtomic,
     WrittenIsStored, FailureKeepsOld, CacheIsMain
<1>10. CASE WriteNew
  BY <1>10, <1>a, <1>b, <1>c DEF WriteNew, Removed, Done, Remember, saveVars,
     TypeOK, WholeInv, StepInv, Saving, Firm, Steps, Contents,
     ReplaceIsAtomic, WrittenIsStored, FailureKeepsOld, CacheIsMain
<1>11. CASE RemoveBackup
  BY <1>11, <1>a, <1>b, <1>c DEF RemoveBackup, Removed, saveVars, TypeOK,
     WholeInv, StepInv, Saving, Firm, Steps, Contents, ReplaceIsAtomic,
     WrittenIsStored, FailureKeepsOld, CacheIsMain
<1>12. CASE RenameOld
  BY <1>12, <1>a, <1>b, <1>c DEF RenameOld, Moved, Removed, Done, Remember,
     saveVars, TypeOK, WholeInv, StepInv, Saving, Firm, Steps, Contents,
     ReplaceIsAtomic, WrittenIsStored, FailureKeepsOld, CacheIsMain
<1>13. CASE Commit
  BY <1>13, <1>a, <1>b, <1>c DEF Commit, Moved, Done, Remember, saveVars,
     TypeOK, WholeInv, StepInv, Saving, Firm, Steps, Contents,
     ReplaceIsAtomic, WrittenIsStored, FailureKeepsOld, CacheIsMain
<1>14. CASE Restore
  BY <1>14, <1>a, <1>b, <1>c DEF Restore, Moved, Done, Remember, saveVars,
     TypeOK, WholeInv, StepInv, Saving, Firm, Steps, Contents,
     ReplaceIsAtomic, WrittenIsStored, FailureKeepsOld, CacheIsMain
<1>15. CASE Cleanup
  BY <1>15, <1>a, <1>b, <1>c DEF Cleanup, Removed, Done, Remember, saveVars,
     TypeOK, WholeInv, StepInv, Saving, Firm, Steps, Contents,
     ReplaceIsAtomic, WrittenIsStored, FailureKeepsOld, CacheIsMain
<1>16. CASE UNCHANGED vars
  BY <1>16, <1>d DEF vars, saveVars, TypeOK, WholeInv, StepInv, Saving, Firm,
     Steps, ReplaceIsAtomic, WrittenIsStored, FailureKeepsOld, CacheIsMain
<1> QED
  BY <1>1, <1>2, <1>3, <1>4, <1>5, <1>6, <1>7, <1>8, <1>9, <1>10, <1>11,
     <1>12, <1>13, <1>14, <1>15, <1>16 DEF Next

THEOREM StoreInvariant == Spec => []StoreInv
  BY StoreStarts, StoreStep, PTL DEF Spec

(* The types, and the completeness of the file that replaces zifi.cfg. *)
THEOREM StoreTypes == Spec => []TypeOK
<1>1. StoreInv => TypeOK
  BY DEF StoreInv
<1> QED BY <1>1, StoreInvariant, PTL

(* A save of writeNewFile() is all or nothing across resets and failures. *)
THEOREM StoreAtomic == Spec => []ReplaceIsAtomic
<1>1. StoreInv => ReplaceIsAtomic
  BY DEF StoreInv
<1> QED BY <1>1, StoreInvariant, PTL

(* What saveIfChanged() reports is what a start of the firmware finds. *)
THEOREM StoreReports == Spec => [](WrittenIsStored /\ FailureKeepsOld)
<1>1. StoreInv => WrittenIsStored /\ FailureKeepsOld
  BY DEF StoreInv
<1> QED BY <1>1, StoreInvariant, PTL

(* saveIfChanged() skips a text only when zifi.cfg holds it. *)
THEOREM StoreSkips == Spec => []CacheIsMain
<1>1. StoreInv => CacheIsMain
  BY DEF StoreInv
<1> QED BY <1>1, StoreInvariant, PTL
=============================================================================
