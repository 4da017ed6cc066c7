-------------------------- MODULE SmbQueueProofs ---------------------------
(***************************************************************************)
(* Theorems about SmbQueue, for any number of connections, requests and    *)
(* windows, any queue depth and any amount of trouble.                     *)
(*                                                                         *)
(* QueueInv is inductive: RequestOK says what a single request may be,     *)
(* ActiveOK and RecoveryIsActive whose exchange the bridge carries,        *)
(* CountOK that windows are counted, PassingOK what a FLUSH or CLOSE has   *)
(* behind it, LostOK what a lost connection leaves in the queues.          *)
(***************************************************************************)
EXTENDS SmbQueue, TLAPS, WellFoundedInduction

-----------------------------------------------------------------------------
(* The inductive invariant.                                                *)

Said == {<<>>, <<"ok">>, <<"error">>}
Phases == Recovery \cup {"new", "work", "stat", "commit", "open", "read", "mkdir", "apply"}
Requests ==
  [at : {"unsent", "queued", "slot", "done"}, kind : AllKinds \cup {"none"},
   owner : Owners \cup {NoOwner}, size : 0..Windows, left : 0..Windows, moved : Nat,
   cancel : BOOLEAN, live : BOOLEAN, replied : BOOLEAN, phase : Phases, said : Said]

Waits(r) == r.at \in {"queued", "slot"}
Io(r) == r.kind \in {"READ", "WRITE"}
Settled(r) == r.at = "done" \/ r.cancel \/ ~r.live

(* A request the client knows has an owner; a READ alone can wait without a
   slot. *)
PlaceOK(r) ==
  /\ r.at = "unsent" => r = Unsent
  /\ r.at /= "unsent" => r.owner \in Owners
  /\ Waits(r) => r.kind \in Kinds
  /\ r.at = "queued" => r.kind = "READ"

(* What a client was told, and when it is true. *)
AnswerOK(r) ==
  /\ Waits(r) => r.said /= <<"ok">> /\ (r.live => (r.replied <=> r.said = <<"error">>))
  /\ r.at = "done" /\ r.live => r.said /= <<>>
  /\ Io(r) /\ r.said = <<"ok">> => r.moved = r.size

(* Windows are left until the last one; a WRITE in recovery was answered. *)
PhaseOK(r) ==
  /\ Waits(r) /\ Io(r) /\ r.phase \notin Recovery => r.left >= 1
  /\ Waits(r) /\ r.kind = "WRITE" => r.phase \in {"new", "work"} \cup Recovery
  /\ Waits(r) /\ r.kind = "WRITE" /\ r.phase \in Recovery => r.replied
  /\ Waits(r) /\ r.kind = "READ" => r.phase = "new"

RequestOK(r) == r \in Requests /\ PlaceOK(r) /\ AnswerOK(r) /\ PhaseOK(r)

RequestsOK == req \in [Ids -> Requests] /\ \A i \in Ids : RequestOK(req[i])

(* Requests are numbered in the order they were sent. *)
IdsInOrder == \A i, j \in Ids : i < j /\ req[j].at /= "unsent" => req[i].at /= "unsent"

(* The active request has a slot; without an exchange it is a WRITE whose
   CLOSE_ABORT has not been submitted. *)
ActiveOK ==
  /\ active \in Ids \cup {0}
  /\ active /= 0 => req[active].at = "slot" /\ req[active].kind /= "CLOSE"
  /\ active /= 0 /\ bridge = Idle => req[active].kind = "WRITE" /\ req[active].phase = "submit"

(* The exchange is the active request's, or was left behind by a FLUSH or
   SET_EOF whose file a LOGOFF took away. *)
Own == active /= 0 /\ bridge.for = active
LeftBehind ==
  /\ ~Polite /\ bridge.for \in Ids
  /\ req[bridge.for].at = "done" /\ req[bridge.for].kind \in {"FLUSH", "SETEOF"}
  /\ active /= 0 => req[active].kind = "WRITE" /\ req[active].phase = "window"
BridgeOK ==
  /\ bridge \in [st : {"idle", "busy", "ok", "bad"}, for : Ids \cup {0}]
  /\ bridge.st = "idle" => bridge = Idle
  /\ bridge /= Idle => Own \/ LeftBehind

RecoveryIsActive ==
  \A i \in Ids : Waits(req[i]) /\ req[i].kind = "WRITE" /\ req[i].phase \in Recovery => active = i

(* A window is left, moved, or just now being reported. *)
Credit(i) == IF bridge.st = "ok" /\ bridge.for = i THEN 1 ELSE 0
Counted(i) == Waits(req[i]) /\ Io(req[i]) /\ req[i].phase \notin Recovery
CountOK == \A i \in Ids : Counted(i) => req[i].moved + req[i].left = req[i].size + Credit(i)

(* A FLUSH that is under way or done and a CLOSE that is done came after the
   WRITEs sent before them. *)
Barred(f) ==
  \A w \in Ids : w < f /\ req[w].kind = "WRITE" /\ req[w].owner = req[f].owner => Settled(req[w])
Passing(f) ==
  \/ req[f].kind \in {"FLUSH", "CLOSE"} /\ req[f].said = <<"ok">>
  \/ active = f /\ req[f].kind = "FLUSH"
PassingOK == \A f \in Ids : Passing(f) => Barred(f)

(* A lost connection leaves WRITEs, and the request on the card. *)
LostOK ==
  \A i \in Ids : Waits(req[i]) /\ link[req[i].owner] = "gone" =>
    ~req[i].live /\ (req[i].kind = "WRITE" \/ (active = i /\ bridge /= Idle))

(* A polite client keeps the file a FLUSH or SET_EOF works on. *)
Resizes(r) == r.kind \in {"FLUSH", "SETEOF"}
ValidOK == Polite /\ active /= 0 /\ Resizes(req[active]) => open[req[active].owner] = "open"
TaskOK ==
  /\ task \in [phase : {"loop", "reads", "writes"}, owner : Owners \cup {NoOwner}]
  /\ Polite /\ task /= Loop =>
       \A i \in Ids : Waits(req[i]) /\ Resizes(req[i]) => req[i].owner /= task.owner

OpenOK == open \in [Owners -> {"open", "closed", "gone"}] /\ link \in [Owners -> {"up", "gone"}]

QueueInv ==
  /\ RequestsOK /\ IdsInOrder /\ ActiveOK /\ BridgeOK /\ RecoveryIsActive /\ CountOK
  /\ PassingOK /\ LostOK /\ ValidOK /\ TaskOK /\ OpenOK /\ FilesFreed

-----------------------------------------------------------------------------
(* What a step does to one request, and that it stays a request.           *)

(* The bounded least element of a set of requests. *)
LEMMA LeastExists ==
  ASSUME NEW S \in SUBSET Nat, S /= {}
  PROVE  \E x \in S : \A y \in S : x <= y
<1> DEFINE R == {ss \in Nat \X Nat : ss[1] < ss[2]}
<1>1. IsWellFoundedOn(R, Nat)
  BY NatLessThanWellFounded DEF OpToRel
<1>2. PICK x \in S : \A y \in S : <<y, x>> \notin R
  <2> HIDE DEF R
  <2> QED BY <1>1, WFMin
<1>3. \A y \in S : ~(y < x)
  <2>1. TAKE y \in S
  <2>2. x \in Nat /\ y \in Nat
    OBVIOUS
  <2>3. y < x => <<y, x>> \in R
    BY <2>2
  <2> QED BY <1>2, <2>3
<1> QED BY <1>3

(* Out() ends a request like this. *)
Ended(r, answer) ==
  [r EXCEPT !.at = "done", !.phase = "new", !.left = 0, !.replied = FALSE,
            !.said = IF r.live /\ ~r.replied THEN Append(@, answer) ELSE @]

(* One answer after none is that answer. *)
LEMMA FirstAnswer ==
  ASSUME NEW answer \in {"ok", "error"}
  PROVE  Append(<<>>, answer) = <<answer>> /\ <<answer>> \in Said
  BY DEF Said

LEMMA EndedFields ==
  ASSUME NEW r \in Requests, NEW answer
  PROVE  LET s == Ended(r, answer) IN
         /\ s.at = "done" /\ s.phase = "new" /\ s.left = 0 /\ s.replied = FALSE
         /\ s.said = IF r.live /\ ~r.replied THEN Append(r.said, answer) ELSE r.said
         /\ s.kind = r.kind /\ s.owner = r.owner /\ s.size = r.size
         /\ s.moved = r.moved /\ s.cancel = r.cancel /\ s.live = r.live
  BY DEF Ended, Requests

LEMMA EndedTyped ==
  ASSUME NEW r \in Requests, r.said \in {<<>>, <<"error">>}, r.live /\ ~r.replied => r.said = <<>>,
         NEW answer \in {"ok", "error"}
  PROVE  Ended(r, answer) \in Requests
<1> DEFINE told == IF r.live /\ ~r.replied THEN Append(r.said, answer) ELSE r.said
<1>1. told \in Said
  <2>1. CASE r.live /\ ~r.replied
    BY <2>1, FirstAnswer, Zenon
  <2>2. CASE ~(r.live /\ ~r.replied)
    BY <2>2, Zenon DEF Said
  <2> QED BY <2>1, <2>2, Zenon
<1>2. 0 \in 0..Windows
  BY QueueAssumption
<1>3. "done" \in {"unsent", "queued", "slot", "done"} /\ "new" \in Phases
  BY DEF Phases
<1> HIDE DEF told
<1>4. [r EXCEPT !.at = "done", !.phase = "new", !.left = 0, !.replied = FALSE, !.said = told]
        \in Requests
  BY <1>1, <1>2, <1>3, Zenon DEF Requests
<1> QED
  BY <1>4, Zenon DEF Ended, told

(* What one request may become in a step that sends none: it stays, waits on
   or ends, and never comes back to be waited for. *)
Follows(r, s) ==
  \/ s = r
  \/ /\ Waits(r) /\ s.at \in {"queued", "slot", "done"}
     /\ s.kind = r.kind /\ s.owner = r.owner
     /\ s.live => r.live
     /\ Settled(r) => Settled(s)

(* The answers a request may end with: an error any time; a success when the
   last of its windows was moved, or when it is told to nobody. *)
MayEnd(r, answer) ==
  /\ Waits(r) /\ answer \in {"ok", "error"}
  /\ answer = "ok" /\ Io(r) /\ r.live /\ ~r.replied => r.moved = r.size

EndsWell(r, s, answer) ==
  /\ RequestOK(s) /\ Follows(r, s)
  /\ s.at = "done" /\ ~Waits(s)
  /\ s.said = <<"ok">> => answer = "ok"

LEMMA EndedOK ==
  ASSUME NEW r, NEW answer, RequestOK(r), MayEnd(r, answer)
  PROVE  EndsWell(r, Ended(r, answer), answer)
<1> DEFINE s == Ended(r, answer)
<1>1. r \in Requests /\ Waits(r) /\ answer \in {"ok", "error"}
  BY DEF RequestOK, MayEnd
<1>2. r.said \in {<<>>, <<"error">>} /\ (r.live /\ ~r.replied => r.said = <<>>)
  <2>1. r.said \in Said /\ r.live \in BOOLEAN /\ r.replied \in BOOLEAN
    BY <1>1, Zenon DEF Requests
  <2> QED BY <1>1, <2>1, Zenon DEF RequestOK, AnswerOK, Said
<1>3. s \in Requests
  BY <1>1, <1>2, EndedTyped, Zenon
<1>4. /\ s.at = "done" /\ s.phase = "new" /\ s.left = 0 /\ s.replied = FALSE
      /\ s.said = IF r.live /\ ~r.replied THEN Append(r.said, answer) ELSE r.said
      /\ s.kind = r.kind /\ s.owner = r.owner /\ s.size = r.size
      /\ s.moved = r.moved /\ s.cancel = r.cancel /\ s.live = r.live
  BY <1>1, EndedFields, Zenon
<1>5. ~Waits(s) /\ s.at /= "unsent" /\ r.at /= "unsent"
  BY <1>1, <1>4 DEF Waits
<1>6. r.live /\ ~r.replied => s.said = <<answer>> /\ s.said /= <<>>
  <2>1. <<answer>> /= <<>>
    OBVIOUS
  <2> QED BY <1>1, <1>2, <1>4, <2>1, FirstAnswer, Zenon
<1>7. ~(r.live /\ ~r.replied) => s.said = r.said
  BY <1>4, Zenon
<1>8. <<"error">> /= <<"ok">> /\ <<"error">> /= <<>> /\ <<>> /= <<"ok">>
  OBVIOUS
<1>9. s.said = <<"ok">> => answer = "ok" /\ r.live /\ ~r.replied
  <2>1. <<answer>> = <<"ok">> => answer = "ok"
    OBVIOUS
  <2> QED BY <1>2, <1>6, <1>7, <1>8, <2>1, Zenon
<1> HIDE DEF s
<1>10. PlaceOK(s)
  BY <1>4, <1>5, Zenon DEF RequestOK, PlaceOK
<1>11. AnswerOK(s)
  <2>1. s.live => s.said /= <<>>
    BY <1>1, <1>4, <1>6, <1>7, <1>8, Zenon DEF RequestOK, AnswerOK
  <2>2. Io(s) /\ s.said = <<"ok">> => s.moved = s.size
    BY <1>4, <1>9, Zenon DEF MayEnd, Io
  <2> QED BY <1>5, <2>1, <2>2, Zenon DEF AnswerOK
<1>12. PhaseOK(s)
  BY <1>5, Zenon DEF PhaseOK
<1>13. Follows(r, s)
  <2>1. s.at \in {"queued", "slot", "done"}
    BY <1>4
  <2> QED BY <1>1, <1>4, <2>1, Zenon DEF Follows, Settled
<1> QED BY <1>3, <1>4, <1>9, <1>5, <1>10, <1>11, <1>12, <1>13, Zenon DEF RequestOK, EndsWell, s

-----------------------------------------------------------------------------
(* Steps that send nothing.  Each part of the invariant is kept for the     *)
(* reason its premise names.                                               *)

Evolves == req' \in [Ids -> Requests] /\ \A i \in Ids : RequestOK(req'[i]) /\ Follows(req[i], req'[i])

(* Of what follows a request: who sent it, that it was sent, and that what
   has settled stays settled. *)
LEMMA FollowsFacts ==
  ASSUME NEW r, NEW s, RequestOK(r), Follows(r, s)
  PROVE  /\ s.kind = r.kind /\ s.owner = r.owner
         /\ s.at = "unsent" <=> r.at = "unsent"
         /\ Settled(r) => Settled(s)
         /\ s.live => r.live
         /\ Waits(s) => Waits(r)
<1>1. CASE s = r
  BY <1>1, Zenon
<1>2. CASE /\ Waits(r) /\ s.at \in {"queued", "slot", "done"}
           /\ s.kind = r.kind /\ s.owner = r.owner
           /\ s.live => r.live
           /\ Settled(r) => Settled(s)
  <2>1. r.at /= "unsent" /\ s.at /= "unsent"
    BY <1>2 DEF Waits
  <2> QED BY <1>2, <2>1, Zenon
<1> QED BY <1>1, <1>2, Zenon DEF Follows

LEMMA EvolvesFacts ==
  ASSUME QueueInv, Evolves, NEW i \in Ids
  PROVE  /\ req'[i].kind = req[i].kind /\ req'[i].owner = req[i].owner
         /\ req'[i].at = "unsent" <=> req[i].at = "unsent"
         /\ Settled(req[i]) => Settled(req'[i])
         /\ req'[i].live => req[i].live
         /\ Waits(req'[i]) => Waits(req[i])
<1>1. RequestOK(req[i]) /\ Follows(req[i], req'[i])
  BY Zenon DEF QueueInv, RequestsOK, Evolves
<1> QED BY <1>1, FollowsFacts, Zenon

LEMMA KeepsRequests ==
  ASSUME Evolves
  PROVE  RequestsOK'
  BY Zenon DEF Evolves, RequestsOK, Ids

LEMMA KeepsOrder ==
  ASSUME QueueInv, Evolves
  PROVE  IdsInOrder'
<1> SUFFICES ASSUME NEW i \in Ids, NEW j \in Ids, i < j, req'[j].at /= "unsent"
             PROVE  req'[i].at /= "unsent"
  BY Zenon DEF IdsInOrder, Ids
<1>1. req[j].at /= "unsent"
  BY EvolvesFacts, Zenon
<1>2. req[i].at /= "unsent"
  BY <1>1, Zenon DEF QueueInv, IdsInOrder
<1> QED BY <1>2, EvolvesFacts, Zenon

(* What passes the WRITEs before it now was sent, with those settled. *)
KeepsBarriers == \A f \in Ids : Passing(f)' => req[f].at /= "unsent" /\ Barred(f)

LEMMA KeepsPassing ==
  ASSUME QueueInv, Evolves, KeepsBarriers
  PROVE  PassingOK'
<1> SUFFICES ASSUME NEW f \in Ids, Passing(f)', NEW w \in Ids, w < f,
                    req'[w].kind = "WRITE", req'[w].owner = req'[f].owner
             PROVE  Settled(req'[w])
  BY Zenon DEF PassingOK, Barred, Ids
<1>1. Barred(f)
  BY Zenon DEF KeepsBarriers
<1>2. req[w].kind = "WRITE" /\ req[w].owner = req[f].owner
  <2>1. req[w].kind = req'[w].kind /\ req[w].owner = req'[w].owner
    BY EvolvesFacts, Zenon
  <2>2. req[f].owner = req'[f].owner
    BY EvolvesFacts, Zenon
  <2> QED BY <2>1, <2>2, Zenon
<1>3. Settled(req[w])
  BY <1>1, <1>2, Zenon DEF Barred
<1> QED BY <1>3, EvolvesFacts, Zenon

(* The exchange of a request whose client is gone stays, or the request
   ends. *)
KeepsFlight ==
  /\ link' = link
  /\ active /= 0 /\ bridge /= Idle /\ Waits(req'[active]) /\ ~req[active].live
       /\ req[active].kind /= "WRITE" => active' = active /\ bridge' /= Idle

LEMMA KeepsLost ==
  ASSUME QueueInv, Evolves, KeepsFlight
  PROVE  LostOK'
<1> SUFFICES ASSUME NEW i \in Ids, Waits(req'[i]), link'[req'[i].owner] = "gone"
             PROVE  /\ ~req'[i].live
                    /\ req'[i].kind = "WRITE" \/ (active' = i /\ bridge' /= Idle)
  BY Zenon DEF LostOK, Ids
<1>1. /\ Waits(req[i]) /\ req'[i].owner = req[i].owner /\ req'[i].kind = req[i].kind
      /\ req'[i].live => req[i].live
  BY EvolvesFacts, Zenon
<1>2. link[req[i].owner] = "gone"
  BY <1>1, Zenon DEF KeepsFlight
<1>3. ~req[i].live /\ (req[i].kind = "WRITE" \/ (active = i /\ bridge /= Idle))
  BY <1>1, <1>2, Zenon DEF QueueInv, LostOK
<1>4. i /= 0
  BY QueueAssumption DEF Ids
<1> QED BY <1>1, <1>3, <1>4, Zenon DEF KeepsFlight

(* A file that is gone stays so, and the last request of a lost connection
   takes its file along. *)
HasWaiting(r, o) == \E i \in Ids : Waits(r[i]) /\ r[i].owner = o
KeepsFreed ==
  /\ OpenOK'
  /\ \A o \in Owners : open[o] = "gone" => open'[o] = "gone"
  /\ \A o \in Owners : link[o] = "gone" /\ HasWaiting(req, o) /\ ~HasWaiting(req', o)
       => open'[o] = "gone"

LEMMA KeepsFiles ==
  ASSUME QueueInv, Evolves, link' = link, KeepsFreed
  PROVE  FilesFreed'
<1> SUFFICES ASSUME NEW o \in Owners, link'[o] = "gone", \A i \in Pending' : req'[i].owner /= o
             PROVE  open'[o] = "gone"
  BY Zenon DEF FilesFreed
<1>1. link[o] = "gone"
  BY Zenon
<1>2. ~HasWaiting(req', o)
  BY Zenon DEF HasWaiting, Pending, Waits, Ids
<1>3. CASE HasWaiting(req, o)
  BY <1>1, <1>2, <1>3, Zenon DEF KeepsFreed
<1>4. CASE ~HasWaiting(req, o)
  <2>1. \A i \in Pending : req[i].owner /= o
    BY <1>4, Zenon DEF HasWaiting, Pending, Waits
  <2>2. open[o] = "gone"
    BY <1>1, <2>1, Zenon DEF QueueInv, FilesFreed
  <2> QED BY <2>2, Zenon DEF KeepsFreed
<1> QED BY <1>3, <1>4, Zenon

(* A file the card may work on stays: files go when nothing of their owner
   waits, with a tree that was waited for, or when nothing is active. *)
OpenKept ==
  active' /= 0 =>
    \A o \in Owners : \/ open'[o] = open[o]
                      \/ ~HasWaiting(req', o)
                      \/ (task /= Loop /\ task.owner = o)

(* The requests that leave are in S, or their clients are there. *)
Covers(S) == \A i \in Ids : Waits(req[i]) /\ ~Waits(req'[i]) => i \in S \/ link[req[i].owner] = "up"

LEMMA LastGoes ==
  ASSUME QueueInv, Evolves, NEW S, Covers(S),
         NEW o \in Owners, link[o] = "gone", HasWaiting(req, o), ~HasWaiting(req', o)
  PROVE  o \in FreedBy(req', S)
<1>1. PICK i \in Ids : Waits(req[i]) /\ req[i].owner = o
  BY Zenon DEF HasWaiting
<1>2. req'[i].owner = o /\ ~Waits(req'[i])
  BY <1>1, EvolvesFacts, Zenon DEF HasWaiting
<1>3. link[req[i].owner] /= "up"
  BY <1>1
<1>4. i \in S
  BY <1>1, <1>2, <1>3, Zenon DEF Covers
<1>5. \A j \in Ids : req'[j].owner = o => req'[j].at \notin {"queued", "slot"}
  BY Zenon DEF HasWaiting, Waits
<1> QED BY <1>2, <1>4, <1>5, Zenon DEF FreedBy

LEMMA FreeKeeps ==
  ASSUME QueueInv, Evolves, link' = link, NEW S, Covers(S), Free(S)
  PROVE  KeepsFreed /\ OpenKept
<1>1. \A o \in Owners : open'[o] = IF o \in FreedBy(req', S) THEN "gone" ELSE open[o]
  BY Zenon DEF Free
<1>2. OpenOK'
  <2>1. open \in [Owners -> {"open", "closed", "gone"}] /\ link \in [Owners -> {"up", "gone"}]
    BY Zenon DEF QueueInv, OpenOK
  <2>2. open' \in [Owners -> {"open", "closed", "gone"}]
    BY <2>1 DEF Free
  <2> QED BY <2>1, <2>2, Zenon DEF OpenOK
<1>3. ASSUME NEW o \in Owners, link[o] = "gone", HasWaiting(req, o), ~HasWaiting(req', o)
      PROVE  open'[o] = "gone"
  <2>1. o \in FreedBy(req', S)
    BY <1>3, LastGoes, Zenon
  <2> QED BY <1>1, <2>1, Zenon
<1>4. ASSUME NEW o \in Owners, open'[o] /= open[o]
      PROVE  ~HasWaiting(req', o)
  <2>1. o \in FreedBy(req', S)
    BY <1>1, <1>4, Zenon
  <2> QED BY <2>1, Zenon DEF FreedBy, HasWaiting, Waits
<1>5. \A o \in Owners : open[o] = "gone" => open'[o] = "gone"
  BY <1>1, Zenon
<1> QED BY <1>2, <1>3, <1>4, <1>5, Zenon DEF KeepsFreed, OpenKept

LEMMA SameKeeps ==
  ASSUME QueueInv, Evolves, link' = link, open' = open, Covers({})
  PROVE  KeepsFreed /\ OpenKept
<1>1. OpenOK'
  BY Zenon DEF QueueInv, OpenOK
<1>2. ASSUME NEW o \in Owners, link[o] = "gone", HasWaiting(req, o), ~HasWaiting(req', o)
      PROVE  open'[o] = "gone"
  <2>1. PICK i \in Ids : Waits(req[i]) /\ req[i].owner = o
    BY <1>2, Zenon DEF HasWaiting
  <2>2. req'[i].owner = o /\ ~Waits(req'[i])
    BY <1>2, <2>1, EvolvesFacts, Zenon DEF HasWaiting
  <2>3. link[req[i].owner] /= "up"
    BY <1>2, <2>1
  <2> QED BY <2>1, <2>2, <2>3, Zenon DEF Covers
<1> QED BY <1>1, <1>2, Zenon DEF KeepsFreed, OpenKept

KeepsValid ==
  Polite /\ active' /= 0 /\ Resizes(req'[active']) =>
    active' \in Ids /\ Waits(req'[active']) /\ open[req[active'].owner] = "open"

LEMMA KeepsResizing ==
  ASSUME QueueInv, Evolves, OpenKept, KeepsValid
  PROVE  ValidOK'
<1> SUFFICES ASSUME Polite, active' /= 0, Resizes(req'[active'])
             PROVE  open'[req'[active'].owner] = "open"
  BY Zenon DEF ValidOK, Resizes
<1>1. active' \in Ids /\ Waits(req'[active']) /\ open[req[active'].owner] = "open"
  BY Zenon DEF KeepsValid
<1>2. req'[active'].owner = req[active'].owner /\ Waits(req[active'])
  BY <1>1, EvolvesFacts, Zenon
<1>3. req[active'].owner \in Owners
  <2>1. req[active'].at /= "unsent"
    BY <1>2 DEF Waits
  <2> QED BY <1>1, <2>1, Zenon DEF QueueInv, RequestsOK, RequestOK, PlaceOK
<1>4. HasWaiting(req', req[active'].owner)
  BY <1>1, <1>2, Zenon DEF HasWaiting
<1>5. ~(task /= Loop /\ task.owner = req[active'].owner)
  <2>1. req'[active'].kind = req[active'].kind
    BY <1>1, EvolvesFacts, Zenon
  <2> QED BY <1>1, <1>2, <2>1, Zenon DEF QueueInv, TaskOK, Resizes
<1> QED BY <1>1, <1>2, <1>3, <1>4, <1>5, Zenon DEF OpenKept

LEMMA KeepsTask ==
  ASSUME QueueInv, Evolves, task' = task \/ task' = Loop \/ TaskOK'
  PROVE  TaskOK'
<1> SUFFICES ASSUME task' = task \/ task' = Loop PROVE TaskOK'
  OBVIOUS
<1>3. task' \in [phase : {"loop", "reads", "writes"}, owner : Owners \cup {NoOwner}]
  <2>1. Loop \in [phase : {"loop", "reads", "writes"}, owner : Owners \cup {NoOwner}]
    BY DEF Loop
  <2> QED BY <2>1, Zenon DEF QueueInv, TaskOK
<1> SUFFICES ASSUME Polite, task' /= Loop, NEW i \in Ids, Waits(req'[i]), Resizes(req'[i])
             PROVE  req'[i].owner /= task'.owner
  BY <1>3, Zenon DEF TaskOK, Ids, Loop, Resizes
<1>1. Waits(req[i]) /\ Resizes(req[i]) /\ req'[i].owner = req[i].owner
  <2>1. req'[i].kind = req[i].kind
    BY EvolvesFacts, Zenon
  <2>2. Resizes(req[i])
    BY <2>1, Zenon DEF Resizes
  <2> QED BY <2>2, EvolvesFacts, Zenon
<1>2. task' = task
  BY Zenon
<1> QED BY <1>1, <1>2, Zenon DEF QueueInv, TaskOK

(* The card's part of the invariant, which each shape of step settles for
   itself. *)
CardOK == ActiveOK /\ BridgeOK /\ RecoveryIsActive /\ CountOK

LEMMA Onward ==
  ASSUME QueueInv, Evolves, KeepsBarriers, KeepsFlight, KeepsFreed, OpenKept, KeepsValid,
         task' = task \/ task' = Loop \/ TaskOK', CardOK'
  PROVE  QueueInv'
<1>1. RequestsOK' /\ IdsInOrder' /\ PassingOK'
  BY KeepsRequests, KeepsOrder, KeepsPassing, Zenon
<1>2. LostOK' /\ FilesFreed'
  <2>1. link' = link
    BY Zenon DEF KeepsFlight
  <2> QED BY <2>1, KeepsLost, KeepsFiles, Zenon
<1>3. ValidOK' /\ TaskOK'
  BY KeepsResizing, KeepsTask, Zenon
<1>4. OpenOK'
  BY Zenon DEF KeepsFreed
<1>5. ActiveOK' /\ BridgeOK' /\ RecoveryIsActive' /\ CountOK'
  BY Zenon DEF CardOK
<1> QED BY <1>1, <1>2, <1>3, <1>4, <1>5, Zenon DEF QueueInv

-----------------------------------------------------------------------------
(* Facts of a state.                                                       *)

LEMMA IdsFacts == 0 \notin Ids /\ Ids \subseteq Nat
  BY QueueAssumption DEF Ids

LEMMA RequestFacts ==
  ASSUME QueueInv, NEW i \in Ids
  PROVE  /\ RequestOK(req[i]) /\ req[i] \in Requests
         /\ Waits(req[i]) => req[i].at /= "unsent" /\ req[i].at /= "done"
         /\ req[i].kind \in {"FLUSH", "CLOSE"} => req[i].at /= "unsent"
<1>1. RequestOK(req[i])
  BY Zenon DEF QueueInv, RequestsOK
<1>2. Waits(req[i]) => req[i].at /= "unsent" /\ req[i].at /= "done"
  BY DEF Waits
<1>3. Unsent.kind \notin {"FLUSH", "CLOSE"}
  BY DEF Unsent
<1> QED BY <1>1, <1>2, <1>3, Zenon DEF RequestOK, PlaceOK

LEMMA ActiveFacts ==
  ASSUME QueueInv, active /= 0
  PROVE  /\ active \in Ids /\ Waits(req[active]) /\ req[active].at = "slot"
         /\ req[active].kind /= "CLOSE"
<1>1. active \in Ids /\ req[active].at = "slot" /\ req[active].kind /= "CLOSE"
  BY DEF QueueInv, ActiveOK
<1> QED BY <1>1 DEF Waits

(* Only the active request has a window that was moved and not taken. *)
LEMMA CreditIsActive ==
  ASSUME QueueInv, NEW j \in Ids, Waits(req[j]), j /= active
  PROVE  Credit(j) = 0
<1> SUFFICES ASSUME bridge.st = "ok", bridge.for = j PROVE FALSE
  BY DEF Credit
<1>1. bridge /= Idle
  BY DEF Idle
<1>2. Own \/ LeftBehind
  BY <1>1, Zenon DEF QueueInv, BridgeOK
<1>3. ~Own
  BY Zenon DEF Own
<1>4. req[j].at = "done"
  BY <1>2, <1>3, Zenon DEF LeftBehind
<1> QED BY <1>4, RequestFacts, Zenon

(* What passes now passed before, unless it is new. *)
LEMMA PassingFacts ==
  ASSUME QueueInv, NEW f \in Ids, Passing(f)
  PROVE  req[f].at /= "unsent" /\ Barred(f)
<1>1. req[f].at /= "unsent"
  BY RequestFacts, Zenon DEF Passing
<1> QED BY <1>1, Zenon DEF QueueInv, PassingOK

-----------------------------------------------------------------------------
(* One request ends: completeAsync...() and its callers.                   *)

LetsGo(i) ==
  \/ active = i /\ active' = 0 /\ bridge' = Idle
  \/ active /= i /\ active' = active /\ bridge' = bridge
  \/ active = i /\ active' = 0 /\ bridge' = bridge /\ ~Polite /\ Resizes(req[i])

Frees(i) == Free({i}) \/ (open' = open /\ link[req[i].owner] = "up")

LEMMA OneEnds ==
  ASSUME QueueInv, NEW i \in Ids, NEW answer, MayEnd(req[i], answer),
         answer = "ok" /\ req[i].kind \in {"FLUSH", "CLOSE"} => Barred(i),
         req' = Out(req, {i}, answer), LetsGo(i), Frees(i),
         link' = link, task' = task \/ task' = Loop
  PROVE  QueueInv'
<1>1. /\ req'[i] = Ended(req[i], answer)
      /\ \A j \in Ids : j /= i => req'[j] = req[j]
  BY Zenon DEF Out, Ended
<1>2. /\ RequestOK(req'[i]) /\ Follows(req[i], req'[i])
      /\ req'[i].at = "done" /\ ~Waits(req'[i])
      /\ req'[i].said = <<"ok">> => answer = "ok"
  <2>1. RequestOK(req[i])
    BY RequestFacts, Zenon
  <2>2. EndsWell(req[i], Ended(req[i], answer), answer)
    BY <2>1, EndedOK, Zenon
  <2> QED BY <1>1, <2>2, Zenon DEF EndsWell
<1>3. Evolves
  <2>1. \A j \in Ids : RequestOK(req'[j]) /\ Follows(req[j], req'[j])
    BY <1>1, <1>2, RequestFacts, Zenon DEF Follows
  <2>2. \A j \in Ids : req'[j] \in Requests
    BY <2>1, Zenon DEF RequestOK
  <2>3. req' = [j \in Ids |-> req'[j]]
    BY Zenon DEF Out
  <2>4. req' \in [Ids -> Requests]
    BY <2>2, <2>3, Zenon
  <2> QED BY <2>1, <2>4, Zenon DEF Evolves
<1>4. active' \in {0, active} /\ (active' /= 0 => active' = active /\ active /= i /\ bridge' = bridge)
  BY IdsFacts, Zenon DEF LetsGo
<1>5. KeepsBarriers
  <2> SUFFICES ASSUME NEW f \in Ids, Passing(f)' PROVE req[f].at /= "unsent" /\ Barred(f)
    BY Zenon DEF KeepsBarriers
  <2>1. f /= 0
    BY IdsFacts, Zenon
  <2>2. CASE f = i
    <3>1. active' /= f
      BY <1>4, <2>1, <2>2, Zenon
    <3>2. answer = "ok" /\ req'[i].kind \in {"FLUSH", "CLOSE"}
      BY <1>2, <2>2, <3>1, Zenon DEF Passing
    <3>3. req'[i].kind = req[i].kind
      BY <1>3, EvolvesFacts, Zenon
    <3> QED BY <2>2, <3>2, <3>3, RequestFacts, Zenon
  <2>3. CASE f /= i
    <3>1. req'[f] = req[f] /\ (active' = f => active = f)
      BY <1>1, <1>4, <2>1, <2>3, Zenon
    <3>2. Passing(f)
      BY <3>1, Zenon DEF Passing
    <3> QED BY <3>2, PassingFacts, Zenon
  <2> QED BY <2>2, <2>3, Zenon
<1>6. KeepsFlight
  <2> SUFFICES ASSUME active /= 0, bridge /= Idle, Waits(req'[active])
               PROVE  active' = active /\ bridge' /= Idle
    BY Zenon DEF KeepsFlight
  <2>1. active /= i
    BY <1>2, Zenon
  <2> QED BY <2>1, Zenon DEF LetsGo
<1>7. KeepsFreed /\ OpenKept
  <2>1. CASE Free({i})
    <3>1. Covers({i})
      <4> SUFFICES ASSUME NEW j \in Ids, Waits(req[j]), ~Waits(req'[j]) PROVE j = i
        BY Zenon DEF Covers
      <4> QED BY <1>1, Zenon
    <3> QED BY <1>3, <2>1, <3>1, FreeKeeps, Zenon
  <2>2. CASE open' = open /\ link[req[i].owner] = "up"
    <3>1. Covers({})
      <4> SUFFICES ASSUME NEW j \in Ids, Waits(req[j]), ~Waits(req'[j])
                   PROVE  link[req[j].owner] = "up"
        BY Zenon DEF Covers
      <4> QED BY <1>1, <2>2, Zenon
    <3> QED BY <1>3, <2>2, <3>1, SameKeeps, Zenon
  <2> QED BY <2>1, <2>2, Zenon DEF Frees
<1>8. ASSUME active' /= 0
      PROVE  /\ active' = active /\ active \in Ids /\ bridge' = bridge
             /\ req'[active] = req[active] /\ Waits(req[active])
  BY <1>1, <1>4, <1>8, ActiveFacts, Zenon
<1>9. KeepsValid
  <2> SUFFICES ASSUME Polite, active' /= 0, Resizes(req'[active'])
               PROVE  active' \in Ids /\ Waits(req'[active']) /\ open[req[active'].owner] = "open"
    BY Zenon DEF KeepsValid
  <2>1. active /= 0 /\ Resizes(req[active])
    BY <1>8, Zenon
  <2>2. open[req[active].owner] = "open"
    BY <2>1, Zenon DEF QueueInv, ValidOK
  <2> QED BY <1>8, <2>2, Zenon
<1>10. ActiveOK'
  <2>1. active' \in Ids \cup {0}
    BY <1>8, Zenon
  <2>2. ASSUME active' /= 0
        PROVE  /\ req'[active'].at = "slot" /\ req'[active'].kind /= "CLOSE"
               /\ bridge' = Idle => req'[active'].kind = "WRITE" /\ req'[active'].phase = "submit"
    <3>1. active /= 0
      BY <1>8, <2>2, Zenon
    <3> QED BY <1>8, <2>2, <3>1, Zenon DEF QueueInv, ActiveOK
  <2> QED BY <2>1, <2>2, Zenon DEF ActiveOK, Ids, Idle
<1>11. BridgeOK'
  <2>1. CASE bridge' = Idle
    <3>1. Idle \in [st : {"idle", "busy", "ok", "bad"}, for : Ids \cup {0}]
      BY DEF Idle
    <3> QED BY <2>1, <3>1, Zenon DEF BridgeOK, Idle, Ids
  <2>2. CASE bridge' = bridge /\ bridge /= Idle
    <3>1. /\ bridge' \in [st : {"idle", "busy", "ok", "bad"}, for : Ids \cup {0}]
          /\ bridge'.st = "idle" => bridge' = Idle
      BY <2>2, Zenon DEF QueueInv, BridgeOK
    <3>2. Own \/ LeftBehind
      BY <2>2, Zenon DEF QueueInv, BridgeOK
    <3>3. CASE LeftBehind
      <4>1. /\ bridge.for \in Ids /\ req[bridge.for].at = "done" /\ ~Polite
            /\ Resizes(req[bridge.for])
        BY <3>3, Zenon DEF LeftBehind, Resizes
      <4>2. bridge.for /= i
        BY <4>1, RequestFacts, Zenon DEF MayEnd
      <4>3. req'[bridge.for] = req[bridge.for]
        BY <1>1, <4>1, <4>2, Zenon
      <4>4. active' /= 0 => req'[active'].kind = "WRITE" /\ req'[active'].phase = "window"
        BY <1>8, <3>3, Zenon DEF LeftBehind
      <4>5. LeftBehind'
        BY <2>2, <4>1, <4>3, <4>4, Zenon DEF LeftBehind, Resizes, Ids
      <4> QED BY <3>1, <4>5, Zenon DEF BridgeOK, Ids, Idle
    <3>4. CASE Own /\ active /= i
      <4>1. Own'
        BY <2>2, <3>4, Zenon DEF Own, LetsGo
      <4> QED BY <3>1, <4>1, Zenon DEF BridgeOK, Ids, Idle
    <3>5. CASE Own /\ active = i
      <4>1. bridge.for = i /\ ~Polite /\ Resizes(req[i]) /\ active' = 0
        BY <2>2, <3>5, Zenon DEF Own, LetsGo
      <4>2. req'[i].kind = req[i].kind
        BY <1>3, EvolvesFacts, Zenon
      <4>3. LeftBehind'
        BY <1>2, <2>2, <4>1, <4>2, Zenon DEF LeftBehind, Resizes, Ids
      <4> QED BY <3>1, <4>3, Zenon DEF BridgeOK, Ids, Idle
    <3> QED BY <3>2, <3>3, <3>4, <3>5, Zenon
  <2> QED BY <2>1, <2>2, Zenon DEF LetsGo
<1>12. RecoveryIsActive'
  <2> SUFFICES ASSUME NEW j \in Ids, Waits(req'[j]), req'[j].kind = "WRITE", req'[j].phase \in Recovery
               PROVE  active' = j
    BY Zenon DEF RecoveryIsActive, Ids, Recovery
  <2>1. j /= i /\ req'[j] = req[j]
    BY <1>1, <1>2, Zenon
  <2>2. active = j
    BY <2>1, Zenon DEF QueueInv, RecoveryIsActive
  <2> QED BY <2>1, <2>2, Zenon DEF LetsGo
<1>13. CountOK'
  <2> SUFFICES ASSUME NEW j \in Ids, Counted(j)'
               PROVE  req'[j].moved + req'[j].left = req'[j].size + Credit(j)'
    BY Zenon DEF CountOK, Ids
  <2>1. j /= i /\ req'[j] = req[j]
    BY <1>1, <1>2, Zenon DEF Counted
  <2>2. Counted(j)
    BY <2>1, Zenon DEF Counted
  <2>3. Credit(j)' = Credit(j)
    <3>1. CASE bridge' = bridge
      BY <3>1, Zenon DEF Credit
    <3>2. CASE bridge' = Idle /\ active = i
      <4>1. Credit(j)' = 0
        BY <3>2 DEF Credit, Idle
      <4>2. Credit(j) = 0
        BY <2>1, <2>2, <3>2, CreditIsActive, Zenon DEF Counted
      <4> QED BY <4>1, <4>2, Zenon
    <3> QED BY <3>1, <3>2, Zenon DEF LetsGo
  <2>4. req[j].moved + req[j].left = req[j].size + Credit(j)
    BY <2>2, Zenon DEF QueueInv, CountOK
  <2> QED BY <2>1, <2>3, <2>4, Zenon
<1>14. CardOK'
  BY <1>10, <1>11, <1>12, <1>13, Zenon DEF CardOK
<1> QED BY <1>3, <1>5, <1>6, <1>7, <1>9, <1>14, Onward, Zenon

-----------------------------------------------------------------------------
(* One request goes on: the next exchange is submitted, or the card is left
   to another owner between two windows. *)

Proceeds(r, s) ==
  /\ Waits(r) /\ RequestOK(s) /\ s.at = "slot"
  /\ s.kind = r.kind /\ s.owner = r.owner /\ s.live = r.live /\ s.cancel = r.cancel
  /\ s.said = r.said
  /\ Io(s) /\ s.phase \notin Recovery => s.moved + s.left = s.size

Carries(i) ==
  /\ active = i \/ (active = 0 /\ bridge = Idle)
  /\ active' = i /\ bridge' = [st |-> "busy", for |-> i]
  /\ req[i].kind /= "CLOSE"
  /\ req[i].kind = "FLUSH" => Barred(i)
  /\ Polite /\ Resizes(req[i]) => open[req[i].owner] = "open"

Yields(i) ==
  /\ active = i /\ active' = 0 /\ bridge' = Idle
  /\ \/ req[i].kind = "READ" /\ req[i].live
     \/ req[i].kind = "WRITE" /\ req'[i].phase \notin Recovery

LEMMA OneProceeds ==
  ASSUME QueueInv, NEW i \in Ids, NEW s, Proceeds(req[i], s), req' = [req EXCEPT ![i] = s],
         Carries(i) \/ Yields(i), open' = open, link' = link, task' = task
  PROVE  QueueInv'
<1>1. req \in [Ids -> Requests]
  BY Zenon DEF QueueInv, RequestsOK
<1>2. req'[i] = s /\ \A j \in Ids : j /= i => req'[j] = req[j]
  BY <1>1, Zenon
<1>3. /\ Waits(req[i]) /\ RequestOK(s) /\ s.at = "slot" /\ Waits(s)
      /\ s.kind = req[i].kind /\ s.owner = req[i].owner /\ s.live = req[i].live
      /\ s.cancel = req[i].cancel /\ s.said = req[i].said
      /\ Io(s) /\ s.phase \notin Recovery => s.moved + s.left = s.size
  <2>1. s.at = "slot" => Waits(s)
    BY DEF Waits
  <2> QED BY <2>1, Zenon DEF Proceeds
<1>4. Evolves
  <2>1. Follows(req[i], s)
    <3>1. s.at \in {"queued", "slot", "done"} /\ req[i].at /= "done"
      BY <1>3, RequestFacts
    <3> QED BY <1>3, <3>1, Zenon DEF Follows, Settled
  <2>2. \A j \in Ids : RequestOK(req'[j]) /\ Follows(req[j], req'[j])
    BY <1>2, <1>3, <2>1, RequestFacts, Zenon DEF Follows
  <2>3. s \in Requests
    BY <1>3, Zenon DEF RequestOK
  <2>4. req' \in [Ids -> Requests]
    BY <1>1, <2>3, Zenon
  <2> QED BY <2>2, <2>4, Zenon DEF Evolves
<1>5. /\ active' \in {0, i} /\ (active' /= 0 => Carries(i) /\ ~Yields(i))
      /\ active /= 0 => active = i
      /\ i /= 0
  BY IdsFacts, Zenon DEF Carries, Yields
<1>6. KeepsBarriers
  <2> SUFFICES ASSUME NEW f \in Ids, Passing(f)' PROVE req[f].at /= "unsent" /\ Barred(f)
    BY Zenon DEF KeepsBarriers
  <2>1. CASE active' = f /\ req'[f].kind = "FLUSH"
    <3>1. f = i /\ Carries(i) /\ req[i].kind = "FLUSH"
      BY <1>2, <1>3, <1>5, <2>1, IdsFacts, Zenon
    <3> QED BY <3>1, RequestFacts, Zenon DEF Carries
  <2>2. CASE req'[f].kind \in {"FLUSH", "CLOSE"} /\ req'[f].said = <<"ok">>
    <3>1. req[f].kind = req'[f].kind /\ req[f].said = req'[f].said
      BY <1>2, <1>3, Zenon
    <3>2. Passing(f)
      BY <2>2, <3>1, Zenon DEF Passing
    <3> QED BY <3>2, PassingFacts, Zenon
  <2> QED BY <2>1, <2>2, Zenon DEF Passing
<1>7. [st |-> "busy", for |-> i] /= Idle
  BY DEF Idle
<1>8. KeepsFlight
  <2> SUFFICES ASSUME active /= 0, ~req[active].live, req[active].kind /= "WRITE"
               PROVE  active' = active /\ bridge' /= Idle
    BY Zenon DEF KeepsFlight
  <2>1. active = i
    BY <1>5, Zenon
  <2>2. ~Yields(i)
    BY <2>1, Zenon DEF Yields
  <2> QED BY <1>7, <2>1, <2>2, Zenon DEF Carries
<1>9. KeepsFreed /\ OpenKept
  <2>1. Covers({})
    BY <1>2, <1>3, Zenon DEF Covers
  <2> QED BY <1>4, <2>1, SameKeeps, Zenon
<1>10. KeepsValid
  <2> SUFFICES ASSUME Polite, active' /= 0, Resizes(req'[active'])
               PROVE  active' \in Ids /\ Waits(req'[active']) /\ open[req[active'].owner] = "open"
    BY Zenon DEF KeepsValid
  <2>1. active' = i /\ Carries(i)
    BY <1>5, Zenon
  <2>2. Resizes(req[i]) /\ Waits(req'[i])
    BY <1>2, <1>3, <2>1, Zenon DEF Resizes
  <2> QED BY <2>1, <2>2, Zenon DEF Carries
<1>11. ASSUME Carries(i) PROVE CardOK'
  <2>1. active' = i /\ bridge' = [st |-> "busy", for |-> i] /\ bridge' /= Idle
    BY <1>7, <1>11, Zenon DEF Carries
  <2>2. ActiveOK'
    <3>1. req'[active'].at = "slot" /\ req'[active'].kind /= "CLOSE"
      BY <1>2, <1>3, <1>11, <2>1, Zenon DEF Carries
    <3> QED BY <2>1, <3>1, Zenon DEF ActiveOK, Ids, Idle
  <2>3. BridgeOK'
    <3>1. bridge' \in [st : {"idle", "busy", "ok", "bad"}, for : Ids \cup {0}] /\ bridge'.st /= "idle"
      BY <2>1, Zenon
    <3>2. Own'
      BY <1>5, <2>1, Zenon DEF Own
    <3> QED BY <3>1, <3>2, Zenon DEF BridgeOK, Ids, Idle
  <2>4. RecoveryIsActive'
    <3> SUFFICES ASSUME NEW j \in Ids, Waits(req'[j]), req'[j].kind = "WRITE",
                        req'[j].phase \in Recovery, j /= i
                 PROVE  FALSE
      BY <2>1, Zenon DEF RecoveryIsActive, Ids, Recovery
    <3>1. req'[j] = req[j]
      BY <1>2, Zenon
    <3>2. active = j
      BY <3>1, Zenon DEF QueueInv, RecoveryIsActive
    <3> QED BY <1>5, <3>2, IdsFacts, Zenon
  <2>5. CountOK'
    <3> SUFFICES ASSUME NEW j \in Ids, Counted(j)'
                 PROVE  req'[j].moved + req'[j].left = req'[j].size + Credit(j)'
      BY Zenon DEF CountOK, Ids
    <3>1. Credit(j)' = 0
      BY <2>1 DEF Credit
    <3>2. CASE j = i
      <4>1. s.moved + s.left = s.size
        BY <1>2, <1>3, <3>2, Zenon DEF Counted
      <4>2. s.size \in Nat
        BY <1>3, QueueAssumption DEF RequestOK, Requests
      <4>3. s.moved + s.left = s.size + 0
        BY <4>1, <4>2
      <4> QED BY <1>2, <3>1, <3>2, <4>3, Zenon
    <3>3. CASE j /= i
      <4>1. req'[j] = req[j] /\ j /= active
        BY <1>2, <1>5, <3>3, IdsFacts, Zenon
      <4>2. Counted(j)
        BY <4>1, Zenon DEF Counted
      <4>3. Credit(j) = 0
        BY <4>1, <4>2, CreditIsActive, Zenon DEF Counted
      <4>4. req[j].moved + req[j].left = req[j].size + Credit(j)
        BY <4>2, Zenon DEF QueueInv, CountOK
      <4> QED BY <3>1, <4>1, <4>3, <4>4, Zenon
    <3> QED BY <3>2, <3>3, Zenon
  <2> QED BY <2>2, <2>3, <2>4, <2>5, Zenon DEF CardOK
<1>12. ASSUME Yields(i) PROVE CardOK'
  <2>1. active' = 0 /\ bridge' = Idle /\ active = i
    BY <1>12, Zenon DEF Yields
  <2>2. ActiveOK'
    BY <2>1, Zenon DEF ActiveOK, Ids, Idle
  <2>3. BridgeOK'
    <3>1. Idle \in [st : {"idle", "busy", "ok", "bad"}, for : Ids \cup {0}]
      BY DEF Idle
    <3> QED BY <2>1, <3>1, Zenon DEF BridgeOK, Ids, Idle
  <2>4. RecoveryIsActive'
    <3> SUFFICES ASSUME NEW j \in Ids, Waits(req'[j]), req'[j].kind = "WRITE",
                        req'[j].phase \in Recovery
                 PROVE  FALSE
      BY <2>1, Zenon DEF RecoveryIsActive, Ids, Recovery
    <3>1. CASE j = i
      <4>1. req[i].kind = "WRITE"
        BY <1>2, <1>3, <3>1, Zenon
      <4>2. "WRITE" /= "READ"
        OBVIOUS
      <4> QED BY <1>12, <3>1, <4>1, <4>2, Zenon DEF Yields
    <3>2. CASE j /= i
      <4>1. req'[j] = req[j]
        BY <1>2, <3>2, Zenon
      <4>2. active = j
        BY <4>1, Zenon DEF QueueInv, RecoveryIsActive
      <4> QED BY <2>1, <3>2, <4>2, Zenon
    <3> QED BY <3>1, <3>2, Zenon
  <2>5. CountOK'
    <3> SUFFICES ASSUME NEW j \in Ids, Counted(j)'
                 PROVE  req'[j].moved + req'[j].left = req'[j].size + Credit(j)'
      BY Zenon DEF CountOK, Ids
    <3>1. Credit(j)' = 0
      BY <2>1 DEF Credit, Idle
    <3>2. CASE j = i
      <4>1. s.moved + s.left = s.size
        BY <1>2, <1>3, <3>2, Zenon DEF Counted
      <4>2. s.size \in Nat
        BY <1>3, QueueAssumption DEF RequestOK, Requests
      <4>3. s.moved + s.left = s.size + 0
        BY <4>1, <4>2
      <4> QED BY <1>2, <3>1, <3>2, <4>3, Zenon
    <3>3. CASE j /= i
      <4>1. req'[j] = req[j] /\ j /= active
        BY <1>2, <2>1, <3>3, Zenon
      <4>2. Counted(j)
        BY <4>1, Zenon DEF Counted
      <4>3. Credit(j) = 0
        BY <4>1, <4>2, CreditIsActive, Zenon DEF Counted
      <4>4. req[j].moved + req[j].left = req[j].size + Credit(j)
        BY <4>2, Zenon DEF QueueInv, CountOK
      <4> QED BY <3>1, <4>1, <4>3, <4>4, Zenon
    <3> QED BY <3>2, <3>3, Zenon
  <2> QED BY <2>2, <2>3, <2>4, <2>5, Zenon DEF CardOK
<1>13. CardOK'
  BY <1>11, <1>12, Zenon
<1> QED BY <1>4, <1>6, <1>8, <1>9, <1>10, <1>13, Onward, Zenon

-----------------------------------------------------------------------------
(* A client sends a request: Enqueue(), or a request answered at once.     *)

Joins(o, r) ==
  /\ RequestOK(r) /\ r.at /= "unsent" /\ r.owner = o
  /\ r.phase \notin Recovery
  /\ Waits(r) /\ Io(r) => r.moved + r.left = r.size
  /\ r.kind \in {"FLUSH", "CLOSE"} => r.said /= <<"ok">>

LEMMA OneJoins ==
  ASSUME QueueInv, NEW o \in Owners, link[o] = "up", task = Loop,
         NEW n \in Ids, req[n].at = "unsent", \A m \in Ids : req[m].at = "unsent" => n <= m,
         NEW r, Joins(o, r), req' = [req EXCEPT ![n] = r],
         active' = active, bridge' = bridge, open' = open, link' = link, task' = task
  PROVE  QueueInv'
<1>1. req \in [Ids -> Requests]
  BY Zenon DEF QueueInv, RequestsOK
<1>2. req'[n] = r /\ \A j \in Ids : j /= n => req'[j] = req[j]
  BY <1>1, Zenon
<1>3. ~Waits(req[n]) /\ active /= n
  <2>1. ~Waits(req[n])
    BY DEF Waits
  <2> QED BY <2>1, ActiveFacts, IdsFacts, Zenon
<1>4. bridge /= Idle => bridge.for /= n
  <2>1. "unsent" /= "done"
    OBVIOUS
  <2> QED BY <1>3, <2>1, Zenon DEF QueueInv, BridgeOK, Own, LeftBehind
<1>5. active /= 0 => req'[active] = req[active]
  BY <1>2, <1>3, ActiveFacts, Zenon
<1>6. RequestsOK'
  <2>1. r \in Requests
    BY Zenon DEF Joins, RequestOK
  <2>2. req' \in [Ids -> Requests]
    BY <1>1, <2>1, Zenon
  <2>3. \A i \in Ids : RequestOK(req'[i])
    BY <1>2, RequestFacts, Zenon DEF Joins
  <2> QED BY <2>2, <2>3, Zenon DEF RequestsOK, Ids
<1>7. IdsInOrder'
  <2> SUFFICES ASSUME NEW i \in Ids, NEW j \in Ids, i < j, req'[j].at /= "unsent"
               PROVE  req'[i].at /= "unsent"
    BY Zenon DEF IdsInOrder, Ids
  <2>1. CASE i = n
    BY <1>2, <2>1, Zenon DEF Joins
  <2>2. CASE i /= n /\ j = n
    <3>1. ~(n <= i)
      BY <2>2, IdsFacts
    <3>2. req[i].at /= "unsent"
      BY <3>1, Zenon
    <3> QED BY <1>2, <2>2, <3>2, Zenon
  <2>3. CASE i /= n /\ j /= n
    <3>1. req[i].at /= "unsent"
      BY <1>2, <2>3, Zenon DEF QueueInv, IdsInOrder
    <3> QED BY <1>2, <2>3, <3>1, Zenon
  <2> QED BY <2>1, <2>2, <2>3, Zenon
<1>8. ActiveOK'
  BY <1>5, Zenon DEF QueueInv, ActiveOK, Ids, Idle
<1>9. BridgeOK'
  <2>1. /\ bridge' \in [st : {"idle", "busy", "ok", "bad"}, for : Ids \cup {0}]
        /\ bridge'.st = "idle" => bridge' = Idle
    BY Zenon DEF QueueInv, BridgeOK
  <2>2. Own => Own'
    BY Zenon DEF Own
  <2>3. bridge /= Idle /\ LeftBehind => LeftBehind'
    BY <1>2, <1>4, <1>5, Zenon DEF LeftBehind, Ids
  <2>4. bridge /= Idle => Own \/ LeftBehind
    BY Zenon DEF QueueInv, BridgeOK
  <2> QED BY <2>1, <2>2, <2>3, <2>4, Zenon DEF BridgeOK, Ids, Idle
<1>10. RecoveryIsActive'
  <2> SUFFICES ASSUME NEW j \in Ids, Waits(req'[j]), req'[j].kind = "WRITE", req'[j].phase \in Recovery
               PROVE  active' = j
    BY Zenon DEF RecoveryIsActive, Ids, Recovery
  <2>1. req'[j] = req[j]
    BY <1>2, Zenon DEF Joins
  <2> QED BY <2>1, Zenon DEF QueueInv, RecoveryIsActive
<1>11. CountOK'
  <2> SUFFICES ASSUME NEW j \in Ids, Counted(j)'
               PROVE  req'[j].moved + req'[j].left = req'[j].size + Credit(j)'
    BY Zenon DEF CountOK, Ids
  <2>1. CASE j = n
    <3>1. Credit(n)' = 0
      <4>1. bridge.st = "ok" => bridge /= Idle
        BY DEF Idle
      <4> QED BY <1>4, <4>1 DEF Credit
    <3>2. r.moved + r.left = r.size
      BY <1>2, <2>1, Zenon DEF Counted, Joins
    <3>3. r.size \in Nat
      BY QueueAssumption DEF Joins, RequestOK, Requests
    <3>4. r.moved + r.left = r.size + 0
      BY <3>2, <3>3
    <3> QED BY <1>2, <2>1, <3>1, <3>4, Zenon
  <2>2. CASE j /= n
    <3>1. req'[j] = req[j] /\ Counted(j) /\ Credit(j)' = Credit(j)
      BY <1>2, <2>2, Zenon DEF Counted, Credit
    <3> QED BY <3>1, Zenon DEF QueueInv, CountOK
  <2> QED BY <2>1, <2>2, Zenon
<1>12. PassingOK'
  <2> SUFFICES ASSUME NEW f \in Ids, Passing(f)', NEW w \in Ids, w < f,
                      req'[w].kind = "WRITE", req'[w].owner = req'[f].owner
               PROVE  Settled(req'[w])
    BY Zenon DEF PassingOK, Barred, Ids
  <2>1. f /= n
    BY <1>2, <1>3, Zenon DEF Passing, Joins
  <2>2. req'[f] = req[f]
    BY <1>2, <2>1, Zenon
  <2>3. Passing(f)
    BY <2>2, Zenon DEF Passing
  <2>4. req[f].at /= "unsent" /\ Barred(f)
    BY <2>3, PassingFacts, Zenon
  <2>5. w /= n
    BY <2>4, Zenon DEF QueueInv, IdsInOrder
  <2> QED BY <1>2, <2>2, <2>4, <2>5, Zenon DEF Barred
<1>13. LostOK'
  <2> SUFFICES ASSUME NEW i \in Ids, Waits(req'[i]), link'[req'[i].owner] = "gone"
               PROVE  /\ ~req'[i].live
                      /\ req'[i].kind = "WRITE" \/ (active' = i /\ bridge' /= Idle)
    BY Zenon DEF LostOK, Ids, Idle
  <2>1. i /= n
    <3>1. link[o] /= "gone"
      OBVIOUS
    <3> QED BY <1>2, <3>1, Zenon DEF Joins
  <2>2. req'[i] = req[i]
    BY <1>2, <2>1, Zenon
  <2> QED BY <2>2, Zenon DEF QueueInv, LostOK
<1>14. ValidOK'
  BY <1>5, Zenon DEF QueueInv, ValidOK, Resizes
<1>15. TaskOK'
  BY Zenon DEF QueueInv, TaskOK, Loop
<1>16. OpenOK'
  BY Zenon DEF QueueInv, OpenOK
<1>17. FilesFreed'
  <2> SUFFICES ASSUME NEW p \in Owners, link'[p] = "gone", \A i \in Pending' : req'[i].owner /= p
               PROVE  open'[p] = "gone"
    BY Zenon DEF FilesFreed
  <2>1. ASSUME NEW i \in Pending PROVE req[i].owner /= p
    <3>1. i \in Ids /\ Waits(req[i])
      BY Zenon DEF Pending, Waits
    <3>2. req'[i] = req[i]
      BY <1>2, <1>3, <3>1, Zenon
    <3>3. i \in Pending'
      BY <3>1, <3>2, Zenon DEF Pending, Waits, Ids
    <3> QED BY <3>2, <3>3, Zenon
  <2> QED BY <2>1, Zenon DEF QueueInv, FilesFreed
<1> QED
  BY <1>6, <1>7, <1>8, <1>9, <1>10, <1>11, <1>12, <1>13, <1>14, <1>15, <1>16, <1>17, Zenon
     DEF QueueInv

LEMMA SendFacts ==
  ASSUME NEW o \in Owners, NEW kind, MaySend(o, kind)
  PROVE  /\ link[o] = "up" /\ task = Loop /\ kind \in Kinds
         /\ NewId \in Ids /\ req[NewId].at = "unsent"
         /\ \A m \in Ids : req[m].at = "unsent" => NewId <= m
<1> DEFINE S == {i \in Ids : req[i].at = "unsent"}
<1>1. S \in SUBSET Nat /\ S /= {} /\ link[o] = "up" /\ task = Loop /\ kind \in Kinds
  BY IdsFacts, Zenon DEF MaySend
<1>2. \E x \in S : \A y \in S : x <= y
  <2> HIDE DEF S
  <2> QED BY <1>1, LeastExists
<1>3. NewId \in S /\ \A y \in S : NewId <= y
  BY <1>2, Zenon DEF NewId, Min
<1> QED BY <1>1, <1>3, Zenon

Fresh(o, kind, n, at) ==
  [Unsent EXCEPT !.at = at, !.kind = kind, !.owner = o, !.size = n, !.left = n]

LEMMA UnsentTyped == Unsent \in Requests
<1>1. /\ "unsent" \in {"unsent", "queued", "slot", "done"} /\ "none" \in AllKinds \cup {"none"}
      /\ 0 \in 0..Windows /\ 0 \in Nat /\ "new" \in Phases /\ <<>> \in Said
  BY QueueAssumption DEF Phases, Said
<1> QED BY <1>1, Zenon DEF Unsent, Requests

LEMMA FreshJoins ==
  ASSUME NEW o \in Owners, NEW kind \in Kinds, NEW n \in 1..Windows, NEW at \in {"queued", "slot"},
         at = "queued" => kind = "READ"
  PROVE  Joins(o, Fresh(o, kind, n, at))
<1> DEFINE r == Fresh(o, kind, n, at)
<1>1. /\ r.at = at /\ r.kind = kind /\ r.owner = o /\ r.size = n /\ r.left = n /\ r.moved = 0
      /\ r.phase = "new" /\ r.cancel = FALSE /\ r.live = TRUE /\ r.replied = FALSE /\ r.said = <<>>
  BY DEF Fresh, Unsent
<1>2. /\ n \in 0..Windows /\ 0 \in Nat /\ "new" \in Phases /\ "new" \notin Recovery
      /\ kind \in AllKinds /\ at \in {"unsent", "queued", "slot", "done"} /\ n >= 1 /\ 0 + n = n
      /\ at /= "unsent" /\ at /= "done"
  BY QueueAssumption DEF Phases, Recovery
<1>3. Unsent \in Requests
  BY UnsentTyped
<1>4. r \in Requests
  BY <1>2, <1>3, Zenon DEF Fresh, Requests
<1>5. <<>> /= <<"ok">> /\ <<>> /= <<"error">>
  OBVIOUS
<1> HIDE DEF r
<1>6. PlaceOK(r) /\ PhaseOK(r)
  BY <1>1, <1>2, Zenon DEF PlaceOK, PhaseOK
<1>7. AnswerOK(r)
  BY <1>1, <1>2, <1>5, Zenon DEF AnswerOK
<1> QED BY <1>1, <1>2, <1>4, <1>5, <1>6, <1>7, Zenon DEF Joins, RequestOK, r

LEMMA Sends ==
  ASSUME QueueInv, NEW o \in Owners, NEW kind, NEW n \in 1..Windows, NEW at \in {"queued", "slot"},
         MaySend(o, kind), at = "queued" => kind = "READ", Enqueue(o, kind, n, at),
         active' = active, bridge' = bridge, open' = open, link' = link, task' = task
  PROVE  QueueInv'
<1>1. Joins(o, Fresh(o, kind, n, at))
  BY SendFacts, FreshJoins, Zenon
<1>2. req' = [req EXCEPT ![NewId] = Fresh(o, kind, n, at)]
  BY Zenon DEF Enqueue, Fresh
<1> QED BY <1>1, <1>2, SendFacts, OneJoins, Zenon

LEMMA SendsAny ==
  ASSUME QueueInv, NEW o \in Owners,
         \/ \E n \in 1..Windows : SendRead(o, n) \/ SendWrite(o, n)
         \/ SendDirectory(o) \/ SendCreate(o) \/ SendClose(o)
         \/ \E kind \in Kinds : SendBarrier(o, kind)
  PROVE  QueueInv'
<1>1. 1 \in 1..Windows
  BY QueueAssumption
<1>2. ASSUME NEW n \in 1..Windows, SendRead(o, n) PROVE QueueInv'
  <2> DEFINE at == IF Queued = {} /\ InSlot("READ") = {} THEN "slot" ELSE "queued"
  <2>1. at \in {"queued", "slot"}
    BY Zenon
  <2>2. /\ MaySend(o, "READ") /\ Enqueue(o, "READ", n, at)
        /\ active' = active /\ bridge' = bridge /\ open' = open /\ link' = link /\ task' = task
    BY <1>2, Zenon DEF SendRead
  <2> HIDE DEF at
  <2> QED BY <2>1, <2>2, Sends, Zenon
<1>3. ASSUME NEW n \in 1..Windows, SendWrite(o, n) PROVE QueueInv'
  BY <1>3, Sends DEF SendWrite
<1>4. CASE SendDirectory(o)
  BY <1>1, <1>4, Sends DEF SendDirectory
<1>5. CASE SendCreate(o)
  BY <1>1, <1>5, Sends DEF SendCreate
<1>6. CASE SendClose(o)
  BY <1>1, <1>6, Sends DEF SendClose
<1>7. ASSUME NEW kind \in Kinds, SendBarrier(o, kind) PROVE QueueInv'
  BY <1>1, <1>7, Sends DEF SendBarrier
<1> QED BY <1>2, <1>3, <1>4, <1>5, <1>6, <1>7, Zenon

(* One window written, or one directory made, before the handler returns. *)
LEMMA ToldJoins ==
  ASSUME NEW o \in Owners, NEW r \in Requests, NEW out \in {"ok", "error"},
         r.at = "done", r.kind \in {"WRITE", "CREATE"}, r.owner = o, r.phase = "new",
         r.said = <<out>>, r.kind = "WRITE" /\ out = "ok" => r.moved = r.size
  PROVE  Joins(o, r)
<1>1. /\ "new" \notin Recovery /\ r.kind \notin {"FLUSH", "CLOSE", "READ"}
      /\ <<out>> /= <<>> /\ (<<out>> = <<"ok">> => out = "ok")
  BY DEF Recovery
<1>2. ~Waits(r) /\ r.at /= "unsent" /\ r.at /= "queued"
  BY DEF Waits
<1>3. PlaceOK(r) /\ PhaseOK(r) /\ AnswerOK(r)
  BY <1>1, <1>2, Zenon DEF PlaceOK, PhaseOK, AnswerOK, Io
<1> QED BY <1>1, <1>2, <1>3, Zenon DEF Joins, RequestOK

LEMMA AnswersNow ==
  ASSUME QueueInv, NEW o \in Owners, WriteNow(o) \/ CreateNow(o)
  PROVE  QueueInv'
<1>1. /\ {0, 1} \subseteq 0..Windows /\ {0, 1} \subseteq Nat /\ {"WRITE", "CREATE"} \subseteq AllKinds
      /\ "done" \in {"unsent", "queued", "slot", "done"}
      /\ \A out \in {"ok", "error"} : <<out>> \in Said
  BY QueueAssumption DEF AllKinds, Said
<1>2. ASSUME NEW out \in {"ok", "error"}
      PROVE  Joins(o, [Unsent EXCEPT !.at = "done", !.kind = "WRITE", !.owner = o,
                         !.size = 1, !.moved = IF out = "ok" THEN 1 ELSE 0, !.said = <<out>>])
  <2> DEFINE r == [Unsent EXCEPT !.at = "done", !.kind = "WRITE", !.owner = o,
                     !.size = 1, !.moved = IF out = "ok" THEN 1 ELSE 0, !.said = <<out>>]
  <2>1. r \in Requests
    <3>1. (IF out = "ok" THEN 1 ELSE 0) \in Nat /\ 1 \in 0..Windows
      BY <1>1, Zenon
    <3> QED BY <1>1, <3>1, UnsentTyped, Zenon DEF Requests
  <2>2. /\ r.at = "done" /\ r.kind = "WRITE" /\ r.owner = o /\ r.phase = "new" /\ r.said = <<out>>
        /\ out = "ok" => r.moved = r.size
    BY DEF Unsent
  <2> HIDE DEF r
  <2>3. r.kind \in {"WRITE", "CREATE"}
    BY <2>2, Zenon
  <2>4. Joins(o, r)
    BY <2>1, <2>2, <2>3, ToldJoins, Zenon
  <2> QED BY <2>4, Zenon DEF r
<1>3. Joins(o, [Unsent EXCEPT !.at = "done", !.kind = "CREATE", !.owner = o, !.said = <<"ok">>])
  <2> DEFINE r == [Unsent EXCEPT !.at = "done", !.kind = "CREATE", !.owner = o, !.said = <<"ok">>]
  <2>1. r \in Requests
    <3>1. <<"ok">> \in Said
      BY <1>1, Zenon
    <3> QED BY <1>1, <3>1, UnsentTyped, Zenon DEF Requests
  <2>2. /\ r.at = "done" /\ r.kind = "CREATE" /\ r.owner = o /\ r.phase = "new" /\ r.said = <<"ok">>
        /\ "CREATE" /= "WRITE"
    BY DEF Unsent
  <2> HIDE DEF r
  <2>3. r.kind \in {"WRITE", "CREATE"} /\ r.kind /= "WRITE"
    BY <2>2, Zenon
  <2>4. Joins(o, r)
    BY <2>1, <2>2, <2>3, ToldJoins, Zenon
  <2> QED BY <2>4, Zenon DEF r
<1>4. CASE WriteNow(o)
  <2>1. PICK out \in {"ok", "error"} :
          req' = [req EXCEPT ![NewId] = [Unsent EXCEPT !.at = "done", !.kind = "WRITE", !.owner = o,
                    !.size = 1, !.moved = IF out = "ok" THEN 1 ELSE 0, !.said = <<out>>]]
    BY <1>4, Zenon DEF WriteNow
  <2>2. /\ MaySend(o, "WRITE") /\ active' = active /\ bridge' = bridge /\ open' = open
        /\ link' = link /\ task' = task
    BY <1>4, Zenon DEF WriteNow
  <2> QED BY <1>2, <2>1, <2>2, SendFacts, OneJoins, Zenon
<1>5. CASE CreateNow(o)
  <2>1. /\ MaySend(o, "CREATE") /\ active' = active /\ bridge' = bridge /\ open' = open
        /\ link' = link /\ task' = task
        /\ req' = [req EXCEPT ![NewId] = [Unsent EXCEPT !.at = "done", !.kind = "CREATE", !.owner = o,
                                                          !.said = <<"ok">>]]
    BY <1>5, Zenon DEF CreateNow
  <2> QED BY <1>3, <2>1, SendFacts, OneJoins, Zenon
<1> QED BY <1>4, <1>5, Zenon

-----------------------------------------------------------------------------
(* Steps that change no request: a CLOSE that needs no card, LOGOFF, the    *)
(* waits of TREE_DISCONNECT, the end of a directory's time.                *)

LEMMA OnlyFiles ==
  ASSUME QueueInv, req' = req, active' = active, bridge' = bridge, link' = link,
         OpenOK', ValidOK', TaskOK', \A o \in Owners : open[o] = "gone" => open'[o] = "gone"
  PROVE  QueueInv'
<1>1. RequestsOK' /\ IdsInOrder' /\ ActiveOK' /\ RecoveryIsActive'
  BY Zenon DEF QueueInv, RequestsOK, IdsInOrder, ActiveOK, RecoveryIsActive, Ids, Idle, Recovery
<1>2. BridgeOK'
  BY Zenon DEF QueueInv, BridgeOK, Own, LeftBehind, Ids, Idle
<1>3. CountOK'
  BY Zenon DEF QueueInv, CountOK, Counted, Credit, Ids, Recovery
<1>4. PassingOK'
  BY Zenon DEF QueueInv, PassingOK, Passing, Barred, Ids
<1>5. LostOK'
  BY Zenon DEF QueueInv, LostOK, Ids, Idle
<1>6. FilesFreed'
  <2>1. Pending' = Pending
    BY Zenon DEF Pending, Ids
  <2> QED BY <2>1, Zenon DEF QueueInv, FilesFreed
<1> QED BY <1>1, <1>2, <1>3, <1>4, <1>5, <1>6, Zenon DEF QueueInv

LEMMA SameValid ==
  ASSUME QueueInv, req' = req, active' = active,
         Polite /\ active /= 0 /\ Resizes(req[active]) => open'[req[active].owner] = open[req[active].owner]
  PROVE  ValidOK'
BY Zenon DEF QueueInv, ValidOK, Resizes

LEMMA SameTask ==
  ASSUME QueueInv, req' = req, task' = task \/ task' = Loop
  PROVE  TaskOK'
<1>1. Loop \in [phase : {"loop", "reads", "writes"}, owner : Owners \cup {NoOwner}]
  BY DEF Loop
<1> QED BY <1>1, Zenon DEF QueueInv, TaskOK, Resizes, Ids, Loop

LEMMA Unchanged ==
  ASSUME QueueInv, req' = req, active' = active, bridge' = bridge, link' = link, open' = open,
         task' = task
  PROVE  QueueInv'
<1>1. OpenOK' /\ ValidOK' /\ TaskOK'
  BY SameValid, SameTask, Zenon DEF QueueInv, OpenOK
<1> QED BY <1>1, OnlyFiles, Zenon

(* The kind of the active FLUSH or SET_EOF is one of those that keep the
   file busy. *)
LEMMA ActiveResizes ==
  ASSUME QueueInv, active /= 0, Resizes(req[active])
  PROVE  /\ active \in Pending /\ req[active].kind \in Kinds
         /\ req[active].kind \notin {"DIR", "CREATE"} /\ req[active].owner \in Owners
<1>1. active \in Ids /\ Waits(req[active])
  BY ActiveFacts, Zenon
<1>2. req[active].kind \notin {"DIR", "CREATE"}
  BY DEF Resizes
<1> QED BY <1>1, <1>2, RequestFacts, Zenon DEF RequestOK, PlaceOK, Pending, Waits

LEMMA CloseNowKeeps ==
  ASSUME QueueInv, NEW o \in Owners, CloseNow(o)
  PROVE  QueueInv'
<1>1. /\ req' = req /\ active' = active /\ bridge' = bridge /\ link' = link /\ task' = task
      /\ open[o] = "open" /\ ~HandleWork(o) /\ open' = [open EXCEPT ![o] = "closed"]
  BY Zenon DEF CloseNow
<1>2. open \in [Owners -> {"open", "closed", "gone"}] /\ link \in [Owners -> {"up", "gone"}]
  BY Zenon DEF QueueInv, OpenOK
<1>3. OpenOK'
  <2>1. open' \in [Owners -> {"open", "closed", "gone"}]
    BY <1>1, <1>2, Zenon
  <2> QED BY <1>1, <1>2, <2>1, Zenon DEF OpenOK
<1>4. "open" /= "gone"
  OBVIOUS
<1>5. ASSUME NEW p \in Owners, open[p] = "gone" PROVE open'[p] = "gone"
  BY <1>1, <1>2, <1>4, <1>5, Zenon
<1>6. ASSUME active /= 0, Resizes(req[active])
      PROVE  open'[req[active].owner] = open[req[active].owner]
  <2>1. req[active].owner /= o /\ req[active].owner \in Owners
    BY <1>1, <1>6, ActiveResizes, Zenon DEF HandleWork
  <2> QED BY <1>1, <1>2, <2>1, Zenon
<1>7. ValidOK' /\ TaskOK'
  BY <1>1, <1>6, SameValid, SameTask, Zenon
<1> QED BY <1>1, <1>3, <1>5, <1>7, OnlyFiles, Zenon

LEMMA LogoffKeeps ==
  ASSUME QueueInv, NEW o \in Owners, Logoff(o)
  PROVE  QueueInv'
<1>1. /\ req' = req /\ active' = active /\ bridge' = bridge /\ link' = link /\ task' = task
      /\ Polite => ~Outstanding(o, Kinds)
      /\ open' = [open EXCEPT ![o] = "gone"]
  BY Zenon DEF Logoff
<1>2. open \in [Owners -> {"open", "closed", "gone"}] /\ link \in [Owners -> {"up", "gone"}]
  BY Zenon DEF QueueInv, OpenOK
<1>3. OpenOK'
  <2>1. open' \in [Owners -> {"open", "closed", "gone"}]
    BY <1>1, <1>2, Zenon
  <2> QED BY <1>1, <1>2, <2>1, Zenon DEF OpenOK
<1>4. ASSUME NEW p \in Owners, open[p] = "gone" PROVE open'[p] = "gone"
  BY <1>1, <1>2, <1>4, Zenon
<1>5. ASSUME Polite, active /= 0, Resizes(req[active])
      PROVE  open'[req[active].owner] = open[req[active].owner]
  <2>1. req[active].owner /= o /\ req[active].owner \in Owners
    BY <1>1, <1>5, ActiveResizes, Zenon DEF Outstanding
  <2> QED BY <1>1, <1>2, <2>1, Zenon
<1>6. ValidOK' /\ TaskOK'
  BY <1>1, <1>5, SameValid, SameTask, Zenon
<1> QED BY <1>1, <1>3, <1>4, <1>6, OnlyFiles, Zenon

LEMMA TreeReadsDoneKeeps ==
  ASSUME QueueInv, TreeReadsDone
  PROVE  QueueInv'
<1>1. /\ req' = req /\ active' = active /\ bridge' = bridge /\ link' = link /\ open' = open
      /\ task.phase = "reads"
      /\ task' = [task EXCEPT !.phase = "writes"] \/ task' = Loop
  BY Zenon DEF TreeReadsDone
<1>2. TaskOK'
  <2>1. CASE task' = Loop
    BY <1>1, <2>1, SameTask, Zenon
  <2>2. CASE task' = [task EXCEPT !.phase = "writes"]
    <3>1. task \in [phase : {"loop", "reads", "writes"}, owner : Owners \cup {NoOwner}]
      BY Zenon DEF QueueInv, TaskOK
    <3>2. /\ task' \in [phase : {"loop", "reads", "writes"}, owner : Owners \cup {NoOwner}]
          /\ task'.owner = task.owner
      BY <2>2, <3>1
    <3>3. task /= Loop
      BY <1>1 DEF Loop
    <3> QED BY <1>1, <3>2, <3>3, Zenon DEF QueueInv, TaskOK, Resizes, Ids, Loop
  <2> QED BY <1>1, <2>1, <2>2, Zenon
<1>3. OpenOK' /\ ValidOK'
  BY <1>1, SameValid, Zenon DEF QueueInv, OpenOK
<1> QED BY <1>1, <1>2, <1>3, OnlyFiles, Zenon

(* Half of TreeWritesDone: no WRITE of the tree is left. *)
LEMMA TreeGoes ==
  ASSUME QueueInv, task.phase = "writes", task' = Loop, req' = req, active' = active,
         bridge' = bridge, link' = link, open' = [open EXCEPT ![task.owner] = "gone"]
  PROVE  QueueInv'
<1>1. open \in [Owners -> {"open", "closed", "gone"}] /\ link \in [Owners -> {"up", "gone"}]
  BY Zenon DEF QueueInv, OpenOK
<1>2. OpenOK'
  <2>1. open' \in [Owners -> {"open", "closed", "gone"}]
    BY <1>1, Zenon
  <2> QED BY <1>1, <2>1, Zenon DEF OpenOK
<1>3. ASSUME NEW p \in Owners, open[p] = "gone" PROVE open'[p] = "gone"
  BY <1>1, <1>3, Zenon
<1>4. task /= Loop
  BY DEF Loop
<1>5. ASSUME Polite, active /= 0, Resizes(req[active])
      PROVE  open'[req[active].owner] = open[req[active].owner]
  <2>1. active \in Ids /\ Waits(req[active])
    BY <1>5, ActiveFacts, Zenon
  <2>2. req[active].owner /= task.owner
    BY <1>4, <1>5, <2>1, Zenon DEF QueueInv, TaskOK
  <2>3. req[active].owner \in Owners
    BY <2>1, RequestFacts, Zenon DEF RequestOK, PlaceOK
  <2> QED BY <1>1, <2>2, <2>3, Zenon
<1>6. ValidOK' /\ TaskOK'
  BY <1>5, SameValid, SameTask, Zenon
<1> QED BY <1>2, <1>3, <1>6, OnlyFiles, Zenon

-----------------------------------------------------------------------------
(* Whose turn it is.                                                       *)

LEMMA LeastFacts ==
  ASSUME NEW S \in SUBSET Ids, NEW i \in Ids, Least(S) = i
  PROVE  i \in S /\ \A y \in S : ~(y < i)
<1>1. S /= {}
  BY IdsFacts, Zenon DEF Least
<1>2. S \in SUBSET Nat
  BY IdsFacts, Zenon
<1>3. \E x \in S : \A y \in S : x <= y
  BY <1>1, <1>2, LeastExists
<1>4. i = Min(S)
  BY <1>1, Zenon DEF Least
<1>5. i \in S /\ \A y \in S : i <= y
  BY <1>3, <1>4, Zenon DEF Min
<1> QED BY <1>2, <1>5

LEMMA PendingFacts ==
  ASSUME NEW i \in Ids
  PROVE  i \in Pending <=> Waits(req[i])
BY Zenon DEF Pending, Waits

(* A WRITE that is not settled waits. *)
LEMMA UnsettledWaits ==
  ASSUME QueueInv, NEW w \in Ids, req[w].kind = "WRITE", ~Settled(req[w])
  PROVE  Waits(req[w]) /\ ~req[w].cancel
<1>1. req[w] \in Requests /\ (req[w].at = "unsent" => req[w] = Unsent)
  BY RequestFacts, Zenon DEF RequestOK, PlaceOK
<1>2. Unsent.kind /= "WRITE"
  BY DEF Unsent
<1>3. req[w].at \in {"unsent", "queued", "slot", "done"}
  BY <1>1, Zenon DEF Requests
<1> QED BY <1>1, <1>2, <1>3, Zenon DEF Settled, Waits

(* The request whose turn it is waits; a FLUSH or CLOSE whose turn it is has
   no WRITE of its owner before it, whichever owner the rotation prefers. *)
LEMMA DueFacts ==
  ASSUME QueueInv, NEW last, NEW i \in Ids, Due(last) = i
  PROVE  /\ i \in Pending /\ Waits(req[i]) /\ ~req[i].cancel
         /\ req[i].kind \in {"FLUSH", "CLOSE"} => Barred(i)
<1> DEFINE waiting == {j \in Pending : ~req[j].cancel}
<1> DEFINE others == {j \in waiting : req[j].owner /= last}
<1> DEFINE listed == {j \in waiting : req[j].owner = cont /\ req[j].kind = "DIR"}
<1>1. \/ Least(listed) = i
      \/ Least(others) = i
      \/ Least(waiting) = i
  BY Zenon DEF Due
<1>2. Pending \subseteq Ids
  BY Zenon DEF Pending
<1>3. waiting \subseteq Ids /\ others \subseteq Ids /\ listed \subseteq Ids
  BY <1>2, Zenon
<1>4. ASSUME NEW w \in Ids, w < i, req[w].kind = "WRITE", req[w].owner = req[i].owner,
             ~Settled(req[w])
      PROVE  w \in waiting
  BY <1>4, UnsettledWaits, PendingFacts, Zenon
<1>5. "DIR" \notin {"FLUSH", "CLOSE"}
  OBVIOUS
<1>6. CASE Least(listed) = i
  <2>1. i \in listed
    <3> HIDE DEF listed, waiting, others
    <3> QED BY <1>3, <1>6, LeastFacts, Zenon
  <2> QED BY <1>2, <1>5, <2>1, PendingFacts, Zenon
<1>7. CASE Least(others) = i
  <2>1. i \in others /\ \A y \in others : ~(y < i)
    <3> HIDE DEF listed, waiting, others
    <3> QED BY <1>3, <1>7, LeastFacts, Zenon
  <2>2. Barred(i)
    <3> SUFFICES ASSUME NEW w \in Ids, w < i, req[w].kind = "WRITE", req[w].owner = req[i].owner,
                        ~Settled(req[w])
                 PROVE  FALSE
      BY Zenon DEF Barred
    <3>1. w \in waiting
      BY <1>4, Zenon
    <3>2. w \in others
      BY <2>1, <3>1, Zenon
    <3> QED BY <2>1, <3>2, Zenon
  <2> QED BY <1>2, <2>1, <2>2, PendingFacts, Zenon
<1>8. CASE Least(waiting) = i
  <2>1. i \in waiting /\ \A y \in waiting : ~(y < i)
    <3> HIDE DEF listed, waiting, others
    <3> QED BY <1>3, <1>8, LeastFacts, Zenon
  <2>2. Barred(i)
    <3> SUFFICES ASSUME NEW w \in Ids, w < i, req[w].kind = "WRITE", req[w].owner = req[i].owner,
                        ~Settled(req[w])
                 PROVE  FALSE
      BY Zenon DEF Barred
    <3>1. w \in waiting
      BY <1>4, Zenon
    <3> QED BY <2>1, <3>1, Zenon
  <2> QED BY <1>2, <2>1, <2>2, PendingFacts, Zenon
<1> QED BY <1>1, <1>6, <1>7, <1>8, Zenon

LEMMA TurnFacts ==
  ASSUME QueueInv, NEW i \in Ids, Turn(i)
  PROVE  /\ active = 0 /\ active /= i /\ bridge = Idle
         /\ i \in Pending /\ Waits(req[i]) /\ ~req[i].cancel
         /\ req[i].kind \in {"FLUSH", "CLOSE"} => Barred(i)
<1>1. active = 0 /\ active /= i /\ bridge = Idle /\ Due(lastOwner) = i
  BY IdsFacts, Zenon DEF Turn
<1> QED BY <1>1, DueFacts, Zenon

(* A request not on the card is lost with its client, unless it is a WRITE. *)
LEMMA ClientThere ==
  ASSUME QueueInv, NEW i \in Ids, Waits(req[i]), req[i].kind /= "WRITE", active /= i
  PROVE  link[req[i].owner] = "up"
<1>1. req[i].owner \in Owners
  BY RequestFacts, Zenon DEF RequestOK, PlaceOK
<1>2. link[req[i].owner] \in {"up", "gone"}
  BY <1>1, Zenon DEF QueueInv, OpenOK
<1> QED BY <1>2, Zenon DEF QueueInv, LostOK

(* The result that has come for a READ or WRITE is its own, and a window of
   it. *)
LEMMA LastWindow ==
  ASSUME QueueInv, active /= 0, Io(req[active]), req[active].phase \notin Recovery,
         bridge.st = "ok", req[active].left = 1
  PROVE  MayEnd(req[active], "ok")
<1>1. active \in Ids /\ Waits(req[active])
  BY ActiveFacts, Zenon
<1>2. bridge /= Idle
  BY DEF Idle
<1>3. bridge.for = active
  <2>1. "window" \in Recovery
    BY DEF Recovery
  <2> QED BY <1>2, <2>1, Zenon DEF QueueInv, BridgeOK, Own, LeftBehind
<1>4. req[active].moved + req[active].left = req[active].size + 1
  <2>1. Credit(active) = 1
    BY <1>3 DEF Credit
  <2>2. Counted(active)
    BY <1>1, Zenon DEF Counted
  <2> QED BY <1>1, <2>1, <2>2, Zenon DEF QueueInv, CountOK
<1>5. req[active].moved \in Nat /\ req[active].size \in Nat
  BY <1>1, RequestFacts, QueueAssumption DEF Requests
<1>6. req[active].moved = req[active].size
  BY <1>4, <1>5
<1> QED BY <1>1, <1>6, Zenon DEF MayEnd

-----------------------------------------------------------------------------
(* The actions that end one request.                                       *)

(* A request that is not active ends with an error. *)
LEMMA WaitingFails ==
  ASSUME QueueInv, NEW i \in Ids, Waits(req[i]), active /= i, req' = Out(req, {i}, "error"),
         active' = active, bridge' = bridge, Frees(i), link' = link, task' = task
  PROVE  QueueInv'
<1>1. MayEnd(req[i], "error") /\ "error" /= "ok"
  BY DEF MayEnd
<1>2. LetsGo(i)
  BY Zenon DEF LetsGo
<1> QED BY <1>1, <1>2, OneEnds, Zenon

(* The active one ends, and the bridge is free. *)
LEMMA ActiveFails ==
  ASSUME QueueInv, NEW i \in Ids, active = i, req' = Out(req, {i}, "error"),
         active' = 0, bridge' = Idle, Free({i}), link' = link, task' = task
  PROVE  QueueInv'
<1>1. Waits(req[i]) /\ "error" /= "ok"
  BY ActiveFacts, IdsFacts
<1>2. MayEnd(req[i], "error")
  BY <1>1 DEF MayEnd
<1>3. LetsGo(i) /\ Frees(i)
  BY Zenon DEF LetsGo, Frees
<1> QED BY <1>1, <1>2, <1>3, OneEnds, Zenon

LEMMA ActiveSucceeds ==
  ASSUME QueueInv, NEW i \in Ids, active = i, MayEnd(req[i], "ok"), req[i].kind /= "CLOSE",
         req' = Out(req, {i}, "ok"), active' = 0, bridge' = Idle, Free({i}),
         link' = link, task' = task
  PROVE  QueueInv'
<1>1. req[i].kind \in {"FLUSH", "CLOSE"} => Barred(i)
  <2> SUFFICES ASSUME req[i].kind = "FLUSH" PROVE Barred(i)
    BY Zenon
  <2>1. Passing(i)
    BY Zenon DEF Passing
  <2> QED BY <2>1, PassingFacts, Zenon
<1>2. LetsGo(i) /\ Frees(i)
  BY Zenon DEF LetsGo, Frees
<1> QED BY <1>1, <1>2, OneEnds, Zenon

LEMMA EndsWaiting ==
  ASSUME QueueInv, NEW i \in Ids, Waits(req[i]), active /= i, NEW close, Ends(i, "error", close),
         bridge' = bridge, link' = link, task' = task
  PROVE  QueueInv'
<1>1. req' = Out(req, {i}, "error") /\ active' = active /\ Frees(i)
  BY Zenon DEF Ends, After, Frees
<1> QED BY <1>1, WaitingFails, Zenon

LEMMA EndsActive ==
  ASSUME QueueInv, NEW i \in Ids, active = i, NEW answer \in {"ok", "error"}, NEW close,
         Ends(i, answer, close), bridge' = Idle, link' = link, task' = task,
         answer = "ok" => MayEnd(req[i], "ok")
  PROVE  QueueInv'
<1>1. active' = 0 /\ Free({i}) /\ req' = Out(req, {i}, answer)
  BY Zenon DEF Ends, After
<1>2. req[i].kind /= "CLOSE"
  BY ActiveFacts, IdsFacts, Zenon
<1>3. CASE answer = "ok"
  BY <1>1, <1>2, <1>3, ActiveSucceeds, Zenon
<1>4. CASE answer = "error"
  BY <1>1, <1>4, ActiveFails, Zenon
<1> QED BY <1>3, <1>4

LEMMA AbandonKeeps ==
  ASSUME QueueInv, NEW i \in Ids, active = i, NEW marked, Abandon(i, marked), link' = link, task' = task
  PROVE  QueueInv'
BY ActiveFails, Zenon DEF Abandon

LEMMA NotActive ==
  ASSUME NEW i \in Ids, ActiveKind /= req[i].kind
  PROVE  active /= i
BY IdsFacts, Zenon DEF ActiveKind

LEMMA SlotFacts ==
  ASSUME QueueInv, NEW i \in Ids, NEW kind, i \in InSlot(kind)
  PROVE  Waits(req[i]) /\ req[i].kind = kind /\ req[i].at = "slot"
<1>1. i \in Pending /\ req[i].kind = kind /\ req[i].at /= "queued"
  BY Zenon DEF InSlot, Of, Queued
<1>2. req[i].at \in {"queued", "slot"}
  BY <1>1, Zenon DEF Pending
<1> QED BY <1>1, <1>2, Zenon DEF Waits

LEMMA DropKeeps ==
  ASSUME QueueInv, NEW i \in Ids, DropRead(i) \/ DropWrite(i) \/ DropClose(i)
  PROVE  QueueInv'
<1>1. CASE DropRead(i)
  <2>1. /\ ActiveKind /= "READ" /\ i \in InSlot("READ") /\ Ends(i, "error", FALSE)
        /\ bridge' = bridge /\ link' = link /\ task' = task
    BY <1>1, Zenon DEF DropRead
  <2>2. Waits(req[i]) /\ active /= i
    BY <2>1, SlotFacts, NotActive, Zenon
  <2> QED BY <2>1, <2>2, EndsWaiting, Zenon
<1>2. CASE DropWrite(i)
  <2>1. /\ ActiveKind /= "WRITE" /\ i \in InSlot("WRITE") /\ Ends(i, "error", FALSE)
        /\ bridge' = bridge /\ link' = link /\ task' = task
    BY <1>2, Zenon DEF DropWrite
  <2>2. Waits(req[i]) /\ active /= i
    BY <2>1, SlotFacts, NotActive, Zenon
  <2> QED BY <2>1, <2>2, EndsWaiting, Zenon
<1>3. CASE DropClose(i)
  <2>1. /\ ActiveKind \notin {"FLUSH", "SETEOF"} /\ Ends(i, "error", FALSE) /\ i \in Pending
        /\ req[i].kind \in {"CLOSE", "FLUSH", "SETEOF"}
        /\ bridge' = bridge /\ link' = link /\ task' = task
    BY <1>3, Zenon DEF DropClose
  <2>2. active /= i
    <3> SUFFICES ASSUME active = i PROVE FALSE
      OBVIOUS
    <3>1. req[i].kind /= "CLOSE" /\ ActiveKind = req[i].kind
      BY ActiveFacts, IdsFacts, Zenon DEF ActiveKind
    <3> QED BY <2>1, <3>1, Zenon
  <2> QED BY <2>1, <2>2, PendingFacts, EndsWaiting, Zenon
<1> QED BY <1>1, <1>2, <1>3, Zenon

(* The file went: of the active ones, only by a LOGOFF or TREE_DISCONNECT
   that did not wait. *)
LEMMA LostKeeps ==
  ASSUME QueueInv, NEW i \in Ids, Lost(i)
  PROVE  QueueInv'
<1>1. /\ i \in Pending /\ ~Holder(i) /\ Ends(i, "error", FALSE)
      /\ bridge' = bridge /\ link' = link /\ task' = task
      /\ Turn(i) \/ (active = i /\ Resizes(req[i]))
  BY Zenon DEF Lost, Resizes
<1>2. CASE Turn(i)
  BY <1>1, <1>2, TurnFacts, EndsWaiting, Zenon
<1>3. CASE active = i /\ Resizes(req[i])
  <2>1. open[req[i].owner] /= "open"
    <3>1. req[i].kind \notin {"DIR", "CREATE"}
      BY <1>3 DEF Resizes
    <3> QED BY <1>1, <3>1, Zenon DEF Holder, Valid
  <2>2. ~Polite
    BY <1>3, <2>1, IdsFacts, Zenon DEF QueueInv, ValidOK
  <2>3. req' = Out(req, {i}, "error") /\ active' = 0 /\ Free({i})
    BY <1>1, <1>3, Zenon DEF Ends, After
  <2>4. LetsGo(i) /\ Frees(i)
    BY <1>1, <1>3, <2>2, <2>3, Zenon DEF LetsGo, Frees
  <2>5. MayEnd(req[i], "error") /\ "error" /= "ok"
    BY <1>1, PendingFacts DEF MayEnd
  <2> QED BY <1>1, <2>3, <2>4, <2>5, OneEnds, Zenon
<1> QED BY <1>1, <1>2, <1>3, Zenon

LEMMA AnswerDirectoryKeeps ==
  ASSUME QueueInv, NEW i \in Ids, AnswerDirectory(i)
  PROVE  QueueInv'
<1>1. /\ Turn(i) /\ req[i].kind = "DIR" /\ bridge' = bridge /\ link' = link /\ task' = task
      /\ Ends(i, "error", FALSE) \/ Ends(i, "ok", FALSE)
  BY Zenon DEF AnswerDirectory
<1>2. Waits(req[i]) /\ active /= i
  BY <1>1, TurnFacts, Zenon
<1>3. CASE Ends(i, "error", FALSE)
  BY <1>1, <1>2, <1>3, EndsWaiting, Zenon
<1>4. CASE Ends(i, "ok", FALSE)
  <2>1. req' = Out(req, {i}, "ok") /\ active' = active /\ Frees(i) /\ LetsGo(i)
    BY <1>1, <1>2, <1>4, Zenon DEF Ends, After, Frees, LetsGo
  <2>2. MayEnd(req[i], "ok") /\ req[i].kind \notin {"FLUSH", "CLOSE"}
    BY <1>1, <1>2 DEF MayEnd, Io
  <2> QED BY <1>1, <2>1, <2>2, OneEnds, Zenon
<1> QED BY <1>1, <1>3, <1>4, Zenon

-----------------------------------------------------------------------------
(* The actions that carry one request on.                                  *)

LEMMA NewPhase ==
  ASSUME NEW r, RequestOK(r), Waits(r), r.at = "slot", NEW phase \in Phases,
         ~Io(r) \/ (r.kind = "WRITE" /\ (phase \in Recovery => r.replied)),
         Io(r) /\ phase \notin Recovery => phase = "work" /\ r.left >= 1 /\ r.moved + r.left = r.size
  PROVE  Proceeds(r, [r EXCEPT !.phase = phase])
<1> DEFINE s == [r EXCEPT !.phase = phase]
<1>1. r \in Requests
  BY Zenon DEF RequestOK
<1>2. s \in Requests
  BY <1>1, Zenon DEF Requests
<1>3. /\ s.at = r.at /\ s.kind = r.kind /\ s.owner = r.owner /\ s.size = r.size /\ s.left = r.left
      /\ s.moved = r.moved /\ s.cancel = r.cancel /\ s.live = r.live /\ s.replied = r.replied
      /\ s.said = r.said /\ s.phase = phase
  BY <1>1 DEF Requests
<1>4. r.at /= "unsent" /\ r.at /= "queued" /\ r.at /= "done"
  OBVIOUS
<1>5. r.kind = "READ" => r.kind /= "WRITE"
  OBVIOUS
<1> HIDE DEF s
<1>6. Waits(s) /\ (Io(s) <=> Io(r))
  BY <1>3, Zenon DEF Waits, Io
<1>7. PlaceOK(s)
  BY <1>3, <1>4, <1>6, Zenon DEF RequestOK, PlaceOK
<1>8. AnswerOK(s)
  BY <1>3, <1>4, <1>6, Zenon DEF RequestOK, AnswerOK
<1>9. PhaseOK(s)
  <2>1. s.kind = "WRITE" => Io(r) /\ Io(s)
    BY <1>3, Zenon DEF Io
  <2>2. s.kind /= "READ"
    BY <1>3, <1>5, Zenon DEF Io
  <2> QED BY <1>3, <1>6, <2>1, <2>2, Zenon DEF PhaseOK
<1>10. Io(s) /\ s.phase \notin Recovery => s.moved + s.left = s.size
  BY <1>3, <1>6, Zenon
<1> QED BY <1>2, <1>3, <1>7, <1>8, <1>9, <1>10, Zenon DEF Proceeds, RequestOK, s

(* A window of a READ or WRITE was moved, and it was not the last. *)
LEMMA OneLess ==
  ASSUME NEW r, RequestOK(r), Waits(r), r.at = "slot", Io(r), r.phase \notin Recovery,
         r.moved + r.left = r.size + 1, r.left /= 1
  PROVE  Proceeds(r, [r EXCEPT !.left = @ - 1])
<1> DEFINE s == [r EXCEPT !.left = r.left - 1]
<1>1. r \in Requests /\ r.left >= 1
  BY Zenon DEF RequestOK, PhaseOK
<1>2. r.left \in 0..Windows /\ r.moved \in Nat /\ r.size \in 0..Windows
  BY <1>1, Zenon DEF Requests
<1>3. r.left - 1 \in 0..Windows /\ r.left - 1 >= 1 /\ r.moved + (r.left - 1) = r.size
  BY <1>1, <1>2, QueueAssumption
<1>4. s \in Requests
  BY <1>1, <1>3, Zenon DEF Requests
<1>5. /\ s.at = r.at /\ s.kind = r.kind /\ s.owner = r.owner /\ s.size = r.size
      /\ s.left = r.left - 1
      /\ s.moved = r.moved /\ s.cancel = r.cancel /\ s.live = r.live /\ s.replied = r.replied
      /\ s.said = r.said /\ s.phase = r.phase
  BY <1>1 DEF Requests
<1>6. r.at /= "unsent" /\ r.at /= "queued" /\ r.at /= "done"
  OBVIOUS
<1> HIDE DEF s
<1>7. Waits(s) /\ (Io(s) <=> Io(r))
  BY <1>5, Zenon DEF Waits, Io
<1>8. PlaceOK(s)
  BY <1>5, <1>6, <1>7, Zenon DEF RequestOK, PlaceOK
<1>9. AnswerOK(s)
  BY <1>5, <1>6, <1>7, Zenon DEF RequestOK, AnswerOK
<1>10. PhaseOK(s)
  BY <1>3, <1>5, <1>7, Zenon DEF RequestOK, PhaseOK
<1>11. Io(s) /\ s.phase \notin Recovery => s.moved + s.left = s.size
  BY <1>3, <1>5, Zenon
<1> QED BY <1>4, <1>5, <1>8, <1>9, <1>10, <1>11, Zenon DEF Proceeds, RequestOK, s

LEMMA StepKeeps ==
  ASSUME QueueInv, NEW i \in Ids, NEW phase \in Phases, Step(i, phase), Waits(req[i]),
         active = i \/ Turn(i), req[i].kind \in Chains,
         Polite /\ Resizes(req[i]) => open[req[i].owner] = "open",
         open' = open, link' = link, task' = task
  PROVE  QueueInv'
<1>1. req[i].at = "slot" /\ ~Io(req[i]) /\ req[i].kind /= "CLOSE"
  <2>1. req[i].kind /= "READ" /\ req[i].kind /= "WRITE" /\ req[i].kind /= "CLOSE"
    BY DEF Chains
  <2>2. req[i].at /= "queued"
    BY <2>1, RequestFacts, Zenon DEF RequestOK, PlaceOK
  <2> QED BY <2>1, <2>2 DEF Waits, Io
<1>2. RequestOK(req[i])
  BY RequestFacts, Zenon
<1>3. Proceeds(req[i], [req[i] EXCEPT !.phase = phase])
  BY <1>1, <1>2, NewPhase, Zenon
<1>4. req[i].kind = "FLUSH" => Barred(i)
  <2>1. CASE active = i
    BY <2>1, PassingFacts, Zenon DEF Passing
  <2>2. CASE Turn(i)
    BY <2>2, TurnFacts, Zenon
  <2> QED BY <2>1, <2>2, Zenon
<1>5. Carries(i)
  BY <1>1, <1>4, Zenon DEF Carries, Step, Submit, Turn
<1>6. req' = [req EXCEPT ![i] = [req[i] EXCEPT !.phase = phase]]
  BY Zenon DEF Step
<1> QED BY <1>3, <1>5, <1>6, OneProceeds, Zenon

LEMMA PhaseNames ==
  {"stat", "commit", "open", "read", "mkdir", "apply", "abort", "work"} \subseteq Phases
BY DEF Phases, Recovery

LEMMA BeginSteps ==
  ASSUME NEW i \in Ids, Begin(i)
  PROVE  \E phase \in Phases : Step(i, phase)
<1>1. First(i) \in {"read", "open", "mkdir", "apply"}
  <2>1. CASE req[i].kind = "DIR"
    BY <2>1 DEF First
  <2>2. CASE req[i].kind = "CREATE"
    BY <2>2 DEF First
  <2>3. CASE req[i].kind \notin {"DIR", "CREATE"}
    BY <2>3 DEF First
  <2> QED BY <2>1, <2>2, <2>3, Zenon
<1>2. First(i) \in Phases /\ "commit" \in Phases
  BY <1>1, PhaseNames, Zenon
<1> QED BY <1>2, Zenon DEF Begin

LEMMA BeginKeeps ==
  ASSUME QueueInv, NEW i \in Ids, Begin(i), Waits(req[i]),
         active = i \/ Turn(i), req[i].kind \in Chains,
         Polite /\ Resizes(req[i]) => open[req[i].owner] = "open",
         open' = open, link' = link, task' = task
  PROVE  QueueInv'
BY BeginSteps, StepKeeps, Zenon

LEMMA HolderOpen ==
  ASSUME NEW i \in Ids, Resizes(req[i]) => Holder(i)
  PROVE  Polite /\ Resizes(req[i]) => open[req[i].owner] = "open"
<1>1. Resizes(req[i]) => req[i].kind \notin {"DIR", "CREATE"}
  BY DEF Resizes
<1> QED BY <1>1, Zenon DEF Holder, Valid

LEMMA StartChainKeeps ==
  ASSUME QueueInv, NEW i \in Ids, StartChain(i)
  PROVE  QueueInv'
<1>1. /\ Turn(i) /\ req[i].kind \in Chains /\ Holder(i) /\ link' = link /\ task' = task
      /\ \/ Step(i, "stat") /\ open' = open
         \/ Begin(i) /\ open' = open
         \/ /\ req[i].kind = "FLUSH" /\ bridge' = bridge
            /\ Ends(i, IF failed[req[i].owner] THEN "error" ELSE "ok", FALSE)
  BY Zenon DEF StartChain
<1>2. /\ Waits(req[i]) /\ active /= i
      /\ Polite /\ Resizes(req[i]) => open[req[i].owner] = "open"
  BY <1>1, TurnFacts, HolderOpen, Zenon
<1>3. CASE Step(i, "stat") /\ open' = open
  BY <1>1, <1>2, <1>3, StepKeeps, PhaseNames, Zenon
<1>4. CASE Begin(i) /\ open' = open
  BY <1>1, <1>2, <1>4, BeginKeeps, Zenon
<1>5. CASE /\ req[i].kind = "FLUSH" /\ bridge' = bridge
           /\ Ends(i, IF failed[req[i].owner] THEN "error" ELSE "ok", FALSE)
  <2>1. PICK answer \in {"ok", "error"} : Ends(i, answer, FALSE)
    BY <1>5, Zenon
  <2>2. req' = Out(req, {i}, answer) /\ Frees(i) /\ LetsGo(i)
    BY <1>2, <1>5, <2>1, Zenon DEF Ends, After, Frees, LetsGo
  <2>3. MayEnd(req[i], answer)
    BY <1>2, <1>5 DEF MayEnd, Io
  <2>4. Barred(i)
    BY <1>1, <1>5, TurnFacts, Zenon
  <2> QED BY <1>1, <2>2, <2>3, <2>4, OneEnds, Zenon
<1> QED BY <1>1, <1>3, <1>4, <1>5, Zenon

LEMMA TakesFacts ==
  ASSUME QueueInv, NEW i \in Ids, NEW phases, Takes(i, phases)
  PROVE  /\ active = i /\ Waits(req[i]) /\ req[i].kind \in Chains
         /\ Polite /\ Resizes(req[i]) => open[req[i].owner] = "open"
         /\ link' = link /\ task' = task
         /\ MayEnd(req[i], "ok")
<1>1. /\ active = i /\ req[i].kind \in Chains /\ link' = link /\ task' = task
      /\ Resizes(req[i]) => Holder(i)
  BY Zenon DEF Takes, Resizes
<1>2. Waits(req[i])
  BY <1>1, ActiveFacts, IdsFacts, Zenon
<1>3. MayEnd(req[i], "ok")
  BY <1>1, <1>2 DEF MayEnd, Io, Chains
<1> QED BY <1>1, <1>2, <1>3, HolderOpen, Zenon

LEMMA TakeChainKeeps ==
  ASSUME QueueInv, NEW i \in Ids,
         TakeCommit(i) \/ TakeAbort(i) \/ TakeStat(i) \/ TakeOpen(i) \/ TakeLast(i)
  PROVE  QueueInv'
<1>1. CASE TakeCommit(i)
  <2>1. /\ Takes(i, {"commit"})
        /\ \/ \E phase \in Phases : Step(i, phase) /\ open' = open
           \/ Abandon(i, NoOwner)
           \/ bridge' = Idle /\ Ends(i, "error", FALSE)
    BY <1>1, PhaseNames, Zenon DEF TakeCommit, FileClosed
  <2> QED BY <2>1, TakesFacts, StepKeeps, AbandonKeeps, EndsActive, Zenon
<1>2. CASE TakeAbort(i)
  <2>1. /\ \E phases : Takes(i, phases)
        /\ \/ \E marked : Abandon(i, marked)
           \/ bridge' = Idle /\ Ends(i, "error", FALSE)
    BY <1>2, Zenon DEF TakeAbort, FileClosed
  <2> QED BY <2>1, TakesFacts, AbandonKeeps, EndsActive, Zenon
<1>3. CASE TakeStat(i)
  <2>1. /\ Takes(i, {"stat"})
        /\ \/ bridge' = Idle /\ \E answer \in {"ok", "error"} : Ends(i, answer, FALSE)
           \/ Begin(i) /\ open' = open
    BY <1>3, Zenon DEF TakeStat
  <2> QED BY <2>1, TakesFacts, EndsActive, BeginKeeps, Zenon
<1>4. CASE TakeOpen(i)
  <2>1. /\ Takes(i, {"open"})
        /\ \/ Abandon(i, NoOwner)
           \/ bridge' = Idle /\ Ends(i, "error", FALSE)
           \/ \E phase \in Phases : Step(i, phase) /\ open' = open
           \/ bridge' = Idle /\ req' = Out(req, {i}, "error") /\ active' = 0 /\ Free({i})
    BY <1>4, PhaseNames, Zenon DEF TakeOpen
  <2>2. CASE Abandon(i, NoOwner)
    BY <2>1, <2>2, TakesFacts, AbandonKeeps, Zenon
  <2>3. CASE bridge' = Idle /\ Ends(i, "error", FALSE)
    BY <2>1, <2>3, TakesFacts, EndsActive, Zenon
  <2>4. CASE \E phase \in Phases : Step(i, phase) /\ open' = open
    BY <2>1, <2>4, TakesFacts, StepKeeps, Zenon
  <2>5. CASE bridge' = Idle /\ req' = Out(req, {i}, "error") /\ active' = 0 /\ Free({i})
    BY <2>1, <2>5, TakesFacts, ActiveFails, Zenon
  <2> QED BY <2>1, <2>2, <2>3, <2>4, <2>5, Zenon
<1>5. CASE TakeLast(i)
  <2>1. /\ Takes(i, {"read", "mkdir", "apply"})
        /\ \/ Abandon(i, NoOwner)
           \/ bridge' = Idle /\ \E answer \in {"ok", "error"} : Ends(i, answer, FALSE)
    BY <1>5, Zenon DEF TakeLast
  <2> QED BY <2>1, TakesFacts, AbandonKeeps, EndsActive, Zenon
<1> QED BY <1>1, <1>2, <1>3, <1>4, <1>5, Zenon

LEMMA ActiveCount ==
  ASSUME QueueInv, NEW i \in Ids, active = i, Io(req[i]), req[i].phase \notin Recovery, bridge.st = "ok"
  PROVE  req[i].moved + req[i].left = req[i].size + 1
<1>1. Waits(req[i])
  BY ActiveFacts, IdsFacts, Zenon
<1>2. bridge /= Idle
  BY DEF Idle
<1>3. bridge.for = i
  <2>1. "window" \in Recovery
    BY DEF Recovery
  <2> QED BY <1>2, <2>1, IdsFacts, Zenon DEF QueueInv, BridgeOK, Own, LeftBehind
<1>4. Credit(i) = 1
  BY <1>3 DEF Credit
<1>5. Counted(i)
  BY <1>1, Zenon DEF Counted
<1> QED BY <1>4, <1>5, Zenon DEF QueueInv, CountOK

LEMMA TakeReadKeeps ==
  ASSUME QueueInv, NEW i \in Ids, TakeRead(i)
  PROVE  QueueInv'
<1>1. /\ active = i /\ req[i].kind = "READ" /\ link' = link /\ task' = task
      /\ \/ bridge' = Idle /\ Ends(i, "error", TRUE)
         \/ Sound(i) /\ req[i].left = 1 /\ bridge' = Idle /\ Ends(i, "ok", FALSE)
         \/ /\ Sound(i) /\ req[i].left /= 1 /\ req' = [req EXCEPT ![i].left = @ - 1] /\ open' = open
            /\ \/ Submit(i) /\ active' = active
               \/ bridge' = Idle /\ active' = 0
  BY Zenon DEF TakeRead
<1>2. /\ RequestOK(req[i]) /\ Waits(req[i]) /\ req[i].at = "slot" /\ Io(req[i])
      /\ req[i].phase \notin Recovery /\ req[i].kind /= "WRITE" /\ req[i].kind /= "CLOSE"
      /\ req[i].kind /= "FLUSH" /\ ~Resizes(req[i])
  <2>1. /\ req[i].kind /= "WRITE" /\ req[i].kind /= "CLOSE" /\ req[i].kind /= "FLUSH"
        /\ ~Resizes(req[i]) /\ Io(req[i]) /\ "new" \notin Recovery
    BY <1>1 DEF Resizes, Io, Recovery
  <2>2. Waits(req[i]) /\ req[i].at = "slot" /\ RequestOK(req[i])
    BY <1>1, ActiveFacts, RequestFacts, IdsFacts, Zenon
  <2>3. req[i].phase = "new"
    BY <1>1, <2>2, Zenon DEF RequestOK, PhaseOK
  <2> QED BY <2>1, <2>2, <2>3
<1>3. Sound(i) => bridge.st = "ok" /\ req[i].live
  BY <1>2, Zenon DEF Sound
<1>4. CASE bridge' = Idle /\ Ends(i, "error", TRUE)
  BY <1>1, <1>4, EndsActive, Zenon
<1>5. CASE Sound(i) /\ req[i].left = 1 /\ bridge' = Idle /\ Ends(i, "ok", FALSE)
  <2>1. MayEnd(req[i], "ok")
    BY <1>1, <1>2, <1>3, <1>5, LastWindow, IdsFacts, Zenon
  <2> QED BY <1>1, <1>5, <2>1, EndsActive, Zenon
<1>6. CASE /\ Sound(i) /\ req[i].left /= 1 /\ req' = [req EXCEPT ![i].left = @ - 1] /\ open' = open
           /\ \/ Submit(i) /\ active' = active
              \/ bridge' = Idle /\ active' = 0
  <2>1. req[i].moved + req[i].left = req[i].size + 1
    BY <1>1, <1>2, <1>3, <1>6, ActiveCount, Zenon
  <2>2. Proceeds(req[i], [req[i] EXCEPT !.left = @ - 1])
    BY <1>2, <1>6, <2>1, OneLess, Zenon
  <2>3. req' = [req EXCEPT ![i] = [req[i] EXCEPT !.left = @ - 1]]
    BY <1>6, Zenon
  <2>4. Carries(i) \/ Yields(i)
    BY <1>1, <1>2, <1>3, <1>6, Zenon DEF Carries, Yields, Submit
  <2> QED BY <1>1, <1>6, <2>2, <2>3, <2>4, OneProceeds, Zenon
<1> QED BY <1>1, <1>4, <1>5, <1>6, Zenon

LEMMA ValidClientThere ==
  ASSUME QueueInv, NEW i \in Ids, Waits(req[i]), req[i].kind /= "WRITE", active /= i, open' = open
  PROVE  Frees(i)
BY ClientThere, Zenon DEF Frees

LEMMA StartReadKeeps ==
  ASSUME QueueInv, NEW i \in Ids, StartRead(i)
  PROVE  QueueInv'
<1>1. /\ Turn(i) /\ i \in InSlot("READ") /\ link' = link /\ task' = task /\ open' = open
      /\ \/ active' = i /\ Submit(i) /\ req' = req
         \/ req' = Out(req, {i}, "error") /\ active' = active /\ bridge' = bridge
  BY Zenon DEF StartRead
<1>2. /\ Waits(req[i]) /\ req[i].kind = "READ" /\ req[i].at = "slot" /\ active = 0 /\ bridge = Idle
      /\ active /= i
  BY <1>1, SlotFacts, TurnFacts, Zenon
<1>3. req[i].kind /= "WRITE" /\ req[i].kind /= "CLOSE" /\ req[i].kind /= "FLUSH" /\ ~Resizes(req[i])
  BY <1>2 DEF Resizes
<1>4. CASE active' = i /\ Submit(i) /\ req' = req
  <2>1. Proceeds(req[i], req[i])
    <3>1. Io(req[i]) /\ req[i].phase \notin Recovery => req[i].moved + req[i].left = req[i].size
      <4> SUFFICES ASSUME Io(req[i]), req[i].phase \notin Recovery
                   PROVE  req[i].moved + req[i].left = req[i].size
        OBVIOUS
      <4>1. Credit(i) = 0
        BY <1>2, CreditIsActive, Zenon
      <4>2. req[i].moved + req[i].left = req[i].size + Credit(i)
        BY <1>2, Zenon DEF QueueInv, CountOK, Counted
      <4>3. req[i].size \in Nat
        BY RequestFacts, QueueAssumption DEF Requests
      <4> QED BY <4>1, <4>2, <4>3
    <3> QED BY <1>2, <3>1, RequestFacts, Zenon DEF Proceeds
  <2>2. req' = [req EXCEPT ![i] = req[i]]
    BY <1>4, Zenon DEF QueueInv, RequestsOK
  <2>3. Carries(i)
    BY <1>2, <1>3, <1>4, Zenon DEF Carries, Submit
  <2> QED BY <1>1, <2>1, <2>2, <2>3, OneProceeds, Zenon
<1>5. CASE req' = Out(req, {i}, "error") /\ active' = active /\ bridge' = bridge
  BY <1>1, <1>2, <1>3, <1>5, ValidClientThere, WaitingFails, Zenon
<1> QED BY <1>1, <1>4, <1>5, Zenon

LEMMA RecoverKeeps ==
  ASSUME QueueInv, NEW i \in Ids, Recover(i)
  PROVE  QueueInv'
<1>1. /\ active = i /\ req[i].kind = "WRITE" /\ link' = link /\ task' = task
      /\ \/ /\ req[i].phase \in {"window", "submit"} /\ Submit(i) /\ active' = active /\ open' = open
            /\ req' = [req EXCEPT ![i].phase = "abort"]
         \/ bridge' = Idle /\ req' = Out(req, {i}, "error") /\ active' = 0 /\ Free({i})
  BY Zenon DEF Recover
<1>2. CASE /\ req[i].phase \in {"window", "submit"} /\ Submit(i) /\ active' = active /\ open' = open
           /\ req' = [req EXCEPT ![i].phase = "abort"]
  <2>1. /\ "abort" \in Recovery /\ req[i].phase \in Recovery /\ req[i].kind /= "CLOSE"
        /\ req[i].kind /= "FLUSH" /\ ~Resizes(req[i])
    BY <1>1, <1>2 DEF Recovery, Resizes
  <2>2. RequestOK(req[i]) /\ Waits(req[i]) /\ req[i].at = "slot"
    BY <1>1, ActiveFacts, RequestFacts, IdsFacts, Zenon
  <2>3. req[i].replied
    BY <1>1, <2>1, <2>2, Zenon DEF RequestOK, PhaseOK
  <2>4. Proceeds(req[i], [req[i] EXCEPT !.phase = "abort"])
    BY <1>1, <2>1, <2>2, <2>3, PhaseNames, NewPhase, Zenon
  <2>5. Carries(i)
    BY <1>1, <1>2, <2>1, Zenon DEF Carries, Submit
  <2>6. req' = [req EXCEPT ![i] = [req[i] EXCEPT !.phase = "abort"]]
    BY <1>2, Zenon
  <2> QED BY <1>1, <1>2, <2>4, <2>5, <2>6, OneProceeds, Zenon
<1>3. CASE bridge' = Idle /\ req' = Out(req, {i}, "error") /\ active' = 0 /\ Free({i})
  BY <1>1, <1>3, ActiveFails, Zenon
<1> QED BY <1>1, <1>2, <1>3, Zenon

(* Half of StartWrite: the file is open, the first window is submitted. *)
LEMMA StartWriteGoes ==
  ASSUME QueueInv, NEW i \in Ids, Turn(i), i \in InSlot("WRITE"), active' = i, Submit(i),
         req' = [req EXCEPT ![i].phase = "work"], open' = open, link' = link, task' = task
  PROVE  QueueInv'
<1>1. /\ Waits(req[i]) /\ req[i].kind = "WRITE" /\ req[i].at = "slot" /\ active = 0 /\ bridge = Idle
      /\ active /= i /\ RequestOK(req[i])
  BY SlotFacts, TurnFacts, RequestFacts, Zenon
<1>2. /\ "work" \notin Recovery /\ req[i].kind /= "CLOSE" /\ req[i].kind /= "FLUSH"
      /\ ~Resizes(req[i]) /\ Io(req[i])
  BY <1>1 DEF Recovery, Resizes, Io
<1>3. req[i].phase \notin Recovery
  BY <1>1, Zenon DEF QueueInv, RecoveryIsActive
<1>4. req[i].left >= 1 /\ req[i].moved + req[i].left = req[i].size
  <2>1. Credit(i) = 0
    BY <1>1, CreditIsActive, Zenon
  <2>2. req[i].moved + req[i].left = req[i].size + Credit(i)
    BY <1>1, <1>2, <1>3, Zenon DEF QueueInv, CountOK, Counted
  <2>3. req[i].size \in Nat
    BY RequestFacts, QueueAssumption DEF Requests
  <2>4. req[i].left >= 1
    BY <1>1, <1>2, <1>3, Zenon DEF RequestOK, PhaseOK
  <2> QED BY <2>1, <2>2, <2>3, <2>4
<1>5. Proceeds(req[i], [req[i] EXCEPT !.phase = "work"])
  BY <1>1, <1>2, <1>4, PhaseNames, NewPhase, Zenon
<1>6. Carries(i)
  BY <1>1, <1>2, Zenon DEF Carries, Submit
<1>7. req' = [req EXCEPT ![i] = [req[i] EXCEPT !.phase = "work"]]
  BY Zenon
<1> QED BY <1>5, <1>6, <1>7, OneProceeds, Zenon

(* TakeWrite but for the window that failed. *)
LEMMA TakeWriteGoes ==
  ASSUME QueueInv, NEW i \in Ids, active = i, req[i].kind = "WRITE", req[i].phase = "work",
         bridge' = Idle, link' = link, task' = task,
         \/ Ends(i, "error", TRUE)
         \/ Sound(i) /\ req[i].left = 1 /\ \E close \in BOOLEAN : Ends(i, "ok", close)
         \/ /\ Sound(i) /\ req[i].left /= 1 /\ req' = [req EXCEPT ![i].left = @ - 1]
            /\ active' = 0 /\ open' = open
  PROVE  QueueInv'
<1>1. RequestOK(req[i]) /\ Waits(req[i]) /\ req[i].at = "slot"
  BY ActiveFacts, RequestFacts, IdsFacts, Zenon
<1>2. Io(req[i]) /\ req[i].phase \notin Recovery
  BY DEF Io, Recovery
<1>3. CASE Ends(i, "error", TRUE)
  BY <1>3, EndsActive, Zenon
<1>4. CASE Sound(i) /\ req[i].left = 1 /\ \E close \in BOOLEAN : Ends(i, "ok", close)
  <2>1. MayEnd(req[i], "ok")
    BY <1>2, <1>4, LastWindow, IdsFacts, Zenon DEF Sound
  <2> QED BY <1>4, <2>1, EndsActive, Zenon
<1>5. CASE /\ Sound(i) /\ req[i].left /= 1 /\ req' = [req EXCEPT ![i].left = @ - 1]
           /\ active' = 0 /\ open' = open
  <2>1. req[i].moved + req[i].left = req[i].size + 1
    BY <1>2, <1>5, ActiveCount, Zenon DEF Sound
  <2>2. Proceeds(req[i], [req[i] EXCEPT !.left = @ - 1])
    BY <1>1, <1>2, <1>5, <2>1, OneLess, Zenon
  <2>3. req' = [req EXCEPT ![i] = [req[i] EXCEPT !.left = @ - 1]]
    BY <1>5, Zenon
  <2>4. req'[i].phase = req[i].phase
    <3>1. req \in [Ids -> Requests]
      BY Zenon DEF QueueInv, RequestsOK
    <3>2. [req[i] EXCEPT !.left = @ - 1].phase = req[i].phase
      BY RequestFacts DEF Requests
    <3> QED BY <2>3, <3>1, <3>2, Zenon
  <2>5. Yields(i)
    BY <1>2, <1>5, <2>4, Zenon DEF Yields
  <2> QED BY <1>5, <2>2, <2>3, <2>5, OneProceeds, Zenon
<1> QED BY <1>3, <1>4, <1>5, Zenon

-----------------------------------------------------------------------------
(* Steps that leave the bridge and the active request: marks on requests,   *)
(* and requests that end with an error while their clients are there.       *)

Gentle(r, s) ==
  \/ s = r
  \/ /\ Waits(r) /\ RequestOK(s) /\ Follows(r, s) /\ s.said /= <<"ok">>
     /\ Waits(s) => /\ s.moved = r.moved /\ s.left = r.left /\ s.size = r.size /\ s.phase = r.phase
                    /\ r.at = "slot" => s.at = "slot"

LEMMA Gently ==
  ASSUME QueueInv, req' \in [Ids -> Requests], \A i \in Ids : Gentle(req[i], req'[i]),
         active /= 0 => Waits(req'[active]), active' = active, bridge' = bridge, open' = open,
         link' = link, task' = task \/ TaskOK', Covers({})
  PROVE  QueueInv'
<1>1. ASSUME NEW i \in Ids
      PROVE  RequestOK(req'[i]) /\ Follows(req[i], req'[i])
  BY <1>1, RequestFacts, Zenon DEF Gentle, Follows
<1>2. Evolves
  BY <1>1, Zenon DEF Evolves
<1>3. active /= 0 => active \in Ids /\ req[active].at = "slot"
  BY ActiveFacts, Zenon
<1>4. KeepsBarriers
  <2> SUFFICES ASSUME NEW f \in Ids, Passing(f)' PROVE req[f].at /= "unsent" /\ Barred(f)
    BY Zenon DEF KeepsBarriers
  <2>1. req'[f].kind = req[f].kind
    BY <1>2, EvolvesFacts, Zenon
  <2>2. CASE active' = f /\ req'[f].kind = "FLUSH"
    BY <2>1, <2>2, PassingFacts, Zenon DEF Passing
  <2>3. CASE req'[f].kind \in {"FLUSH", "CLOSE"} /\ req'[f].said = <<"ok">>
    <3>1. req'[f] = req[f]
      BY <2>3, Zenon DEF Gentle
    <3> QED BY <2>3, <3>1, PassingFacts, Zenon DEF Passing
  <2> QED BY <2>2, <2>3, Zenon DEF Passing
<1>5. KeepsFlight
  BY Zenon DEF KeepsFlight
<1>6. KeepsFreed /\ OpenKept
  BY <1>2, SameKeeps, Zenon
<1>7. ASSUME active /= 0
      PROVE  /\ req'[active].at = "slot" /\ req'[active].kind = req[active].kind
             /\ req'[active].phase = req[active].phase /\ req'[active].owner = req[active].owner
  <2>1. Gentle(req[active], req'[active])
    BY <1>3, <1>7, Zenon
  <2>2. req'[active].kind = req[active].kind /\ req'[active].owner = req[active].owner
    BY <1>2, <1>3, <1>7, EvolvesFacts, Zenon
  <2>3. CASE req'[active] = req[active]
    BY <1>3, <1>7, <2>3, Zenon
  <2>4. CASE req'[active] /= req[active]
    BY <1>3, <1>7, <2>1, <2>2, <2>4, Zenon DEF Gentle
  <2> QED BY <2>2, <2>3, <2>4, Zenon
<1>8. KeepsValid
  <2> SUFFICES ASSUME Polite, active' /= 0, Resizes(req'[active'])
               PROVE  active' \in Ids /\ Waits(req'[active']) /\ open[req[active'].owner] = "open"
    BY Zenon DEF KeepsValid
  <2>1. Resizes(req[active]) /\ active /= 0
    BY <1>7, Zenon DEF Resizes
  <2> QED BY <1>3, <2>1, Zenon DEF QueueInv, ValidOK
<1>9. ActiveOK'
  <2>1. active' \in Ids \cup {0}
    BY <1>3, Zenon
  <2>2. active' /= 0 => req'[active'].at = "slot" /\ req'[active'].kind /= "CLOSE"
    BY <1>7, ActiveFacts, Zenon
  <2>3. active' /= 0 /\ bridge' = Idle => req'[active'].kind = "WRITE" /\ req'[active'].phase = "submit"
    BY <1>7, Zenon DEF QueueInv, ActiveOK
  <2> QED BY <2>1, <2>2, <2>3, Zenon DEF ActiveOK, Ids, Idle
<1>10. BridgeOK'
  <2>1. /\ bridge' \in [st : {"idle", "busy", "ok", "bad"}, for : Ids \cup {0}]
        /\ bridge'.st = "idle" => bridge' = Idle
    BY Zenon DEF QueueInv, BridgeOK
  <2>2. Own => Own'
    BY Zenon DEF Own
  <2>3. bridge /= Idle /\ LeftBehind => LeftBehind'
    <3> SUFFICES ASSUME LeftBehind PROVE LeftBehind'
      OBVIOUS
    <3>1. bridge.for \in Ids /\ req[bridge.for].at = "done"
      BY Zenon DEF LeftBehind
    <3>2. ~Waits(req[bridge.for])
      BY <3>1 DEF Waits
    <3>3. req'[bridge.for] = req[bridge.for]
      BY <3>1, <3>2, Zenon DEF Gentle
    <3> QED BY <1>7, <3>3, Zenon DEF LeftBehind, Ids
  <2>4. bridge /= Idle => Own \/ LeftBehind
    BY Zenon DEF QueueInv, BridgeOK
  <2> QED BY <2>1, <2>2, <2>3, <2>4, Zenon DEF BridgeOK, Ids, Idle
<1>11. RecoveryIsActive'
  <2> SUFFICES ASSUME NEW j \in Ids, Waits(req'[j]), req'[j].kind = "WRITE", req'[j].phase \in Recovery
               PROVE  active' = j
    BY Zenon DEF RecoveryIsActive, Ids, Recovery
  <2>1. Waits(req[j]) /\ req[j].kind = "WRITE" /\ req[j].phase \in Recovery
    BY <1>2, EvolvesFacts, Zenon DEF Gentle
  <2> QED BY <2>1, Zenon DEF QueueInv, RecoveryIsActive
<1>12. CountOK'
  <2> SUFFICES ASSUME NEW j \in Ids, Counted(j)'
               PROVE  req'[j].moved + req'[j].left = req'[j].size + Credit(j)'
    BY Zenon DEF CountOK, Ids
  <2>1. Waits(req'[j]) /\ Io(req'[j]) /\ req'[j].phase \notin Recovery
    BY Zenon DEF Counted
  <2>2. /\ req'[j].moved = req[j].moved /\ req'[j].left = req[j].left /\ req'[j].size = req[j].size
        /\ req'[j].phase = req[j].phase
    BY <2>1, Zenon DEF Gentle
  <2>3. Counted(j)
    BY <1>2, <2>1, <2>2, EvolvesFacts, Zenon DEF Counted, Io
  <2>4. Credit(j)' = Credit(j)
    BY Zenon DEF Credit
  <2> QED BY <2>2, <2>3, <2>4, Zenon DEF QueueInv, CountOK
<1>13. CardOK'
  BY <1>9, <1>10, <1>11, <1>12, Zenon DEF CardOK
<1> QED BY <1>2, <1>4, <1>5, <1>6, <1>8, <1>13, Onward, Zenon

LEMMA GentleByFields ==
  ASSUME NEW r, NEW s, RequestOK(r), Waits(r), s \in Requests,
         s.at = r.at \/ s.at = "slot", s.kind = r.kind, s.owner = r.owner, s.size = r.size,
         s.left = r.left, s.moved = r.moved, s.phase = r.phase,
         s.live => r.live /\ (s.replied <=> r.replied) /\ s.said = r.said,
         r.cancel => s.cancel, r.replied => s.replied, s.said \in {r.said, <<"error">>}
  PROVE  Gentle(r, s) /\ Waits(s)
<1>1. Waits(s) /\ s.at /= "unsent" /\ s.at /= "done" /\ r.at /= "done" /\ r.at /= "unsent"
      /\ s.at \in {"queued", "slot", "done"} /\ "queued" /= "slot"
  BY DEF Waits
<1>2. <<"error">> /= <<"ok">>
  OBVIOUS
<1>3. s.said /= <<"ok">>
  BY <1>2, Zenon DEF RequestOK, AnswerOK
<1>4. PlaceOK(s)
  BY <1>1, Zenon DEF RequestOK, PlaceOK
<1>5. AnswerOK(s)
  BY <1>1, <1>3, Zenon DEF RequestOK, AnswerOK
<1>6. PhaseOK(s)
  BY <1>1, Zenon DEF RequestOK, PhaseOK, Io
<1>7. Follows(r, s)
  BY <1>1, Zenon DEF Follows, Settled
<1> QED BY <1>1, <1>3, <1>4, <1>5, <1>6, <1>7, Zenon DEF Gentle, RequestOK

LEMMA CancelMarks ==
  ASSUME NEW r, RequestOK(r), Waits(r)
  PROVE  Gentle(r, [r EXCEPT !.cancel = TRUE]) /\ Waits([r EXCEPT !.cancel = TRUE])
<1> DEFINE s == [r EXCEPT !.cancel = TRUE]
<1>1. r \in Requests
  BY Zenon DEF RequestOK
<1>2. s \in Requests
  BY <1>1, Zenon DEF Requests
<1>3. /\ s.at = r.at /\ s.kind = r.kind /\ s.owner = r.owner /\ s.size = r.size /\ s.left = r.left
      /\ s.moved = r.moved /\ s.cancel = TRUE /\ s.live = r.live /\ s.replied = r.replied
      /\ s.said = r.said /\ s.phase = r.phase
  BY <1>1 DEF Requests
<1> HIDE DEF s
<1>4. s.said \in {r.said, <<"error">>}
  BY <1>3, Zenon
<1>5. s.live => r.live /\ (s.replied <=> r.replied) /\ s.said = r.said
  BY <1>3, Zenon
<1>6. (r.cancel => s.cancel) /\ (r.replied => s.replied)
  BY <1>3, Zenon
<1>7. Gentle(r, s) /\ Waits(s)
  BY <1>2, <1>3, <1>4, <1>5, <1>6, GentleByFields, Zenon
<1> QED BY <1>7, Zenon DEF s

LEMMA SlotTaken ==
  ASSUME NEW r, RequestOK(r), Waits(r)
  PROVE  Gentle(r, [r EXCEPT !.at = "slot"]) /\ Waits([r EXCEPT !.at = "slot"])
<1> DEFINE s == [r EXCEPT !.at = "slot"]
<1>1. r \in Requests
  BY Zenon DEF RequestOK
<1>2. s \in Requests
  BY <1>1, Zenon DEF Requests
<1>3. /\ s.at = "slot" /\ s.kind = r.kind /\ s.owner = r.owner /\ s.size = r.size /\ s.left = r.left
      /\ s.moved = r.moved /\ s.cancel = r.cancel /\ s.live = r.live /\ s.replied = r.replied
      /\ s.said = r.said /\ s.phase = r.phase
  BY <1>1 DEF Requests
<1> HIDE DEF s
<1>4. s.said \in {r.said, <<"error">>}
  BY <1>3, Zenon
<1>5. s.live => r.live /\ (s.replied <=> r.replied) /\ s.said = r.said
  BY <1>3, Zenon
<1>6. (r.cancel => s.cancel) /\ (r.replied => s.replied)
  BY <1>3, Zenon
<1>7. Gentle(r, s) /\ Waits(s)
  BY <1>2, <1>3, <1>4, <1>5, <1>6, GentleByFields, Zenon
<1> QED BY <1>7, Zenon DEF s

(* Deaf() makes this of a request. *)
Deafened(r) ==
  [r EXCEPT !.live = FALSE, !.replied = TRUE,
            !.said = IF r.live /\ ~r.replied THEN Append(@, "error") ELSE @]

LEMMA ErrorSaid ==
  ASSUME NEW r, RequestOK(r), Waits(r)
  PROVE  (IF r.live /\ ~r.replied THEN Append(r.said, "error") ELSE r.said)
           \in Said \cap {r.said, <<"error">>}
<1>1. r \in Requests
  BY Zenon DEF RequestOK
<1>2. r.said \in Said
  BY <1>1, Zenon DEF Requests
<1>3. CASE r.live /\ ~r.replied
  <2>1. r.said = <<>>
    BY <1>2, <1>3, Zenon DEF RequestOK, AnswerOK, Said
  <2>2. Append(<<>>, "error") = <<"error">> /\ <<"error">> \in Said
    BY DEF Said
  <2> QED BY <1>3, <2>1, <2>2, Zenon
<1>4. CASE ~(r.live /\ ~r.replied)
  BY <1>2, <1>4, Zenon
<1> QED BY <1>3, <1>4, Zenon

LEMMA DeafenedGently ==
  ASSUME NEW r, RequestOK(r), Waits(r)
  PROVE  /\ Gentle(r, Deafened(r)) /\ Waits(Deafened(r))
         /\ Gentle(r, Deafened([r EXCEPT !.cancel = TRUE]))
         /\ Waits(Deafened([r EXCEPT !.cancel = TRUE]))
<1> DEFINE told(x) == IF x.live /\ ~x.replied THEN Append(x.said, "error") ELSE x.said
<1>1. r \in Requests
  BY Zenon DEF RequestOK
<1>2. ASSUME NEW x, x \in Requests, RequestOK(x), Waits(x),
             x.at = r.at, x.kind = r.kind, x.owner = r.owner, x.size = r.size, x.left = r.left,
             x.moved = r.moved, r.cancel => x.cancel, x.phase = r.phase, x.said = r.said
      PROVE  Gentle(r, Deafened(x)) /\ Waits(Deafened(x))
  <2> DEFINE s == [x EXCEPT !.live = FALSE, !.replied = TRUE, !.said = told(x)]
  <2>1. told(x) \in Said \cap {x.said, <<"error">>}
    BY <1>2, ErrorSaid, Zenon
  <2>2. s \in Requests
    <3> HIDE DEF told
    <3> QED BY <1>2, <2>1, Zenon DEF Requests
  <2>3. /\ s.at = x.at /\ s.kind = x.kind /\ s.owner = x.owner /\ s.size = x.size /\ s.left = x.left
        /\ s.moved = x.moved /\ s.cancel = x.cancel /\ s.live = FALSE /\ s.replied = TRUE
        /\ s.said = told(x) /\ s.phase = x.phase
    BY <1>2 DEF Requests
  <2>4. s = Deafened(x)
    BY Zenon DEF Deafened
  <2> HIDE DEF s, told
  <2>5. s.said \in {r.said, <<"error">>}
    BY <1>2, <2>1, <2>3, Zenon
  <2>6. s.live => r.live /\ (s.replied <=> r.replied) /\ s.said = r.said
    BY <2>3, Zenon
  <2>7. (r.cancel => s.cancel) /\ (r.replied => s.replied)
    BY <1>2, <2>3, Zenon
  <2>8. Gentle(r, s) /\ Waits(s)
    BY <1>2, <2>2, <2>3, <2>5, <2>6, <2>7, GentleByFields, Zenon
  <2> QED BY <2>4, <2>8, Zenon
<1>3. Gentle(r, Deafened(r)) /\ Waits(Deafened(r))
  BY <1>1, <1>2, Zenon
<1>4. Gentle(r, Deafened([r EXCEPT !.cancel = TRUE])) /\ Waits(Deafened([r EXCEPT !.cancel = TRUE]))
  <2> DEFINE x == [r EXCEPT !.cancel = TRUE]
  <2>1. /\ x.at = r.at /\ x.kind = r.kind /\ x.owner = r.owner /\ x.size = r.size /\ x.left = r.left
        /\ x.moved = r.moved /\ x.cancel = TRUE /\ x.phase = r.phase /\ x.said = r.said
    BY <1>1 DEF Requests
  <2>2. Gentle(r, x) /\ Waits(x)
    BY CancelMarks, Zenon
  <2>3. RequestOK(x)
    BY <2>2, Zenon DEF Gentle
  <2>4. x \in Requests
    BY <2>3, Zenon DEF RequestOK
  <2> HIDE DEF x
  <2>5. r.cancel => x.cancel
    BY <2>1, Zenon
  <2>6. Gentle(r, Deafened(x)) /\ Waits(Deafened(x))
    BY <1>2, <2>1, <2>2, <2>3, <2>4, <2>5, Zenon
  <2> QED BY <2>6, Zenon DEF x
<1> QED BY <1>3, <1>4, Zenon

LEMMA FailsGently ==
  ASSUME NEW r, RequestOK(r), Waits(r)
  PROVE  Gentle(r, Ended(r, "error")) /\ ~Waits(Ended(r, "error"))
<1>1. MayEnd(r, "error") /\ "error" /= "ok"
  BY DEF MayEnd
<1>2. EndsWell(r, Ended(r, "error"), "error")
  BY <1>1, EndedOK, Zenon
<1> QED BY <1>1, <1>2, Zenon DEF EndsWell, Gentle

LEMMA GentlyTyped ==
  ASSUME QueueInv, req' = [i \in Ids |-> req'[i]], \A i \in Ids : Gentle(req[i], req'[i])
  PROVE  req' \in [Ids -> Requests]
<1>1. \A i \in Ids : req'[i] \in Requests
  BY RequestFacts, Zenon DEF Gentle, RequestOK
<1> QED BY <1>1, Zenon

(* Every change is one of those above; what ends has its client there. *)
LEMMA GentleStep ==
  ASSUME QueueInv, req' = [i \in Ids |-> req'[i]],
         \A i \in Ids : \/ req'[i] = req[i]
                        \/ Gentle(req[i], req'[i]) /\ Waits(req'[i])
                        \/ /\ Waits(req[i]) /\ req'[i] = Ended(req[i], "error")
                           /\ active /= i /\ link[req[i].owner] = "up",
         active' = active, bridge' = bridge, open' = open, link' = link, task' = task \/ TaskOK'
  PROVE  QueueInv'
<1>1. \A i \in Ids : Gentle(req[i], req'[i])
  BY RequestFacts, FailsGently, Zenon DEF Gentle
<1>2. req' \in [Ids -> Requests]
  BY <1>1, GentlyTyped, Zenon
<1>3. active /= 0 => Waits(req'[active])
  BY ActiveFacts, Zenon
<1>4. Covers({})
  BY Zenon DEF Covers
<1> QED BY <1>1, <1>2, <1>3, <1>4, Gently, Zenon

LEMMA OutFields ==
  ASSUME NEW r, NEW S, NEW answer, NEW i \in Ids
  PROVE  Out(r, S, answer)[i] = IF i \in S THEN Ended(r[i], answer) ELSE r[i]
BY Zenon DEF Out, Ended

LEMMA OutIsFunction ==
  ASSUME NEW r, NEW S, NEW answer
  PROVE  Out(r, S, answer) = [i \in Ids |-> Out(r, S, answer)[i]]
BY Zenon DEF Out

LEMMA PutFields ==
  ASSUME QueueInv, NEW i \in Ids, NEW s, req' = [req EXCEPT ![i] = s]
  PROVE  /\ req' = [j \in Ids |-> req'[j]]
         /\ req'[i] = s /\ \A j \in Ids : j /= i => req'[j] = req[j]
BY Zenon DEF QueueInv, RequestsOK

LEMMA QueuedFacts ==
  ASSUME QueueInv, NEW i \in Queued
  PROVE  /\ i \in Ids /\ Waits(req[i]) /\ req[i].kind = "READ" /\ active /= i
         /\ link[req[i].owner] = "up"
<1>1. i \in Ids /\ i \in Pending /\ req[i].at = "queued"
  BY Zenon DEF Queued, Pending
<1>2. Waits(req[i]) /\ req[i].kind = "READ"
  BY <1>1, RequestFacts, PendingFacts, Zenon DEF RequestOK, PlaceOK
<1>3. "queued" /= "slot" /\ "READ" /= "WRITE"
  OBVIOUS
<1>4. active /= i
  BY <1>1, <1>3, ActiveFacts, IdsFacts, Zenon
<1> QED BY <1>1, <1>2, <1>3, <1>4, ClientThere, Zenon

LEMMA PromoteKeeps ==
  ASSUME QueueInv, NEW i \in Ids, Promote(i)
  PROVE  QueueInv'
<1>1. /\ i = Least(Queued) /\ active' = active /\ bridge' = bridge /\ open' = open /\ link' = link
      /\ task' = task
      /\ req' = [req EXCEPT ![i].at = "slot"] \/ req' = Out(req, {i}, "error")
  BY Zenon DEF Promote
<1>2. i \in Queued
  <2>1. Queued \subseteq Ids
    BY Zenon DEF Queued, Pending
  <2> QED BY <1>1, <2>1, LeastFacts, Zenon
<1>3. RequestOK(req[i]) /\ Waits(req[i])
  BY <1>2, QueuedFacts, RequestFacts, Zenon
<1>4. CASE req' = [req EXCEPT ![i].at = "slot"]
  <2>1. req' = [req EXCEPT ![i] = [req[i] EXCEPT !.at = "slot"]]
    BY <1>4, Zenon
  <2>2. /\ req' = [j \in Ids |-> req'[j]] /\ req'[i] = [req[i] EXCEPT !.at = "slot"]
        /\ \A j \in Ids : j /= i => req'[j] = req[j]
    BY <2>1, PutFields, Zenon
  <2>3. Gentle(req[i], req'[i]) /\ Waits(req'[i])
    BY <1>3, <2>2, SlotTaken, Zenon
  <2> QED BY <1>1, <2>2, <2>3, GentleStep, Zenon
<1>5. CASE req' = Out(req, {i}, "error")
  <2>1. Frees(i)
    BY <1>1, <1>2, QueuedFacts, Zenon DEF Frees
  <2> QED BY <1>1, <1>2, <1>5, <2>1, QueuedFacts, WaitingFails, Zenon
<1> QED BY <1>1, <1>4, <1>5, Zenon

LEMMA CancelKeeps ==
  ASSUME QueueInv, NEW i \in Ids, Cancel(i)
  PROVE  QueueInv'
<1>1. /\ i \in Pending /\ active' = active /\ bridge' = bridge /\ open' = open /\ link' = link
      /\ task' = task
      /\ \/ i \in Queued /\ req' = Out(req, {i}, "error")
         \/ req' = [req EXCEPT ![i].cancel = TRUE]
  BY Zenon DEF Cancel
<1>2. RequestOK(req[i]) /\ Waits(req[i])
  BY <1>1, PendingFacts, RequestFacts, Zenon
<1>3. CASE req' = [req EXCEPT ![i].cancel = TRUE]
  <2>1. req' = [req EXCEPT ![i] = [req[i] EXCEPT !.cancel = TRUE]]
    BY <1>3, Zenon
  <2>2. /\ req' = [j \in Ids |-> req'[j]] /\ req'[i] = [req[i] EXCEPT !.cancel = TRUE]
        /\ \A j \in Ids : j /= i => req'[j] = req[j]
    BY <2>1, PutFields, Zenon
  <2>3. Gentle(req[i], req'[i]) /\ Waits(req'[i])
    BY <1>2, <2>2, CancelMarks, Zenon
  <2> QED BY <1>1, <2>2, <2>3, GentleStep, Zenon
<1>4. CASE i \in Queued /\ req' = Out(req, {i}, "error")
  <2>1. Frees(i)
    BY <1>1, <1>4, QueuedFacts, Zenon DEF Frees
  <2> QED BY <1>1, <1>4, <2>1, QueuedFacts, WaitingFails, Zenon
<1> QED BY <1>1, <1>3, <1>4, Zenon

LEMMA DirectoryTimeOutKeeps ==
  ASSUME QueueInv, DirectoryTimeOut
  PROVE  QueueInv'
<1> DEFINE r == Out(req, Of("DIR") \ {active}, "error")
<1>1. /\ ActiveKind = "DIR" /\ active' = active /\ bridge' = bridge /\ open' = open /\ link' = link
      /\ task' = task /\ req' = Deaf(r, active)
  BY Zenon DEF DirectoryTimeOut
<1>2. active /= 0 /\ active \in Ids /\ Waits(req[active])
  <2>1. active /= 0
    BY <1>1 DEF ActiveKind
  <2> QED BY <2>1, ActiveFacts, Zenon
<1>3. r = [i \in Ids |-> r[i]]
  BY OutIsFunction, Zenon
<1>4. /\ req' = [i \in Ids |-> req'[i]]
      /\ req'[active] = Deafened(r[active]) /\ \A i \in Ids : i /= active => req'[i] = r[i]
  <2>1. req' = [r EXCEPT ![active] = Deafened(r[active])]
    <3> HIDE DEF r
    <3> QED BY <1>1, Zenon DEF Deaf, Deafened
  <2> HIDE DEF r
  <2> QED BY <1>2, <1>3, <2>1, Zenon
<1>5. \A i \in Ids : r[i] = IF i \in Of("DIR") \ {active} THEN Ended(req[i], "error") ELSE req[i]
  BY Zenon DEF Out, Ended
<1> HIDE DEF r
<1>6. r[active] = req[active]
  BY <1>2, <1>5, Zenon
<1>7. Gentle(req[active], req'[active]) /\ Waits(req'[active])
  BY <1>2, <1>4, <1>6, DeafenedGently, RequestFacts, Zenon
<1>8. ASSUME NEW i \in Ids, i /= active
      PROVE  \/ req'[i] = req[i]
             \/ Waits(req[i]) /\ req'[i] = Ended(req[i], "error") /\ link[req[i].owner] = "up"
  <2>1. CASE i \in Of("DIR")
    <3>1. Waits(req[i]) /\ req[i].kind = "DIR"
      BY <2>1, PendingFacts, Zenon DEF Of
    <3>2. req[i].kind /= "WRITE"
      BY <3>1
    <3> QED BY <1>4, <1>5, <1>8, <2>1, <3>1, <3>2, ClientThere, Zenon
  <2>2. CASE i \notin Of("DIR")
    BY <1>4, <1>5, <1>8, <2>2, Zenon
  <2> QED BY <2>1, <2>2, Zenon
<1> QED BY <1>1, <1>4, <1>7, <1>8, GentleStep, Zenon

LEMMA CreateTimeOutKeeps ==
  ASSUME QueueInv, CreateTimeOut
  PROVE  QueueInv'
<1>1. /\ ActiveKind = "CREATE" /\ active' = active /\ bridge' = bridge /\ open' = open /\ link' = link
      /\ task' = task /\ req' = Deaf([req EXCEPT ![active].cancel = TRUE], active)
  BY Zenon DEF CreateTimeOut
<1>2. active \in Ids /\ Waits(req[active])
  <2>1. active /= 0
    BY <1>1 DEF ActiveKind
  <2> QED BY <2>1, ActiveFacts, Zenon
<1>3. req' = [req EXCEPT ![active] = Deafened([req[active] EXCEPT !.cancel = TRUE])]
  <2>1. [req EXCEPT ![active].cancel = TRUE][active] = [req[active] EXCEPT !.cancel = TRUE]
    BY <1>2, Zenon DEF QueueInv, RequestsOK
  <2>2. req' = [[req EXCEPT ![active].cancel = TRUE] EXCEPT
                  ![active] = Deafened([req EXCEPT ![active].cancel = TRUE][active])]
    BY <1>1, Zenon DEF Deaf, Deafened
  <2> QED BY <1>2, <2>1, <2>2 DEF QueueInv, RequestsOK
<1>4. /\ req' = [j \in Ids |-> req'[j]]
      /\ req'[active] = Deafened([req[active] EXCEPT !.cancel = TRUE])
      /\ \A j \in Ids : j /= active => req'[j] = req[j]
  BY <1>2, <1>3, PutFields, Zenon
<1>5. Gentle(req[active], req'[active]) /\ Waits(req'[active])
  BY <1>2, <1>4, DeafenedGently, RequestFacts, Zenon
<1> QED BY <1>1, <1>4, <1>5, GentleStep, Zenon

(* Half of ReadTimeOut: the bridge does not give the exchange back. *)
LEMMA ReadsCancelled ==
  ASSUME QueueInv,
         req' = Out([i \in Ids |-> IF i \in InSlot("READ") THEN [req[i] EXCEPT !.cancel = TRUE]
                                   ELSE req[i]], Queued, "error"),
         active' = active, bridge' = bridge, open' = open, link' = link, task' = task
  PROVE  QueueInv'
<1> DEFINE r == [i \in Ids |-> IF i \in InSlot("READ") THEN [req[i] EXCEPT !.cancel = TRUE] ELSE req[i]]
<1>1. ASSUME NEW i \in Ids
      PROVE  req'[i] = IF i \in Queued THEN Ended(r[i], "error") ELSE r[i]
  BY <1>1, Zenon DEF Out, Ended
<1>2. req' = [i \in Ids |-> req'[i]]
  BY Zenon DEF Out
<1>3. ASSUME NEW i \in Ids
      PROVE  \/ req'[i] = req[i]
             \/ Gentle(req[i], req'[i]) /\ Waits(req'[i])
             \/ /\ Waits(req[i]) /\ req'[i] = Ended(req[i], "error")
                /\ active /= i /\ link[req[i].owner] = "up"
  <2>1. CASE i \in Queued
    <3>1. i \notin InSlot("READ")
      BY <2>1, Zenon DEF InSlot
    <3>2. req'[i] = Ended(req[i], "error")
      BY <1>1, <2>1, <3>1, Zenon
    <3> QED BY <2>1, <3>2, QueuedFacts, Zenon
  <2>2. CASE i \notin Queued /\ i \in InSlot("READ")
    <3>1. req'[i] = [req[i] EXCEPT !.cancel = TRUE]
      BY <1>1, <2>2, Zenon
    <3>2. Waits(req[i]) /\ RequestOK(req[i])
      BY <2>2, SlotFacts, RequestFacts, Zenon
    <3>3. Gentle(req[i], req'[i]) /\ Waits(req'[i])
      BY <3>1, <3>2, CancelMarks, Zenon
    <3> QED BY <3>3, Zenon
  <2>3. CASE i \notin Queued /\ i \notin InSlot("READ")
    BY <1>1, <2>3, Zenon
  <2> QED BY <2>1, <2>2, <2>3, Zenon
<1> QED BY <1>2, <1>3, GentleStep, Zenon

LEMMA TreeDisconnectKeeps ==
  ASSUME QueueInv, NEW o \in Owners, TreeDisconnect(o)
  PROVE  QueueInv'
<1> DEFINE mine(i) == req[i].owner = o /\ req[i].kind = "READ" /\ Valid(i)
<1> DEFINE r == Out(req, {i \in Queued : mine(i)}, "error")
<1>1. /\ active' = active /\ bridge' = bridge /\ open' = open /\ link' = link
      /\ task' = [phase |-> "reads", owner |-> o]
      /\ Polite => ~Outstanding(o, {"FLUSH", "SETEOF"})
      /\ req' = [i \in Ids |-> IF mine(i) /\ r[i].at = "slot" THEN [r[i] EXCEPT !.cancel = TRUE]
                               ELSE r[i]]
  BY Zenon DEF TreeDisconnect
<1>2. ASSUME NEW i \in Ids
      PROVE  /\ r[i] = IF i \in Queued /\ mine(i) THEN Ended(req[i], "error") ELSE req[i]
             /\ req'[i] = IF mine(i) /\ r[i].at = "slot" THEN [r[i] EXCEPT !.cancel = TRUE] ELSE r[i]
  <2>1. r[i] = IF i \in Queued /\ mine(i) THEN Ended(req[i], "error") ELSE req[i]
    <3> HIDE DEF mine
    <3> QED BY <1>2, Zenon DEF Out, Ended
  <2>2. req'[i] = IF mine(i) /\ r[i].at = "slot" THEN [r[i] EXCEPT !.cancel = TRUE] ELSE r[i]
    <3> HIDE DEF mine, r
    <3> QED BY <1>1, <1>2, Zenon
  <2> QED BY <2>1, <2>2, Zenon
<1>3. req' = [i \in Ids |-> req'[i]]
  <2> HIDE DEF mine, r
  <2> QED BY <1>1, Zenon
<1> HIDE DEF mine, r
<1>4. ASSUME NEW i \in Ids
      PROVE  \/ req'[i] = req[i]
             \/ Gentle(req[i], req'[i]) /\ Waits(req'[i])
             \/ /\ Waits(req[i]) /\ req'[i] = Ended(req[i], "error")
                /\ active /= i /\ link[req[i].owner] = "up"
  <2>1. CASE i \in Queued /\ mine(i)
    <3>1. RequestOK(req[i]) /\ Waits(req[i])
      BY <2>1, QueuedFacts, RequestFacts, Zenon
    <3>2. ~Waits(r[i])
      BY <1>2, <2>1, <3>1, FailsGently, Zenon
    <3>3. r[i].at /= "slot"
      BY <3>2 DEF Waits
    <3> QED BY <1>2, <2>1, <3>3, QueuedFacts, Zenon
  <2>2. CASE ~(i \in Queued /\ mine(i))
    <3>1. r[i] = req[i]
      BY <1>2, <2>2, Zenon
    <3>2. CASE mine(i) /\ req[i].at = "slot"
      <4>1. Waits(req[i]) /\ RequestOK(req[i])
        BY <3>2, RequestFacts DEF Waits
      <4> QED BY <1>2, <3>1, <3>2, <4>1, CancelMarks, Zenon
    <3>3. CASE ~(mine(i) /\ req[i].at = "slot")
      BY <1>2, <3>1, <3>3, Zenon
    <3> QED BY <3>2, <3>3, Zenon
  <2> QED BY <2>1, <2>2, Zenon
<1>5. TaskOK'
  <2>1. task' \in [phase : {"loop", "reads", "writes"}, owner : Owners \cup {NoOwner}] /\ task'.owner = o
    BY <1>1
  <2>2. ASSUME Polite, NEW i \in Ids, Waits(req'[i]), Resizes(req'[i])
        PROVE  req'[i].owner /= o
    <3>1. Waits(req[i]) /\ req'[i].kind = req[i].kind /\ req'[i].owner = req[i].owner
      <4>1. RequestOK(req[i])
        BY RequestFacts, Zenon
      <4>2. Follows(req[i], req'[i])
        BY <1>4, <2>2, <4>1, FailsGently, Zenon DEF Gentle, Follows
      <4> QED BY <2>2, <4>1, <4>2, FollowsFacts, Zenon
    <3>2. i \in Pending /\ req[i].kind \in {"FLUSH", "SETEOF"}
      BY <2>2, <3>1, PendingFacts, Zenon DEF Resizes
    <3> QED BY <1>1, <2>2, <3>1, <3>2, Zenon DEF Outstanding
  <2> QED BY <2>1, <2>2, Zenon DEF TaskOK, Resizes, Ids, Loop
<1> QED BY <1>1, <1>3, <1>4, <1>5, GentleStep, Zenon

-----------------------------------------------------------------------------
(* Core 1 answers.                                                         *)

LEMMA OneMoved ==
  ASSUME NEW r, RequestOK(r), Waits(r)
  PROVE  LET s == [r EXCEPT !.moved = @ + 1] IN
         /\ RequestOK(s) /\ Follows(r, s) /\ Waits(s)
         /\ s.at = r.at /\ s.kind = r.kind /\ s.owner = r.owner /\ s.size = r.size /\ s.left = r.left
         /\ s.phase = r.phase /\ s.moved = r.moved + 1 /\ s.said = r.said
<1> DEFINE s == [r EXCEPT !.moved = r.moved + 1]
<1>1. r \in Requests
  BY Zenon DEF RequestOK
<1>2. r.moved \in Nat
  BY <1>1, Zenon DEF Requests
<1>3. r.moved + 1 \in Nat
  BY <1>2
<1>4. s \in Requests
  BY <1>1, <1>3, Zenon DEF Requests
<1>5. /\ s.at = r.at /\ s.kind = r.kind /\ s.owner = r.owner /\ s.size = r.size /\ s.left = r.left
      /\ s.moved = r.moved + 1 /\ s.cancel = r.cancel /\ s.live = r.live /\ s.replied = r.replied
      /\ s.said = r.said /\ s.phase = r.phase
  BY <1>1 DEF Requests
<1>6. r.at /= "unsent" /\ r.at /= "done" /\ r.at \in {"queued", "slot", "done"}
  BY DEF Waits
<1> HIDE DEF s
<1>7. Waits(s) /\ (Io(s) <=> Io(r))
  BY <1>5, Zenon DEF Waits, Io
<1>8. PlaceOK(s) /\ AnswerOK(s) /\ PhaseOK(s)
  <2>1. PlaceOK(s)
    BY <1>5, <1>6, <1>7, Zenon DEF RequestOK, PlaceOK
  <2>2. AnswerOK(s)
    BY <1>5, <1>6, <1>7, Zenon DEF RequestOK, AnswerOK
  <2>3. PhaseOK(s)
    BY <1>5, <1>7, Zenon DEF RequestOK, PhaseOK
  <2> QED BY <2>1, <2>2, <2>3, Zenon
<1>9. Follows(r, s)
  BY <1>5, <1>6, Zenon DEF Follows, Settled
<1> QED BY <1>4, <1>5, <1>7, <1>8, <1>9, Zenon DEF RequestOK, s

(* A window that was moved counts at once; what it means to the client is
   decided when it is taken. *)
LEMMA AnswerKeeps ==
  ASSUME QueueInv, Answer
  PROVE  QueueInv'
<1> DEFINE b == bridge.for
<1>1. PICK st \in {"ok", "bad"} :
        /\ bridge' = [bridge EXCEPT !.st = st]
        /\ req' = IF st = "ok" /\ req[b].kind \in {"READ", "WRITE"} /\ req[b].phase /= "abort"
                    THEN [req EXCEPT ![b].moved = @ + 1] ELSE req
  BY Zenon DEF Answer
<1>2. bridge.st = "busy" /\ active' = active /\ open' = open /\ link' = link /\ task' = task
  BY Zenon DEF Answer
<1>3. bridge \in [st : {"idle", "busy", "ok", "bad"}, for : Ids \cup {0}] /\ bridge /= Idle
  BY <1>2 DEF QueueInv, BridgeOK, Idle
<1>4. /\ bridge' \in [st : {"idle", "busy", "ok", "bad"}, for : Ids \cup {0}]
      /\ bridge'.for = b /\ bridge'.st = st /\ bridge'.st /= "idle" /\ bridge' /= Idle
  BY <1>1, <1>3 DEF Idle
<1>5. Own \/ LeftBehind
  BY <1>3, Zenon DEF QueueInv, BridgeOK
<1>6. b \in Ids
  BY <1>5, ActiveFacts, Zenon DEF Own, LeftBehind
<1> DEFINE moves == st = "ok" /\ Io(req[b]) /\ req[b].phase /= "abort"
<1>7. moves => b = active /\ active /= 0 /\ Waits(req[b])
  <2> SUFFICES ASSUME moves PROVE b = active /\ active /= 0 /\ Waits(req[b])
    OBVIOUS
  <2>1. ~LeftBehind
    <3>1. req[b].kind \notin {"FLUSH", "SETEOF"}
      BY DEF Io
    <3> QED BY <3>1, Zenon DEF LeftBehind
  <2> QED BY <1>5, <2>1, ActiveFacts, Zenon DEF Own
<1>8. req' = IF moves THEN [req EXCEPT ![b] = [req[b] EXCEPT !.moved = @ + 1]] ELSE req
  BY <1>1, Zenon DEF Io
<1>9. \A j \in Ids : j /= b \/ ~moves => req'[j] = req[j]
  <2> HIDE DEF b, moves
  <2> QED BY <1>6, <1>8, Zenon DEF QueueInv, RequestsOK
<1>10. moves => req'[b] = [req[b] EXCEPT !.moved = @ + 1]
  <2> HIDE DEF b, moves
  <2> QED BY <1>6, <1>8, Zenon DEF QueueInv, RequestsOK
<1>11. ASSUME NEW j \in Ids
       PROVE  /\ RequestOK(req'[j]) /\ Follows(req[j], req'[j]) /\ (Waits(req'[j]) <=> Waits(req[j]))
              /\ req'[j].at = req[j].at /\ req'[j].kind = req[j].kind /\ req'[j].owner = req[j].owner
              /\ req'[j].size = req[j].size
              /\ req'[j].left = req[j].left /\ req'[j].phase = req[j].phase /\ req'[j].said = req[j].said
              /\ req'[j].moved = IF j = b /\ moves THEN req[j].moved + 1 ELSE req[j].moved
  <2>1. RequestOK(req[j])
    BY RequestFacts, Zenon
  <2> HIDE DEF b, moves
  <2>2. CASE j = b /\ moves
    <3>1. Waits(req[j])
      BY <1>7, <2>2, Zenon
    <3>2. LET s == [req[j] EXCEPT !.moved = @ + 1] IN
         /\ RequestOK(s) /\ Follows(req[j], s) /\ Waits(s)
         /\ s.at = req[j].at /\ s.kind = req[j].kind /\ s.owner = req[j].owner /\ s.size = req[j].size
         /\ s.left = req[j].left
         /\ s.phase = req[j].phase /\ s.moved = req[j].moved + 1 /\ s.said = req[j].said
      BY <2>1, <3>1, OneMoved, Zenon
    <3> QED BY <1>10, <2>2, <3>1, <3>2, Zenon
  <2>3. CASE ~(j = b /\ moves)
    <3>1. req'[j] = req[j]
      BY <1>9, <2>3, Zenon
    <3> QED BY <2>1, <2>3, <3>1, Zenon DEF Follows
  <2> QED BY <2>2, <2>3, Zenon
<1>12. Evolves
  <2>1. req' = [j \in Ids |-> req'[j]]
    <3> HIDE DEF b, moves
    <3> QED BY <1>6, <1>8, Zenon DEF QueueInv, RequestsOK
  <2>2. \A j \in Ids : req'[j] \in Requests
    BY <1>11, Zenon DEF RequestOK
  <2>3. req' \in [Ids -> Requests]
    BY <2>1, <2>2, Zenon
  <2> QED BY <1>11, <2>3, Zenon DEF Evolves
<1> HIDE DEF b, moves
<1>13. KeepsBarriers
  <2> SUFFICES ASSUME NEW f \in Ids, Passing(f)' PROVE Passing(f)
    BY PassingFacts, Zenon DEF KeepsBarriers
  <2> QED BY <1>2, <1>11, Zenon DEF Passing
<1>14. KeepsFlight
  BY <1>2, <1>4, Zenon DEF KeepsFlight
<1>15. KeepsFreed /\ OpenKept
  <2>1. Covers({})
    BY <1>11, Zenon DEF Covers
  <2> QED BY <1>2, <1>12, <2>1, SameKeeps, Zenon
<1>16. KeepsValid
  <2> SUFFICES ASSUME Polite, active' /= 0, Resizes(req'[active'])
               PROVE  active' \in Ids /\ Waits(req'[active']) /\ open[req[active'].owner] = "open"
    BY Zenon DEF KeepsValid
  <2>1. active' = active /\ active \in Ids /\ Waits(req[active])
    BY <1>2, ActiveFacts, Zenon
  <2>2. Resizes(req[active]) /\ Waits(req'[active])
    BY <1>11, <2>1, Zenon DEF Resizes
  <2> QED BY <2>1, <2>2, Zenon DEF QueueInv, ValidOK
<1>17. ActiveOK'
  <2>1. active' \in Ids \cup {0}
    BY <1>2, Zenon DEF QueueInv, ActiveOK
  <2>2. active' /= 0 => req'[active'].at = "slot" /\ req'[active'].kind /= "CLOSE"
    BY <1>2, <1>11, ActiveFacts, Zenon
  <2> QED BY <1>4, <2>1, <2>2, Zenon DEF ActiveOK, Ids, Idle
<1>18. BridgeOK'
  <2>1. Own => Own'
    BY <1>2, <1>4, Zenon DEF Own, b
  <2>2. LeftBehind => LeftBehind'
    <3> SUFFICES ASSUME LeftBehind PROVE LeftBehind'
      OBVIOUS
    <3>1. bridge'.for \in Ids /\ req'[bridge'.for].at = "done" /\ req'[bridge'.for].kind \in {"FLUSH", "SETEOF"}
      BY <1>4, <1>6, <1>11, Zenon DEF LeftBehind, b
    <3>2. active' /= 0 => req'[active'].kind = "WRITE" /\ req'[active'].phase = "window"
      BY <1>2, <1>11, ActiveFacts, Zenon DEF LeftBehind
    <3> QED BY <3>1, <3>2, Zenon DEF LeftBehind, Ids
  <2> QED BY <1>4, <1>5, <2>1, <2>2, Zenon DEF BridgeOK, Ids, Idle
<1>19. RecoveryIsActive'
  <2> SUFFICES ASSUME NEW j \in Ids, Waits(req'[j]), req'[j].kind = "WRITE", req'[j].phase \in Recovery
               PROVE  active' = j
    BY Zenon DEF RecoveryIsActive, Ids, Recovery
  <2> QED BY <1>2, <1>11, Zenon DEF QueueInv, RecoveryIsActive
<1>20. CountOK'
  <2> SUFFICES ASSUME NEW j \in Ids, Counted(j)'
               PROVE  req'[j].moved + req'[j].left = req'[j].size + Credit(j)'
    BY Zenon DEF CountOK, Ids
  <2>1. Counted(j)
    BY <1>11, Zenon DEF Counted, Io
  <2>2. req[j].moved + req[j].left = req[j].size + Credit(j)
    BY <2>1, Zenon DEF QueueInv, CountOK
  <2>3. Credit(j) = 0
    BY <1>2 DEF Credit
  <2>4. Credit(j)' = IF j = b /\ moves THEN 1 ELSE 0
    <3>1. j = b /\ st = "ok" => moves
      <4>1. "abort" \in Recovery
        BY DEF Recovery
      <4> QED BY <2>1, <4>1, Zenon DEF Counted, moves
    <3>2. Credit(j)' = IF st = "ok" /\ b = j THEN 1 ELSE 0
      BY <1>4, Zenon DEF Credit
    <3>3. moves => st = "ok"
      BY Zenon DEF moves
    <3> QED BY <3>1, <3>2, <3>3, Zenon
  <2>5. /\ req[j].moved \in Nat /\ req[j].left \in Nat /\ req[j].size \in Nat
    BY RequestFacts, QueueAssumption DEF Requests
  <2>6. CASE j = b /\ moves
    <3>1. req'[j].moved = req[j].moved + 1 /\ Credit(j)' = 1
      BY <1>11, <2>4, <2>6, Zenon
    <3>2. req'[j].left = req[j].left /\ req'[j].size = req[j].size
      BY <1>11, Zenon
    <3> QED BY <2>2, <2>3, <2>5, <3>1, <3>2
  <2>7. CASE ~(j = b /\ moves)
    <3>1. req'[j].moved = req[j].moved /\ Credit(j)' = 0
      BY <1>11, <2>4, <2>7, Zenon
    <3>2. req'[j].left = req[j].left /\ req'[j].size = req[j].size
      BY <1>11, Zenon
    <3> QED BY <2>2, <2>3, <3>1, <3>2, Zenon
  <2> QED BY <2>6, <2>7, Zenon
<1>21. CardOK'
  BY <1>17, <1>18, <1>19, <1>20, Zenon DEF CardOK
<1> QED BY <1>2, <1>12, <1>13, <1>14, <1>15, <1>16, <1>21, Onward, Zenon

-----------------------------------------------------------------------------
(* Many requests end at once; at most one WRITE, `rec`, is left in recovery. *)

Thins(rec, phase) ==
  /\ Evolves
  /\ \A j \in Ids : Waits(req'[j]) =>
       \/ req'[j] = req[j] /\ j /= rec
       \/ j = rec /\ req'[j].at = "slot" /\ req'[j].kind = "WRITE" /\ req'[j].phase = phase

(* Nothing is left on the card; or the recovery of `rec` waits for it; or
   the active request goes on. *)
Lands(rec, phase) ==
  \/ /\ active' = rec /\ bridge' = Idle /\ (rec /= 0 => phase = "submit" /\ Waits(req'[rec]))
     /\ active = 0 \/ active = rec \/ ~Waits(req'[active])
  \/ /\ active' = rec /\ rec /= 0 /\ Waits(req'[rec]) /\ bridge' = bridge /\ bridge /= Idle
     /\ (active = rec /\ Own) \/ (active \in {0, rec} /\ phase = "window")
  \/ /\ rec = 0 /\ active' = active /\ bridge' = bridge
     /\ active /= 0 => Waits(req'[active])

NoneSucceeds ==
  \A f \in Ids : req'[f].kind \in {"FLUSH", "CLOSE"} /\ req'[f].said = <<"ok">> =>
    req[f].said = <<"ok">> \/ Barred(f)

LEMMA ThinKeeps ==
  ASSUME QueueInv, NEW rec \in Ids \cup {0}, NEW phase \in Recovery, Thins(rec, phase),
         Lands(rec, phase), NoneSucceeds, KeepsFreed, OpenKept, link' = link,
         task' = task \/ task' = Loop
  PROVE  QueueInv'
<1>1. Evolves
  BY Zenon DEF Thins
<1>2. ASSUME active' /= 0
      PROVE  /\ active' \in Ids /\ Waits(req'[active'])
             /\ \/ active' = rec /\ req'[rec].at = "slot" /\ req'[rec].kind = "WRITE"
                   /\ req'[rec].phase = phase
                \/ active' = active /\ rec = 0 /\ bridge' = bridge /\ req'[active] = req[active]
  <2>1. CASE active' = rec
    <3>1. rec \in Ids /\ Waits(req'[rec])
      BY <1>2, <2>1, Zenon DEF Lands
    <3> QED BY <2>1, <3>1, Zenon DEF Thins
  <2>2. CASE active' /= rec
    <3>1. rec = 0 /\ active' = active /\ bridge' = bridge /\ (active /= 0 => Waits(req'[active]))
      BY <2>2, Zenon DEF Lands
    <3>2. active \in Ids
      BY <1>2, <3>1, ActiveFacts, Zenon
    <3> QED BY <1>2, <3>1, <3>2, Zenon DEF Thins
  <2> QED BY <2>1, <2>2, Zenon
<1>3. "WRITE" /= "FLUSH" /\ "WRITE" /= "SETEOF" /\ "WRITE" /= "CLOSE"
  OBVIOUS
<1>4. KeepsBarriers
  <2> SUFFICES ASSUME NEW f \in Ids, Passing(f)' PROVE req[f].at /= "unsent" /\ Barred(f)
    BY Zenon DEF KeepsBarriers
  <2>1. req'[f].kind = req[f].kind
    BY <1>1, EvolvesFacts, Zenon
  <2>2. CASE active' = f /\ req'[f].kind = "FLUSH"
    <3>1. active = f
      BY <1>2, <1>3, <2>2, IdsFacts, Zenon
    <3> QED BY <2>1, <2>2, <3>1, PassingFacts, Zenon DEF Passing
  <2>3. CASE req'[f].kind \in {"FLUSH", "CLOSE"} /\ req'[f].said = <<"ok">>
    BY <2>1, <2>3, PassingFacts, RequestFacts, Zenon DEF Passing, NoneSucceeds
  <2> QED BY <2>2, <2>3, Zenon DEF Passing
<1>5. KeepsFlight
  <2> SUFFICES ASSUME active /= 0, bridge /= Idle, Waits(req'[active]), req[active].kind /= "WRITE"
               PROVE  active' = active /\ bridge' /= Idle
    BY Zenon DEF KeepsFlight
  <2>1. active /= rec
    BY <1>1, ActiveFacts, EvolvesFacts, Zenon DEF Thins
  <2> QED BY <2>1, Zenon DEF Lands
<1>6. KeepsValid
  <2> SUFFICES ASSUME Polite, active' /= 0, Resizes(req'[active'])
               PROVE  active' \in Ids /\ Waits(req'[active']) /\ open[req[active'].owner] = "open"
    BY Zenon DEF KeepsValid
  <2>1. active' = active /\ req'[active] = req[active]
    BY <1>2, <1>3, Zenon DEF Resizes
  <2>2. open[req[active].owner] = "open"
    BY <2>1, Zenon DEF QueueInv, ValidOK
  <2> QED BY <1>2, <2>1, <2>2, Zenon
<1>7. ActiveOK'
  <2>1. active' \in Ids \cup {0}
    BY <1>2, Zenon
  <2>2. ASSUME active' /= 0
        PROVE  /\ req'[active'].at = "slot" /\ req'[active'].kind /= "CLOSE"
               /\ bridge' = Idle => req'[active'].kind = "WRITE" /\ req'[active'].phase = "submit"
    <3>1. CASE active' = rec /\ req'[rec].at = "slot" /\ req'[rec].kind = "WRITE" /\ req'[rec].phase = phase
      <4>1. bridge' = Idle => phase = "submit"
        BY <2>2, <3>1, Zenon DEF Lands
      <4> QED BY <1>3, <3>1, <4>1, Zenon
    <3>2. CASE active' = active /\ bridge' = bridge /\ req'[active] = req[active]
      BY <2>2, <3>2, Zenon DEF QueueInv, ActiveOK
    <3> QED BY <1>2, <2>2, <3>1, <3>2, Zenon
  <2> QED BY <2>1, <2>2, Zenon DEF ActiveOK, Ids, Idle
<1>8. BridgeOK'
  <2>1. CASE bridge' = Idle
    <3>1. Idle \in [st : {"idle", "busy", "ok", "bad"}, for : Ids \cup {0}]
      BY DEF Idle
    <3> QED BY <2>1, <3>1, Zenon DEF BridgeOK, Ids, Idle
  <2>2. CASE bridge' /= Idle
    <3>1. bridge' = bridge
      BY <2>2, Zenon DEF Lands
    <3>2. /\ bridge' \in [st : {"idle", "busy", "ok", "bad"}, for : Ids \cup {0}]
          /\ bridge'.st = "idle" => bridge' = Idle
      BY <3>1, Zenon DEF QueueInv, BridgeOK
    <3>3. Own \/ LeftBehind
      BY <2>2, <3>1, Zenon DEF QueueInv, BridgeOK
    <3>4. CASE Own
      <4>1. active' = active
        BY <2>2, <3>1, <3>4, Zenon DEF Lands, Own
      <4>2. Own'
        BY <3>1, <3>4, <4>1, Zenon DEF Own
      <4> QED BY <3>2, <4>2, Zenon DEF BridgeOK, Ids, Idle
    <3>5. CASE ~Own
      <4>1. /\ ~Polite /\ bridge.for \in Ids /\ req[bridge.for].at = "done"
            /\ req[bridge.for].kind \in {"FLUSH", "SETEOF"}
            /\ active /= 0 => req[active].kind = "WRITE" /\ req[active].phase = "window"
        BY <3>3, <3>5, Zenon DEF LeftBehind
      <4>2. req'[bridge.for] = req[bridge.for]
        <5>1. ~Waits(req[bridge.for])
          BY <4>1 DEF Waits
        <5> QED BY <4>1, <5>1, Zenon DEF Thins, Evolves, Follows
      <4>3. ASSUME active' /= 0 PROVE req'[active'].kind = "WRITE" /\ req'[active'].phase = "window"
        <5>1. CASE active' = rec /\ rec /= 0
          <6>1. phase = "window"
            BY <2>2, <3>1, <3>5, <5>1, Zenon DEF Lands
          <6> QED BY <1>2, <4>3, <5>1, <6>1, Zenon
        <5>2. CASE active' = active /\ req'[active] = req[active]
          BY <4>1, <4>3, <5>2, Zenon
        <5> QED BY <1>2, <4>3, <5>1, <5>2, Zenon
      <4>4. LeftBehind'
        BY <3>1, <4>1, <4>2, <4>3, Zenon DEF LeftBehind, Ids
      <4> QED BY <3>2, <4>4, Zenon DEF BridgeOK, Ids, Idle
    <3> QED BY <3>4, <3>5, Zenon
  <2> QED BY <2>1, <2>2, Zenon
<1>9. RecoveryIsActive'
  <2> SUFFICES ASSUME NEW j \in Ids, Waits(req'[j]), req'[j].kind = "WRITE", req'[j].phase \in Recovery
               PROVE  active' = j
    BY Zenon DEF RecoveryIsActive, Ids, Recovery
  <2>1. CASE j = rec
    <3>1. rec /= 0
      BY <2>1, IdsFacts, Zenon
    <3> QED BY <2>1, <3>1, Zenon DEF Lands
  <2>2. CASE j /= rec
    <3>1. req'[j] = req[j]
      BY <2>2, Zenon DEF Thins
    <3>2. active = j
      BY <3>1, Zenon DEF QueueInv, RecoveryIsActive
    <3>3. active /= 0
      BY <3>2, IdsFacts, Zenon
    <3> QED BY <2>2, <3>2, <3>3, Zenon DEF Lands
  <2> QED BY <2>1, <2>2, Zenon
<1>10. CountOK'
  <2> SUFFICES ASSUME NEW j \in Ids, Counted(j)'
               PROVE  req'[j].moved + req'[j].left = req'[j].size + Credit(j)'
    BY Zenon DEF CountOK, Ids
  <2>1. Waits(req'[j]) /\ Io(req'[j]) /\ req'[j].phase \notin Recovery
    BY Zenon DEF Counted
  <2>2. req'[j] = req[j] /\ j /= rec
    BY <2>1, Zenon DEF Thins
  <2>3. Counted(j)
    BY <2>1, <2>2, Zenon DEF Counted
  <2>4. Credit(j)' = Credit(j)
    <3>1. CASE bridge' = bridge
      BY <3>1, Zenon DEF Credit
    <3>2. CASE bridge' /= bridge
      <4>1. bridge' = Idle /\ j /= active
        BY <2>1, <2>2, <3>2, IdsFacts, Zenon DEF Lands
      <4>2. Credit(j) = 0
        BY <2>1, <2>2, <4>1, CreditIsActive, Zenon
      <4>3. Credit(j)' = 0
        BY <4>1 DEF Credit, Idle
      <4> QED BY <4>2, <4>3, Zenon
    <3> QED BY <3>1, <3>2, Zenon
  <2> QED BY <2>2, <2>3, <2>4, Zenon DEF QueueInv, CountOK
<1>11. CardOK'
  BY <1>7, <1>8, <1>9, <1>10, Zenon DEF CardOK
<1> QED BY <1>1, <1>4, <1>5, <1>6, <1>11, Onward, Zenon

LEMMA ManyFail ==
  ASSUME QueueInv, NEW S \in SUBSET Pending, NEW rec \in Ids \cup {0}, rec \notin S, NEW s, NEW phase,
         req' = [j \in Ids |-> req'[j]],
         \A j \in Ids : req'[j] = IF j \in S THEN Ended(req[j], "error")
                                  ELSE IF j = rec THEN s ELSE req[j],
         rec /= 0 => /\ RequestOK(s) /\ Follows(req[rec], s)
                     /\ s.at = "slot" /\ s.kind = "WRITE" /\ s.phase = phase
  PROVE  Thins(rec, phase) /\ NoneSucceeds /\ Covers(S) /\ \A j \in S : ~Waits(req'[j])
<1>1. S \subseteq Ids
  BY Zenon DEF Pending
<1>2. ASSUME NEW j \in S
      PROVE  EndsWell(req[j], req'[j], "error")
  <2>1. j \in Ids /\ Waits(req[j]) /\ RequestOK(req[j])
    BY <1>1, PendingFacts, RequestFacts, Zenon
  <2>2. MayEnd(req[j], "error")
    BY <2>1 DEF MayEnd
  <2> QED BY <2>1, <2>2, EndedOK, Zenon
<1>3. \A j \in S : ~Waits(req'[j])
  BY <1>2, Zenon DEF EndsWell
<1>4. Evolves
  <2>1. \A j \in Ids : RequestOK(req'[j]) /\ Follows(req[j], req'[j])
    BY <1>2, RequestFacts, IdsFacts, Zenon DEF EndsWell, Follows
  <2>2. \A j \in Ids : req'[j] \in Requests
    BY <2>1, Zenon DEF RequestOK
  <2>3. req' \in [Ids -> Requests]
    BY <2>2, Zenon
  <2> QED BY <2>1, <2>3, Zenon DEF Evolves
<1>5. Thins(rec, phase)
  <2> SUFFICES ASSUME NEW j \in Ids, Waits(req'[j])
               PROVE  \/ req'[j] = req[j] /\ j /= rec
                      \/ j = rec /\ req'[j].at = "slot" /\ req'[j].kind = "WRITE" /\ req'[j].phase = phase
    BY <1>4, Zenon DEF Thins
  <2>1. j \notin S
    BY <1>3, Zenon
  <2> QED BY <2>1, IdsFacts, Zenon
<1>6. NoneSucceeds
  <2> SUFFICES ASSUME NEW f \in Ids, req'[f].kind \in {"FLUSH", "CLOSE"}, req'[f].said = <<"ok">>
               PROVE  req[f].said = <<"ok">>
    BY Zenon DEF NoneSucceeds
  <2>1. f \notin S
    <3>1. "error" /= "ok"
      OBVIOUS
    <3> QED BY <1>2, <3>1, Zenon DEF EndsWell
  <2>2. f /= rec
    <3>1. "WRITE" \notin {"FLUSH", "CLOSE"}
      OBVIOUS
    <3> QED BY <2>1, <3>1, IdsFacts, Zenon
  <2> QED BY <2>1, <2>2, Zenon
<1>7. Covers(S)
  <2> SUFFICES ASSUME NEW j \in Ids, Waits(req[j]), ~Waits(req'[j]) PROVE j \in S
    BY Zenon DEF Covers
  <2>1. j = rec => Waits(req'[j]) \/ j \in S
    <3>1. rec /= 0 => Waits(s)
      BY DEF Waits
    <3> QED BY <3>1, IdsFacts, Zenon
  <2> QED BY <2>1, Zenon
<1> QED BY <1>3, <1>5, <1>6, <1>7, Zenon

(* The WRITE on the card keeps its slot. *)
Fallen(r, st) ==
  [r EXCEPT !.phase = IF @ \in Recovery THEN @ ELSE IF st = "idle" THEN "submit" ELSE "window",
            !.cancel = TRUE, !.replied = TRUE,
            !.said = IF r.live /\ ~r.replied THEN Append(@, "error") ELSE @]
FallenPhase(r, st) ==
  IF r.phase \in Recovery THEN r.phase ELSE IF st = "idle" THEN "submit" ELSE "window"

LEMMA FallenOK ==
  ASSUME NEW r, RequestOK(r), Waits(r), r.kind = "WRITE", NEW st
  PROVE  LET s == Fallen(r, st) IN
         /\ RequestOK(s) /\ Follows(r, s) /\ s.at = "slot" /\ s.kind = "WRITE"
         /\ s.phase = FallenPhase(r, st) /\ FallenPhase(r, st) \in Recovery
<1> DEFINE told == IF r.live /\ ~r.replied THEN Append(r.said, "error") ELSE r.said
<1> DEFINE s == [r EXCEPT !.phase = FallenPhase(r, st), !.cancel = TRUE, !.replied = TRUE, !.said = told]
<1>1. r \in Requests
  BY Zenon DEF RequestOK
<1>2. told \in Said \cap {r.said, <<"error">>}
  BY ErrorSaid, Zenon
<1>3. FallenPhase(r, st) \in Recovery /\ FallenPhase(r, st) \in Phases
  BY DEF FallenPhase, Recovery, Phases
<1>4. s = Fallen(r, st)
  BY Zenon DEF Fallen, FallenPhase
<1>5. s \in Requests
  <2> HIDE DEF told
  <2> QED BY <1>1, <1>2, <1>3, Zenon DEF Requests
<1>6. /\ s.at = r.at /\ s.kind = r.kind /\ s.owner = r.owner /\ s.size = r.size /\ s.left = r.left
      /\ s.moved = r.moved /\ s.cancel = TRUE /\ s.live = r.live /\ s.replied = TRUE
      /\ s.said = told /\ s.phase = FallenPhase(r, st)
  <2> HIDE DEF told
  <2> QED BY <1>1 DEF Requests
<1>7. /\ r.at /= "unsent" /\ r.at /= "done" /\ r.at \in {"queued", "slot", "done"}
      /\ "WRITE" /= "READ" /\ <<"error">> /= <<"ok">> /\ <<>> /= <<"error">>
  BY DEF Waits
<1>8. r.at = "slot"
  BY <1>7, Zenon DEF RequestOK, PlaceOK, Waits
<1>9. told /= <<"ok">> /\ (r.live => told = <<"error">>)
  <2>1. r.said /= <<"ok">>
    BY Zenon DEF RequestOK, AnswerOK
  <2>2. CASE r.live /\ ~r.replied
    <3>1. r.said /= <<"error">>
      BY <2>2, Zenon DEF RequestOK, AnswerOK
    <3>2. r.said = <<>>
      <4>1. r.said \in Said
        BY <1>1, Zenon DEF Requests
      <4> QED BY <2>1, <3>1, <4>1, Zenon DEF Said
    <3>3. told = Append(<<>>, "error")
      BY <2>2, <3>2, Zenon
    <3>4. Append(<<>>, "error") = <<"error">>
      OBVIOUS
    <3> QED BY <1>7, <3>3, <3>4, Zenon
  <2>3. CASE ~(r.live /\ ~r.replied)
    BY <2>1, <2>3, Zenon DEF RequestOK, AnswerOK
  <2> QED BY <2>2, <2>3, Zenon
<1> HIDE DEF s, told
<1>10. Waits(s)
  BY <1>6, <1>8 DEF Waits
<1>11. PlaceOK(s)
  BY <1>6, <1>7, <1>8, <1>10, Zenon DEF RequestOK, PlaceOK
<1>12. AnswerOK(s)
  BY <1>6, <1>7, <1>8, <1>9, Zenon DEF AnswerOK
<1>13. PhaseOK(s)
  BY <1>3, <1>6, <1>7, Zenon DEF PhaseOK
<1>14. Follows(r, s)
  BY <1>6, <1>7, Zenon DEF Follows, Settled
<1> QED BY <1>3, <1>4, <1>5, <1>6, <1>8, <1>11, <1>12, <1>13, <1>14, Zenon DEF RequestOK

Writes == {i \in Ids : req[i].at = "slot" /\ req[i].kind = "WRITE"}

LEMMA WritesFacts ==
  /\ Writes = InSlot("WRITE") /\ Writes \in SUBSET Pending
  /\ \A i \in Writes : i \in Ids /\ Waits(req[i]) /\ req[i].kind = "WRITE"
<1>1. ASSUME NEW i
      PROVE  i \in Writes <=> i \in InSlot("WRITE")
  <2>1. req[i].at = "slot" <=> req[i].at \in {"queued", "slot"} /\ req[i].at /= "queued"
    OBVIOUS
  <2> QED BY <2>1, Zenon DEF Writes, InSlot, Of, Queued, Pending
<1>2. ASSUME NEW i \in Writes
      PROVE  i \in Ids /\ Waits(req[i]) /\ req[i].kind = "WRITE"
  BY <1>2 DEF Writes, Waits
<1> QED BY <1>1, <1>2, Zenon DEF Pending, Waits

LEMMA LeastOrNone ==
  ASSUME NEW S \in SUBSET Ids
  PROVE  Least(S) = 0 \/ Least(S) \in S
<1>1. CASE S = {}
  BY <1>1, Zenon DEF Least
<1>2. CASE S /= {}
  <2>1. S \in SUBSET Nat
    BY IdsFacts, Zenon
  <2>2. \E x \in S : \A y \in S : x <= y
    BY <1>2, <2>1, LeastExists
  <2>3. Min(S) \in S
    BY <2>2, Zenon DEF Min
  <2> QED BY <1>2, <2>3, Zenon DEF Least
<1> QED BY <1>1, <1>2, Zenon

LEMMA OnCardFacts == OnCard = 0 \/ OnCard \in Writes
<1> DEFINE S == {j \in InSlot("WRITE") : req[j].owner = phys.by}
<1>1. S \subseteq Ids /\ S \subseteq Writes
  BY WritesFacts, Zenon
<1>2. Least(S) = 0 \/ Least(S) \in S
  <2> HIDE DEF S
  <2> QED BY <1>1, LeastOrNone, Zenon
<1> QED BY <1>1, <1>2, Zenon DEF OnCard

FailPhase(rec, st) == IF rec = 0 THEN "window" ELSE FallenPhase(req[rec], st)

(* failAsyncWrites(): every WRITE ends but the one the card has. *)
LEMMA FailWritesThins ==
  ASSUME QueueInv, NEW rec \in Writes \cup {0}, NEW st, req' = FailWrites(req, rec, st)
  PROVE  /\ rec \in Ids \cup {0} /\ FailPhase(rec, st) \in Recovery
         /\ Thins(rec, FailPhase(rec, st)) /\ NoneSucceeds /\ Covers(InSlot("WRITE"))
         /\ rec /= 0 => Waits(req'[rec])
         /\ \A j \in Writes : j /= rec => ~Waits(req'[j])
         /\ \A j \in Ids \ Writes : req'[j] = req[j]
<1> DEFINE lost == Writes \ {rec}
<1> DEFINE kept == IF rec = 0 THEN req ELSE [req EXCEPT ![rec] = Fallen(req[rec], st)]
<1>1. rec \in Ids \cup {0} /\ lost \in SUBSET Pending /\ rec \notin lost
  BY WritesFacts, Zenon
<1>2. req' = Out(kept, lost, "error")
  BY Zenon DEF FailWrites, Fallen, Writes
<1>3. req' = [j \in Ids |-> req'[j]]
  <2> HIDE DEF kept, lost
  <2> QED BY <1>2, Zenon DEF Out
<1>4. \A j \in Ids : kept[j] = IF j = rec THEN Fallen(req[rec], st) ELSE req[j]
  BY <1>1, IdsFacts, Zenon DEF QueueInv, RequestsOK
<1>5. \A j \in Ids : req'[j] = IF j \in lost THEN Ended(req[j], "error")
                              ELSE IF j = rec THEN Fallen(req[rec], st) ELSE req[j]
  <2>1. \A j \in Ids : req'[j] = IF j \in lost THEN Ended(kept[j], "error") ELSE kept[j]
    <3> HIDE DEF kept, lost
    <3> QED BY <1>2, Zenon DEF Out, Ended
  <2> HIDE DEF kept, lost
  <2> QED BY <1>1, <1>4, <2>1, Zenon
<1>6. rec /= 0 =>
        /\ RequestOK(Fallen(req[rec], st)) /\ Follows(req[rec], Fallen(req[rec], st))
        /\ Fallen(req[rec], st).at = "slot" /\ Fallen(req[rec], st).kind = "WRITE"
        /\ Fallen(req[rec], st).phase = FailPhase(rec, st) /\ FailPhase(rec, st) \in Recovery
  <2> SUFFICES ASSUME rec /= 0
               PROVE  /\ RequestOK(Fallen(req[rec], st)) /\ Follows(req[rec], Fallen(req[rec], st))
                      /\ Fallen(req[rec], st).at = "slot" /\ Fallen(req[rec], st).kind = "WRITE"
                      /\ Fallen(req[rec], st).phase = FailPhase(rec, st)
                      /\ FailPhase(rec, st) \in Recovery
    OBVIOUS
  <2>1. rec \in Ids /\ Waits(req[rec]) /\ req[rec].kind = "WRITE" /\ RequestOK(req[rec])
    BY WritesFacts, RequestFacts, Zenon
  <2> QED BY <2>1, FallenOK, Zenon DEF FailPhase
<1>7. FailPhase(rec, st) \in Recovery
  <2>1. "window" \in Recovery
    BY DEF Recovery
  <2> QED BY <1>6, <2>1, Zenon DEF FailPhase
<1>8. Thins(rec, FailPhase(rec, st)) /\ NoneSucceeds /\ Covers(lost) /\ \A j \in lost : ~Waits(req'[j])
  <2> DEFINE s == Fallen(req[rec], st)
  <2> DEFINE phase == FailPhase(rec, st)
  <2>1. rec /= 0 => /\ RequestOK(s) /\ Follows(req[rec], s)
                    /\ s.at = "slot" /\ s.kind = "WRITE" /\ s.phase = phase
    BY <1>6, Zenon
  <2>2. \A j \in Ids : req'[j] = IF j \in lost THEN Ended(req[j], "error")
                                ELSE IF j = rec THEN s ELSE req[j]
    BY <1>5, Zenon
  <2>3. Thins(rec, phase) /\ NoneSucceeds /\ Covers(lost) /\ \A j \in lost : ~Waits(req'[j])
    <3> HIDE DEF lost, s, phase
    <3> QED BY <1>1, <1>3, <2>1, <2>2, ManyFail
  <2> HIDE DEF lost
  <2> QED BY <2>3, Zenon
<1>9. Covers(InSlot("WRITE"))
  BY <1>8, WritesFacts, Zenon DEF Covers
<1>10. rec /= 0 => Waits(req'[rec])
  <2>1. rec /= 0 => req'[rec] = Fallen(req[rec], st)
    BY <1>1, <1>5, Zenon
  <2>2. rec /= 0 => req'[rec].at = "slot"
    BY <1>6, <2>1, Zenon
  <2> QED BY <2>2 DEF Waits
<1>11. \A j \in Ids \ Writes : req'[j] = req[j]
  BY <1>5, IdsFacts, Zenon
<1> QED BY <1>1, <1>7, <1>8, <1>9, <1>10, <1>11, Zenon

(* Half of TakeWrite: a window failed; the file open on the card is to be
   closed, by the WRITE that becomes active. *)
LEMMA TakeWriteFails ==
  ASSUME QueueInv, NEW i \in Ids, active = i, req[i].kind = "WRITE", req[i].phase = "work",
         bridge' = Idle, req' = FailWrites(req, OnCard, "idle"), active' = OnCard,
         Free(InSlot("WRITE")), link' = link, task' = task
  PROVE  QueueInv'
<1> DEFINE rec == OnCard
<1>1. rec \in Writes \cup {0}
  BY OnCardFacts, Zenon
<1>2. i \in Writes /\ "work" \notin Recovery /\ i /= 0
  BY ActiveFacts, IdsFacts DEF Writes, Recovery
<1>3. rec /= 0 => req[rec].phase \notin Recovery
  <2>1. rec /= 0 => rec \in Ids /\ Waits(req[rec]) /\ req[rec].kind = "WRITE"
    BY <1>1, WritesFacts, Zenon
  <2> HIDE DEF rec
  <2> QED BY <1>2, <2>1, Zenon DEF QueueInv, RecoveryIsActive
<1>4. rec /= 0 => FailPhase(rec, "idle") = "submit"
  BY <1>3 DEF FailPhase, FallenPhase
<1>5. /\ rec \in Ids \cup {0} /\ FailPhase(rec, "idle") \in Recovery
      /\ Thins(rec, FailPhase(rec, "idle")) /\ NoneSucceeds /\ Covers(InSlot("WRITE"))
      /\ rec /= 0 => Waits(req'[rec])
      /\ \A j \in Writes : j /= rec => ~Waits(req'[j])
  BY <1>1, FailWritesThins, Zenon
<1>6. Lands(rec, FailPhase(rec, "idle"))
  BY <1>2, <1>4, <1>5, Zenon DEF Lands
<1>7. KeepsFreed /\ OpenKept
  <2>1. Evolves
    BY <1>5, Zenon DEF Thins
  <2> QED BY <1>5, <2>1, FreeKeeps, Zenon
<1> QED BY <1>5, <1>6, <1>7, ThinKeeps, Zenon

(* Half of StartWrite: the file cannot be opened, and none is open. *)
LEMMA StartWriteFails ==
  ASSUME QueueInv, NEW i \in Ids, Turn(i), req' = FailWrites(req, 0, "idle"), Free(InSlot("WRITE")),
         active' = active, bridge' = bridge, link' = link, task' = task
  PROVE  QueueInv'
<1>1. /\ FailPhase(0, "idle") \in Recovery
      /\ Thins(0, FailPhase(0, "idle")) /\ NoneSucceeds /\ Covers(InSlot("WRITE"))
  BY FailWritesThins, Zenon
<1>2. Lands(0, FailPhase(0, "idle"))
  BY TurnFacts, Zenon DEF Lands
<1>3. KeepsFreed /\ OpenKept
  <2>1. Evolves
    BY <1>1, Zenon DEF Thins
  <2> QED BY <1>1, <2>1, FreeKeeps, Zenon
<1> QED BY <1>1, <1>2, <1>3, ThinKeeps, Zenon

LEMMA TakeWriteKeeps ==
  ASSUME QueueInv, NEW i \in Ids, TakeWrite(i)
  PROVE  QueueInv'
<1>1. /\ active = i /\ req[i].kind = "WRITE" /\ req[i].phase = "work" /\ bridge' = Idle
      /\ link' = link /\ task' = task
      /\ \/ Ends(i, "error", TRUE)
         \/ /\ req' = FailWrites(req, OnCard, "idle") /\ active' = OnCard
            /\ Free(InSlot("WRITE"))
         \/ Sound(i) /\ req[i].left = 1 /\ Ends(i, "ok", ~req[i].live)
         \/ /\ Sound(i) /\ req[i].left /= 1 /\ req' = [req EXCEPT ![i].left = @ - 1]
            /\ active' = 0 /\ open' = open
  BY Zenon DEF TakeWrite
<1>2. CASE Sound(i) /\ req[i].left = 1 /\ Ends(i, "ok", ~req[i].live)
  <2>1. \E close \in BOOLEAN : Ends(i, "ok", close)
    BY <1>2, Zenon
  <2> QED BY <1>1, <1>2, <2>1, TakeWriteGoes, Zenon
<1>3. CASE req' = FailWrites(req, OnCard, "idle") /\ active' = OnCard /\ Free(InSlot("WRITE"))
  BY <1>1, <1>3, TakeWriteFails, Zenon
<1>4. CASE Ends(i, "error", TRUE)
  BY <1>1, <1>4, TakeWriteGoes, Zenon
<1>5. CASE /\ Sound(i) /\ req[i].left /= 1 /\ req' = [req EXCEPT ![i].left = @ - 1]
           /\ active' = 0 /\ open' = open
  BY <1>1, <1>5, TakeWriteGoes, Zenon
<1> QED BY <1>1, <1>2, <1>3, <1>4, <1>5, Zenon

LEMMA StartWriteKeeps ==
  ASSUME QueueInv, NEW i \in Ids, StartWrite(i)
  PROVE  QueueInv'
<1>1. /\ Turn(i) /\ i \in InSlot("WRITE") /\ link' = link /\ task' = task
      /\ \/ active' = i /\ Submit(i) /\ req' = [req EXCEPT ![i].phase = "work"] /\ open' = open
         \/ /\ req' = FailWrites(req, 0, "idle") /\ Free(InSlot("WRITE"))
            /\ active' = active /\ bridge' = bridge
  BY Zenon DEF StartWrite
<1> QED BY <1>1, StartWriteGoes, StartWriteFails, Zenon

LEMMA WriteTimeOutKeeps ==
  ASSUME QueueInv, WriteTimeOut
  PROVE  QueueInv'
<1>1. /\ ActiveKind = "WRITE" /\ req[active].phase = "work" /\ bridge.st = "busy"
      /\ req' = FailWrites(req, active, bridge.st) /\ Free(InSlot("WRITE"))
      /\ active' = active /\ bridge' = bridge /\ link' = link /\ task' = task
  BY Zenon DEF WriteTimeOut
<1>2. active /= 0 /\ req[active].kind = "WRITE" /\ bridge /= Idle /\ "work" /= "window"
  BY <1>1 DEF ActiveKind, Idle
<1>3. active \in Writes
  BY <1>2, ActiveFacts, Zenon DEF Writes
<1>4. Own
  BY <1>1, <1>2, Zenon DEF QueueInv, BridgeOK, LeftBehind
<1>5. /\ active \in Ids \cup {0} /\ FailPhase(active, bridge.st) \in Recovery
      /\ Thins(active, FailPhase(active, bridge.st)) /\ NoneSucceeds /\ Covers(InSlot("WRITE"))
      /\ Waits(req'[active])
  BY <1>1, <1>2, <1>3, FailWritesThins, Zenon
<1>6. Lands(active, FailPhase(active, bridge.st))
  BY <1>1, <1>2, <1>4, <1>5, Zenon DEF Lands
<1>7. KeepsFreed /\ OpenKept
  <2>1. Evolves
    BY <1>5, Zenon DEF Thins
  <2> QED BY <1>1, <1>5, <2>1, FreeKeeps, Zenon
<1> QED BY <1>1, <1>5, <1>6, <1>7, ThinKeeps, Zenon

LEMMA ReadTimeOutKeeps ==
  ASSUME QueueInv, ReadTimeOut
  PROVE  QueueInv'
<1>1. /\ ActiveKind = "READ" /\ link' = link /\ task' = task
      /\ \/ /\ req' = Out(req, Of("READ"), "error") /\ active' = 0 /\ bridge' = Idle
            /\ Free(Of("READ"))
         \/ /\ req' = Out([i \in Ids |-> IF i \in InSlot("READ") THEN [req[i] EXCEPT !.cancel = TRUE]
                                         ELSE req[i]], Queued, "error")
            /\ active' = active /\ bridge' = bridge /\ open' = open
  BY Zenon DEF ReadTimeOut, After
<1>2. CASE req' = Out(req, Of("READ"), "error") /\ active' = 0 /\ bridge' = Idle /\ Free(Of("READ"))
  <2> DEFINE S == Of("READ")
  <2>1. S \in SUBSET Pending /\ 0 \notin S
    BY IdsFacts, Zenon DEF Of, Pending
  <2>2. active \in S
    <3>1. active /= 0
      BY <1>1 DEF ActiveKind
    <3>2. req[active].kind = "READ" /\ active \in Ids /\ Waits(req[active])
      BY <1>1, <3>1, ActiveFacts, Zenon DEF ActiveKind
    <3> QED BY <3>2, PendingFacts, Zenon DEF Of
  <2>3. /\ req' = [j \in Ids |-> req'[j]]
        /\ \A j \in Ids : req'[j] = IF j \in S THEN Ended(req[j], "error")
                                    ELSE IF j = 0 THEN Unsent ELSE req[j]
    BY <1>2, IdsFacts, Zenon DEF Out, Ended
  <2>4. Thins(0, "window") /\ NoneSucceeds /\ Covers(S) /\ \A j \in S : ~Waits(req'[j])
    <3> HIDE DEF S
    <3> QED BY <2>1, <2>3, ManyFail
  <2>5. Lands(0, "window") /\ "window" \in Recovery
    <3>1. Lands(0, "window")
      BY <1>2, <2>2, <2>4, Zenon DEF Lands
    <3> QED BY <3>1 DEF Recovery
  <2>6. KeepsFreed /\ OpenKept
    <3>1. Evolves
      BY <2>4, Zenon DEF Thins
    <3> QED BY <1>1, <1>2, <2>4, <3>1, FreeKeeps, Zenon
  <2> QED BY <1>1, <2>4, <2>5, <2>6, ThinKeeps, Zenon
<1>3. CASE /\ req' = Out([i \in Ids |-> IF i \in InSlot("READ") THEN [req[i] EXCEPT !.cancel = TRUE]
                                        ELSE req[i]], Queued, "error")
           /\ active' = active /\ bridge' = bridge /\ open' = open
  BY <1>1, <1>3, ReadsCancelled, Zenon
<1> QED BY <1>1, <1>2, <1>3, Zenon

(* Files also go with a tree, or are closed. *)
LEMMA FreeMore ==
  ASSUME QueueInv, Evolves, NEW S, Covers(S), link' = link,
         open' \in [Owners -> {"open", "closed", "gone"}],
         \A o \in Owners : o \in FreedBy(req', S) \/ open[o] = "gone" => open'[o] = "gone"
  PROVE  KeepsFreed
<1>1. OpenOK'
  BY Zenon DEF QueueInv, OpenOK
<1>2. ASSUME NEW o \in Owners, link[o] = "gone", HasWaiting(req, o), ~HasWaiting(req', o)
      PROVE  open'[o] = "gone"
  BY <1>2, LastGoes, Zenon
<1> QED BY <1>1, <1>2, Zenon DEF KeepsFreed

(* The other half of TreeWritesDone: WRITEs of the tree are left. *)
LEMMA TreeFails ==
  ASSUME QueueInv, task.phase = "writes", task' = Loop, NEW rec,
         rec = IF active = 0 THEN OnCard ELSE IF ActiveKind = "WRITE" THEN active ELSE 0,
         req' = FailWrites(req, rec, bridge.st), active' = (IF active = 0 THEN rec ELSE active),
         open' = [o \in Owners |-> IF o = task.owner \/ o \in FreedBy(req', InSlot("WRITE"))
                                     THEN "gone" ELSE open[o]],
         bridge' = bridge, link' = link
  PROVE  QueueInv'
<1> DEFINE phase == FailPhase(rec, bridge.st)
<1>1. /\ active /= 0 => active \in Ids /\ req[active].at = "slot" /\ Waits(req[active])
      /\ active /= 0 => ActiveKind = req[active].kind
  BY ActiveFacts, Zenon DEF ActiveKind
<1>2. rec \in Writes \cup {0}
  <2>1. active /= 0 /\ ActiveKind = "WRITE" => active \in Writes
    BY <1>1, Zenon DEF Writes
  <2> QED BY <2>1, OnCardFacts, Zenon
<1>3. /\ rec \in Ids \cup {0} /\ phase \in Recovery
      /\ Thins(rec, phase) /\ NoneSucceeds /\ Covers(InSlot("WRITE"))
      /\ rec /= 0 => Waits(req'[rec])
      /\ \A j \in Ids \ Writes : req'[j] = req[j]
  BY <1>2, FailWritesThins, Zenon
<1>4. bridge = Idle <=> bridge.st = "idle"
  <2>1. Idle.st = "idle"
    BY DEF Idle
  <2> QED BY <2>1, Zenon DEF QueueInv, BridgeOK
<1>5. Lands(rec, phase)
  <2>1. CASE active = 0
    <3>1. active' = rec /\ ~Own
      BY <2>1, Zenon DEF Own
    <3>2. rec /= 0 => phase = IF bridge.st = "idle" THEN "submit" ELSE "window"
      <4>1. rec /= 0 => req[rec].phase \notin Recovery
        <5>1. rec /= 0 => rec \in Ids /\ Waits(req[rec]) /\ req[rec].kind = "WRITE"
          BY <1>2, WritesFacts, Zenon
        <5> QED BY <2>1, <5>1, Zenon DEF QueueInv, RecoveryIsActive
      <4> QED BY <4>1, Zenon DEF FailPhase, FallenPhase
    <3> HIDE DEF phase
    <3>3. CASE bridge = Idle
      BY <1>3, <1>4, <2>1, <3>1, <3>2, <3>3, Zenon DEF Lands
    <3>4. CASE bridge /= Idle /\ rec /= 0
      BY <1>3, <1>4, <2>1, <3>1, <3>2, <3>4, Zenon DEF Lands
    <3>5. CASE bridge /= Idle /\ rec = 0
      BY <2>1, <3>1, <3>5, Zenon DEF Lands
    <3> QED BY <3>3, <3>4, <3>5, Zenon
  <2>2. CASE active /= 0 /\ ActiveKind = "WRITE"
    <3>1. active' = rec /\ rec = active /\ rec /= 0
      BY <2>2, Zenon
    <3>2. req[rec].phase \in Recovery => phase = req[rec].phase
      BY <3>1, Zenon DEF FailPhase, FallenPhase
    <3> HIDE DEF phase
    <3>3. CASE bridge = Idle
      <4>1. req[rec].phase = "submit" /\ "submit" \in Recovery
        BY <3>1, <3>3 DEF QueueInv, ActiveOK, Recovery
      <4> QED BY <1>3, <3>1, <3>2, <3>3, <4>1, Zenon DEF Lands
    <3>4. CASE bridge /= Idle /\ Own
      BY <1>3, <3>1, <3>4, Zenon DEF Lands
    <3>5. CASE bridge /= Idle /\ LeftBehind
      <4>1. req[rec].phase = "window" /\ "window" \in Recovery
        BY <3>1, <3>5 DEF LeftBehind, Recovery
      <4> QED BY <1>3, <3>1, <3>2, <3>5, <4>1, Zenon DEF Lands
    <3> QED BY <3>3, <3>4, <3>5, Zenon DEF QueueInv, BridgeOK
  <2>3. CASE active /= 0 /\ ActiveKind /= "WRITE"
    <3>1. rec = 0 /\ active' = active
      BY <2>3, Zenon
    <3>2. active \notin Writes
      BY <1>1, <2>3, Zenon DEF Writes
    <3>3. req'[active] = req[active]
      BY <1>1, <1>3, <2>3, <3>2, Zenon
    <3> QED BY <1>1, <2>3, <3>1, <3>3, Zenon DEF Lands
  <2> QED BY <2>1, <2>2, <2>3, Zenon
<1>6. Evolves
  BY <1>3, Zenon DEF Thins
<1>7. open \in [Owners -> {"open", "closed", "gone"}]
  BY Zenon DEF QueueInv, OpenOK
<1>8. open' \in [Owners -> {"open", "closed", "gone"}]
  BY <1>7
<1>9. \A o \in Owners : o \in FreedBy(req', InSlot("WRITE")) \/ open[o] = "gone" => open'[o] = "gone"
  BY Zenon
<1>10. KeepsFreed
  BY <1>3, <1>6, <1>8, <1>9, FreeMore, Zenon
<1>11. OpenKept
  <2>1. task /= Loop
    BY DEF Loop
  <2>2. \A o \in Owners : open'[o] = open[o] \/ o = task.owner \/ o \in FreedBy(req', InSlot("WRITE"))
    BY Zenon
  <2>3. \A o \in Owners : o \in FreedBy(req', InSlot("WRITE")) => ~HasWaiting(req', o)
    BY Zenon DEF FreedBy, HasWaiting, Waits
  <2> QED BY <2>1, <2>2, <2>3, Zenon DEF OpenKept
<1> HIDE DEF phase
<1> QED BY <1>3, <1>5, <1>10, <1>11, ThinKeeps, Zenon

LEMMA TreeWritesDoneKeeps ==
  ASSUME QueueInv, TreeWritesDone
  PROVE  QueueInv'
<1> DEFINE rec == IF active = 0 THEN OnCard ELSE IF ActiveKind = "WRITE" THEN active ELSE 0
<1>1. /\ task.phase = "writes" /\ task' = Loop /\ bridge' = bridge /\ link' = link
      /\ \/ req' = req /\ active' = active /\ open' = [open EXCEPT ![task.owner] = "gone"]
         \/ /\ req' = FailWrites(req, rec, bridge.st)
            /\ active' = (IF active = 0 THEN rec ELSE active)
            /\ open' = [o \in Owners |-> IF o = task.owner \/ o \in FreedBy(req', InSlot("WRITE"))
                                           THEN "gone" ELSE open[o]]
  BY Zenon DEF TreeWritesDone
<1> QED BY <1>1, TreeGoes, TreeFails, Zenon

(* A CLOSE whose turn it is: finalizeClose(), with the WRITEs sent after it. *)
LEMMA StartCloseKeeps ==
  ASSUME QueueInv, NEW i \in Ids, StartClose(i)
  PROVE  QueueInv'
<1> DEFINE o == req[i].owner
<1> DEFINE late == {j \in InSlot("WRITE") : req[j].owner = o}
<1> DEFINE left == IF late = {} THEN req ELSE FailWrites(req, 0, "idle")
<1> DEFINE S == IF late = {} THEN {} ELSE Writes
<1> DEFINE T == late \cup {i} \cup InSlot("WRITE")
<1>1. /\ Turn(i) /\ req[i].kind = "CLOSE" /\ Valid(i)
      /\ active' = active /\ bridge' = bridge /\ link' = link /\ task' = task
      /\ \E answer \in {"ok", "error"} : req' = Out(left, {i}, answer)
      /\ open' = [p \in Owners |-> IF p \in FreedBy(req', T) THEN "gone"
                                   ELSE IF p = o THEN "closed" ELSE open[p]]
  BY Zenon DEF StartClose, Finalize
<1>2. PICK answer \in {"ok", "error"} : req' = Out(left, {i}, answer)
  BY <1>1, Zenon
<1>3. /\ active = 0 /\ bridge = Idle /\ Waits(req[i]) /\ Barred(i) /\ RequestOK(req[i])
      /\ "CLOSE" /= "WRITE"
  <2>1. "CLOSE" /= "WRITE"
    OBVIOUS
  <2> QED BY <1>1, <2>1, TurnFacts, RequestFacts, Zenon
<1>4. S \in SUBSET Pending /\ i \notin S /\ S \subseteq T
  BY <1>1, <1>3, WritesFacts, Zenon
<1>5. \A j \in Ids : left[j] = IF j \in S THEN Ended(req[j], "error") ELSE req[j]
  <2>1. FailWrites(req, 0, "idle") = Out(req, Writes \ {0}, "error")
    BY Zenon DEF FailWrites, Writes
  <2>2. 0 \notin Writes
    BY WritesFacts, IdsFacts, Zenon
  <2>3. \A j \in Ids : Out(req, Writes \ {0}, "error")[j] = IF j \in Writes THEN Ended(req[j], "error") ELSE req[j]
    BY <2>2, Zenon DEF Out, Ended
  <2> HIDE DEF late
  <2> QED BY <2>1, <2>3, Zenon
<1>6. /\ req' = [j \in Ids |-> req'[j]]
      /\ \A j \in Ids : req'[j] = IF j = i THEN Ended(left[j], answer) ELSE left[j]
  <2> HIDE DEF left
  <2> QED BY <1>2, Zenon DEF Out, Ended
<1> HIDE DEF left, S, late
<1>7. ASSUME NEW j \in Ids
      PROVE  /\ j = i => EndsWell(req[j], req'[j], answer)
             /\ j \in S => EndsWell(req[j], req'[j], "error")
             /\ j /= i /\ j \notin S => req'[j] = req[j]
  <2>1. CASE j = i
    <3>1. req'[i] = Ended(req[i], answer)
      BY <1>4, <1>5, <1>6, Zenon
    <3>2. MayEnd(req[i], answer)
      BY <1>1, <1>3 DEF MayEnd, Io
    <3> QED BY <1>3, <1>4, <2>1, <3>1, <3>2, EndedOK, Zenon
  <2>2. CASE j \in S
    <3>1. req'[j] = Ended(req[j], "error") /\ Waits(req[j]) /\ RequestOK(req[j])
      BY <1>4, <1>5, <1>6, <2>2, PendingFacts, RequestFacts, Zenon
    <3>2. MayEnd(req[j], "error")
      BY <3>1 DEF MayEnd
    <3> QED BY <1>4, <2>2, <3>1, <3>2, EndedOK, Zenon
  <2>3. CASE j /= i /\ j \notin S
    BY <1>5, <1>6, <2>3, Zenon
  <2> QED BY <2>1, <2>2, <2>3, Zenon
<1>8. Evolves
  <2>1. \A j \in Ids : RequestOK(req'[j]) /\ Follows(req[j], req'[j])
    BY <1>7, RequestFacts, Zenon DEF EndsWell, Follows
  <2>2. \A j \in Ids : req'[j] \in Requests
    BY <2>1, Zenon DEF RequestOK
  <2>3. req' \in [Ids -> Requests]
    BY <1>6, <2>2, Zenon
  <2> QED BY <2>1, <2>3, Zenon DEF Evolves
<1>9. Thins(0, "window")
  BY <1>7, <1>8, IdsFacts, Zenon DEF Thins, EndsWell
<1>10. NoneSucceeds
  <2> SUFFICES ASSUME NEW f \in Ids, req'[f].said = <<"ok">>
               PROVE  req[f].said = <<"ok">> \/ Barred(f)
    BY Zenon DEF NoneSucceeds
  <2>1. f \notin S
    <3>1. "error" /= "ok"
      OBVIOUS
    <3> QED BY <1>7, <3>1, Zenon DEF EndsWell
  <2> QED BY <1>3, <1>7, <2>1, Zenon
<1>11. Lands(0, "window") /\ "window" \in Recovery
  <2>1. Lands(0, "window")
    BY <1>1, <1>3, Zenon DEF Lands
  <2> QED BY <2>1 DEF Recovery
<1>12. Covers(T)
  <2> SUFFICES ASSUME NEW j \in Ids, Waits(req[j]), ~Waits(req'[j]) PROVE j \in T
    BY Zenon DEF Covers
  <2> QED BY <1>4, <1>7, Zenon
<1>13. open' \in [Owners -> {"open", "closed", "gone"}]
  <2>1. open \in [Owners -> {"open", "closed", "gone"}]
    BY Zenon DEF QueueInv, OpenOK
  <2> HIDE DEF o, T
  <2> QED BY <1>1, <2>1
<1>14. \A p \in Owners : p \in FreedBy(req', T) \/ open[p] = "gone" => open'[p] = "gone"
  <2>1. open[o] /= "gone"
    BY <1>1 DEF Valid
  <2> HIDE DEF o, T
  <2> QED BY <1>1, <2>1, Zenon
<1>15. KeepsFreed
  <2> HIDE DEF T
  <2> QED BY <1>1, <1>8, <1>12, <1>13, <1>14, FreeMore, Zenon
<1>16. OpenKept
  BY <1>1, <1>3, Zenon DEF OpenKept
<1> QED BY <1>1, <1>9, <1>10, <1>11, <1>15, <1>16, ThinKeeps, Zenon

-----------------------------------------------------------------------------
(* A connection is lost.                                                   *)

(* What cleanupClient() makes of a request it drops, and of one it keeps.  *)
Dropped(r) == [r EXCEPT !.at = "done", !.live = FALSE, !.left = 0, !.phase = "new"]
Orphan(r) ==
  [r EXCEPT !.live = FALSE, !.replied = @ \/ r.kind \in {"WRITE", "DIR"},
            !.cancel = IF r.kind = "WRITE" THEN r.phase \in Recovery
                       ELSE IF r.kind = "DIR" THEN @ ELSE TRUE]

LEMMA DroppedOK ==
  ASSUME NEW r, RequestOK(r), Waits(r)
  PROVE  LET s == Dropped(r) IN
         RequestOK(s) /\ Follows(r, s) /\ ~Waits(s) /\ s.said = r.said /\ s.kind = r.kind /\ ~s.live
<1> DEFINE s == Dropped(r)
<1>1. r \in Requests
  BY Zenon DEF RequestOK
<1>2. 0 \in 0..Windows /\ "new" \in Phases /\ "done" \in {"unsent", "queued", "slot", "done"}
  BY QueueAssumption DEF Phases
<1>3. s \in Requests
  BY <1>1, <1>2, Zenon DEF Requests, Dropped
<1>4. /\ s.at = "done" /\ s.kind = r.kind /\ s.owner = r.owner /\ s.size = r.size /\ s.left = 0
      /\ s.moved = r.moved /\ s.cancel = r.cancel /\ s.live = FALSE /\ s.replied = r.replied
      /\ s.said = r.said /\ s.phase = "new"
  BY <1>1 DEF Requests, Dropped
<1>5. ~Waits(s) /\ s.at /= "unsent" /\ s.at /= "queued" /\ s.at \in {"queued", "slot", "done"}
      /\ r.at /= "unsent"
  BY <1>4 DEF Waits
<1> HIDE DEF s
<1>6. PlaceOK(s) /\ AnswerOK(s) /\ PhaseOK(s)
  BY <1>4, <1>5, Zenon DEF RequestOK, PlaceOK, AnswerOK, PhaseOK
<1>7. Follows(r, s)
  BY <1>4, <1>5, Zenon DEF Follows, Settled
<1> QED BY <1>3, <1>4, <1>5, <1>6, <1>7, Zenon DEF RequestOK, s

LEMMA OrphanOK ==
  ASSUME NEW r, RequestOK(r), Waits(r)
  PROVE  LET s == Orphan(r) IN
         /\ RequestOK(s) /\ Follows(r, s) /\ Waits(s) /\ ~s.live
         /\ s.at = r.at /\ s.said = r.said /\ s.kind = r.kind /\ s.owner = r.owner /\ s.size = r.size
         /\ s.left = r.left /\ s.moved = r.moved /\ s.phase = r.phase
<1> DEFINE replied == r.replied \/ r.kind \in {"WRITE", "DIR"}
<1> DEFINE cancel == IF r.kind = "WRITE" THEN r.phase \in Recovery
                     ELSE IF r.kind = "DIR" THEN r.cancel ELSE TRUE
<1> DEFINE s == [r EXCEPT !.live = FALSE, !.replied = replied, !.cancel = cancel]
<1>1. r \in Requests
  BY Zenon DEF RequestOK
<1>2. replied \in BOOLEAN /\ cancel \in BOOLEAN
  <2>1. r.cancel \in BOOLEAN /\ r.replied \in BOOLEAN
    BY <1>1, Zenon DEF Requests
  <2>2. replied \in BOOLEAN
    BY Zenon
  <2>3. cancel \in BOOLEAN
    <3>1. CASE r.kind = "WRITE"
      <4>1. cancel = (r.phase \in Recovery)
        BY <3>1, Zenon
      <4>2. (r.phase \in Recovery) \in BOOLEAN
        <5>1. CASE r.phase \in Recovery
          BY <5>1
        <5>2. CASE r.phase \notin Recovery
          BY <5>2
        <5> QED BY <5>1, <5>2, Zenon
      <4> HIDE DEF cancel
      <4> QED BY <4>1, <4>2, Zenon
    <3>2. CASE r.kind /= "WRITE"
      BY <2>1, <3>2, Zenon
    <3> QED BY <3>1, <3>2, Zenon
  <2> QED BY <2>2, <2>3, Zenon
<1>3. s = Orphan(r)
  BY Zenon DEF Orphan
<1>4. s \in Requests
  <2> HIDE DEF replied, cancel
  <2> QED BY <1>1, <1>2, Zenon DEF Requests
<1>5. /\ s.at = r.at /\ s.kind = r.kind /\ s.owner = r.owner /\ s.size = r.size /\ s.left = r.left
      /\ s.moved = r.moved /\ s.live = FALSE
      /\ s.said = r.said /\ s.phase = r.phase
  <2> HIDE DEF replied, cancel
  <2> QED BY <1>1 DEF Requests
<1>6. s.replied = replied
  <2> HIDE DEF replied, cancel
  <2> QED BY <1>1 DEF Requests
<1>7. r.at /= "unsent" /\ r.at /= "done" /\ r.at \in {"queued", "slot", "done"}
  BY DEF Waits
<1>8. s.kind = "WRITE" => s.replied
  <2>1. r.kind = "WRITE" => replied
    BY Zenon
  <2> HIDE DEF replied, cancel, s
  <2> QED BY <1>5, <1>6, <2>1, Zenon
<1> HIDE DEF s, replied, cancel
<1>9. Waits(s) /\ (Io(s) <=> Io(r))
  BY <1>5, Zenon DEF Waits, Io
<1>10. PlaceOK(s) /\ AnswerOK(s)
  BY <1>5, <1>7, <1>9, Zenon DEF RequestOK, PlaceOK, AnswerOK
<1>11. PhaseOK(s)
  BY <1>5, <1>8, <1>9, Zenon DEF RequestOK, PhaseOK
<1>12. Follows(r, s)
  BY <1>5, <1>7, Zenon DEF Follows, Settled
<1> QED BY <1>3, <1>4, <1>5, <1>9, <1>10, <1>11, <1>12, Zenon DEF RequestOK

(* A lost connection leaves its WRITEs and what the card is busy with. *)
Stays(i) == req[i].kind = "WRITE" \/ (active = i /\ bridge /= Idle)
Fades(o) ==
  \A i \in Ids : req'[i] = IF i \in Pending /\ req[i].owner = o
                             THEN IF Stays(i) THEN Orphan(req[i]) ELSE Dropped(req[i])
                           ELSE req[i]

(* What became of one request. *)
Faded(r, s) ==
  /\ s.said = r.said /\ s.kind = r.kind /\ s.owner = r.owner /\ ~s.live
  /\ RequestOK(s) /\ Follows(r, s)
FadedOn(r, s) ==
  /\ Faded(r, s) /\ Waits(s) /\ s.at = r.at /\ s.phase = r.phase
  /\ s.left = r.left /\ s.moved = r.moved /\ s.size = r.size
FadedOut(r, s) == Faded(r, s) /\ ~Waits(s)

LEMMA FadesOne ==
  ASSUME QueueInv, NEW o \in Owners, Fades(o), NEW i \in Ids
  PROVE  IF Waits(req[i]) /\ req[i].owner = o
         THEN IF Stays(i) THEN FadedOn(req[i], req'[i]) ELSE FadedOut(req[i], req'[i])
         ELSE req'[i] = req[i]
<1>1. RequestOK(req[i]) /\ (i \in Pending <=> Waits(req[i]))
  <2>1. i \in Pending <=> Waits(req[i])
    BY Zenon DEF Pending, Waits
  <2> QED BY <2>1, RequestFacts, Zenon
<1>2. CASE Waits(req[i]) /\ req[i].owner = o /\ Stays(i)
  <2>1. req'[i] = Orphan(req[i])
    BY <1>1, <1>2, Zenon DEF Fades
  <2> QED BY <1>1, <1>2, <2>1, OrphanOK, Zenon DEF FadedOn, Faded
<1>3. CASE Waits(req[i]) /\ req[i].owner = o /\ ~Stays(i)
  <2>1. req'[i] = Dropped(req[i])
    BY <1>1, <1>3, Zenon DEF Fades
  <2>2. req'[i].owner = req[i].owner
    <3>1. RequestOK(req'[i]) /\ Follows(req[i], req'[i])
      BY <1>1, <1>3, <2>1, DroppedOK, Zenon
    <3> QED BY <1>1, <3>1, FollowsFacts, Zenon
  <2> QED BY <1>1, <1>3, <2>1, <2>2, DroppedOK, Zenon DEF FadedOut, Faded
<1>4. CASE ~(Waits(req[i]) /\ req[i].owner = o)
  BY <1>1, <1>4, Zenon DEF Fades
<1> QED BY <1>2, <1>3, <1>4, Zenon

(* The requests of a step in which the owner's connection is lost, all at
   once. *)
LEMMA FadesEvolves ==
  ASSUME QueueInv, NEW o \in Owners, Fades(o), req' = [i \in Ids |-> req'[i]]
  PROVE  /\ Evolves
         /\ \A i \in Ids : req'[i].said = req[i].said /\ req'[i].kind = req[i].kind
         /\ \A i \in Ids : req[i].owner /= o \/ ~Waits(req[i]) => req'[i] = req[i]
         /\ \A i \in Ids : Waits(req'[i]) =>
              /\ req'[i].at = req[i].at /\ req'[i].phase = req[i].phase /\ Waits(req[i])
              /\ req'[i].left = req[i].left /\ req'[i].moved = req[i].moved
              /\ req'[i].size = req[i].size
         /\ \A i \in Ids : Waits(req[i]) /\ Stays(i) => Waits(req'[i])
         /\ \A i \in Ids : Waits(req'[i]) /\ req[i].owner = o => Stays(i) /\ ~req'[i].live
<1>1. ASSUME NEW i \in Ids
      PROVE  /\ RequestOK(req'[i]) /\ Follows(req[i], req'[i])
             /\ req'[i].said = req[i].said /\ req'[i].kind = req[i].kind
             /\ req[i].owner /= o \/ ~Waits(req[i]) => req'[i] = req[i]
             /\ Waits(req'[i]) =>
                  /\ req'[i].at = req[i].at /\ req'[i].phase = req[i].phase /\ Waits(req[i])
                  /\ req'[i].left = req[i].left /\ req'[i].moved = req[i].moved
                  /\ req'[i].size = req[i].size
             /\ Waits(req[i]) /\ Stays(i) => Waits(req'[i])
             /\ Waits(req'[i]) /\ req[i].owner = o => Stays(i) /\ ~req'[i].live
  <2>1. CASE Waits(req[i]) /\ req[i].owner = o /\ Stays(i)
    <3>1. FadedOn(req[i], req'[i])
      BY <2>1, FadesOne, Zenon
    <3> QED BY <2>1, <3>1, Zenon DEF FadedOn, Faded
  <2>2. CASE Waits(req[i]) /\ req[i].owner = o /\ ~Stays(i)
    <3>1. FadedOut(req[i], req'[i])
      BY <2>2, FadesOne, Zenon
    <3> QED BY <2>2, <3>1, Zenon DEF FadedOut, Faded
  <2>3. CASE ~(Waits(req[i]) /\ req[i].owner = o)
    <3>1. req'[i] = req[i]
      BY <2>3, FadesOne, Zenon
    <3> QED BY <2>3, <3>1, RequestFacts, Zenon DEF Follows
  <2> QED BY <2>1, <2>2, <2>3, Zenon
<1>2. Evolves
  <2>1. \A i \in Ids : req'[i] \in Requests
    BY <1>1, Zenon DEF RequestOK
  <2>2. req' \in [Ids -> Requests]
    BY <2>1, Zenon
  <2> QED BY <1>1, <2>2, Zenon DEF Evolves
<1> QED BY <1>1, <1>2, Zenon

(* The card keeps what it was busy with. *)
LEMMA FadesCard ==
  ASSUME QueueInv, NEW o \in Owners, Fades(o), req' = [i \in Ids |-> req'[i]],
         active' = active, bridge' = bridge
  PROVE  CardOK'
<1>1. ActiveOK' /\ RecoveryIsActive'
  <2>1. ASSUME active /= 0
        PROVE  /\ active \in Ids /\ req'[active].at = "slot" /\ req'[active].kind /= "CLOSE"
               /\ bridge = Idle => req'[active].kind = "WRITE" /\ req'[active].phase = "submit"
    <3>1. active \in Ids /\ Waits(req[active]) /\ req[active].at = "slot" /\ req[active].kind /= "CLOSE"
      BY <2>1, ActiveFacts, Zenon
    <3>2. bridge = Idle => req[active].kind = "WRITE" /\ req[active].phase = "submit"
      BY <2>1, Zenon DEF QueueInv, ActiveOK
    <3>3. Stays(active)
      BY <3>2, Zenon DEF Stays
    <3> QED BY <3>1, <3>2, <3>3, FadesEvolves, Zenon
  <2>2. active \in Ids \cup {0}
    BY Zenon DEF QueueInv, ActiveOK
  <2>3. ActiveOK'
    BY <2>1, <2>2, Zenon DEF ActiveOK, Ids, Idle
  <2>4. RecoveryIsActive'
    <3> SUFFICES ASSUME NEW i \in Ids, Waits(req'[i]), req'[i].kind = "WRITE",
                        req'[i].phase \in Recovery
                 PROVE  active = i
      BY Zenon DEF RecoveryIsActive, Ids, Recovery
    <3>1. Waits(req[i]) /\ req[i].kind = "WRITE" /\ req[i].phase \in Recovery
      BY FadesEvolves, Zenon
    <3> QED BY <3>1, Zenon DEF QueueInv, RecoveryIsActive
  <2> QED BY <2>3, <2>4
<1>2. BridgeOK'
  <2>1. Own => Own'
    BY Zenon DEF Own
  <2>2. ASSUME LeftBehind PROVE LeftBehind'
    <3>1. bridge.for \in Ids /\ ~Waits(req[bridge.for])
      BY <2>2 DEF LeftBehind, Waits
    <3>2. req'[bridge.for] = req[bridge.for]
      BY <3>1, FadesEvolves, Zenon
    <3>3. active /= 0 => req'[active].kind = "WRITE" /\ req'[active].phase = "window"
      <4> SUFFICES ASSUME active /= 0 PROVE req'[active].kind = "WRITE" /\ req'[active].phase = "window"
        OBVIOUS
      <4>1. active \in Ids /\ Waits(req[active])
        BY ActiveFacts, Zenon
      <4>2. req[active].kind = "WRITE" /\ req[active].phase = "window"
        BY <2>2, Zenon DEF LeftBehind
      <4>3. Stays(active)
        BY <4>2, Zenon DEF Stays
      <4> QED BY <4>1, <4>2, <4>3, FadesEvolves, Zenon
    <3> QED BY <2>2, <3>1, <3>2, <3>3, Zenon DEF LeftBehind, Ids
  <2> QED BY <2>1, <2>2, Zenon DEF QueueInv, BridgeOK, Ids, Idle
<1>3. CountOK'
  <2> SUFFICES ASSUME NEW i \in Ids, Counted(i)'
               PROVE  req'[i].moved + req'[i].left = req'[i].size + Credit(i)'
    BY Zenon DEF CountOK, Ids
  <2>1. Waits(req'[i]) /\ Io(req'[i]) /\ req'[i].phase \notin Recovery
    BY Zenon DEF Counted, Io, Recovery
  <2>2. Counted(i)
    BY <2>1, FadesEvolves, Zenon DEF Counted, Io
  <2>3. Credit(i)' = Credit(i)
    BY Zenon DEF Credit
  <2>4. req'[i].moved = req[i].moved /\ req'[i].left = req[i].left /\ req'[i].size = req[i].size
    BY <2>1, FadesEvolves, Zenon
  <2>5. req[i].moved + req[i].left = req[i].size + Credit(i)
    BY <2>2, Zenon DEF QueueInv, CountOK
  <2> QED BY <2>3, <2>4, <2>5, Zenon
<1> QED BY <1>1, <1>2, <1>3, Zenon DEF CardOK

(* cleanupClient(): the file goes with the last of the requests. *)
LEMMA DisconnectFacts ==
  ASSUME NEW o \in Owners, Disconnect(o), QueueInv
  PROVE  /\ task = Loop /\ link[o] = "up" /\ link' = [link EXCEPT ![o] = "gone"]
         /\ Fades(o) /\ req' = [i \in Ids |-> req'[i]]
         /\ active' = active /\ bridge' = bridge /\ task' = task
         /\ \/ open' = [open EXCEPT ![o] = "gone"]
                 /\ \A i \in Ids : Waits(req[i]) /\ req[i].owner = o => ~Stays(i)
            \/ open' = open /\ \E i \in Ids : Waits(req[i]) /\ req[i].owner = o /\ Stays(i)
<1> DEFINE mine == {i \in Pending : req[i].owner = o}
<1> DEFINE inFlight(i) == active = i /\ bridge /= Idle
<1> DEFINE drop == {i \in mine : req[i].kind /= "WRITE" /\ ~inFlight(i)}
<1>1. /\ task = Loop /\ link[o] = "up" /\ link' = [link EXCEPT ![o] = "gone"]
      /\ active' = active /\ bridge' = bridge /\ task' = task
  BY Zenon DEF Disconnect
<1>2. req' = [i \in Ids |-> IF i \in drop THEN Dropped(req[i])
                            ELSE IF i \in mine THEN Orphan(req[i]) ELSE req[i]]
  BY Zenon DEF Disconnect, Dropped, Orphan
<1>3. IF mine \subseteq drop THEN open' = [open EXCEPT ![o] = "gone"] ELSE open' = open
  BY Zenon DEF Disconnect
<1>4. ASSUME NEW i \in Ids
      PROVE  /\ i \in Pending <=> Waits(req[i])
             /\ i \in drop <=> i \in mine /\ ~Stays(i)
             /\ i \in mine <=> i \in Pending /\ req[i].owner = o
  <2>1. i \in Pending <=> Waits(req[i])
    BY Zenon DEF Pending, Waits
  <2>2. Stays(i) <=> req[i].kind = "WRITE" \/ inFlight(i)
    BY Zenon DEF Stays
  <2> QED BY <2>1, <2>2, Zenon
<1>5. mine \subseteq Ids
  BY Zenon DEF Pending
<1> HIDE DEF mine, drop
<1>6. req' = [i \in Ids |-> req'[i]]
  BY <1>2, Zenon
<1>7. Fades(o)
  BY <1>2, <1>4, Zenon DEF Fades
<1>8. CASE mine \subseteq drop
  BY <1>1, <1>3, <1>4, <1>6, <1>7, <1>8, Zenon
<1>9. CASE ~(mine \subseteq drop)
  <2>1. PICK i \in mine : i \notin drop
    BY <1>9, Zenon
  <2>2. i \in Ids /\ Waits(req[i]) /\ req[i].owner = o /\ Stays(i)
    BY <1>4, <1>5, <2>1, Zenon
  <2> QED BY <1>1, <1>3, <1>6, <1>7, <1>9, <2>2, Zenon
<1> QED BY <1>8, <1>9, Zenon

LEMMA DisconnectKeeps ==
  ASSUME QueueInv, NEW o \in Owners, Disconnect(o)
  PROVE  QueueInv'
<1>1. /\ task = Loop /\ link[o] = "up" /\ link' = [link EXCEPT ![o] = "gone"]
      /\ Fades(o) /\ req' = [i \in Ids |-> req'[i]]
      /\ active' = active /\ bridge' = bridge /\ task' = task
      /\ \/ open' = [open EXCEPT ![o] = "gone"]
              /\ \A i \in Ids : Waits(req[i]) /\ req[i].owner = o => ~Stays(i)
         \/ open' = open /\ \E i \in Ids : Waits(req[i]) /\ req[i].owner = o /\ Stays(i)
  BY DisconnectFacts, Zenon
<1>2. /\ Evolves
      /\ \A i \in Ids : req'[i].said = req[i].said /\ req'[i].kind = req[i].kind
      /\ \A i \in Ids : req[i].owner /= o \/ ~Waits(req[i]) => req'[i] = req[i]
      /\ \A i \in Ids : Waits(req[i]) /\ Stays(i) => Waits(req'[i])
      /\ \A i \in Ids : Waits(req'[i]) /\ req[i].owner = o => Stays(i) /\ ~req'[i].live
  BY <1>1, FadesEvolves, Zenon
<1>3. CardOK'
  BY <1>1, FadesCard, Zenon
<1>4. open \in [Owners -> {"open", "closed", "gone"}] /\ link \in [Owners -> {"up", "gone"}]
  BY Zenon DEF QueueInv, OpenOK
<1>5. /\ OpenOK'
      /\ \A p \in Owners : p /= o => open'[p] = open[p] /\ link'[p] = link[p]
      /\ link'[o] = "gone"
  <2>1. link' \in [Owners -> {"up", "gone"}] /\ open' \in [Owners -> {"open", "closed", "gone"}]
    BY <1>1, <1>4, Zenon
  <2>2. \A p \in Owners : p /= o => open'[p] = open[p] /\ link'[p] = link[p]
    BY <1>1, <1>4, Zenon
  <2>3. link'[o] = "gone"
    BY <1>1, <1>4, Zenon
  <2> QED BY <2>1, <2>2, <2>3, Zenon DEF OpenOK
<1>6. PassingOK'
  <2>1. KeepsBarriers
    <3> SUFFICES ASSUME NEW f \in Ids, Passing(f)' PROVE req[f].at /= "unsent" /\ Barred(f)
      BY Zenon DEF KeepsBarriers
    <3>1. Passing(f)
      BY <1>1, <1>2, Zenon DEF Passing
    <3> QED BY <3>1, PassingFacts, Zenon
  <2> QED BY <1>2, <2>1, KeepsPassing, Zenon
<1>7. LostOK'
  <2> SUFFICES ASSUME NEW i \in Ids, Waits(req'[i]), link'[req'[i].owner] = "gone"
               PROVE  ~req'[i].live /\ (req'[i].kind = "WRITE" \/ (active' = i /\ bridge' /= Idle))
    BY Zenon DEF LostOK, Ids, Idle
  <2>1. Waits(req[i]) /\ req'[i].owner = req[i].owner /\ req'[i].kind = req[i].kind
    BY <1>2, EvolvesFacts, Zenon
  <2>2. req[i].owner \in Owners
    BY <2>1, RequestFacts, Zenon DEF RequestOK, PlaceOK
  <2>3. CASE req[i].owner = o
    BY <1>1, <1>2, <2>1, <2>3, Zenon DEF Stays
  <2>4. CASE req[i].owner /= o
    <3>1. link[req[i].owner] = "gone" /\ req'[i] = req[i]
      BY <1>2, <1>5, <2>1, <2>2, <2>4, Zenon
    <3> QED BY <1>1, <2>1, <3>1, Zenon DEF QueueInv, LostOK
  <2> QED BY <2>3, <2>4, Zenon
<1>8. FilesFreed'
  <2> SUFFICES ASSUME NEW p \in Owners, link'[p] = "gone",
                      \A i \in Ids : Waits(req'[i]) => req'[i].owner /= p
               PROVE  open'[p] = "gone"
    BY Zenon DEF FilesFreed, Pending, Waits, Ids
  <2>1. CASE p = o
    <3>1. ASSUME open' = open, NEW i \in Ids, Waits(req[i]), req[i].owner = o, Stays(i)
          PROVE  FALSE
      <4>1. Waits(req'[i]) /\ req'[i].owner = req[i].owner
        BY <1>2, <3>1, EvolvesFacts, Zenon
      <4> QED BY <2>1, <3>1, <4>1, Zenon
    <3>2. open' = [open EXCEPT ![o] = "gone"]
      BY <1>1, <3>1, Zenon
    <3> QED BY <1>4, <2>1, <3>2, Zenon
  <2>2. CASE p /= o
    <3>1. ASSUME NEW i \in Ids, Waits(req[i]) PROVE req[i].owner /= p
      <4> SUFFICES ASSUME req[i].owner = p PROVE FALSE
        OBVIOUS
      <4>1. req'[i] = req[i]
        BY <1>2, <2>2, Zenon
      <4> QED BY <3>1, <4>1, Zenon
    <3>2. link[p] = "gone" /\ open'[p] = open[p]
      BY <1>5, <2>2, Zenon
    <3> QED BY <3>1, <3>2, Zenon DEF QueueInv, FilesFreed, Pending, Waits
  <2> QED BY <2>1, <2>2, Zenon
<1>9. ValidOK'
  <2> SUFFICES ASSUME Polite, active /= 0, Resizes(req'[active])
               PROVE  open'[req'[active].owner] = "open"
    BY <1>1, Zenon DEF ValidOK, Resizes
  <2>1. active \in Ids /\ Waits(req[active]) /\ req[active].kind /= "WRITE"
    <3>1. active \in Ids /\ Waits(req[active])
      BY ActiveFacts, Zenon
    <3>2. req'[active].kind /= "WRITE"
      BY DEF Resizes
    <3> QED BY <1>2, <3>1, <3>2, Zenon
  <2>2. Resizes(req[active]) /\ req'[active].owner = req[active].owner
    BY <1>2, <2>1, EvolvesFacts, Zenon DEF Resizes
  <2>3. open[req[active].owner] = "open"
    BY <2>2, Zenon DEF QueueInv, ValidOK
  <2>4. Stays(active)
    BY <2>1, Zenon DEF QueueInv, ActiveOK, Stays
  <2>5. req[active].owner \in Owners
    BY <2>1, RequestFacts, Zenon DEF RequestOK, PlaceOK
  <2>6. CASE req[active].owner = o
    <3>1. open' = open
      BY <1>1, <2>1, <2>4, <2>6, Zenon
    <3> QED BY <2>2, <2>3, <3>1, Zenon
  <2>7. CASE req[active].owner /= o
    BY <1>5, <2>2, <2>3, <2>5, <2>7, Zenon
  <2> QED BY <2>6, <2>7, Zenon
<1>10. TaskOK'
  BY <1>1, <1>2, KeepsTask, Zenon
<1> QED
  BY <1>2, <1>3, <1>5, <1>6, <1>7, <1>8, <1>9, <1>10, KeepsRequests, KeepsOrder, Zenon
     DEF QueueInv, CardOK

-----------------------------------------------------------------------------
(* Every step.                                                             *)

LEMMA FirstQueue == Init => QueueInv
<1> SUFFICES ASSUME Init PROVE QueueInv
  OBVIOUS
<1>1. /\ req = [i \in Ids |-> Unsent] /\ active = 0 /\ bridge = Idle
      /\ open = [o \in Owners |-> "open"] /\ link = [o \in Owners |-> "up"] /\ task = Loop
  BY Zenon DEF Init
<1>2. \A i \in Ids : req[i] = Unsent
  BY <1>1, Zenon
<1>3. RequestOK(Unsent) /\ ~Waits(Unsent) /\ Unsent.kind = "none" /\ Unsent.at = "unsent"
  <2>1. /\ Unsent.kind = "none" /\ Unsent.at = "unsent" /\ Unsent.owner = NoOwner
        /\ Unsent.said = <<>>
    BY DEF Unsent
  <2>2. ~Waits(Unsent) /\ ~Io(Unsent)
    BY <2>1 DEF Waits, Io
  <2>3. Unsent.at /= "queued" /\ Unsent.at /= "done" /\ Unsent.kind /= "READ"
    BY <2>1
  <2>4. PlaceOK(Unsent) /\ AnswerOK(Unsent) /\ PhaseOK(Unsent)
    BY <2>1, <2>2, <2>3, Zenon DEF PlaceOK, AnswerOK, PhaseOK
  <2> QED BY <2>1, <2>2, <2>4, UnsentTyped, Zenon DEF RequestOK
<1>4. RequestsOK /\ IdsInOrder
  <2>1. req \in [Ids -> Requests]
    BY <1>1, UnsentTyped, Zenon
  <2> QED BY <1>2, <1>3, <2>1, Zenon DEF RequestsOK, IdsInOrder
<1>5. ActiveOK /\ RecoveryIsActive
  BY <1>1, <1>2, <1>3, Zenon DEF ActiveOK, RecoveryIsActive
<1>6. BridgeOK
  <2>1. Idle \in [st : {"idle", "busy", "ok", "bad"}, for : Ids \cup {0}]
    BY DEF Idle
  <2> QED BY <1>1, <2>1, Zenon DEF BridgeOK
<1>7. CountOK
  BY <1>2, <1>3, Zenon DEF CountOK, Counted
<1>8. PassingOK
  <2>1. "none" \notin {"FLUSH", "CLOSE"}
    OBVIOUS
  <2>2. \A f \in Ids : ~Passing(f)
    BY <1>1, <1>2, <1>3, <2>1, IdsFacts, Zenon DEF Passing
  <2> QED BY <2>2, Zenon DEF PassingOK
<1>9. LostOK /\ ValidOK /\ OpenOK
  <2>1. LostOK
    BY <1>2, <1>3, Zenon DEF LostOK
  <2>2. ValidOK
    BY <1>1, Zenon DEF ValidOK
  <2>3. OpenOK
    BY <1>1 DEF OpenOK
  <2> QED BY <2>1, <2>2, <2>3, Zenon
<1>10. TaskOK
  <2>1. Loop \in [phase : {"loop", "reads", "writes"}, owner : Owners \cup {NoOwner}]
    BY DEF Loop
  <2> QED BY <1>1, <2>1, Zenon DEF TaskOK
<1>11. FilesFreed
  <2>1. "up" /= "gone"
    OBVIOUS
  <2>2. \A o \in Owners : link[o] = "up"
    BY <1>1, Zenon
  <2> QED BY <2>1, <2>2, Zenon DEF FilesFreed
<1> QED BY <1>4, <1>5, <1>6, <1>7, <1>8, <1>9, <1>10, <1>11, Zenon DEF QueueInv

LEMMA ClientKeeps ==
  ASSUME QueueInv, Client
  PROVE  QueueInv'
<1>1. CASE \E i \in Ids : Cancel(i)
  BY <1>1, CancelKeeps, Zenon
<1>2. ASSUME NEW o \in Owners,
             \/ \E n \in 1..Windows : SendRead(o, n) \/ SendWrite(o, n)
             \/ SendDirectory(o) \/ SendCreate(o) \/ SendClose(o)
             \/ \E kind \in Kinds : SendBarrier(o, kind)
      PROVE  QueueInv'
  BY <1>2, SendsAny, Zenon
<1>3. ASSUME NEW o \in Owners, WriteNow(o) \/ CreateNow(o)
      PROVE  QueueInv'
  BY <1>3, AnswersNow, Zenon
<1>4. ASSUME NEW o \in Owners, CloseNow(o) \/ Disconnect(o) \/ Logoff(o) \/ TreeDisconnect(o)
      PROVE  QueueInv'
  BY <1>4, CloseNowKeeps, DisconnectKeeps, LogoffKeeps, TreeDisconnectKeeps, Zenon
<1> QED BY <1>1, <1>2, <1>3, <1>4, Zenon DEF Client

LEMMA PollKeeps ==
  ASSUME QueueInv, PollRead \/ PollWrite \/ PollDirectory \/ PollChain \/ PollClose
  PROVE  QueueInv'
<1>1. CASE PollRead
  BY <1>1, TakeReadKeeps, DropKeeps, StartReadKeeps, PromoteKeeps, Zenon DEF PollRead
<1>2. CASE PollWrite
  BY <1>2, TakeWriteKeeps, DropKeeps, StartWriteKeeps, RecoverKeeps, Zenon DEF PollWrite
<1>3. CASE PollDirectory
  BY <1>3, StartChainKeeps, AnswerDirectoryKeeps, LostKeeps, Zenon DEF PollDirectory
<1>4. CASE PollChain
  BY <1>4, TakeChainKeeps, Zenon DEF PollChain
<1>5. CASE PollClose
  BY <1>5, StartCloseKeeps, DropKeeps, Zenon DEF PollClose
<1> QED BY <1>1, <1>2, <1>3, <1>4, <1>5, Zenon

LEMMA NextQueue ==
  ASSUME QueueInv, [Next]_vars
  PROVE  QueueInv'
<1>1. CASE UNCHANGED vars
  <2>1. /\ req' = req /\ active' = active /\ bridge' = bridge /\ link' = link /\ open' = open
        /\ task' = task
    BY <1>1 DEF vars
  <2> QED BY <2>1, Unchanged, Zenon
<1>2. CASE ContinuationEnds
  <2>1. /\ req' = req /\ active' = active /\ bridge' = bridge /\ link' = link /\ open' = open
        /\ task' = task
    BY <1>2, Zenon DEF ContinuationEnds
  <2> QED BY <2>1, Unchanged, Zenon
<1>3. CASE TimeOut
  BY <1>3, ReadTimeOutKeeps, WriteTimeOutKeeps, DirectoryTimeOutKeeps, CreateTimeOutKeeps, Zenon
     DEF TimeOut
<1>4. CASE Client
  BY <1>4, ClientKeeps, Zenon
<1>5. CASE PollRead \/ PollWrite \/ PollDirectory \/ PollChain \/ PollClose
  BY <1>5, PollKeeps, Zenon
<1>6. CASE Answer \/ TreeReadsDone \/ TreeWritesDone
  BY <1>6, AnswerKeeps, TreeReadsDoneKeeps, TreeWritesDoneKeeps, Zenon
<1> QED BY <1>1, <1>2, <1>3, <1>4, <1>5, <1>6, Zenon DEF Next

-----------------------------------------------------------------------------
(* The theorems.                                                           *)

(* The invariant of the queues: nextAsyncVfsServiceSequence(), the polls,
   the time-outs, failAsyncWrites() and cleanupClient() keep what
   RequestOK and its companions say of every request. *)
THEOREM QueueInvariant == Spec => []QueueInv
<1>1. Init => QueueInv
  BY FirstQueue
<1>2. QueueInv /\ [Next]_vars => QueueInv'
  BY NextQueue
<1> QED BY <1>1, <1>2, PTL DEF Spec

(* Whoever times out, is cancelled, loses its connection or has its WRITEs
   failed, the exchange that vfsBridge carries is the active request's:
   while clients do not throw away, by LOGOFF or TREE_DISCONNECT, a file a
   FLUSH or SET_EOF works on. *)
THEOREM QueueResultIsOwn ==
  ASSUME Polite
  PROVE  Spec => []ResultIsOwn
<1>1. QueueInv => ResultIsOwn
  <2> SUFFICES ASSUME QueueInv, bridge /= Idle PROVE bridge.for = active /\ active \in Pending
    BY Zenon DEF ResultIsOwn
  <2>1. active /= 0 /\ bridge.for = active
    BY Zenon DEF QueueInv, BridgeOK, Own, LeftBehind
  <2> QED BY <2>1, ActiveFacts, Zenon DEF Pending, Waits
<1> QED BY <1>1, QueueInvariant, PTL

(* completeAsync...() and every failAsync...() answer a request once; a READ
   or WRITE succeeds when all its windows were moved; nothing leaves a queue
   unanswered while its client is there. *)
THEOREM QueueOneTrueAnswer == Spec => []OneTrueAnswer
<1>1. QueueInv => OneTrueAnswer
  <2> SUFFICES ASSUME QueueInv, NEW i \in Ids
               PROVE  /\ Len(req[i].said) <= 1
                      /\ req[i].kind \in {"READ", "WRITE"} /\ req[i].said = <<"ok">>
                           => req[i].moved = req[i].size
                      /\ req[i].at = "done" /\ req[i].live => Len(req[i].said) = 1
    BY Zenon DEF OneTrueAnswer
  <2>1. RequestOK(req[i])
    BY RequestFacts, Zenon
  <2>2. req[i].said \in Said
    BY <2>1, Zenon DEF RequestOK, Requests
  <2>3. Len(req[i].said) <= 1 /\ (req[i].said /= <<>> => Len(req[i].said) = 1)
    <3>1. CASE req[i].said = <<>>
      BY <3>1
    <3>2. CASE req[i].said = <<"ok">>
      BY <3>2
    <3>3. CASE req[i].said = <<"error">>
      BY <3>3
    <3> QED BY <2>2, <3>1, <3>2, <3>3, Zenon DEF Said
  <2> QED BY <2>1, <2>3, Zenon DEF RequestOK, AnswerOK, Io
<1> QED BY <1>1, QueueInvariant, PTL

(* hasPendingPhysicalWorkForHandle() and the order of the sequences: FLUSH
   and CLOSE come after the WRITEs sent before them, whichever owners
   nextAsyncVfsServiceSequence() serves in between. *)
THEOREM QueueBarrierHolds == Spec => []BarrierHolds
<1>1. QueueInv => BarrierHolds
  <2> SUFFICES ASSUME QueueInv, NEW f \in Ids, req[f].kind \in {"FLUSH", "CLOSE"},
                      req[f].said = <<"ok">>, NEW w \in 1..f-1,
                      req[w].kind = "WRITE", req[w].owner = req[f].owner
               PROVE  req[w].at = "done" \/ req[w].cancel \/ ~req[w].live
    BY Zenon DEF BarrierHolds
  <2>1. w \in Ids /\ w < f
    BY QueueAssumption DEF Ids
  <2>2. Barred(f)
    BY PassingFacts, Zenon DEF Passing
  <2> QED BY <2>1, <2>2, Zenon DEF Barred, Settled
<1> QED BY <1>1, QueueInvariant, PTL

(* cleanupClient() and releaseDetachedOwnerIfIdle(): the file and the tree of
   a lost connection are freed with the last of its requests. *)
THEOREM QueueFilesFreed == Spec => []FilesFreed
<1>1. QueueInv => FilesFreed
  BY Zenon DEF QueueInv
<1> QED BY <1>1, QueueInvariant, PTL
=============================================================================
