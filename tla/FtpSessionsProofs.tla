------------------------- MODULE FtpSessionsProofs -------------------------
(***************************************************************************)
(* FtpSessions, proved for any number of sessions, any sizes and bounds:   *)
(* one command has the card, a queued line belongs to its client, and the  *)
(* bytes of a download or an upload are those of the command that moves    *)
(* them.                                                                   *)
(***************************************************************************)
EXTENDS FtpSessions, TLAPS

Pcs == {"storReset", "storData", "storOpen", "storLoop", "storWrite",
        "storAbort", "storCommit", "storDelete",
        "retrStat", "retrReset", "retrOpen", "retrData", "retrLoop",
        "retrRead", "retrClose", "retrGiveUp",
        "listOpen", "listData", "listRead",
        "mfmtStat", "mfmtOpen", "mfmtSet", "mfmtClose", "one"}
Ops == {"none", "reset", "openWrite", "openRead", "openRandom", "write",
        "read", "readDir", "commit", "abort", "delete", "other"}
Lines == [id : Nat, cmd : Cmds \cup {"none"}, client : Nat]
Slots == [client : Nat, loggedIn : BOOLEAN,
          endpoint : {"none", "passive", "active"}, queued : Lines]
Data == [live : BOOLEAN, unread : 0..MaxChunks, eof : BOOLEAN]
Runs == [slot : Session, id : Nat, client : Nat, pc : Pcs, asked : BOOLEAN,
         size : Nat, sent : Nat, failed : BOOLEAN, alien : BOOLEAN]
Bridges == [pending : BOOLEAN, answered : BOOLEAN, ok : BOOLEAN,
            op : Ops, by : Nat, count : Nat]
Stors == [eof : BOOLEAN, error : BOOLEAN, received : Nat, cut : BOOLEAN]
Files == [by : Nat, chunks : Seq(Nat), received : Nat, cut : BOOLEAN]

(* The sessions: types, nobody is logged in without a connection, and a queued
   line is of the client who is there. *)
SessionInv ==
  /\ clients \in Nat
  /\ slots \in [Session -> Slots]
  /\ data \in [Session -> Data]
  /\ \A s \in Session :
       /\ slots[s].client <= clients
       /\ slots[s].loggedIn => slots[s].client # NoClient
       /\ slots[s].queued # NoLine =>
            /\ slots[s].queued.client = slots[s].client
            /\ slots[s].queued.cmd \in Cmds

(* The command being carried out, and its claim on the card and the bridge. *)
StackInv ==
  /\ running \in BOOLEAN /\ lines \in Nat /\ bridge \in Bridges
  /\ \/ stack = <<>> /\ owner = NoSlot
     \/ /\ running /\ Len(stack) = 1 /\ stack = <<Top>> /\ Top \in Runs
        /\ owner = Top.slot /\ ~Top.alien
        /\ Top.asked => bridge.pending /\ bridge.by = Top.id

CardTypes ==
  /\ stor \in Stors
  /\ toCard \in Seq(Nat) /\ Len(toCard) <= RingSize
  /\ fromCard \in Seq(Nat) /\ Len(fromCard) <= RingSize
  /\ file \in Seq(Nat) /\ published \in Files

Own(seq, id) == \A i \in 1..Len(seq) : seq[i] = id
Waits(op) == Top.asked /\ bridge.pending /\ bridge.op = op
Opened(mode) == bridge.answered /\ bridge.ok => open = mode

(* A STOR between its "reset" and its commit: what its data connection has
   brought is in the ring or in the file, and nothing else is. *)
StorPhase ==
  /\ Top.pc = "storReset" /\ Top.asked =>
       bridge.op = "reset" /\ (bridge.answered => toCard = <<>>)
  /\ Top.pc = "storData" => ~bridge.pending /\ toCard = <<>>
  /\ Top.pc = "storOpen" =>
       /\ Waits("openWrite") /\ Opened("write")
       /\ bridge.answered /\ bridge.ok => file = <<>>
       /\ Len(toCard) = stor.received /\ Own(toCard, Top.id)
  /\ Top.pc \in {"storLoop", "storWrite"} =>
       /\ open = "write"
       /\ Len(file) + Len(toCard) = stor.received
       /\ Own(file, Top.id) /\ Own(toCard, Top.id)
  /\ Top.pc = "storLoop" => ~bridge.pending
  /\ Top.pc = "storWrite" => Waits("write")
  /\ Top.pc \in {"storOpen", "storLoop", "storWrite"} =>
       stor.received + data[Top.slot].unread <= MaxChunks

(* A RETR from its "reset" to its last byte. *)
RetrPhase ==
  /\ Top.pc = "retrReset" /\ Top.asked =>
       bridge.op = "reset" /\ (bridge.answered => fromCard = <<>>)
  /\ Top.pc = "retrOpen" => Waits("openRead") /\ Opened("read")
  /\ Top.pc \in {"retrData", "retrLoop"} => ~bridge.pending
  /\ Top.pc = "retrRead" => Waits("read")
  /\ Top.pc \in {"retrData", "retrLoop", "retrRead"} => open = "read"
  /\ Top.pc \in {"retrOpen", "retrData", "retrLoop", "retrRead"} =>
       Own(fromCard, Top.id)

MfmtPhase ==
  /\ Top.pc = "mfmtOpen" => Waits("openRandom") /\ Opened("random")
  /\ Top.pc = "mfmtSet" => Waits("other") /\ open = "random"

(* A commit that core 1 has not carried out yet finds the upload as the STOR
   left it, also when the STOR has given up waiting. *)
CommitInv ==
  (/\ bridge.pending /\ ~bridge.answered
   /\ bridge.op = "commit" /\ open = "write") =>
       Len(file) + Len(toCard) = stor.received /\ Own(file, bridge.by)

PhaseInv == stack # <<>> => StorPhase /\ RetrPhase /\ MfmtPhase

FtpInv == /\ SessionInv /\ StackInv /\ CardTypes
          /\ PhaseInv /\ CommitInv /\ PublishedIsReceived

-----------------------------------------------------------------------------
(* Facts about the helpers. *)

LEMMA OutcomeFacts ==
  ASSUME bridge \in Bridges, NEW o \in Outcomes
  PROVE  \/ /\ Top.asked /\ bridge.answered
            /\ o.ok = bridge.ok /\ o.count = bridge.count
            /\ o.after = IdleBridge
         \/ /\ ~Top.asked \/ bridge.op \in Slow
            /\ o.ok = FALSE /\ o.count = 0 /\ o.after = bridge
  BY DEF Outcomes

(* A fresh command, what asking the bridge makes of it, and its end. *)
LEMMA IdleTyped == IdleBridge \in Bridges /\ IdleBridge.pending = FALSE
  BY DEF IdleBridge, Bridges, Ops

Requested(op, id) ==
  [IdleBridge EXCEPT !.pending = TRUE, !.by = id, !.op = op]

LEMMA RequestedFacts ==
  ASSUME NEW op \in Ops, NEW id \in Nat
  PROVE  /\ Requested(op, id) \in Bridges
         /\ Requested(op, id).pending = TRUE
         /\ Requested(op, id).answered = FALSE
         /\ Requested(op, id).op = op /\ Requested(op, id).by = id
<1>1. Requested(op, id) \in Bridges
  BY IdleTyped, Zenon DEF Bridges, Requested
<1>2. Requested(op, id).pending = TRUE  BY Zenon DEF IdleBridge, Requested
<1>3. Requested(op, id).answered = FALSE  BY Zenon DEF IdleBridge, Requested
<1>4. Requested(op, id).op = op  BY Zenon DEF IdleBridge, Requested
<1>5. Requested(op, id).by = id  BY Zenon DEF IdleBridge, Requested
<1> QED  BY <1>1, <1>2, <1>3, <1>4, <1>5, Zenon

LEMMA RequestedIs ==
  ASSUME NEW op \in Ops, NEW id \in Nat, bridge' = Requested(op, id)
  PROVE  /\ bridge' \in Bridges
         /\ bridge'.pending = TRUE /\ bridge'.answered = FALSE
         /\ bridge'.op = op /\ bridge'.by = id
<1> DEFINE new == Requested(op, id)
<1>1. /\ new \in Bridges /\ new.pending = TRUE /\ new.answered = FALSE
      /\ new.op = op /\ new.by = id
  BY RequestedFacts, Zenon
<1>2. bridge' = new  OBVIOUS
<1> HIDE DEF new
<1> QED  BY <1>1, <1>2, Zenon

(* A run carried on: the same command, not waiting for an answer it has. *)
Carried(run) ==
  /\ stack' = <<Top'>> /\ Len(stack') = 1 /\ stack' # <<>> /\ Top' \in Runs
  /\ Top'.slot = run.slot /\ Top'.id = run.id /\ Top'.alien = run.alien

LEMMA OnlyRun ==
  ASSUME NEW new, stack' = <<new>>
  PROVE  Top' = new /\ stack' = <<Top'>> /\ Len(stack') = 1 /\ stack' # <<>>
  BY SMT DEF Top

LEMMA CarryOn ==
  ASSUME NEW run \in Runs, NEW pc \in Pcs, NEW a \in BOOLEAN,
         Len(stack) = 1, stack = <<Top>>,
         stack' = <<[run EXCEPT !.pc = pc, !.asked = a]>> \o Tail(stack)
  PROVE  Carried(run) /\ Top'.pc = pc /\ Top'.asked = a
<1> DEFINE new == [run EXCEPT !.pc = pc, !.asked = a]
<1>1. Tail(stack) = <<>>  BY SMT
<1>2. stack' = <<new>> \o Tail(stack)  BY Zenon
<1>3. new \in Runs  BY Zenon DEF Runs
<1>4. /\ new.slot = run.slot /\ new.id = run.id /\ new.alien = run.alien
      /\ new.pc = pc /\ new.asked = a
  BY Zenon DEF Runs
<1> HIDE DEF new
<1>5. stack' = <<new>>  BY <1>1, <1>2, SMT
<1>6. Top' = new /\ stack' = <<Top'>> /\ Len(stack') = 1 /\ stack' # <<>>
  BY <1>5, OnlyRun, Zenon
<1> QED  BY <1>3, <1>4, <1>6, Zenon DEF Carried

LEMMA AskFacts ==
  ASSUME NEW after \in Bridges, NEW run \in Runs,
         NEW op \in Ops, NEW count \in Nat, NEW pc \in Pcs,
         Len(stack) = 1, stack = <<Top>>,
         Ask(after, run, op, count, pc)
  PROVE  /\ Carried(run) /\ Top'.pc = pc /\ bridge' \in Bridges
         /\ \/ /\ after.pending = FALSE /\ Top'.asked = TRUE
               /\ bridge'.pending = TRUE /\ bridge'.answered = FALSE
               /\ bridge'.op = op /\ bridge'.by = run.id
            \/ /\ after.pending = TRUE /\ Top'.asked = FALSE
               /\ bridge' = after
<1> DEFINE free == ~after.pending
<1> DEFINE request == [pending |-> TRUE, answered |-> FALSE, ok |-> FALSE,
                       op |-> op, by |-> run.id, count |-> count]
<1>1. stack' = <<[run EXCEPT !.pc = pc, !.asked = free]>> \o Tail(stack)
  BY Zenon DEF Ask
<1>2. after.pending = TRUE \/ after.pending = FALSE  BY SMT DEF Bridges
<1>3. CASE after.pending = TRUE
  <2>1. free = FALSE  BY <1>3, Zenon
  <2>2. stack' = <<[run EXCEPT !.pc = pc, !.asked = FALSE]>> \o Tail(stack)
    BY <1>1, <2>1, Zenon
  <2>3. Carried(run) /\ Top'.pc = pc /\ Top'.asked = FALSE
    BY <2>2, CarryOn, Zenon
  <2>4. bridge' = after  BY <1>3, Zenon DEF Ask
  <2> QED  BY <1>3, <2>3, <2>4, Zenon
<1>4. CASE after.pending = FALSE
  <2>1. free = TRUE  BY <1>4, Zenon
  <2>2. stack' = <<[run EXCEPT !.pc = pc, !.asked = TRUE]>> \o Tail(stack)
    BY <1>1, <2>1, Zenon
  <2>3. Carried(run) /\ Top'.pc = pc /\ Top'.asked = TRUE
    BY <2>2, CarryOn, Zenon
  <2>4. bridge' = request  BY <1>4, Zenon DEF Ask
  <2>5. request \in Bridges  BY SMT DEF Bridges, Runs
  <2>6. /\ request.pending = TRUE /\ request.answered = FALSE
        /\ request.op = op /\ request.by = run.id
    BY Zenon
  <2> HIDE DEF request
  <2> QED  BY <1>4, <2>3, <2>4, <2>5, <2>6, Zenon
<1> QED  BY <1>2, <1>3, <1>4, Zenon

LEMMA BecomeFacts ==
  ASSUME NEW run \in Runs, Len(stack) = 1, stack = <<Top>>, Become(run)
  PROVE  Carried(run) /\ Top'.pc = run.pc /\ Top'.asked = FALSE
<1> DEFINE new == [run EXCEPT !.asked = FALSE]
<1>1. Tail(stack) = <<>>  BY SMT
<1>2. stack' = <<new>> \o Tail(stack)  BY Zenon DEF Become
<1>3. new \in Runs  BY Zenon DEF Runs
<1>4. /\ new.slot = run.slot /\ new.id = run.id /\ new.alien = run.alien
      /\ new.pc = run.pc /\ new.asked = FALSE
  BY Zenon DEF Runs
<1> HIDE DEF new
<1>5. stack' = <<new>>  BY <1>1, <1>2, SMT
<1>6. Top' = new /\ stack' = <<Top'>> /\ Len(stack') = 1 /\ stack' # <<>>
  BY <1>5, OnlyRun, Zenon
<1> QED  BY <1>3, <1>4, <1>6, Zenon DEF Carried

LEMMA EndFacts ==
  ASSUME NEW after, Len(stack) = 1, stack = <<Top>>, owner = Top.slot,
         End(after)
  PROVE  stack' = <<>> /\ owner' = NoSlot /\ bridge' = after
<1>1. Tail(stack) = <<>>  BY SMT
<1> QED  BY <1>1, Zenon DEF End, Release

LEMMA BeginFacts ==
  ASSUME FtpAssumption, NEW s \in Session, NEW line \in Lines,
         line.cmd \in Cmds, stack = <<>>, bridge \in Bridges, Begin(s, line)
  PROVE  /\ owner' = s /\ stack' = <<Top'>> /\ Len(stack') = 1
         /\ stack' # <<>> /\ Top' \in Runs /\ Top'.alien = FALSE
         /\ Top'.slot = s /\ Top'.pc = FirstStep[line.cmd].pc
         /\ Top'.id = line.id
         /\ bridge' \in Bridges
         /\ \/ bridge.pending = TRUE /\ Top'.asked = FALSE /\ bridge' = bridge
            \/ /\ bridge.pending = FALSE /\ Top'.asked = TRUE
               /\ bridge'.pending = TRUE /\ bridge'.answered = FALSE
               /\ bridge'.op = FirstStep[line.cmd].op
               /\ bridge'.by = line.id
<1> DEFINE run(a) == [slot |-> s, id |-> line.id, client |-> line.client,
                 pc |-> FirstStep[line.cmd].pc, asked |-> a,
                 size |-> 0, sent |-> 0, failed |-> FALSE, alien |-> FALSE]
<1> DEFINE asks == ~bridge.pending
<1>0. FirstStep[line.cmd].pc \in Pcs /\ FirstStep[line.cmd].op \in Ops
  BY SMT DEF FirstStep, Cmds, Pcs, Ops
<1>1. \A a \in BOOLEAN : run(a) \in Runs  BY <1>0, SMT DEF Runs, Lines
<1>2. stack' = <<run(asks)>> \o stack  BY Zenon DEF Begin
<1>3. bridge.pending = TRUE \/ bridge.pending = FALSE  BY SMT DEF Bridges
<1>4. CASE bridge.pending = TRUE
  <2>1. asks = FALSE  BY <1>4, Zenon
  <2>2. stack' = <<run(FALSE)>> \o stack  BY <1>2, <2>1, Zenon
  <2>3. stack' = <<run(FALSE)>>  BY <2>2, SMT
  <2>4. Top' = run(FALSE)  BY <2>3, SMT DEF Top
  <2>5. bridge' = bridge /\ owner' = s  BY <1>4, Zenon DEF Begin
  <2>6. Top' \in Runs  BY <1>1, <2>4, Zenon
  <2>7. stack' = <<Top'>> /\ Len(stack') = 1 /\ stack' # <<>>
    BY <2>3, <2>4, SMT
  <2> QED  BY <1>4, <2>4, <2>5, <2>6, <2>7, SMT
<1>5. CASE bridge.pending = FALSE
  <2>1. asks = TRUE  BY <1>5, Zenon
  <2>2. stack' = <<run(TRUE)>> \o stack  BY <1>2, <2>1, Zenon
  <2>3. stack' = <<run(TRUE)>>  BY <2>2, SMT
  <2>4. Top' = run(TRUE)  BY <2>3, SMT DEF Top
  <2>5. /\ owner' = s
        /\ bridge' = Requested(FirstStep[line.cmd].op, line.id)
    BY <1>5, Zenon DEF Begin, Requested
  <2>6. Top' \in Runs  BY <1>1, <2>4, Zenon
  <2>7. stack' = <<Top'>> /\ Len(stack') = 1 /\ stack' # <<>>
    BY <2>3, <2>4, SMT
  <2>8. line.id \in Nat  BY SMT DEF Lines
  <2>9. /\ bridge' \in Bridges
        /\ bridge'.pending = TRUE /\ bridge'.answered = FALSE
        /\ bridge'.op = FirstStep[line.cmd].op /\ bridge'.by = line.id
    BY <1>0, <2>5, <2>8, RequestedIs, Zenon
  <2>10. /\ Top'.alien = FALSE /\ Top'.slot = s /\ Top'.id = line.id
         /\ Top'.pc = FirstStep[line.cmd].pc /\ Top'.asked = TRUE
    BY <2>4, Zenon
  <2> QED  BY <1>5, <2>5, <2>6, <2>7, <2>9, <2>10, Zenon
<1> QED  BY <1>3, <1>4, <1>5

-----------------------------------------------------------------------------
(* What the helpers do to the sessions. *)

LEMMA FreshFacts ==
  ASSUME NEW s, NEW client \in Nat
  PROVE  /\ Fresh(s, client) \in Slots
         /\ Fresh(s, client).client = client
         /\ Fresh(s, client).loggedIn = FALSE
         /\ Fresh(s, client).queued = NoLine
<1>1. NoLine \in Lines  BY SMT DEF NoLine, Lines, NoClient
<1> QED  BY <1>1, Zenon DEF Fresh, Slots

LEMMA DataFacts ==
  ASSUME FtpAssumption
  PROVE  NoData \in Data /\ NewData \in Data
         /\ NoData.unread = 0 /\ NewData.unread = 0
<1>1. 0 \in 0..MaxChunks  BY SMT DEF FtpAssumption
<1> QED  BY <1>1, Zenon DEF Data, NoData, NewData

(* The fields of one session change as the helpers change them. *)
SlotEnded(s) == slots' = [slots EXCEPT ![s] = Fresh(s, NoClient)]
SlotEndpoint(s) ==
  \E e \in {"none", "passive", "active"} :
    slots' = [slots EXCEPT ![s].endpoint = e]

LEMMA SessionStep ==
  ASSUME FtpAssumption, SessionInv, NEW s \in Session, clients' = clients,
         slots' = slots \/ SlotEnded(s) \/ SlotEndpoint(s),
         \/ data' = data \/ data' = [data EXCEPT ![s] = NoData]
         \/ data' = [data EXCEPT ![s] = NewData]
  PROVE  /\ SessionInv'
         /\ data'[s].unread \in Nat /\ data'[s].unread <= data[s].unread
<1>1. /\ data' \in [Session -> Data]
      /\ data'[s].unread \in Nat /\ data'[s].unread <= data[s].unread
  BY DataFacts, SMT DEF SessionInv, Data, FtpAssumption
<1>2. CASE slots' = slots
  BY <1>1, <1>2, SMT DEF SessionInv
<1>3. CASE SlotEnded(s)
  <2>1. NoClient \in Nat  BY SMT DEF NoClient
  <2>2. /\ Fresh(s, NoClient) \in Slots
        /\ Fresh(s, NoClient).client = NoClient
        /\ Fresh(s, NoClient).loggedIn = FALSE
        /\ Fresh(s, NoClient).queued = NoLine
    BY <2>1, FreshFacts, Zenon
  <2>3. slots' \in [Session -> Slots]
    BY <1>3, <2>2, Zenon DEF SlotEnded, SessionInv
  <2>4. \A t \in Session : t # s => slots'[t] = slots[t]
    BY <1>3, SMT DEF SlotEnded, SessionInv
  <2>5. slots'[s] = Fresh(s, NoClient)  BY <1>3, SMT DEF SlotEnded, SessionInv
  <2>6. /\ slots'[s].client = NoClient /\ slots'[s].loggedIn = FALSE
        /\ slots'[s].queued = NoLine
    BY <2>2, <2>5, Zenon
  <2> QED  BY <1>1, <2>3, <2>4, <2>6, SMT DEF SessionInv, NoClient
<1>4. CASE SlotEndpoint(s)
  <2>1. PICK e \in {"none", "passive", "active"} :
          slots' = [slots EXCEPT ![s].endpoint = e]
    BY <1>4, Zenon DEF SlotEndpoint
  <2>2. [slots[s] EXCEPT !.endpoint = e] \in Slots
    <3>1. slots[s] \in Slots  BY Zenon DEF SessionInv
    <3> QED  BY <3>1, Zenon DEF Slots
  <2>3. slots' = [slots EXCEPT ![s] = [slots[s] EXCEPT !.endpoint = e]]
    BY <2>1, Zenon
  <2>4. slots' \in [Session -> Slots]
    BY <2>2, <2>3, Zenon DEF SessionInv
  <2>5. \A t \in Session : /\ slots'[t].client = slots[t].client
                           /\ slots'[t].loggedIn = slots[t].loggedIn
                           /\ slots'[t].queued = slots[t].queued
    BY <2>1, SMT DEF SessionInv, Slots
  <2> QED  BY <1>1, <2>4, <2>5, SMT DEF SessionInv
<1> QED  BY <1>2, <1>3, <1>4

Helped(s) ==
  \/ UNCHANGED <<slots, data>>
  \/ UNCHANGED slots /\ data' = [data EXCEPT ![s] = NoData]
  \/ Dropped(s) \/ Replied(s) \/ Refused(s) \/ ClosedAndReplied(s)
  \/ Connected(s) \/ NotConnected(s)

LEMMA HelperStep ==
  ASSUME FtpAssumption, SessionInv, NEW s \in Session, clients' = clients,
         Helped(s)
  PROVE  /\ SessionInv'
         /\ data'[s].unread \in Nat /\ data'[s].unread <= data[s].unread
<1>1. ClosePassive(s) \in {"none", "passive", "active"}
  BY SMT DEF ClosePassive, SessionInv, Slots
<1>2. slots' = slots \/ SlotEnded(s) \/ SlotEndpoint(s)
  BY <1>1, Zenon DEF Helped, Dropped, Replied, Refused, ClosedAndReplied,
       Connected, NotConnected, SlotEnded, SlotEndpoint
<1>3. \/ data' = data \/ data' = [data EXCEPT ![s] = NoData]
      \/ data' = [data EXCEPT ![s] = NewData]
  BY Zenon DEF Helped, Dropped, Replied, Refused, ClosedAndReplied,
       Connected, NotConnected
<1> QED  BY <1>2, <1>3, SessionStep, Zenon

-----------------------------------------------------------------------------
(* A step of the command being carried out. *)

LEMMA Carrying ==
  ASSUME FtpInv, stack # <<>>
  PROVE  /\ Len(stack) = 1 /\ stack = <<Top>> /\ Top \in Runs
         /\ Top.slot \in Session /\ owner = Top.slot /\ running
         /\ Top.alien = FALSE /\ bridge \in Bridges
         /\ StorPhase /\ RetrPhase /\ MfmtPhase
<1>1. Len(stack) = 1 /\ stack = <<Top>> /\ Top \in Runs
      /\ owner = Top.slot /\ running /\ ~Top.alien /\ bridge \in Bridges
  BY SMT DEF FtpInv, StackInv
<1>2. Top.alien = FALSE /\ Top.slot \in Session  BY <1>1, Zenon DEF Runs
<1> QED  BY <1>1, <1>2, Zenon DEF FtpInv, PhaseInv

Same == /\ running' = running /\ lines' = lines
        /\ toCard' = toCard /\ file' = file /\ open' = open

(* What a wait leaves of the bridge. *)
LeftBy(after) == after \in {IdleBridge, bridge}

(* The same command, further on. *)
Continues(run) ==
  /\ run \in Runs /\ run.slot = Top.slot /\ run.id = Top.id
  /\ run.alien = FALSE

(* stor is reset only while no request can be pending. *)
StorKept == stor'.received = stor.received \/ bridge.pending = FALSE

(* The command ends with what the wait for its request has left. *)
LEMMA EndStep ==
  ASSUME FtpInv, stack # <<>>, Same, stor' = stor,
         NEW after, LeftBy(after), End(after)
  PROVE  StackInv' /\ PhaseInv' /\ CommitInv'
<1>1. Len(stack) = 1 /\ stack = <<Top>> /\ owner = Top.slot
      /\ bridge \in Bridges
  BY Carrying, Zenon
<1>2. stack' = <<>> /\ owner' = NoSlot /\ bridge' = after
  BY <1>1, EndFacts, Zenon
<1>3. bridge' \in Bridges  BY <1>1, <1>2, IdleTyped, Zenon DEF LeftBy
<1>4. StackInv'  BY <1>2, <1>3, SMT DEF StackInv, FtpInv, Same
<1>5. PhaseInv'  BY <1>2, Zenon DEF PhaseInv
<1>6. CASE after = bridge
  <2>1. bridge' = bridge  BY <1>2, <1>6, Zenon
  <2> QED  BY <2>1, <1>4, <1>5, SMT DEF CommitInv, FtpInv, Same, Own
<1>7. CASE after = IdleBridge
  <2>1. bridge'.pending = FALSE  BY <1>2, <1>7, IdleTyped, Zenon
  <2>2. CommitInv'  BY <2>1, Zenon DEF CommitInv
  <2> QED  BY <2>2, <1>4, <1>5, Zenon
<1> QED  BY <1>6, <1>7, Zenon DEF LeftBy

(* It goes on without a request. *)
LEMMA BecomeStep ==
  ASSUME FtpInv, stack # <<>>, Same, owner' = owner,
         stor'.received = stor.received,
         NEW run, Continues(run), Become(run),
         LeftBy(bridge')
  PROVE  /\ StackInv' /\ CommitInv'
         /\ Top'.pc = run.pc /\ Top'.slot = Top.slot /\ Top'.id = Top.id
<1>1. Len(stack) = 1 /\ stack = <<Top>> /\ owner = Top.slot
      /\ running /\ bridge \in Bridges
  BY Carrying, Zenon
<1>0. /\ run \in Runs /\ run.slot = Top.slot /\ run.id = Top.id
      /\ run.alien = FALSE
  BY Zenon DEF Continues
<1>2. Carried(run) /\ Top'.pc = run.pc /\ Top'.asked = FALSE
  BY <1>0, <1>1, BecomeFacts, Zenon
<1>3. bridge' \in Bridges  BY <1>1, IdleTyped, Zenon DEF LeftBy
<1>4. /\ stack' = <<Top'>> /\ Len(stack') = 1 /\ Top' \in Runs
      /\ Top'.slot = Top.slot /\ Top'.id = Top.id /\ ~Top'.alien
      /\ ~Top'.asked
  BY <1>0, <1>2, Zenon DEF Carried
<1>5. StackInv'
  <2>1. running' \in BOOLEAN /\ lines' \in Nat /\ running'
        /\ owner' = Top'.slot
    BY <1>1, <1>4, Zenon DEF StackInv, FtpInv, Same
  <2> QED  BY <2>1, <1>3, <1>4, Zenon DEF StackInv
<1>6. CASE bridge' = bridge
  BY <1>2, <1>4, <1>5, <1>6, SMT DEF CommitInv, FtpInv, Same, Own
<1>7. CASE bridge' = IdleBridge
  <2>1. bridge'.pending = FALSE  BY <1>7, IdleTyped, Zenon
  <2>2. CommitInv'  BY <2>1, Zenon DEF CommitInv
  <2> QED  BY <2>2, <1>2, <1>4, <1>5, Zenon
<1> QED  BY <1>6, <1>7, Zenon DEF LeftBy

(* It asks the bridge; for a commit the upload has to be as it should be. *)
Fits(op, id, received) ==
  \/ op # "commit" \/ open # "write"
  \/ Len(file) + Len(toCard) = received /\ Own(file, id)

(* The request has gone out. *)
Sent(op) == /\ Top'.asked /\ bridge'.pending /\ ~bridge'.answered
            /\ bridge'.op = op

Asks(after, run, op, count, pc) ==
  /\ LeftBy(after) /\ Continues(run)
  /\ op \in Ops /\ count \in Nat /\ pc \in Pcs
  /\ Fits(op, run.id, stor'.received)
  /\ Ask(after, run, op, count, pc)

LEMMA AskStep ==
  ASSUME FtpInv, stack # <<>>, Same, owner' = owner, StorKept,
         NEW after, NEW run, NEW op, NEW count, NEW pc,
         Asks(after, run, op, count, pc)
  PROVE  /\ StackInv' /\ CommitInv'
         /\ Top'.pc = pc /\ Top'.slot = Top.slot /\ Top'.id = Top.id
         /\ after.pending = FALSE => Sent(op)
<1>1. Len(stack) = 1 /\ stack = <<Top>> /\ owner = Top.slot
      /\ running /\ bridge \in Bridges
  BY Carrying, Zenon
<1>0. /\ run \in Runs /\ run.slot = Top.slot /\ run.id = Top.id
      /\ run.alien = FALSE
      /\ LeftBy(after) /\ op \in Ops /\ count \in Nat /\ pc \in Pcs
      /\ Fits(op, run.id, stor'.received)
      /\ Ask(after, run, op, count, pc)
  BY Zenon DEF Continues, Asks
<1>2. after \in Bridges  BY <1>0, <1>1, IdleTyped, Zenon DEF LeftBy
<1>3. /\ Carried(run) /\ Top'.pc = pc /\ bridge' \in Bridges
      /\ \/ /\ after.pending = FALSE /\ Top'.asked = TRUE
            /\ bridge'.pending = TRUE /\ bridge'.answered = FALSE
            /\ bridge'.op = op /\ bridge'.by = run.id
         \/ /\ after.pending = TRUE /\ Top'.asked = FALSE
            /\ bridge' = after
  BY <1>0, <1>1, <1>2, AskFacts, Zenon
<1>4. /\ stack' = <<Top'>> /\ Len(stack') = 1 /\ Top' \in Runs
      /\ Top'.slot = Top.slot /\ Top'.id = Top.id /\ ~Top'.alien
  BY <1>0, <1>3, Zenon DEF Carried
<1>5. Top'.asked => bridge'.pending /\ bridge'.by = Top'.id
  BY <1>0, <1>3, <1>4, Zenon
<1>6. StackInv'
  <2>1. running' \in BOOLEAN /\ lines' \in Nat /\ running'
        /\ owner' = Top'.slot
    BY <1>1, <1>4, Zenon DEF StackInv, FtpInv, Same
  <2> QED  BY <2>1, <1>3, <1>4, <1>5, Zenon DEF StackInv
<1>7. CommitInv'
  <2>1. CASE bridge'.op = op /\ op # "commit"
    BY <2>1, Zenon DEF CommitInv
  <2>2. CASE open # "write"  BY <2>2, Zenon DEF CommitInv, Same
  <2>4. CASE /\ Len(file) + Len(toCard) = stor'.received /\ Own(file, run.id)
             /\ bridge'.by = run.id
    BY <2>4, Zenon DEF CommitInv, Same, Own
  <2>3. CASE after.pending = TRUE /\ bridge' = after
    <3>1. after = bridge /\ bridge.pending = TRUE /\ bridge' = bridge
      BY <1>0, <2>3, IdleTyped, Zenon DEF LeftBy
    <3>2. stor'.received = stor.received  BY <3>1, Zenon DEF StorKept
    <3> QED  BY <3>1, <3>2, SMT DEF CommitInv, FtpInv, Same, Own
  <2> QED  BY <1>0, <1>3, <2>1, <2>2, <2>3, <2>4, Zenon DEF Fits
<1>8. after.pending = FALSE => Sent(op)  BY <1>0, <1>3, Zenon DEF Sent
<1> QED  BY <1>3, <1>4, <1>6, <1>7, <1>8, Zenon

(* Places in a command that the other parts of the invariant say nothing of. *)
FreePcs == {"storAbort", "storCommit", "storDelete", "retrStat", "retrClose",
            "retrGiveUp", "listOpen", "listData", "listRead", "mfmtStat",
            "mfmtClose", "one"}

LEMMA FreePhase ==
  ASSUME Top'.pc \in FreePcs
  PROVE  PhaseInv'
  BY SMT DEF FreePcs, PhaseInv, StorPhase, RetrPhase, MfmtPhase

(* What a wait that has succeeded tells. *)
LEMMA Answered ==
  ASSUME FtpInv, stack # <<>>, NEW o \in Outcomes
  PROVE  /\ LeftBy(o.after) /\ o.ok \in BOOLEAN
         /\ o.ok => /\ Top.asked /\ bridge.answered /\ bridge.ok
                    /\ o.after = IdleBridge /\ o.after.pending = FALSE
<1>1. bridge \in Bridges  BY Carrying, Zenon
<1>2. bridge.ok \in BOOLEAN  BY <1>1, Zenon DEF Bridges
<1> QED  BY <1>1, <1>2, OutcomeFacts, IdleTyped, Zenon DEF LeftBy

LEMMA NewStorTyped == NewStor \in Stors /\ NewStor.received = 0
<1>1. 0 \in Nat  BY SMT
<1> QED  BY <1>1, Zenon DEF NewStor, Stors

Frame == /\ running' = running /\ clients' = clients /\ lines' = lines
         /\ toCard' = toCard /\ open' = open /\ file' = file
         /\ published' = published

LEMMA Numbers ==
  ASSUME FtpAssumption, FtpInv
  PROVE  /\ MaxChunks \in Nat /\ stor.received \in Nat
         /\ \A s \in Session : data[s].unread \in 0..MaxChunks
         /\ \A s \in Session : data[s].unread \in Nat
<1>1. MaxChunks \in Nat  BY Zenon DEF FtpAssumption
<1>2. stor.received \in Nat  BY Zenon DEF FtpInv, CardTypes, Stors
<1>3. \A s \in Session : data[s].unread \in 0..MaxChunks
  BY Zenon DEF FtpInv, SessionInv, Data
<1>4. \A i \in 0..MaxChunks : i \in Nat  BY <1>1, SMT
<1>5. \A s \in Session : data[s].unread \in Nat  BY <1>3, <1>4, Zenon
<1> QED  BY <1>1, <1>2, <1>3, <1>5, Zenon

LEMMA FinishStep ==
  ASSUME FtpAssumption, FtpInv, stack # <<>>, Frame, fromCard' = fromCard,
         stor' = stor, Helped(Top.slot),
         NEW after, LeftBy(after), End(after)
  PROVE  FtpInv'
<1>1. Same  BY Zenon DEF Same, Frame
<1>2. StackInv' /\ PhaseInv' /\ CommitInv'  BY <1>1, EndStep, Zenon
<1>3. Top.slot \in Session  BY Carrying, Zenon
<1>4. SessionInv'  BY <1>3, HelperStep, Zenon DEF FtpInv, Frame
<1>5. CardTypes' /\ PublishedIsReceived'
  BY Zenon DEF CardTypes, FtpInv, Frame, PublishedIsReceived
<1> QED  BY <1>2, <1>4, <1>5, Zenon DEF FtpInv

(* What is left to say when a command goes on where the invariant does speak. *)
LEMMA GoOnStep ==
  ASSUME FtpAssumption, FtpInv, stack # <<>>, Frame,
         stor' \in Stors, Helped(Top.slot),
         fromCard' \in Seq(Nat), Len(fromCard') <= RingSize,
         StackInv', CommitInv', PhaseInv'
  PROVE  FtpInv'
<1>1. Top.slot \in Session  BY Carrying, Zenon
<1>2. SessionInv'  BY <1>1, HelperStep, Zenon DEF FtpInv, Frame
<1>3. CardTypes'  BY Zenon DEF CardTypes, FtpInv, Frame
<1>4. PublishedIsReceived'  BY Zenon DEF FtpInv, Frame, PublishedIsReceived
<1> QED  BY <1>2, <1>3, <1>4, Zenon DEF FtpInv

LEMMA StorDataOpenedStep ==
  ASSUME FtpAssumption, FtpInv, stack # <<>>, Frame, fromCard' = fromCard,
         StorDataOpened
  PROVE  FtpInv'
<1>1. /\ Top \in Runs /\ Top.slot \in Session /\ Top.alien = FALSE
      /\ Top.pc = "storData" /\ bridge.pending = FALSE /\ toCard = <<>>
  <2>1. Top.pc = "storData"  BY Zenon DEF StorDataOpened
  <2>2. ~bridge.pending /\ toCard = <<>> /\ bridge \in Bridges
    BY <2>1, Carrying, Zenon DEF StorPhase
  <2>3. bridge.pending = FALSE  BY <2>2, Zenon DEF Bridges
  <2> QED  BY <2>1, <2>2, <2>3, Carrying, Zenon
<1>2. Same  BY Zenon DEF Same, Frame
<1>3. CASE /\ Connected(Top.slot) /\ stor' = NewStor /\ owner' = owner
           /\ Ask(bridge, Top, "openWrite", 0, "storOpen")
  <2>1. "openWrite" \in Ops /\ "storOpen" \in Pcs /\ 0 \in Nat
        /\ Fits("openWrite", Top.id, stor'.received)
    BY SMT DEF Ops, Pcs, Fits
  <2>2. LeftBy(bridge) /\ Continues(Top) /\ StorKept
    BY <1>1, Zenon DEF Continues, StorKept, LeftBy
  <2>3. /\ StackInv' /\ CommitInv' /\ Top'.pc = "storOpen"
        /\ Top'.slot = Top.slot /\ Top'.id = Top.id
        /\ Sent("openWrite")
    <3>1. Asks(bridge, Top, "openWrite", 0, "storOpen")
      BY <1>3, <2>1, <2>2, Zenon DEF Asks
    <3> QED  BY <1>1, <1>2, <1>3, <2>2, <3>1, AskStep, Zenon
  <2>4. Helped(Top.slot)  BY <1>3, Zenon DEF Helped
  <2>5. data'[Top.slot].unread = 0
    <3>1. data'[Top.slot] = NewData
      BY <1>1, <1>3, Zenon DEF Connected, FtpInv, SessionInv
    <3> QED  BY <3>1, DataFacts, Zenon
  <2>6. /\ stor' \in Stors
        /\ fromCard' \in Seq(Nat) /\ Len(fromCard') <= RingSize
    BY <1>3, NewStorTyped, Zenon DEF CardTypes, FtpInv
  <2>7. toCard' = <<>> /\ stor'.received = 0 /\ MaxChunks \in Nat
    BY <1>1, <1>3, NewStorTyped, Zenon DEF Frame, FtpAssumption
  <2>8. PhaseInv'
    BY <2>3, <2>5, <2>7, SMT DEF PhaseInv, StorPhase, RetrPhase, MfmtPhase,
         Waits, Opened, Own, Sent
  <2> QED  BY <2>3, <2>4, <2>6, <2>8, GoOnStep, Zenon
<1>4. CASE NotConnected(Top.slot) /\ End(bridge) /\ stor' = stor
  <2>1. Helped(Top.slot)  BY <1>4, Zenon DEF Helped
  <2>2. LeftBy(bridge)  BY Zenon DEF LeftBy
  <2> QED  BY <1>4, <2>1, <2>2, FinishStep, Zenon
<1> QED  BY <1>3, <1>4, Zenon DEF StorDataOpened

LEMMA StorResetStep ==
  ASSUME FtpAssumption, FtpInv, stack # <<>>, Frame, fromCard' = fromCard,
         StorReset
  PROVE  FtpInv'
<1>1. /\ Top \in Runs /\ Top.slot \in Session /\ Top.alien = FALSE
      /\ Top.pc = "storReset" /\ stor' = stor
  BY Carrying, Zenon DEF StorReset
<1>2. Same  BY Zenon DEF Same, Frame
<1>3. PICK o \in Outcomes :
        \/ /\ o.ok /\ bridge' = o.after
           /\ Become([Top EXCEPT !.pc = "storData"])
           /\ UNCHANGED <<slots, data, owner>>
        \/ ~o.ok /\ Refused(Top.slot) /\ End(o.after)
  BY Zenon DEF StorReset
<1>4. CASE /\ o.ok /\ bridge' = o.after
           /\ Become([Top EXCEPT !.pc = "storData"])
           /\ UNCHANGED <<slots, data, owner>>
  <2> DEFINE run == [Top EXCEPT !.pc = "storData"]
  <2>0. "storData" \in Pcs  BY SMT DEF Pcs
  <2>1. Continues(run) /\ run.pc = "storData"
    BY <1>1, <2>0, Zenon DEF Runs, Continues
  <2> HIDE DEF run
  <2>2. /\ Top.asked /\ bridge.answered
        /\ bridge' = IdleBridge /\ bridge'.pending = FALSE
        /\ LeftBy(bridge')
    BY <1>3, <1>4, Answered, Zenon
  <2>3. toCard' = <<>>
    BY <1>1, <2>2, Carrying, Zenon DEF StorPhase, Frame
  <2>4. Become(run) /\ owner' = owner  BY <1>4, Zenon DEF run
  <2>5. StackInv' /\ CommitInv' /\ Top'.pc = "storData"
    BY <1>1, <1>2, <2>1, <2>2, <2>4, BecomeStep, Zenon
  <2>6. PhaseInv'
    BY <2>2, <2>3, <2>5, SMT DEF PhaseInv, StorPhase, RetrPhase, MfmtPhase
  <2>7. Helped(Top.slot)  BY <1>4, Zenon DEF Helped
  <2>8. /\ stor' \in Stors
        /\ fromCard' \in Seq(Nat) /\ Len(fromCard') <= RingSize
    BY <1>1, Zenon DEF CardTypes, FtpInv
  <2> QED  BY <2>5, <2>6, <2>7, <2>8, GoOnStep, Zenon
<1>5. CASE ~o.ok /\ Refused(Top.slot) /\ End(o.after)
  <2>1. Helped(Top.slot)  BY <1>5, Zenon DEF Helped
  <2>2. LeftBy(o.after)  BY Answered, Zenon
  <2> QED  BY <1>1, <1>5, <2>1, <2>2, FinishStep, Zenon
<1> QED  BY <1>3, <1>4, <1>5, Zenon

LEMMA StorOpenedStep ==
  ASSUME FtpAssumption, FtpInv, stack # <<>>, Frame, fromCard' = fromCard,
         StorOpened
  PROVE  FtpInv'
<1>1. /\ Top \in Runs /\ Top.slot \in Session /\ Top.alien = FALSE
      /\ Top.pc = "storOpen"
  BY Carrying, Zenon DEF StorOpened
<1>2. Same  BY Zenon DEF Same, Frame
<1> DEFINE cut == data'[Top.slot] = NoData /\ ~Complete(Top.slot)
<1>3. PICK o \in Outcomes :
        \/ /\ o.ok /\ bridge' = o.after
           /\ Become([Top EXCEPT !.pc = "storLoop"])
           /\ Replied(Top.slot)
           /\ stor' = [stor EXCEPT !.cut = cut]
           /\ UNCHANGED owner
        \/ /\ ~o.ok /\ ClosedAndReplied(Top.slot) /\ End(o.after)
           /\ UNCHANGED stor
  BY Zenon DEF StorOpened
<1>4. CASE /\ o.ok /\ bridge' = o.after
           /\ Become([Top EXCEPT !.pc = "storLoop"])
           /\ Replied(Top.slot)
           /\ stor' = [stor EXCEPT !.cut = cut]
           /\ UNCHANGED owner
  <2> DEFINE run == [Top EXCEPT !.pc = "storLoop"]
  <2>0. "storLoop" \in Pcs  BY SMT DEF Pcs
  <2>1. Continues(run) /\ run.pc = "storLoop"
    BY <1>1, <2>0, Zenon DEF Runs, Continues
  <2> HIDE DEF run
  <2>2. /\ bridge.answered /\ bridge.ok
        /\ bridge' = IdleBridge /\ bridge'.pending = FALSE
        /\ LeftBy(bridge')
    BY <1>3, <1>4, Answered, Zenon
  <2>3. /\ open = "write" /\ file = <<>> /\ Len(toCard) = stor.received
        /\ Own(toCard, Top.id)
        /\ stor.received + data[Top.slot].unread <= MaxChunks
    BY <1>1, <2>2, Carrying, Zenon DEF StorPhase, Opened
  <2>4. cut \in BOOLEAN
    <3>1. CASE cut  BY <3>1, Zenon
    <3>2. CASE ~cut  BY <3>2, Zenon
    <3> QED  BY <3>1, <3>2, Zenon
  <2>5. stor' \in Stors /\ stor'.received = stor.received
    <3> HIDE DEF cut
    <3>1. stor \in Stors  BY Zenon DEF FtpInv, CardTypes
    <3> QED  BY <1>4, <2>4, <3>1, Zenon DEF Stors
  <2> HIDE DEF cut
  <2>6. Become(run) /\ owner' = owner  BY <1>4, Zenon DEF run
  <2>7. /\ StackInv' /\ CommitInv' /\ Top'.pc = "storLoop"
        /\ Top'.slot = Top.slot /\ Top'.id = Top.id
    BY <1>1, <1>2, <2>1, <2>2, <2>5, <2>6, BecomeStep, Zenon
  <2>8. Helped(Top.slot)  BY <1>4, Zenon DEF Helped
  <2>9. /\ data'[Top.slot].unread \in Nat
        /\ data'[Top.slot].unread <= data[Top.slot].unread
    BY <1>1, <2>8, HelperStep, Zenon DEF FtpInv, Frame
  <2>10. /\ data[Top.slot].unread \in Nat /\ stor.received \in Nat
         /\ MaxChunks \in Nat
    BY <1>1, Numbers, Zenon
  <2>11. PhaseInv'
    BY <2>2, <2>3, <2>5, <2>7, <2>9, <2>10,
       SMT DEF PhaseInv, StorPhase, RetrPhase, MfmtPhase, Own, Frame
  <2>12. fromCard' \in Seq(Nat) /\ Len(fromCard') <= RingSize
    BY Zenon DEF CardTypes, FtpInv
  <2> QED  BY <2>5, <2>7, <2>8, <2>11, <2>12, GoOnStep, Zenon
<1>5. CASE /\ ~o.ok /\ ClosedAndReplied(Top.slot) /\ End(o.after)
           /\ UNCHANGED stor
  <2>1. Helped(Top.slot)  BY <1>5, Zenon DEF Helped
  <2>2. LeftBy(o.after)  BY Answered, Zenon
  <2> QED  BY <1>1, <1>5, <2>1, <2>2, FinishStep, Zenon
<1> QED  BY <1>3, <1>4, <1>5, Zenon

(* The command asks the bridge for something, or goes on, at a place where no
   more is said of it. *)
LEMMA FreeStep ==
  ASSUME FtpAssumption, FtpInv, stack # <<>>, Frame, stor' = stor,
         fromCard' = fromCard, Helped(Top.slot),
         StackInv', CommitInv', Top'.pc \in FreePcs
  PROVE  FtpInv'
<1>1. PhaseInv'  BY FreePhase, Zenon
<1>2. /\ stor' \in Stors
      /\ fromCard' \in Seq(Nat) /\ Len(fromCard') <= RingSize
  BY Zenon DEF CardTypes, FtpInv
<1> QED  BY <1>1, <1>2, GoOnStep, Zenon

LEMMA Counts ==
  ASSUME FtpAssumption, FtpInv
  PROVE  /\ Least(Len(toCard), Window) \in Nat
         /\ Len(toCard) \in Nat /\ Len(fromCard) \in Nat /\ Len(file) \in Nat
<1>1. toCard \in Seq(Nat) /\ fromCard \in Seq(Nat) /\ file \in Seq(Nat)
  BY Zenon DEF FtpInv, CardTypes
<1> QED  BY <1>1, SMT DEF Least, FtpAssumption

(* An upload that has failed is aborted and then deleted. *)
LEMMA AbortStep ==
  ASSUME FtpAssumption, FtpInv, stack # <<>>, Frame, fromCard' = fromCard,
         stor' = stor, owner' = owner, Helped(Top.slot),
         NEW after, LeftBy(after),
         \/ Ask(after, Top, "abort", 0, "storAbort")
         \/ Ask(after, Top, "delete", 0, "storDelete")
  PROVE  FtpInv'
<1>1. Top \in Runs /\ Top.alien = FALSE  BY Carrying, Zenon
<1>2. Same /\ StorKept /\ Continues(Top)
  BY <1>1, Zenon DEF Same, Frame, StorKept, Continues
<1>3. /\ {"abort", "delete"} \subseteq Ops
      /\ {"storAbort", "storDelete"} \subseteq Pcs
      /\ {"storAbort", "storDelete"} \subseteq FreePcs /\ 0 \in Nat
      /\ Fits("abort", Top.id, stor'.received)
      /\ Fits("delete", Top.id, stor'.received)
  BY SMT DEF Ops, Pcs, FreePcs, Fits
<1>4. CASE Ask(after, Top, "abort", 0, "storAbort")
  <2>1. "abort" \in Ops /\ "storAbort" \in Pcs  BY <1>3, Zenon
  <2>2. StackInv' /\ CommitInv' /\ Top'.pc = "storAbort"
    <3>1. Asks(after, Top, "abort", 0, "storAbort")
      BY <1>2, <1>3, <1>4, <2>1, Zenon DEF Asks
    <3> QED  BY <1>2, <3>1, AskStep, Zenon
  <2> QED  BY <1>3, <2>2, FreeStep, Zenon
<1>5. CASE Ask(after, Top, "delete", 0, "storDelete")
  <2>1. "delete" \in Ops /\ "storDelete" \in Pcs  BY <1>3, Zenon
  <2>2. StackInv' /\ CommitInv' /\ Top'.pc = "storDelete"
    <3>1. Asks(after, Top, "delete", 0, "storDelete")
      BY <1>2, <1>3, <1>5, <2>1, Zenon DEF Asks
    <3> QED  BY <1>2, <3>1, AskStep, Zenon
  <2> QED  BY <1>3, <2>2, FreeStep, Zenon
<1> QED  BY <1>4, <1>5, Zenon

LEMMA StorLoopStep ==
  ASSUME FtpAssumption, FtpInv, stack # <<>>, Frame, fromCard' = fromCard,
         StorLoop
  PROVE  FtpInv'
<1>1. /\ Top.pc = "storLoop" /\ slots' = slots /\ owner' = owner
      /\ stor' = stor
  BY Zenon DEF StorLoop
<1>2. /\ Top \in Runs /\ Top.slot \in Session /\ Top.alien = FALSE
      /\ ~bridge.pending /\ bridge \in Bridges /\ open = "write"
      /\ Len(file) + Len(toCard) = stor.received
      /\ Own(file, Top.id) /\ Own(toCard, Top.id)
      /\ stor.received + data[Top.slot].unread <= MaxChunks
  BY <1>1, Carrying, Zenon DEF StorPhase
<1>3. bridge.pending = FALSE  BY <1>2, Zenon DEF Bridges
<1>4. /\ Same /\ StorKept /\ LeftBy(bridge) /\ Continues(Top)
      /\ \A op : Fits(op, Top.id, stor'.received)
  BY <1>1, <1>2, Zenon DEF Same, Frame, StorKept, LeftBy, Continues, Fits
<1>5. CASE /\ Ask(bridge, Top, "write", Least(Len(toCard), Window), "storWrite")
           /\ data' = data
  <2>1. "write" \in Ops /\ "storWrite" \in Pcs  BY SMT DEF Ops, Pcs
  <2>2. /\ StackInv' /\ CommitInv' /\ Top'.pc = "storWrite"
        /\ Top'.slot = Top.slot /\ Top'.id = Top.id
        /\ Sent("write")
    <3>1. Fits("write", Top.id, stor'.received)  BY <1>4, Zenon
    <3>2. Asks(bridge, Top, "write", Least(Len(toCard), Window), "storWrite")
      BY <1>4, <1>5, <2>1, <3>1, Counts, Zenon DEF Asks
    <3> QED  BY <1>1, <1>3, <1>4, <3>2, AskStep, Zenon
  <2>3. PhaseInv'
    BY <1>1, <1>2, <1>5, <2>2,
       SMT DEF PhaseInv, StorPhase, RetrPhase, MfmtPhase, Waits, Own, Frame,
           Sent
  <2>4. Helped(Top.slot)  BY <1>1, <1>5, Zenon DEF Helped
  <2>5. /\ stor' \in Stors
        /\ fromCard' \in Seq(Nat) /\ Len(fromCard') <= RingSize
    BY <1>1, Zenon DEF CardTypes, FtpInv
  <2> QED  BY <2>2, <2>3, <2>4, <2>5, GoOnStep, Zenon
<1>6. CASE /\ data' = [data EXCEPT ![Top.slot] = NoData]
           /\ StorFail(bridge)
  <2>1. Ask(bridge, Top, "abort", 0, "storAbort")  BY <1>6, Zenon DEF StorFail
  <2>2. Helped(Top.slot)  BY <1>1, <1>6, Zenon DEF Helped
  <2> QED  BY <1>1, <1>4, <2>1, <2>2, AbortStep, Zenon
<1>7. CASE /\ data' = [data EXCEPT ![Top.slot] = NoData]
           /\ Ask(bridge, Top, "commit", 0, "storCommit")
  <2>1. "commit" \in Ops /\ "storCommit" \in Pcs /\ 0 \in Nat
        /\ "storCommit" \in FreePcs
    BY SMT DEF Ops, Pcs, FreePcs
  <2>2. Fits("commit", Top.id, stor'.received)  BY <1>4, Zenon
  <2>3. StackInv' /\ CommitInv' /\ Top'.pc = "storCommit"
    <3>1. Asks(bridge, Top, "commit", 0, "storCommit")
      BY <1>4, <1>7, <2>1, <2>2, Zenon DEF Asks
    <3> QED  BY <1>1, <1>4, <3>1, AskStep, Zenon
  <2>4. Helped(Top.slot)  BY <1>1, <1>7, Zenon DEF Helped
  <2> QED  BY <1>1, <2>1, <2>3, <2>4, FreeStep, Zenon
<1> QED  BY <1>5, <1>6, <1>7, Zenon DEF StorLoop

LEMMA StorWrittenStep ==
  ASSUME FtpAssumption, FtpInv, stack # <<>>, Frame, fromCard' = fromCard,
         StorWritten
  PROVE  FtpInv'
<1>1. /\ Top.pc = "storWrite" /\ slots' = slots /\ owner' = owner
      /\ stor' = stor
  BY Zenon DEF StorWritten
<1>2. /\ Top \in Runs /\ Top.slot \in Session /\ Top.alien = FALSE
      /\ open = "write" /\ Len(file) + Len(toCard) = stor.received
      /\ Own(file, Top.id) /\ Own(toCard, Top.id)
      /\ stor.received + data[Top.slot].unread <= MaxChunks
  BY <1>1, Carrying, Zenon DEF StorPhase
<1>3. Same  BY Zenon DEF Same, Frame
<1>4. PICK o \in Outcomes :
        \/ /\ o.ok /\ o.count # 0 /\ bridge' = o.after
           /\ Become([Top EXCEPT !.pc = "storLoop"])
           /\ UNCHANGED data
        \/ /\ ~o.ok \/ o.count = 0
           /\ data' = [data EXCEPT ![Top.slot] = NoData]
           /\ StorFail(o.after)
  BY Zenon DEF StorWritten
<1>5. CASE /\ o.ok /\ bridge' = o.after
           /\ Become([Top EXCEPT !.pc = "storLoop"])
           /\ UNCHANGED data
  <2> DEFINE run == [Top EXCEPT !.pc = "storLoop"]
  <2>0. "storLoop" \in Pcs  BY SMT DEF Pcs
  <2>1. Continues(run) /\ run.pc = "storLoop"
    BY <1>2, <2>0, Zenon DEF Runs, Continues
  <2> HIDE DEF run
  <2>2. bridge'.pending = FALSE /\ LeftBy(bridge')
    BY <1>4, <1>5, Answered, Zenon
  <2>3. Become(run) /\ stor'.received = stor.received
    BY <1>1, <1>5, Zenon DEF run
  <2>4. /\ StackInv' /\ CommitInv' /\ Top'.pc = "storLoop"
        /\ Top'.slot = Top.slot /\ Top'.id = Top.id
    BY <1>1, <1>3, <2>1, <2>2, <2>3, BecomeStep, Zenon
  <2>5. PhaseInv'
    BY <1>1, <1>2, <1>5, <2>2, <2>4,
       SMT DEF PhaseInv, StorPhase, RetrPhase, MfmtPhase, Own, Frame
  <2>6. Helped(Top.slot)  BY <1>1, <1>5, Zenon DEF Helped
  <2>7. /\ stor' \in Stors
        /\ fromCard' \in Seq(Nat) /\ Len(fromCard') <= RingSize
    BY <1>1, Zenon DEF CardTypes, FtpInv
  <2> QED  BY <2>4, <2>5, <2>6, <2>7, GoOnStep, Zenon
<1>6. CASE /\ data' = [data EXCEPT ![Top.slot] = NoData]
           /\ StorFail(o.after)
  <2>1. LeftBy(o.after)  BY <1>4, Answered, Zenon
  <2>2. Ask(o.after, Top, "abort", 0, "storAbort")  BY <1>6, Zenon DEF StorFail
  <2>3. Helped(Top.slot)  BY <1>1, <1>6, Zenon DEF Helped
  <2> QED  BY <1>1, <2>1, <2>2, <2>3, AbortStep, Zenon
<1> QED  BY <1>4, <1>5, <1>6, Zenon

LEMMA StorClosedStep ==
  ASSUME FtpAssumption, FtpInv, stack # <<>>, Frame, fromCard' = fromCard,
         StorClosed
  PROVE  FtpInv'
<1>1. stor' = stor  BY Zenon DEF StorClosed
<1>2. PICK o \in Outcomes :
        \/ /\ Ask(o.after, Top, "delete", 0, "storDelete")
           /\ UNCHANGED <<slots, data, owner>>
        \/ Replied(Top.slot) /\ End(o.after)
        \/ Dropped(Top.slot) /\ End(o.after)
  BY Zenon DEF StorClosed
<1>3. LeftBy(o.after)  BY Answered, Zenon
<1>4. CASE /\ Ask(o.after, Top, "delete", 0, "storDelete")
           /\ UNCHANGED <<slots, data, owner>>
  <2>1. owner' = owner /\ Helped(Top.slot)  BY <1>4, Zenon DEF Helped
  <2> QED  BY <1>1, <1>3, <1>4, <2>1, AbortStep, Zenon
<1>5. CASE (Replied(Top.slot) \/ Dropped(Top.slot)) /\ End(o.after)
  <2>1. Helped(Top.slot)  BY <1>5, Zenon DEF Helped
  <2> QED  BY <1>1, <1>3, <1>5, <2>1, FinishStep, Zenon
<1> QED  BY <1>2, <1>4, <1>5, Zenon

LEMMA StoreStep ==
  ASSUME FtpAssumption, FtpInv, stack # <<>>, Frame, fromCard' = fromCard,
         Store
  PROVE  FtpInv'
  BY StorResetStep, StorDataOpenedStep, StorOpenedStep, StorLoopStep,
     StorWrittenStep, StorClosedStep, Zenon DEF Store

-----------------------------------------------------------------------------
(* retrieve() *)

LEMMA RetrPreparedStep ==
  ASSUME FtpAssumption, FtpInv, stack # <<>>, Frame, fromCard' = fromCard,
         stor' = stor, RetrPrepared
  PROVE  FtpInv'
<1>1. /\ Top \in Runs /\ Top.slot \in Session /\ Top.alien = FALSE
      /\ RetrPhase
  BY Carrying, Zenon
<1>2. /\ Same /\ StorKept /\ 0 \in Nat
      /\ stor'.received = stor.received /\ stor' \in Stors
      /\ fromCard' \in Seq(Nat) /\ Len(fromCard') <= RingSize
  <2>1. 0 \in Nat  BY SMT
  <2> QED  BY <2>1, Zenon DEF Same, Frame, StorKept, FtpInv, CardTypes
<1>3. PICK o \in Outcomes :
        \/ Refused(Top.slot) /\ End(o.after)
        \/ /\ o.ok /\ Top.pc = "retrStat" /\ UNCHANGED <<slots, data, owner>>
           /\ \E size \in 0..MaxChunks :
                Ask(o.after, [Top EXCEPT !.size = size], "reset", 0,
                    "retrReset")
        \/ /\ o.ok /\ Top.pc = "retrReset" /\ UNCHANGED <<slots, data, owner>>
           /\ Ask(o.after, Top, "openRead", 0, "retrOpen")
        \/ /\ o.ok /\ Top.pc = "retrOpen" /\ UNCHANGED owner
           /\ bridge' = o.after /\ Become([Top EXCEPT !.pc = "retrData"])
           /\ Replied(Top.slot)
  BY Zenon DEF RetrPrepared
<1>4. LeftBy(o.after)  BY Answered, Zenon
<1>5. CASE Refused(Top.slot) /\ End(o.after)
  <2>1. Helped(Top.slot)  BY <1>5, Zenon DEF Helped
  <2> QED  BY <1>4, <1>5, <2>1, FinishStep, Zenon
<1>6. CASE /\ o.ok /\ Top.pc = "retrStat" /\ UNCHANGED <<slots, data, owner>>
           /\ \E size \in 0..MaxChunks :
                Ask(o.after, [Top EXCEPT !.size = size], "reset", 0,
                    "retrReset")
  <2>1. PICK size \in 0..MaxChunks :
          Ask(o.after, [Top EXCEPT !.size = size], "reset", 0, "retrReset")
    BY <1>6, Zenon
  <2> DEFINE run == [Top EXCEPT !.size = size]
  <2>2. size \in Nat  BY SMT DEF FtpAssumption
  <2>3. Continues(run)  BY <1>1, <2>2, Zenon DEF Runs, Continues
  <2> HIDE DEF run
  <2>4. Ask(o.after, run, "reset", 0, "retrReset")  BY <2>1, Zenon DEF run
  <2>5. /\ "reset" \in Ops /\ "retrReset" \in Pcs
        /\ Fits("reset", run.id, stor'.received)
    BY SMT DEF Ops, Pcs, Fits
  <2>6. o.after.pending = FALSE /\ owner' = owner
    BY <1>6, Answered, Zenon
  <2>7. /\ StackInv' /\ CommitInv' /\ Top'.pc = "retrReset"
        /\ Sent("reset")
    <3>1. Asks(o.after, run, "reset", 0, "retrReset")
      BY <1>2, <1>4, <2>3, <2>4, <2>5, Zenon DEF Asks
    <3> QED  BY <1>2, <2>6, <3>1, AskStep, Zenon
  <2>8. PhaseInv'
    BY <2>7, SMT DEF PhaseInv, StorPhase, RetrPhase, MfmtPhase, Sent
  <2>9. Helped(Top.slot)  BY <1>6, Zenon DEF Helped
  <2> QED  BY <1>2, <2>7, <2>8, <2>9, GoOnStep, Zenon
<1>7. CASE /\ o.ok /\ Top.pc = "retrReset" /\ UNCHANGED <<slots, data, owner>>
           /\ Ask(o.after, Top, "openRead", 0, "retrOpen")
  <2>1. Continues(Top)  BY <1>1, Zenon DEF Continues
  <2>2. /\ "openRead" \in Ops /\ "retrOpen" \in Pcs
        /\ Fits("openRead", Top.id, stor'.received)
    BY SMT DEF Ops, Pcs, Fits
  <2>3. /\ o.after.pending = FALSE /\ Top.asked /\ bridge.answered
        /\ owner' = owner /\ Ask(o.after, Top, "openRead", 0, "retrOpen")
    BY <1>7, Answered, Zenon
  <2>4. /\ StackInv' /\ CommitInv' /\ Top'.pc = "retrOpen"
        /\ Sent("openRead")
    <3>1. Asks(o.after, Top, "openRead", 0, "retrOpen")
      BY <1>2, <1>4, <2>1, <2>2, <2>3, Zenon DEF Asks
    <3> QED  BY <1>2, <2>3, <3>1, AskStep, Zenon
  <2>5. fromCard' = <<>>  BY <1>1, <1>7, <2>3, Zenon DEF RetrPhase
  <2>6. PhaseInv'
    BY <2>4, <2>5, SMT DEF PhaseInv, StorPhase, RetrPhase, MfmtPhase, Waits,
         Opened, Own, Sent
  <2>7. Helped(Top.slot)  BY <1>7, Zenon DEF Helped
  <2> QED  BY <1>2, <2>4, <2>6, <2>7, GoOnStep, Zenon
<1>8. CASE /\ o.ok /\ Top.pc = "retrOpen" /\ UNCHANGED owner
           /\ bridge' = o.after /\ Become([Top EXCEPT !.pc = "retrData"])
           /\ Replied(Top.slot)
  <2> DEFINE run == [Top EXCEPT !.pc = "retrData"]
  <2>0. "retrData" \in Pcs  BY SMT DEF Pcs
  <2>1. Continues(run) /\ run.pc = "retrData"
    BY <1>1, <2>0, Zenon DEF Runs, Continues
  <2> HIDE DEF run
  <2>2. /\ bridge.answered /\ bridge.ok
        /\ bridge'.pending = FALSE /\ LeftBy(bridge')
    BY <1>8, Answered, Zenon
  <2>3. open = "read" /\ Own(fromCard, Top.id)
    BY <1>1, <1>8, <2>2, SMT DEF RetrPhase, Opened
  <2>4. Become(run) /\ owner' = owner  BY <1>8, Zenon DEF run
  <2>5. /\ StackInv' /\ CommitInv' /\ Top'.pc = "retrData"
        /\ Top'.id = Top.id
    BY <1>2, <2>1, <2>2, <2>4, BecomeStep, Zenon
  <2>6. PhaseInv'
    BY <2>2, <2>3, <2>5, SMT DEF PhaseInv, StorPhase, RetrPhase, MfmtPhase,
         Own, Frame
  <2>7. Helped(Top.slot)  BY <1>8, Zenon DEF Helped
  <2> QED  BY <1>2, <2>5, <2>6, <2>7, GoOnStep, Zenon
<1> QED  BY <1>3, <1>5, <1>6, <1>7, <1>8, Zenon

LEMMA FreeAskStep ==
  ASSUME FtpAssumption, FtpInv, stack # <<>>, Frame, stor' = stor,
         owner' = owner, Helped(Top.slot),
         fromCard' \in Seq(Nat), Len(fromCard') <= RingSize,
         NEW after, NEW run, NEW op, NEW count, NEW pc, pc \in FreePcs,
         Asks(after, run, op, count, pc)
  PROVE  FtpInv'
<1>1. Same /\ StorKept /\ stor' \in Stors
  BY Zenon DEF Same, Frame, StorKept, FtpInv, CardTypes
<1>2. StackInv' /\ CommitInv' /\ Top'.pc = pc  BY <1>1, AskStep, Zenon
<1>3. PhaseInv'  BY <1>2, FreePhase, Zenon
<1> QED  BY <1>1, <1>2, <1>3, GoOnStep, Zenon

LEMMA RingsTyped ==
  ASSUME FtpInv, fromCard' = fromCard
  PROVE  fromCard' \in Seq(Nat) /\ Len(fromCard') <= RingSize
  BY Zenon DEF FtpInv, CardTypes

(* The file is closed; nothing is open for writing then. *)
LEMMA RetrFinishStep ==
  ASSUME FtpAssumption, FtpInv, stack # <<>>, Frame, stor' = stor,
         owner' = owner, open # "write",
         fromCard' \in Seq(Nat), Len(fromCard') <= RingSize,
         NEW after, LeftBy(after), NEW failed \in BOOLEAN,
         RetrFinish(after, failed)
  PROVE  FtpInv'
<1> DEFINE run == [Top EXCEPT !.failed = failed]
<1>1. Top \in Runs /\ Top.alien = FALSE  BY Carrying, Zenon
<1>2. Continues(run)  BY <1>1, Zenon DEF Runs, Continues
<1>3. Helped(Top.slot) /\ Ask(after, run, "commit", 0, "retrClose")
  BY Zenon DEF RetrFinish, Helped
<1> HIDE DEF run
<1>4. /\ "commit" \in Ops /\ 0 \in Nat /\ "retrClose" \in Pcs
      /\ "retrClose" \in FreePcs
  BY SMT DEF Ops, Pcs, FreePcs
<1>5. Fits("commit", run.id, stor'.received)  BY Zenon DEF Fits
<1>6. Asks(after, run, "commit", 0, "retrClose")
  BY <1>2, <1>3, <1>4, <1>5, Zenon DEF Asks
<1> QED  BY <1>3, <1>4, <1>6, FreeAskStep, Zenon

LEMMA RetrDataOpenedStep ==
  ASSUME FtpAssumption, FtpInv, stack # <<>>, Frame, fromCard' = fromCard,
         stor' = stor, RetrDataOpened
  PROVE  FtpInv'
<1>1. Top.pc = "retrData" /\ owner' = owner  BY Zenon DEF RetrDataOpened
<1>2. /\ Top \in Runs /\ Top.slot \in Session /\ Top.alien = FALSE
      /\ open = "read" /\ ~bridge.pending /\ Own(fromCard, Top.id)
  BY <1>1, Carrying, Zenon DEF RetrPhase
<1>3. /\ Same /\ stor'.received = stor.received /\ stor' \in Stors
      /\ LeftBy(bridge)
  BY Zenon DEF Same, Frame, FtpInv, CardTypes, LeftBy
<1>4. CASE /\ Connected(Top.slot) /\ bridge' = bridge
           /\ Become([Top EXCEPT !.pc = "retrLoop"])
  <2> DEFINE run == [Top EXCEPT !.pc = "retrLoop"]
  <2>0. "retrLoop" \in Pcs  BY SMT DEF Pcs
  <2>1. Continues(run) /\ run.pc = "retrLoop"
    BY <1>2, <2>0, Zenon DEF Runs, Continues
  <2> HIDE DEF run
  <2>2. Become(run) /\ LeftBy(bridge')  BY <1>3, <1>4, Zenon DEF run
  <2>3. /\ StackInv' /\ CommitInv' /\ Top'.pc = "retrLoop"
        /\ Top'.id = Top.id
    BY <1>1, <1>3, <2>1, <2>2, BecomeStep, Zenon
  <2>4. PhaseInv'
    BY <1>2, <1>4, <2>3, SMT DEF PhaseInv, StorPhase, RetrPhase, MfmtPhase,
         Own, Frame
  <2>5. Helped(Top.slot)  BY <1>4, Zenon DEF Helped
  <2> QED  BY <1>3, <2>3, <2>4, <2>5, RingsTyped, GoOnStep, Zenon
<1>5. CASE /\ NotConnected(Top.slot)
           /\ Ask(bridge, Top, "commit", 0, "retrGiveUp")
  <2>1. /\ "commit" \in Ops /\ 0 \in Nat /\ "retrGiveUp" \in Pcs
        /\ "retrGiveUp" \in FreePcs /\ open # "write"
    BY <1>2, SMT DEF Ops, Pcs, FreePcs
  <2>2. Fits("commit", Top.id, stor'.received)  BY <2>1, Zenon DEF Fits
  <2>3. Continues(Top)  BY <1>2, Zenon DEF Continues
  <2>4. Asks(bridge, Top, "commit", 0, "retrGiveUp")
    BY <1>3, <1>5, <2>1, <2>2, <2>3, Zenon DEF Asks
  <2>5. Helped(Top.slot)  BY <1>5, Zenon DEF Helped
  <2> QED  BY <1>1, <2>1, <2>4, <2>5, RingsTyped, FreeAskStep, Zenon
<1> QED  BY <1>4, <1>5, Zenon DEF RetrDataOpened

LEMMA RetrLoopStep ==
  ASSUME FtpAssumption, FtpInv, stack # <<>>, Frame, stor' = stor, RetrLoop
  PROVE  FtpInv'
<1>1. /\ Top.pc = "retrLoop" /\ owner' = owner /\ slots' = slots
  BY Zenon DEF RetrLoop
<1>2. /\ Top \in Runs /\ Top.slot \in Session /\ Top.alien = FALSE
      /\ open = "read" /\ ~bridge.pending /\ bridge \in Bridges
      /\ Own(fromCard, Top.id)
  BY <1>1, Carrying, Zenon DEF RetrPhase
<1>3. bridge.pending = FALSE  BY <1>2, Zenon DEF Bridges
<1>4. /\ Same /\ StorKept /\ stor'.received = stor.received /\ stor' \in Stors
      /\ LeftBy(bridge) /\ Continues(Top)
  BY <1>2, Zenon DEF Same, Frame, StorKept, FtpInv, CardTypes, LeftBy,
       Continues
<1>5. /\ open # "write" /\ TRUE \in BOOLEAN /\ FALSE \in BOOLEAN
  BY <1>2, SMT
<1>6. fromCard \in Seq(Nat) /\ Len(fromCard) <= RingSize
  BY Zenon DEF FtpInv, CardTypes
<1>7. CASE RetrFinish(bridge, FALSE) /\ fromCard' = fromCard
  BY <1>1, <1>4, <1>5, <1>7, RingsTyped, RetrFinishStep, Zenon
<1>8. CASE /\ Top.sent < Top.size /\ fromCard = <<>>
           /\ Ask(bridge, Top, "read", Least(Top.size - Top.sent, Window),
                  "retrRead")
           /\ data' = data /\ fromCard' = fromCard
  <2>1. /\ "read" \in Ops /\ "retrRead" \in Pcs
        /\ Fits("read", Top.id, stor'.received)
    BY SMT DEF Ops, Pcs, Fits
  <2>2. Least(Top.size - Top.sent, Window) \in Nat
    <3>1. Top.size \in Nat /\ Top.sent \in Nat  BY <1>2, Zenon DEF Runs
    <3> QED  BY <1>8, <3>1, SMT DEF Least, FtpAssumption
  <2>3. Asks(bridge, Top, "read", Least(Top.size - Top.sent, Window),
             "retrRead")
    BY <1>4, <1>8, <2>1, <2>2, Zenon DEF Asks
  <2>4. /\ StackInv' /\ CommitInv' /\ Top'.pc = "retrRead" /\ Top'.id = Top.id
        /\ Sent("read")
    BY <1>1, <1>3, <1>4, <2>3, AskStep, Zenon
  <2>5. PhaseInv'
    BY <1>2, <1>8, <2>4, SMT DEF PhaseInv, StorPhase, RetrPhase, MfmtPhase,
         Waits, Own, Sent, Frame
  <2>6. Helped(Top.slot)  BY <1>1, <1>8, Zenon DEF Helped
  <2> QED  BY <1>4, <1>8, <2>4, <2>5, <2>6, RingsTyped, GoOnStep, Zenon
<1>9. CASE fromCard # <<>> /\ fromCard' = Tail(fromCard)
  <2>1. /\ fromCard' \in Seq(Nat) /\ Len(fromCard') <= RingSize
        /\ fromCard[1] = Top.id /\ Own(fromCard', Top.id)
    <3>1. /\ fromCard' \in Seq(Nat) /\ Len(fromCard') = Len(fromCard) - 1
          /\ Len(fromCard) \in Nat /\ Len(fromCard) >= 1
          /\ \A i \in 1..Len(fromCard') : fromCard'[i] = fromCard[i + 1]
      BY <1>6, <1>9, SMT
    <3>2. RingSize \in Nat  BY SMT DEF FtpAssumption
    <3> QED  BY <1>2, <1>6, <3>1, <3>2, SMT DEF Own
  <2>2. CASE RetrFinish(bridge, TRUE)
    BY <1>1, <1>4, <1>5, <2>1, <2>2, RetrFinishStep, Zenon
  <2>3. CASE /\ Become([Top EXCEPT !.sent = Top.sent + 1,
                          !.alien = Top.alien \/ fromCard[1] # Top.id])
             /\ data' = data /\ bridge' = bridge
    <3> DEFINE alien == Top.alien \/ fromCard[1] # Top.id
    <3> DEFINE run == [Top EXCEPT !.sent = Top.sent + 1, !.alien = FALSE]
    <3>1. alien = FALSE  BY <1>2, <2>1, Zenon
    <3>2. Become(run)  BY <2>3, <3>1, Zenon
    <3>3. Top.sent + 1 \in Nat
      <4>1. Top.sent \in Nat  BY <1>2, Zenon DEF Runs
      <4> QED  BY <4>1, SMT
    <3>4. Continues(run) /\ run.pc = "retrLoop"
      BY <1>1, <1>2, <3>3, Zenon DEF Runs, Continues
    <3> HIDE DEF run
    <3>5. LeftBy(bridge')  BY <1>4, <2>3, Zenon
    <3>6. /\ StackInv' /\ CommitInv' /\ Top'.pc = "retrLoop"
          /\ Top'.id = Top.id
      BY <1>1, <1>4, <3>2, <3>4, <3>5, BecomeStep, Zenon
    <3>7. PhaseInv'
      BY <1>2, <2>1, <2>3, <3>6, SMT DEF PhaseInv, StorPhase, RetrPhase,
           MfmtPhase, Frame
    <3>8. Helped(Top.slot)  BY <1>1, <2>3, Zenon DEF Helped
    <3> QED  BY <1>4, <2>1, <3>6, <3>7, <3>8, GoOnStep, Zenon
  <2> QED  BY <1>9, <2>2, <2>3, <1>7, <1>8, Zenon DEF RetrLoop
<1> QED  BY <1>7, <1>8, <1>9, Zenon DEF RetrLoop

LEMMA RetrReadStep ==
  ASSUME FtpAssumption, FtpInv, stack # <<>>, Frame, fromCard' = fromCard,
         stor' = stor, RetrRead
  PROVE  FtpInv'
<1>1. /\ Top.pc = "retrRead" /\ owner' = owner /\ slots' = slots
  BY Zenon DEF RetrRead
<1>2. /\ Top \in Runs /\ Top.slot \in Session /\ Top.alien = FALSE
      /\ open = "read" /\ Own(fromCard, Top.id)
  BY <1>1, Carrying, Zenon DEF RetrPhase
<1>3. /\ Same /\ stor'.received = stor.received /\ stor' \in Stors
  BY Zenon DEF Same, Frame, FtpInv, CardTypes
<1>4. PICK o \in Outcomes :
        \/ /\ o.ok /\ o.count # 0 /\ bridge' = o.after
           /\ Become([Top EXCEPT !.pc = "retrLoop"])
           /\ UNCHANGED data
        \/ (~o.ok \/ o.count = 0) /\ RetrFinish(o.after, TRUE)
  BY Zenon DEF RetrRead
<1>5. LeftBy(o.after)  BY Answered, Zenon
<1>6. CASE /\ o.ok /\ o.count # 0 /\ bridge' = o.after
           /\ Become([Top EXCEPT !.pc = "retrLoop"])
           /\ UNCHANGED data
  <2> DEFINE run == [Top EXCEPT !.pc = "retrLoop"]
  <2>0. "retrLoop" \in Pcs  BY SMT DEF Pcs
  <2>1. Continues(run) /\ run.pc = "retrLoop"
    BY <1>2, <2>0, Zenon DEF Runs, Continues
  <2> HIDE DEF run
  <2>2. bridge'.pending = FALSE /\ LeftBy(bridge') /\ Become(run)
    BY <1>6, Answered, Zenon DEF run
  <2>3. /\ StackInv' /\ CommitInv' /\ Top'.pc = "retrLoop"
        /\ Top'.id = Top.id
    BY <1>1, <1>3, <2>1, <2>2, BecomeStep, Zenon
  <2>4. PhaseInv'
    BY <1>2, <2>2, <2>3, SMT DEF PhaseInv, StorPhase, RetrPhase, MfmtPhase,
         Own, Frame
  <2>5. Helped(Top.slot)  BY <1>1, <1>6, Zenon DEF Helped
  <2> QED  BY <1>3, <2>3, <2>4, <2>5, RingsTyped, GoOnStep, Zenon
<1>7. CASE RetrFinish(o.after, TRUE)
  <2>1. open # "write" /\ TRUE \in BOOLEAN  BY <1>2, SMT
  <2> QED  BY <1>1, <1>5, <1>7, <2>1, RingsTyped, RetrFinishStep, Zenon
<1> QED  BY <1>4, <1>6, <1>7, Zenon

LEMMA RetrClosedStep ==
  ASSUME FtpAssumption, FtpInv, stack # <<>>, Frame, fromCard' = fromCard,
         stor' = stor, RetrClosed
  PROVE  FtpInv'
<1>1. PICK o \in Outcomes :
        (Replied(Top.slot) \/ UNCHANGED <<slots, data>>) /\ End(o.after)
  BY Zenon DEF RetrClosed
<1>2. LeftBy(o.after)  BY Answered, Zenon
<1>3. Helped(Top.slot)  BY <1>1, Zenon DEF Helped
<1> QED  BY <1>1, <1>2, <1>3, FinishStep, Zenon

LEMMA RetrieveStep ==
  ASSUME FtpAssumption, FtpInv, stack # <<>>, Frame, Retrieve
  PROVE  FtpInv'
  BY RetrLoopStep, RetrPreparedStep, RetrDataOpenedStep, RetrReadStep,
     RetrClosedStep, Zenon DEF Retrieve

-----------------------------------------------------------------------------
(* list(), setModificationTime() and the commands of one request *)

LEMMA ListStep ==
  ASSUME FtpAssumption, FtpInv, stack # <<>>, Frame, fromCard' = fromCard,
         stor' = stor, ListOpened \/ ListDataOpened \/ ListRead
  PROVE  FtpInv'
<1>1. /\ Top \in Runs /\ Top.slot \in Session /\ Top.alien = FALSE
  BY Carrying, Zenon
<1>2. /\ Same /\ stor'.received = stor.received /\ stor' \in Stors
      /\ LeftBy(bridge) /\ Continues(Top)
  BY <1>1, Zenon DEF Same, Frame, FtpInv, CardTypes, LeftBy, Continues
<1>3. /\ "readDir" \in Ops /\ 0 \in Nat /\ "listRead" \in Pcs
      /\ "listData" \in Pcs /\ "listData" \in FreePcs /\ "listRead" \in FreePcs
      /\ \A run : Fits("readDir", run.id, stor'.received)
  BY SMT DEF Ops, Pcs, FreePcs, Fits
<1>4. CASE ListOpened
  <2>1. PICK o \in Outcomes :
          \/ ~o.ok /\ Refused(Top.slot) /\ End(o.after)
          \/ /\ o.ok /\ bridge' = o.after
             /\ Become([Top EXCEPT !.pc = "listData"])
             /\ Replied(Top.slot) /\ UNCHANGED owner
    BY <1>4, Zenon DEF ListOpened
  <2>2. LeftBy(o.after)  BY Answered, Zenon
  <2>3. CASE Refused(Top.slot) /\ End(o.after)
    <3>1. Helped(Top.slot)  BY <2>3, Zenon DEF Helped
    <3> QED  BY <2>2, <2>3, <3>1, FinishStep, Zenon
  <2>4. CASE /\ bridge' = o.after
             /\ Become([Top EXCEPT !.pc = "listData"])
             /\ Replied(Top.slot) /\ UNCHANGED owner
    <3> DEFINE run == [Top EXCEPT !.pc = "listData"]
    <3>1. Continues(run) /\ run.pc = "listData"
      BY <1>1, <1>3, Zenon DEF Runs, Continues
    <3> HIDE DEF run
    <3>2. Become(run) /\ LeftBy(bridge') /\ owner' = owner
      BY <2>2, <2>4, Zenon DEF run
    <3>3. StackInv' /\ CommitInv' /\ Top'.pc = "listData"
      BY <1>2, <3>1, <3>2, BecomeStep, Zenon
    <3>4. Helped(Top.slot)  BY <2>4, Zenon DEF Helped
    <3> QED  BY <1>3, <3>3, <3>4, FreeStep, Zenon
  <2> QED  BY <2>1, <2>3, <2>4, Zenon
<1>5. CASE ListDataOpened
  <2>1. CASE /\ Connected(Top.slot) /\ owner' = owner
             /\ Ask(bridge, Top, "readDir", 0, "listRead")
    <3>1. Asks(bridge, Top, "readDir", 0, "listRead")
      BY <1>2, <1>3, <2>1, Zenon DEF Asks
    <3>2. Helped(Top.slot)  BY <2>1, Zenon DEF Helped
    <3> QED  BY <1>3, <2>1, <3>1, <3>2, RingsTyped, FreeAskStep, Zenon
  <2>2. CASE NotConnected(Top.slot) /\ End(bridge)
    <3>1. Helped(Top.slot)  BY <2>2, Zenon DEF Helped
    <3> QED  BY <1>2, <2>2, <3>1, FinishStep, Zenon
  <2> QED  BY <1>5, <2>1, <2>2, Zenon DEF ListDataOpened
<1>6. CASE ListRead
  <2> DEFINE run == [Top EXCEPT !.sent = Top.sent + 1]
  <2>1. PICK o \in Outcomes :
          \/ /\ o.ok /\ Top.sent < MaxChunks
             /\ Ask(o.after, run, "readDir", 0, "listRead")
             /\ UNCHANGED <<slots, data, owner>>
          \/ ClosedAndReplied(Top.slot) /\ End(o.after)
    BY <1>6, Zenon DEF ListRead
  <2>2. LeftBy(o.after)  BY Answered, Zenon
  <2>3. CASE ClosedAndReplied(Top.slot) /\ End(o.after)
    <3>1. Helped(Top.slot)  BY <2>3, Zenon DEF Helped
    <3> QED  BY <2>2, <2>3, <3>1, FinishStep, Zenon
  <2>4. CASE /\ Ask(o.after, run, "readDir", 0, "listRead")
             /\ UNCHANGED <<slots, data, owner>>
    <3>1. Top.sent + 1 \in Nat
      <4>1. Top.sent \in Nat  BY <1>1, Zenon DEF Runs
      <4> QED  BY <4>1, SMT
    <3>2. Continues(run)  BY <1>1, <3>1, Zenon DEF Runs, Continues
    <3> HIDE DEF run
    <3>3. Asks(o.after, run, "readDir", 0, "listRead")
      BY <1>3, <2>2, <2>4, <3>2, Zenon DEF Asks
    <3>4. Helped(Top.slot) /\ owner' = owner  BY <2>4, Zenon DEF Helped
    <3> QED  BY <1>3, <3>3, <3>4, RingsTyped, FreeAskStep, Zenon
  <2> QED  BY <2>1, <2>3, <2>4, Zenon
<1> QED  BY <1>4, <1>5, <1>6

LEMMA MfmtStep ==
  ASSUME FtpAssumption, FtpInv, stack # <<>>, Frame, fromCard' = fromCard,
         stor' = stor, Mfmt
  PROVE  FtpInv'
<1>1. /\ Top \in Runs /\ Top.slot \in Session /\ Top.alien = FALSE
      /\ MfmtPhase
  BY Carrying, Zenon
<1>2. /\ Same /\ StorKept /\ stor' \in Stors /\ Continues(Top)
  BY <1>1, Zenon DEF Same, Frame, FtpInv, CardTypes, StorKept, Continues
<1>3. PICK o \in Outcomes :
        \/ Replied(Top.slot) /\ End(o.after)
        \/ /\ o.ok /\ UNCHANGED <<slots, data, owner>>
           /\ Ask(o.after, Top, "openRandom", 0, "mfmtOpen")
        \/ /\ o.ok /\ Top.pc = "mfmtOpen" /\ UNCHANGED <<slots, data, owner>>
           /\ Ask(o.after, Top, "other", 0, "mfmtSet")
        \/ /\ Top.pc = "mfmtSet" /\ UNCHANGED <<slots, data, owner>>
           /\ Ask(o.after, Top, "commit", 0, "mfmtClose")
  BY Zenon DEF Mfmt
<1>4. LeftBy(o.after)  BY Answered, Zenon
<1>5. CASE Replied(Top.slot) /\ End(o.after)
  <2>1. Helped(Top.slot)  BY <1>5, Zenon DEF Helped
  <2> QED  BY <1>4, <1>5, <2>1, FinishStep, Zenon
<1>6. CASE /\ o.ok /\ UNCHANGED <<slots, data, owner>>
           /\ Ask(o.after, Top, "openRandom", 0, "mfmtOpen")
  <2>1. /\ "openRandom" \in Ops /\ 0 \in Nat /\ "mfmtOpen" \in Pcs
        /\ Fits("openRandom", Top.id, stor'.received)
    BY SMT DEF Ops, Pcs, Fits
  <2>2. Asks(o.after, Top, "openRandom", 0, "mfmtOpen")
    BY <1>2, <1>4, <1>6, <2>1, Zenon DEF Asks
  <2>3. o.after.pending = FALSE /\ Helped(Top.slot) /\ owner' = owner
    BY <1>6, Answered, Zenon DEF Helped
  <2>4. StackInv' /\ CommitInv' /\ Top'.pc = "mfmtOpen" /\ Sent("openRandom")
    BY <1>2, <2>2, <2>3, AskStep, Zenon
  <2>5. PhaseInv'
    BY <2>4, SMT DEF PhaseInv, StorPhase, RetrPhase, MfmtPhase, Waits,
         Opened, Sent
  <2> QED  BY <1>2, <2>3, <2>4, <2>5, RingsTyped, GoOnStep, Zenon
<1>7. CASE /\ o.ok /\ Top.pc = "mfmtOpen" /\ UNCHANGED <<slots, data, owner>>
           /\ Ask(o.after, Top, "other", 0, "mfmtSet")
  <2>1. /\ "other" \in Ops /\ 0 \in Nat /\ "mfmtSet" \in Pcs
        /\ Fits("other", Top.id, stor'.received)
    BY SMT DEF Ops, Pcs, Fits
  <2>2. Asks(o.after, Top, "other", 0, "mfmtSet")
    BY <1>2, <1>4, <1>7, <2>1, Zenon DEF Asks
  <2>3. /\ o.after.pending = FALSE /\ Helped(Top.slot) /\ owner' = owner
        /\ bridge.answered /\ bridge.ok
    BY <1>7, Answered, Zenon DEF Helped
  <2>4. open = "random"  BY <1>1, <1>7, <2>3, Zenon DEF MfmtPhase, Opened
  <2>5. StackInv' /\ CommitInv' /\ Top'.pc = "mfmtSet" /\ Sent("other")
    BY <1>2, <2>2, <2>3, AskStep, Zenon
  <2>6. PhaseInv'
    BY <2>4, <2>5, SMT DEF PhaseInv, StorPhase, RetrPhase, MfmtPhase, Waits,
         Sent, Frame
  <2> QED  BY <1>2, <2>3, <2>5, <2>6, RingsTyped, GoOnStep, Zenon
<1>8. CASE /\ Top.pc = "mfmtSet" /\ UNCHANGED <<slots, data, owner>>
           /\ Ask(o.after, Top, "commit", 0, "mfmtClose")
  <2>1. open = "random"  BY <1>1, <1>8, Zenon DEF MfmtPhase
  <2>2. /\ "commit" \in Ops /\ 0 \in Nat /\ "mfmtClose" \in Pcs
        /\ "mfmtClose" \in FreePcs /\ Fits("commit", Top.id, stor'.received)
    BY <2>1, SMT DEF Ops, Pcs, FreePcs, Fits
  <2>3. Asks(o.after, Top, "commit", 0, "mfmtClose")
    BY <1>2, <1>4, <1>8, <2>2, Zenon DEF Asks
  <2>4. Helped(Top.slot) /\ owner' = owner  BY <1>8, Zenon DEF Helped
  <2> QED  BY <2>2, <2>3, <2>4, RingsTyped, FreeAskStep, Zenon
<1> QED  BY <1>3, <1>5, <1>6, <1>7, <1>8, Zenon

LEMMA OneStep ==
  ASSUME FtpAssumption, FtpInv, stack # <<>>, Frame, fromCard' = fromCard,
         stor' = stor, One
  PROVE  FtpInv'
<1>1. PICK o \in Outcomes : Replied(Top.slot) /\ End(o.after)
  BY Zenon DEF One
<1>2. LeftBy(o.after)  BY Answered, Zenon
<1>3. Helped(Top.slot)  BY <1>1, Zenon DEF Helped
<1> QED  BY <1>1, <1>2, <1>3, FinishStep, Zenon

LEMMA CarryStep ==
  ASSUME FtpAssumption, FtpInv, Carry
  PROVE  FtpInv'
<1>1. stack # <<>> /\ Frame  BY Zenon DEF Carry, Frame
<1>2. CASE Store /\ fromCard' = fromCard  BY <1>1, <1>2, StoreStep, Zenon
<1>3. CASE Retrieve  BY <1>1, <1>3, RetrieveStep, Zenon
<1>4. CASE /\ ListOpened \/ ListDataOpened \/ ListRead \/ Mfmt \/ One
           /\ stor' = stor /\ fromCard' = fromCard
  BY <1>1, <1>4, ListStep, MfmtStep, OneStep, Zenon
<1> QED  BY <1>2, <1>3, <1>4, Zenon DEF Carry

-----------------------------------------------------------------------------
(* The sessions, between the steps of a command. *)

(* Nothing but the sessions changes, and no upload grows past its bound. *)
LEMMA SessionsOnly ==
  ASSUME FtpAssumption, FtpInv, running' = running, SessionInv',
         UNCHANGED taskVars, bridge' = bridge, UNCHANGED cardVars,
         \A s \in Session :
            \/ data'[s].unread <= data[s].unread
            \/ stor.received + data'[s].unread <= MaxChunks
  PROVE  FtpInv'
<1>1. /\ owner' = owner /\ stack' = stack /\ stor' = stor /\ lines' = lines
      /\ toCard' = toCard /\ fromCard' = fromCard /\ open' = open
      /\ file' = file /\ published' = published /\ Top' = Top
  BY Zenon DEF taskVars, cardVars, Top
<1>2. StackInv'  BY <1>1, Zenon DEF FtpInv, StackInv
<1>3. CardTypes'  BY <1>1, Zenon DEF FtpInv, CardTypes
<1>4. CommitInv'  BY <1>1, Zenon DEF FtpInv, CommitInv, Own
<1>5. PublishedIsReceived'
  BY <1>1, Zenon DEF FtpInv, PublishedIsReceived
<1>6. PhaseInv'
  <2>1. CASE stack = <<>>  BY <1>1, <2>1, Zenon DEF PhaseInv
  <2>2. CASE stack # <<>>
    <3>1. /\ Top.slot \in Session /\ StorPhase /\ RetrPhase /\ MfmtPhase
      BY <2>2, Carrying, Zenon
    <3>2. /\ data[Top.slot].unread \in Nat /\ data'[Top.slot].unread \in Nat
          /\ stor.received \in Nat /\ MaxChunks \in Nat
      <4>1. data'[Top.slot].unread \in 0..MaxChunks
        BY <3>1, Zenon DEF SessionInv, Data
      <4>2. MaxChunks \in Nat  BY Zenon DEF FtpAssumption
      <4>3. data'[Top.slot].unread \in Nat  BY <4>1, <4>2, SMT
      <4> QED  BY <3>1, <4>2, <4>3, Numbers, Zenon
    <3>3. stor.received + data[Top.slot].unread <= MaxChunks =>
            stor.received + data'[Top.slot].unread <= MaxChunks
      <4>1. \/ data'[Top.slot].unread <= data[Top.slot].unread
            \/ stor.received + data'[Top.slot].unread <= MaxChunks
        BY <3>1, Zenon
      <4> QED  BY <3>2, <4>1, SMT
    <3>4. StorPhase'
      BY <1>1, <3>1, <3>3, Zenon DEF StorPhase, Waits, Opened, Own
    <3>5. RetrPhase' /\ MfmtPhase'
      BY <1>1, <3>1, Zenon DEF RetrPhase, MfmtPhase, Waits, Opened, Own
    <3> QED  BY <3>4, <3>5, Zenon DEF PhaseInv
  <2> QED  BY <2>1, <2>2
<1> QED  BY <1>2, <1>3, <1>4, <1>5, <1>6, Zenon DEF FtpInv

LEMMA SlotChanged ==
  ASSUME FtpAssumption, FtpInv, NEW s \in Session, running' = running,
         clients' = clients, UNCHANGED taskVars, bridge' = bridge,
         UNCHANGED cardVars,
         slots' = slots \/ SlotEnded(s) \/ SlotEndpoint(s),
         data' = data \/ data' = [data EXCEPT ![s] = NoData]
  PROVE  FtpInv'
<1>1. SessionInv' /\ data'[s].unread <= data[s].unread
  BY SessionStep, Zenon DEF FtpInv
<1>2. \A t \in Session : data[t].unread \in Nat  BY Numbers, Zenon
<1>3. \A t \in Session : t # s => data'[t] = data[t]
  BY Zenon DEF FtpInv, SessionInv
<1>4. \A t \in Session : data'[t].unread <= data[t].unread
  BY <1>1, <1>2, <1>3, SMT
<1> QED  BY <1>1, <1>4, SessionsOnly, Zenon

LEMMA AcceptControlStep ==
  ASSUME FtpAssumption, FtpInv, AcceptControl
  PROVE  FtpInv'
<1>1. /\ clients \in Nat /\ clients' = clients + 1 /\ running' = running
      /\ UNCHANGED taskVars /\ bridge' = bridge /\ UNCHANGED cardVars
  BY Zenon DEF AcceptControl, FtpInv, SessionInv
<1>2. clients' \in Nat /\ clients <= clients' /\ clients + 1 <= clients'
  BY <1>1, SMT
<1>3. CASE slots' = slots /\ data' = data
  <2>1. SessionInv'  BY <1>1, <1>3, SMT DEF FtpInv, SessionInv, Slots
  <2>2. \A s \in Session : data'[s].unread <= data[s].unread
    BY <1>3, Numbers, SMT
  <2> QED  BY <1>1, <2>1, <2>2, SessionsOnly, Zenon
<1>4. CASE \E s \in Session :
             /\ data' = [data EXCEPT ![s] = NoData]
             /\ slots' = [slots EXCEPT ![s] = Fresh(s, clients + 1)]
  <2>1. PICK s \in Session :
             /\ data' = [data EXCEPT ![s] = NoData]
             /\ slots' = [slots EXCEPT ![s] = Fresh(s, clients + 1)]
    BY <1>4, Zenon
  <2>2. clients + 1 \in Nat  BY <1>1, SMT
  <2>3. /\ Fresh(s, clients + 1) \in Slots
        /\ Fresh(s, clients + 1).client = clients + 1
        /\ Fresh(s, clients + 1).loggedIn = FALSE
        /\ Fresh(s, clients + 1).queued = NoLine
    BY <2>2, FreshFacts, Zenon
  <2>4. slots' \in [Session -> Slots] /\ data' \in [Session -> Data]
    BY <2>1, <2>3, DataFacts, Zenon DEF FtpInv, SessionInv
  <2>5. /\ slots'[s] = Fresh(s, clients + 1) /\ data'[s] = NoData
        /\ \A t \in Session : t # s => /\ slots'[t] = slots[t]
                                     /\ data'[t] = data[t]
    BY <2>1, Zenon DEF FtpInv, SessionInv
  <2>6. SessionInv'
    <3>1. \A t \in Session : t # s =>
            /\ slots'[t].client <= clients'
            /\ slots'[t].loggedIn => slots'[t].client # NoClient
            /\ slots'[t].queued # NoLine =>
                 /\ slots'[t].queued.client = slots'[t].client
                 /\ slots'[t].queued.cmd \in Cmds
      <4>1. \A t \in Session : slots[t].client \in Nat
        BY Zenon DEF FtpInv, SessionInv, Slots
      <4>2. \A t \in Session : slots[t].client <= clients
        BY Zenon DEF FtpInv, SessionInv
      <4>3. \A c \in Nat : c <= clients => c <= clients'
        BY <1>1, <1>2, SMT
      <4>4. \A t \in Session : slots[t].client <= clients'
        BY <4>1, <4>2, <4>3, Zenon
      <4> QED  BY <2>5, <4>4, Zenon DEF FtpInv, SessionInv
    <3>2. /\ slots'[s].client <= clients' /\ ~slots'[s].loggedIn
          /\ slots'[s].queued = NoLine
      BY <1>2, <2>3, <2>5, Zenon
    <3> QED  BY <1>2, <2>4, <3>1, <3>2, Zenon DEF SessionInv
  <2>7. \A t \in Session : data'[t].unread <= data[t].unread
    <3>1. data'[s].unread = 0  BY <2>5, DataFacts, Zenon
    <3>2. \A t \in Session : data[t].unread \in Nat  BY Numbers, Zenon
    <3> QED  BY <2>5, <3>1, <3>2, SMT
  <2> QED  BY <1>1, <2>6, <2>7, SessionsOnly, Zenon
<1> QED  BY <1>3, <1>4, Zenon DEF AcceptControl

LEMMA LoseControlStep ==
  ASSUME FtpAssumption, FtpInv, NEW s \in Session, LoseControl(s)
  PROVE  FtpInv'
<1>1. /\ running' = running /\ clients' = clients /\ UNCHANGED taskVars
      /\ bridge' = bridge /\ UNCHANGED cardVars
      /\ SlotEnded(s) /\ data' = [data EXCEPT ![s] = NoData]
  BY Zenon DEF LoseControl, Dropped, SlotEnded
<1> QED  BY <1>1, SlotChanged, Zenon

LEMMA SetEndpointStep ==
  ASSUME FtpAssumption, FtpInv, NEW s \in Session,
         NEW endpoint \in {"passive", "active"}, SetEndpoint(s, endpoint)
  PROVE  FtpInv'
<1>1. /\ running' = running /\ clients' = clients /\ UNCHANGED taskVars
      /\ bridge' = bridge /\ UNCHANGED cardVars
      /\ SlotEndpoint(s) /\ data' = [data EXCEPT ![s] = NoData]
  BY Zenon DEF SetEndpoint, SlotEndpoint
<1> QED  BY <1>1, SlotChanged, Zenon

LEMMA LoginStep ==
  ASSUME FtpAssumption, FtpInv, NEW s \in Session, Login(s)
  PROVE  FtpInv'
<1>1. /\ running' = running /\ clients' = clients /\ UNCHANGED taskVars
      /\ bridge' = bridge /\ UNCHANGED cardVars /\ data' = data
      /\ slots[s].client # NoClient
      /\ slots' = [slots EXCEPT ![s].loggedIn = TRUE]
  BY Zenon DEF Login
<1>2. slots' \in [Session -> Slots]
  <2>1. [slots[s] EXCEPT !.loggedIn = TRUE] \in Slots
    BY Zenon DEF FtpInv, SessionInv, Slots
  <2>2. slots' = [slots EXCEPT ![s] = [slots[s] EXCEPT !.loggedIn = TRUE]]
    BY <1>1, Zenon
  <2> QED  BY <2>1, <2>2, Zenon DEF FtpInv, SessionInv
<1>3. \A t \in Session : /\ slots'[t].client = slots[t].client
                         /\ slots'[t].queued = slots[t].queued
                         /\ t # s => slots'[t] = slots[t]
  BY <1>1, SMT DEF FtpInv, SessionInv, Slots
<1>4. SessionInv'
  <2>1. \A t \in Session : slots'[t].loggedIn => slots'[t].client # NoClient
    BY <1>1, <1>3, Zenon DEF FtpInv, SessionInv
  <2>2. /\ clients' \in Nat /\ data' \in [Session -> Data]
        /\ \A t \in Session : slots'[t].client <= clients'
    BY <1>1, <1>3, Zenon DEF FtpInv, SessionInv
  <2>3. \A t \in Session : slots'[t].queued # NoLine =>
            /\ slots'[t].queued.client = slots'[t].client
            /\ slots'[t].queued.cmd \in Cmds
    BY <1>3, Zenon DEF FtpInv, SessionInv
  <2> QED  BY <1>2, <2>1, <2>2, <2>3, Zenon DEF SessionInv
<1>5. \A t \in Session : data'[t].unread <= data[t].unread
  BY <1>1, Numbers, SMT
<1> QED  BY <1>1, <1>4, <1>5, SessionsOnly, Zenon

LEMMA UploadStep ==
  ASSUME FtpAssumption, FtpInv, NEW s \in Session,
         Upload(s) \/ CloseUpload(s)
  PROVE  FtpInv'
<1>1. /\ running' = running /\ clients' = clients /\ UNCHANGED taskVars
      /\ bridge' = bridge /\ UNCHANGED cardVars /\ slots' = slots
  BY Zenon DEF Upload, CloseUpload
<1>2. /\ MaxChunks \in Nat /\ stor.received \in Nat
      /\ \A t \in Session : data[t].unread \in 0..MaxChunks
      /\ \A t \in Session : data[t].unread \in Nat
  BY Numbers, Zenon
<1>3. CASE Upload(s)
  <2>1. /\ stor.received + data[s].unread < MaxChunks
        /\ data' = [data EXCEPT ![s].unread = data[s].unread + 1]
    BY <1>3, Zenon DEF Upload
  <2>2. data[s].unread + 1 \in 0..MaxChunks  BY <1>2, <2>1, SMT
  <2>3. data' \in [Session -> Data]
    <3>1. [data[s] EXCEPT !.unread = data[s].unread + 1] \in Data
      BY <2>2, Zenon DEF FtpInv, SessionInv, Data
    <3>2. data' = [data EXCEPT ![s] =
                     [data[s] EXCEPT !.unread = data[s].unread + 1]]
      BY <2>1, Zenon
    <3> QED  BY <3>1, <3>2, Zenon DEF FtpInv, SessionInv
  <2>4. SessionInv'  BY <1>1, <2>3, Zenon DEF FtpInv, SessionInv
  <2>5. /\ data'[s].unread = data[s].unread + 1
        /\ \A t \in Session : t # s => data'[t] = data[t]
    BY <2>1, SMT DEF FtpInv, SessionInv, Data
  <2>6. \A t \in Session : \/ data'[t].unread <= data[t].unread
                           \/ stor.received + data'[t].unread <= MaxChunks
    BY <1>2, <2>1, <2>5, SMT
  <2> QED  BY <1>1, <2>4, <2>6, SessionsOnly, Zenon
<1>4. CASE CloseUpload(s)
  <2>1. data' = [data EXCEPT ![s].eof = TRUE]  BY <1>4, Zenon DEF CloseUpload
  <2>2. data' \in [Session -> Data]
    <3>1. [data[s] EXCEPT !.eof = TRUE] \in Data
      BY Zenon DEF FtpInv, SessionInv, Data
    <3>2. data' = [data EXCEPT ![s] = [data[s] EXCEPT !.eof = TRUE]]
      BY <2>1, Zenon
    <3> QED  BY <3>1, <3>2, Zenon DEF FtpInv, SessionInv
  <2>3. SessionInv'  BY <1>1, <2>2, Zenon DEF FtpInv, SessionInv
  <2>4. \A t \in Session : data'[t].unread = data[t].unread
    BY <2>1, SMT DEF FtpInv, SessionInv, Data
  <2>5. \A t \in Session : data'[t].unread <= data[t].unread
    BY <1>2, <2>4, SMT
  <2> QED  BY <1>1, <2>3, <2>5, SessionsOnly, Zenon
<1> QED  BY <1>3, <1>4

-----------------------------------------------------------------------------
(* A command begins. *)

LEMMA BeginStep ==
  ASSUME FtpAssumption, FtpInv, stack = <<>>, running, running' = running,
         lines' \in Nat, stor' = stor, UNCHANGED cardVars, SessionInv',
         NEW s \in Session, NEW line \in Lines, line.cmd \in Cmds,
         Begin(s, line)
  PROVE  FtpInv'
<1>1. bridge \in Bridges /\ running \in BOOLEAN
  BY Zenon DEF FtpInv, StackInv
<1>2. /\ owner' = s /\ stack' = <<Top'>> /\ Len(stack') = 1
      /\ stack' # <<>> /\ Top' \in Runs /\ Top'.alien = FALSE
      /\ Top'.slot = s /\ Top'.pc = FirstStep[line.cmd].pc
      /\ Top'.id = line.id
      /\ bridge' \in Bridges
      /\ \/ bridge.pending = TRUE /\ Top'.asked = FALSE /\ bridge' = bridge
         \/ /\ bridge.pending = FALSE /\ Top'.asked = TRUE
            /\ bridge'.pending = TRUE /\ bridge'.answered = FALSE
            /\ bridge'.op = FirstStep[line.cmd].op
            /\ bridge'.by = line.id
  BY <1>1, BeginFacts, Zenon
<1>3. Top'.asked => bridge'.pending /\ bridge'.by = Top'.id
  BY <1>2, Zenon
<1>4. StackInv'  BY <1>1, <1>2, <1>3, Zenon DEF StackInv
<1>5. /\ fromCard' = fromCard /\ toCard' = toCard /\ open' = open
      /\ file' = file /\ published' = published
  BY Zenon DEF cardVars
<1>6. CardTypes' /\ PublishedIsReceived'
  BY <1>5, Zenon DEF FtpInv, CardTypes, PublishedIsReceived
<1>7. /\ FirstStep[line.cmd].op # "commit"
      /\ \/ FirstStep[line.cmd].pc = "storReset"
            /\ FirstStep[line.cmd].op = "reset"
         \/ FirstStep[line.cmd].pc \in FreePcs
  BY SMT DEF FirstStep, Cmds, FreePcs
<1>8. CommitInv'
  <2>1. CASE bridge' = bridge
    BY <1>5, <2>1, Zenon DEF FtpInv, CommitInv, Own
  <2>2. CASE bridge'.op = FirstStep[line.cmd].op
    BY <1>7, <2>2, Zenon DEF CommitInv
  <2> QED  BY <1>2, <2>1, <2>2, Zenon
<1>9. PhaseInv'
  <2>1. CASE FirstStep[line.cmd].pc \in FreePcs
    BY <1>2, <2>1, FreePhase, Zenon
  <2>2. CASE /\ FirstStep[line.cmd].pc = "storReset"
             /\ FirstStep[line.cmd].op = "reset"
    <3>1. Top'.pc = "storReset"  BY <1>2, <2>2, Zenon
    <3>2. Top'.asked => bridge'.op = "reset" /\ ~bridge'.answered
      BY <1>2, <2>2, Zenon
    <3> QED  BY <3>1, <3>2, SMT DEF PhaseInv, StorPhase, RetrPhase, MfmtPhase
  <2> QED  BY <1>7, <2>1, <2>2
<1> QED  BY <1>4, <1>6, <1>8, <1>9, Zenon DEF FtpInv

LEMMA DispatchStep ==
  ASSUME FtpAssumption, FtpInv, NEW s \in Session, NEW cmd \in Cmds,
         Dispatch(s, cmd)
  PROVE  FtpInv'
<1> DEFINE line == [id |-> lines + 1, cmd |-> cmd, client |-> slots[s].client]
<1>1. /\ running /\ s # owner /\ lines' = lines + 1 /\ running' = running
      /\ data' = data /\ clients' = clients /\ stor' = stor
      /\ UNCHANGED cardVars
      /\ \/ slots' = [slots EXCEPT ![s].queued = line]
            /\ UNCHANGED <<owner, stack, bridge>>
         \/ ~MustWait(s) /\ Begin(s, line) /\ slots' = slots
  BY Zenon DEF Dispatch, Serviced
<1>2. lines + 1 \in Nat
  <2>1. lines \in Nat  BY Zenon DEF FtpInv, StackInv
  <2> QED  BY <2>1, SMT
<1>3. line \in Lines /\ line.cmd \in Cmds /\ line.client = slots[s].client
  <2>1. slots[s].client \in Nat  BY Zenon DEF FtpInv, SessionInv, Slots
  <2>2. cmd \in Cmds \cup {"none"}  BY Zenon
  <2> QED  BY <1>2, <2>1, <2>2, Zenon DEF Lines
<1> HIDE DEF line
<1>4. CASE slots' = [slots EXCEPT ![s].queued = line]
           /\ UNCHANGED <<owner, stack, bridge>>
  <2>1. slots' \in [Session -> Slots]
    <3>1. [slots[s] EXCEPT !.queued = line] \in Slots
      BY <1>3, Zenon DEF FtpInv, SessionInv, Slots
    <3>2. slots' = [slots EXCEPT ![s] = [slots[s] EXCEPT !.queued = line]]
      BY <1>4, Zenon
    <3> QED  BY <3>1, <3>2, Zenon DEF FtpInv, SessionInv
  <2>2. /\ slots'[s].queued = line
        /\ \A t \in Session : /\ slots'[t].client = slots[t].client
                              /\ slots'[t].loggedIn = slots[t].loggedIn
                              /\ t # s => slots'[t] = slots[t]
    BY <1>4, SMT DEF FtpInv, SessionInv, Slots
  <2>3. SessionInv'
    BY <1>1, <1>3, <2>1, <2>2, Zenon DEF FtpInv, SessionInv
  <2>4. /\ owner' = owner /\ stack' = stack /\ bridge' = bridge /\ Top' = Top
        /\ fromCard' = fromCard /\ toCard' = toCard /\ open' = open
        /\ file' = file /\ published' = published
    BY <1>1, <1>4, Zenon DEF cardVars, Top
  <2>5. StackInv'
    BY <1>1, <1>2, <2>4, Zenon DEF FtpInv, StackInv
  <2>6. CardTypes' /\ PublishedIsReceived' /\ CommitInv'
    BY <1>1, <2>4, Zenon DEF FtpInv, CardTypes, PublishedIsReceived,
         CommitInv, Own
  <2>7. PhaseInv'
    BY <1>1, <2>4, Zenon DEF FtpInv, PhaseInv, StorPhase, RetrPhase,
         MfmtPhase, Waits, Opened, Own
  <2> QED  BY <2>3, <2>5, <2>6, <2>7, Zenon DEF FtpInv
<1>5. CASE ~MustWait(s) /\ Begin(s, line) /\ slots' = slots
  <2>1. stack = <<>>
    <3>1. owner = NoSlot  BY <1>1, <1>5, Zenon DEF MustWait
    <3>2. NoSlot \notin Session  BY SMT DEF NoSlot, FtpAssumption
    <3> QED  BY <3>1, <3>2, Carrying, Zenon
  <2>2. SessionInv'  BY <1>1, <1>5, Zenon DEF FtpInv, SessionInv
  <2> QED  BY <1>1, <1>2, <1>3, <1>5, <2>1, <2>2, BeginStep, Zenon
<1> QED  BY <1>1, <1>4, <1>5

LEMMA RunPendingStep ==
  ASSUME FtpAssumption, FtpInv, RunPending
  PROVE  FtpInv'
<1>1. PICK s \in Session :
        /\ slots[s].queued # NoLine
        /\ slots' = [slots EXCEPT ![s].queued = NoLine]
        /\ Begin(s, slots[s].queued)
  BY Zenon DEF RunPending
<1>2. /\ running /\ stack = <<>> /\ running' = running
      /\ data' = data /\ clients' = clients /\ stor' = stor /\ lines' = lines
      /\ UNCHANGED cardVars
  BY Zenon DEF RunPending
<1>3. lines' \in Nat  BY <1>2, Zenon DEF FtpInv, StackInv
<1>4. slots[s].queued \in Lines /\ slots[s].queued.cmd \in Cmds
  BY <1>1, Zenon DEF FtpInv, SessionInv, Slots
<1>5. slots' \in [Session -> Slots]
  <2>1. NoLine \in Lines  BY SMT DEF NoLine, Lines, NoClient
  <2>2. [slots[s] EXCEPT !.queued = NoLine] \in Slots
    BY <2>1, Zenon DEF FtpInv, SessionInv, Slots
  <2>3. slots' = [slots EXCEPT ![s] = [slots[s] EXCEPT !.queued = NoLine]]
    BY <1>1, Zenon
  <2> QED  BY <2>2, <2>3, Zenon DEF FtpInv, SessionInv
<1>6. /\ slots'[s].queued = NoLine
      /\ \A t \in Session : /\ slots'[t].client = slots[t].client
                            /\ slots'[t].loggedIn = slots[t].loggedIn
                            /\ t # s => slots'[t] = slots[t]
  BY <1>1, SMT DEF FtpInv, SessionInv, Slots
<1>7. SessionInv'  BY <1>2, <1>5, <1>6, Zenon DEF FtpInv, SessionInv
<1> QED  BY <1>1, <1>2, <1>3, <1>4, <1>7, BeginStep, Zenon

LEMMA StopStartReclaimStep ==
  ASSUME FtpAssumption, FtpInv, Stop \/ Start \/ Reclaim
  PROVE  FtpInv'
<1>1. stack' = stack /\ lines' = lines /\ stor' = stor /\ clients' = clients
      /\ UNCHANGED cardVars
  BY Zenon DEF Stop, Start, Reclaim, taskVars, sessionVars
<1>2. /\ fromCard' = fromCard /\ toCard' = toCard /\ open' = open
      /\ file' = file /\ published' = published
  BY <1>1, Zenon DEF cardVars
<1>3. stack = <<>>
  <2>1. stack = <<>> \/ running  BY Zenon DEF FtpInv, StackInv
  <2> QED  BY <2>1, Zenon DEF Stop, Start, Reclaim
<1>4. PhaseInv' /\ CardTypes' /\ PublishedIsReceived'
  BY <1>1, <1>2, <1>3, Zenon DEF FtpInv, PhaseInv, CardTypes,
       PublishedIsReceived
<1>5. owner = NoSlot /\ bridge \in Bridges /\ lines \in Nat
      /\ running \in BOOLEAN
  BY <1>3, SMT DEF FtpInv, StackInv
<1>6. CASE Stop
  <2>1. /\ running' = FALSE /\ owner' = NoSlot /\ bridge' = bridge
        /\ slots' = [s \in Session |-> Fresh(s, NoClient)]
        /\ data' = [s \in Session |-> NoData]
    BY <1>6, Zenon DEF Stop
  <2>2. StackInv'  BY <1>1, <1>3, <1>5, <2>1, Zenon DEF StackInv
  <2>3. CommitInv'  BY <1>1, <1>2, <2>1, Zenon DEF FtpInv, CommitInv, Own
  <2>4. NoClient \in Nat  BY SMT DEF NoClient
  <2>5. \A s \in Session :
          /\ Fresh(s, NoClient) \in Slots
          /\ Fresh(s, NoClient).client = NoClient
          /\ Fresh(s, NoClient).loggedIn = FALSE
          /\ Fresh(s, NoClient).queued = NoLine
    BY <2>4, FreshFacts, Zenon
  <2>6. slots' \in [Session -> Slots] /\ data' \in [Session -> Data]
    BY <2>1, <2>5, DataFacts, Zenon
  <2>7. \A s \in Session : slots'[s] = Fresh(s, NoClient)  BY <2>1, Zenon
  <2>8. \A s \in Session : slots'[s].client = NoClient /\ ~slots'[s].loggedIn
                           /\ slots'[s].queued = NoLine
    BY <2>5, <2>7, Zenon
  <2>9. clients \in Nat /\ NoClient <= clients
    <3>1. clients \in Nat  BY Zenon DEF FtpInv, SessionInv
    <3> QED  BY <3>1, SMT DEF NoClient
  <2>10. SessionInv'  BY <1>1, <2>6, <2>8, <2>9, Zenon DEF SessionInv
  <2> QED  BY <1>4, <2>2, <2>3, <2>10, Zenon DEF FtpInv
<1>7. CASE Start
  <2>1. /\ running' = TRUE /\ owner' = owner /\ bridge' = bridge
        /\ slots' = slots /\ data' = data
    BY <1>7, Zenon DEF Start, taskVars
  <2>2. StackInv'  BY <1>1, <1>3, <1>5, <2>1, Zenon DEF StackInv
  <2>3. CommitInv' /\ SessionInv'
    BY <1>1, <1>2, <2>1, Zenon DEF FtpInv, CommitInv, Own, SessionInv
  <2> QED  BY <1>4, <2>2, <2>3, Zenon DEF FtpInv
<1>8. CASE Reclaim
  <2>1. /\ running' = running /\ owner' = owner /\ bridge' = IdleBridge
        /\ slots' = slots /\ data' = data
    BY <1>8, Zenon DEF Reclaim, taskVars, sessionVars
  <2>2. StackInv'
    BY <1>1, <1>3, <1>5, <2>1, IdleTyped, Zenon DEF StackInv
  <2>3. SessionInv'  BY <1>1, <2>1, Zenon DEF FtpInv, SessionInv
  <2>4. CommitInv'
    <3>1. bridge'.pending = FALSE  BY <2>1, IdleTyped, Zenon
    <3> QED  BY <3>1, Zenon DEF CommitInv
  <2> QED  BY <1>4, <2>2, <2>3, <2>4, Zenon DEF FtpInv
<1> QED  BY <1>6, <1>7, <1>8

-----------------------------------------------------------------------------
(* An upload comes in, also while the card is waited for. *)

LEMMA OwnAppend ==
  ASSUME NEW seq \in Seq(Nat), NEW id \in Nat, Own(seq, id)
  PROVE  /\ Append(seq, id) \in Seq(Nat)
         /\ Len(Append(seq, id)) = Len(seq) + 1
         /\ Own(Append(seq, id), id)
  BY SMT DEF Own

LEMMA PrefetchStep ==
  ASSUME FtpAssumption, FtpInv, Prefetch
  PROVE  FtpInv'
<1> DEFINE d == data[Top.slot]
<1>1. /\ stack # <<>> /\ running' = running /\ slots' = slots
      /\ clients' = clients /\ owner' = owner /\ stack' = stack
      /\ lines' = lines /\ bridge' = bridge /\ fromCard' = fromCard
      /\ open' = open /\ file' = file /\ published' = published
      /\ Top' = Top
  BY Zenon DEF Prefetch, Top
<1>2. /\ Top \in Runs /\ Top.slot \in Session /\ Top.id \in Nat
      /\ StorPhase /\ bridge \in Bridges
  <2>1. Top \in Runs  BY <1>1, Carrying, Zenon
  <2>2. Top.id \in Nat  BY <2>1, Zenon DEF Runs
  <2> QED  BY <1>1, <2>1, <2>2, Carrying, Zenon
<1>3. Top.pc \in {"storOpen", "storLoop", "storWrite"}
  BY SMT DEF Prefetch
<1>4. /\ d.unread \in Nat /\ stor.received \in Nat /\ MaxChunks \in Nat
      /\ d.unread \in 0..MaxChunks
  BY <1>2, Numbers, Zenon
<1>5. /\ stor \in Stors /\ toCard \in Seq(Nat) /\ Len(toCard) <= RingSize
      /\ RingSize \in Nat
  <2>1. RingSize \in Nat  BY SMT DEF FtpAssumption
  <2> QED  BY <2>1, Zenon DEF FtpInv, CardTypes
<1>6. StackInv'  BY <1>1, Zenon DEF FtpInv, StackInv
<1>7. CommitInv'
  <2>1. ~(bridge.pending /\ bridge.op = "commit")
    BY <1>2, <1>3, SMT DEF StorPhase, Waits
  <2> QED  BY <1>1, <2>1, Zenon DEF CommitInv
<1>8. PublishedIsReceived'  BY <1>1, Zenon DEF FtpInv, PublishedIsReceived
<1>9. RetrPhase' /\ MfmtPhase'
  BY <1>1, <1>3, SMT DEF RetrPhase, MfmtPhase
<1>10. /\ Own(toCard, Top.id)
       /\ stor.received + d.unread <= MaxChunks
       /\ Top.pc = "storOpen" => Len(toCard) = stor.received
       /\ Top.pc \in {"storLoop", "storWrite"} =>
            Len(file) + Len(toCard) = stor.received
  BY <1>2, <1>3, SMT DEF StorPhase
<1>11. CASE /\ d.unread > 0 /\ Len(toCard) < RingSize
            /\ data' = [data EXCEPT ![Top.slot].unread = d.unread - 1]
            /\ toCard' = Append(toCard, Top.id)
            /\ stor' = [stor EXCEPT !.received = stor.received + 1]
  <2>1. /\ d.unread - 1 \in 0..MaxChunks /\ stor.received + 1 \in Nat
        /\ (stor.received + 1) + (d.unread - 1) <= MaxChunks
    <3>1. d.unread > 0 /\ stor.received + d.unread <= MaxChunks
      BY <1>10, <1>11, Zenon
    <3> HIDE DEF d
    <3> QED  BY <1>4, <3>1, SMT
  <2>2. data' \in [Session -> Data] /\ data'[Top.slot].unread = d.unread - 1
    <3> DEFINE next == [data[Top.slot] EXCEPT !.unread = d.unread - 1]
    <3>1. next \in Data /\ next.unread = d.unread - 1
      BY <1>2, <2>1, Zenon DEF FtpInv, SessionInv, Data
    <3>2. data' = [data EXCEPT ![Top.slot] = next]  BY <1>11, Zenon
    <3> HIDE DEF next
    <3>3. data'[Top.slot] = next
      BY <1>2, <3>2, Zenon DEF FtpInv, SessionInv
    <3> QED  BY <3>1, <3>2, <3>3, Zenon DEF FtpInv, SessionInv
  <2>3. SessionInv'  BY <1>1, <2>2, Zenon DEF FtpInv, SessionInv
  <2>4. /\ stor' \in Stors /\ stor'.received = stor.received + 1
    BY <1>5, <1>11, <2>1, Zenon DEF Stors
  <2>5. /\ toCard' \in Seq(Nat) /\ Len(toCard') = Len(toCard) + 1
        /\ Own(toCard', Top.id)
    BY <1>2, <1>5, <1>10, <1>11, OwnAppend, Zenon
  <2>6. Len(toCard') <= RingSize  BY <1>5, <1>11, <2>5, SMT
  <2>7. CardTypes'
    BY <1>1, <2>4, <2>5, <2>6, Zenon DEF FtpInv, CardTypes
  <2>8. /\ Top.pc = "storOpen" => Len(toCard') = stor'.received
        /\ Top.pc \in {"storLoop", "storWrite"} =>
             Len(file) + Len(toCard') = stor'.received
        /\ stor'.received + data'[Top.slot].unread <= MaxChunks
    <3>1. Len(toCard) \in Nat /\ Len(file) \in Nat
      BY SMT DEF FtpInv, CardTypes
    <3>2. CASE Top.pc = "storOpen"
      BY <1>4, <1>10, <2>1, <2>2, <2>4, <2>5, <3>1, <3>2, SMT
    <3>3. CASE Top.pc \in {"storLoop", "storWrite"}
      BY <1>4, <1>10, <2>1, <2>2, <2>4, <2>5, <3>1, <3>3, SMT
    <3> QED  BY <1>3, <3>2, <3>3
  <2>9. StorPhase'
    <3>1. Own(toCard', Top.id)  BY <2>5, Zenon
    <3>2. Top.pc # "storReset" /\ Top.pc # "storData"  BY <1>3, SMT
    <3> QED  BY <1>1, <1>2, <2>8, <3>1, <3>2, Zenon DEF StorPhase, Waits,
               Opened, Own
  <2> QED  BY <1>6, <1>7, <1>8, <1>9, <2>3, <2>7, <2>9,
              Zenon DEF FtpInv, PhaseInv
<1>12. CASE /\ \/ stor' = [stor EXCEPT !.error = TRUE]
               \/ stor' = [stor EXCEPT !.eof = TRUE]
            /\ data' = data /\ toCard' = toCard
  <2>1. stor' \in Stors /\ stor'.received = stor.received
    BY <1>5, <1>12, Zenon DEF Stors
  <2>2. CardTypes' /\ SessionInv'
    BY <1>1, <1>12, <2>1, Zenon DEF FtpInv, CardTypes, SessionInv
  <2>3. StorPhase'
    BY <1>1, <1>2, <1>12, <2>1, Zenon DEF StorPhase, Waits, Opened, Own
  <2> QED  BY <1>6, <1>7, <1>8, <1>9, <2>2, <2>3, Zenon DEF FtpInv, PhaseInv
<1> QED  BY <1>11, <1>12, Zenon DEF Prefetch

-----------------------------------------------------------------------------
(* Core 1 and the card. *)

LEMMA OwnConcat ==
  ASSUME NEW a \in Seq(Nat), NEW b \in Seq(Nat), NEW id
  PROVE  /\ a \o b \in Seq(Nat) /\ Len(a \o b) = Len(a) + Len(b)
         /\ Own(a, id) /\ Own(b, id) => Own(a \o b, id)
<1>1. a \o b \in Seq(Nat) /\ Len(a \o b) = Len(a) + Len(b)  BY SMT
<1>2. ASSUME Own(a, id), Own(b, id), NEW i \in 1..Len(a \o b)
      PROVE  (a \o b)[i] = id
  <2>1. CASE i <= Len(a)
    <3>1. i \in 1..Len(a) /\ (a \o b)[i] = a[i]  BY <2>1, SMT
    <3> QED  BY <1>2, <3>1, Zenon DEF Own
  <2>2. CASE i > Len(a)
    <3>1. i - Len(a) \in 1..Len(b) /\ (a \o b)[i] = b[i - Len(a)]
      BY <1>1, <2>2, SMT
    <3> QED  BY <1>2, <3>1, Zenon DEF Own
  <2> QED  BY <1>1, <2>1, <2>2, SMT
<1> QED  BY <1>1, <1>2, Zenon DEF Own

(* What leaves a ring at its head and arrives at the end of the file. *)
LEMMA MovedFacts ==
  ASSUME NEW to \in Seq(Nat), NEW from \in Seq(Nat), NEW n \in 0..Len(from),
         NEW id
  PROVE  /\ to \o SubSeq(from, 1, n) \in Seq(Nat)
         /\ SubSeq(from, n + 1, Len(from)) \in Seq(Nat)
         /\ Len(to \o SubSeq(from, 1, n))
              + Len(SubSeq(from, n + 1, Len(from))) = Len(to) + Len(from)
         /\ Len(SubSeq(from, n + 1, Len(from))) <= Len(from)
         /\ Own(to, id) /\ Own(from, id) =>
              /\ Own(to \o SubSeq(from, 1, n), id)
              /\ Own(SubSeq(from, n + 1, Len(from)), id)
<1> DEFINE moved == SubSeq(from, 1, n)
<1> DEFINE rest == SubSeq(from, n + 1, Len(from))
<1>0. n \in Nat /\ n <= Len(from) /\ Len(from) \in Nat  BY SMT
<1>1. /\ moved \in Seq(Nat) /\ Len(moved) = n
      /\ \A i \in 1..n : moved[i] = from[i]
  BY <1>0, SMT
<1>2. /\ rest \in Seq(Nat) /\ Len(rest) = Len(from) - n
      /\ \A i \in 1..(Len(from) - n) : rest[i] = from[n + i]
  BY <1>0, SMT
<1> HIDE DEF moved, rest
<1>3. /\ to \o moved \in Seq(Nat) /\ Len(to \o moved) = Len(to) + n
      /\ Own(to, id) /\ Own(moved, id) => Own(to \o moved, id)
  BY <1>1, OwnConcat, Zenon
<1>4. /\ Len(to \o moved) + Len(rest) = Len(to) + Len(from)
      /\ Len(rest) <= Len(from)
  BY <1>0, <1>2, <1>3, SMT
<1>5. ASSUME Own(from, id)
      PROVE  Own(moved, id) /\ Own(rest, id)
  <2>1. \A i \in 1..n : i \in 1..Len(from)  BY <1>0, SMT
  <2>2. Own(moved, id)  BY <1>1, <1>5, <2>1, Zenon DEF Own
  <2>3. \A i \in 1..(Len(from) - n) : n + i \in 1..Len(from)
    BY <1>0, SMT
  <2>4. Own(rest, id)  BY <1>2, <1>5, <2>3, Zenon DEF Own
  <2> QED  BY <2>2, <2>4
<1> QED  BY <1>1, <1>2, <1>3, <1>4, <1>5, Zenon DEF moved, rest

LEMMA FilledFacts ==
  ASSUME NEW seq \in Seq(Nat), NEW n \in Nat, NEW id \in Nat
  PROVE  /\ seq \o [i \in 1..n |-> id] \in Seq(Nat)
         /\ Len(seq \o [i \in 1..n |-> id]) = Len(seq) + n
         /\ Own(seq, id) => Own(seq \o [i \in 1..n |-> id], id)
<1> DEFINE new == [i \in 1..n |-> id]
<1>1. new \in Seq(Nat) /\ Len(new) = n /\ \A i \in 1..n : new[i] = id
  BY SMT
<1> HIDE DEF new
<1>2. Own(new, id)  BY <1>1, Zenon DEF Own
<1>3. /\ seq \o new \in Seq(Nat) /\ Len(seq \o new) = Len(seq) + Len(new)
      /\ Own(seq, id) /\ Own(new, id) => Own(seq \o new, id)
  BY <1>1, OwnConcat, Zenon
<1> QED  BY <1>1, <1>2, <1>3, Zenon DEF new

LEMMA FinishFacts ==
  ASSUME bridge \in Bridges, NEW ok \in BOOLEAN, NEW count \in Nat,
         Finish(ok, count)
  PROVE  /\ bridge' \in Bridges /\ bridge'.pending = bridge.pending
         /\ bridge'.op = bridge.op /\ bridge'.by = bridge.by
         /\ bridge'.answered = TRUE /\ bridge'.ok = ok
  BY Zenon DEF Finish, Bridges

(* The request is carried out; what becomes of the card is said case by case. *)
Answers == \E ok \in BOOLEAN, count \in Nat : Finish(ok, count)

Serves(op) ==
  /\ bridge.pending /\ ~bridge.answered /\ bridge.op = op
  /\ UNCHANGED <<sessionVars, taskVars>>

LEMMA ServesFacts ==
  ASSUME FtpInv, NEW op, Serves(op), Answers
  PROVE  /\ SessionInv' /\ StackInv' /\ CommitInv'
         /\ stack' = stack /\ Top' = Top /\ data' = data /\ stor' = stor
         /\ bridge'.pending = TRUE /\ bridge.pending = TRUE
         /\ bridge.answered = FALSE /\ bridge.op = op
         /\ bridge'.op = op /\ bridge'.answered = TRUE
         /\ bridge'.by = bridge.by /\ bridge.by \in Nat
<1>1. bridge \in Bridges  BY Zenon DEF FtpInv, StackInv
<1>2. /\ bridge' \in Bridges /\ bridge'.pending = bridge.pending
      /\ bridge'.op = bridge.op /\ bridge'.by = bridge.by
      /\ bridge'.answered = TRUE
  BY <1>1, FinishFacts, Zenon DEF Answers
<1>3. /\ bridge.pending = TRUE /\ bridge.answered = FALSE /\ bridge.op = op
      /\ bridge.by \in Nat
  BY <1>1, Zenon DEF Serves, Bridges
<1>4. /\ running' = running /\ slots' = slots /\ data' = data
      /\ clients' = clients /\ owner' = owner /\ stack' = stack
      /\ stor' = stor /\ lines' = lines /\ Top' = Top
  BY Zenon DEF Serves, sessionVars, taskVars, Top
<1>5. SessionInv'  BY <1>4, Zenon DEF FtpInv, SessionInv
<1>6. StackInv'  BY <1>2, <1>4, Zenon DEF FtpInv, StackInv
<1>7. CommitInv'  BY <1>2, Zenon DEF CommitInv
<1> QED  BY <1>2, <1>3, <1>4, <1>5, <1>6, <1>7, Zenon

(* Which command can be waiting for which request. *)
Elsewhere == \/ Top.pc \in FreePcs
             \/ Top.pc \in {"storReset", "retrReset"} /\ ~Top.asked

Awaits(op) ==
  \/ op = "reset" /\ Top.pc \in {"storReset", "retrReset"}
  \/ op = "openWrite" /\ Top.pc = "storOpen"
  \/ op = "openRead" /\ Top.pc = "retrOpen"
  \/ op = "openRandom" /\ Top.pc = "mfmtOpen"
  \/ op = "write" /\ Top.pc = "storWrite"
  \/ op = "read" /\ Top.pc = "retrRead"
  \/ op = "other" /\ Top.pc = "mfmtSet"

LEMMA Places ==
  ASSUME FtpInv, stack # <<>>, NEW op, bridge.pending = TRUE, bridge.op = op
  PROVE  Elsewhere \/ Awaits(op)
<1>1. Top \in Runs /\ StorPhase /\ RetrPhase /\ MfmtPhase
  BY Carrying, Zenon
<1>2. Top.pc \in Pcs  BY <1>1, Zenon DEF Runs
<1>3. CASE Top.pc \in {"storData", "storLoop", "retrData", "retrLoop"}
  BY <1>1, <1>3, SMT DEF StorPhase, RetrPhase
<1>4. CASE Top.pc \in {"storReset", "retrReset"}
  <2>1. CASE Top.asked
    BY <1>1, <1>4, <2>1, SMT DEF StorPhase, RetrPhase, Awaits
  <2> QED  BY <1>4, <2>1, Zenon DEF Elsewhere
<1>5. CASE Top.pc \in {"storOpen", "storWrite", "retrOpen", "retrRead",
                       "mfmtOpen", "mfmtSet"}
  BY <1>1, <1>5, SMT DEF StorPhase, RetrPhase, MfmtPhase, Waits, Awaits
<1>6. CASE Top.pc \in FreePcs  BY <1>6, Zenon DEF Elsewhere
<1> QED  BY <1>2, <1>3, <1>4, <1>5, <1>6, SMT DEF Pcs, FreePcs

LEMMA ElsewherePhase ==
  ASSUME Elsewhere, Top' = Top
  PROVE  PhaseInv'
<1>1. CASE Top.pc \in FreePcs  BY <1>1, FreePhase, Zenon
<1>2. CASE Top.pc \in {"storReset", "retrReset"} /\ ~Top.asked
  BY <1>2, SMT DEF PhaseInv, StorPhase, RetrPhase, MfmtPhase
<1> QED  BY <1>1, <1>2, Zenon DEF Elsewhere

LEMMA NoFileTyped ==
  NoFile \in Files
<1>1. NoFile.chunks = <<>> /\ <<>> \in Seq(Nat) /\ 0 \in Nat
  BY SMT DEF NoFile
<1> QED  BY <1>1, Zenon DEF NoFile, Files

LEMMA ResetRingsStep ==
  ASSUME FtpAssumption, FtpInv, Serves("reset"), ResetRings
  PROVE  FtpInv'
<1>1. /\ toCard' = <<>> /\ fromCard' = <<>> /\ open' = open /\ file' = file
      /\ published' = published /\ Finish(TRUE, 0)
  BY Zenon DEF ResetRings, ClearRings
<1>2. Answers
  <2>1. 0 \in Nat  BY SMT
  <2> QED  BY <1>1, <2>1, Zenon DEF Answers
<1>3. /\ SessionInv' /\ StackInv' /\ CommitInv' /\ stack' = stack
      /\ Top' = Top /\ stor' = stor /\ bridge.pending = TRUE
      /\ bridge.op = "reset" /\ bridge'.op = "reset"
  BY <1>2, ServesFacts, Zenon
<1>4. CardTypes'
  <2>1. <<>> \in Seq(Nat) /\ Len(<<>>) <= RingSize
    BY SMT DEF FtpAssumption
  <2> QED  BY <1>1, <1>3, <2>1, Zenon DEF FtpInv, CardTypes
<1>5. PublishedIsReceived'
  BY <1>1, Zenon DEF FtpInv, PublishedIsReceived
<1>6. PhaseInv'
  <2>1. CASE stack = <<>>  BY <1>3, <2>1, Zenon DEF PhaseInv
  <2>2. CASE stack # <<>> /\ Elsewhere
    BY <1>3, <2>2, ElsewherePhase, Zenon
  <2>3. CASE stack # <<>> /\ Top.pc \in {"storReset", "retrReset"}
    BY <1>1, <1>3, <2>3, SMT DEF PhaseInv, StorPhase, RetrPhase, MfmtPhase
  <2>4. Awaits("reset") => Top.pc \in {"storReset", "retrReset"}
    BY SMT DEF Awaits
  <2> QED  BY <1>3, <2>1, <2>2, <2>3, <2>4, Places, Zenon
<1> QED  BY <1>3, <1>4, <1>5, <1>6, Zenon DEF FtpInv

LEMMA OpenFileStep ==
  ASSUME FtpAssumption, FtpInv, NEW op \in DOMAIN OpenMode, Serves(op),
         OpenFile
  PROVE  FtpInv'
<1>0. bridge.op = op  BY Zenon DEF Serves
<1>1. /\ toCard' = toCard /\ fromCard' = fromCard
      /\ \/ /\ open' = OpenMode[op] /\ Finish(TRUE, 0)
            /\ \/ op = "openWrite" /\ file' = <<>> /\ published' = NoFile
               \/ op # "openWrite" /\ file' = file /\ published' = published
         \/ Finish(FALSE, 0) /\ published' = published /\ file' = file
  BY <1>0, Zenon DEF OpenFile
<1>2. Answers
  <2>1. 0 \in Nat  BY SMT
  <2> QED  BY <1>1, <2>1, Zenon DEF Answers
<1>3. /\ SessionInv' /\ StackInv' /\ CommitInv' /\ stack' = stack
      /\ Top' = Top /\ stor' = stor /\ bridge.pending = TRUE
      /\ bridge'.pending = TRUE /\ bridge'.op = op /\ data' = data
  BY <1>2, ServesFacts, Zenon
<1>4. CardTypes' /\ PublishedIsReceived'
  <2>1. CASE file' = <<>> /\ published' = NoFile
    <3>1. <<>> \in Seq(Nat)  BY SMT
    <3> QED  BY <1>1, <1>3, <2>1, <3>1, NoFileTyped, Zenon DEF FtpInv,
               CardTypes, PublishedIsReceived
  <2>2. CASE file' = file /\ published' = published
    BY <1>1, <1>3, <2>2, Zenon DEF FtpInv, CardTypes, PublishedIsReceived
  <2> QED  BY <1>1, <2>1, <2>2, Zenon
<1>5. /\ op \in {"openWrite", "openRead", "openRandom"}
      /\ op = "openWrite" => OpenMode[op] = "write"
      /\ op = "openRead" => OpenMode[op] = "read"
      /\ op = "openRandom" => OpenMode[op] = "random"
  BY SMT DEF OpenMode
<1>6. \/ bridge'.ok = FALSE
      \/ /\ open' = OpenMode[op]
         /\ op = "openWrite" => file' = <<>>
  <2>1. bridge \in Bridges /\ 0 \in Nat
    <3>1. 0 \in Nat  BY SMT
    <3> QED  BY <3>1, Zenon DEF FtpInv, StackInv
  <2>2. Finish(FALSE, 0) => bridge'.ok = FALSE
    BY <2>1, FinishFacts, Zenon
  <2> QED  BY <1>1, <2>2, Zenon
<1>7. PhaseInv'
  <2>1. CASE stack = <<>>  BY <1>3, <2>1, Zenon DEF PhaseInv
  <2>2. CASE stack # <<>> /\ Elsewhere
    BY <1>3, <2>2, ElsewherePhase, Zenon
  <2>3. CASE stack # <<>> /\ Awaits(op)
    <3>1. StorPhase /\ RetrPhase /\ MfmtPhase  BY <2>3, Carrying, Zenon
    <3>2. CASE op = "openWrite"
      <4>1. Top.pc = "storOpen"  BY <2>3, <3>2, SMT DEF Awaits
      <4>2. RetrPhase' /\ MfmtPhase'
        BY <1>3, <4>1, SMT DEF RetrPhase, MfmtPhase
      <4>3. Waits("openWrite")' /\ Opened("write")'
            /\ (bridge'.answered /\ bridge'.ok => file' = <<>>)
        BY <1>3, <1>5, <1>6, <3>1, <3>2, <4>1, Zenon
           DEF StorPhase, Waits, Opened
      <4>4. /\ Len(toCard') = stor'.received /\ Own(toCard', Top'.id)
            /\ stor'.received + data'[Top'.slot].unread <= MaxChunks
        BY <1>1, <1>3, <3>1, <4>1, SMT DEF StorPhase
      <4>5. StorPhase'  BY <1>3, <4>1, <4>3, <4>4, SMT DEF StorPhase
      <4> QED  BY <4>2, <4>5, Zenon DEF PhaseInv
    <3>3. CASE op = "openRead"
      <4>1. Top.pc = "retrOpen"  BY <2>3, <3>3, SMT DEF Awaits
      <4>2. StorPhase' /\ MfmtPhase'
        BY <1>3, <4>1, SMT DEF StorPhase, MfmtPhase
      <4>3. Waits("openRead")' /\ Opened("read")'
        BY <1>3, <1>5, <1>6, <3>1, <3>3, <4>1, Zenon
           DEF RetrPhase, Waits, Opened
      <4>4. Own(fromCard', Top'.id)
        BY <1>1, <1>3, <3>1, <4>1, SMT DEF RetrPhase
      <4>5. RetrPhase'  BY <1>3, <4>1, <4>3, <4>4, SMT DEF RetrPhase
      <4> QED  BY <4>2, <4>5, Zenon DEF PhaseInv
    <3>4. CASE op = "openRandom"
      <4>1. Top.pc = "mfmtOpen"  BY <2>3, <3>4, SMT DEF Awaits
      <4>2. StorPhase' /\ RetrPhase'
        BY <1>3, <4>1, SMT DEF StorPhase, RetrPhase
      <4>3. Waits("openRandom")' /\ Opened("random")'
        BY <1>3, <1>5, <1>6, <3>1, <3>4, <4>1, Zenon
           DEF MfmtPhase, Waits, Opened
      <4>4. MfmtPhase'  BY <1>3, <4>1, <4>3, SMT DEF MfmtPhase
      <4> QED  BY <4>2, <4>4, Zenon DEF PhaseInv
    <3> QED  BY <1>5, <3>2, <3>3, <3>4
  <2>4. stack # <<>> => Elsewhere \/ Awaits(op)
    BY <1>0, <1>3, Places, Zenon
  <2> QED  BY <2>1, <2>2, <2>3, <2>4
<1> QED  BY <1>3, <1>4, <1>7, Zenon DEF FtpInv

LEMMA WriteFileStep ==
  ASSUME FtpAssumption, FtpInv, Serves("write"), WriteFile
  PROVE  FtpInv'
<1> DEFINE wanted == Least(bridge.count, Len(toCard))
<1>1. PICK n \in 0..wanted :
        /\ file' = file \o SubSeq(toCard, 1, n)
        /\ toCard' = SubSeq(toCard, n + 1, Len(toCard))
        /\ Finish(n = wanted, n)
  BY Zenon DEF WriteFile
<1>2. fromCard' = fromCard /\ open' = open /\ published' = published
  BY Zenon DEF WriteFile
<1>3. /\ file \in Seq(Nat) /\ toCard \in Seq(Nat) /\ Len(toCard) <= RingSize
      /\ bridge.count \in Nat /\ RingSize \in Nat
  <2>1. bridge \in Bridges  BY Zenon DEF FtpInv, StackInv
  <2>2. RingSize \in Nat  BY SMT DEF FtpAssumption
  <2> QED  BY <2>1, <2>2, Zenon DEF FtpInv, CardTypes, Bridges
<1>4. n \in 0..Len(toCard) /\ n \in Nat
  <2>1. Len(toCard) \in Nat  BY <1>3, SMT
  <2> QED  BY <1>3, <2>1, SMT DEF Least
<1>5. Answers
  <2>1. (n = wanted) \in BOOLEAN
    <3>1. CASE n = wanted  BY <3>1, Zenon
    <3>2. CASE n # wanted  BY <3>2, Zenon
    <3> QED  BY <3>1, <3>2
  <2> HIDE DEF wanted
  <2> QED  BY <1>1, <1>4, <2>1, Zenon DEF Answers
<1>6. /\ SessionInv' /\ StackInv' /\ CommitInv' /\ stack' = stack
      /\ Top' = Top /\ stor' = stor /\ bridge.pending = TRUE
      /\ bridge.op = "write" /\ bridge'.pending = TRUE
      /\ bridge'.op = "write" /\ data' = data
  BY <1>5, ServesFacts, Zenon
<1>7. /\ file' \in Seq(Nat) /\ toCard' \in Seq(Nat)
      /\ Len(file') + Len(toCard') = Len(file) + Len(toCard)
      /\ Len(toCard') <= Len(toCard)
      /\ \A id : Own(file, id) /\ Own(toCard, id) =>
                   Own(file', id) /\ Own(toCard', id)
  <2> HIDE DEF wanted
  <2> QED  BY <1>1, <1>3, <1>4, MovedFacts, Zenon
<1>8. Len(toCard') <= RingSize
  <2>1. Len(toCard') \in Nat /\ Len(toCard) \in Nat  BY <1>3, <1>7, SMT
  <2> QED  BY <1>3, <1>7, <2>1, SMT
<1>9. CardTypes' /\ PublishedIsReceived'
  BY <1>2, <1>6, <1>7, <1>8, Zenon DEF FtpInv, CardTypes,
     PublishedIsReceived
<1>10. PhaseInv'
  <2>1. CASE stack = <<>>  BY <1>6, <2>1, Zenon DEF PhaseInv
  <2>2. CASE stack # <<>> /\ Elsewhere
    BY <1>6, <2>2, ElsewherePhase, Zenon
  <2>3. CASE stack # <<>> /\ Top.pc = "storWrite"
    <3>1. StorPhase  BY <2>3, Carrying, Zenon
    <3>2. RetrPhase' /\ MfmtPhase'
      BY <1>6, <2>3, SMT DEF RetrPhase, MfmtPhase
    <3>3. /\ open = "write" /\ Len(file) + Len(toCard) = stor.received
          /\ Own(file, Top.id) /\ Own(toCard, Top.id) /\ Waits("write")
          /\ stor.received + data[Top.slot].unread <= MaxChunks
      BY <2>3, <3>1, SMT DEF StorPhase
    <3>4. /\ open' = "write" /\ Len(file') + Len(toCard') = stor'.received
          /\ Own(file', Top'.id) /\ Own(toCard', Top'.id) /\ Waits("write")'
          /\ stor'.received + data'[Top'.slot].unread <= MaxChunks
      BY <1>2, <1>6, <1>7, <3>3, Zenon DEF Waits
    <3>5. StorPhase'  BY <1>6, <2>3, <3>4, SMT DEF StorPhase
    <3> QED  BY <3>2, <3>5, Zenon DEF PhaseInv
  <2>4. Awaits("write") => Top.pc = "storWrite"  BY SMT DEF Awaits
  <2> QED  BY <1>6, <2>1, <2>2, <2>3, <2>4, Places, Zenon
<1> QED  BY <1>6, <1>9, <1>10, Zenon DEF FtpInv

LEMMA ReadFileStep ==
  ASSUME FtpAssumption, FtpInv, Serves("read"), ReadFile
  PROVE  FtpInv'
<1>1. PICK n \in 0..Least(bridge.count, RingSize - Len(fromCard)) :
        /\ fromCard' = fromCard \o [i \in 1..n |-> bridge.by]
        /\ Finish(TRUE, n) \/ Finish(FALSE, n)
  BY Zenon DEF ReadFile
<1>2. /\ toCard' = toCard /\ open' = open /\ published' = published
      /\ file' = file
  BY Zenon DEF ReadFile
<1>3. /\ fromCard \in Seq(Nat) /\ Len(fromCard) <= RingSize
      /\ bridge.count \in Nat /\ bridge.by \in Nat /\ RingSize \in Nat
  <2>1. bridge \in Bridges  BY Zenon DEF FtpInv, StackInv
  <2>2. RingSize \in Nat  BY SMT DEF FtpAssumption
  <2> QED  BY <2>1, <2>2, Zenon DEF FtpInv, CardTypes, Bridges
<1>4. n \in Nat /\ Len(fromCard) + n <= RingSize
  <2>1. Len(fromCard) \in Nat  BY <1>3, SMT
  <2> QED  BY <1>3, <2>1, SMT DEF Least
<1>5. Answers  BY <1>1, <1>4, Zenon DEF Answers
<1>6. /\ SessionInv' /\ StackInv' /\ CommitInv' /\ stack' = stack
      /\ Top' = Top /\ stor' = stor /\ bridge.pending = TRUE
      /\ bridge.op = "read" /\ bridge'.pending = TRUE
      /\ bridge'.op = "read" /\ data' = data
  BY <1>5, ServesFacts, Zenon
<1>7. /\ fromCard' \in Seq(Nat) /\ Len(fromCard') = Len(fromCard) + n
      /\ Own(fromCard, bridge.by) => Own(fromCard', bridge.by)
  BY <1>1, <1>3, <1>4, FilledFacts, Zenon
<1>8. Len(fromCard') <= RingSize  BY <1>4, <1>7, Zenon
<1>9. CardTypes' /\ PublishedIsReceived'
  BY <1>2, <1>6, <1>7, <1>8, Zenon DEF FtpInv, CardTypes,
     PublishedIsReceived
<1>10. PhaseInv'
  <2>1. CASE stack = <<>>  BY <1>6, <2>1, Zenon DEF PhaseInv
  <2>2. CASE stack # <<>> /\ Elsewhere
    BY <1>6, <2>2, ElsewherePhase, Zenon
  <2>3. CASE stack # <<>> /\ Top.pc = "retrRead"
    <3>1. RetrPhase  BY <2>3, Carrying, Zenon
    <3>2. StorPhase' /\ MfmtPhase'
      BY <1>6, <2>3, SMT DEF StorPhase, MfmtPhase
    <3>3. open = "read" /\ Own(fromCard, Top.id) /\ Waits("read")
      BY <2>3, <3>1, SMT DEF RetrPhase
    <3>4. bridge.by = Top.id
      BY <2>3, <3>3, Zenon DEF FtpInv, StackInv, Waits
    <3>5. open' = "read" /\ Own(fromCard', Top'.id) /\ Waits("read")'
      BY <1>2, <1>6, <1>7, <3>3, <3>4, Zenon DEF Waits
    <3>6. RetrPhase'  BY <1>6, <2>3, <3>5, SMT DEF RetrPhase
    <3> QED  BY <3>2, <3>6, Zenon DEF PhaseInv
  <2>4. Awaits("read") => Top.pc = "retrRead"  BY SMT DEF Awaits
  <2> QED  BY <1>6, <2>1, <2>2, <2>3, <2>4, Places, Zenon
<1> QED  BY <1>6, <1>9, <1>10, Zenon DEF FtpInv

(* Requests no command that waits for one relies on. *)
LEMMA LoosePhase ==
  ASSUME FtpInv, NEW op \in {"commit", "abort", "delete", "readDir"},
         Serves(op), Answers
  PROVE  PhaseInv'
<1>1. stack' = stack /\ Top' = Top /\ bridge.pending = TRUE
      /\ bridge.op = op
  BY ServesFacts, Zenon
<1>2. CASE stack = <<>>  BY <1>1, <1>2, Zenon DEF PhaseInv
<1>3. CASE stack # <<>>
  <2>1. ~Awaits(op)  BY SMT DEF Awaits
  <2> QED  BY <1>1, <1>3, <2>1, Places, ElsewherePhase, Zenon
<1> QED  BY <1>2, <1>3

LEMMA CommitFileStep ==
  ASSUME FtpAssumption, FtpInv, Serves("commit"), CommitFile
  PROVE  FtpInv'
<1>1. /\ toCard' = toCard /\ fromCard' = fromCard /\ file' = file
      /\ Finish(TRUE, 0) \/ Finish(FALSE, 0)
      /\ \/ published' = published
         \/ /\ open = "write" /\ toCard = <<>>
            /\ published' = [by |-> bridge.by, chunks |-> file,
                             received |-> stor.received, cut |-> stor.cut]
  BY Zenon DEF CommitFile
<1>2. Answers
  <2>1. 0 \in Nat  BY SMT
  <2> QED  BY <1>1, <2>1, Zenon DEF Answers
<1>3. /\ SessionInv' /\ StackInv' /\ CommitInv' /\ stor' = stor
      /\ bridge.pending = TRUE /\ bridge.answered = FALSE
      /\ bridge.op = "commit" /\ bridge.by \in Nat
  BY <1>2, ServesFacts, Zenon
<1>4. PhaseInv'
  <2>1. "commit" \in {"commit", "abort", "delete", "readDir"}  BY SMT
  <2> QED  BY <1>2, <2>1, LoosePhase, Zenon
<1>5. CASE published' = published
  <2>1. CardTypes' /\ PublishedIsReceived'
    BY <1>1, <1>3, <1>5, Zenon DEF FtpInv, CardTypes, PublishedIsReceived
  <2> QED  BY <1>3, <1>4, <2>1, Zenon DEF FtpInv
<1>6. CASE /\ open = "write" /\ toCard = <<>>
           /\ published' = [by |-> bridge.by, chunks |-> file,
                            received |-> stor.received, cut |-> stor.cut]
  <2>1. /\ published'.by = bridge.by /\ published'.chunks = file
        /\ published'.received = stor.received
    BY <1>6, Zenon
  <2>2. published' \in Files
    BY <1>3, <1>6, Zenon DEF Files, FtpInv, CardTypes, Stors
  <2>3. Len(file) + Len(toCard) = stor.received /\ Own(file, bridge.by)
    BY <1>3, <1>6, Zenon DEF FtpInv, CommitInv
  <2>4. Len(file) = stor.received
    <3>1. file \in Seq(Nat) /\ stor.received \in Nat
      BY Zenon DEF FtpInv, CardTypes, Stors
    <3> QED  BY <1>6, <2>3, <3>1, SMT
  <2>5. CardTypes'  BY <1>1, <1>3, <2>2, Zenon DEF FtpInv, CardTypes
  <2>6. PublishedIsReceived'
    BY <2>1, <2>3, <2>4, Zenon DEF PublishedIsReceived, Own
  <2> QED  BY <1>3, <1>4, <2>5, <2>6, Zenon DEF FtpInv
<1> QED  BY <1>1, <1>5, <1>6

LEMMA AbortFileStep ==
  ASSUME FtpAssumption, FtpInv, Serves("abort"), AbortFile
  PROVE  FtpInv'
<1>1. /\ toCard' = <<>> /\ fromCard' = fromCard /\ file' = file
      /\ published' = published
      /\ Finish(TRUE, 0) \/ Finish(FALSE, 0)
  BY Zenon DEF AbortFile
<1>2. Answers
  <2>1. 0 \in Nat  BY SMT
  <2> QED  BY <1>1, <2>1, Zenon DEF Answers
<1>3. SessionInv' /\ StackInv' /\ CommitInv' /\ stor' = stor
  BY <1>2, ServesFacts, Zenon
<1>4. PhaseInv'
  <2>1. "abort" \in {"commit", "abort", "delete", "readDir"}  BY SMT
  <2> QED  BY <1>2, <2>1, LoosePhase, Zenon
<1>5. CardTypes' /\ PublishedIsReceived'
  <2>1. <<>> \in Seq(Nat) /\ Len(<<>>) <= RingSize
    BY SMT DEF FtpAssumption
  <2> QED  BY <1>1, <1>3, <2>1, Zenon DEF FtpInv, CardTypes,
             PublishedIsReceived
<1> QED  BY <1>3, <1>4, <1>5, Zenon DEF FtpInv

LEMMA OtherRequestStep ==
  ASSUME FtpAssumption, FtpInv, NEW op \in {"delete", "other", "readDir"},
         Serves(op), OtherRequest
  PROVE  FtpInv'
<1>1. /\ toCard' = toCard /\ fromCard' = fromCard /\ file' = file
      /\ open' = open
      /\ Finish(TRUE, 0) \/ Finish(FALSE, 0)
      /\ published' \in {published, NoFile}
  BY Zenon DEF OtherRequest
<1>2. Answers
  <2>1. 0 \in Nat  BY SMT
  <2> QED  BY <1>1, <2>1, Zenon DEF Answers
<1>3. /\ SessionInv' /\ StackInv' /\ CommitInv' /\ stack' = stack
      /\ Top' = Top /\ stor' = stor /\ bridge.pending = TRUE
      /\ bridge.op = op /\ bridge'.pending = TRUE /\ bridge'.op = op
  BY <1>2, ServesFacts, Zenon
<1>4. PhaseInv'
  <2>1. CASE op \in {"delete", "readDir"}
    <3>1. op \in {"commit", "abort", "delete", "readDir"}  BY <2>1, SMT
    <3> QED  BY <1>2, <3>1, LoosePhase, Zenon
  <2>2. CASE op = "other"
    <3>1. CASE stack = <<>>  BY <1>3, <3>1, Zenon DEF PhaseInv
    <3>2. CASE stack # <<>> /\ Elsewhere
      BY <1>3, <3>2, ElsewherePhase, Zenon
    <3>3. CASE stack # <<>> /\ Top.pc = "mfmtSet"
      <4>1. Waits("other") /\ open = "random"
        BY <3>3, Carrying, Zenon DEF MfmtPhase
      <4>2. bridge'.op = "other"  BY <1>3, <2>2, Zenon
      <4>3. Waits("other")' /\ open' = "random"
        BY <1>1, <1>3, <4>1, <4>2, Zenon DEF Waits
      <4> QED  BY <1>3, <3>3, <4>3, SMT DEF PhaseInv, StorPhase, RetrPhase,
                 MfmtPhase
    <3>4. Awaits(op) => Top.pc = "mfmtSet"  BY <2>2, SMT DEF Awaits
    <3> QED  BY <1>3, <3>1, <3>2, <3>3, <3>4, Places, Zenon
  <2> QED  BY <2>1, <2>2
<1>5. CardTypes' /\ PublishedIsReceived'
  BY <1>1, <1>3, NoFileTyped, Zenon DEF FtpInv, CardTypes,
     PublishedIsReceived
<1> QED  BY <1>3, <1>4, <1>5, Zenon DEF FtpInv

LEMMA Core1Step ==
  ASSUME FtpAssumption, FtpInv, Core1
  PROVE  FtpInv'
<1>1. Serves(bridge.op)  BY Zenon DEF Core1, Serves
<1>2. CASE ResetRings
  BY <1>1, <1>2, ResetRingsStep, Zenon DEF ResetRings
<1>3. CASE OpenFile  BY <1>1, <1>3, OpenFileStep, Zenon DEF OpenFile
<1>4. CASE WriteFile  BY <1>1, <1>4, WriteFileStep, Zenon DEF WriteFile
<1>5. CASE ReadFile  BY <1>1, <1>5, ReadFileStep, Zenon DEF ReadFile
<1>6. CASE CommitFile  BY <1>1, <1>6, CommitFileStep, Zenon DEF CommitFile
<1>7. CASE AbortFile  BY <1>1, <1>7, AbortFileStep, Zenon DEF AbortFile
<1>8. CASE OtherRequest
  BY <1>1, <1>8, OtherRequestStep, Zenon DEF OtherRequest
<1> QED  BY <1>2, <1>3, <1>4, <1>5, <1>6, <1>7, <1>8, Zenon DEF Core1

-----------------------------------------------------------------------------
(* The whole system. *)

LEMMA InitFtp ==
  ASSUME FtpAssumption, Init
  PROVE  FtpInv
<1>1. /\ running = TRUE /\ data = [s \in Session |-> NoData]
      /\ owner = NoSlot /\ stack = <<>> /\ stor = NewStor
      /\ bridge = IdleBridge /\ toCard = <<>> /\ fromCard = <<>>
      /\ file = <<>> /\ published = NoFile /\ clients = 0 /\ lines = 0
  BY Zenon DEF Init
<1>2. 0 \in Nat /\ <<>> \in Seq(Nat) /\ Len(<<>>) <= RingSize
  BY SMT DEF FtpAssumption
<1>3. SessionInv
  <2> DEFINE empty == [client |-> NoClient, loggedIn |-> FALSE,
                       endpoint |-> "none", queued |-> NoLine]
  <2>1. empty \in Slots
    <3>1. NoLine \in Lines /\ NoClient \in Nat
      BY SMT DEF NoLine, Lines, NoClient
    <3> QED  BY <3>1, Zenon DEF Slots
  <2>2. /\ empty.client = 0 /\ empty.loggedIn = FALSE
        /\ empty.queued = NoLine
    BY Zenon DEF NoClient
  <2>3. slots = [s \in Session |-> empty]  BY Zenon DEF Init
  <2> HIDE DEF empty
  <2>4. /\ slots \in [Session -> Slots] /\ data \in [Session -> Data]
        /\ \A s \in Session : slots[s] = empty
    BY <1>1, <2>1, <2>3, DataFacts, Zenon
  <2>5. 0 <= 0  BY SMT
  <2> QED  BY <1>1, <1>2, <2>2, <2>4, <2>5, Zenon DEF SessionInv
<1>4. StackInv  BY <1>1, <1>2, IdleTyped, Zenon DEF StackInv
<1>5. CardTypes
  BY <1>1, <1>2, NewStorTyped, NoFileTyped, Zenon DEF CardTypes
<1>6. PhaseInv  BY <1>1, Zenon DEF PhaseInv
<1>7. CommitInv
  <2>1. bridge.pending = FALSE  BY <1>1, IdleTyped, Zenon
  <2> QED  BY <2>1, Zenon DEF CommitInv
<1>8. PublishedIsReceived  BY <1>1, Zenon DEF PublishedIsReceived
<1> QED  BY <1>3, <1>4, <1>5, <1>6, <1>7, <1>8, Zenon DEF FtpInv

LEMMA NextFtp ==
  ASSUME FtpAssumption, FtpInv, [Next]_vars
  PROVE  FtpInv'
<1>1. CASE AcceptControl  BY <1>1, AcceptControlStep, Zenon
<1>2. ASSUME NEW s \in Session, LoseControl(s)
      PROVE  FtpInv'
  BY <1>2, LoseControlStep, Zenon
<1>3. ASSUME NEW s \in Session, Login(s)
      PROVE  FtpInv'
  BY <1>3, LoginStep, Zenon
<1>4. ASSUME NEW s \in Session, NEW endpoint \in {"passive", "active"},
             SetEndpoint(s, endpoint)
      PROVE  FtpInv'
  BY <1>4, SetEndpointStep, Zenon
<1>5. ASSUME NEW s \in Session, NEW cmd \in Cmds, Dispatch(s, cmd)
      PROVE  FtpInv'
  BY <1>5, DispatchStep, Zenon
<1>6. ASSUME NEW s \in Session, Upload(s) \/ CloseUpload(s)
      PROVE  FtpInv'
  BY <1>6, UploadStep, Zenon
<1>7. CASE RunPending  BY <1>7, RunPendingStep, Zenon
<1>8. CASE Stop \/ Start \/ Reclaim
  BY <1>8, StopStartReclaimStep, Zenon
<1>9. CASE Prefetch  BY <1>9, PrefetchStep, Zenon
<1>10. CASE Carry  BY <1>10, CarryStep, Zenon
<1>11. CASE Core1  BY <1>11, Core1Step, Zenon
<1>12. CASE UNCHANGED vars
  <2>1. /\ UNCHANGED <<sessionVars, taskVars, cardVars>> /\ bridge' = bridge
    BY <1>12, Zenon DEF vars
  <2>2. /\ running' = running /\ slots' = slots /\ data' = data
        /\ clients' = clients
    BY <2>1, Zenon DEF sessionVars
  <2>3. SessionInv'  BY <2>2, Zenon DEF FtpInv, SessionInv
  <2>4. \A s \in Session : data'[s].unread <= data[s].unread
    <3>1. \A s \in Session : data[s].unread \in Nat  BY Numbers, Zenon
    <3>2. \A i \in Nat : i <= i  BY SMT
    <3> QED  BY <2>2, <3>1, <3>2, Zenon
  <2> QED  BY <2>1, <2>2, <2>3, <2>4, SessionsOnly, Zenon
<1> QED
  BY <1>1, <1>2, <1>3, <1>4, <1>5, <1>6, <1>7, <1>8, <1>9, <1>10, <1>11,
     <1>12, Zenon DEF Next

(* Every reachable state satisfies the inductive invariant: who is where in a
   session, what the command being carried out may rely on, and what the
   rings and the file hold at each of its places (ftp_server.cpp). *)
THEOREM FtpInvariant == Spec => []FtpInv
<1>1. Init => FtpInv  BY FtpAssumption, InitFtp, Zenon
<1>2. FtpInv /\ [Next]_vars => FtpInv'  BY FtpAssumption, NextFtp, Zenon
<1> QED  BY <1>1, <1>2, PTL DEF Spec

(* One command at a time uses the card, it is the one vfsOwner_ names, and the
   answer in the bridge is to its request, for any number of sessions that
   dispatchCommand() and serviceSessions() interleave. *)
THEOREM FtpCommandOwnsCard == Spec => []CommandOwnsCard
<1>1. FtpInv => CommandOwnsCard
  <2> SUFFICES ASSUME FtpInv PROVE CommandOwnsCard  OBVIOUS
  <2>1. CASE stack = <<>>
    <3>1. owner = NoSlot  BY <2>1, SMT DEF FtpInv, StackInv
    <3>2. Len(stack) <= 1  BY <2>1, SMT
    <3> QED  BY <2>1, <3>1, <3>2, Zenon DEF CommandOwnsCard
  <2>2. CASE stack # <<>>
    <3>1. /\ owner = Top.slot /\ Top.slot \in Session
          /\ Top.asked => bridge.pending /\ bridge.by = Top.id
      BY <2>2, Carrying, Zenon DEF FtpInv, StackInv
    <3>2. NoSlot \notin Session  BY FtpAssumption, SMT DEF FtpAssumption, NoSlot
    <3>3. Len(stack) <= 1
      <4>1. Len(stack) = 1  BY <2>2, Carrying, Zenon
      <4> QED  BY <4>1, SMT
    <3> QED  BY <2>2, <3>1, <3>2, <3>3, Zenon DEF CommandOwnsCard
  <2> QED  BY <2>1, <2>2
<1> QED  BY <1>1, FtpInvariant, PTL

(* A queued line is carried out for the client that sent it: dropControl() and
   acceptControl() leave no line of the client before. *)
THEOREM FtpQueueIsOwn == Spec => []QueueIsOwn
<1>1. FtpInv => QueueIsOwn  BY Zenon DEF FtpInv, SessionInv, QueueIsOwn
<1> QED  BY <1>1, FtpInvariant, PTL

(* retrieve() never sends a chunk that another command left in the ring. *)
THEOREM FtpRetrOwnBytes == Spec => []RetrOwnBytes
<1>1. FtpInv => RetrOwnBytes
  <2> SUFFICES ASSUME FtpInv PROVE RetrOwnBytes  OBVIOUS
  <2>1. CASE stack = <<>>  BY <2>1, SMT DEF RetrOwnBytes
  <2>2. CASE stack # <<>>
    <3>1. Len(stack) = 1 /\ Top.alien = FALSE  BY <2>2, Carrying, Zenon
    <3>2. \A i \in 1..Len(stack) : stack[i] = Top  BY <3>1, SMT DEF Top
    <3> QED  BY <3>1, <3>2, Zenon DEF RetrOwnBytes
  <2> QED  BY <2>1, <2>2
<1> QED  BY <1>1, FtpInvariant, PTL

(* What store() publishes is what came over its data connection, every chunk
   of it and of nothing else, also when it has given up waiting for the
   commit. *)
THEOREM FtpPublished == Spec => []PublishedIsReceived
<1>1. FtpInv => PublishedIsReceived  BY Zenon DEF FtpInv
<1> QED  BY <1>1, FtpInvariant, PTL

(* storReceived_ stays within the bound on what a peer sends. *)
ReceivedInBound == stor.received \in 0..MaxChunks

LEMMA ReceivedStep ==
  ASSUME FtpAssumption, FtpInv, stor.received \in 0..MaxChunks, [Next]_vars
  PROVE  stor'.received \in 0..MaxChunks
<1>1. CASE stor' = stor  BY <1>1, Zenon
<1>2. stor \in Stors  BY Zenon DEF FtpInv, CardTypes
<1>3. CASE stor' = NewStor
  <2>1. 0 \in 0..MaxChunks  BY SMT DEF FtpAssumption
  <2> QED  BY <1>3, <2>1, NewStorTyped, Zenon
<1>4. CASE Prefetch
  <2>1. CASE \/ stor' = [stor EXCEPT !.error = TRUE]
             \/ stor' = [stor EXCEPT !.eof = TRUE]
    <3>1. stor'.received = stor.received  BY <1>2, <2>1, Zenon DEF Stors
    <3> QED  BY <3>1, Zenon
  <2>2. CASE /\ data[Top.slot].unread > 0
             /\ stor' = [stor EXCEPT !.received = stor.received + 1]
    <3>1. /\ stack # <<>>
          /\ Top.pc \in {"storOpen", "storLoop", "storWrite"}
      BY <1>4, SMT DEF Prefetch
    <3>2. stor.received + data[Top.slot].unread <= MaxChunks
      BY <3>1, Carrying, Zenon DEF StorPhase
    <3>3. /\ data[Top.slot].unread \in Nat /\ stor.received \in Nat
          /\ MaxChunks \in Nat
      BY <3>1, Carrying, Numbers, Zenon
    <3>4. data[Top.slot].unread > 0  BY <2>2, Zenon
    <3>5. stor.received + 1 \in 0..MaxChunks  BY <3>2, <3>3, <3>4, SMT
    <3>6. stor'.received = stor.received + 1
      BY <1>2, <2>2, Zenon DEF Stors
    <3> QED  BY <3>5, <3>6, Zenon
  <2> QED  BY <1>4, <2>1, <2>2, Zenon DEF Prefetch
<1>5. CASE Store
  <2>1. CASE StorOpened
    <3>1. PICK cut : stor' = [stor EXCEPT !.cut = cut] \/ stor' = stor
      BY <2>1, Zenon DEF StorOpened
    <3>2. stor'.received = stor.received  BY <1>2, <3>1, Zenon DEF Stors
    <3> QED  BY <3>2, Zenon
  <2> QED  BY <1>1, <1>3, <1>5, <2>1, Zenon DEF Store, StorDataOpened,
             StorReset, StorLoop, StorWritten, StorClosed
<1>6. CASE Carry
  BY <1>1, <1>5, <1>6, Zenon DEF Carry, Retrieve
<1>7. CASE UNCHANGED vars  BY <1>1, <1>7, Zenon DEF vars, taskVars
<1> QED
  BY <1>1, <1>4, <1>6, <1>7, Zenon DEF Next, AcceptControl, LoseControl,
     Login, SetEndpoint, Dispatch, Upload, CloseUpload, RunPending, Stop,
     Start, Reclaim, Core1, taskVars

(* The types, and the bounds of the rings and of an upload
   (vfs_bridge.cpp, ftp_server.cpp). *)
THEOREM FtpTypes == Spec => []TypeOK
<1>1. Init => ReceivedInBound
  <2>1. 0 \in 0..MaxChunks  BY FtpAssumption, SMT DEF FtpAssumption
  <2> QED  BY <2>1, NewStorTyped, Zenon DEF Init, ReceivedInBound
<1>2. FtpInv /\ ReceivedInBound /\ [Next]_vars => ReceivedInBound'
  BY FtpAssumption, ReceivedStep, Zenon DEF ReceivedInBound
<1>3. FtpInv /\ ReceivedInBound => TypeOK
  <2> SUFFICES ASSUME FtpInv, ReceivedInBound
               PROVE  TypeOK
    OBVIOUS
  <2>1. running \in BOOLEAN  BY Zenon DEF FtpInv, StackInv
  <2>2. owner \in Session \cup {NoSlot}
    <3>1. CASE stack = <<>>  BY <3>1, SMT DEF FtpInv, StackInv
    <3>2. CASE stack # <<>>  BY <3>2, Carrying, Zenon
    <3> QED  BY <3>1, <3>2
  <2>3. /\ \A s \in Session : data[s].unread \in 0..MaxChunks
        /\ \A s \in Session : slots[s].loggedIn => slots[s].client # NoClient
    BY FtpAssumption, Numbers, Zenon DEF FtpInv, SessionInv
  <2>4. \A s \in Session : slots[s].client \in 0..clients
    <3>1. /\ clients \in Nat
          /\ \A s \in Session : /\ slots[s].client \in Nat
                                /\ slots[s].client <= clients
      BY Zenon DEF FtpInv, SessionInv, Slots
    <3>2. \A c \in Nat : c <= clients => c \in 0..clients
      BY <3>1, SMT
    <3> QED  BY <3>1, <3>2, Zenon
  <2>5. Len(toCard) <= RingSize /\ Len(fromCard) <= RingSize
    BY Zenon DEF FtpInv, CardTypes
  <2> QED
    BY <2>1, <2>2, <2>3, <2>4, <2>5, Zenon DEF TypeOK, ReceivedInBound
<1> QED  BY <1>1, <1>2, <1>3, FtpInvariant, PTL DEF Spec

=============================================================================
