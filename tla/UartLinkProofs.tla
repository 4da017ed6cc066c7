--------------------------- MODULE UartLinkProofs ---------------------------
(***************************************************************************)
(* UartLink, proved for windows of any size and any number of requests,    *)
(* late commands and lost frames, as long as a CLOSE is waited for until   *)
(* its answer has come or nothing will come any more.  What is said of the *)
(* line while nothing was lost and nothing came late needs no such promise *)
(* (NextListing).                                                          *)
(***************************************************************************)
EXTENDS UartLink, TLAPS

CloseInTime == "close" \notin Slow

Requests == [cmd : Commands, id : Nat \ {0}, seq : Nat, off : Nat]
Answers == [cmd : Commands, of : Nat \ {0}, seq : Nat, off : Nat,
            last : BOOLEAN, ok : BOOLEAN]
Waits == [cmd : Commands \cup {"none"}, id : Nat, seq : Nat, got : Seq(Nat)]
Files == [open : BOOLEAN, readSeq : Nat, writeSeq : Nat, failed : BOOLEAN]
Z80s == [sending : Nat, cmd : Commands \cup {"none"}, seq : Nat, next : Nat,
         window : Nat, frames : Nat]

Types == wait \in Waits /\ file \in Files /\ z80 \in Z80s

(* A frame nothing follows. *)
End(f) == f.last \/ ~f.ok

(* A frame after another on the way to the Z80: of a later request, or a later
   part of the same window. *)
Follows(r, q) ==
  \/ q.id < r.id
  \/ q.id = r.id /\ q.cmd = "write" /\ q.off < r.off

(* What is on the line is in the order of the requests, the answers in front,
   and an answer that ends its request is the last of it: for the frames of
   either direction, the request being answered and the number of requests. *)
Line(from, to, s, n) ==
  /\ from \in Seq(Answers) /\ to \in Seq(Requests) /\ s \in Nat /\ n \in Nat
  /\ \A i, j \in 1..Len(from) : i < j =>
       /\ from[i].of <= from[j].of
       /\ End(from[i]) => from[i].of < from[j].of
  /\ \A i \in 1..Len(from) :
       /\ from[i].of <= n
       /\ \A k \in 1..Len(to) : from[i].of < to[k].id
       /\ s # None => /\ from[i].of <= s
                      /\ End(from[i]) => from[i].of < s
  /\ \A j, k \in 1..Len(to) : j < k =>
       Follows(to[k], to[j])
  /\ \A k \in 1..Len(to) :
       /\ to[k].id <= n /\ to[k].off < Frames
       /\ s # None => s < to[k].id
  /\ s <= n

OrderInv == Line(fromZ, toZ, z80.sending, requests)

(* The request waited for is the last; windows are moved on an open file on
   which nothing has failed. *)
WaitInv ==
  /\ wait.cmd = "none" => wait.id = None
  /\ wait.cmd # "none" => wait.id = requests
  /\ wait.cmd \notin {"none", "close"} => ~file.failed
  /\ wait.cmd \in {"read", "write"} => file.open

(* A frame of request id is on the line, or the Z80 has more of them to send. *)
OnLine(cmd, id, from, to, z) ==
  \/ \E i \in 1..Len(from) : from[i].cmd = cmd /\ from[i].of = id
  \/ \E k \in 1..Len(to) : to[k].cmd = cmd /\ to[k].id = id
  \/ z.sending # None /\ z.cmd = cmd /\ z.sending = id

(* Nothing may be left of earlier requests of a command: of CLOSE, of the windows
   unless the file has to be closed first, and, while no OPENDIR was given up
   before its answer, of OPENDIR and of the batches of an open directory. *)
Strict(cmd, f, d, l) ==
  \/ cmd = "close"
  \/ cmd \in {"read", "write"} /\ ~f.failed
  \/ "openDir" \notin l /\ (cmd = "openDir" \/ (cmd = "readDir" /\ d = "open"))

Timely(cmd, id, w, f, d, l) ==
  Strict(cmd, f, d, l) => w.id = id /\ w.cmd = cmd

TimelyInv ==
  \A cmd \in Commands, id \in Nat :
    OnLine(cmd, id, fromZ, toZ, z80) => Timely(cmd, id, wait, file, dir, late)

(* Only windows and batches have several frames, what is acknowledged has been
   written, and a batch that has a status was ended with it. *)
Good(f, w, t) ==
  /\ f.cmd \notin {"read", "readDir"} => f.last
  /\ f.cmd = "write" /\ f.ok => f.of \in w
  /\ f.cmd = "readDir" /\ f.last =>
       /\ [id |-> f.of, count |-> f.off, ended |-> ~f.ok] \in t
       /\ f.ok => f.off # 0

AnswerInv ==
  /\ \A i \in 1..Len(fromZ) : Good(fromZ[i], written, told)
  /\ z80.sending # None => z80.cmd \in {"read", "readDir"}

UartInv == /\ Types /\ OrderInv /\ WaitInv /\ TimelyInv /\ AnswerInv
           /\ AckedIsWritten /\ WindowOwn

-----------------------------------------------------------------------------
(* The line. *)

LEMMA TailFacts ==
  ASSUME NEW S, NEW s \in Seq(S), s # <<>>
  PROVE  /\ Head(s) \in S /\ Head(s) = s[1] /\ 1 \in 1..Len(s)
         /\ Tail(s) \in Seq(S) /\ Len(Tail(s)) = Len(s) - 1 /\ Len(s) \in Nat
         /\ \A i \in 1..Len(Tail(s)) : /\ i + 1 \in 1..Len(s) /\ 1 < i + 1
                                       /\ Tail(s)[i] = s[i + 1]
  BY SMT

LEMMA AppendFacts ==
  ASSUME NEW S, NEW s \in Seq(S), NEW e \in S
  PROVE  /\ Append(s, e) \in Seq(S) /\ Len(Append(s, e)) = Len(s) + 1
         /\ Len(s) \in Nat /\ Append(s, e)[Len(s) + 1] = e
         /\ \A i \in 1..Len(s) : Append(s, e)[i] = s[i]
  BY SMT

LEMMA AnswerFields ==
  \A f \in Answers : f.of \in Nat /\ f.of # 0 /\ f.cmd \in Commands
  BY SMT DEF Answers

LEMMA RequestFields ==
  \A r \in Requests : /\ r.id \in Nat /\ r.id # 0 /\ r.off \in Nat
                      /\ r.seq \in Nat /\ r.cmd \in Commands
  BY SMT DEF Requests

(* What the frames of a line are, field by field. *)
LEMMA LineTypes ==
  ASSUME NEW from, NEW to, NEW s, NEW n, Line(from, to, s, n)
  PROVE  /\ from \in Seq(Answers) /\ to \in Seq(Requests)
         /\ \A i \in 1..Len(from) : from[i] \in Answers /\ from[i].of \in Nat
         /\ \A k \in 1..Len(to) : /\ to[k] \in Requests /\ to[k].id \in Nat
                                  /\ to[k].off \in Nat
         /\ s \in Nat /\ n \in Nat /\ Len(from) \in Nat /\ Len(to) \in Nat
<1>1. from \in Seq(Answers) /\ to \in Seq(Requests) /\ s \in Nat /\ n \in Nat
  BY Zenon DEF Line
<1>2. \A i \in 1..Len(from) : from[i] \in Answers  BY <1>1, SMT
<1>3. \A k \in 1..Len(to) : to[k] \in Requests  BY <1>1, SMT
<1>4. Len(from) \in Nat /\ Len(to) \in Nat  BY <1>1, SMT
<1> QED  BY <1>1, <1>2, <1>3, <1>4, AnswerFields, RequestFields, Zenon

(* An answer leaves the line. *)
LEMMA TakenLine ==
  ASSUME NEW from, NEW to, NEW s, NEW n, Line(from, to, s, n), from # <<>>
  PROVE  Line(Tail(from), to, s, n)
<1>1. from \in Seq(Answers)  BY LineTypes, Zenon
<1>2. /\ Tail(from) \in Seq(Answers)
      /\ \A i \in 1..Len(Tail(from)) : /\ i + 1 \in 1..Len(from)
                                       /\ Tail(from)[i] = from[i + 1]
  BY <1>1, TailFacts, Zenon
<1>3. \A i, j \in 1..Len(Tail(from)) : i < j => i + 1 < j + 1  BY SMT
<1>4. \A i, j \in 1..Len(Tail(from)) : i < j =>
        /\ Tail(from)[i].of <= Tail(from)[j].of
        /\ End(Tail(from)[i]) => Tail(from)[i].of < Tail(from)[j].of
  <2> TAKE i, j \in 1..Len(Tail(from))
  <2> HAVE i < j
  <2>1. i + 1 < j + 1  BY <1>3, Zenon
  <2>2. /\ i + 1 \in 1..Len(from) /\ Tail(from)[i] = from[i + 1]
        /\ j + 1 \in 1..Len(from) /\ Tail(from)[j] = from[j + 1]
    BY <1>2, Zenon
  <2>3. /\ from[i + 1].of <= from[j + 1].of
        /\ End(from[i + 1]) => from[i + 1].of < from[j + 1].of
    BY <2>1, <2>2, Zenon DEF Line
  <2> QED  BY <2>2, <2>3, Zenon
<1>5. \A i \in 1..Len(Tail(from)) :
        /\ Tail(from)[i].of <= n
        /\ \A k \in 1..Len(to) : Tail(from)[i].of < to[k].id
        /\ s # None => /\ Tail(from)[i].of <= s
                       /\ End(Tail(from)[i]) => Tail(from)[i].of < s
  BY <1>2, Zenon DEF Line
<1> QED  BY <1>2, <1>4, <1>5, Zenon DEF Line

(* A request leaves the line while nothing is answered: it is being answered
   from now on, or it is not answered at all. *)
LEMMA LostLine ==
  ASSUME NEW from, NEW to, NEW s, NEW n, Line(from, to, s, n), to # <<>>
  PROVE  Line(from, Tail(to), s, n)
<1>1. to \in Seq(Requests)  BY LineTypes, Zenon
<1>2. /\ Tail(to) \in Seq(Requests)
      /\ \A k \in 1..Len(Tail(to)) : /\ k + 1 \in 1..Len(to)
                                     /\ Tail(to)[k] = to[k + 1]
  BY <1>1, TailFacts, Zenon
<1>3. \A j, k \in 1..Len(Tail(to)) : j < k => j + 1 < k + 1  BY SMT
<1>4. \A j, k \in 1..Len(Tail(to)) : j < k =>
        Follows(Tail(to)[k], Tail(to)[j])
  <2> TAKE j, k \in 1..Len(Tail(to))
  <2> HAVE j < k
  <2>1. j + 1 < k + 1  BY <1>3, Zenon
  <2>2. /\ j + 1 \in 1..Len(to) /\ Tail(to)[j] = to[j + 1]
        /\ k + 1 \in 1..Len(to) /\ Tail(to)[k] = to[k + 1]
    BY <1>2, Zenon
  <2>3. Follows(to[k + 1], to[j + 1])
    BY <2>1, <2>2, Zenon DEF Line
  <2> QED  BY <2>2, <2>3, Zenon
<1>5. \A k \in 1..Len(Tail(to)) :
        /\ Tail(to)[k].id <= n /\ Tail(to)[k].off < Frames
        /\ s # None => s < Tail(to)[k].id
        /\ \A i \in 1..Len(from) : from[i].of < Tail(to)[k].id
  <2> TAKE k \in 1..Len(Tail(to))
  <2>1. k + 1 \in 1..Len(to) /\ Tail(to)[k] = to[k + 1]  BY <1>2, Zenon
  <2>2. /\ to[k + 1].id <= n /\ to[k + 1].off < Frames
        /\ s # None => s < to[k + 1].id
        /\ \A i \in 1..Len(from) : from[i].of < to[k + 1].id
    BY <2>1, Zenon DEF Line
  <2> QED  BY <2>1, <2>2, Zenon
<1>6. /\ from \in Seq(Answers) /\ s \in Nat /\ n \in Nat /\ s <= n
      /\ \A i, j \in 1..Len(from) : i < j =>
           /\ from[i].of <= from[j].of
           /\ End(from[i]) => from[i].of < from[j].of
      /\ \A i \in 1..Len(from) :
           /\ from[i].of <= n
           /\ s # None => /\ from[i].of <= s
                          /\ End(from[i]) => from[i].of < s
  BY Zenon DEF Line
<1>7. \A i \in 1..Len(from) :
        /\ from[i].of <= n
        /\ \A k \in 1..Len(Tail(to)) : from[i].of < Tail(to)[k].id
        /\ s # None => /\ from[i].of <= s
                       /\ End(from[i]) => from[i].of < s
  BY <1>5, <1>6, Zenon
<1>8. \A k \in 1..Len(Tail(to)) :
        /\ Tail(to)[k].id <= n /\ Tail(to)[k].off < Frames
        /\ s # None => s < Tail(to)[k].id
  BY <1>5, Zenon
<1> QED  BY ONLY <1>2, <1>4, <1>6, <1>7, <1>8, Zenon DEF Line

(* The last frame of a request: what comes after it on the line is of a later
   request. *)
EndsRequest(r) == r.cmd # "write" \/ r.off = Frames - 1

LEMMA HeardLine ==
  ASSUME NEW from, NEW to, NEW s, NEW n, Line(from, to, s, n), to # <<>>,
         EndsRequest(Head(to))
  PROVE  Line(from, Tail(to), Head(to).id, n)
<1> DEFINE r == Head(to)
<1>1. Line(from, Tail(to), s, n)  BY LostLine, Zenon
<1>2. to \in Seq(Requests)  BY LineTypes, Zenon
<1>3. /\ r \in Requests /\ r = to[1] /\ 1 \in 1..Len(to)
      /\ \A k \in 1..Len(Tail(to)) : /\ k + 1 \in 1..Len(to) /\ 1 < k + 1
                                     /\ Tail(to)[k] = to[k + 1]
  BY <1>2, TailFacts, Zenon
<1>4. r.id \in Nat /\ n \in Nat  BY <1>3, RequestFields, LineTypes, Zenon
<1>5. \A k \in 1..Len(Tail(to)) : r.id < Tail(to)[k].id
  <2> TAKE k \in 1..Len(Tail(to))
  <2>1. /\ k + 1 \in 1..Len(to) /\ 1 < k + 1 /\ Tail(to)[k] = to[k + 1]
    BY <1>3, Zenon
  <2>2. \/ r.id < to[k + 1].id
        \/ r.cmd = "write" /\ r.off < to[k + 1].off
    BY <1>3, <2>1, Zenon DEF Line, Follows
  <2>3. to[k + 1].off < Frames /\ to[k + 1].off \in Nat
    BY <2>1, LineTypes, Zenon DEF Line
  <2>4. ~(r.off = Frames - 1 /\ r.off < to[k + 1].off)
    BY <2>3, UartAssumption, SMT
  <2>5. r.id < to[k + 1].id  BY <2>2, <2>4, Zenon DEF EndsRequest
  <2> QED  BY <2>1, <2>5, Zenon
<1>6. \A i \in 1..Len(from) : from[i].of < r.id  BY <1>3, Zenon DEF Line
<1>7. \A i \in 1..Len(from) : from[i].of <= r.id
  <2>1. \A i \in 1..Len(from) : from[i].of \in Nat  BY LineTypes, Zenon
  <2> QED  BY <1>4, <1>6, <2>1, SMT
<1>8. r.id <= n  BY <1>3, Zenon DEF Line
<1> QED  BY <1>1, <1>4, <1>5, <1>6, <1>7, <1>8, Zenon DEF Line

(* The request being answered is done with. *)
LEMMA DoneLine ==
  ASSUME NEW from, NEW to, NEW s, NEW n, Line(from, to, s, n)
  PROVE  Line(from, to, None, n)
<1>1. n \in Nat  BY LineTypes, Zenon
<1>2. None \in Nat /\ None <= n  BY <1>1, SMT DEF None
<1> QED  BY <1>2, Zenon DEF Line

(* An answer to the request being answered is put on the line. *)
LEMMA SaidLine ==
  ASSUME NEW from, NEW to, NEW s, NEW n, Line(from, to, s, n), s # None,
         NEW f \in Answers, f.of = s, NEW t,
         t = None \/ (t = s /\ ~End(f))
  PROVE  Line(Append(from, f), to, t, n)
<1> DEFINE a == Append(from, f)
<1>1. /\ from \in Seq(Answers) /\ s \in Nat /\ n \in Nat /\ Len(from) \in Nat
      /\ \A i \in 1..Len(from) : from[i].of \in Nat
  BY LineTypes, Zenon
<1>2. /\ a \in Seq(Answers) /\ Len(a) = Len(from) + 1 /\ a[Len(from) + 1] = f
      /\ \A i \in 1..Len(from) : a[i] = from[i]
  <2>1. from \in Seq(Answers) /\ f \in Answers  BY <1>1, Zenon
  <2> QED  BY ONLY <2>1, AppendFacts
<1>3. \A i \in 1..Len(a) : i \in 1..Len(from) \/ i = Len(from) + 1
  BY <1>1, <1>2, SMT
<1>4. \A i, j \in 1..Len(a) : i < j =>
        i \in 1..Len(from) /\ (j \in 1..Len(from) \/ j = Len(from) + 1)
  BY <1>1, <1>2, SMT
<1>5. \A i \in 1..Len(from) : /\ from[i].of <= s
                              /\ End(from[i]) => from[i].of < s
  BY Zenon DEF Line
<1>6. \A i, j \in 1..Len(a) : i < j =>
        /\ a[i].of <= a[j].of
        /\ End(a[i]) => a[i].of < a[j].of
  <2> TAKE i, j \in 1..Len(a)
  <2> HAVE i < j
  <2>1. i \in 1..Len(from)  BY <1>4, Zenon
  <2>2. CASE j \in 1..Len(from)
    BY <1>2, <2>1, <2>2, Zenon DEF Line
  <2>3. CASE j = Len(from) + 1
    BY <1>2, <1>5, <2>1, <2>3, Zenon
  <2> QED  BY <1>4, <2>2, <2>3, Zenon
<1>7. s <= s /\ s <= n
  <2>1. s <= s  BY <1>1, SMT
  <2> QED  BY <2>1, Zenon DEF Line
<1>8. \A i \in 1..Len(a) :
        /\ a[i].of <= n
        /\ \A k \in 1..Len(to) : a[i].of < to[k].id
        /\ t # None => /\ a[i].of <= t
                       /\ End(a[i]) => a[i].of < t
  <2> TAKE i \in 1..Len(a)
  <2>1. CASE i \in 1..Len(from)
    BY <1>2, <1>5, <2>1, Zenon DEF Line
  <2>2. CASE i = Len(from) + 1
    <3>1. a[i] = f  BY <1>2, <2>2, Zenon
    <3>2. \A k \in 1..Len(to) : s < to[k].id  BY Zenon DEF Line
    <3> QED  BY <1>7, <3>1, <3>2, Zenon
  <2> QED  BY <1>3, <2>1, <2>2, Zenon
<1>9. t \in Nat /\ t <= n
  <2>1. None \in Nat /\ None <= n  BY <1>1, SMT DEF None
  <2> QED  BY <1>1, <1>7, <2>1, Zenon
<1>10. /\ to \in Seq(Requests)
       /\ \A j, k \in 1..Len(to) : j < k =>
            Follows(to[k], to[j])
       /\ \A k \in 1..Len(to) :
            /\ to[k].id <= n /\ to[k].off < Frames
            /\ t # None => t < to[k].id
  BY Zenon DEF Line
<1> QED  BY <1>1, <1>2, <1>6, <1>8, <1>9, <1>10, Zenon DEF Line

(* A request is put on the line. *)
Asked(cmd, seq, m) == [k \in 1..m |-> Frame(cmd, requests + 1, seq, k - 1)]

LEMMA AskedFacts ==
  ASSUME NEW cmd \in Commands, NEW seq \in Nat, requests \in Nat,
         NEW m \in {1, Frames}
  PROVE  /\ Asked(cmd, seq, m) \in Seq(Requests)
         /\ Len(Asked(cmd, seq, m)) = m
         /\ \A k \in 1..m : /\ Asked(cmd, seq, m)[k].cmd = cmd
                            /\ Asked(cmd, seq, m)[k].id = requests + 1
                            /\ Asked(cmd, seq, m)[k].off = k - 1
<1>1. m \in Nat  BY UartAssumption, SMT
<1>2. \A k \in 1..m : Frame(cmd, requests + 1, seq, k - 1) \in Requests
  <2> TAKE k \in 1..m
  <2>1. requests + 1 \in Nat \ {0} /\ k - 1 \in Nat  BY <1>1, SMT
  <2> QED  BY <2>1, Zenon DEF Frame, Requests
<1>3. Asked(cmd, seq, m) \in [1..m -> Requests]  BY <1>2, Zenon DEF Asked
<1>4. Asked(cmd, seq, m) \in Seq(Requests) /\ Len(Asked(cmd, seq, m)) = m
  BY <1>1, <1>3, SMT
<1> QED  BY <1>4, Zenon DEF Asked, Frame

LEMMA ConcatFacts ==
  ASSUME NEW S, NEW s \in Seq(S), NEW t \in Seq(S)
  PROVE  /\ s \o t \in Seq(S) /\ Len(s \o t) = Len(s) + Len(t)
         /\ \A i \in 1..Len(s) : (s \o t)[i] = s[i]
         /\ \A i \in 1..Len(s \o t) :
              \/ i \in 1..Len(s)
              \/ /\ i - Len(s) \in 1..Len(t) /\ Len(s) < i
                 /\ (s \o t)[i] = t[i - Len(s)]
  BY SMT

LEMMA AskedLine ==
  ASSUME OrderInv, NEW cmd \in Commands, NEW seq \in Nat, NEW m,
         m = 1 \/ (m = Frames /\ cmd = "write")
  PROVE  Line(fromZ, toZ \o Asked(cmd, seq, m), z80.sending, requests + 1)
<1> DEFINE s == z80.sending
           q == Asked(cmd, seq, m)
           u == toZ \o q
<1>1. /\ fromZ \in Seq(Answers) /\ toZ \in Seq(Requests)
      /\ s \in Nat /\ requests \in Nat /\ Len(fromZ) \in Nat /\ Len(toZ) \in Nat
      /\ \A i \in 1..Len(fromZ) : fromZ[i].of \in Nat
      /\ \A k \in 1..Len(toZ) : toZ[k].id \in Nat
  BY LineTypes, Zenon DEF OrderInv
<1>2. /\ q \in Seq(Requests) /\ Len(q) = m
      /\ \A k \in 1..m : /\ q[k].cmd = cmd /\ q[k].id = requests + 1
                         /\ q[k].off = k - 1
  <2>1. m \in {1, Frames} /\ requests \in Nat  BY <1>1, Zenon
  <2>2. /\ Asked(cmd, seq, m) \in Seq(Requests)
        /\ Len(Asked(cmd, seq, m)) = m
        /\ \A k \in 1..m : /\ Asked(cmd, seq, m)[k].cmd = cmd
                           /\ Asked(cmd, seq, m)[k].id = requests + 1
                           /\ Asked(cmd, seq, m)[k].off = k - 1
    BY ONLY <2>1, AskedFacts, cmd \in Commands, seq \in Nat, Zenon
  <2> QED  BY <2>2, Zenon
<1>3. /\ u \in Seq(Requests) /\ Len(u) = Len(toZ) + m
      /\ \A i \in 1..Len(toZ) : u[i] = toZ[i]
      /\ \A i \in 1..Len(u) :
           \/ i \in 1..Len(toZ)
           \/ /\ i - Len(toZ) \in 1..m /\ Len(toZ) < i
              /\ u[i] = q[i - Len(toZ)]
  <2>1. toZ \in Seq(Requests) /\ q \in Seq(Requests) /\ Len(q) = m
    BY <1>1, <1>2, Zenon
  <2> HIDE DEF q
  <2> QED  BY <2>1, ConcatFacts
<1>4. \A i \in 1..Len(u) :
        \/ i \in 1..Len(toZ) /\ u[i] = toZ[i]
        \/ /\ Len(toZ) < i /\ i - Len(toZ) \in 1..m
           /\ u[i].cmd = cmd /\ u[i].id = requests + 1
           /\ u[i].off = (i - Len(toZ)) - 1
  BY <1>2, <1>3, Zenon
<1>5. m \in Nat /\ m <= Frames /\ m >= 1 /\ Frames \in Nat
  BY UartAssumption, SMT
<1>6. \A x \in Nat : x <= requests => x <= requests + 1 /\ x < requests + 1
  BY <1>1, SMT
<1>7. \A j, k \in 1..Len(u) : j < k =>
        Follows(u[k], u[j])
  <2> TAKE j, k \in 1..Len(u)
  <2> HAVE j < k
  <2>1. CASE k \in 1..Len(toZ)
    <3>1. j \in 1..Len(toZ)  BY <1>1, <2>1, SMT
    <3>2. u[j] = toZ[j] /\ u[k] = toZ[k]  BY <1>3, <2>1, <3>1, Zenon
    <3>3. Follows(toZ[k], toZ[j])
      BY <2>1, <3>1, Zenon DEF OrderInv, Line
    <3> HIDE DEF u
    <3> QED  BY <3>2, <3>3, Zenon
  <2>2. CASE j \in 1..Len(toZ) /\ u[k].id = requests + 1
    <3>1. u[j] = toZ[j] /\ toZ[j].id \in Nat  BY <1>1, <1>3, <2>2, Zenon
    <3>2. toZ[j].id <= requests  BY <2>2, Zenon DEF OrderInv, Line
    <3> QED  BY <1>6, <2>2, <3>1, <3>2, Zenon DEF Follows
  <2>3. CASE /\ Len(toZ) < j /\ Len(toZ) < k
             /\ u[j].cmd = cmd /\ u[j].id = requests + 1
             /\ u[j].off = (j - Len(toZ)) - 1 /\ j - Len(toZ) \in 1..m
             /\ u[k].id = requests + 1
             /\ u[k].off = (k - Len(toZ)) - 1 /\ k - Len(toZ) \in 1..m
    <3>1. (j - Len(toZ)) - 1 < (k - Len(toZ)) - 1 /\ m # 1
      BY <1>1, <1>5, <2>3, SMT
    <3> QED  BY <2>3, <3>1, Zenon DEF Follows
  <2>4. \/ j \in 1..Len(toZ)
        \/ /\ Len(toZ) < j /\ j - Len(toZ) \in 1..m
           /\ u[j].cmd = cmd /\ u[j].id = requests + 1
           /\ u[j].off = (j - Len(toZ)) - 1
    BY <1>4, Zenon
  <2>5. \/ k \in 1..Len(toZ)
        \/ /\ Len(toZ) < k /\ k - Len(toZ) \in 1..m
           /\ u[k].id = requests + 1 /\ u[k].off = (k - Len(toZ)) - 1
    BY <1>4, Zenon
  <2> HIDE DEF u
  <2> QED  BY <2>1, <2>2, <2>3, <2>4, <2>5, Zenon
<1>8. \A k \in 1..Len(u) :
        /\ u[k].id <= requests + 1 /\ u[k].off < Frames
        /\ s # None => s < u[k].id
        /\ \A i \in 1..Len(fromZ) : fromZ[i].of < u[k].id
  <2> TAKE k \in 1..Len(u)
  <2>1. CASE k \in 1..Len(toZ) /\ u[k] = toZ[k]
    BY <1>1, <1>6, <2>1, Zenon DEF OrderInv, Line
  <2>2. CASE /\ k - Len(toZ) \in 1..m /\ u[k].id = requests + 1
             /\ u[k].off = (k - Len(toZ)) - 1
    <3>1. (k - Len(toZ)) - 1 < Frames /\ requests + 1 <= requests + 1
      BY <1>1, <1>5, <2>2, SMT
    <3>2. s <= requests /\ \A i \in 1..Len(fromZ) : fromZ[i].of <= requests
      BY Zenon DEF OrderInv, Line
    <3> QED  BY <1>1, <1>6, <2>2, <3>1, <3>2, Zenon
  <2> QED  BY <1>4, <2>1, <2>2, Zenon
<1>9. /\ \A i, j \in 1..Len(fromZ) : i < j =>
           /\ fromZ[i].of <= fromZ[j].of
           /\ End(fromZ[i]) => fromZ[i].of < fromZ[j].of
      /\ \A i \in 1..Len(fromZ) :
           /\ fromZ[i].of <= requests
           /\ s # None => /\ fromZ[i].of <= s
                          /\ End(fromZ[i]) => fromZ[i].of < s
      /\ s <= requests
  BY Zenon DEF OrderInv, Line
<1>10. /\ \A i \in 1..Len(fromZ) : fromZ[i].of <= requests + 1
       /\ s <= requests + 1
  BY <1>1, <1>6, <1>9, Zenon
<1>11. requests + 1 \in Nat  BY <1>1, SMT
<1> QED  BY <1>1, <1>3, <1>7, <1>8, <1>9, <1>10, <1>11, Zenon DEF Line

(* When the answer that ends the last request comes, it is all there is. *)
LastAnswer(from, n) ==
  from # <<>> /\ Head(from).of = n /\ End(Head(from))

Quiet(from, to, s) == Len(from) = 0 /\ Len(to) = 0 /\ s = None

LEMMA EmptyLine ==
  ASSUME NEW from, NEW to, NEW s, NEW n, Line(from, to, s, n),
         LastAnswer(from, n)
  PROVE  Quiet(Tail(from), to, s)
<1>0. from # <<>> /\ Head(from).of = n /\ End(Head(from))
  BY Zenon DEF LastAnswer
<1>1. from \in Seq(Answers) /\ s \in Nat /\ n \in Nat /\ Len(to) \in Nat
  BY LineTypes, Zenon
<1>2. /\ Head(from) = from[1] /\ 1 \in 1..Len(from)
      /\ Len(Tail(from)) \in Nat
      /\ \A i \in 1..Len(Tail(from)) : i + 1 \in 1..Len(from) /\ 1 < i + 1
  <2>1. Tail(from) \in Seq(Answers)  BY <1>0, <1>1, TailFacts, Zenon
  <2>2. Len(Tail(from)) \in Nat  BY <2>1, SMT
  <2> QED  BY <1>0, <1>1, <2>2, TailFacts, Zenon
<1>3. ASSUME NEW i \in 1..Len(Tail(from)) PROVE FALSE
  <2>1. i + 1 \in 1..Len(from) /\ 1 < i + 1  BY <1>2, <1>3, Zenon
  <2>4. from[1].of = n /\ End(from[1]) /\ 1 \in 1..Len(from)
    BY <1>0, <1>2, Zenon
  <2>5. \A x, y \in 1..Len(from) :
          x < y => (End(from[x]) => from[x].of < from[y].of)
    BY Zenon DEF Line
  <2>2. n < from[i + 1].of /\ from[i + 1].of <= n
    <3>1. from[i + 1].of <= n  BY <2>1, Zenon DEF Line
    <3>2. from[1].of < from[i + 1].of  BY <2>1, <2>4, <2>5, Zenon
    <3> QED  BY <2>4, <3>1, <3>2, Zenon
  <2>3. from[i + 1].of \in Nat  BY <2>1, LineTypes, Zenon
  <2> QED  BY <1>1, <2>2, <2>3, SMT
<1>4. ASSUME NEW k \in 1..Len(to) PROVE FALSE
  <2>1. n < to[k].id /\ to[k].id <= n  BY <1>0, <1>2, <1>4, Zenon DEF Line
  <2>2. to[k].id \in Nat  BY <1>4, LineTypes, Zenon
  <2> QED  BY <1>1, <2>1, <2>2, SMT
<1>5. s = None
  <2>1. s # None => n < s /\ s <= n  BY <1>0, <1>2, Zenon DEF Line
  <2>2. ~(n < s /\ s <= n)  BY <1>1, SMT
  <2> QED  BY <2>1, <2>2, Zenon
<1>6. \A x \in Nat : x = 0 \/ 1 \in 1..x  BY SMT
<1>7. Len(Tail(from)) = 0  BY <1>2, <1>3, <1>6, Zenon
<1>8. Len(to) = 0  BY <1>1, <1>4, <1>6, Zenon
<1> QED  BY <1>5, <1>7, <1>8, Zenon DEF Quiet

-----------------------------------------------------------------------------
(* What is on the line. *)

LEMMA TakenOn ==
  ASSUME NEW from \in Seq(Answers), from # <<>>, NEW to, NEW z, NEW c, NEW d,
         OnLine(c, d, Tail(from), to, z)
  PROVE  OnLine(c, d, from, to, z)
<1>1. \A i \in 1..Len(Tail(from)) : /\ i + 1 \in 1..Len(from)
                                    /\ Tail(from)[i] = from[i + 1]
  BY TailFacts, Zenon
<1> QED  BY <1>1, Zenon DEF OnLine

LEMMA LostOn ==
  ASSUME NEW to \in Seq(Requests), to # <<>>, NEW from, NEW z, NEW c, NEW d,
         OnLine(c, d, from, Tail(to), z)
  PROVE  OnLine(c, d, from, to, z)
<1>1. \A k \in 1..Len(Tail(to)) : /\ k + 1 \in 1..Len(to)
                                  /\ Tail(to)[k] = to[k + 1]
  BY TailFacts, Zenon
<1> QED  BY <1>1, Zenon DEF OnLine

(* A frame that is put on the line, and what the Z80 has left to send of it. *)
LEMMA SaidOn ==
  ASSUME NEW from \in Seq(Answers), NEW to, NEW z, NEW f \in Answers,
         NEW y, y.sending # None => y.sending = f.of /\ y.cmd = f.cmd,
         NEW c, NEW d, OnLine(c, d, Append(from, f), to, y)
  PROVE  OnLine(c, d, from, to, z) \/ (c = f.cmd /\ d = f.of)
<1> DEFINE a == Append(from, f)
<1>0. from \in Seq(Answers) /\ f \in Answers  BY Zenon
<1>1. /\ Len(a) = Len(from) + 1 /\ Len(from) \in Nat /\ a[Len(from) + 1] = f
      /\ \A i \in 1..Len(from) : a[i] = from[i]
  BY ONLY <1>0, AppendFacts
<1>2. \A i \in 1..Len(a) : i \in 1..Len(from) \/ i = Len(from) + 1
  BY <1>1, SMT
<1>3. OnLine(c, d, a, to, y)  BY Zenon
<1> HIDE DEF a
<1>4. CASE \E i \in 1..Len(a) : a[i].cmd = c /\ a[i].of = d
  <2>1. PICK i \in 1..Len(a) : a[i].cmd = c /\ a[i].of = d  BY <1>4, Zenon
  <2>2. CASE i \in 1..Len(from)
    BY <1>1, <2>1, <2>2, Zenon DEF OnLine
  <2>3. CASE i = Len(from) + 1
    BY <1>1, <2>1, <2>3, Zenon
  <2> QED  BY <1>2, <2>2, <2>3, Zenon
<1>5. CASE \E k \in 1..Len(to) : to[k].cmd = c /\ to[k].id = d
  BY <1>5, Zenon DEF OnLine
<1>6. CASE y.sending # None /\ y.cmd = c /\ y.sending = d
  BY <1>6, Zenon
<1> QED  BY <1>3, <1>4, <1>5, <1>6, Zenon DEF OnLine

LEMMA HeadOn ==
  ASSUME NEW to \in Seq(Requests), to # <<>>, NEW from, NEW z
  PROVE  OnLine(Head(to).cmd, Head(to).id, from, to, z)
<1>1. Head(to) = to[1] /\ 1 \in 1..Len(to)  BY TailFacts, Zenon
<1> QED  BY <1>1, Zenon DEF OnLine

LEMMA AnswerOn ==
  ASSUME NEW from \in Seq(Answers), from # <<>>, NEW to, NEW z
  PROVE  OnLine(Head(from).cmd, Head(from).of, from, to, z)
<1>1. Head(from) = from[1] /\ 1 \in 1..Len(from)  BY TailFacts, Zenon
<1> QED  BY <1>1, Zenon DEF OnLine

LEMMA AskedOn ==
  ASSUME OrderInv, NEW cmd, NEW seq, NEW m,
         cmd \in Commands /\ seq \in Nat /\ m \in {1, Frames},
         NEW c, NEW d, OnLine(c, d, fromZ, toZ \o Asked(cmd, seq, m), z80)
  PROVE  OnLine(c, d, fromZ, toZ, z80) \/ (c = cmd /\ d = requests + 1)
<1> DEFINE q == Asked(cmd, seq, m)
           u == toZ \o q
<1>1. toZ \in Seq(Requests) /\ requests \in Nat  BY LineTypes, Zenon DEF OrderInv
<1>2. /\ q \in Seq(Requests) /\ Len(q) = m
      /\ \A k \in 1..m : q[k].cmd = cmd /\ q[k].id = requests + 1
  <2>1. m \in {1, Frames} /\ requests \in Nat  BY <1>1, Zenon
  <2>2. /\ Asked(cmd, seq, m) \in Seq(Requests)
        /\ Len(Asked(cmd, seq, m)) = m
        /\ \A k \in 1..m : /\ Asked(cmd, seq, m)[k].cmd = cmd
                           /\ Asked(cmd, seq, m)[k].id = requests + 1
                           /\ Asked(cmd, seq, m)[k].off = k - 1
    BY ONLY <2>1, AskedFacts, cmd \in Commands, seq \in Nat, Zenon
  <2> QED  BY <2>2, Zenon
<1> HIDE DEF q
<1>3. /\ \A i \in 1..Len(toZ) : u[i] = toZ[i]
      /\ \A i \in 1..Len(u) :
           \/ i \in 1..Len(toZ)
           \/ i - Len(toZ) \in 1..m /\ u[i] = q[i - Len(toZ)]
  BY <1>1, <1>2, ConcatFacts
<1>4. \A i \in 1..Len(u) :
        \/ i \in 1..Len(toZ) /\ u[i] = toZ[i]
        \/ u[i].cmd = cmd /\ u[i].id = requests + 1
  BY <1>2, <1>3, Zenon
<1>5. OnLine(c, d, fromZ, u, z80)  BY Zenon DEF q
<1> HIDE DEF u
<1> QED  BY <1>4, <1>5, Zenon DEF OnLine

LEMMA QuietOn ==
  ASSUME NEW from, NEW to, NEW z, Len(from) = 0, Len(to) = 0, z.sending = None,
         NEW c, NEW d
  PROVE  ~OnLine(c, d, from, to, z)
<1>1. \A i : i \notin 1..0  BY SMT
<1> QED  BY <1>1, Zenon DEF OnLine

(* The rest of the line stays as it was. *)
Shrinks ==
  \A c \in Commands, d \in Nat :
    OnLine(c, d, fromZ', toZ', z80') => OnLine(c, d, fromZ, toZ, z80)

LEMMA GoodTail ==
  ASSUME NEW from \in Seq(Answers), from # <<>>, NEW w, NEW t,
         \A i \in 1..Len(from) : Good(from[i], w, t)
  PROVE  \A i \in 1..Len(Tail(from)) : Good(Tail(from)[i], w, t)
<1>1. \A i \in 1..Len(Tail(from)) : /\ i + 1 \in 1..Len(from)
                                    /\ Tail(from)[i] = from[i + 1]
  BY TailFacts, Zenon
<1> QED  BY <1>1, Zenon

LEMMA GoodAppend ==
  ASSUME NEW from \in Seq(Answers), NEW f \in Answers, NEW w, NEW t, Good(f, w, t),
         \A i \in 1..Len(from) : Good(from[i], w, t)
  PROVE  \A i \in 1..Len(Append(from, f)) : Good(Append(from, f)[i], w, t)
<1> DEFINE a == Append(from, f)
<1>0. from \in Seq(Answers) /\ f \in Answers  BY Zenon
<1>1. /\ Len(a) = Len(from) + 1 /\ Len(from) \in Nat /\ a[Len(from) + 1] = f
      /\ \A i \in 1..Len(from) : a[i] = from[i]
  BY ONLY <1>0, AppendFacts
<1>2. \A i \in 1..Len(a) : i \in 1..Len(from) \/ i = Len(from) + 1
  BY <1>1, SMT
<1> QED  BY <1>1, <1>2, Zenon

-----------------------------------------------------------------------------
(* What becomes of the requests. *)

LEMMA NoWaitFacts ==
  /\ NoWait \in Waits /\ NoWait.cmd = "none" /\ NoWait.id = None
  /\ Closed \in Files /\ Closed.open = FALSE /\ Closed.failed = FALSE
  /\ Opened \in Files /\ Opened.failed = FALSE
  /\ ZIdle \in Z80s /\ ZIdle.sending = None
<1>1. 0 \in Nat /\ None \in Nat /\ <<>> \in Seq(Nat)
  BY SMT DEF None
<1>2. NoWait \in Waits /\ NoWait.cmd = "none" /\ NoWait.id = None
  BY <1>1, Zenon DEF NoWait, Waits
<1>3. Closed \in Files /\ Closed.open = FALSE /\ Closed.failed = FALSE
  BY <1>1, Zenon DEF Closed, Files
<1>4. Opened \in Files /\ Opened.failed = FALSE
  BY <1>3, Zenon DEF Opened, Files
<1>6. ZIdle \in Z80s /\ ZIdle.sending = None
  BY <1>1, Zenon DEF ZIdle, Z80s
<1> QED  BY <1>2, <1>3, <1>4, <1>6, Zenon

(* Between requests nothing of them is on the line. *)
LEMMA IdleTimely ==
  ASSUME TimelyInv, wait.cmd = "none", NEW c \in Commands, NEW d \in Nat,
         OnLine(c, d, fromZ, toZ, z80)
  PROVE  ~Strict(c, file, dir, late)
<1>1. Timely(c, d, wait, file, dir, late)  BY Zenon DEF TimelyInv
<1>2. c # "none"  BY SMT DEF Commands
<1> QED  BY <1>1, <1>2, Zenon DEF Timely

(* While an answer to another command is waited for, there is nothing of a
   window or a CLOSE at all. *)
LEMMA OtherTimely ==
  ASSUME TimelyInv, WaitInv, wait.cmd \in {"open", "openDir", "stat", "readDir"},
         NEW c \in Commands, NEW d \in Nat, OnLine(c, d, fromZ, toZ, z80)
  PROVE  c # "close" /\ c \notin {"read", "write"}
<1>1. Timely(c, d, wait, file, dir, late)  BY Zenon DEF TimelyInv
<1>2. wait.cmd \notin {"none", "close", "read", "write"}  BY SMT
<1>3. ~file.failed  BY <1>2, Zenon DEF WaitInv
<1> QED  BY <1>1, <1>2, <1>3, Zenon DEF Timely, Strict

(* A request that fails, other than CLOSE, and than an OPENDIR that is not given
   up: an open file has to be closed, and an open directory is so no more when
   one of its batches fails. *)
LEMMA FailTimely ==
  ASSUME Types, TimelyInv, WaitInv, wait.cmd \notin {"none", "close"}, Failed,
         Shrinks, late \subseteq late', wait.cmd = "openDir" => "openDir" \in late'
  PROVE  TimelyInv'
<1> SUFFICES ASSUME NEW c \in Commands, NEW d \in Nat,
                    OnLine(c, d, fromZ', toZ', z80')
             PROVE  Timely(c, d, wait', file', dir', late')
  BY Zenon DEF TimelyInv
<1>1. Timely(c, d, wait, file, dir, late)  BY Zenon DEF Shrinks, TimelyInv
<1>2. c # "close"  BY <1>1, Zenon DEF Timely, Strict
<1>3. ~file.failed  BY Zenon DEF WaitInv
<1>4. CASE c \in {"read", "write"}
  <2>1. wait.cmd = c  BY <1>1, <1>3, <1>4, Zenon DEF Timely, Strict
  <2>2. file.open  BY <1>4, <2>1, Zenon DEF WaitInv
  <2>3. file' = [file EXCEPT !.failed = TRUE]  BY <2>2, Zenon DEF Failed
  <2>4. file'.failed  BY <2>3, Zenon DEF Types, Files
  <2>5. c # "openDir" /\ c # "readDir"  BY <1>4, SMT
  <2> QED  BY <1>2, <2>4, <2>5, Zenon DEF Timely, Strict
<1>5. CASE c = "openDir"
  <2>1. "openDir" \notin late' => wait.cmd = "openDir"
    BY <1>1, <1>5, Zenon DEF Timely, Strict
  <2>2. c # "readDir"  BY <1>5, SMT
  <2>3. c \notin {"read", "write"}  BY <1>5, SMT
  <2> QED  BY <1>2, <2>1, <2>2, <2>3, Zenon DEF Timely, Strict
<1>6. CASE c = "readDir"
  <2>1. c \notin {"read", "write"} /\ c # "openDir"  BY <1>6, SMT
  <2>2. ASSUME "openDir" \notin late', dir' = "open" PROVE FALSE
    <3>1. wait.cmd # "readDir" /\ dir = "open"
      <4>1. "failed" # "open"  BY SMT
      <4> QED  BY <2>2, <4>1, Zenon DEF Failed
    <3> QED  BY <1>1, <1>6, <2>2, <3>1, Zenon DEF Timely, Strict
  <2> QED  BY <1>2, <2>1, <2>2, Zenon DEF Timely, Strict
<1> QED  BY <1>2, <1>4, <1>5, <1>6, Zenon DEF Timely, Strict

LEMMA QuietTimely ==
  ASSUME Quiet(fromZ', toZ', z80'.sending)
  PROVE  TimelyInv'
  BY QuietOn, Zenon DEF TimelyInv, Quiet

LEMMA SameTimely ==
  ASSUME TimelyInv, Shrinks, wait' = wait, file' = file, dir' = dir, late' = late
  PROVE  TimelyInv'
<1> SUFFICES ASSUME NEW c \in Commands, NEW d \in Nat,
                    OnLine(c, d, fromZ', toZ', z80')
             PROVE  Timely(c, d, wait', file', dir', late')
  BY Zenon DEF TimelyInv
<1>1. Timely(c, d, wait, file, dir, late)  BY Zenon DEF Shrinks, TimelyInv
<1> QED  BY <1>1, Zenon

(* The end of a request: waited for no more, and the file as it may be. *)
LEMMA FailedFile ==
  ASSUME Types, Failed
  PROVE  /\ wait' = NoWait /\ wait' \in Waits /\ file' \in Files /\ WaitInv'
         /\ taken' = taken /\ acked' = acked
<1>1. wait' = NoWait /\ taken' = taken /\ acked' = acked
  BY Zenon DEF Failed, Done
<1>2. wait' \in Waits /\ wait'.cmd = "none" /\ wait'.id = None
  BY <1>1, NoWaitFacts, Zenon
<1>3. [file EXCEPT !.failed = TRUE] \in Files
  BY Zenon DEF Types, Files
<1>4. file' \in Files
  <2>1. file' = Closed \/ file' = [file EXCEPT !.failed = TRUE]
    BY Zenon DEF Failed
  <2> QED  BY <2>1, <1>3, NoWaitFacts, Zenon
<1>5. wait'.cmd \notin {"read", "write"}  BY <1>2, SMT
<1> QED  BY <1>1, <1>2, <1>4, <1>5, Zenon DEF WaitInv

LEMMA DoneWait ==
  ASSUME wait' = NoWait
  PROVE  WaitInv' /\ wait' \in Waits
<1>1. wait' \in Waits /\ wait'.cmd = "none" /\ wait'.id = None
  BY NoWaitFacts, Zenon
<1>2. wait'.cmd \notin {"read", "write"}  BY <1>1, SMT
<1> QED  BY <1>1, <1>2, Zenon DEF WaitInv

-----------------------------------------------------------------------------
(* The client's steps. *)

(* A request is sent: a CLOSE, or another one while nothing has failed. *)
Asks(cmd, seq, m) ==
  /\ Send(cmd, seq, m)
  /\ cmd \in Commands /\ seq \in Nat /\ (m = 1 \/ (m = Frames /\ cmd = "write"))
  /\ file' \in Files /\ file'.failed = file.failed
  /\ cmd # "close" => ~file.failed
  /\ cmd \in {"read", "write"} => file'.open
  /\ dir' \in {dir, "shut"}

LEMMA AsksKeeps ==
  ASSUME UartInv, NEW cmd, NEW seq, NEW m, Asks(cmd, seq, m)
  PROVE  UartInv'
<1>1. /\ Types /\ OrderInv /\ WaitInv /\ TimelyInv /\ AnswerInv
      /\ AckedIsWritten /\ WindowOwn
  BY Zenon DEF UartInv
<1>2. /\ cmd \in Commands /\ seq \in Nat
      /\ (m = 1 \/ (m = Frames /\ cmd = "write"))
      /\ file' \in Files /\ file'.failed = file.failed
      /\ cmd # "close" => ~file.failed
      /\ cmd \in {"read", "write"} => file'.open
      /\ dir' \in {dir, "shut"}
  BY Zenon DEF Asks
<1>3. /\ wait.cmd = "none" /\ requests' = requests + 1
      /\ wait' = [cmd |-> cmd, id |-> requests + 1, seq |-> seq, got |-> <<>>]
      /\ toZ' = toZ \o Asked(cmd, seq, m)
      /\ fromZ' = fromZ /\ z80' = z80 /\ written' = written /\ taken' = taken
      /\ acked' = acked /\ late' = late /\ told' = told
  BY Zenon DEF Asks, Send, Asked
<1>4. m \in {1, Frames}  BY <1>2, Zenon
<1>5. requests \in Nat  BY <1>1, LineTypes, Zenon DEF OrderInv
<1>6. OrderInv'
  <2>1. Line(fromZ, toZ \o Asked(cmd, seq, m), z80.sending, requests + 1)
    BY <1>1, <1>2, AskedLine, Zenon
  <2> QED  BY <1>3, <2>1, Zenon DEF OrderInv
<1>7. wait'.cmd = cmd /\ wait'.id = requests + 1  BY <1>3, Zenon
<1>8. Types'
  <2>1. requests + 1 \in Nat /\ <<>> \in Seq(Nat)  BY <1>5, SMT
  <2>2. wait' \in Waits  BY <1>2, <1>3, <2>1, Zenon DEF Waits
  <2> QED  BY <1>1, <1>2, <1>3, <2>2, Zenon DEF Types
<1>9. WaitInv'
  <2>1. cmd # "none"  BY <1>2, SMT DEF Commands
  <2> QED  BY <1>2, <1>3, <1>7, <2>1, Zenon DEF WaitInv
<1>10. TimelyInv'
  <2> SUFFICES ASSUME NEW c \in Commands, NEW d \in Nat,
                      OnLine(c, d, fromZ', toZ', z80')
               PROVE  Timely(c, d, wait', file', dir', late')
    BY Zenon DEF TimelyInv
  <2>1. OnLine(c, d, fromZ, toZ \o Asked(cmd, seq, m), z80)  BY <1>3, Zenon
  <2>2. OnLine(c, d, fromZ, toZ, z80) \/ (c = cmd /\ d = requests + 1)
    <3>1. cmd \in Commands /\ seq \in Nat /\ m \in {1, Frames}
      BY <1>2, <1>4, Zenon
    <3> QED  BY <1>1, <2>1, <3>1, AskedOn, Zenon
  <2>3. CASE OnLine(c, d, fromZ, toZ, z80)
    <3>1. ~Strict(c, file, dir, late)
      BY <1>1, <1>3, <2>3, IdleTimely, Zenon
    <3>2. dir' = "open" => dir = "open"
      <4>1. "shut" # "open"  BY SMT
      <4> QED  BY <1>2, <4>1, Zenon
    <3> QED  BY <1>2, <1>3, <3>1, <3>2, Zenon DEF Timely, Strict
  <2>4. CASE c = cmd /\ d = requests + 1
    BY <1>7, <2>4, Zenon DEF Timely
  <2> QED  BY <2>2, <2>3, <2>4, Zenon
<1>11. AnswerInv'  BY <1>1, <1>3, Zenon DEF AnswerInv
<1>12. AckedIsWritten' /\ WindowOwn'
  BY <1>1, <1>3, Zenon DEF AckedIsWritten, WindowOwn
<1> QED  BY <1>6, <1>8, <1>9, <1>10, <1>11, <1>12, Zenon DEF UartInv

LEMMA Sent ==
  ASSUME UartInv,
         AskOpen \/ AskStat \/ AskOpenDirectory \/ AskBatch \/ AskRead
           \/ AskWrite \/ AskClose
  PROVE  \E cmd, seq, m : Asks(cmd, seq, m)
<1>1. file \in Files  BY Zenon DEF UartInv, Types
<1>2. /\ file.readSeq \in Nat /\ file.writeSeq \in Nat /\ 0 \in Nat
  <2>1. 0 \in Nat  BY SMT
  <2> QED  BY <1>1, <2>1, Zenon DEF Files
<1>3. "open" \in Commands /\ "openDir" \in Commands /\ "stat" \in Commands
      /\ "read" \in Commands /\ "write" \in Commands /\ "readDir" \in Commands
      /\ "close" \in Commands
      /\ "open" # "close" /\ "open" \notin {"read", "write"}
      /\ "stat" # "close" /\ "stat" \notin {"read", "write"}
      /\ "openDir" # "close" /\ "openDir" \notin {"read", "write"}
      /\ "readDir" # "close" /\ "readDir" \notin {"read", "write"}
      /\ "read" # "close" /\ "write" # "close" /\ "close" \notin {"read", "write"}
  BY SMT DEF Commands
<1>4. CASE AskOpen
  <2>1. file.failed = FALSE  BY <1>1, <1>4, Zenon DEF AskOpen, Files
  <2>2. Asks("open", 0, 1)
    BY <1>2, <1>3, <1>4, <2>1, NoWaitFacts, Zenon DEF AskOpen, Asks
  <2> QED  BY <2>2, Zenon
<1>5. CASE AskStat
  <2>1. Asks("stat", 0, 1)
    BY <1>1, <1>2, <1>3, <1>5, Zenon DEF AskStat, Asks
  <2> QED  BY <2>1, Zenon
<1>6. CASE AskOpenDirectory
  <2>1. Asks("openDir", 0, 1)
    BY <1>1, <1>2, <1>3, <1>6, Zenon DEF AskOpenDirectory, Asks
  <2> QED  BY <2>1, Zenon
<1>7. CASE AskBatch
  <2>1. Asks("readDir", 0, 1)
    BY <1>1, <1>2, <1>3, <1>7, Zenon DEF AskBatch, Asks
  <2> QED  BY <2>1, Zenon
<1>8. CASE AskRead
  <2>1. Asks("read", file.readSeq, 1)
    BY <1>1, <1>2, <1>3, <1>8, Zenon DEF AskRead, MayRead, Asks
  <2> QED  BY <2>1, Zenon
<1>9. CASE AskWrite
  <2>1. Asks("write", file.writeSeq, Frames)
    BY <1>1, <1>2, <1>3, <1>9, Zenon DEF AskWrite, MayWrite, Asks
  <2> QED  BY <2>1, Zenon
<1>10. CASE AskClose
  <2>1. Asks("close", 0, 1)
    BY <1>1, <1>2, <1>3, <1>10, Zenon DEF AskClose, Asks
  <2> QED  BY <2>1, Zenon
<1> QED  BY <1>4, <1>5, <1>6, <1>7, <1>8, <1>9, <1>10, Zenon

LEMMA AskStep ==
  ASSUME UartInv,
         AskOpen \/ AskStat \/ AskOpenDirectory \/ AskBatch \/ AskRead
           \/ AskWrite \/ AskClose
  PROVE  UartInv'
  BY Sent, AsksKeeps, Zenon

-----------------------------------------------------------------------------
(* An answer is taken. *)

Taken ==
  /\ fromZ # <<>> /\ fromZ' = Tail(fromZ) /\ toZ' = toZ /\ z80' = z80
  /\ written' = written /\ told' = told /\ requests' = requests /\ late' = late

LEMMA TakenRest ==
  ASSUME UartInv, Taken
  PROVE  /\ OrderInv' /\ AnswerInv' /\ Shrinks /\ z80' \in Z80s
         /\ Answer \in Answers /\ Good(Answer, written, told)
         /\ Answer.of = requests /\ End(Answer) => TimelyInv'
<1>1. Types /\ OrderInv /\ AnswerInv  BY Zenon DEF UartInv
<1>2. /\ fromZ # <<>> /\ fromZ' = Tail(fromZ) /\ toZ' = toZ /\ z80' = z80
      /\ written' = written /\ told' = told /\ requests' = requests
  BY Zenon DEF Taken
<1>3. fromZ \in Seq(Answers)  BY <1>1, LineTypes, Zenon DEF OrderInv
<1>4. Line(Tail(fromZ), toZ, z80.sending, requests)
  BY <1>1, <1>2, TakenLine, Zenon DEF OrderInv
<1>5. OrderInv'  BY <1>2, <1>4, Zenon DEF OrderInv
<1>6. AnswerInv'
  <2>1. \A i \in 1..Len(Tail(fromZ)) : Good(Tail(fromZ)[i], written, told)
    BY <1>1, <1>2, <1>3, GoodTail, Zenon DEF AnswerInv
  <2> QED  BY <1>1, <1>2, <2>1, Zenon DEF AnswerInv
<1>7. Shrinks
  <2> SUFFICES ASSUME NEW c \in Commands, NEW d \in Nat,
                      OnLine(c, d, fromZ', toZ', z80')
               PROVE  OnLine(c, d, fromZ, toZ, z80)
    BY Zenon DEF Shrinks
  <2>1. OnLine(c, d, Tail(fromZ), toZ, z80)  BY <1>2, Zenon
  <2> QED  BY <1>2, <1>3, <2>1, TakenOn, Zenon
<1>8. Answer \in Answers /\ Good(Answer, written, told)
  <2>1. Answer \in Answers /\ Answer = fromZ[1] /\ 1 \in 1..Len(fromZ)
    BY <1>2, <1>3, TailFacts, Zenon DEF Answer
  <2> QED  BY <1>1, <2>1, Zenon DEF AnswerInv
<1>9. ASSUME Answer.of = requests, End(Answer) PROVE TimelyInv'
  <2>1. Quiet(Tail(fromZ), toZ, z80.sending)
    <3>1. Line(fromZ, toZ, z80.sending, requests)
      BY <1>1, Zenon DEF OrderInv
    <3>2. LastAnswer(fromZ, requests)
      BY <1>2, <1>9, Zenon DEF LastAnswer, Answer
    <3> QED  BY <3>1, <3>2, EmptyLine, Zenon
  <2> QED  BY <1>2, <2>1, QuietTimely, Zenon
<1>10. z80' \in Z80s  BY <1>1, <1>2, Zenon DEF Types
<1> QED  BY <1>5, <1>6, <1>7, <1>8, <1>9, <1>10, Zenon

(* The answer taken to a request of such a command is the answer to it. *)
LEMMA OwnAnswer ==
  ASSUME UartInv, Taken, Answer.cmd = wait.cmd,
         Strict(wait.cmd, file, dir, late)
  PROVE  Answer.of = wait.id /\ wait.id = requests
<1>1. TimelyInv /\ WaitInv /\ OrderInv  BY Zenon DEF UartInv
<1>2. Answer \in Answers  BY TakenRest, Zenon
<1>3. Answer.cmd \in Commands /\ Answer.of \in Nat
  BY <1>2, AnswerFields, Zenon
<1>4. OnLine(Answer.cmd, Answer.of, fromZ, toZ, z80)
  <2>1. fromZ \in Seq(Answers) /\ fromZ # <<>>
    BY <1>1, LineTypes, Zenon DEF OrderInv, Taken
  <2> QED  BY <2>1, AnswerOn, Zenon DEF Answer
<1>5. Timely(Answer.cmd, Answer.of, wait, file, dir, late)
  BY <1>1, <1>3, <1>4, Zenon DEF TimelyInv
<1>6. wait.cmd # "none"
  <2>1. "none" \notin Commands  BY SMT DEF Commands
  <2> QED  BY <1>3, <2>1, Zenon
<1> QED  BY <1>1, <1>5, <1>6, Zenon DEF Timely, WaitInv

(* A window, and a CLOSE. *)
LEMMA OwnWindow ==
  ASSUME UartInv, wait.cmd \in {"close", "read", "write"}
  PROVE  Strict(wait.cmd, file, dir, late)
<1>1. wait.cmd # "close" =>
        wait.cmd \notin {"none", "close"} /\ wait.cmd \in {"read", "write"}
  BY SMT
<1> QED  BY <1>1, Zenon DEF Strict, UartInv, WaitInv

LEMMA DiscardStep ==
  ASSUME UartInv, Discard
  PROVE  UartInv'
<1>1. /\ Types /\ WaitInv /\ TimelyInv /\ AckedIsWritten /\ WindowOwn
  BY Zenon DEF UartInv
<1>2. Taken /\ wait' = wait /\ file' = file /\ taken' = taken /\ acked' = acked
      /\ requests' = requests /\ written' = written /\ dir' = dir
      /\ late' = late
  BY Zenon DEF Discard, Taken, clientVars
<1>3. OrderInv' /\ AnswerInv' /\ Shrinks /\ z80' \in Z80s
  BY <1>2, TakenRest, Zenon
<1>4. TimelyInv'  BY <1>1, <1>2, <1>3, SameTimely, Zenon
<1>5. Types' /\ WaitInv'  BY <1>1, <1>2, <1>3, Zenon DEF Types, WaitInv
<1>6. AckedIsWritten' /\ WindowOwn'
  BY <1>1, <1>2, Zenon DEF AckedIsWritten, WindowOwn
<1> QED  BY <1>3, <1>4, <1>5, <1>6, Zenon DEF UartInv

(* The request goes on, with one frame more. *)
LEMMA MoreStep ==
  ASSUME UartInv, Taken, wait.cmd # "none", NEW e,
         wait' = [wait EXCEPT !.got = Append(wait.got, e)], e \in Nat,
         file' = file, dir' = dir, taken' = taken, acked' = acked
  PROVE  UartInv'
<1>1. /\ Types /\ WaitInv /\ TimelyInv /\ AckedIsWritten /\ WindowOwn
  BY Zenon DEF UartInv
<1>2. /\ OrderInv' /\ AnswerInv' /\ Shrinks /\ z80' \in Z80s
  BY TakenRest, Zenon
<1>3. wait \in Waits  BY <1>1, Zenon DEF Types
<1>4. /\ wait'.cmd = wait.cmd /\ wait'.id = wait.id /\ wait.got \in Seq(Nat)
  BY <1>3, Zenon DEF Waits
<1>5. Append(wait.got, e) \in Seq(Nat)  BY <1>4, SMT
<1>6. wait' \in Waits  BY <1>3, <1>5, Zenon DEF Waits
<1>7. TimelyInv'
  <2> SUFFICES ASSUME NEW c \in Commands, NEW d \in Nat,
                      OnLine(c, d, fromZ', toZ', z80')
               PROVE  Timely(c, d, wait', file', dir', late')
    BY Zenon DEF TimelyInv
  <2>1. Timely(c, d, wait, file, dir, late)  BY <1>1, <1>2, Zenon DEF Shrinks, TimelyInv
  <2>2. late' = late  BY Zenon DEF Taken
  <2> QED  BY <1>4, <2>1, <2>2, Zenon DEF Timely
<1>8. requests' = requests /\ written' = written  BY Zenon DEF Taken
<1>9. Types' /\ WaitInv'
  BY <1>1, <1>2, <1>4, <1>6, <1>8, Zenon DEF Types, WaitInv
<1>10. AckedIsWritten' /\ WindowOwn'
  BY <1>1, <1>8, Zenon DEF AckedIsWritten, WindowOwn
<1> QED  BY <1>2, <1>7, <1>9, <1>10, Zenon DEF UartInv

(* The request fails on what has come. *)
LEMMA FailStep ==
  ASSUME UartInv, Taken, Answer.cmd = wait.cmd, wait.cmd # "none", Failed,
         wait.cmd \in {"close", "openDir"} => End(Answer)
  PROVE  UartInv'
<1>1. /\ Types /\ WaitInv /\ TimelyInv /\ AckedIsWritten /\ WindowOwn
  BY Zenon DEF UartInv
<1>2. /\ OrderInv' /\ AnswerInv' /\ Shrinks /\ z80' \in Z80s
      /\ Answer.of = requests /\ End(Answer) => TimelyInv'
  BY TakenRest, Zenon
<1>3. /\ wait' \in Waits /\ file' \in Files /\ WaitInv'
      /\ taken' = taken /\ acked' = acked
  BY <1>1, FailedFile, Zenon
<1>4. TimelyInv'
  <2>1. CASE wait.cmd \in {"close", "openDir"} /\ Strict(wait.cmd, file, dir, late)
    <3>1. Answer.of = requests  BY <2>1, OwnAnswer, Zenon
    <3> QED  BY <1>2, <2>1, <3>1, Zenon
  <2>2. CASE ~(wait.cmd \in {"close", "openDir"} /\ Strict(wait.cmd, file, dir, late))
    <3>1. late' = late  BY Zenon DEF Taken
    <3>2. late \subseteq late'  BY <3>1, Zenon
    <3>3. wait.cmd \notin {"none", "close"}
      <4>1. wait.cmd # "close"  BY <2>2, Zenon DEF Strict
      <4> QED  BY <4>1, Zenon
    <3>4. wait.cmd = "openDir" => "openDir" \in late'
      BY <2>2, <3>1, Zenon DEF Strict
    <3> QED  BY <1>1, <1>2, <3>2, <3>3, <3>4, FailTimely, Zenon
  <2> QED  BY <2>1, <2>2, Zenon
<1>5. Types'  BY <1>2, <1>3, Zenon DEF Types
<1>6. written' = written  BY Zenon DEF Taken
<1>7. AckedIsWritten' /\ WindowOwn'
  BY <1>1, <1>3, <1>6, Zenon DEF AckedIsWritten, WindowOwn
<1> QED  BY <1>2, <1>3, <1>4, <1>5, <1>7, Zenon DEF UartInv

(* The rest of the invariant, when a request has been answered. *)
LEMMA OtherDone ==
  ASSUME UartInv, Taken, wait' \in Waits, file' \in Files, z80' \in Z80s,
         taken' = taken, acked' = acked,
         OrderInv', WaitInv', TimelyInv', AnswerInv'
  PROVE  UartInv'
<1>1. /\ Types /\ AckedIsWritten /\ WindowOwn /\ written' = written
  BY Zenon DEF UartInv, Taken
<1>2. Types'  BY Zenon DEF Types
<1>3. AckedIsWritten' /\ WindowOwn'
  BY <1>1, Zenon DEF AckedIsWritten, WindowOwn
<1> QED  BY <1>2, <1>3, Zenon DEF UartInv

(* The answer that completes a request other than a window or a CLOSE. *)
LEMMA OtherStep ==
  ASSUME UartInv, Taken, Answer.cmd = wait.cmd, End(Answer),
         wait.cmd \in {"open", "openDir", "stat", "readDir"},
         wait' = NoWait, file' \in Files, taken' = taken, acked' = acked,
         wait.cmd # "openDir" => dir' \in {dir, "shut"}
  PROVE  UartInv'
<1>1. /\ Types /\ WaitInv /\ TimelyInv /\ AckedIsWritten /\ WindowOwn
  BY Zenon DEF UartInv
<1>2. /\ OrderInv' /\ AnswerInv' /\ Shrinks /\ z80' \in Z80s
      /\ Answer.of = requests /\ End(Answer) => TimelyInv'
  BY TakenRest, Zenon
<1>3. WaitInv' /\ wait' \in Waits  BY DoneWait, Zenon
<1>4. CASE Strict(wait.cmd, file, dir, late)
  <2>1. Answer.of = requests  BY <1>4, OwnAnswer, Zenon
  <2> QED  BY <1>2, <2>1, <1>3, OtherDone, Zenon
<1>5. CASE ~Strict(wait.cmd, file, dir, late)
  <2> SUFFICES TimelyInv'  BY <1>2, <1>3, OtherDone, Zenon
  <2> SUFFICES ASSUME NEW c \in Commands, NEW d \in Nat,
                      OnLine(c, d, fromZ', toZ', z80')
               PROVE  ~Strict(c, file', dir', late')
    BY Zenon DEF TimelyInv, Timely
  <2>1. OnLine(c, d, fromZ, toZ, z80)  BY <1>2, Zenon DEF Shrinks
  <2>2. c # "close" /\ c \notin {"read", "write"}
    BY <1>1, <2>1, OtherTimely, Zenon
  <2>3. Timely(c, d, wait, file, dir, late)
    BY <1>1, <2>1, Zenon DEF TimelyInv
  <2>4. late' = late  BY Zenon DEF Taken
  <2>5. CASE "openDir" \in late
    BY <2>2, <2>4, <2>5, Zenon DEF Strict
  <2>6. CASE "openDir" \notin late
    <3>1. wait.cmd # "openDir"  BY <1>5, <2>6, Zenon DEF Strict
    <3>2. c # "openDir"  BY <2>3, <2>6, <3>1, Zenon DEF Timely, Strict
    <3>3. dir' = "open" => dir = "open"
      <4>1. "shut" # "open"  BY SMT
      <4> QED  BY <3>1, <4>1, Zenon
    <3>4. ~(c = "readDir" /\ dir = "open")
      BY <1>5, <2>3, <2>6, Zenon DEF Timely, Strict
    <3> QED  BY <2>2, <3>2, <3>3, <3>4, Zenon DEF Strict
  <2> QED  BY <2>5, <2>6, Zenon
<1> QED  BY <1>4, <1>5, Zenon

(* The answer that completes a window or a CLOSE. *)
LEMMA OwnStep ==
  ASSUME UartInv, Taken, Answer.cmd = wait.cmd, End(Answer),
         wait.cmd \in {"close", "read", "write"},
         wait' = NoWait, file' \in Files, WindowOwn', AckedIsWritten'
  PROVE  UartInv'
<1>1. /\ OrderInv' /\ AnswerInv' /\ z80' \in Z80s
      /\ Answer.of = requests /\ End(Answer) => TimelyInv'
  BY TakenRest, Zenon
<1>2. Answer.of = requests  BY OwnWindow, OwnAnswer, Zenon
<1>3. WaitInv' /\ wait' \in Waits  BY DoneWait, Zenon
<1>4. Types'  BY <1>1, <1>3, Zenon DEF Types
<1> QED  BY <1>1, <1>2, <1>3, <1>4, Zenon DEF UartInv

LEMMA FileSteps ==
  ASSUME Types
  PROVE  /\ [file EXCEPT !.readSeq = file.readSeq + 1] \in Files
         /\ [file EXCEPT !.writeSeq = file.writeSeq + 1] \in Files
<1>1. file \in Files  BY Zenon DEF Types
<1>2. file.readSeq \in Nat /\ file.writeSeq \in Nat  BY <1>1, Zenon DEF Files
<1>3. file.readSeq + 1 \in Nat /\ file.writeSeq + 1 \in Nat  BY <1>2, SMT
<1> QED  BY <1>1, <1>3, Zenon DEF Files

LEMMA TakeReadStep ==
  ASSUME UartInv, Taken, Answer.cmd = wait.cmd, TakeRead
  PROVE  UartInv'
<1> DEFINE got == Append(wait.got, Answer.of)
           inOrder == InSequence(Answer) /\ Answer.off = Len(wait.got)
           whole == \A k \in 1..Len(got) : got[k] = Answer.of
<1>1. /\ wait.cmd = "read" /\ wait.cmd # "none" /\ wait.cmd # "close"
      /\ wait.cmd \notin {"close", "openDir"}
      /\ wait.cmd \in {"close", "read", "write"}
  <2>1. wait.cmd = "read"  BY Zenon DEF TakeRead
  <2> QED  BY <2>1, SMT
<1>2. Answer.of \in Nat  BY TakenRest, AnswerFields, Zenon
<1>3. Types /\ AckedIsWritten  BY Zenon DEF UartInv
<1>4. CASE /\ Answer.ok /\ inOrder /\ ~Answer.last
           /\ wait' = [wait EXCEPT !.got = got]
           /\ UNCHANGED <<file, dir, taken, listed, acked>>
  <2>1. /\ wait' = [wait EXCEPT !.got = Append(wait.got, Answer.of)]
        /\ file' = file /\ dir' = dir /\ taken' = taken /\ acked' = acked
    BY <1>4, Zenon
  <2> QED  BY <1>1, <1>2, <2>1, MoreStep, Zenon
<1>5. CASE /\ Answer.ok /\ inOrder /\ Answer.last /\ whole
           /\ Done /\ taken' = [id |-> wait.id, of |-> got]
           /\ file' = [file EXCEPT !.readSeq = file.readSeq + 1]
           /\ UNCHANGED <<dir, listed, acked>>
  <2>1. /\ wait' = NoWait /\ End(Answer) /\ whole
        /\ taken' = [id |-> wait.id, of |-> got] /\ acked' = acked
        /\ file' = [file EXCEPT !.readSeq = file.readSeq + 1]
    BY <1>5, Zenon DEF Done, End
  <2>2. file' \in Files  BY <1>3, <2>1, FileSteps, Zenon
  <2>3. Answer.of = wait.id  BY <1>1, OwnWindow, OwnAnswer, Zenon
  <2>4. taken'.of = got /\ taken'.id = wait.id  BY <2>1, Zenon
  <2>5. WindowOwn'
    <3>1. \A k \in 1..Len(got) : got[k] = wait.id  BY <2>1, <2>3, Zenon
    <3> HIDE DEF got
    <3> QED  BY <2>4, <3>1, Zenon DEF WindowOwn
  <2>6. AckedIsWritten'
    <3>1. written' = written  BY Zenon DEF Taken
    <3> QED  BY <1>3, <2>1, <3>1, Zenon DEF AckedIsWritten
  <2>7. wait.cmd \in {"close", "read", "write"}  BY <1>1, Zenon
  <2> QED  BY <2>1, <2>2, <2>5, <2>6, <2>7, OwnStep, Zenon
<1>6. CASE Failed
  BY <1>1, <1>6, FailStep, Zenon
<1>7. \/ /\ Answer.ok /\ inOrder /\ ~Answer.last
         /\ wait' = [wait EXCEPT !.got = got]
         /\ UNCHANGED <<file, dir, taken, listed, acked>>
      \/ /\ Answer.ok /\ inOrder /\ Answer.last /\ whole
         /\ Done /\ taken' = [id |-> wait.id, of |-> got]
         /\ file' = [file EXCEPT !.readSeq = file.readSeq + 1]
         /\ UNCHANGED <<dir, listed, acked>>
      \/ Failed
  BY Zenon DEF TakeRead
<1> QED  BY <1>4, <1>5, <1>6, <1>7, Zenon

LEMMA TakeAckStep ==
  ASSUME UartInv, Taken, Answer.cmd = wait.cmd, TakeAck
  PROVE  UartInv'
<1>1. /\ wait.cmd = "write" /\ wait.cmd # "none" /\ wait.cmd # "close"
      /\ wait.cmd \in {"close", "read", "write"}
      /\ wait.cmd \notin {"read", "readDir"}
      /\ wait.cmd \notin {"close", "openDir"}
  <2>1. wait.cmd = "write"  BY Zenon DEF TakeAck
  <2> QED  BY <2>1, SMT
<1>2. Types /\ AckedIsWritten /\ WindowOwn  BY Zenon DEF UartInv
<1>3. CASE /\ Answer.ok /\ Done /\ acked' = acked \cup {wait.id}
           /\ file' = [file EXCEPT !.writeSeq = file.writeSeq + 1]
           /\ taken' = taken
  <2>1. wait' = NoWait /\ file' \in Files
    BY <1>2, <1>3, FileSteps, Zenon DEF Done
  <2>2. Good(Answer, written, told)  BY TakenRest, Zenon
  <2>3. End(Answer) /\ Answer.of \in written
    BY <1>1, <1>3, <2>2, Zenon DEF Good, End
  <2>4. Answer.of = wait.id  BY <1>1, OwnWindow, OwnAnswer, Zenon
  <2>5. AckedIsWritten'
    <3>1. written' = written  BY Zenon DEF Taken
    <3>2. wait.id \in written  BY <2>3, <2>4, Zenon
    <3> QED  BY <1>2, <1>3, <3>1, <3>2, Zenon DEF AckedIsWritten
  <2>6. WindowOwn'  BY <1>2, <1>3, Zenon DEF WindowOwn
  <2> QED  BY <1>1, <2>1, <2>3, <2>5, <2>6, OwnStep, Zenon
<1>4. CASE Failed
  BY <1>1, <1>4, FailStep, Zenon
<1>5. \/ /\ Answer.ok /\ Done /\ acked' = acked \cup {wait.id}
         /\ file' = [file EXCEPT !.writeSeq = file.writeSeq + 1]
         /\ taken' = taken
      \/ Failed
  BY Zenon DEF TakeAck
<1> QED  BY <1>3, <1>4, <1>5, Zenon

LEMMA TakeEntryStep ==
  ASSUME UartInv, Taken, Answer.cmd = wait.cmd, TakeEntry
  PROVE  UartInv'
<1>1. /\ wait.cmd = "readDir" /\ wait.cmd # "none" /\ wait.cmd # "close"
      /\ wait.cmd \in {"open", "openDir", "stat", "readDir"}
      /\ wait.cmd \notin {"close", "openDir"}
  <2>1. wait.cmd = "readDir"  BY Zenon DEF TakeEntry
  <2> QED  BY <2>1, SMT
<1>2. Answer.of \in Nat  BY TakenRest, AnswerFields, Zenon
<1>3. file \in Files  BY Zenon DEF UartInv, Types
<1>4. CASE /\ wait' = [wait EXCEPT !.got = Append(wait.got, Answer.of)]
           /\ file' = file /\ dir' = dir /\ taken' = taken /\ acked' = acked
  BY <1>1, <1>2, <1>4, MoreStep, Zenon
<1>5. CASE /\ wait' = NoWait /\ file' = file /\ taken' = taken
           /\ acked' = acked /\ dir' \in {dir, "shut"} /\ Answer.last
  BY <1>1, <1>3, <1>5, OtherStep, Zenon DEF End
<1>6. CASE Failed
  BY <1>1, <1>6, FailStep, Zenon
<1>7. \/ /\ wait' = [wait EXCEPT !.got = Append(wait.got, Answer.of)]
         /\ file' = file /\ dir' = dir /\ taken' = taken /\ acked' = acked
      \/ /\ wait' = NoWait /\ file' = file /\ taken' = taken
         /\ acked' = acked /\ dir' \in {dir, "shut"} /\ Answer.last
      \/ Failed
  BY Zenon DEF TakeEntry, Done, HasStatus
<1> QED  BY <1>4, <1>5, <1>6, <1>7, Zenon

LEMMA TakeOtherStep ==
  ASSUME UartInv, Taken, Answer.cmd = wait.cmd, TakeOther
  PROVE  UartInv'
<1>1. wait.cmd \in {"open", "openDir", "stat", "close"}  BY Zenon DEF TakeOther
<1>2. wait.cmd # "none"  BY <1>1, SMT
<1>3. Types /\ AckedIsWritten /\ WindowOwn  BY Zenon DEF UartInv
<1>4. wait.cmd \notin {"read", "readDir"}  BY <1>1, SMT
<1>8. End(Answer)
  <2>1. Good(Answer, written, told)  BY TakenRest, Zenon
  <2> QED  BY <1>4, <2>1, Zenon DEF Good, End
<1>5. CASE /\ wait' = NoWait /\ taken' = taken /\ acked' = acked
           /\ wait.cmd # "openDir" => dir' = dir
           /\ file' = IF wait.cmd = "open" THEN Opened
                      ELSE IF wait.cmd = "close" THEN Closed ELSE file
  <2>1. file' \in Files
    <3>1. file' = Opened \/ file' = Closed \/ file' = file  BY <1>5, Zenon
    <3> QED  BY <1>3, <3>1, NoWaitFacts, Zenon DEF Types
  <2>2. CASE wait.cmd = "close"
    <3>1. written' = written  BY Zenon DEF Taken
    <3>3. AckedIsWritten' /\ WindowOwn'
      BY <1>3, <1>5, <3>1, Zenon DEF AckedIsWritten, WindowOwn
    <3>4. wait.cmd \in {"close", "read", "write"}  BY <2>2, Zenon
    <3> QED  BY <1>5, <1>8, <2>1, <3>3, <3>4, OwnStep, Zenon
  <2>3. CASE wait.cmd # "close"
    <3>1. wait.cmd \in {"open", "openDir", "stat", "readDir"}
      BY <1>1, <2>3, Zenon
    <3> QED  BY <1>5, <1>8, <2>1, <3>1, OtherStep, Zenon
  <2> QED  BY <2>2, <2>3, Zenon
<1>6. CASE Failed
  BY <1>2, <1>6, <1>8, FailStep, Zenon
<1>7. \/ /\ wait' = NoWait /\ taken' = taken /\ acked' = acked
         /\ wait.cmd # "openDir" => dir' = dir
         /\ file' = IF wait.cmd = "open" THEN Opened
                    ELSE IF wait.cmd = "close" THEN Closed ELSE file
      \/ Failed
  BY Zenon DEF TakeOther, Done
<1> QED  BY <1>5, <1>6, <1>7, Zenon

LEMMA TakeStep ==
  ASSUME UartInv, Take
  PROVE  UartInv'
<1>1. Taken /\ Answer.cmd = wait.cmd  BY Zenon DEF Take, Taken
<1>2. TakeRead \/ TakeAck \/ TakeEntry \/ TakeOther  BY Zenon DEF Take
<1> QED  BY <1>1, <1>2, TakeReadStep, TakeAckStep, TakeEntryStep,
            TakeOtherStep, Zenon

(* A wait ends, the one for a CLOSE only when nothing will come. *)
LEMMA TimeOutStep ==
  ASSUME CloseInTime \/ NothingToCome, UartInv, TimeOut
  PROVE  UartInv'
<1>1. /\ Types /\ OrderInv /\ WaitInv /\ TimelyInv /\ AnswerInv
      /\ AckedIsWritten /\ WindowOwn
  BY Zenon DEF UartInv
<1>2. /\ wait.cmd # "none" /\ fromZ = <<>> /\ Failed
      /\ fromZ' = fromZ /\ toZ' = toZ /\ z80' = z80 /\ written' = written
      /\ requests' = requests
      /\ told' = told /\ late \subseteq late'
      /\ NothingToCome \/ (wait.cmd \in Slow /\ wait.cmd \in late')
  BY Zenon DEF TimeOut, MayTimeOut
<1>3. /\ wait' \in Waits /\ file' \in Files /\ WaitInv'
      /\ taken' = taken /\ acked' = acked
  BY <1>1, <1>2, FailedFile, Zenon
<1>4. TimelyInv'
  <2>1. CASE NothingToCome
    <3>1. toZ = <<>> /\ z80.sending = None  BY <2>1, Zenon DEF NothingToCome
    <3>2. Quiet(fromZ', toZ', z80'.sending)
      <4>1. fromZ' = <<>> /\ toZ' = <<>>  BY <1>2, <3>1, Zenon
      <4>2. z80'.sending = None  BY <1>2, <3>1, Zenon
      <4>3. Len(<<>>) = 0  BY SMT
      <4> QED  BY <4>1, <4>2, <4>3, Zenon DEF Quiet
    <3> QED  BY <3>2, QuietTimely, Zenon
  <2>2. CASE ~NothingToCome
    <3>1. Shrinks  BY <1>2, Zenon DEF Shrinks
    <3>2. wait.cmd \notin {"none", "close"}
      BY <1>2, <2>2, Zenon DEF CloseInTime
    <3>3. wait.cmd = "openDir" => "openDir" \in late'  BY <1>2, <2>2, Zenon
    <3> QED  BY <1>1, <1>2, <3>1, <3>2, <3>3, FailTimely, Zenon
  <2> QED  BY <2>1, <2>2, Zenon
<1>5. Types' /\ OrderInv' /\ AnswerInv'
  BY <1>1, <1>2, <1>3, Zenon DEF Types, OrderInv, AnswerInv
<1>6. AckedIsWritten' /\ WindowOwn'
  BY <1>1, <1>2, <1>3, Zenon DEF AckedIsWritten, WindowOwn
<1> QED  BY <1>3, <1>4, <1>5, <1>6, Zenon DEF UartInv

-----------------------------------------------------------------------------
(* The other end and the line. *)

LEMMA OtherEnd ==
  ASSUME UartInv, UNCHANGED clientVars, written \subseteq written', late' = late,
         OrderInv', AnswerInv', Shrinks, z80' \in Z80s
  PROVE  UartInv'
<1>1. /\ Types /\ WaitInv /\ TimelyInv /\ AckedIsWritten /\ WindowOwn
  BY Zenon DEF UartInv
<1>2. /\ wait' = wait /\ file' = file /\ taken' = taken /\ acked' = acked
      /\ requests' = requests /\ dir' = dir
  BY Zenon DEF clientVars
<1>3. TimelyInv'  BY <1>1, <1>2, SameTimely, Zenon
<1>4. Types' /\ WaitInv'  BY <1>1, <1>2, Zenon DEF Types, WaitInv
<1>5. AckedIsWritten' /\ WindowOwn'
  BY <1>1, <1>2, Zenon DEF AckedIsWritten, WindowOwn
<1> QED  BY <1>3, <1>4, <1>5, Zenon DEF UartInv

LEMMA GoodMore ==
  ASSUME AnswerInv, written \subseteq written', told \subseteq told'
  PROVE  \A i \in 1..Len(fromZ) : Good(fromZ[i], written', told')
  BY Zenon DEF AnswerInv, Good

(* A request is answered with one frame. *)
LEMMA Replies ==
  ASSUME UartInv, UNCHANGED clientVars, written \subseteq written', late' = late,
         told' = told,
         toZ # <<>>, toZ' = Tail(toZ), EndsRequest(Head(toZ)),
         NEW f \in Answers, f.cmd = Head(toZ).cmd, f.of = Head(toZ).id,
         Good(f, written', told'), fromZ' = Append(fromZ, f), z80' = ZIdle
  PROVE  UartInv'
<1>1. Types /\ OrderInv /\ AnswerInv  BY Zenon DEF UartInv
<1>2. /\ fromZ \in Seq(Answers) /\ toZ \in Seq(Requests)
      /\ Line(fromZ, toZ, z80.sending, requests)
  BY <1>1, LineTypes, Zenon DEF OrderInv
<1>3. z80' \in Z80s /\ z80'.sending = None  BY NoWaitFacts, Zenon
<1>4. requests' = requests  BY Zenon DEF clientVars
<1>5. OrderInv'
  <2>1. Line(fromZ, Tail(toZ), Head(toZ).id, requests)
    BY <1>2, HeardLine, Zenon
  <2>2. Head(toZ).id # None
    <3>1. Head(toZ) \in Requests  BY <1>2, TailFacts, Zenon
    <3>2. Head(toZ).id # 0  BY <3>1, RequestFields, Zenon
    <3> QED  BY <3>2, Zenon DEF None
  <2>3. Line(Append(fromZ, f), Tail(toZ), None, requests)
    BY <2>1, <2>2, SaidLine, Zenon
  <2> QED  BY <1>3, <1>4, <2>3, Zenon DEF OrderInv
<1>6. AnswerInv'
  <2>1. \A i \in 1..Len(fromZ) : Good(fromZ[i], written', told')
    <3>1. told \subseteq told'  BY Zenon
    <3> QED  BY <1>1, <3>1, GoodMore, Zenon
  <2>2. \A i \in 1..Len(Append(fromZ, f)) : Good(Append(fromZ, f)[i], written', told')
    BY <1>2, <2>1, GoodAppend, Zenon
  <2> QED  BY <1>3, <2>2, Zenon DEF AnswerInv
<1>7. Shrinks
  <2> SUFFICES ASSUME NEW c \in Commands, NEW d \in Nat,
                      OnLine(c, d, fromZ', toZ', z80')
               PROVE  OnLine(c, d, fromZ, toZ, z80)
    BY Zenon DEF Shrinks
  <2>1. OnLine(c, d, Append(fromZ, f), Tail(toZ), z80')  BY Zenon
  <2>2. OnLine(c, d, fromZ, Tail(toZ), z80) \/ (c = f.cmd /\ d = f.of)
    BY <1>2, <1>3, <2>1, SaidOn, Zenon
  <2>3. CASE OnLine(c, d, fromZ, Tail(toZ), z80)
    BY <1>2, <2>3, LostOn, Zenon
  <2>4. CASE c = f.cmd /\ d = f.of
    BY <1>2, <2>4, HeadOn, Zenon
  <2> QED  BY <2>2, <2>3, <2>4, Zenon
<1> QED  BY <1>3, <1>5, <1>6, <1>7, OtherEnd, Zenon

(* A request leaves the line: nothing is sent of it, or it is a window or a
   batch that is sent from now on. *)
LEMMA Leaves ==
  ASSUME UartInv, UNCHANGED clientVars, written' = written, fromZ' = fromZ,
         late' = late, told' = told,
         toZ # <<>>, toZ' = Tail(toZ), z80' \in Z80s,
         \/ z80'.sending = None
         \/ z80'.sending = z80.sending /\ z80'.cmd = z80.cmd
         \/ /\ z80'.sending = Head(toZ).id /\ z80'.cmd = Head(toZ).cmd
            /\ Head(toZ).cmd \in {"read", "readDir"}
  PROVE  UartInv'
<1>1. Types /\ OrderInv /\ AnswerInv  BY Zenon DEF UartInv
<1>2. /\ toZ \in Seq(Requests) /\ Line(fromZ, toZ, z80.sending, requests)
  BY <1>1, LineTypes, Zenon DEF OrderInv
<1>3. requests' = requests  BY Zenon DEF clientVars
<1>4. Line(fromZ, Tail(toZ), z80.sending, requests)
  BY <1>2, LostLine, Zenon
<1>5. Line(fromZ, Tail(toZ), None, requests)  BY <1>4, DoneLine, Zenon
<1>6. Head(toZ).cmd \in {"read", "readDir"} =>
        Line(fromZ, Tail(toZ), Head(toZ).id, requests)
  <2>1. ASSUME Head(toZ).cmd \in {"read", "readDir"}
        PROVE  EndsRequest(Head(toZ))
    <3>1. Head(toZ).cmd # "write"  BY <2>1, SMT
    <3> QED  BY <3>1, Zenon DEF EndsRequest
  <2> QED  BY <1>2, <2>1, HeardLine, Zenon
<1>7. OrderInv'  BY <1>3, <1>4, <1>5, <1>6, Zenon DEF OrderInv
<1>8. AnswerInv'  BY <1>1, Zenon DEF AnswerInv
<1>9. Shrinks
  <2> SUFFICES ASSUME NEW c \in Commands, NEW d \in Nat,
                      OnLine(c, d, fromZ, Tail(toZ), z80')
               PROVE  OnLine(c, d, fromZ, toZ, z80)
    BY Zenon DEF Shrinks
  <2>1. CASE OnLine(c, d, fromZ, Tail(toZ), z80)
    BY <1>2, <2>1, LostOn, Zenon
  <2>2. CASE c = Head(toZ).cmd /\ d = Head(toZ).id
    BY <1>2, <2>2, HeadOn, Zenon
  <2>3. \/ OnLine(c, d, fromZ, Tail(toZ), z80)
        \/ c = Head(toZ).cmd /\ d = Head(toZ).id
    BY Zenon DEF OnLine
  <2> QED  BY <2>1, <2>2, <2>3, Zenon
<1>10. written \subseteq written'  BY Zenon
<1> QED  BY <1>7, <1>8, <1>9, <1>10, OtherEnd, Zenon

(* The Z80 sends a frame of the window or the batch under way. *)
LEMMA Sends ==
  ASSUME UartInv, UNCHANGED clientVars, written' = written, toZ' = toZ,
         late' = late, told \subseteq told',
         z80.sending # None,
         NEW f \in Answers, f.cmd = z80.cmd, f.of = z80.sending,
         Good(f, written, told'),
         fromZ' = Append(fromZ, f), z80' \in Z80s,
         \/ z80'.sending = None
         \/ z80'.sending = z80.sending /\ z80'.cmd = z80.cmd /\ ~End(f)
  PROVE  UartInv'
<1>1. Types /\ OrderInv /\ AnswerInv  BY Zenon DEF UartInv
<1>2. /\ fromZ \in Seq(Answers) /\ Line(fromZ, toZ, z80.sending, requests)
  BY <1>1, LineTypes, Zenon DEF OrderInv
<1>3. requests' = requests  BY Zenon DEF clientVars
<1>4. z80'.sending = None \/ (z80'.sending = z80.sending /\ ~End(f))
  BY Zenon
<1>5. Line(Append(fromZ, f), toZ, z80'.sending, requests)
  BY <1>2, <1>4, SaidLine, Zenon
<1>6. OrderInv'  BY <1>3, <1>5, Zenon DEF OrderInv
<1>7. z80.cmd \in {"read", "readDir"}  BY <1>1, Zenon DEF AnswerInv
<1>8. AnswerInv'
  <2>1. written \subseteq written'  BY Zenon
  <2>2. \A i \in 1..Len(fromZ) : Good(fromZ[i], written', told')
    BY <1>1, <2>1, GoodMore, Zenon
  <2>3. Good(f, written', told')  BY Zenon
  <2>4. \A i \in 1..Len(Append(fromZ, f)) :
          Good(Append(fromZ, f)[i], written', told')
    BY <1>2, <2>2, <2>3, GoodAppend, Zenon
  <2> QED  BY <1>7, <2>4, Zenon DEF AnswerInv
<1>9. Shrinks
  <2> SUFFICES ASSUME NEW c \in Commands, NEW d \in Nat,
                      OnLine(c, d, Append(fromZ, f), toZ, z80')
               PROVE  OnLine(c, d, fromZ, toZ, z80)
    BY Zenon DEF Shrinks
  <2>1. z80'.sending # None => z80'.sending = f.of /\ z80'.cmd = f.cmd
    BY Zenon
  <2>2. OnLine(c, d, fromZ, toZ, z80) \/ (c = f.cmd /\ d = f.of)
    BY <1>2, <2>1, SaidOn, Zenon
  <2> QED  BY <2>2, Zenon DEF OnLine
<1>10. written \subseteq written'  BY Zenon
<1> QED  BY <1>6, <1>8, <1>9, <1>10, OtherEnd, Zenon

(* The frame that is put on the line. *)
Said(cmd, of, seq, off, last, ok) ==
  [cmd |-> cmd, of |-> of, seq |-> seq, off |-> off, last |-> last, ok |-> ok]

LEMMA ZAnswerStep ==
  ASSUME UartInv, ZAnswer
  PROVE  UartInv'
<1> DEFINE r == Head(toZ)
<1>1. Types /\ OrderInv  BY Zenon DEF UartInv
<1>2. /\ toZ # <<>> /\ z80.sending = None /\ r.cmd # "write"
      /\ toZ' = Tail(toZ) /\ written' = written /\ UNCHANGED clientVars
      /\ late' = late /\ told' = told
  BY Zenon DEF ZAnswer
<1>3. toZ \in Seq(Requests)  BY <1>1, LineTypes, Zenon DEF OrderInv
<1>4. r \in Requests  BY <1>2, <1>3, TailFacts, Zenon
<1>5. r.id \in Nat /\ r.id # 0 /\ r.seq \in Nat /\ r.cmd \in Commands
  BY <1>4, RequestFields, Zenon
<1>6. 0 \in Nat  BY SMT
<1>7. EndsRequest(r)  BY <1>2, Zenon DEF EndsRequest
<1>8. written \subseteq written'  BY <1>2, Zenon
<1>12. r.cmd \notin {"read", "readDir"} => r.cmd # "readDir"  BY SMT
<1> HIDE DEF r
<1>9. CASE /\ r.cmd \in {"read", "readDir"} /\ fromZ' = fromZ
           /\ z80' = [ZIdle EXCEPT !.sending = r.id, !.cmd = r.cmd, !.seq = r.seq]
  <2>1. z80' \in Z80s /\ z80'.sending = r.id /\ z80'.cmd = r.cmd
    BY <1>5, <1>9, NoWaitFacts, Zenon DEF Z80s
  <2> QED  BY <1>2, <1>9, <2>1, Leaves, Zenon DEF r
<1>10. CASE /\ r.cmd \notin {"read", "readDir"} /\ z80' = ZIdle
            /\ fromZ' = Append(fromZ, Said(r.cmd, r.id, 0, 0, TRUE, TRUE))
  <2> DEFINE f == Said(r.cmd, r.id, 0, 0, TRUE, TRUE)
  <2>1. f \in Answers /\ f.cmd = r.cmd /\ f.of = r.id /\ f.last = TRUE
    BY <1>5, <1>6, Zenon DEF Said, Answers
  <2> HIDE DEF f
  <2>2. Good(f, written', told')  BY <1>2, <1>10, <1>12, <2>1, Zenon DEF Good, r
  <2>3. fromZ' = Append(fromZ, f)  BY <1>10, Zenon DEF f
  <2> QED  BY <1>2, <1>7, <1>8, <1>10, <2>1, <2>2, <2>3, Replies, Zenon DEF r
<1>11. CASE /\ r.cmd # "readDir" /\ z80' = ZIdle
            /\ fromZ' = Append(fromZ, Said(r.cmd, r.id, r.seq, 0, TRUE, FALSE))
  <2> DEFINE f == Said(r.cmd, r.id, r.seq, 0, TRUE, FALSE)
  <2>1. /\ f \in Answers /\ f.cmd = r.cmd /\ f.of = r.id /\ f.last = TRUE
        /\ f.ok = FALSE
    BY <1>5, <1>6, Zenon DEF Said, Answers
  <2> HIDE DEF f
  <2>2. Good(f, written', told')  BY <1>2, <1>11, <2>1, Zenon DEF Good, r
  <2>3. fromZ' = Append(fromZ, f)  BY <1>11, Zenon DEF f
  <2> QED  BY <1>2, <1>7, <1>8, <1>11, <2>1, <2>2, <2>3, Replies, Zenon DEF r
<1> QED  BY <1>9, <1>10, <1>11, Zenon DEF ZAnswer, Out, Said, r

LEMMA ZFrameStep ==
  ASSUME UartInv, ZFrame
  PROVE  UartInv'
<1>1. Types /\ AnswerInv  BY Zenon DEF UartInv
<1>2. /\ z80.sending # None /\ toZ' = toZ /\ written' = written
      /\ UNCHANGED clientVars /\ late' = late
  BY Zenon DEF ZFrame
<1>3. /\ z80 \in Z80s /\ z80.sending \in Nat /\ z80.seq \in Nat
      /\ z80.next \in Nat
  BY <1>1, Zenon DEF Types, Z80s
<1>4. z80.cmd \in Commands /\ z80.sending # 0 /\ z80.cmd # "write"
  <2>1. z80.cmd \in {"read", "readDir"}  BY <1>1, <1>2, Zenon DEF AnswerInv
  <2>2. z80.cmd \in Commands /\ z80.cmd # "write"  BY <2>1, SMT DEF Commands
  <2> QED  BY <1>2, <2>2, Zenon DEF None
<1>5. ASSUME NEW end \in BOOLEAN, NEW ok \in BOOLEAN,
             fromZ' = Append(fromZ, Said(z80.cmd, z80.sending, z80.seq,
                                         z80.next, end, ok)),
             \/ z80' = ZIdle
             \/ end = FALSE /\ ok = TRUE /\ GoOn,
             told \subseteq told',
             z80.cmd = "readDir" /\ end = TRUE =>
               /\ [id |-> z80.sending, count |-> z80.next, ended |-> ~ok]
                    \in told'
               /\ ok = TRUE => z80.next # 0
      PROVE  UartInv'
  <2> DEFINE f == Said(z80.cmd, z80.sending, z80.seq, z80.next, end, ok)
  <2>1. /\ f \in Answers /\ f.cmd = z80.cmd /\ f.of = z80.sending
        /\ f.last = end /\ f.ok = ok /\ f.off = z80.next
    BY <1>3, <1>4, Zenon DEF Said, Answers
  <2>2. fromZ' = Append(fromZ, f)  BY <1>5, Zenon
  <2> HIDE DEF f
  <2>3. z80.next + 1 \in Nat  BY <1>3, SMT
  <2>4. [z80 EXCEPT !.next = z80.next + 1] \in Z80s
    BY <1>3, <2>3, Zenon DEF Z80s
  <2>5. /\ [z80 EXCEPT !.next = z80.next + 1].sending = z80.sending
        /\ [z80 EXCEPT !.next = z80.next + 1].cmd = z80.cmd
    BY <1>3, Zenon DEF Z80s
  <2>6. z80' \in Z80s  BY <1>5, <2>4, NoWaitFacts, Zenon DEF GoOn
  <2>7. \/ z80'.sending = None
        \/ z80'.sending = z80.sending /\ z80'.cmd = z80.cmd /\ ~End(f)
    BY <1>5, <2>1, <2>5, NoWaitFacts, Zenon DEF End, GoOn
  <2>8. Good(f, written, told')
    <3>1. z80.cmd \in {"read", "readDir"}  BY <1>1, <1>2, Zenon DEF AnswerInv
    <3> QED  BY <1>4, <1>5, <2>1, <3>1, Zenon DEF Good
  <2> QED  BY <1>2, <1>5, <2>1, <2>2, <2>6, <2>7, <2>8, Sends, Zenon
<1>6. TRUE \in BOOLEAN /\ FALSE \in BOOLEAN /\ FALSE # TRUE  BY Zenon
<1>7. CASE ZWindow
  <2>1. z80.cmd # "readDir" /\ told \subseteq told'
    <3>1. "read" # "readDir"  BY SMT
    <3> QED  BY <1>7, <3>1, Zenon DEF ZWindow
  <2>2. \/ Say(FALSE, FALSE) /\ z80' = ZIdle
        \/ Say(FALSE, TRUE) /\ GoOn
        \/ Say(TRUE, TRUE) /\ z80' = ZIdle
    BY <1>7, Zenon DEF ZWindow
  <2>3. CASE Say(FALSE, FALSE) /\ z80' = ZIdle
    BY <1>5, <1>6, <2>1, <2>3, Zenon DEF Say, Out, Said
  <2>4. CASE Say(FALSE, TRUE) /\ GoOn
    BY <1>5, <1>6, <2>1, <2>4, Zenon DEF Say, Out, Said
  <2>5. CASE Say(TRUE, TRUE) /\ z80' = ZIdle
    BY <1>5, <1>6, <2>1, <2>5, Zenon DEF Say, Out, Said
  <2> QED  BY <2>2, <2>3, <2>4, <2>5, Zenon
<1>8. CASE ZBatch
  <2>1. CASE Say(FALSE, FALSE) /\ z80' = ZIdle /\ told' = told
    BY <1>5, <1>6, <2>1, Zenon DEF Say, Out, Said
  <2>2. CASE Say(FALSE, TRUE) /\ GoOn /\ told' = told
    BY <1>5, <1>6, <2>2, Zenon DEF Say, Out, Said
  <2>3. ASSUME NEW more \in BOOLEAN, more => z80.next = Frames,
               Say(TRUE, more), z80' = ZIdle,
               told' = told \cup {[id |-> z80.sending, count |-> z80.next,
                                  ended |-> ~more]}
        PROVE  UartInv'
    <3>1. told \subseteq told'  BY <2>3, Zenon
    <3>2. [id |-> z80.sending, count |-> z80.next, ended |-> ~more] \in told'
      BY <2>3, Zenon
    <3>3. more = TRUE => z80.next # 0
      <4>1. Frames # 0  BY UartAssumption, SMT
      <4> QED  BY <2>3, <4>1, Zenon
    <3> QED  BY <1>5, <1>6, <2>3, <3>1, <3>2, <3>3, Zenon DEF Say, Out, Said
  <2> QED  BY <1>8, <2>1, <2>2, <2>3, Zenon DEF ZBatch
<1> QED  BY <1>7, <1>8, Zenon DEF ZFrame

LEMMA ZWriteStep ==
  ASSUME UartInv, ZWrite
  PROVE  UartInv'
<1> DEFINE r == Head(toZ)
           frames == IF r.off = 0 THEN 1
                     ELSE IF z80.window = r.id /\ z80.frames = r.off
                       THEN z80.frames + 1 ELSE 0
           end == r.off = Frames - 1
<1>1. Types /\ OrderInv  BY Zenon DEF UartInv
<1>2. /\ toZ # <<>> /\ z80.sending = None /\ r.cmd = "write"
      /\ toZ' = Tail(toZ) /\ UNCHANGED clientVars /\ late' = late /\ told' = told
      /\ z80' = IF end THEN ZIdle
                ELSE [ZIdle EXCEPT !.window = r.id, !.frames = frames]
      /\ \/ ~end /\ fromZ' = fromZ /\ written' = written
         \/ /\ end
            /\ fromZ' = Append(fromZ, Said("write", r.id, r.seq, 0, TRUE, TRUE))
            /\ written' = written \cup {r.id}
         \/ /\ end
            /\ fromZ' = Append(fromZ, Said("write", r.id, r.seq, 0, TRUE, FALSE))
            /\ written' = written
  BY Zenon DEF ZWrite, Out, Said
<1>3. toZ \in Seq(Requests)  BY <1>1, LineTypes, Zenon DEF OrderInv
<1>4. r \in Requests  BY <1>2, <1>3, TailFacts, Zenon
<1>5. r.id \in Nat /\ r.id # 0 /\ r.seq \in Nat /\ r.cmd \in Commands
  BY <1>4, RequestFields, Zenon
<1>6. 0 \in Nat /\ 1 \in Nat  BY SMT
<1>7. frames \in Nat
  <2>1. z80.frames \in Nat  BY <1>1, Zenon DEF Types, Z80s
  <2>2. z80.frames + 1 \in Nat  BY <2>1, SMT
  <2> QED  BY <1>6, <2>2, Zenon
<1>8. end => EndsRequest(r)  BY Zenon DEF EndsRequest
<1> HIDE DEF frames, end, r
<1>9. CASE ~end /\ fromZ' = fromZ /\ written' = written
  <2>1. z80' = [ZIdle EXCEPT !.window = r.id, !.frames = frames]
    BY <1>2, <1>9, Zenon
  <2>2. z80' \in Z80s /\ z80'.sending = None
    BY <1>5, <1>7, <2>1, NoWaitFacts, Zenon DEF Z80s
  <2> QED  BY <1>2, <1>9, <2>2, Leaves, Zenon
<1>10. ASSUME end, NEW ok \in BOOLEAN,
              fromZ' = Append(fromZ, Said("write", r.id, r.seq, 0, TRUE, ok)),
              written \subseteq written', ok = TRUE => r.id \in written'
       PROVE  UartInv'
  <2> DEFINE f == Said("write", r.id, r.seq, 0, TRUE, ok)
  <2>1. TRUE \in BOOLEAN /\ "write" \in Commands  BY <1>2, <1>5, Zenon
  <2>2. /\ f \in Answers /\ f.cmd = "write" /\ f.of = r.id
        /\ f.last = TRUE /\ f.ok = ok
    BY <1>5, <1>6, <2>1, Zenon DEF Said, Answers
  <2>3. fromZ' = Append(fromZ, f)  BY <1>10, Zenon
  <2> HIDE DEF f
  <2>4. Good(f, written', told')
    <3>1. "write" # "readDir"  BY SMT
    <3> QED  BY <1>10, <2>2, <3>1, Zenon DEF Good
  <2>5. EndsRequest(r) /\ z80' = ZIdle /\ f.cmd = r.cmd
    BY <1>2, <1>8, <1>10, <2>2, Zenon
  <2> QED  BY <1>2, <1>10, <2>2, <2>3, <2>4, <2>5, Replies, Zenon DEF r
<1>11. CASE /\ end /\ written' = written \cup {r.id}
            /\ fromZ' = Append(fromZ, Said("write", r.id, r.seq, 0, TRUE, TRUE))
  <2>1. /\ TRUE \in BOOLEAN /\ written \subseteq written' /\ r.id \in written'
    BY <1>11, Zenon
  <2> QED  BY <1>10, <1>11, <2>1, Zenon
<1>12. CASE /\ end /\ written' = written
            /\ fromZ' = Append(fromZ, Said("write", r.id, r.seq, 0, TRUE, FALSE))
  <2>1. /\ FALSE \in BOOLEAN /\ written \subseteq written' /\ FALSE # TRUE
    BY <1>12, Zenon
  <2> QED  BY <1>10, <1>12, <2>1, Zenon
<1> QED  BY <1>2, <1>9, <1>11, <1>12, Zenon

LEMMA LossStep ==
  ASSUME UartInv, LoseRequest \/ LoseAnswer
  PROVE  UartInv'
<1>1. CASE LoseRequest
  <2>1. /\ toZ # <<>> /\ toZ' = Tail(toZ) /\ fromZ' = fromZ /\ z80' = z80
        /\ written' = written /\ UNCHANGED clientVars /\ late' = late
        /\ told' = told
    BY <1>1, Zenon DEF LoseRequest
  <2>2. z80' \in Z80s  BY <2>1, Zenon DEF UartInv, Types
  <2>3. z80'.sending = z80.sending /\ z80'.cmd = z80.cmd  BY <2>1, Zenon
  <2> QED  BY <2>1, <2>2, <2>3, Leaves, Zenon
<1>2. CASE LoseAnswer
  <2>1. Taken /\ UNCHANGED clientVars
    BY <1>2, Zenon DEF LoseAnswer, Taken, clientVars
  <2>2. OrderInv' /\ AnswerInv' /\ Shrinks /\ z80' \in Z80s
    BY <2>1, TakenRest, Zenon
  <2>3. written \subseteq written' /\ late' = late
    BY <2>1, Zenon DEF Taken
  <2> QED  BY <2>1, <2>2, <2>3, OtherEnd, Zenon
<1> QED  BY <1>1, <1>2, Zenon

-----------------------------------------------------------------------------
LEMMA InitUart == Init => UartInv
<1> SUFFICES ASSUME Init PROVE UartInv  OBVIOUS
<1>1. /\ wait = NoWait /\ file = Closed /\ z80 = ZIdle /\ requests = 0
      /\ toZ = <<>> /\ fromZ = <<>> /\ acked = {}
      /\ taken = [id |-> None, of |-> <<>>]
  BY Zenon DEF Init
<1>2. /\ <<>> \in Seq(Answers) /\ <<>> \in Seq(Requests) /\ Len(<<>>) = 0
      /\ 0 \in Nat /\ \A i : i \notin 1..0
  BY SMT
<1>3. None = 0 /\ 0 <= 0  BY <1>2, SMT DEF None
<1>4. Types  BY <1>1, NoWaitFacts, Zenon DEF Types
<1>5. Line(<<>>, <<>>, 0, 0)  BY <1>2, <1>3, Zenon DEF Line
<1>6. OrderInv
  <2>1. z80.sending = 0  BY <1>1, <1>3, NoWaitFacts, Zenon
  <2> QED  BY <1>1, <1>5, <2>1, Zenon DEF OrderInv
<1>7. WaitInv
  <2>1. wait.cmd = "none" /\ wait.id = None  BY <1>1, NoWaitFacts, Zenon
  <2>2. wait.cmd \notin {"read", "write"}  BY <2>1, SMT
  <2> QED  BY <2>1, <2>2, Zenon DEF WaitInv
<1>8. TimelyInv
  <2>1. Len(fromZ) = 0 /\ Len(toZ) = 0 /\ z80.sending = None
    BY <1>1, <1>2, NoWaitFacts, Zenon
  <2> QED  BY <2>1, QuietOn, Zenon DEF TimelyInv
<1>9. AnswerInv
  <2>1. Len(fromZ) = 0 /\ z80.sending = None  BY <1>1, <1>2, NoWaitFacts, Zenon
  <2> QED  BY <1>2, <2>1, Zenon DEF AnswerInv
<1>10. AckedIsWritten  BY <1>1, Zenon DEF AckedIsWritten
<1>11. WindowOwn
  <2>1. Len(taken.of) = 0  BY <1>1, <1>2, Zenon
  <2> QED  BY <1>2, <2>1, Zenon DEF WindowOwn
<1> QED  BY <1>4, <1>6, <1>7, <1>8, <1>9, <1>10, <1>11, Zenon DEF UartInv

LEMMA SameUart ==
  ASSUME UartInv, UNCHANGED vars
  PROVE  UartInv'
<1>1. /\ UNCHANGED clientVars /\ toZ' = toZ /\ fromZ' = fromZ /\ z80' = z80
      /\ written' = written /\ requests' = requests /\ told' = told
      /\ late' = late
  BY Zenon DEF vars, clientVars
<1>2. Types /\ OrderInv /\ AnswerInv  BY Zenon DEF UartInv
<1>3. OrderInv' /\ AnswerInv' /\ z80' \in Z80s /\ written \subseteq written'
  BY <1>1, <1>2, Zenon DEF OrderInv, AnswerInv, Types
<1>4. Shrinks  BY <1>1, Zenon DEF Shrinks
<1> QED  BY <1>1, <1>3, <1>4, OtherEnd, Zenon

LEMMA NextUart == CloseInTime /\ UartInv /\ [Next]_vars => UartInv'
<1> SUFFICES ASSUME CloseInTime, UartInv, [Next]_vars PROVE UartInv'
  OBVIOUS
<1>1. CASE UNCHANGED vars  BY <1>1, SameUart, Zenon
<1>2. CASE \/ AskOpen \/ AskStat \/ AskOpenDirectory \/ AskBatch \/ AskRead
           \/ AskWrite \/ AskClose
  BY <1>2, AskStep, Zenon
<1>3. CASE Discard  BY <1>3, DiscardStep, Zenon
<1>4. CASE Take  BY <1>4, TakeStep, Zenon
<1>5. CASE TimeOut  BY <1>5, TimeOutStep, Zenon
<1>6. CASE ZAnswer  BY <1>6, ZAnswerStep, Zenon
<1>7. CASE ZFrame  BY <1>7, ZFrameStep, Zenon
<1>8. CASE ZWrite  BY <1>8, ZWriteStep, Zenon
<1>9. CASE LoseRequest \/ LoseAnswer  BY <1>9, LossStep, Zenon
<1> QED  BY <1>1, <1>2, <1>3, <1>4, <1>5, <1>6, <1>7, <1>8, <1>9, Zenon DEF Next

(* The invariant: closing the file after a failure leaves nothing on the line
   that a later window or CLOSE could take for its own answer. *)
THEOREM UartInvariant == ASSUME CloseInTime PROVE Spec => []UartInv
<1>1. UartInv /\ [Next]_vars => UartInv'  BY NextUart, Zenon
<1> QED  BY InitUart, <1>1, PTL DEF Spec

(* readFileWindow(): a window given to a caller was sent for that request,
   whatever was lost and whichever earlier answers came too late. *)
THEOREM UartWindowOwn == ASSUME CloseInTime PROVE Spec => []WindowOwn
<1>1. UartInv => WindowOwn  BY Zenon DEF UartInv
<1> QED  BY UartInvariant, <1>1, PTL

(* checkBlockAck(): a window acknowledged to a caller has been written. *)
THEOREM UartAcked == ASSUME CloseInTime PROVE Spec => []AckedIsWritten
<1>1. UartInv => AckedIsWritten  BY Zenon DEF UartInv
<1> QED  BY UartInvariant, <1>1, PTL

-----------------------------------------------------------------------------
(* The undisturbed line. *)

(* Everything on it belongs to the request waited for, and the frames of the
   answer come without a gap after those already taken. *)
AnswerOf(f, i, w) ==
  /\ f.of = w.id /\ f.cmd = w.cmd /\ f.off = Len(w.got) + (i - 1)
  /\ w.cmd = "read" => f.seq = w.seq
  /\ w.cmd = "readDir" /\ IsEntry(f) => f.off < Frames

RequestOf(r, w) ==
  r.id = w.id /\ r.cmd = w.cmd /\ r.seq = w.seq /\ Len(w.got) = 0

SendingOf(z, n, w) ==
  /\ z.sending = w.id /\ z.cmd = w.cmd /\ z.seq = w.seq
  /\ z.next = Len(w.got) + n

LineOf(w, from, to, z) ==
  /\ \A i \in 1..Len(from) : AnswerOf(from[i], i, w)
  /\ \A k \in 1..Len(to) : RequestOf(to[k], w)
  /\ z.sending # None => SendingOf(z, Len(from), w)

OwnLine == LineOf(wait, fromZ, toZ, z80)

ListingInv ==
  /\ losses \in Nat
  /\ losses = 0 /\ late = {} => UartInv /\ OwnLine

LEMMA QuietLine ==
  ASSUME NEW w, NEW from, NEW to, NEW z, Quiet(from, to, z.sending)
  PROVE  LineOf(w, from, to, z)
<1>1. \A i : i \notin 1..0  BY SMT
<1>2. Len(from) = 0 /\ Len(to) = 0 /\ z.sending = None  BY Zenon DEF Quiet
<1> QED  BY <1>1, <1>2, Zenon DEF LineOf

(* What is on the line, by its types. *)
LEMMA LineFacts ==
  ASSUME UartInv
  PROVE  /\ fromZ \in Seq(Answers) /\ toZ \in Seq(Requests)
         /\ Len(fromZ) \in Nat /\ Len(toZ) \in Nat
         /\ Line(fromZ, toZ, z80.sending, requests)
         /\ wait \in Waits /\ wait.got \in Seq(Nat) /\ Len(wait.got) \in Nat
         /\ wait.id \in Nat /\ wait.seq \in Nat /\ wait.cmd \in Commands \cup {"none"}
         /\ z80 \in Z80s /\ z80.next \in Nat /\ z80.sending \in Nat /\ z80.seq \in Nat
<1>1. Types /\ OrderInv  BY Zenon DEF UartInv
<1>2. Line(fromZ, toZ, z80.sending, requests)  BY <1>1, Zenon DEF OrderInv
<1>3. /\ wait \in Waits /\ wait.got \in Seq(Nat) /\ wait.id \in Nat
      /\ wait.seq \in Nat /\ wait.cmd \in Commands \cup {"none"}
  BY <1>1, Zenon DEF Types, Waits
<1>4. Len(wait.got) \in Nat  BY <1>3, SMT
<1>5. z80 \in Z80s /\ z80.next \in Nat /\ z80.sending \in Nat /\ z80.seq \in Nat
  BY <1>1, Zenon DEF Types, Z80s
<1> QED  BY <1>2, <1>3, <1>4, <1>5, LineTypes, Zenon

(* Between requests the line is empty. *)
LEMMA IdleLine ==
  ASSUME UartInv, OwnLine, wait.cmd = "none"
  PROVE  Len(fromZ) = 0 /\ Len(toZ) = 0 /\ z80.sending = None
<1>1. wait.id = 0
  <2>1. WaitInv  BY Zenon DEF UartInv
  <2> QED  BY <2>1, Zenon DEF WaitInv, None
<1>2. \A x \in Nat : x = 0 \/ 1 \in 1..x  BY SMT
<1>3. Len(fromZ) = 0
  <2>1. ASSUME 1 \in 1..Len(fromZ) PROVE FALSE
    <3>1. fromZ[1].of = 0  BY <1>1, <2>1, Zenon DEF OwnLine, LineOf, AnswerOf
    <3>2. fromZ[1] \in Answers  BY <2>1, LineFacts, LineTypes, Zenon
    <3> QED  BY <3>1, <3>2, AnswerFields, Zenon
  <2> QED  BY <1>2, <2>1, LineFacts, Zenon
<1>4. Len(toZ) = 0
  <2>1. ASSUME 1 \in 1..Len(toZ) PROVE FALSE
    <3>1. toZ[1].id = 0  BY <1>1, <2>1, Zenon DEF OwnLine, LineOf, RequestOf
    <3>2. toZ[1] \in Requests  BY <2>1, LineFacts, LineTypes, Zenon
    <3> QED  BY <3>1, <3>2, RequestFields, Zenon
  <2> QED  BY <1>2, <2>1, LineFacts, Zenon
<1>5. z80.sending = None
  BY <1>1, Zenon DEF OwnLine, LineOf, SendingOf, None
<1> QED  BY <1>3, <1>4, <1>5, Zenon

(* A request that is still to be heard has not been answered, nor is another
   one being answered. *)
LEMMA UnheardLine ==
  ASSUME UartInv, OwnLine, Len(toZ) # 0
  PROVE  Len(fromZ) = 0 /\ z80.sending = None
<1>1. 1 \in 1..Len(toZ)
  <2>1. Len(toZ) \in Nat  BY LineFacts, Zenon
  <2> QED  BY <2>1, SMT
<1>2. toZ[1].id = wait.id  BY <1>1, Zenon DEF OwnLine, LineOf, RequestOf
<1>3. ~(wait.id < wait.id)
  <2>1. wait.id \in Nat  BY LineFacts, Zenon
  <2> QED  BY <2>1, SMT
<1>4. Line(fromZ, toZ, z80.sending, requests)  BY LineFacts, Zenon
<1>5. Len(fromZ) = 0
  <2>1. ASSUME 1 \in 1..Len(fromZ) PROVE FALSE
    <3>1. fromZ[1].of = wait.id  BY <2>1, Zenon DEF OwnLine, LineOf, AnswerOf
    <3>2. fromZ[1].of < toZ[1].id  BY <1>1, <1>4, <2>1, Zenon DEF Line
    <3> QED  BY <1>2, <1>3, <3>1, <3>2, Zenon
  <2>2. Len(fromZ) \in Nat  BY LineFacts, Zenon
  <2>3. \A x \in Nat : x = 0 \/ 1 \in 1..x  BY SMT
  <2> QED  BY <2>1, <2>2, <2>3, Zenon
<1>6. z80.sending = None
  <2>1. ASSUME z80.sending # None PROVE FALSE
    <3>1. z80.sending = wait.id  BY <2>1, Zenon DEF OwnLine, LineOf, SendingOf
    <3>2. z80.sending < toZ[1].id  BY <1>1, <1>4, <2>1, Zenon DEF Line
    <3> QED  BY <1>2, <1>3, <3>1, <3>2, Zenon
  <2> QED  BY <2>1, Zenon
<1> QED  BY <1>5, <1>6, Zenon

LEMMA AskedOwn ==
  ASSUME UartInv, OwnLine, NEW cmd, NEW seq, NEW m, Asks(cmd, seq, m)
  PROVE  OwnLine'
<1>1. /\ wait.cmd = "none" /\ cmd \in Commands /\ seq \in Nat
      /\ m = 1 \/ (m = Frames /\ cmd = "write")
      /\ wait' = [cmd |-> cmd, id |-> requests + 1, seq |-> seq, got |-> <<>>]
      /\ toZ' = toZ \o Asked(cmd, seq, m) /\ fromZ' = fromZ /\ z80' = z80
  BY Zenon DEF Asks, Send, Asked
<1>2. Len(fromZ) = 0 /\ Len(toZ) = 0 /\ z80.sending = None
  BY <1>1, IdleLine, Zenon
<1>3. requests \in Nat /\ m \in {1, Frames}
  BY <1>1, LineFacts, LineTypes, Zenon
<1>4. /\ Asked(cmd, seq, m) \in Seq(Requests) /\ Len(Asked(cmd, seq, m)) = m
      /\ \A k \in 1..m : /\ Asked(cmd, seq, m)[k].cmd = cmd
                         /\ Asked(cmd, seq, m)[k].id = requests + 1
  <2>1. cmd \in Commands /\ seq \in Nat  BY <1>1, Zenon
  <2>2. /\ Asked(cmd, seq, m) \in Seq(Requests)
        /\ Len(Asked(cmd, seq, m)) = m
        /\ \A k \in 1..m : /\ Asked(cmd, seq, m)[k].cmd = cmd
                           /\ Asked(cmd, seq, m)[k].id = requests + 1
                           /\ Asked(cmd, seq, m)[k].off = k - 1
    BY ONLY <1>3, <2>1, AskedFacts, Zenon
  <2> QED  BY <2>2, Zenon
<1>5. \A k \in 1..m : Asked(cmd, seq, m)[k].seq = seq
  BY Zenon DEF Asked, Frame
<1>6. toZ' = Asked(cmd, seq, m)
  <2>1. toZ \in Seq(Requests)  BY LineFacts, Zenon
  <2>2. toZ = <<>>  BY <1>2, <2>1, SMT
  <2>3. <<>> \o Asked(cmd, seq, m) = Asked(cmd, seq, m)  BY <1>4, SMT
  <2> QED  BY <1>1, <2>2, <2>3, Zenon
<1>7. /\ wait'.id = requests + 1 /\ wait'.cmd = cmd /\ wait'.seq = seq
      /\ wait'.got = <<>> /\ Len(<<>>) = 0
  <2>1. Len(<<>>) = 0  BY SMT
  <2> QED  BY <1>1, <2>1, Zenon
<1>8. \A k \in 1..Len(toZ') : RequestOf(toZ'[k], wait')
  BY <1>4, <1>5, <1>6, <1>7, Zenon DEF RequestOf
<1>9. \A i : i \notin 1..0  BY SMT
<1>10. \A i \in 1..Len(fromZ') : AnswerOf(fromZ'[i], i, wait')
  BY <1>1, <1>2, <1>9, Zenon
<1>11. z80'.sending = None  BY <1>1, <1>2, Zenon
<1> QED  BY <1>8, <1>10, <1>11, Zenon DEF OwnLine, LineOf

-----------------------------------------------------------------------------
(* An answer is taken from the undisturbed line. *)
LEMMA FirstOwn ==
  ASSUME UartInv, OwnLine, fromZ # <<>>
  PROVE  /\ Answer.of = wait.id /\ Answer.cmd = wait.cmd
         /\ Answer.off = Len(wait.got)
         /\ wait.cmd = "read" => Answer.seq = wait.seq
         /\ wait.cmd = "readDir" /\ IsEntry(Answer) => Answer.off < Frames
         /\ Len(toZ) = 0 /\ wait.cmd # "none" /\ wait.id = requests
<1>1. fromZ \in Seq(Answers) /\ Len(wait.got) \in Nat  BY LineFacts, Zenon
<1>2. Answer = fromZ[1] /\ 1 \in 1..Len(fromZ)
  BY <1>1, TailFacts, Zenon DEF Answer
<1>3. AnswerOf(Answer, 1, wait)  BY <1>2, Zenon DEF OwnLine, LineOf
<1>4. Len(wait.got) + (1 - 1) = Len(wait.got)  BY <1>1, SMT
<1>5. Len(fromZ) # 0  BY <1>2, SMT
<1>6. Len(toZ) = 0  BY <1>5, UnheardLine, Zenon
<1>7. wait.cmd # "none"  BY <1>5, IdleLine, Zenon
<1>8. wait.id = requests  BY <1>7, Zenon DEF UartInv, WaitInv
<1> QED  BY <1>3, <1>4, <1>6, <1>7, <1>8, Zenon DEF AnswerOf

(* The frame that ends the request is the last thing on the line. *)
LEMMA LastOwn ==
  ASSUME UartInv, OwnLine, Taken, End(Answer)
  PROVE  OwnLine'
<1>1. /\ fromZ # <<>> /\ fromZ' = Tail(fromZ) /\ toZ' = toZ /\ z80' = z80
  BY Zenon DEF Taken
<1>2. Answer.of = requests  BY <1>1, FirstOwn, Zenon
<1>3. LastAnswer(fromZ, requests)
  BY <1>1, <1>2, Zenon DEF LastAnswer, Answer
<1>4. Line(fromZ, toZ, z80.sending, requests)  BY LineFacts, Zenon
<1>5. Quiet(Tail(fromZ), toZ, z80.sending)  BY <1>3, <1>4, EmptyLine, Zenon
<1>6. Quiet(fromZ', toZ', z80'.sending)  BY <1>1, <1>5, Zenon
<1> QED  BY <1>6, QuietLine, Zenon DEF OwnLine

(* A frame that does not end it is counted. *)
LEMMA NextOwn ==
  ASSUME UartInv, OwnLine, Taken,
         wait' = [wait EXCEPT !.got = Append(wait.got, Answer.of)]
  PROVE  OwnLine'
<1>1. /\ fromZ # <<>> /\ fromZ' = Tail(fromZ) /\ toZ' = toZ /\ z80' = z80
  BY Zenon DEF Taken
<1>2. /\ fromZ \in Seq(Answers) /\ Len(fromZ) \in Nat /\ wait \in Waits
      /\ wait.got \in Seq(Nat) /\ Len(wait.got) \in Nat
  BY LineFacts, Zenon
<1>3. Answer \in Answers /\ Answer.of \in Nat
  <2>1. Answer \in Answers  BY <1>1, <1>2, TailFacts, Zenon DEF Answer
  <2> QED  BY <2>1, AnswerFields, Zenon
<1>4. /\ Len(fromZ') = Len(fromZ) - 1
      /\ \A i \in 1..Len(fromZ') : /\ i + 1 \in 1..Len(fromZ)
                                   /\ fromZ'[i] = fromZ[i + 1]
  BY <1>1, <1>2, TailFacts, Zenon
<1>5. /\ wait'.id = wait.id /\ wait'.cmd = wait.cmd /\ wait'.seq = wait.seq
      /\ wait'.got = Append(wait.got, Answer.of)
  BY <1>2, Zenon DEF Waits
<1>6. Len(wait'.got) = Len(wait.got) + 1
  <2>1. wait.got \in Seq(Nat) /\ Answer.of \in Nat  BY <1>2, <1>3, Zenon
  <2>2. Len(Append(wait.got, Answer.of)) = Len(wait.got) + 1
    BY ONLY <2>1, AppendFacts
  <2> QED  BY <1>5, <2>2, Zenon
<1>7. ASSUME NEW i \in 1..Len(fromZ') PROVE AnswerOf(fromZ'[i], i, wait')
  <2>1. i + 1 \in 1..Len(fromZ) /\ fromZ'[i] = fromZ[i + 1]
    BY <1>4, Zenon
  <2>2. AnswerOf(fromZ[i + 1], i + 1, wait)
    BY <2>1, Zenon DEF OwnLine, LineOf
  <2>3. Len(wait.got) + ((i + 1) - 1) = Len(wait'.got) + (i - 1)
    BY <1>2, <1>6, SMT
  <2> QED  BY <1>5, <2>1, <2>2, <2>3, Zenon DEF AnswerOf
<1>8. \A k \in 1..Len(toZ') : RequestOf(toZ'[k], wait')
  <2>1. Len(toZ') = 0  BY <1>1, FirstOwn, Zenon
  <2>2. \A i : i \notin 1..0  BY SMT
  <2> QED  BY <2>1, <2>2, Zenon
<1>9. z80'.sending # None => SendingOf(z80', Len(fromZ'), wait')
  <2>1. Len(wait.got) + Len(fromZ) = Len(wait'.got) + Len(fromZ')
    BY <1>2, <1>4, <1>6, SMT
  <2>2. z80.sending # None => SendingOf(z80, Len(fromZ), wait)
    BY Zenon DEF OwnLine, LineOf
  <2> QED  BY <1>1, <1>5, <2>1, <2>2, Zenon DEF SendingOf
<1> QED  BY <1>7, <1>8, <1>9, Zenon DEF OwnLine, LineOf

LEMMA TakeOwn ==
  ASSUME UartInv, OwnLine, Take
  PROVE  OwnLine'
<1>1. Taken /\ fromZ # <<>>  BY Zenon DEF Take, Taken
<1>2. CASE TakeRead
  <2>1. wait.cmd = "read"  BY <1>2, Zenon DEF TakeRead
  <2>2. InSequence(Answer) /\ Answer.off = Len(wait.got)
    BY <1>1, <2>1, FirstOwn, Zenon DEF InSequence
  <2>3. \/ wait' = [wait EXCEPT !.got = Append(wait.got, Answer.of)]
        \/ End(Answer)
    BY <1>2, <2>2, Zenon DEF TakeRead, End
  <2> QED  BY <1>1, <2>3, NextOwn, LastOwn, Zenon
<1>3. CASE TakeAck \/ TakeOther
  <2>1. wait.cmd \notin {"read", "readDir"}
    <3>1. wait.cmd \in {"write", "open", "openDir", "stat", "close"}
      BY <1>3, Zenon DEF TakeAck, TakeOther
    <3> QED  BY <3>1, SMT
  <2>2. Answer.cmd = wait.cmd  BY <1>1, FirstOwn, Zenon
  <2>3. Good(Answer, written, told)  BY <1>1, TakenRest, Zenon
  <2>4. End(Answer)  BY <2>1, <2>2, <2>3, Zenon DEF Good, End
  <2> QED  BY <1>1, <2>4, LastOwn, Zenon
<1>4. CASE TakeEntry
  <2>1. wait.cmd = "readDir"  BY <1>4, Zenon DEF TakeEntry
  <2>2. Answer.off = Len(wait.got) /\ (IsEntry(Answer) => Answer.off < Frames)
    BY <1>1, <2>1, FirstOwn, Zenon
  <2>3. IsEntry(Answer) => ~(Len(wait.got) >= MaxBatch)
    <3>1. Len(wait.got) \in Nat  BY LineFacts, Zenon
    <3>2. Len(wait.got) < Frames => ~(Len(wait.got) >= Frames)
      BY <3>1, UartAssumption, SMT
    <3> QED  BY <2>2, <3>2, Zenon DEF MaxBatch
  <2>4. \/ wait' = [wait EXCEPT !.got = Append(wait.got, Answer.of)]
        \/ End(Answer)
    BY <1>4, <2>3, Zenon DEF TakeEntry, End, HasStatus, IsEntry
  <2> QED  BY <1>1, <2>4, NextOwn, LastOwn, Zenon
<1> QED  BY <1>2, <1>3, <1>4, Zenon DEF Take

(* A wait without an end of its own ends when the line is empty. *)
LEMMA TimeOutOwn ==
  ASSUME TimeOut, NothingToCome
  PROVE  OwnLine'
<1>1. /\ fromZ = <<>> /\ fromZ' = fromZ /\ toZ' = toZ /\ z80' = z80
      /\ toZ = <<>> /\ z80.sending = None /\ Len(<<>>) = 0
  <2>1. Len(<<>>) = 0  BY SMT
  <2> QED  BY <2>1, Zenon DEF TimeOut, MayTimeOut, NothingToCome
<1>2. Quiet(fromZ', toZ', z80'.sending)
  <2>1. fromZ' = <<>> /\ toZ' = <<>> /\ z80'.sending = None  BY <1>1, Zenon
  <2> QED  BY <1>1, <2>1, Zenon DEF Quiet
<1> QED  BY <1>2, QuietLine, Zenon DEF OwnLine

-----------------------------------------------------------------------------
(* The other end, on the undisturbed line. *)
LEMMA HeadOwn ==
  ASSUME UartInv, OwnLine, toZ # <<>>, NEW w, w = wait
  PROVE  /\ Head(toZ) \in Requests /\ RequestOf(Head(toZ), w)
         /\ \A k \in 1..Len(Tail(toZ)) : RequestOf(Tail(toZ)[k], w)
         /\ Len(fromZ) = 0 /\ Len(wait.got) = 0 /\ z80.sending = None
<1>1. toZ \in Seq(Requests)  BY LineFacts, Zenon
<1>2. /\ Head(toZ) \in Requests /\ Head(toZ) = toZ[1] /\ 1 \in 1..Len(toZ)
      /\ \A k \in 1..Len(Tail(toZ)) : /\ k + 1 \in 1..Len(toZ)
                                      /\ Tail(toZ)[k] = toZ[k + 1]
  BY <1>1, TailFacts, Zenon
<1>3. \A k \in 1..Len(toZ) : RequestOf(toZ[k], w)
  BY Zenon DEF OwnLine, LineOf
<1>4. Len(toZ) # 0  BY <1>2, SMT
<1>5. Len(wait.got) = 0  BY <1>2, <1>3, Zenon DEF RequestOf
<1> QED  BY <1>2, <1>3, <1>4, <1>5, UnheardLine, Zenon

(* A request is heard that is answered in several frames, or a part of a
   window that others follow. *)
LEMMA HeardOwn ==
  ASSUME UartInv, OwnLine, toZ # <<>>, toZ' = Tail(toZ), fromZ' = fromZ,
         wait' = wait,
         \/ z80'.sending = None
         \/ /\ z80'.sending = Head(toZ).id /\ z80'.cmd = Head(toZ).cmd
            /\ z80'.seq = Head(toZ).seq /\ z80'.next = 0
  PROVE  OwnLine'
<1>1. /\ RequestOf(Head(toZ), wait)
      /\ \A k \in 1..Len(Tail(toZ)) : RequestOf(Tail(toZ)[k], wait)
      /\ Len(fromZ) = 0 /\ Len(wait.got) = 0
  BY HeadOwn, Zenon
<1>2. \A i \in 1..Len(fromZ') : AnswerOf(fromZ'[i], i, wait')
  <2>1. \A i : i \notin 1..0  BY SMT
  <2> QED  BY <1>1, <2>1, Zenon
<1>3. \A k \in 1..Len(toZ') : RequestOf(toZ'[k], wait')  BY <1>1, Zenon
<1>4. z80'.sending # None => SendingOf(z80', Len(fromZ'), wait')
  <2>1. 0 + 0 = 0  BY SMT
  <2> QED  BY <1>1, <2>1, Zenon DEF SendingOf, RequestOf
<1> QED  BY <1>2, <1>3, <1>4, Zenon DEF OwnLine, LineOf

(* A request is answered in one frame. *)
LEMMA RepliedOwn ==
  ASSUME UartInv, OwnLine, toZ # <<>>, toZ' = Tail(toZ), wait' = wait,
         z80'.sending = None,
         NEW f \in Answers, fromZ' = Append(fromZ, f),
         f.of = Head(toZ).id, f.cmd = Head(toZ).cmd, f.off = 0,
         f.cmd = "read" => f.seq = Head(toZ).seq,
         f.cmd # "readDir"
  PROVE  OwnLine'
<1>1. /\ RequestOf(Head(toZ), wait)
      /\ \A k \in 1..Len(Tail(toZ)) : RequestOf(Tail(toZ)[k], wait)
      /\ Len(fromZ) = 0 /\ Len(wait.got) = 0
  BY HeadOwn, Zenon
<1>2. Len(fromZ') = 1 /\ fromZ'[1] = f
  <2>1. fromZ \in Seq(Answers) /\ f \in Answers  BY LineFacts, Zenon
  <2>2. /\ Len(Append(fromZ, f)) = Len(fromZ) + 1
        /\ Append(fromZ, f)[Len(fromZ) + 1] = f
    BY ONLY <2>1, AppendFacts
  <2>3. 0 + 1 = 1  BY SMT
  <2> QED  BY <1>1, <2>2, <2>3, Zenon
<1>3. AnswerOf(f, 1, wait)
  <2>1. 0 = 0 + (1 - 1)  BY SMT
  <2>2. f.off = Len(wait.got) + (1 - 1)  BY <1>1, <2>1, Zenon
  <2> QED  BY <1>1, <2>2, Zenon DEF AnswerOf, RequestOf
<1>4. \A i \in 1..Len(fromZ') : AnswerOf(fromZ'[i], i, wait')
  <2>1. \A i \in 1..1 : i = 1  BY SMT
  <2> QED  BY <1>2, <1>3, <2>1, Zenon
<1>5. \A k \in 1..Len(toZ') : RequestOf(toZ'[k], wait')  BY <1>1, Zenon
<1> QED  BY <1>4, <1>5, Zenon DEF OwnLine, LineOf

LEMMA ZIdleFacts ==
  ZIdle.next = 0 /\ ZIdle.sending = None
  BY Zenon DEF ZIdle

LEMMA ZAnswerOwn ==
  ASSUME UartInv, OwnLine, ZAnswer
  PROVE  OwnLine'
<1> DEFINE r == Head(toZ)
<1>1. toZ # <<>> /\ toZ' = Tail(toZ) /\ wait' = wait
  BY Zenon DEF ZAnswer, clientVars
<1>2. r \in Requests  BY <1>1, HeadOwn, Zenon
<1>3. r.id \in Nat \ {0} /\ r.seq \in Nat /\ r.cmd \in Commands /\ 0 \in Nat
  <2>1. 0 \in Nat  BY SMT
  <2> QED  BY <1>2, <2>1, Zenon DEF Requests
<1> HIDE DEF r
<1>4. CASE /\ fromZ' = fromZ
           /\ z80' = [ZIdle EXCEPT !.sending = r.id, !.cmd = r.cmd, !.seq = r.seq]
  <2>1. /\ z80'.sending = r.id /\ z80'.cmd = r.cmd /\ z80'.seq = r.seq
        /\ z80'.next = 0
    BY <1>4, Zenon DEF ZIdle
  <2> QED  BY <1>1, <1>4, <2>1, HeardOwn, Zenon DEF r
<1>5. CASE /\ r.cmd \notin {"read", "readDir"} /\ z80' = ZIdle
           /\ fromZ' = Append(fromZ, Said(r.cmd, r.id, 0, 0, TRUE, TRUE))
  <2> DEFINE f == Said(r.cmd, r.id, 0, 0, TRUE, TRUE)
  <2>1. f \in Answers /\ f.cmd = r.cmd /\ f.of = r.id /\ f.off = 0
    BY <1>3, Zenon DEF Said, Answers
  <2>2. fromZ' = Append(fromZ, f)  BY <1>5, Zenon
  <2> HIDE DEF f
  <2>3. z80'.sending = None  BY <1>5, ZIdleFacts, Zenon
  <2>4. f.cmd # "read" /\ f.cmd # "readDir"  BY <1>5, <2>1, SMT
  <2> QED  BY <1>1, <2>1, <2>2, <2>3, <2>4, RepliedOwn, Zenon DEF r
<1>6. CASE /\ r.cmd # "readDir" /\ z80' = ZIdle
           /\ fromZ' = Append(fromZ, Said(r.cmd, r.id, r.seq, 0, TRUE, FALSE))
  <2> DEFINE f == Said(r.cmd, r.id, r.seq, 0, TRUE, FALSE)
  <2>1. /\ f \in Answers /\ f.cmd = r.cmd /\ f.of = r.id /\ f.off = 0
        /\ f.seq = r.seq /\ f.ok = FALSE
    BY <1>3, Zenon DEF Said, Answers
  <2>2. fromZ' = Append(fromZ, f)  BY <1>6, Zenon
  <2> HIDE DEF f
  <2>3. z80'.sending = None  BY <1>6, ZIdleFacts, Zenon
  <2>4. f.cmd # "readDir"  BY <1>6, <2>1, Zenon
  <2> QED  BY <1>1, <2>1, <2>2, <2>3, <2>4, RepliedOwn, Zenon DEF r
<1> QED  BY <1>4, <1>5, <1>6, Zenon DEF ZAnswer, Out, Said, r

LEMMA ZWriteOwn ==
  ASSUME UartInv, OwnLine, ZWrite
  PROVE  OwnLine'
<1> DEFINE r == Head(toZ)
<1>1. /\ toZ # <<>> /\ toZ' = Tail(toZ) /\ wait' = wait /\ r.cmd = "write"
  BY Zenon DEF ZWrite, clientVars
<1>2. r \in Requests  BY <1>1, HeadOwn, Zenon
<1>3. r.id \in Nat \ {0} /\ r.seq \in Nat /\ "write" \in Commands /\ 0 \in Nat
  <2>1. 0 \in Nat  BY SMT
  <2> QED  BY <1>1, <1>2, <2>1, Zenon DEF Requests
<1>4. z80'.sending = None
  <2>1. \/ z80' = ZIdle
        \/ \E w, n : z80' = [ZIdle EXCEPT !.window = w, !.frames = n]
    BY Zenon DEF ZWrite
  <2> QED  BY <2>1, ZIdleFacts, Zenon DEF ZIdle
<1>5. \/ fromZ' = fromZ
      \/ \E ok \in BOOLEAN :
           fromZ' = Append(fromZ, Said("write", r.id, r.seq, 0, TRUE, ok))
  BY Zenon DEF ZWrite, Out, Said
<1> HIDE DEF r
<1>6. CASE fromZ' = fromZ
  BY <1>1, <1>4, <1>6, HeardOwn, Zenon DEF r
<1>7. ASSUME NEW ok \in BOOLEAN,
             fromZ' = Append(fromZ, Said("write", r.id, r.seq, 0, TRUE, ok))
      PROVE  OwnLine'
  <2> DEFINE f == Said("write", r.id, r.seq, 0, TRUE, ok)
  <2>1. /\ f \in Answers /\ f.cmd = r.cmd /\ f.of = r.id /\ f.off = 0
        /\ f.cmd = "write"
    <3>1. TRUE \in BOOLEAN  BY Zenon
    <3> QED  BY <1>1, <1>3, <3>1, Zenon DEF Said, Answers
  <2>2. fromZ' = Append(fromZ, f)  BY <1>7, Zenon
  <2> HIDE DEF f
  <2>3. f.cmd # "read" /\ f.cmd # "readDir"  BY <2>1, SMT
  <2> QED  BY <1>1, <1>4, <2>1, <2>2, <2>3, RepliedOwn, Zenon DEF r
<1> QED  BY <1>5, <1>6, <1>7, Zenon

LEMMA ZFrameOwn ==
  ASSUME UartInv, OwnLine, ZFrame
  PROVE  OwnLine'
<1> DEFINE on == [z80 EXCEPT !.next = z80.next + 1]
<1>1. z80.sending # None /\ toZ' = toZ /\ wait' = wait
  BY Zenon DEF ZFrame, clientVars
<1>2. /\ z80.sending = wait.id /\ z80.cmd = wait.cmd /\ z80.seq = wait.seq
      /\ z80.next = Len(wait.got) + Len(fromZ)
  BY <1>1, Zenon DEF OwnLine, LineOf, SendingOf
<1>3. /\ fromZ \in Seq(Answers) /\ Len(fromZ) \in Nat /\ Len(wait.got) \in Nat
      /\ z80 \in Z80s /\ z80.next \in Nat /\ z80.seq \in Nat /\ z80.sending \in Nat
  BY LineFacts, Zenon
<1>4. z80.cmd \in Commands /\ z80.sending \in Nat \ {0}
  <2>1. z80.cmd \in {"read", "readDir"}
    BY <1>1, Zenon DEF UartInv, AnswerInv
  <2>2. z80.cmd \in Commands  BY <2>1, SMT DEF Commands
  <2> QED  BY <1>1, <1>3, <2>2, Zenon DEF None
<1>5. /\ on.sending = z80.sending /\ on.cmd = z80.cmd /\ on.seq = z80.seq
      /\ on.next = z80.next + 1
  BY <1>3, Zenon DEF Z80s
<1> HIDE DEF on
<1>6. ASSUME NEW end \in BOOLEAN, NEW ok \in BOOLEAN,
             fromZ' = Append(fromZ, Said(z80.cmd, z80.sending, z80.seq,
                                         z80.next, end, ok)),
             wait.cmd = "readDir" /\ end = FALSE /\ ok = TRUE => z80.next < Frames,
             z80' = ZIdle \/ z80' = on
      PROVE  OwnLine'
  <2> DEFINE f == Said(z80.cmd, z80.sending, z80.seq, z80.next, end, ok)
  <2>1. /\ f \in Answers /\ f.cmd = z80.cmd /\ f.of = z80.sending
        /\ f.off = z80.next /\ f.seq = z80.seq /\ f.last = end /\ f.ok = ok
    BY <1>3, <1>4, Zenon DEF Said, Answers
  <2>2. fromZ' = Append(fromZ, f)  BY <1>6, Zenon
  <2> HIDE DEF f
  <2>3. /\ Len(fromZ') = Len(fromZ) + 1 /\ fromZ'[Len(fromZ) + 1] = f
        /\ \A i \in 1..Len(fromZ) : fromZ'[i] = fromZ[i]
    <3>1. fromZ \in Seq(Answers) /\ f \in Answers  BY <1>3, <2>1, Zenon
    <3>2. /\ Len(Append(fromZ, f)) = Len(fromZ) + 1
          /\ Append(fromZ, f)[Len(fromZ) + 1] = f
          /\ \A i \in 1..Len(fromZ) : Append(fromZ, f)[i] = fromZ[i]
      BY ONLY <3>1, AppendFacts
    <3> QED  BY <2>2, <3>2, Zenon
  <2>4. AnswerOf(f, Len(fromZ) + 1, wait)
    <3>1. z80.next = Len(wait.got) + ((Len(fromZ) + 1) - 1)
      BY <1>2, <1>3, SMT
    <3>2. wait.cmd = "readDir" /\ IsEntry(f) => f.off < Frames
      BY <1>6, <2>1, Zenon DEF IsEntry
    <3> QED  BY <1>2, <2>1, <3>1, <3>2, Zenon DEF AnswerOf
  <2>5. \A i \in 1..Len(fromZ') : AnswerOf(fromZ'[i], i, wait')
    <3>1. \A i \in 1..Len(fromZ') : i \in 1..Len(fromZ) \/ i = Len(fromZ) + 1
      BY <1>3, <2>3, SMT
    <3>2. \A i \in 1..Len(fromZ) : AnswerOf(fromZ[i], i, wait)
      BY Zenon DEF OwnLine, LineOf
    <3> QED  BY <1>1, <2>3, <2>4, <3>1, <3>2, Zenon
  <2>6. \A k \in 1..Len(toZ') : RequestOf(toZ'[k], wait')
    BY <1>1, Zenon DEF OwnLine, LineOf
  <2>7. CASE z80' = ZIdle
    BY <2>5, <2>6, <2>7, ZIdleFacts, Zenon DEF OwnLine, LineOf
  <2>8. CASE z80' = on
    <3>1. z80.next + 1 = Len(wait.got) + Len(fromZ')
      <4>1. z80.next = Len(wait.got) + Len(fromZ)  BY <1>2, Zenon
      <4>2. Len(fromZ') = Len(fromZ) + 1  BY <2>3, Zenon
      <4>3. \A a, b \in Nat : (a + b) + 1 = a + (b + 1)  BY SMT
      <4> QED  BY <1>3, <4>1, <4>2, <4>3, Zenon
    <3>2. SendingOf(z80', Len(fromZ'), wait')
      BY <1>1, <1>2, <1>5, <2>8, <3>1, Zenon DEF SendingOf
    <3> QED  BY <2>5, <2>6, <3>2, Zenon DEF OwnLine, LineOf
  <2> QED  BY <1>6, <2>7, <2>8, Zenon
<1>7. \E end, ok \in BOOLEAN :
        /\ Say(end, ok) /\ (z80' = ZIdle \/ GoOn)
        /\ z80.cmd = "readDir" /\ end = FALSE /\ ok = TRUE => z80.next < Frames
  <2>1. TRUE \in BOOLEAN /\ FALSE \in BOOLEAN /\ FALSE # TRUE  BY Zenon
  <2>2. CASE ZWindow
    <3>1. z80.cmd # "readDir"
      <4>1. "read" # "readDir"  BY SMT
      <4> QED  BY <2>2, <4>1, Zenon DEF ZWindow
    <3> QED  BY <2>1, <2>2, <3>1, Zenon DEF ZWindow
  <2>3. CASE ZBatch
    BY <2>1, <2>3, Zenon DEF ZBatch
  <2> QED  BY <2>2, <2>3, Zenon DEF ZFrame
<1> QED  BY <1>2, <1>6, <1>7, Zenon DEF Say, Out, Said, GoOn, on

LEMMA InitListing == Init => ListingInv
<1> SUFFICES ASSUME Init PROVE ListingInv  OBVIOUS
<1>1. UartInv  BY InitUart, Zenon
<1>2. /\ losses = 0 /\ late = {} /\ fromZ = <<>> /\ toZ = <<>> /\ z80 = ZIdle
  BY Zenon DEF Init
<1>3. Len(<<>>) = 0 /\ 0 \in Nat  BY SMT
<1>4. Quiet(fromZ, toZ, z80.sending)
  <2>1. Len(fromZ) = 0 /\ Len(toZ) = 0 /\ z80.sending = None
    BY <1>2, <1>3, ZIdleFacts, Zenon
  <2> QED  BY <2>1, Zenon DEF Quiet
<1>5. OwnLine  BY <1>4, QuietLine, Zenon DEF OwnLine
<1> QED  BY <1>1, <1>2, <1>3, <1>5, Zenon DEF ListingInv

LEMMA NextListing == ListingInv /\ [Next]_vars => ListingInv'
<1> SUFFICES ASSUME ListingInv, [Next]_vars PROVE ListingInv'
  OBVIOUS
<1>1. losses \in Nat  BY Zenon DEF ListingInv
<1>2. \A n \in Nat : n + 1 \in Nat /\ n + 1 # 0  BY SMT
<1>3. CASE LoseRequest \/ LoseAnswer
  <2>1. losses' = losses + 1 /\ late' = late
    BY <1>3, Zenon DEF LoseRequest, LoseAnswer
  <2> QED  BY <1>1, <1>2, <2>1, Zenon DEF ListingInv
<1>4. CASE TimeOut /\ late' = late \cup {wait.cmd}
  <2>1. losses' = losses  BY <1>4, Zenon DEF TimeOut
  <2>2. late' # {}  BY <1>4, Zenon
  <2> QED  BY <1>1, <2>1, <2>2, Zenon DEF ListingInv
<1>5. CASE /\ late' = late /\ losses' = losses
           /\ UartInv /\ OwnLine => UartInv' /\ OwnLine'
  BY <1>5, Zenon DEF ListingInv
<1>6. CASE TimeOut /\ ~(late' = late \cup {wait.cmd})
  <2>1. late' = late /\ losses' = losses /\ NothingToCome
    BY <1>6, Zenon DEF TimeOut
  <2>2. UartInv => UartInv' /\ OwnLine'
    BY <1>6, <2>1, TimeOutStep, TimeOutOwn, Zenon
  <2> QED  BY <1>5, <2>1, <2>2, Zenon
<1>7. CASE UNCHANGED vars
  <2>1. UNCHANGED <<clientVars, toZ, fromZ, z80, written, told, late, losses>>
    BY <1>7, Zenon DEF vars
  <2>2. /\ late' = late /\ losses' = losses /\ toZ' = toZ /\ fromZ' = fromZ
        /\ z80' = z80 /\ wait' = wait /\ UNCHANGED clientVars
        /\ written' = written
    BY <2>1, Zenon DEF clientVars
  <2>3. UartInv => UartInv'  BY <1>7, SameUart, Zenon
  <2>4. OwnLine => OwnLine'  BY <2>2, Zenon DEF OwnLine
  <2> QED  BY <1>5, <2>2, <2>3, <2>4, Zenon
<1>8. CASE \/ AskOpen \/ AskStat \/ AskOpenDirectory \/ AskBatch \/ AskRead
           \/ AskWrite \/ AskClose
  <2>1. late' = late /\ losses' = losses
    BY <1>8, Zenon DEF AskOpen, AskStat, AskOpenDirectory, AskBatch, AskRead,
         AskWrite, AskClose, Send
  <2>2. UartInv => UartInv'  BY <1>8, AskStep, Zenon
  <2>3. UartInv /\ OwnLine => OwnLine'
    <3>1. UartInv => \E cmd, seq, m : Asks(cmd, seq, m)  BY <1>8, Sent, Zenon
    <3> QED  BY <3>1, AskedOwn, Zenon
  <2> QED  BY <1>5, <2>1, <2>2, <2>3, Zenon
<1>9. CASE Discard
  <2>1. /\ late' = late /\ losses' = losses /\ fromZ # <<>>
        /\ Answer.cmd # wait.cmd
    BY <1>9, Zenon DEF Discard
  <2>2. ~(UartInv /\ OwnLine)  BY <2>1, FirstOwn, Zenon
  <2> QED  BY <1>5, <2>1, <2>2, Zenon
<1>10. CASE Take
  <2>1. late' = late /\ losses' = losses  BY <1>10, Zenon DEF Take
  <2> QED  BY <1>5, <1>10, <2>1, TakeStep, TakeOwn, Zenon
<1>11. CASE ZAnswer
  <2>1. late' = late /\ losses' = losses  BY <1>11, Zenon DEF ZAnswer
  <2> QED  BY <1>5, <1>11, <2>1, ZAnswerStep, ZAnswerOwn, Zenon
<1>12. CASE ZFrame
  <2>1. late' = late /\ losses' = losses  BY <1>12, Zenon DEF ZFrame
  <2> QED  BY <1>5, <1>12, <2>1, ZFrameStep, ZFrameOwn, Zenon
<1>13. CASE ZWrite
  <2>1. late' = late /\ losses' = losses  BY <1>13, Zenon DEF ZWrite
  <2> QED  BY <1>5, <1>13, <2>1, ZWriteStep, ZWriteOwn, Zenon
<1> QED  BY <1>3, <1>4, <1>6, <1>7, <1>8, <1>9, <1>10, <1>11, <1>12, <1>13,
            Zenon DEF Next

-----------------------------------------------------------------------------
(* The batches of an open directory. *)

(* The entries of a batch under way were sent for it. *)
BatchOwn ==
  wait.cmd = "readDir" /\ dir = "open" /\ "openDir" \notin late =>
    \A k \in 1..Len(wait.got) : wait.got[k] = wait.id

BatchInv == UartInv /\ ListingInv /\ BatchOwn /\ ListingIsWhole

(* What the Z80 has ended, what came too late and what was lost stays so. *)
LEMMA Recorded ==
  ASSUME [Next]_vars, losses \in Nat
  PROVE  late \subseteq late' /\ told \subseteq told' /\ (losses' = 0 => losses = 0)
<1>1. \A n \in Nat : n + 1 # 0  BY SMT
<1>2. CASE UNCHANGED vars  BY <1>2, Zenon DEF vars
<1>3. CASE \/ AskOpen \/ AskStat \/ AskOpenDirectory \/ AskBatch \/ AskRead
           \/ AskWrite \/ AskClose
  BY <1>3, Zenon DEF AskOpen, AskStat, AskOpenDirectory, AskBatch, AskRead,
     AskWrite, AskClose, Send
<1>4. CASE Discard \/ Take \/ TimeOut
  BY <1>4, Zenon DEF Discard, Take, TimeOut
<1>5. CASE ZAnswer \/ ZWrite  BY <1>5, Zenon DEF ZAnswer, ZWrite
<1>6. CASE ZFrame
  <2>1. late' = late /\ losses' = losses /\ (ZWindow \/ ZBatch)
    BY <1>6, Zenon DEF ZFrame
  <2>2. told \subseteq told'  BY <2>1, Zenon DEF ZWindow, ZBatch
  <2> QED  BY <2>1, <2>2, Zenon
<1>7. CASE LoseRequest \/ LoseAnswer
  BY <1>1, <1>7, Zenon DEF LoseRequest, LoseAnswer
<1> QED  BY <1>2, <1>3, <1>4, <1>5, <1>6, <1>7, Zenon DEF Next

(* What a step does to the request waited for. *)
LEMMA WaitSteps ==
  ASSUME [Next]_vars, Types
  PROVE  \/ wait' = wait /\ dir' = dir
         \/ wait' = NoWait
         \/ wait'.got = <<>>
         \/ wait'.cmd # "readDir"
         \/ /\ Take /\ wait.cmd = "readDir" /\ dir' = dir
            /\ wait' = [wait EXCEPT !.got = Append(wait.got, Answer.of)]
<1>1. CASE UNCHANGED vars  BY <1>1, Zenon DEF vars, clientVars
<1>2. CASE \/ AskOpen \/ AskStat \/ AskOpenDirectory \/ AskBatch \/ AskRead
           \/ AskWrite \/ AskClose
  <2>1. \E cmd, seq, m : Send(cmd, seq, m)
    BY <1>2, Zenon DEF AskOpen, AskStat, AskOpenDirectory, AskBatch, AskRead,
       AskWrite, AskClose
  <2>2. PICK cmd, seq, m : Send(cmd, seq, m)  BY <2>1, Zenon
  <2>3. wait' = [cmd |-> cmd, id |-> requests + 1, seq |-> seq, got |-> <<>>]
    BY <2>2, Zenon DEF Send
  <2>4. wait'.got = <<>>  BY <2>3, Zenon
  <2> QED  BY <2>4, Zenon
<1>3. CASE Discard \/ ZAnswer \/ ZFrame \/ ZWrite \/ LoseRequest \/ LoseAnswer
  BY <1>3, Zenon DEF Discard, ZAnswer, ZFrame, ZWrite, LoseRequest, LoseAnswer,
     clientVars
<1>4. CASE TimeOut  BY <1>4, Zenon DEF TimeOut, Failed, Done
<1>5. CASE Take /\ TakeRead
  <2>1. wait.cmd = "read"  BY <1>5, Zenon DEF TakeRead
  <2>2. wait' = NoWait \/ \E g : wait' = [wait EXCEPT !.got = g]
    BY <1>5, Zenon DEF TakeRead, Done, Failed
  <2>3. ASSUME NEW g, wait' = [wait EXCEPT !.got = g] PROVE wait'.cmd = "read"
    BY <2>1, <2>3, Zenon DEF Types, Waits
  <2>4. "read" # "readDir"  BY SMT
  <2>5. wait'.cmd = "read" => wait'.cmd # "readDir"  BY <2>4, Zenon
  <2> QED  BY <2>2, <2>3, <2>5, Zenon
<1>6. CASE Take /\ (TakeAck \/ TakeOther)
  BY <1>6, Zenon DEF TakeAck, TakeOther, Done, Failed
<1>7. CASE Take /\ TakeEntry
  BY <1>7, Zenon DEF TakeEntry, Done, Failed
<1> QED  BY <1>1, <1>2, <1>3, <1>4, <1>5, <1>6, <1>7, Zenon DEF Next, Take

LEMMA NextBatchOwn ==
  ASSUME UartInv, BatchOwn, losses \in Nat, [Next]_vars
  PROVE  BatchOwn'
<1>1. Types  BY Zenon DEF UartInv
<1>2. late \subseteq late'  BY Recorded, Zenon
<1>3. CASE wait' = wait /\ dir' = dir
  <2>1. "openDir" \notin late' => "openDir" \notin late  BY <1>2, Zenon
  <2> QED  BY <1>3, <2>1, Zenon DEF BatchOwn
<1>4. CASE wait' = NoWait
  <2>1. wait'.cmd = "none"  BY <1>4, NoWaitFacts, Zenon
  <2>2. "none" # "readDir"  BY SMT
  <2>3. wait'.cmd # "readDir"  BY <2>1, <2>2, Zenon
  <2> QED  BY <2>3, Zenon DEF BatchOwn
<1>5. CASE wait'.got = <<>>
  <2>1. Len(<<>>) = 0 /\ \A k : k \notin 1..0  BY SMT
  <2> QED  BY <1>5, <2>1, Zenon DEF BatchOwn
<1>6. CASE wait'.cmd # "readDir"  BY <1>6, Zenon DEF BatchOwn
<1>7. ASSUME Take, wait.cmd = "readDir", dir' = dir,
             wait' = [wait EXCEPT !.got = Append(wait.got, Answer.of)]
      PROVE  BatchOwn'
  <2> SUFFICES ASSUME dir' = "open", "openDir" \notin late'
               PROVE  \A k \in 1..Len(wait'.got) : wait'.got[k] = wait'.id
    BY Zenon DEF BatchOwn
  <2>1. Taken /\ Answer.cmd = wait.cmd  BY <1>7, Zenon DEF Take, Taken
  <2>2. dir = "open" /\ "openDir" \notin late  BY <1>2, <1>7, Zenon
  <2>3. Strict(wait.cmd, file, dir, late)  BY <1>7, <2>2, Zenon DEF Strict
  <2>4. Answer.of = wait.id  BY <2>1, <2>3, OwnAnswer, Zenon
  <2>5. /\ wait.got \in Seq(Nat) /\ wait'.id = wait.id
        /\ wait'.got = Append(wait.got, Answer.of)
    BY <1>1, <1>7, Zenon DEF Types, Waits
  <2>6. Answer.of \in Nat  BY <2>1, TakenRest, AnswerFields, Zenon
  <2>7. \A k \in 1..Len(wait.got) : wait.got[k] = wait.id
    BY <1>7, <2>2, Zenon DEF BatchOwn
  <2>8. /\ Len(wait'.got) = Len(wait.got) + 1 /\ Len(wait.got) \in Nat
        /\ wait'.got[Len(wait.got) + 1] = Answer.of
        /\ \A k \in 1..Len(wait.got) : wait'.got[k] = wait.got[k]
    <3>1. wait.got \in Seq(Nat) /\ Answer.of \in Nat  BY <2>5, <2>6, Zenon
    <3>2. /\ Len(Append(wait.got, Answer.of)) = Len(wait.got) + 1
          /\ Len(wait.got) \in Nat
          /\ Append(wait.got, Answer.of)[Len(wait.got) + 1] = Answer.of
          /\ \A k \in 1..Len(wait.got) :
               Append(wait.got, Answer.of)[k] = wait.got[k]
      BY ONLY <3>1, AppendFacts
    <3> QED  BY <2>5, <3>2, Zenon
  <2>9. \A k \in 1..Len(wait'.got) :
          k \in 1..Len(wait.got) \/ k = Len(wait.got) + 1
    BY <2>8, SMT
  <2> QED  BY <2>4, <2>5, <2>7, <2>8, <2>9, Zenon
<1> QED  BY <1>1, <1>3, <1>4, <1>5, <1>6, <1>7, WaitSteps, Zenon

(* Only the frame with the status of a batch makes it known. *)
LEMMA ListedSteps ==
  ASSUME [Next]_vars, listed' # listed
  PROVE  /\ Take /\ TakeEntry /\ HasStatus(Answer) /\ dir = "open"
         /\ listed' = [id |-> wait.id, of |-> wait.got,
                       ended |-> ~More(Answer) \/ wait.got = <<>>]
<1>1. CASE UNCHANGED vars  BY <1>1, Zenon DEF vars, clientVars
<1>2. CASE \/ AskOpen \/ AskStat \/ AskOpenDirectory \/ AskBatch \/ AskRead
           \/ AskWrite \/ AskClose
  BY <1>2, Zenon DEF AskOpen, AskStat, AskOpenDirectory, AskBatch, AskRead,
     AskWrite, AskClose, Send
<1>3. CASE Discard \/ ZAnswer \/ ZFrame \/ ZWrite \/ LoseRequest \/ LoseAnswer
  BY <1>3, Zenon DEF Discard, ZAnswer, ZFrame, ZWrite, LoseRequest, LoseAnswer,
     clientVars
<1>4. CASE TimeOut  BY <1>4, Zenon DEF TimeOut, Failed
<1>5. CASE Take /\ (TakeRead \/ TakeAck \/ TakeOther)
  BY <1>5, Zenon DEF TakeRead, TakeAck, TakeOther, Failed
<1>6. CASE Take /\ TakeEntry
  BY <1>6, Zenon DEF TakeEntry, Failed
<1> QED  BY <1>1, <1>2, <1>3, <1>4, <1>5, <1>6, Zenon DEF Next, Take

LEMMA NextListed ==
  ASSUME BatchInv, [Next]_vars
  PROVE  ListingIsWhole'
<1>1. /\ UartInv /\ ListingInv /\ BatchOwn /\ ListingIsWhole /\ losses \in Nat
  BY Zenon DEF BatchInv, ListingInv
<1>2. /\ late \subseteq late' /\ told \subseteq told' /\ (losses' = 0 => losses = 0)
  BY <1>1, Recorded, Zenon
<1>3. /\ "openDir" \notin late' => "openDir" \notin late
      /\ late' = {} => late = {}
  BY <1>2, Zenon
<1>4. CASE listed' = listed
  BY <1>1, <1>2, <1>3, <1>4, Zenon DEF ListingIsWhole
<1>5. ASSUME listed' # listed PROVE ListingIsWhole'
  <2>1. /\ Take /\ TakeEntry /\ Answer.last /\ dir = "open"
        /\ listed' = [id |-> wait.id, of |-> wait.got,
                      ended |-> ~More(Answer) \/ wait.got = <<>>]
    BY <1>5, ListedSteps, Zenon DEF HasStatus
  <2>2. /\ listed'.id = wait.id /\ listed'.of = wait.got
        /\ listed'.ended = (~More(Answer) \/ wait.got = <<>>)
    BY <2>1, Zenon
  <2>3. wait.cmd = "readDir"  BY <2>1, Zenon DEF TakeEntry
  <2>4. "openDir" \notin late' =>
          \A k \in 1..Len(listed'.of) : listed'.of[k] = listed'.id
    BY <1>1, <1>3, <2>1, <2>2, <2>3, Zenon DEF BatchOwn
  <2>5. ASSUME losses = 0, late = {}
        PROVE  [id |-> listed'.id, count |-> Len(listed'.of),
                ended |-> listed'.ended] \in told
    <3>1. UartInv /\ OwnLine  BY <1>1, <2>5, Zenon DEF ListingInv
    <3>2. fromZ # <<>> /\ Answer.cmd = "readDir" /\ Taken
      BY <2>1, <2>3, Zenon DEF Take, Taken
    <3>3. Answer.of = wait.id /\ Answer.off = Len(wait.got)
      BY <3>1, <3>2, FirstOwn, Zenon
    <3>4. Good(Answer, written, told)  BY <3>1, <3>2, TakenRest, Zenon
    <3>5. /\ [id |-> Answer.of, count |-> Answer.off, ended |-> ~Answer.ok] \in told
          /\ Answer.ok => Answer.off # 0
      BY <2>1, <3>2, <3>4, Zenon DEF Good
    <3>6. listed'.ended = ~Answer.ok
      <4>1. CASE Answer.ok
        <5>1. Len(wait.got) # 0  BY <3>3, <3>5, <4>1, Zenon
        <5>2. Len(<<>>) = 0  BY SMT
        <5>3. wait.got # <<>>  BY <5>1, <5>2, Zenon
        <5> QED  BY <2>1, <2>2, <4>1, <5>3, Zenon DEF More
      <4>2. CASE ~Answer.ok  BY <2>2, <4>2, Zenon DEF More
      <4> QED  BY <4>1, <4>2, Zenon
    <3> QED  BY <2>2, <3>3, <3>5, <3>6, Zenon
  <2> QED  BY <1>2, <1>3, <2>4, <2>5, Zenon DEF ListingIsWhole
<1> QED  BY <1>4, <1>5, Zenon

LEMMA InitBatch == Init => BatchInv
<1> SUFFICES ASSUME Init PROVE BatchInv  OBVIOUS
<1>1. UartInv /\ ListingInv  BY InitUart, InitListing, Zenon
<1>2. listed.id = None /\ wait = NoWait  BY Zenon DEF Init
<1>3. wait.cmd # "readDir"
  <2>1. "none" # "readDir"  BY SMT
  <2> QED  BY <1>2, <2>1, NoWaitFacts, Zenon
<1> QED  BY <1>1, <1>2, <1>3, Zenon DEF BatchInv, BatchOwn, ListingIsWhole

LEMMA NextBatch == CloseInTime /\ BatchInv /\ [Next]_vars => BatchInv'
<1> SUFFICES ASSUME CloseInTime, BatchInv, [Next]_vars PROVE BatchInv'
  OBVIOUS
<1>1. UartInv /\ ListingInv /\ BatchOwn /\ losses \in Nat
  BY Zenon DEF BatchInv, ListingInv
<1>2. UartInv'  BY <1>1, NextUart, Zenon
<1>3. ListingInv'  BY <1>1, NextListing, Zenon
<1>4. BatchOwn'  BY <1>1, NextBatchOwn, Zenon
<1>5. ListingIsWhole'  BY NextListed, Zenon
<1> QED  BY <1>2, <1>3, <1>4, <1>5, Zenon DEF BatchInv

(* fetchDirectoryBatch(): in a directory on which nothing has failed, the
   entries of a batch are its own whatever was lost and whichever batches came
   too late, unless it was opened while an OPENDIR given up was on its way; and
   a batch is whole, and the last only if the Z80 ended the directory, when
   nothing was lost and nothing came too late. *)
THEOREM UartListing == ASSUME CloseInTime PROVE Spec => []ListingIsWhole
<1>1. BatchInv /\ [Next]_vars => BatchInv'  BY NextBatch, Zenon
<1>2. BatchInv => ListingIsWhole  BY Zenon DEF BatchInv
<1> QED  BY InitBatch, <1>1, <1>2, PTL DEF Spec

=============================================================================
