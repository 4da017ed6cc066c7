------------------------------ MODULE ByteFifo ------------------------------
(***************************************************************************)
(* What SpscByteRing promises to its two users: a bounded queue of bytes   *)
(* in which one thread appends a prefix of the bytes it was handed, and    *)
(* the other looks at any part of the queue without taking it, or drops    *)
(* bytes from the front.  Every operation is one atomic step here.         *)
(***************************************************************************)
EXTENDS Naturals, Sequences

CONSTANTS
  Capacity,  (* bytes the queue holds                                       *)
  Arguments  (* the byte strings a caller may hand to write()               *)

VARIABLES
  offered,   (* the argument of the write() call in progress                *)
  queue,     (* bytes written and not yet discarded, oldest first           *)
  seen       (* what the last completed peek returned                       *)

fifoVars == <<offered, queue, seen>>

Init ==
  /\ offered = <<>>
  /\ queue = <<>>
  /\ seen = <<>>

Offer ==
  /\ offered' \in Arguments
  /\ UNCHANGED <<queue, seen>>

(* A write keeps a prefix of its argument, and never a byte too many. *)
Put ==
  /\ \E n \in 1 .. Len(offered) :
       /\ Len(queue) + n <= Capacity
       /\ queue' = queue \o SubSeq(offered, 1, n)
  /\ UNCHANGED <<offered, seen>>

(* peekAt(offset) returns consecutive bytes and leaves them in the queue. *)
Look ==
  /\ \E offset \in 0 .. Len(queue) - 1 :
       \E n \in 1 .. Len(queue) - offset :
         seen' = SubSeq(queue, offset + 1, offset + n)
  /\ UNCHANGED <<offered, queue>>

Drop ==
  /\ \E n \in 1 .. Len(queue) : queue' = SubSeq(queue, n + 1, Len(queue))
  /\ UNCHANGED <<offered, seen>>

Clear ==
  /\ queue' = <<>>
  /\ UNCHANGED <<offered, seen>>

Next == Offer \/ Put \/ Look \/ Drop \/ Clear

Spec == Init /\ [][Next]_fifoVars
=============================================================================
