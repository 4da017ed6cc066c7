------------------------------ MODULE SpscRing ------------------------------
(***************************************************************************)
(* SpscByteRing: the lock-free byte ring between the two cores.  The       *)
(* positions are unsigned counters that only grow and wrap at Modulus      *)
(* (2^32 in the firmware); a byte at position p lives in slot p % Capacity.*)
(*                                                                         *)
(* A step is at most one access to memory the other core also uses: the    *)
(* load of the other side's position, the copy of one byte, the store of   *)
(* the own position.  The release/acquire pairs of the code make a copied  *)
(* byte visible no later than the position published after it, which is    *)
(* what interleaving these steps expresses.                                *)
(***************************************************************************)
EXTENDS Integers, Sequences

CONSTANTS
  Capacity,  (* capacity_: 64 KiB or 4 KiB in the firmware                  *)
  Modulus,   (* how many values a position has: 2^32                        *)
  Byte,      (* the byte values                                             *)
  MaxLen     (* bound: the longest argument of write(), peek(), discard()   *)

(* attach() accepts a power of two from 2 up to 2^31 - 1, so the capacity  *)
(* divides 2^32 and is less than 2^32.                                     *)
ASSUME RingAssumption ==
  /\ Capacity \in Nat /\ Capacity >= 2
  /\ Modulus \in Nat /\ Modulus > Capacity
  /\ \E k \in 1 .. Modulus : Modulus = Capacity * k
  /\ MaxLen \in Nat \ {0}
  /\ Byte # {}

VARIABLES
  storage,        (* storage_                                               *)
  writePosition,  (* writePosition_, stored by the producer                 *)
  readPosition,   (* readPosition_, stored by the consumer                  *)
  highWater,      (* highWater_                                             *)
  wpc,            (* where the producer is inside write()                   *)
  data,           (* the argument of write()                                *)
  wUsed,          (* `used` as write() computed it                          *)
  wCount,         (* `count` of write()                                     *)
  wDone,          (* bytes copied so far                                    *)
  rpc,            (* where the consumer is inside peekAt()/discard()/read() *)
  rOffset,        (* `offset` of peekAt()                                   *)
  rCount,         (* `count` of peekAt() and discard()                      *)
  rTake,          (* TRUE in read(), which discards what it has peeked      *)
  got,            (* bytes copied out so far                                *)
  out,            (* what the last completed peek returned                  *)
  wRoom,          (* freeSpace() as the producer last saw it, less what it  *)
                  (* wrote since                                            *)
  rAvail          (* available() as the consumer last saw it, less what it  *)
                  (* discarded since                                        *)

producerVars == <<wpc, data, wUsed, wCount, wDone, wRoom, highWater>>
consumerVars == <<rpc, rOffset, rCount, rTake, got, out, rAvail>>
spscVars == <<storage, writePosition, readPosition, producerVars, consumerVars>>

Least(a, b) == IF a < b THEN a ELSE b
Excess(a, b) == IF a > b THEN a - b ELSE 0

(* Byte strings no longer than MaxLen: the arguments write() is called with. *)
ByteStrings == UNION {[1 .. n -> Byte] : n \in 1 .. MaxLen}

(* written - read in unsigned arithmetic. *)
Used == (writePosition - readPosition) % Modulus

Slot(position) == position % Capacity

(* A few operators below have a variant beside them: the same code with a
   mistake in it that the named property has to notice. *)

(* available(). Variant: forgets that the counters wrap (AvailIsReal). *)
FillNoWrap == IF writePosition >= readPosition THEN writePosition - readPosition
                                               ELSE Capacity
Fill == Least(Used, Capacity)

(* freeSpace(). Variant: forgets that the counters wrap (RoomIsReal). *)
RoomNoWrap == Capacity - Least(Excess(writePosition, readPosition), Capacity)
Room == Capacity - Fill

(* How much of d write() takes. Variant: measures the ring, not the free part
   of it (NoSlotRace). *)
AcceptedBlind(d) == Least(Len(d), Capacity)
Accepted(d) == Least(Len(d), Capacity - Used)

-----------------------------------------------------------------------------
RingInit ==
  /\ storage \in [0 .. Capacity - 1 -> Byte]
  /\ writePosition = 0 /\ readPosition = 0 /\ highWater = 0
  /\ wpc = "idle" /\ data = <<>> /\ wUsed = 0 /\ wCount = 0 /\ wDone = 0
  /\ rpc = "idle" /\ rOffset = 0 /\ rCount = 0 /\ rTake = FALSE
  /\ got = <<>> /\ out = <<>> /\ wRoom = 0 /\ rAvail = 0

-----------------------------------------------------------------------------
(* The producer.                                                           *)

(* write(): both positions are loaded; a full ring returns 0 at once. *)
WriteMeasure(d) ==
  /\ wpc = "idle"
  /\ Used < Capacity
  /\ wpc' = "copy"
  /\ data' = d
  /\ wUsed' = Used
  /\ wCount' = Accepted(d)
  /\ wDone' = 0
  /\ UNCHANGED <<storage, writePosition, readPosition, highWater, wRoom,
                 consumerVars>>

WriteCopy ==
  /\ wpc = "copy" /\ wDone < wCount
  /\ storage' = [storage EXCEPT ![Slot(writePosition + wDone)]
                                   = data[wDone + 1]]
  /\ wDone' = wDone + 1
  /\ UNCHANGED <<writePosition, readPosition, highWater, wpc, data, wUsed,
                 wCount, wRoom, consumerVars>>

(* Variant: stores the position before the bytes (RefinesFifo). *)
PublishFirst ==
  /\ wpc = "copy" /\ wDone < wCount
  /\ writePosition' = (writePosition + wCount) % Modulus
  /\ wpc' = "mark"
  /\ wRoom' = Excess(wRoom, wCount)
  /\ UNCHANGED <<storage, readPosition, highWater, data, wUsed, wCount, wDone,
                 consumerVars>>

WritePublish ==
  /\ wpc = "copy" /\ wDone = wCount
  /\ writePosition' = (writePosition + wCount) % Modulus
  /\ wpc' = "mark"
  /\ wRoom' = Excess(wRoom, wCount)
  /\ UNCHANGED <<storage, readPosition, highWater, data, wUsed, wCount, wDone,
                 consumerVars>>

(* The fill level write() reports. Variants: the level before the write
   (HighWaterCovers), the length asked for (RingTypeOK). *)
MarkBefore == wUsed
MarkAsked == wUsed + Len(data)
Mark == wUsed + wCount

(* updateHighWater(): nobody else raises the mark, so the CAS loop is one
   step. *)
WriteMark ==
  /\ wpc = "mark"
  /\ highWater' = IF highWater < Mark THEN Mark ELSE highWater
  /\ wpc' = "idle"
  /\ UNCHANGED <<storage, writePosition, readPosition, data, wUsed, wCount,
                 wDone, wRoom, consumerVars>>

(* freeSpace() asked by the producer before it decides how much to fetch. *)
FreeSpace ==
  /\ wpc = "idle"
  /\ wRoom' = Room
  /\ UNCHANGED <<storage, writePosition, readPosition, highWater, wpc, data,
                 wUsed, wCount, wDone, consumerVars>>

-----------------------------------------------------------------------------
(* The consumer.                                                           *)

(* peekAt(offset, output, n), and read(), which peeks at offset 0. *)
PeekBegin(offset, n, take) ==
  /\ rpc = "idle"
  /\ offset < Fill
  /\ take => offset = 0
  /\ rpc' = "copy"
  /\ rOffset' = offset
  /\ rCount' = Least(n, Fill - offset)
  /\ rTake' = take
  /\ got' = <<>>
  /\ UNCHANGED <<storage, writePosition, readPosition, producerVars, out,
                 rAvail>>

PeekCopy ==
  /\ rpc = "copy" /\ Len(got) < rCount
  /\ got' = Append(got, storage[Slot(readPosition + rOffset + Len(got))])
  /\ UNCHANGED <<storage, writePosition, readPosition, producerVars, rpc,
                 rOffset, rCount, rTake, out, rAvail>>

(* The peek returns; read() goes on into discard(count). *)
PeekEnd ==
  /\ rpc = "copy" /\ Len(got) = rCount
  /\ out' = got
  /\ IF rTake
       THEN /\ rpc' = "discard"
            /\ rCount' = Least(rCount, Fill)
       ELSE /\ rpc' = "idle"
            /\ UNCHANGED rCount
  /\ UNCHANGED <<storage, writePosition, readPosition, producerVars, rOffset,
                 rTake, got, rAvail>>

DiscardBegin(n) ==
  /\ rpc = "idle"
  /\ rpc' = "discard"
  /\ rCount' = Least(n, Fill)
  /\ UNCHANGED <<storage, writePosition, readPosition, producerVars, rOffset,
                 rTake, got, out, rAvail>>

DiscardEnd ==
  /\ rpc = "discard"
  /\ readPosition' = (readPosition + rCount) % Modulus
  /\ rpc' = "idle"
  /\ rAvail' = Excess(rAvail, rCount)
  /\ UNCHANGED <<storage, writePosition, producerVars, rOffset, rCount, rTake,
                 got, out>>

(* available() asked by the consumer before it decides how much to take. *)
Available ==
  /\ rpc = "idle"
  /\ rAvail' = Fill
  /\ UNCHANGED <<storage, writePosition, readPosition, producerVars, rpc,
                 rOffset, rCount, rTake, got, out>>

-----------------------------------------------------------------------------
(* reset() stores three zeros from one core; both sides have to be outside
   the ring.  VfsBridge.tla shows that its callers keep to that. *)
Reset ==
  /\ wpc = "idle" /\ rpc = "idle"
  /\ writePosition' = 0 /\ readPosition' = 0 /\ highWater' = 0
  /\ wRoom' = 0 /\ rAvail' = 0
  /\ UNCHANGED <<storage, wpc, data, wUsed, wCount, wDone, rpc, rOffset,
                 rCount, rTake, got, out>>

RingNext ==
  \/ \E d \in ByteStrings : WriteMeasure(d)
  \/ WriteCopy
  \/ WritePublish
  \/ WriteMark
  \/ FreeSpace
  \/ \E offset \in 0 .. Capacity - 1, n \in 1 .. MaxLen, take \in BOOLEAN :
       PeekBegin(offset, n, take)
  \/ PeekCopy
  \/ PeekEnd
  \/ \E n \in 1 .. MaxLen : DiscardBegin(n)
  \/ DiscardEnd
  \/ Available
  \/ Reset

RingSpec == RingInit /\ [][RingNext]_spscVars

-----------------------------------------------------------------------------
RingTypeOK ==
  /\ storage \in [0 .. Capacity - 1 -> Byte]
  /\ writePosition \in 0 .. Modulus - 1
  /\ readPosition \in 0 .. Modulus - 1
  /\ highWater \in 0 .. Capacity
  /\ wpc \in {"idle", "copy", "mark"}
  /\ data \in Seq(Byte)
  /\ wUsed \in 0 .. Capacity
  /\ wCount \in 0 .. Capacity
  /\ wDone \in 0 .. wCount
  /\ wRoom \in 0 .. Capacity
  /\ rpc \in {"idle", "copy", "discard"}
  /\ rOffset \in 0 .. Capacity
  /\ rCount \in 0 .. Capacity
  /\ rTake \in BOOLEAN
  /\ got \in Seq(Byte)
  /\ out \in Seq(Byte)
  /\ rAvail \in 0 .. Capacity

(* Slots the producer is filling, and slots the consumer is reading: the
   memcpy of each side runs without a lock. *)
WriteSlots ==
  IF wpc = "copy"
    THEN {Slot(writePosition + k) : k \in 0 .. wCount - 1} ELSE {}
ReadSlots ==
  IF rpc = "copy"
    THEN {Slot(readPosition + rOffset + k) : k \in 0 .. rCount - 1} ELSE {}

(* The two unlocked copies never touch the same byte of storage_, however
   long each was preempted and wherever the 32-bit counters wrapped. *)
NoSlotRace == WriteSlots \cap ReadSlots = {}

(* What freeSpace() and available() told a side stays true until that side
   itself uses it up: processRead() fetches no more than freeSpace() and
   needs write() to take all of it, processWrite() sends no more than
   available() and needs discard() to drop all of it. *)
RoomIsReal == wRoom <= Capacity - Used
AvailIsReal == rAvail <= Used

(* Between two calls of write() the high-water mark covers the fill level. *)
HighWaterCovers == wpc = "idle" => Used <= highWater

(* The inductive invariant behind the four properties above.  `used` was
   loaded before the step that relies on it: the producer's can only be too
   large by now and the consumer's only too small, because each side is the
   only one to move its own position. *)
ProducerInv ==
  /\ wpc = "copy" => /\ wCount <= Len(data)
                    /\ Used <= wUsed
                    /\ wUsed + wCount <= Capacity
  /\ wpc = "mark" => /\ Used <= wUsed + wCount
                    /\ wUsed + wCount <= Capacity
  /\ wpc # "mark" => Used <= highWater
ConsumerInv ==
  /\ rpc = "copy" => rOffset + rCount <= Used /\ Len(got) <= rCount
  /\ rpc = "discard" => rCount <= Used
RingInv ==
  /\ RingTypeOK
  /\ Used <= Capacity
  /\ ProducerInv
  /\ ConsumerInv
  /\ RoomIsReal
  /\ AvailIsReal

(* The inductive invariant behind the refinement: a call that has begun
   moves at least one byte, the bytes written so far are in their slots, and
   the bytes read so far are still in theirs. *)
CopyInv ==
  /\ wpc = "copy" => /\ wCount >= 1
                    /\ \A k \in 1 .. wDone : storage[Slot(writePosition + k - 1)] = data[k]
  /\ rpc = "copy" => /\ rCount >= 1
                    /\ \A k \in 1 .. Len(got) :
                         got[k] = storage[Slot(readPosition + rOffset + k - 1)]

(* The ring is a bounded byte FIFO: refinement of ByteFifo. *)
Contents == [i \in 1 .. Used |-> storage[Slot(readPosition + i - 1)]]
Fifo == INSTANCE ByteFifo WITH
          Arguments <- ByteStrings, offered <- data, queue <- Contents, seen <- out
RefinesFifo == Fifo!Spec
=============================================================================
