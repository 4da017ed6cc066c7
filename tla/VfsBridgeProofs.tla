-------------------------- MODULE VfsBridgeProofs --------------------------
(***************************************************************************)
(* Theorems about SpscRing and about VfsBridge, which uses two such rings:  *)
(* for every capacity and counter width, every window size and every bound. *)
(*                                                                         *)
(* The ring: RingInv says what each side has measured is still there,      *)
(* CopyInv that what each side has copied is; with both, every step of the *)
(* ring is one of a queue (ByteFifo).                                      *)
(* The bridge: BridgeInv is inductive: TokenInv says which core owns the    *)
(* Exchange, AnswerInv whose answer it holds, TransferInv that what core 1  *)
(* measured before a transfer is still there, LedgerInv where each byte is. *)
(***************************************************************************)
EXTENDS SpscRing, VfsBridge, SequenceTheorems, TLAPS

-----------------------------------------------------------------------------
(* Remainders.  The quotient is named first, so that each lemma is linear  *)
(* once its products are.                                                  *)

(* A remainder of a division by m lies in 0 .. m - 1. *)
LEMMA ModRange ==
  ASSUME NEW m \in Nat \ {0}, NEW x \in Int
  PROVE  x % m \in 0 .. m - 1
  OBVIOUS

(* An integer whose distance from x is a multiple of m and that lies in
   0 .. m - 1 is the remainder of x. *)
LEMMA ModUnique ==
  ASSUME NEW m \in Nat \ {0}, NEW q \in Int, NEW r \in 0 .. m - 1
  PROVE  (m * q + r) % m = r
  OBVIOUS

(* Every integer is divisor times quotient plus remainder. *)
LEMMA ModQuotient ==
  ASSUME NEW m \in Nat \ {0}, NEW x \in Int
  PROVE  \E q \in Int : x = m * q + (x % m)
<1>1. x \div m \in Int
  OBVIOUS
<1>2. x = m * (x \div m) + (x % m)
  OBVIOUS
<1>3. QED BY <1>1, <1>2

(* Adding a multiple of the divisor keeps the remainder. *)
LEMMA ModShift ==
  ASSUME NEW m \in Nat \ {0}, NEW q \in Int, NEW x \in Int
  PROVE  (x + m * q) % m = x % m
<1>1. PICK p \in Int : x = m * p + (x % m)
  BY ModQuotient
<1>2. x % m \in 0 .. m - 1
  BY ModRange
<1>3. x + m * q = m * (p + q) + (x % m)
  BY <1>1, <1>2
<1>4. p + q \in Int
  OBVIOUS
<1>5. QED BY <1>2, <1>3, <1>4, ModUnique

(* A multiple of m strictly between 0 and m does not exist. *)
LEMMA NoMultipleBetween ==
  ASSUME NEW m \in Nat \ {0}, NEW d \in Int, 0 < m * d
  PROVE  m <= m * d
<1>1. d >= 1
  <2>1. SUFFICES ASSUME d <= 0 PROVE FALSE
    OBVIOUS
  <2>2. m * d <= 0
    BY <2>1
  <2>3. QED BY <2>2
<1>2. QED BY <1>1

(* Two integers less than m apart have different remainders. *)
LEMMA ModDistinct ==
  ASSUME NEW m \in Nat \ {0}, NEW x \in Int, NEW y \in Int,
         0 < x - y, x - y < m
  PROVE  x % m # y % m
<1>1. SUFFICES ASSUME x % m = y % m PROVE FALSE
  OBVIOUS
<1>2. PICK p \in Int : x = m * p + (x % m)
  BY ModQuotient
<1>3. PICK q \in Int : y = m * q + (y % m)
  BY ModQuotient
<1>4. x % m \in Int /\ y % m \in Int
  BY ModRange
<1>5. x - y = m * (p - q)
  <2>1. m * (p - q) = m * p - m * q
    OBVIOUS
  <2>2. QED BY <1>1, <1>2, <1>3, <1>4, <2>1
<1>6. p - q \in Int
  OBVIOUS
<1>7. QED BY <1>5, <1>6, NoMultipleBetween

-----------------------------------------------------------------------------
(* The fill level.                                                         *)

(* Two positions written as quotient and remainder, and their distance. *)
LEMMA Distance ==
  ASSUME NEW M \in Nat \ {0}, NEW a \in Int, NEW b \in Int, NEW z \in Int,
         NEW u \in 0 .. M - 1, z = (M * a - M * b) + u
  PROVE  z % M = u
<1>1. M * a - M * b = M * (a - b)
  OBVIOUS
<1>2. a - b \in Int
  OBVIOUS
<1>3. z = M * (a - b) + u
  BY <1>1
<1>4. QED BY <1>2, <1>3, ModUnique

(* After a write of c bytes that fits, `written - read` has grown by c,
   whether or not the write position wrapped. *)
LEMMA UsedAfterWrite ==
  ASSUME NEW M \in Nat \ {0}, NEW w \in Int, NEW r \in Int, NEW c \in Nat,
         ((w - r) % M) + c \in 0 .. M - 1
  PROVE  (((w + c) % M) - r) % M = ((w - r) % M) + c
<1>1. PICK u : u = (w - r) % M
  OBVIOUS
<1>2. PICK p : p = (w + c) % M
  OBVIOUS
<1>3. u \in 0 .. M - 1 /\ p \in 0 .. M - 1
  BY <1>1, <1>2, ModRange, w - r \in Int, w + c \in Int
<1>4. PICK a \in Int : w - r = M * a + u
  BY <1>1, ModQuotient, w - r \in Int
<1>5. PICK b \in Int : w + c = M * b + p
  BY <1>2, ModQuotient, w + c \in Int
<1>6. u + c \in 0 .. M - 1
  BY <1>1, <1>3
<1>7. p - r = (M * a - M * b) + (u + c)
  <2>1. PICK ma \in Int : ma = M * a
    OBVIOUS
  <2>2. PICK mb \in Int : mb = M * b
    OBVIOUS
  <2>3. w - r = ma + u /\ w + c = mb + p
    BY <1>4, <1>5, <2>1, <2>2
  <2>4. p - r = (ma - mb) + (u + c)
    BY <1>3, <2>3
  <2>5. QED BY <2>1, <2>2, <2>4
<1>8. (p - r) % M = u + c
  <2>1. PICK z \in Int : z = p - r
    BY <1>3
  <2>2. PICK v \in 0 .. M - 1 : v = u + c
    BY <1>6
  <2>3. z = (M * a - M * b) + v
    BY <1>7, <2>1, <2>2
  <2>4. z % M = v
    BY <2>3, Distance
  <2>5. QED BY <2>1, <2>2, <2>4
<1>9. QED BY <1>1, <1>2, <1>8

(* After c of the bytes there are discarded, it has shrunk by c. *)
LEMMA UsedAfterDiscard ==
  ASSUME NEW M \in Nat \ {0}, NEW w \in Int, NEW r \in Int,
         NEW c \in 0 .. (w - r) % M
  PROVE  (w - ((r + c) % M)) % M = ((w - r) % M) - c
<1>1. PICK u : u = (w - r) % M
  OBVIOUS
<1>2. PICK p : p = (r + c) % M
  OBVIOUS
<1>3. u \in 0 .. M - 1 /\ p \in 0 .. M - 1
  BY <1>1, <1>2, ModRange, w - r \in Int, r + c \in Int
<1>4. PICK a \in Int : w - r = M * a + u
  BY <1>1, ModQuotient, w - r \in Int
<1>5. PICK b \in Int : r + c = M * b + p
  BY <1>2, ModQuotient, r + c \in Int
<1>6. u - c \in 0 .. M - 1
  BY <1>1, <1>3
<1>7. PICK d \in Int : d = -b
  OBVIOUS
<1>8. w - p = (M * a - M * d) + (u - c)
  <2>1. PICK ma \in Int : ma = M * a
    OBVIOUS
  <2>2. PICK mb \in Int : mb = M * b
    OBVIOUS
  <2>3. M * d = -mb
    BY <1>7, <2>2
  <2>4. w - r = ma + u /\ r + c = mb + p
    BY <1>4, <1>5, <2>1, <2>2
  <2>5. w - p = (ma + mb) + (u - c)
    BY <1>3, <2>4
  <2>6. QED BY <2>1, <2>3, <2>5
<1>9. (w - p) % M = u - c
  <2>1. PICK z \in Int : z = w - p
    BY <1>3
  <2>2. PICK v \in 0 .. M - 1 : v = u - c
    BY <1>6
  <2>3. z = (M * a - M * d) + v
    BY <1>8, <2>1, <2>2
  <2>4. z % M = v
    BY <2>3, Distance
  <2>5. QED BY <2>1, <2>2, <2>4
<1>10. QED BY <1>1, <1>2, <1>9

(* The slot of the k-th free byte is that of byte u + k counted from the
   read position: the counters wrap at a multiple of the capacity. *)
LEMMA FreeSlot ==
  ASSUME NEW w \in Int, NEW r \in Int, NEW k \in Int
  PROVE  Slot(w + k) = Slot(r + ((w - r) % Modulus) + k)
<1>1. Modulus \in Nat \ {0} /\ Capacity \in Nat \ {0}
  BY RingAssumption
<1>2. PICK u : u = (w - r) % Modulus
  OBVIOUS
<1>3. u \in Int
  BY <1>1, <1>2, ModRange, w - r \in Int
<1>4. PICK a \in Int : w - r = Modulus * a + u
  BY <1>1, <1>2, ModQuotient, w - r \in Int
<1>5. PICK n \in 1 .. Modulus : Modulus = Capacity * n
  BY RingAssumption
<1>6. Modulus * a = Capacity * (n * a) /\ n * a \in Int
  BY <1>1, <1>5
<1>7. PICK c \in Int : c = Capacity * (n * a)
  BY <1>1, <1>6
<1>8. w + k = (r + u + k) + c
  BY <1>3, <1>4, <1>6, <1>7
<1>9. r + u + k \in Int
  BY <1>3
<1>10. ((r + u + k) + c) % Capacity = (r + u + k) % Capacity
  BY <1>1, <1>6, <1>7, <1>9, ModShift
<1>11. QED BY <1>2, <1>8, <1>10 DEF Slot

(* A position always names a slot of the storage. *)
LEMMA SlotInRange ==
  ASSUME NEW p \in Int
  PROVE  Slot(p) \in 0 .. Capacity - 1
  BY ModRange, RingAssumption DEF Slot

-----------------------------------------------------------------------------
(* The invariant.                                                          *)

LEMMA RingConstants ==
  /\ Capacity \in Nat \ {0}
  /\ Modulus \in Nat \ {0}
  /\ Capacity < Modulus
  /\ MaxLen \in Nat \ {0}
  BY RingAssumption

LEMMA UsedType ==
  ASSUME RingTypeOK
  PROVE  Used \in Nat
  BY RingConstants, ModRange, writePosition - readPosition \in Int
     DEF RingTypeOK, Used

LEMMA RingInvInit == RingInit => RingInv
<1> SUFFICES ASSUME RingInit PROVE RingInv
  OBVIOUS
<1>1. Used = 0
  <2>1. (Modulus * 0 + 0) % Modulus = 0
    BY RingConstants, ModUnique
  <2>2. QED BY <2>1, RingConstants DEF RingInit, Used
<1>2. <<>> \in Seq(Byte)
  OBVIOUS
<1>3. data \in Seq(Byte) /\ got \in Seq(Byte) /\ out \in Seq(Byte)
  BY <1>2, Zenon DEF RingInit
<1>4. /\ writePosition = 0 /\ readPosition = 0 /\ highWater = 0 /\ wUsed = 0
      /\ wCount = 0 /\ wDone = 0 /\ rOffset = 0 /\ rCount = 0 /\ wRoom = 0
      /\ rAvail = 0 /\ wpc = "idle" /\ rpc = "idle" /\ rTake = FALSE
      /\ storage \in [0 .. Capacity - 1 -> Byte]
  BY DEF RingInit
<1>5. RingTypeOK
  <2>1. rTake \in BOOLEAN
    BY <1>4, Zenon
  <2>2. QED BY <1>3, <1>4, <2>1, RingConstants DEF RingTypeOK
<1>6. QED
  BY <1>1, <1>5, RingConstants
     DEF RingInit, RingInv, ProducerInv, ConsumerInv, RoomIsReal, AvailIsReal

(* Steps that move no position leave the fill level alone. *)
LEMMA UsedUnchanged ==
  ASSUME UNCHANGED <<writePosition, readPosition>>
  PROVE  Used' = Used
  BY DEF Used

LEMMA RingInvStep == RingInv /\ [RingNext]_spscVars => RingInv'
<1> SUFFICES ASSUME RingInv, [RingNext]_spscVars PROVE RingInv'
  OBVIOUS
<1>u. Used \in Nat
  BY UsedType DEF RingInv
<1>c. Capacity \in Nat \ {0} /\ Modulus \in Nat \ {0} /\ Capacity < Modulus
  BY RingConstants
<1> USE DEF RingInv, ProducerInv, ConsumerInv, RoomIsReal, AvailIsReal,
            producerVars, consumerVars
<1>1. ASSUME NEW d \in ByteStrings, WriteMeasure(d) PROVE RingInv'
  <2>1. Used' = Used
    BY <1>1, UsedUnchanged DEF WriteMeasure
  <2>2. d \in Seq(Byte) /\ Len(d) \in Nat
    BY RingConstants DEF ByteStrings
  <2>3. Accepted(d) \in 0 .. Capacity /\ Accepted(d) <= Len(d)
        /\ Accepted(d) <= Capacity - Used
    BY <1>1, <1>u, <1>c, <2>2 DEF Accepted, Least, WriteMeasure
  <2>4. RingTypeOK'
    BY <1>1, <1>u, <1>c, <2>2, <2>3 DEF WriteMeasure, RingTypeOK
  <2>5. QED
    BY <1>1, <1>u, <1>c, <2>1, <2>3, <2>4 DEF WriteMeasure, RingTypeOK
<1>2. CASE WriteCopy
  <2>1. Used' = Used
    BY <1>2, UsedUnchanged DEF WriteCopy
  <2>2. data[wDone + 1] \in Byte
    BY <1>2 DEF WriteCopy, RingTypeOK
  <2>3. PICK s : s = Slot(writePosition + wDone)
    OBVIOUS
  <2>4. storage' = [storage EXCEPT ![s] = data[wDone + 1]]
    BY <1>2, <2>3 DEF WriteCopy
  <2>5. storage' \in [0 .. Capacity - 1 -> Byte]
    BY <2>2, <2>4 DEF RingTypeOK
  <2>6. RingTypeOK'
    BY <1>2, <2>5 DEF WriteCopy, RingTypeOK
  <2>7. QED BY <1>2, <2>1, <2>6 DEF WriteCopy
<1>3. CASE WritePublish
  <2>1. wCount \in Nat /\ Used + wCount <= Capacity
    BY <1>3, <1>u, <1>c DEF WritePublish, RingTypeOK
  <2>2. Used' = Used + wCount
    <3>1. PICK w, r, c : w = writePosition /\ r = readPosition /\ c = wCount
      OBVIOUS
    <3>2. w \in Int /\ r \in Int /\ c \in Nat
      BY <2>1, <3>1 DEF RingTypeOK
    <3>3. ((w - r) % Modulus) + c \in 0 .. Modulus - 1
      <4>1. Used + wCount \in 0 .. Modulus - 1
        BY <1>u, <1>c, <2>1
      <4> QED BY <3>1, <4>1, Zenon DEF Used
    <3>4. (((w + c) % Modulus) - r) % Modulus = ((w - r) % Modulus) + c
      BY ONLY <1>c, <3>2, <3>3, UsedAfterWrite, Zenon
    <3>5. writePosition' = (w + c) % Modulus /\ readPosition' = r
      BY <1>3, <3>1 DEF WritePublish
    <3>6. QED BY <3>1, <3>4, <3>5, Zenon DEF Used
  <2>3. writePosition' \in 0 .. Modulus - 1
    BY <1>3, <1>c, <2>1, ModRange, writePosition + wCount \in Int
       DEF WritePublish, RingTypeOK
  <2>4. wRoom' \in 0 .. Capacity /\ wRoom' <= Capacity - Used'
    BY <1>3, <1>u, <1>c, <2>1, <2>2 DEF WritePublish, RingTypeOK, Excess
  <2>5. RingTypeOK'
    BY <1>3, <2>3, <2>4 DEF WritePublish, RingTypeOK
  <2>6. QED
    BY <1>3, <1>u, <1>c, <2>1, <2>2, <2>4, <2>5 DEF WritePublish, RingTypeOK
<1>4. CASE WriteMark
  <2>1. Used' = Used
    BY <1>4, UsedUnchanged DEF WriteMark
  <2>2. RingTypeOK'
    BY <1>4, <1>c DEF WriteMark, Mark, RingTypeOK
  <2>3. QED BY <1>4, <1>u, <2>1, <2>2 DEF WriteMark, Mark, RingTypeOK
<1>5. CASE FreeSpace
  <2>1. Used' = Used
    BY <1>5, UsedUnchanged DEF FreeSpace
  <2>2. Room \in 0 .. Capacity /\ Room <= Capacity - Used
    BY <1>u, <1>c DEF Room, Fill, Least
  <2>3. RingTypeOK'
    BY <1>5, <2>2 DEF FreeSpace, RingTypeOK
  <2>4. QED BY <1>5, <2>1, <2>2, <2>3 DEF FreeSpace
<1>6. ASSUME NEW offset \in 0 .. Capacity - 1, NEW n \in 1 .. MaxLen,
             NEW take \in BOOLEAN, PeekBegin(offset, n, take)
      PROVE  RingInv'
  <2>1. Used' = Used
    BY <1>6, UsedUnchanged DEF PeekBegin
  <2>2. /\ rCount' \in 0 .. Capacity
        /\ offset + rCount' <= Used
    BY <1>6, <1>u, <1>c, RingConstants DEF PeekBegin, Fill, Least
  <2>3. RingTypeOK'
    BY <1>6, <1>c, <2>2 DEF PeekBegin, RingTypeOK
  <2>4. QED BY <1>6, <2>1, <2>2, <2>3 DEF PeekBegin
<1>7. CASE PeekCopy
  <2>1. Used' = Used
    BY <1>7, UsedUnchanged DEF PeekCopy
  <2>2. Len(got) \in Nat /\ got \in Seq(Byte)
    BY DEF RingTypeOK
  <2>3. PICK s : s = storage[Slot(readPosition + rOffset + Len(got))]
    OBVIOUS
  <2>4. s \in Byte
    BY <2>2, <2>3, SlotInRange, readPosition + rOffset + Len(got) \in Int
       DEF RingTypeOK
  <2>5. got' = Append(got, s) /\ got' \in Seq(Byte)
        /\ Len(got') = Len(got) + 1
    BY <1>7, <2>2, <2>3, <2>4 DEF PeekCopy
  <2>6. RingTypeOK'
    BY <1>7, <2>5 DEF PeekCopy, RingTypeOK
  <2>7. Len(got') <= rCount
    BY <1>7, <2>2, <2>5 DEF PeekCopy, RingTypeOK
  <2>8. QED BY <1>7, <2>1, <2>6, <2>7 DEF PeekCopy
<1>8. CASE PeekEnd
  <2>1. Used' = Used
    BY <1>8, UsedUnchanged DEF PeekEnd
  <2>2. rCount' \in 0 .. Capacity /\ (rTake => rCount' <= Used)
    BY <1>8, <1>u, <1>c DEF PeekEnd, Fill, Least, RingTypeOK
  <2>3. RingTypeOK'
    BY <1>8, <2>2 DEF PeekEnd, RingTypeOK
  <2>4. QED BY <1>8, <2>1, <2>2, <2>3 DEF PeekEnd
<1>9. ASSUME NEW n \in 1 .. MaxLen, DiscardBegin(n) PROVE RingInv'
  <2>1. Used' = Used
    BY <1>9, UsedUnchanged DEF DiscardBegin
  <2>2. rCount' \in 0 .. Capacity /\ rCount' <= Used
    BY <1>9, <1>u, <1>c, RingConstants DEF DiscardBegin, Fill, Least
  <2>3. RingTypeOK'
    BY <1>9, <2>2 DEF DiscardBegin, RingTypeOK
  <2>4. QED BY <1>9, <2>1, <2>2, <2>3 DEF DiscardBegin
<1>10. CASE DiscardEnd
  <2>1. rCount \in Nat /\ rCount <= Used
    BY <1>10 DEF DiscardEnd, RingTypeOK
  <2>2. Used' = Used - rCount
    <3>1. PICK w, r, c : w = writePosition /\ r = readPosition /\ c = rCount
      OBVIOUS
    <3>2. w \in Int /\ r \in Int /\ c \in Nat
      BY <2>1, <3>1 DEF RingTypeOK
    <3>3. c \in 0 .. (w - r) % Modulus
      <4>1. rCount \in 0 .. Used
        BY <2>1, <1>u
      <4> QED BY <3>1, <4>1, Zenon DEF Used
    <3>4. (w - ((r + c) % Modulus)) % Modulus = ((w - r) % Modulus) - c
      BY ONLY <1>c, <3>2, <3>3, UsedAfterDiscard, Zenon
    <3>5. readPosition' = (r + c) % Modulus /\ writePosition' = w
      BY <1>10, <3>1 DEF DiscardEnd
    <3>6. QED BY <3>1, <3>4, <3>5, Zenon DEF Used
  <2>3. readPosition' \in 0 .. Modulus - 1
    BY <1>10, <1>c, <2>1, ModRange, readPosition + rCount \in Int
       DEF DiscardEnd, RingTypeOK
  <2>4. rAvail' \in 0 .. Capacity /\ rAvail' <= Used'
    BY <1>10, <1>u, <1>c, <2>1, <2>2 DEF DiscardEnd, RingTypeOK, Excess
  <2>5. RingTypeOK'
    BY <1>10, <2>3, <2>4 DEF DiscardEnd, RingTypeOK
  <2>6. QED
    BY <1>10, <1>u, <1>c, <2>1, <2>2, <2>4, <2>5 DEF DiscardEnd, RingTypeOK
<1>11. CASE Available
  <2>1. Used' = Used
    BY <1>11, UsedUnchanged DEF Available
  <2>2. Fill \in 0 .. Capacity /\ Fill <= Used
    BY <1>u, <1>c DEF Fill, Least
  <2>3. RingTypeOK'
    BY <1>11, <2>2 DEF Available, RingTypeOK
  <2>4. QED BY <1>11, <2>1, <2>2, <2>3 DEF Available
<1>12. CASE Reset
  <2>1. Used' = 0
    <3>1. (Modulus * 0 + 0) % Modulus = 0
      BY <1>c, ModUnique
    <3>2. QED BY <1>12, <1>c, <3>1 DEF Reset, Used
  <2>2. RingTypeOK'
    BY <1>12, <1>c DEF Reset, RingTypeOK
  <2>3. QED BY <1>12, <1>c, <2>1, <2>2 DEF Reset
<1>13. CASE UNCHANGED spscVars
  <2>1. Used' = Used
    BY <1>13, UsedUnchanged DEF spscVars
  <2>2. RingTypeOK'
    BY <1>13 DEF spscVars, RingTypeOK
  <2>3. QED BY <1>13, <2>1, <2>2 DEF spscVars
<1>14. QED
  BY <1>1, <1>2, <1>3, <1>4, <1>5, <1>6, <1>7, <1>8, <1>9, <1>10, <1>11,
     <1>12, <1>13 DEF RingNext

(* A byte being copied in and a byte being copied out are different bytes. *)
LEMMA RingInvNoRace == RingInv => NoSlotRace
<1> SUFFICES ASSUME RingInv, wpc = "copy", rpc = "copy",
                    NEW i \in 0 .. wCount - 1, NEW j \in 0 .. rCount - 1,
                    Slot(writePosition + i) = Slot(readPosition + rOffset + j)
             PROVE  FALSE
  BY DEF NoSlotRace, WriteSlots, ReadSlots
<1>1. /\ writePosition \in Int /\ readPosition \in Int /\ rOffset \in Nat
      /\ wCount \in Nat /\ rCount \in Nat /\ wUsed \in Nat /\ Used \in Nat
      /\ Capacity \in Nat \ {0}
  BY UsedType, RingConstants DEF RingInv, RingTypeOK
<1>2. PICK x \in Int : x = readPosition + Used + i
  BY <1>1
<1>3. PICK y \in Int : y = readPosition + rOffset + j
  BY <1>1
<1>4. Slot(writePosition + i) = Slot(x)
  <2>1. i \in Int
    OBVIOUS
  <2>2. Slot(writePosition + i) = Slot(readPosition + Used + i)
    BY <1>1, <2>1, FreeSlot, Zenon DEF Used
  <2>3. QED BY <1>2, <2>2
<1>5. 0 < x - y /\ x - y < Capacity
  BY <1>1, <1>2, <1>3 DEF RingInv, ProducerInv, ConsumerInv
<1>6. x % Capacity # y % Capacity
  BY <1>1, <1>5, ModDistinct
<1>7. QED BY <1>3, <1>4, <1>6 DEF Slot

-----------------------------------------------------------------------------
(* Types of SpscByteRing's state: the counters stay inside 32 bits and every
   count inside the capacity. *)
THEOREM RingTypes == RingSpec => []RingTypeOK
<1>1. RingInv => RingTypeOK
  BY DEF RingInv
<1>2. QED BY <1>1, RingInvInit, RingInvStep, PTL DEF RingSpec

(* write() and peekAt() never touch the same byte of storage_ at once. *)
THEOREM RingNoSlotRace == RingSpec => []NoSlotRace
  BY RingInvInit, RingInvStep, RingInvNoRace, PTL DEF RingSpec

(* freeSpace() stays a lower bound for the producer, available() for the
   consumer, and the high-water mark an upper bound between writes. *)
THEOREM RingPromises == RingSpec => [](RoomIsReal /\ AvailIsReal /\ HighWaterCovers)
<1>1. RingInv => RoomIsReal /\ AvailIsReal /\ HighWaterCovers
  BY DEF RingInv, ProducerInv, HighWaterCovers
<1>2. QED BY <1>1, RingInvInit, RingInvStep, PTL DEF RingSpec

-----------------------------------------------------------------------------
(* The ring is a FIFO.                                                     *)

(* Two bytes of a ring less than its capacity apart have slots of their own. *)
LEMMA SlotsApart ==
  ASSUME NEW x \in Int, NEW y \in Int, 0 < x - y, x - y < Capacity
  PROVE  Slot(x) # Slot(y)
  BY ModDistinct, RingConstants DEF Slot

(* The slot of the k-th byte from a position does not see it wrap. *)
LEMMA SlotWraps ==
  ASSUME NEW p \in Int, NEW k \in Int
  PROVE  Slot((p % Modulus) + k) = Slot(p + k)
<1>1. Slot(p + k) = Slot(0 + ((p - 0) % Modulus) + k)
  <2>1. 0 \in Int
    OBVIOUS
  <2> QED BY <2>1, FreeSlot, Zenon
<1>2. p % Modulus \in Int
  BY ModRange, RingConstants
<1> QED BY <1>1, <1>2

(* A byte that is or has been copied is less than a capacity before the next
   free one. *)
LEMMA ByteBefore ==
  ASSUME NEW p \in Int, NEW u \in Nat, NEW d \in Nat, u + d < Capacity,
         NEW k \in 1 .. d
  PROVE  0 < (p + d) - (p + k - 1) /\ (p + d) - (p + k - 1) < Capacity
  BY RingConstants

LEMMA ByteBehind ==
  ASSUME NEW p \in Int, NEW u \in Nat, NEW d \in Nat, u + d < Capacity,
         NEW k \in 1 .. u
  PROVE  0 < (p + u + d) - (p + k - 1) /\ (p + u + d) - (p + k - 1) < Capacity
  BY RingConstants

(* The numbers of a state. *)
LEMMA RingNumbers ==
  ASSUME RingInv
  PROVE  /\ writePosition \in Int /\ readPosition \in Int
         /\ Used \in Nat /\ Used <= Capacity /\ Capacity \in Nat \ {0}
         /\ wCount \in Nat /\ wDone \in Nat /\ wDone <= wCount
         /\ rOffset \in Nat /\ rCount \in Nat /\ Len(got) \in Nat
         /\ storage \in [0 .. Capacity - 1 -> Byte]
         /\ data \in Seq(Byte) /\ got \in Seq(Byte)
  BY UsedType, RingConstants DEF RingInv, RingTypeOK

LEMMA ContentsFacts ==
  ASSUME RingInv
  PROVE  /\ Contents \in Seq(Byte) /\ Len(Contents) = Used
         /\ \A i \in 1 .. Used : Contents[i] = storage[Slot(readPosition + i - 1)]
<1>1. \A i \in 1 .. Used : storage[Slot(readPosition + i - 1)] \in Byte
  <2>1. TAKE i \in 1 .. Used
  <2>2. readPosition + i - 1 \in Int
    BY RingNumbers
  <2>3. Slot(readPosition + i - 1) \in 0 .. Capacity - 1
    BY <2>2, SlotInRange
  <2> QED BY <2>3, RingNumbers
<1>2. Contents \in [1 .. Used -> Byte]
  BY <1>1, Zenon DEF Contents
<1>3. Used \in Nat
  BY RingNumbers
<1>4. Contents \in Seq(Byte) /\ Len(Contents) = Used
  <2> HIDE DEF Contents
  <2> QED BY <1>2, <1>3
<1>5. \A i \in 1 .. Used : Contents[i] = storage[Slot(readPosition + i - 1)]
  BY Zenon DEF Contents
<1> QED BY <1>4, <1>5

LEMMA ContentsUnchanged ==
  ASSUME UNCHANGED <<writePosition, readPosition, storage>>
  PROVE  Contents' = Contents
<1>1. Used' = Used
  BY UsedUnchanged
<1> QED BY <1>1 DEF Contents, Slot

(* write() copies into free slots: neither what is in the ring, nor what
   this call has copied, nor what the other core has copied out changes. *)
LEMMA CopyInFree ==
  ASSUME RingInv, CopyInv, WriteCopy
  PROVE  CopyInv' /\ Contents' = Contents
<1> DEFINE s == Slot(writePosition + wDone)
<1>1. /\ wpc = "copy" /\ wDone < wCount /\ wDone' = wDone + 1
      /\ storage' = [storage EXCEPT ![s] = data[wDone + 1]]
      /\ wpc' = "copy" /\ wCount' = wCount /\ data' = data
      /\ writePosition' = writePosition /\ readPosition' = readPosition
      /\ rpc' = rpc /\ rCount' = rCount /\ got' = got /\ rOffset' = rOffset
  BY DEF WriteCopy, consumerVars
<1>2. wCount <= Capacity /\ wDone <= Capacity - Used /\ Used + wDone < Capacity
  <2>1. /\ Used <= wUsed /\ wUsed + wCount <= Capacity /\ wDone < wCount
        /\ wUsed \in 0 .. Capacity
    BY <1>1, Zenon DEF RingInv, RingTypeOK, ProducerInv
  <2> QED BY ONLY <2>1, RingInv, RingNumbers
<1>3. s \in 0 .. Capacity - 1
  <2>1. writePosition + wDone \in Int
    BY RingNumbers
  <2> QED BY <2>1, SlotInRange, Zenon
<1> HIDE DEF s
<1>4. storage'[s] = data[wDone + 1]
  BY <1>1, <1>3, RingNumbers
<1>5. ASSUME NEW p \in Int, Slot(p) # s PROVE storage'[Slot(p)] = storage[Slot(p)]
  <2>1. Slot(p) \in 0 .. Capacity - 1
    BY SlotInRange
  <2> QED BY <1>1, <1>5, <2>1, RingNumbers, Zenon
<1>6. ASSUME NEW k \in 1 .. wDone PROVE Slot(writePosition + k - 1) # s
  <2>1. 0 < (writePosition + wDone) - (writePosition + k - 1)
        /\ (writePosition + wDone) - (writePosition + k - 1) < Capacity
    BY <1>2, RingNumbers, ByteBefore, Zenon
  <2>2. writePosition + wDone \in Int /\ writePosition + k - 1 \in Int
    BY RingNumbers
  <2> QED BY <2>1, <2>2, SlotsApart DEF s
<1>7. ASSUME rpc = "copy", NEW k \in 1 .. Len(got)
      PROVE  Slot(readPosition + rOffset + k - 1) # s
  <2>1. k - 1 \in 0 .. rCount - 1 /\ wDone \in 0 .. wCount - 1
    <3>1. Len(got) <= rCount
      BY <1>7, Zenon DEF RingInv, ConsumerInv
    <3>2. Len(got) \in Nat /\ rCount \in Nat /\ wDone \in Nat /\ wCount \in Nat
      BY RingNumbers, Zenon
    <3>3. k - 1 \in 0 .. rCount - 1
      BY ONLY <3>1, <3>2, k \in 1 .. Len(got)
    <3>4. wDone < wCount
      BY <1>1, Zenon
    <3>5. wDone \in 0 .. wCount - 1
      BY ONLY <3>2, <3>4
    <3> QED BY <3>3, <3>5
  <2>2. readPosition + rOffset + k - 1 = readPosition + rOffset + (k - 1)
    BY RingNumbers
  <2>3. Slot(readPosition + rOffset + (k - 1)) \in ReadSlots
    BY <1>7, <2>1, Zenon DEF ReadSlots
  <2>4. s \in WriteSlots
    BY <1>1, <2>1, Zenon DEF WriteSlots, s
  <2> QED BY <2>2, <2>3, <2>4, RingInvNoRace DEF NoSlotRace
<1>8. ASSUME NEW i \in 1 .. Used PROVE Slot(readPosition + i - 1) # s
  <2>1. s = Slot(readPosition + Used + wDone)
    <3>1. writePosition \in Int /\ readPosition \in Int /\ wDone \in Int
      BY RingNumbers
    <3> QED BY <3>1, FreeSlot, Zenon DEF Used, s
  <2>2. 0 < (readPosition + Used + wDone) - (readPosition + i - 1)
        /\ (readPosition + Used + wDone) - (readPosition + i - 1) < Capacity
    BY <1>2, RingNumbers, ByteBehind, Zenon
  <2>3. readPosition + Used + wDone \in Int /\ readPosition + i - 1 \in Int
    BY RingNumbers
  <2> QED BY <2>1, <2>2, <2>3, SlotsApart
<1>9. Contents' = Contents
  <2>1. Used' = Used
    BY <1>1, UsedUnchanged
  <2>2. \A i \in 1 .. Used : storage'[Slot(readPosition + i - 1)] = storage[Slot(readPosition + i - 1)]
    <3>1. TAKE i \in 1 .. Used
    <3>2. readPosition + i - 1 \in Int
      BY RingNumbers
    <3> QED BY <1>5, <1>8, <3>2
  <2> QED BY <1>1, <2>1, <2>2, Zenon DEF Contents, Slot
<1>10. ASSUME NEW k \in 1 .. wDone + 1
       PROVE  storage'[Slot(writePosition + k - 1)] = data[k]
  <2>1. CASE k = wDone + 1
    <3>1. writePosition + k - 1 = writePosition + wDone
      BY <2>1, RingNumbers
    <3> QED BY <1>4, <2>1, <3>1 DEF s
  <2>2. CASE k # wDone + 1
    <3>1. k \in 1 .. wDone /\ writePosition + k - 1 \in Int
      BY <2>2, RingNumbers
    <3>2. storage[Slot(writePosition + k - 1)] = data[k]
      BY <1>1, <3>1 DEF CopyInv
    <3> QED BY <1>5, <1>6, <3>1, <3>2
  <2> QED BY <2>1, <2>2
<1>11. ASSUME rpc = "copy", NEW k \in 1 .. Len(got)
       PROVE  got[k] = storage'[Slot(readPosition + rOffset + k - 1)]
  <2>1. readPosition + rOffset + k - 1 \in Int
    BY RingNumbers
  <2>2. got[k] = storage[Slot(readPosition + rOffset + k - 1)]
    BY <1>11 DEF CopyInv
  <2> QED BY <1>5, <1>7, <1>11, <2>1, <2>2
<1>12. CopyInv'
  <2>1. wpc' = "copy" => wCount' >= 1 /\ \A k \in 1 .. wDone' : storage'[Slot(writePosition' + k - 1)] = data'[k]
    BY <1>1, <1>10 DEF CopyInv
  <2>2. rpc' = "copy" => rCount' >= 1 /\ \A k \in 1 .. Len(got') :
                           got'[k] = storage'[Slot(readPosition' + rOffset' + k - 1)]
    BY <1>1, <1>11 DEF CopyInv
  <2> QED BY <2>1, <2>2, Zenon DEF CopyInv, Slot
<1> QED BY <1>9, <1>12

(* Every other step that leaves the copies alone keeps CopyInv. *)
LEMMA CopyElsewhere ==
  ASSUME CopyInv, storage' = storage,
         \/ wpc' # "copy"
         \/ wpc = "copy" /\ UNCHANGED <<writePosition, data, wCount, wDone>>,
         \/ rpc' # "copy"
         \/ rpc = "copy" /\ UNCHANGED <<readPosition, rOffset, rCount, got>>
  PROVE  CopyInv'
<1>1. wpc' = "copy" => wCount' >= 1 /\ \A k \in 1 .. wDone' : storage'[Slot(writePosition' + k - 1)] = data'[k]
  BY DEF CopyInv
<1>2. rpc' = "copy" => rCount' >= 1 /\ \A k \in 1 .. Len(got') :
                         got'[k] = storage'[Slot(readPosition' + rOffset' + k - 1)]
  BY DEF CopyInv
<1> QED BY <1>1, <1>2, Zenon DEF CopyInv, Slot

LEMMA CopyInvStep == RingInv /\ CopyInv /\ [RingNext]_spscVars => CopyInv'
<1> SUFFICES ASSUME RingInv, CopyInv, [RingNext]_spscVars PROVE CopyInv'
  OBVIOUS
<1>1. ASSUME NEW d \in ByteStrings, WriteMeasure(d) PROVE CopyInv'
  <2>1. /\ wpc' = "copy" /\ wDone' = 0 /\ wCount' = Accepted(d) /\ Used < Capacity
        /\ storage' = storage /\ UNCHANGED <<readPosition, rpc, rOffset, rCount, got>>
    BY <1>1 DEF WriteMeasure, consumerVars
  <2>2. Len(d) \in Nat /\ Len(d) >= 1
    BY RingConstants DEF ByteStrings
  <2>3. wCount' >= 1
    BY <2>1, <2>2, RingNumbers DEF Accepted, Least
  <2>4. \A k \in 1 .. wDone' : storage'[Slot(writePosition' + k - 1)] = data'[k]
    BY <2>1
  <2>5. rpc' = "copy" => rCount' >= 1 /\ \A k \in 1 .. Len(got') :
                           got'[k] = storage'[Slot(readPosition' + rOffset' + k - 1)]
    BY <2>1 DEF CopyInv
  <2> QED BY <2>3, <2>4, <2>5, Zenon DEF CopyInv, Slot
<1>2. CASE WriteCopy
  BY <1>2, CopyInFree
<1>3. CASE WritePublish \/ WriteMark \/ FreeSpace
  <2>1. /\ storage' = storage /\ UNCHANGED <<readPosition, rpc, rOffset, rCount, got>>
        /\ wpc' # "copy"
    BY <1>3 DEF WritePublish, WriteMark, FreeSpace, consumerVars
  <2> QED BY <2>1, CopyElsewhere
<1>4. ASSUME NEW offset \in 0 .. Capacity - 1, NEW n \in 1 .. MaxLen, NEW take \in BOOLEAN,
             PeekBegin(offset, n, take)
      PROVE  CopyInv'
  <2>1. /\ rpc' = "copy" /\ got' = <<>> /\ rCount' = Least(n, Fill - offset) /\ offset < Fill
        /\ storage' = storage /\ UNCHANGED <<writePosition, wpc, data, wCount, wDone>>
    BY <1>4 DEF PeekBegin, producerVars
  <2>2. Fill \in Nat
    BY RingNumbers DEF Fill, Least
  <2>3. rCount' >= 1
    BY <2>1, <2>2, RingConstants DEF Least
  <2>4. Len(got') = 0
    BY <2>1
  <2>5. wpc' = "copy" => wCount' >= 1 /\ \A k \in 1 .. wDone' : storage'[Slot(writePosition' + k - 1)] = data'[k]
    BY <2>1 DEF CopyInv
  <2>6. \A k \in 1 .. Len(got') : got'[k] = storage'[Slot(readPosition' + rOffset' + k - 1)]
    BY <2>4
  <2> QED BY <2>3, <2>5, <2>6, Zenon DEF CopyInv, Slot
<1>5. CASE PeekCopy
  <2> DEFINE e == storage[Slot(readPosition + rOffset + Len(got))]
  <2>1. /\ rpc = "copy" /\ got' = Append(got, e) /\ storage' = storage
        /\ UNCHANGED <<writePosition, wpc, data, wCount, wDone, readPosition, rpc, rOffset, rCount>>
    BY <1>5 DEF PeekCopy, producerVars
  <2>2. e \in Byte
    <3>1. readPosition + rOffset + Len(got) \in Int
      BY RingNumbers
    <3> QED BY <3>1, SlotInRange, RingNumbers
  <2> HIDE DEF e
  <2>3. /\ Len(got') = Len(got) + 1 /\ got'[Len(got) + 1] = e
        /\ \A k \in 1 .. Len(got) : got'[k] = got[k]
    BY <2>1, <2>2, RingNumbers, AppendProperties
  <2>4. ASSUME NEW k \in 1 .. Len(got')
        PROVE  got'[k] = storage[Slot(readPosition + rOffset + k - 1)]
    <3>1. CASE k = Len(got) + 1
      <4>1. readPosition + rOffset + k - 1 = readPosition + rOffset + Len(got)
        BY <3>1, RingNumbers
      <4> QED BY <2>3, <3>1, <4>1 DEF e
    <3>2. CASE k # Len(got) + 1
      <4>1. k \in 1 .. Len(got)
        BY <2>3, <3>2, RingNumbers
      <4> QED BY <2>1, <2>3, <4>1 DEF CopyInv
    <3> QED BY <3>1, <3>2
  <2>5. wpc' = "copy" => wCount' >= 1 /\ \A k \in 1 .. wDone' : storage'[Slot(writePosition' + k - 1)] = data'[k]
    BY <2>1 DEF CopyInv
  <2>6. rCount' >= 1 /\ \A k \in 1 .. Len(got') :
          got'[k] = storage'[Slot(readPosition' + rOffset' + k - 1)]
    BY <2>1, <2>4 DEF CopyInv
  <2> QED BY <2>5, <2>6, Zenon DEF CopyInv, Slot
<1>6. CASE PeekEnd \/ DiscardEnd \/ Available \/ \E n \in 1 .. MaxLen : DiscardBegin(n)
  <2>1. /\ storage' = storage /\ UNCHANGED <<writePosition, wpc, data, wCount, wDone>>
        /\ rpc' # "copy"
    BY <1>6 DEF PeekEnd, DiscardEnd, Available, DiscardBegin, producerVars
  <2> QED BY <2>1, CopyElsewhere
<1>7. CASE Reset \/ UNCHANGED spscVars
  <2>1. CASE Reset
    <3>1. storage' = storage /\ wpc' # "copy" /\ rpc' # "copy"
      BY <2>1 DEF Reset
    <3> QED BY <3>1, CopyElsewhere
  <2>2. CASE UNCHANGED spscVars
    <3>1. /\ storage' = storage /\ UNCHANGED <<writePosition, wpc, data, wCount, wDone>>
          /\ UNCHANGED <<readPosition, rpc, rOffset, rCount, got>>
      BY <2>2 DEF spscVars, producerVars, consumerVars
    <3> QED BY <3>1, CopyElsewhere DEF CopyInv
  <2> QED BY <1>7, <2>1, <2>2
<1> QED BY <1>1, <1>2, <1>3, <1>4, <1>5, <1>6, <1>7 DEF RingNext

(* A part of a byte string. *)
LEMMA PartOf ==
  ASSUME NEW s \in Seq(Byte), NEW a \in Nat \ {0}, NEW b \in Nat, b <= Len(s), a <= b + 1
  PROVE  /\ SubSeq(s, a, b) \in Seq(Byte) /\ Len(SubSeq(s, a, b)) = b - a + 1
         /\ \A i \in 1 .. b - a + 1 : SubSeq(s, a, b)[i] = s[a + i - 1]
<1>1. \A i \in a .. b : s[i] \in Byte
  OBVIOUS
<1>2. a \in Int /\ b \in Int
  OBVIOUS
<1> QED BY <1>1, <1>2, SubSeqProperties

(* What each step of the ring is to the FIFO. *)

(* The store of the write position: the bytes copied join the queue. *)
LEMMA PublishPuts ==
  ASSUME RingInv, CopyInv, WritePublish
  PROVE  Fifo!Put
<1>1. /\ wpc = "copy" /\ wDone = wCount /\ data' = data /\ out' = out
      /\ storage' = storage /\ readPosition' = readPosition
      /\ writePosition' = (writePosition + wCount) % Modulus
  BY DEF WritePublish, consumerVars
<1>2. wCount \in 1 .. Len(data) /\ Used + wCount <= Capacity
  <2>1. /\ wCount <= Len(data) /\ Used <= wUsed /\ wUsed + wCount <= Capacity
        /\ wCount >= 1 /\ wUsed \in 0 .. Capacity
    BY <1>1, Zenon DEF RingInv, RingTypeOK, ProducerInv, CopyInv
  <2> QED BY ONLY <2>1, RingInv, RingNumbers
<1>3. Used' = Used + wCount
  <2>1. ((writePosition - readPosition) % Modulus) + wCount \in 0 .. Modulus - 1
    <3>1. Used + wCount \in 0 .. Modulus - 1
      BY <1>2, RingNumbers, RingConstants
    <3> QED BY <3>1, Zenon DEF Used
  <2>2. Modulus \in Nat \ {0} /\ writePosition \in Int /\ readPosition \in Int /\ wCount \in Nat
    BY RingConstants, RingNumbers
  <2>3. (((writePosition + wCount) % Modulus) - readPosition) % Modulus
          = ((writePosition - readPosition) % Modulus) + wCount
    BY ONLY <2>1, <2>2, UsedAfterWrite, Zenon
  <2> QED BY <1>1, <2>3, Zenon DEF Used
<1> DEFINE part == SubSeq(data, 1, wCount)
<1>4. part \in Seq(Byte) /\ Len(part) = wCount /\ \A k \in 1 .. wCount : part[k] = data[k]
  <2>1. /\ 1 \in Nat \ {0} /\ wCount \in Nat /\ wCount <= Len(data) /\ 1 <= wCount + 1
        /\ wCount - 1 + 1 = wCount /\ data \in Seq(Byte)
    BY <1>2, RingNumbers
  <2>2. /\ part \in Seq(Byte) /\ Len(part) = wCount - 1 + 1
        /\ \A k \in 1 .. wCount - 1 + 1 : part[k] = data[1 + k - 1]
    BY <2>1, PartOf, Zenon
  <2> HIDE DEF part
  <2>3. \A k \in 1 .. wCount : 1 + k - 1 = k
    OBVIOUS
  <2> QED BY <2>1, <2>2, <2>3, Zenon
<1> HIDE DEF part
<1>5. /\ Contents \o part \in Seq(Byte) /\ Len(Contents \o part) = Used + wCount
      /\ \A i \in 1 .. Used + wCount :
           (Contents \o part)[i] = IF i <= Used THEN Contents[i] ELSE part[i - Used]
  <2>1. /\ Contents \o part \in Seq(Byte) /\ Len(Contents \o part) = Len(Contents) + Len(part)
        /\ \A i \in 1 .. Len(Contents) + Len(part) :
             (Contents \o part)[i] = IF i <= Len(Contents) THEN Contents[i] ELSE part[i - Len(Contents)]
    BY <1>4, ContentsFacts, ConcatProperties, Zenon
  <2> QED BY <1>4, <2>1, ContentsFacts, Zenon
<1>6. ASSUME NEW i \in 1 .. Used + wCount
      PROVE  (Contents \o part)[i] = storage[Slot(readPosition + i - 1)]
  <2>1. CASE i <= Used
    <3>1. i \in 1 .. Used
      BY <2>1, RingNumbers
    <3> QED BY <1>5, <2>1, <3>1, ContentsFacts
  <2>2. CASE ~(i <= Used)
    <3>1. i - Used \in 1 .. wCount
      BY <2>2, RingNumbers
    <3>2. part[i - Used] = storage[Slot(writePosition + (i - Used) - 1)]
      BY <1>1, <1>4, <3>1 DEF CopyInv
    <3>3. Slot(writePosition + (i - Used - 1)) = Slot(readPosition + Used + (i - Used - 1))
      <4>1. writePosition \in Int /\ readPosition \in Int /\ i - Used - 1 \in Int
        BY RingNumbers
      <4> QED BY <4>1, FreeSlot, Zenon DEF Used
    <3>4. /\ writePosition + (i - Used) - 1 = writePosition + (i - Used - 1)
          /\ readPosition + i - 1 = readPosition + Used + (i - Used - 1)
      BY RingNumbers
    <3>5. part[i - Used] = storage[Slot(readPosition + i - 1)]
      BY <3>2, <3>3, <3>4, Zenon
    <3> QED BY <1>5, <2>2, <3>5, Zenon
  <2> QED BY <2>1, <2>2, Zenon
<1>7. Contents' = Contents \o part
  <2>1. RingInv'
    BY RingInvStep DEF RingNext
  <2>2. /\ Contents' \in Seq(Byte) /\ Len(Contents') = Used'
        /\ \A i \in 1 .. Used' : Contents'[i] = storage'[Slot(readPosition' + i - 1)]
    <3>1. (Contents \in Seq(Byte))' /\ (Len(Contents) = Used)'
          /\ (\A i \in 1 .. Used : Contents[i] = storage[Slot(readPosition + i - 1)])'
      BY <2>1, ContentsFacts, PTL
    <3> QED BY <3>1, Zenon DEF Slot
  <2>3. \A i \in 1 .. Used + wCount : Contents'[i] = (Contents \o part)[i]
    BY <1>1, <1>3, <1>6, <2>2, Zenon
  <2>4. Len(Contents') = Len(Contents \o part)
    BY <1>3, <1>5, <2>2, Zenon
  <2> QED BY <1>3, <1>5, <2>2, <2>3, <2>4, SeqEqual, Zenon
<1>8. Len(Contents) + wCount <= Capacity
  BY <1>2, ContentsFacts
<1> QED BY <1>1, <1>2, <1>7, <1>8, Zenon DEF Fifo!Put, part

(* A peek returns: consecutive bytes of the queue, which stay in it. *)
LEMMA PeekLooks ==
  ASSUME RingInv, CopyInv, PeekEnd
  PROVE  Fifo!Look
<1>1. /\ rpc = "copy" /\ Len(got) = rCount /\ out' = got /\ data' = data
      /\ UNCHANGED <<writePosition, readPosition, storage>>
  BY DEF PeekEnd, producerVars
<1>2. /\ rCount \in 1 .. Used - rOffset /\ rOffset \in 0 .. Used - 1
      /\ rOffset + rCount <= Used
  BY <1>1, RingNumbers DEF RingInv, ConsumerInv, CopyInv
<1> DEFINE part == SubSeq(Contents, rOffset + 1, rOffset + rCount)
<1>3. /\ part \in Seq(Byte) /\ Len(part) = rCount
      /\ \A i \in 1 .. rCount : part[i] = Contents[rOffset + 1 + i - 1]
  <2>1. /\ rOffset + 1 \in Nat \ {0} /\ rOffset + rCount \in Nat
        /\ rOffset + rCount <= Len(Contents) /\ rOffset + 1 <= (rOffset + rCount) + 1
        /\ (rOffset + rCount) - (rOffset + 1) + 1 = rCount
    BY <1>2, RingNumbers, ContentsFacts
  <2>2. /\ part \in Seq(Byte) /\ Len(part) = (rOffset + rCount) - (rOffset + 1) + 1
        /\ \A i \in 1 .. (rOffset + rCount) - (rOffset + 1) + 1 :
             part[i] = Contents[rOffset + 1 + i - 1]
    BY <2>1, ContentsFacts, PartOf, Zenon
  <2> HIDE DEF part
  <2> QED BY <2>1, <2>2, Zenon
<1> HIDE DEF part
<1>4. \A i \in 1 .. rCount : got[i] = part[i]
  <2>1. TAKE i \in 1 .. rCount
  <2>2. rOffset + i \in 1 .. Used
    BY <1>2, RingNumbers
  <2>3. /\ rOffset + 1 + i - 1 = rOffset + i
        /\ readPosition + (rOffset + i) - 1 = readPosition + rOffset + i - 1
    BY RingNumbers
  <2>4. part[i] = storage[Slot(readPosition + rOffset + i - 1)]
    BY <1>3, <2>2, <2>3, ContentsFacts, Zenon
  <2> QED BY <1>1, <2>4 DEF CopyInv
<1>5. got = part
  BY <1>1, <1>3, <1>4, RingNumbers, SeqEqual, Zenon
<1>6. Contents' = Contents
  BY <1>1, ContentsUnchanged
<1>7. /\ rOffset \in 0 .. Len(Contents) - 1 /\ rCount \in 1 .. Len(Contents) - rOffset
  BY <1>2, ContentsFacts
<1> QED BY <1>1, <1>5, <1>6, <1>7, Zenon DEF Fifo!Look, part

(* The store of the read position: bytes leave the queue at its front. *)
LEMMA DiscardDrops ==
  ASSUME RingInv, DiscardEnd
  PROVE  Fifo!Drop \/ (Contents' = Contents /\ data' = data /\ out' = out)
<1>1. /\ rpc = "discard" /\ data' = data /\ out' = out
      /\ storage' = storage /\ writePosition' = writePosition
      /\ readPosition' = (readPosition + rCount) % Modulus
  BY DEF DiscardEnd, producerVars
<1>2. rCount \in 0 .. Used
  BY <1>1, RingNumbers DEF RingInv, ConsumerInv
<1>3. Used' = Used - rCount
  <2>1. Modulus \in Nat \ {0} /\ writePosition \in Int /\ readPosition \in Int /\ rCount \in Nat
        /\ rCount \in 0 .. (writePosition - readPosition) % Modulus
    BY <1>2, RingConstants, RingNumbers, Zenon DEF Used
  <2>2. (writePosition - ((readPosition + rCount) % Modulus)) % Modulus
          = ((writePosition - readPosition) % Modulus) - rCount
    BY ONLY <2>1, UsedAfterDiscard, Zenon
  <2> QED BY <1>1, <2>2, Zenon DEF Used
<1>4. CASE rCount = 0
  <2>1. readPosition' = readPosition
    <3>1. readPosition \in 0 .. Modulus - 1
      BY Zenon DEF RingInv, RingTypeOK
    <3> QED BY ONLY <1>1, <1>4, <3>1, RingConstants
  <2> QED BY <1>1, <2>1, ContentsUnchanged
<1>5. CASE rCount # 0
  <2> DEFINE rest == SubSeq(Contents, rCount + 1, Len(Contents))
  <2>1. /\ rest \in Seq(Byte) /\ Len(rest) = Used - rCount
        /\ \A i \in 1 .. Used - rCount : rest[i] = Contents[rCount + i]
    <3>1. /\ rCount + 1 \in Nat \ {0} /\ Len(Contents) \in Nat /\ Len(Contents) <= Len(Contents)
          /\ rCount + 1 <= Len(Contents) + 1 /\ Len(Contents) - (rCount + 1) + 1 = Used - rCount
      BY <1>2, RingNumbers, ContentsFacts
    <3>2. /\ rest \in Seq(Byte) /\ Len(rest) = Len(Contents) - (rCount + 1) + 1
          /\ \A i \in 1 .. Len(Contents) - (rCount + 1) + 1 :
               rest[i] = Contents[rCount + 1 + i - 1]
      BY <3>1, ContentsFacts, PartOf, Zenon
    <3> HIDE DEF rest
    <3>3. \A i \in 1 .. Used - rCount : rCount + 1 + i - 1 = rCount + i
      BY <1>2, RingNumbers
    <3> QED BY <3>1, <3>2, <3>3, Zenon
  <2> HIDE DEF rest
  <2>2. ASSUME NEW i \in 1 .. Used - rCount
        PROVE  Contents[rCount + i] = storage[Slot(readPosition' + i - 1)]
    <3>1. rCount + i \in 1 .. Used
      BY <1>2, RingNumbers
    <3>2. Slot(((readPosition + rCount) % Modulus) + (i - 1)) = Slot((readPosition + rCount) + (i - 1))
      <4>1. readPosition + rCount \in Int /\ i - 1 \in Int
        BY RingNumbers
      <4> QED BY <4>1, SlotWraps, Zenon
    <3>3. readPosition' \in Int
      BY <1>1, ModRange, RingNumbers, RingConstants, readPosition + rCount \in Int
    <3>4. /\ readPosition' + i - 1 = readPosition' + (i - 1)
          /\ readPosition + (rCount + i) - 1 = (readPosition + rCount) + (i - 1)
      BY <3>3, RingNumbers
    <3> QED BY <1>1, <3>1, <3>2, <3>4, ContentsFacts, Zenon
  <2>3. Contents' = rest
    <3>1. RingInv'
      BY RingInvStep DEF RingNext
    <3>2. /\ Contents' \in Seq(Byte) /\ Len(Contents') = Used'
          /\ \A i \in 1 .. Used' : Contents'[i] = storage'[Slot(readPosition' + i - 1)]
      <4>1. (Contents \in Seq(Byte))' /\ (Len(Contents) = Used)'
            /\ (\A i \in 1 .. Used : Contents[i] = storage[Slot(readPosition + i - 1)])'
        BY <3>1, ContentsFacts, PTL
      <4> QED BY <4>1, Zenon DEF Slot
    <3>3. \A i \in 1 .. Used - rCount : Contents'[i] = rest[i]
      BY <1>1, <1>3, <2>1, <2>2, <3>2, Zenon
    <3>4. Len(Contents') = Len(rest)
      BY <1>3, <2>1, <3>2, Zenon
    <3> QED BY <1>3, <2>1, <3>2, <3>3, <3>4, SeqEqual, Zenon
  <2>4. rCount \in 1 .. Len(Contents)
    BY <1>2, <1>5, ContentsFacts
  <2> QED BY <1>1, <2>3, <2>4, Zenon DEF Fifo!Drop, rest
<1> QED BY <1>4, <1>5

(* A ring without bytes is the empty queue. *)
LEMMA NothingUsed ==
  ASSUME Used = 0
  PROVE  Contents = <<>>
  BY DEF Contents

LEMMA FifoStep == RingInv /\ CopyInv /\ [RingNext]_spscVars => [Fifo!Next]_(Fifo!fifoVars)
<1> SUFFICES ASSUME RingInv, CopyInv, [RingNext]_spscVars
             PROVE  Fifo!Next \/ (Contents' = Contents /\ data' = data /\ out' = out)
  BY DEF Fifo!fifoVars
<1>1. ASSUME NEW d \in ByteStrings, WriteMeasure(d) PROVE Fifo!Offer
  <2>1. data' = d /\ out' = out /\ UNCHANGED <<writePosition, readPosition, storage>>
    BY <1>1 DEF WriteMeasure, consumerVars
  <2> QED BY <2>1, ContentsUnchanged DEF Fifo!Offer
<1>2. CASE WriteCopy
  <2>1. data' = data /\ out' = out
    BY <1>2 DEF WriteCopy, consumerVars
  <2> QED BY <1>2, <2>1, CopyInFree
<1>3. CASE WritePublish
  BY <1>3, PublishPuts DEF Fifo!Next
<1>4. CASE WriteMark \/ FreeSpace
  <2>1. data' = data /\ out' = out /\ UNCHANGED <<writePosition, readPosition, storage>>
    BY <1>4 DEF WriteMark, FreeSpace, consumerVars
  <2> QED BY <2>1, ContentsUnchanged
<1>5. CASE PeekEnd
  BY <1>5, PeekLooks DEF Fifo!Next
<1>6. ASSUME NEW offset \in 0 .. Capacity - 1, NEW n \in 1 .. MaxLen, NEW take \in BOOLEAN,
             PeekBegin(offset, n, take)
      PROVE  Contents' = Contents /\ data' = data /\ out' = out
  <2>1. data' = data /\ out' = out /\ UNCHANGED <<writePosition, readPosition, storage>>
    BY <1>6 DEF PeekBegin, producerVars
  <2> QED BY <2>1, ContentsUnchanged
<1>7. CASE PeekCopy \/ Available \/ \E n \in 1 .. MaxLen : DiscardBegin(n)
  <2>1. data' = data /\ out' = out /\ UNCHANGED <<writePosition, readPosition, storage>>
    <3>1. CASE PeekCopy
      BY <3>1 DEF PeekCopy, producerVars
    <3>2. CASE Available
      BY <3>2 DEF Available, producerVars
    <3>3. CASE \E n \in 1 .. MaxLen : DiscardBegin(n)
      BY <3>3 DEF DiscardBegin, producerVars
    <3> QED BY <1>7, <3>1, <3>2, <3>3
  <2> QED BY <2>1, ContentsUnchanged
<1>8. CASE DiscardEnd
  BY <1>8, DiscardDrops DEF Fifo!Next
<1>9. CASE Reset
  <2>1. data' = data /\ out' = out /\ writePosition' = 0 /\ readPosition' = 0
    BY <1>9 DEF Reset
  <2>2. Used' = 0
    <3>1. (Modulus * 0 + 0) % Modulus = 0
      BY RingConstants, ModUnique
    <3> QED BY <2>1, <3>1, RingConstants DEF Used
  <2>3. Contents' = <<>>
    BY <2>2 DEF Contents
  <2> QED BY <2>1, <2>3 DEF Fifo!Next, Fifo!Clear
<1>10. CASE UNCHANGED spscVars
  <2>1. data' = data /\ out' = out /\ UNCHANGED <<writePosition, readPosition, storage>>
    BY <1>10 DEF spscVars, producerVars, consumerVars
  <2> QED BY <2>1, ContentsUnchanged
<1> QED
  BY <1>1, <1>2, <1>3, <1>4, <1>5, <1>6, <1>7, <1>8, <1>9, <1>10, Zenon DEF RingNext, Fifo!Next

(* SpscByteRing keeps the promise of a queue: write() appends a prefix of its
   argument when it publishes its position, peekAt() returns consecutive
   bytes of it, discard() drops from its front, though bytes are copied one
   by one beside the other core, in slots that both cores reuse. *)
THEOREM RingIsFifo == RingSpec => RefinesFifo
<1>1. RingInit => Fifo!Init
  <2> SUFFICES ASSUME RingInit PROVE Fifo!Init
    OBVIOUS
  <2>1. Used = 0
    <3>1. (Modulus * 0 + 0) % Modulus = 0
      BY RingConstants, ModUnique
    <3> QED BY <3>1, RingConstants DEF RingInit, Used
  <2> QED BY <2>1, NothingUsed DEF RingInit, Fifo!Init
<1>2. RingInit => CopyInv
  BY DEF RingInit, CopyInv
<1> QED
  BY <1>1, <1>2, RingInvInit, RingInvStep, CopyInvStep, FifoStep, PTL
     DEF RingSpec, RefinesFifo, Fifo!Spec

-----------------------------------------------------------------------------
(* The bridge.                                                             *)

(* The smaller of two naturals is one of them and no larger than either. *)
LEMMA SmallerFacts ==
  ASSUME NEW a \in Nat, NEW b \in Nat
  PROVE  /\ Smaller(a, b) \in Nat
         /\ Smaller(a, b) <= a /\ Smaller(a, b) <= b
         /\ Smaller(a, b) = 0 => a = 0 \/ b = 0
  BY DEF Smaller

(* The results the record may hold, and what finish() leaves there. *)
LEMMA ResultType ==
  ASSUME NEW id \in {0, 1}, NEW ok \in BOOLEAN, NEW wrote \in BOOLEAN
  PROVE  [id |-> id, ok |-> ok, wrote |-> wrote] \in Results
  BY DEF Results

LEMMA FinishFacts ==
  ASSUME TypeOK, NEW ok \in BOOLEAN, Finish(ok)
  PROVE  /\ core1' = "post" /\ left' = 0
         /\ result' \in Results
         /\ result'.id = request.id
         /\ result'.ok = ok /\ result'.wrote = writeSession
  <1>1. request.id \in {0, 1} /\ writeSession \in BOOLEAN
    BY DEF TypeOK, FileOK
  <1>2. result' = [id |-> request.id, ok |-> ok, wrote |-> writeSession]
    BY DEF Finish
  <1> QED
    BY <1>1, <1>2, ResultType DEF Finish

LEMMA FinishConstant ==
  ASSUME TypeOK, Finish(TRUE) \/ Finish(FALSE)
  PROVE  /\ core1' = "post" /\ left' = 0
         /\ result' \in Results
         /\ result'.id = request.id
  <1>1. TRUE \in BOOLEAN /\ FALSE \in BOOLEAN
    OBVIOUS
  <1>2. CASE Finish(TRUE)
    BY <1>1, <1>2, FinishFacts, Zenon
  <1>3. CASE Finish(FALSE)
    BY <1>1, <1>3, FinishFacts, Zenon
  <1> QED
    BY <1>2, <1>3

(* All of it but the account of the bytes. *)
MoveInv == TypeOK /\ TokenInv /\ AnswerInv /\ TransferInv

(* begin(): empty rings, no request, no token. *)
LEMMA InitInv == Init => BridgeInv
  <1> SUFFICES ASSUME Init PROVE BridgeInv
    OBVIOUS
  <1>1. result \in Results
    BY ResultType DEF Init
  <1>2. request \in [op : Operations, value : 0 .. MaxValue, id : {0, 1}]
    BY BridgeAssumption DEF Init, Operations
  <1>3. FileOK
    BY DEF Init, FileOK
  <1>4. requestPending \in BOOLEAN
    BY DEF Init
  <1>5. /\ core0 = "free" /\ core1 = "idle"
        /\ requestQueue = 0 /\ responseQueue = 0
        /\ ingress = 0 /\ egress = 0
        /\ left = 0 /\ accepted = 0 /\ stored = 0
    BY DEF Init
  <1>6. TypeOK
    BY <1>1, <1>2, <1>3, <1>4, <1>5, BridgeAssumption DEF TypeOK
  <1>7. TokenInv /\ AnswerInv /\ TransferInv /\ LedgerInv
    BY <1>5 DEF TokenInv, AnswerInv, TransferInv, LedgerInv
  <1> QED
    BY <1>6, <1>7 DEF BridgeInv

(* Every step of core 0 keeps the invariant: it writes the record only when no
   token is out, and feeds or drains a ring only as core 1 can afford. *)
LEMMA Core0Inv == ASSUME MoveInv, Core0Step PROVE MoveInv'
  <1>1. UNCHANGED core1Vars
    BY DEF Core0Step, Submit, SubmitSend, TakeToken, TakeCopy, Feed, Drain
  <1>2. FileOK'
    BY <1>1 DEF MoveInv, TypeOK, FileOK, core1Vars, fileVars
  <1> USE BridgeAssumption, <1>1, <1>2
      DEF MoveInv, TypeOK, TokenInv, AnswerInv, TransferInv,
          core1Vars, exchangeVars, ringVars
  <1>3. ASSUME NEW op \in Operations, NEW value \in Values(op),
               Submit(op, value)
        PROVE  MoveInv'
    <2>1. value \in 0 .. MaxValue
      BY DEF Values
    <2>2. request' \in [op : Operations, value : 0 .. MaxValue, id : {0, 1}]
      BY <1>3, <2>1 DEF Submit
    <2>3. /\ core0 = "free" /\ core0' = "filled" /\ ~requestPending
          /\ UNCHANGED <<ringVars, requestPending, requestQueue,
                         responseQueue>>
      BY <1>3 DEF Submit
    <2>4. core1 = "idle" /\ requestQueue = 0 /\ responseQueue = 0
      BY <2>3
    <2> QED
      BY <2>2, <2>3, <2>4
  <1>4. CASE SubmitSend
    <2>1. requestQueue = 0
      BY <1>4 DEF SubmitSend
    <2> QED
      BY <1>4, <2>1 DEF SubmitSend
  <1>5. CASE TakeToken
    BY <1>5 DEF TakeToken
  <1>6. CASE TakeCopy
    BY <1>6 DEF TakeCopy
  <1>7. ASSUME NEW n \in 1 .. RingBytes, Feed(n) PROVE MoveInv'
    BY <1>7 DEF Feed, MayFeed
  <1>8. ASSUME NEW n \in 1 .. RingBytes, Drain(n) PROVE MoveInv'
    BY <1>8 DEF Drain
  <1> QED
    BY <1>3, <1>4, <1>5, <1>6, <1>7, <1>8 DEF Core0Step

(* VfsClient's flags stay flags. *)
LEMMA FileStep == ASSUME TypeOK, Core1Step PROVE FileOK'
  <1> USE DEF TypeOK, FileOK, fileVars, Finish
  <1>1. CASE OpenRead
    BY <1>1 DEF OpenRead
  <1>2. CASE OpenForWrite
    <2>1. openMode' \in {"none", "read", "write", "random"}
      BY <1>2 DEF OpenForWrite
    <2>2. /\ capable' \in BOOLEAN
          /\ writeFailed' = FALSE
          /\ writeActive' = (request.op = "openWrite") \/ writeActive' = FALSE
          /\ writeSession' \in BOOLEAN
      BY <1>2 DEF OpenForWrite
    <2> QED
      BY <2>1, <2>2
  <1>3. CASE WriteWindow
    <2>1. UNCHANGED <<openMode, capable, writeActive, writeSession>>
      BY <1>3 DEF WriteWindow
    <2>2. \/ UNCHANGED writeFailed
          \/ writeFailed' = (writeFailed \/ FailureSticks)
      BY <1>3 DEF WriteWindow
    <2> QED
      BY <2>1, <2>2
  <1>4. CASE Extend
    <2>1. UNCHANGED <<openMode, capable, writeActive, writeSession>>
      BY <1>4 DEF Extend
    <2>2. UNCHANGED writeFailed \/ \E ok \in BOOLEAN : writeFailed' = ~ok
      BY <1>4 DEF Extend
    <2> QED
      BY <2>1, <2>2
  <1>5. CASE CloseCommit
    BY <1>5 DEF CloseCommit, CloseFile
  <1>6. CASE CloseAbort
    BY <1>6 DEF CloseAbort, CloseFile
  <1>7. CASE \/ Receive \/ Post \/ ResetBuffers \/ ReadBegin \/ ReadFrame
             \/ ReadEnd \/ WriteBegin \/ OtherOperation
    BY <1>7 DEF Receive, Post, ResetBuffers, ReadBegin, ReadFrame, ReadEnd,
                WriteBegin, OtherOperation
  <1> QED
    BY <1>1, <1>2, <1>3, <1>4, <1>5, <1>6, <1>7 DEF Core1Step

(* Every step of core 1 keeps it: the owner of the token answers the request
   it was given, and moves no byte it has not measured. *)
LEMMA Core1Inv == ASSUME MoveInv, Core1Step PROVE MoveInv'
  <1>1. FileOK'
    BY FileStep DEF MoveInv
  <1> USE BridgeAssumption, <1>1
      DEF MoveInv, TypeOK, TokenInv, AnswerInv, TransferInv,
          core1Vars, exchangeVars, ringVars, Running
  <1>2. CASE Receive
    BY <1>2 DEF Receive
  <1>3. CASE Post
    BY <1>3 DEF Post
  <1>4. CASE ResetBuffers
    <2>1. Finish(TRUE) /\ core1 = "run" /\ request.op = "reset"
      BY <1>4 DEF ResetBuffers
    <2>2. /\ ingress' = 0 /\ egress' = 0 /\ accepted' = stored
          /\ UNCHANGED <<exchangeVars, stored>>
      BY <1>4 DEF ResetBuffers
    <2> QED
      BY <2>1, <2>2, FinishConstant
  <1>5. CASE OpenRead
    <2>1. PICK ok \in BOOLEAN : Finish(ok)
      BY <1>5 DEF OpenRead
    <2>2. /\ core1 = "run" /\ request.op = "openRead"
          /\ UNCHANGED <<exchangeVars, ringVars, stored>>
      BY <1>5 DEF OpenRead
    <2> QED
      BY <2>1, <2>2, FinishFacts
  <1>6. CASE OpenForWrite
    <2>1. PICK ok \in BOOLEAN : Finish(ok)
      BY <1>6 DEF OpenForWrite
    <2>2. \/ stored' = 0 /\ accepted' = ingress
          \/ UNCHANGED <<stored, accepted>>
      BY <1>6 DEF OpenForWrite
    <2>3. /\ core1 = "run" /\ request.op # "commit"
          /\ UNCHANGED <<exchangeVars, ingress, egress>>
      BY <1>6 DEF OpenForWrite
    <2> QED
      BY <2>1, <2>2, <2>3, FinishFacts
  <1>7. CASE ReadBegin
    <2> DEFINE size == ReadSize(request.value)
    <2>1. size \in Nat /\ size <= RingBytes - egress
      BY SmallerFacts DEF ReadSize, Smaller
    <2>2. /\ core1 = "run" /\ request.op = "read"
          /\ UNCHANGED <<exchangeVars, ringVars, stored>>
      BY <1>7 DEF ReadBegin
    <2>3. \/ \E ok \in BOOLEAN : Finish(ok)
          \/ core1' = "frames" /\ left' = size /\ UNCHANGED result
      BY <1>7 DEF ReadBegin
    <2> HIDE DEF size
    <2> QED
      BY <2>1, <2>2, <2>3, FinishFacts
  <1>8. CASE ReadFrame
    <2>1. PICK part \in 1 .. left :
            IF egress + part <= RingBytes
              THEN /\ egress' = egress + part
                   /\ left' = left - part
                   /\ UNCHANGED <<core1, result>>
              ELSE /\ egress' = RingBytes
                   /\ Finish(FALSE)
      BY <1>8 DEF ReadFrame
    <2>2. /\ core1 = "frames"
          /\ UNCHANGED <<exchangeVars, ingress, accepted, stored>>
      BY <1>8 DEF ReadFrame
    <2>3. egress + part <= RingBytes
      BY <2>1, <2>2
    <2> QED
      BY <2>1, <2>2, <2>3
  <1>9. CASE ReadEnd
    BY <1>9, FinishFacts DEF ReadEnd
  <1>10. CASE WriteBegin
    <2> DEFINE size == WriteSize(request.value)
    <2>1. size \in Nat /\ size <= ingress
      <3>1. request.value \in Nat /\ ingress \in Nat
        OBVIOUS
      <3> QED
        BY <3>1, SmallerFacts DEF WriteSize
    <2>2. /\ core1 = "run" /\ request.op = "write"
          /\ UNCHANGED <<exchangeVars, ringVars, stored>>
      BY <1>10 DEF WriteBegin
    <2>3. \/ \E ok \in BOOLEAN : Finish(ok)
          \/ size # 0 /\ core1' = "windows" /\ left' = size /\ UNCHANGED result
      BY <1>10 DEF WriteBegin
    <2> HIDE DEF size
    <2> QED
      BY <2>1, <2>2, <2>3, FinishFacts
  <1>11. CASE WriteWindow
    <2> DEFINE size == Smaller(left, Window)
    <2>1. size \in Nat /\ size <= left
      BY SmallerFacts
    <2>2. /\ core1 = "windows"
          /\ UNCHANGED <<exchangeVars, egress, accepted>>
      BY <1>11 DEF WriteWindow
    <2>3. \/ /\ ingress' = ingress - size
             /\ stored' = stored + size
             /\ \/ Finish(TRUE)
                \/ left' = left - size /\ left # size /\ UNCHANGED <<core1, result>>
          \/ /\ Finish(FALSE) /\ UNCHANGED ingress
             /\ UNCHANGED stored \/ stored' = stored + size
      BY <1>11 DEF WriteWindow
    <2>4. request.op = "write" /\ left # 0 /\ left <= ingress
      BY <2>2
    <2> HIDE DEF size
    <2>5. CASE ingress' = ingress - size /\ stored' = stored + size
                 /\ Finish(TRUE)
      BY <2>1, <2>2, <2>4, <2>5, FinishConstant
    <2>6. CASE /\ ingress' = ingress - size /\ stored' = stored + size
               /\ left' = left - size /\ left # size /\ UNCHANGED <<core1, result>>
      BY <2>1, <2>2, <2>4, <2>6
    <2>7. CASE /\ Finish(FALSE) /\ UNCHANGED ingress
               /\ UNCHANGED stored \/ stored' = stored + size
      BY <2>1, <2>2, <2>4, <2>7, FinishConstant
    <2> QED
      BY <2>3, <2>5, <2>6, <2>7
  <1>12. CASE Extend
    <2>1. PICK ok \in BOOLEAN : Finish(ok)
      BY <1>12 DEF Extend
    <2>2. /\ core1 = "run" /\ request.op = "extend"
          /\ UNCHANGED <<exchangeVars, ringVars, stored>>
      BY <1>12 DEF Extend
    <2> QED
      BY <2>1, <2>2, FinishFacts
  <1>13. CASE CloseCommit
    <2>1. PICK ok \in BOOLEAN : Finish(ok)
      BY <1>13 DEF CloseCommit, CloseFile
    <2>2. /\ core1 = "run" /\ request.op = "commit"
          /\ UNCHANGED <<exchangeVars, ringVars, stored>>
      BY <1>13 DEF CloseCommit
    <2> QED
      BY <2>1, <2>2, FinishFacts
  <1>14. CASE CloseAbort
    <2>1. PICK ok \in BOOLEAN : Finish(ok)
      BY <1>14 DEF CloseAbort, CloseFile
    <2>2. /\ core1 = "run" /\ request.op = "abort"
          /\ ingress' = 0 /\ accepted' = stored
          /\ UNCHANGED <<exchangeVars, egress, stored>>
      BY <1>14 DEF CloseAbort
    <2> QED
      BY <2>1, <2>2, FinishFacts
  <1>15. CASE OtherOperation
    BY <1>15, FinishFacts DEF OtherOperation
  <1> QED
    BY <1>2, <1>3, <1>4, <1>5, <1>6, <1>7, <1>8, <1>9, <1>10, <1>11,
       <1>12, <1>13, <1>14, <1>15 DEF Core1Step

(* The account of the bytes, when a step moves none and ends no commit. *)
LEMMA SameLedger ==
  ASSUME LedgerInv,
         UNCHANGED <<ingress, accepted, stored, writeFailed, writeSession>>,
         core1' = "post" => request'.op # "commit"
  PROVE  LedgerInv'
  BY Zenon DEF LedgerInv

(* Core 0 only puts bytes into the ring, and none while a commit ends. *)
LEMMA Core0Ledger == ASSUME BridgeInv, Core0Step PROVE LedgerInv'
  <1>1. UNCHANGED <<core1, stored, writeFailed, writeSession>>
    BY DEF Core0Step, Submit, SubmitSend, TakeToken, TakeCopy, Feed, Drain,
           core1Vars, fileVars
  <1>2. MoveInv /\ LedgerInv
    BY Zenon DEF BridgeInv, MoveInv
  <1>3. CASE \/ \E op \in Operations : \E value \in Values(op) : Submit(op, value)
             \/ SubmitSend \/ TakeToken \/ TakeCopy
    <2>1. UNCHANGED <<ingress, accepted>>
      BY <1>3, Zenon DEF Submit, SubmitSend, TakeToken, TakeCopy, ringVars
    <2>2. core1 # "post"
      BY <1>2, <1>3 DEF MoveInv, TokenInv, Submit, SubmitSend, TakeToken, TakeCopy
    <2> QED
      BY <1>1, <1>2, <2>1, <2>2, SameLedger, Zenon
  <1>4. ASSUME NEW n \in 1 .. RingBytes, Feed(n) PROVE LedgerInv'
    <2>1. /\ ingress' = ingress + n /\ accepted' = accepted + n
          /\ request' = request /\ result' = result
          /\ ~(core1 = "post" /\ request.op = "commit")
      BY <1>1, <1>2, <1>4
         DEF Feed, MayFeed, MoveInv, TypeOK, TokenInv, core1Vars, exchangeVars
    <2>2. /\ ingress \in Nat /\ accepted \in Nat /\ stored \in Nat /\ n \in Nat
          /\ n # 0
      BY <1>2, BridgeAssumption DEF MoveInv, TypeOK
    <2>3. /\ accepted = stored + ingress => accepted' = stored + ingress'
          /\ ingress' # 0
      BY <2>1, <2>2
    <2> QED
      BY <1>1, <1>2, <2>1, <2>3, Zenon DEF LedgerInv
  <1>5. ASSUME NEW n \in 1 .. RingBytes, Drain(n) PROVE LedgerInv'
    BY <1>1, <1>2, <1>5, Zenon DEF Drain, LedgerInv, core1Vars, exchangeVars
  <1> QED
    BY <1>3, <1>4, <1>5, Zenon DEF Core0Step

(* Core 1 takes from the ring what it has stored; a window of which it cannot
   say so fails for good. *)
LEMMA Core1Ledger == ASSUME BridgeInv, Core1Step PROVE LedgerInv'
  <1>1. /\ MoveInv /\ LedgerInv /\ TypeOK
        /\ ingress \in Nat /\ accepted \in Nat /\ stored \in Nat /\ left \in Nat
    BY BridgeAssumption DEF BridgeInv, MoveInv, TypeOK
  <1>2. writeActive \in BOOLEAN /\ writeFailed \in BOOLEAN /\ writeSession \in BOOLEAN
    BY <1>1 DEF TypeOK, FileOK
  <1>3. CASE Receive \/ Post
    BY <1>1, <1>3, SameLedger DEF Receive, Post, ringVars, fileVars
  <1>4. CASE \/ OpenRead /\ writeSession' = writeSession
             \/ ReadBegin \/ ReadFrame \/ ReadEnd \/ WriteBegin \/ OtherOperation
    <2>1. UNCHANGED <<ingress, accepted, stored, writeFailed, writeSession>>
      BY <1>4 DEF OpenRead, ReadBegin, ReadFrame, ReadEnd, WriteBegin,
                  OtherOperation, ringVars, fileVars
    <2>2. request'.op = request.op
      BY <1>4 DEF OpenRead, ReadBegin, ReadFrame, ReadEnd, WriteBegin,
                  OtherOperation, exchangeVars
    <2>3. request.op # "commit"
      BY <1>1, <1>4 DEF OpenRead, ReadBegin, ReadFrame, ReadEnd, WriteBegin,
                  OtherOperation, Running, MoveInv, TransferInv
    <2> QED
      BY <1>1, <2>1, <2>2, <2>3, SameLedger, Zenon
  <1>5. CASE ResetBuffers
    <2>1. /\ ingress' = 0 /\ accepted' = stored /\ stored' = stored
          /\ request' = request /\ request.op # "commit"
      BY <1>5 DEF ResetBuffers, Running, exchangeVars
    <2>2. accepted' = stored' + ingress'
      BY <1>1, <2>1
    <2> QED
      BY <2>1, <2>2, Zenon DEF LedgerInv
  <1>6. CASE OpenRead /\ writeSession' = FALSE
    <2>1. request' = request /\ request.op # "commit"
      BY <1>6 DEF OpenRead, Running, exchangeVars
    <2> QED
      BY <1>6, <2>1, Zenon DEF LedgerInv
  <1>7. CASE OpenForWrite
    <2>1. request' = request /\ request.op # "commit" /\ ingress' = ingress
      BY <1>7 DEF OpenForWrite, exchangeVars
    <2>2. \/ stored' = 0 /\ accepted' = ingress
          \/ writeSession' = FALSE
      BY <1>7 DEF OpenForWrite
    <2>3. stored' = 0 /\ accepted' = ingress => accepted' = stored' + ingress'
      BY <1>1, <2>1
    <2> QED
      BY <2>1, <2>2, <2>3, Zenon DEF LedgerInv
  <1>8. CASE WriteWindow
    <2> DEFINE size == Smaller(left, Window)
    <2>1. size \in Nat /\ size <= left /\ left # 0 /\ left <= ingress
      BY <1>1, <1>8, SmallerFacts, BridgeAssumption
         DEF WriteWindow, MoveInv, TransferInv
    <2>2. /\ request' = request /\ request.op = "write" /\ accepted' = accepted
          /\ writeSession' = writeSession
      BY <1>1, <1>8 DEF WriteWindow, MoveInv, TransferInv, exchangeVars
    <2>3. request'.op # "commit"
      BY <2>2
    <2>4. CanSend => ~writeFailed /\ FailureSticks
      BY <1>2 DEF CanSend, FailureSticks, Random
    <2>5. CASE /\ CanSend /\ ingress' = ingress - size /\ stored' = stored + size
      <3>1. accepted = stored + ingress => accepted' = stored' + ingress'
        BY <1>1, <2>1, <2>2, <2>5
      <3> QED
        BY <1>1, <2>2, <2>3, <2>4, <2>5, <3>1, Zenon DEF LedgerInv
    <2>6. CASE /\ writeFailed' = (writeFailed \/ FailureSticks)
               /\ ingress' = ingress /\ stored' = stored
      BY <1>1, <2>2, <2>3, <2>6, Zenon DEF LedgerInv
    <2>7. CASE /\ writeFailed' = (writeFailed \/ FailureSticks)
               /\ ingress' = ingress /\ CanSend
      <3>1. ingress' # 0
        BY <1>1, <2>1, <2>7
      <3> QED
        BY <2>2, <2>3, <2>4, <2>7, <3>1, Zenon DEF LedgerInv
    <2> QED
      BY <1>8, <2>5, <2>6, <2>7, Zenon DEF WriteWindow
  <1>9. CASE Extend
    <2>1. /\ UNCHANGED <<ingress, accepted, stored, writeSession>>
          /\ request' = request /\ request.op # "commit"
          /\ ~writeFailed \/ writeFailed' = writeFailed
      BY <1>9 DEF Extend, Running, exchangeVars, ringVars
    <2>2. ~writeFailed \/ writeFailed'
      BY <1>2, <2>1, Zenon
    <2>3. request'.op # "commit"
      BY <2>1, Zenon
    <2>4. writeSession' => \/ accepted' = stored' + ingress'
                           \/ writeFailed /\ ingress' # 0
      BY <1>1, <2>1, Zenon DEF LedgerInv
    <2> QED
      BY <2>2, <2>3, <2>4, Zenon DEF LedgerInv
  <1>10. CASE CloseCommit
    <2>1. UNCHANGED <<ingress, accepted, stored>>
      BY <1>10, Zenon DEF CloseCommit, ringVars
    <2>2. PICK ok \in BOOLEAN : Finish(ok)
      BY <1>10 DEF CloseCommit, CloseFile
    <2>3. result'.ok = ok /\ result'.wrote = writeSession
      BY <1>1, <2>2, FinishFacts, Zenon
    <2>4. CASE writeSession /\ ingress # 0
      <3>1. Finish(FALSE) /\ writeFailed' = writeFailed /\ writeSession' = writeSession
        BY <1>10, <2>4, Zenon DEF CloseCommit, fileVars
      <3>2. FALSE \in BOOLEAN
        OBVIOUS
      <3>3. result'.ok = FALSE
        BY <1>1, <3>1, <3>2, FinishFacts, Zenon
      <3> QED
        BY <1>1, <2>1, <3>1, <3>3, Zenon DEF LedgerInv
    <2>5. CASE ~(writeSession /\ ingress # 0)
      <3>1. writeSession' = FALSE
        BY <1>10, <2>5, Zenon DEF CloseCommit, CloseFile
      <3>2. writeSession => accepted = stored + ingress /\ ingress = 0
        BY <1>1, <2>5, Zenon DEF LedgerInv
      <3>3. writeSession => stored = accepted
        BY <1>1, <3>2
      <3> QED
        BY <2>1, <2>3, <3>1, <3>3, Zenon DEF LedgerInv
    <2> QED
      BY <2>4, <2>5, Zenon
  <1>11. CASE CloseAbort
    <2>1. writeSession' = FALSE /\ request' = request /\ request.op # "commit"
      BY <1>11 DEF CloseAbort, CloseFile, Running, exchangeVars
    <2> QED
      BY <2>1, Zenon DEF LedgerInv
  <1>12. OpenRead => writeSession' = writeSession \/ writeSession' = FALSE
    BY Zenon DEF OpenRead
  <1> QED
    BY <1>3, <1>4, <1>5, <1>6, <1>7, <1>8, <1>9, <1>10, <1>11, <1>12, Zenon
       DEF Core1Step

(* A step that changes nothing keeps it. *)
LEMMA StutterInv == ASSUME BridgeInv, UNCHANGED vars PROVE BridgeInv'
  BY DEF BridgeInv, TypeOK, FileOK, TokenInv, AnswerInv, TransferInv,
         LedgerInv, vars, core1Vars, fileVars, exchangeVars, ringVars

(* The invariant of the bridge, and what it is made of: types, owner of the
   token, owner of the answer, bytes measured, bytes accounted for. *)
THEOREM BridgeInvariant == Spec => []BridgeInv
  <1>1. BridgeInv /\ [Next]_vars => BridgeInv'
    <2> SUFFICES ASSUME BridgeInv, Core0Step \/ Core1Step PROVE BridgeInv'
      BY StutterInv, Zenon DEF Next
    <2>1. MoveInv'
      BY Core0Inv, Core1Inv, Zenon DEF BridgeInv, MoveInv
    <2>2. LedgerInv'
      BY Core0Ledger, Core1Ledger, Zenon
    <2> QED
      BY <2>1, <2>2, Zenon DEF BridgeInv, MoveInv
  <1> QED
    BY InitInv, <1>1, PTL DEF Spec

(* submit*(), pollCore1() and takeResult() keep every variable in its range:
   in particular both rings stay within their capacity. *)
THEOREM BridgeTypes == Spec => []TypeOK
  <1>1. BridgeInv => TypeOK
    BY DEF BridgeInv
  <1> QED
    BY BridgeInvariant, <1>1, PTL

(* The two cores never have the Exchange at the same time, and a token never
   meets a full queue (submit*() 92-224 against pollCore1() 548-558). *)
THEOREM BridgeOwned == Spec => []ExchangeOwned
  <1>1. BridgeInv => ExchangeOwned
    BY DEF BridgeInv, TypeOK, TokenInv, ExchangeOwned
  <1> QED
    BY BridgeInvariant, <1>1, PTL

(* takeResult() and reclaim() return the answer to the last request sent. *)
THEOREM BridgeAnswers == Spec => []AnswerMatches
  <1>1. BridgeInv => AnswerMatches
    BY DEF BridgeInv, AnswerInv, AnswerMatches
  <1> QED
    BY BridgeInvariant, <1>1, PTL

(* processRead() never overfills the ring and processWrite() never meets its
   "ingress-race": what core 1 measured is still true when it moves bytes. *)
THEOREM BridgeMeasures == Spec => [](ReadFits /\ IngressHolds)
  <1>1. BridgeInv => ReadFits /\ IngressHolds
    BY DEF BridgeInv, TransferInv, ReadFits, IngressHolds
  <1> QED
    BY BridgeInvariant, <1>1, PTL

(* A successful kCloseCommit of a write session has stored every byte the ring
   accepted for it. *)
THEOREM BridgeCommits == Spec => []CommitIsWhole
  <1>1. BridgeInv => CommitIsWhole
    BY DEF BridgeInv, TypeOK, LedgerInv, CommitIsWhole
  <1> QED
    BY BridgeInvariant, <1>1, PTL
=============================================================================
