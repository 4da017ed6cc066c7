SPECIFICATION RingSpec
CONSTANTS
  Capacity = 2
  Modulus = 8
  Byte <- Bits
  MaxLen = 3
INVARIANTS
  NoSlotRace
  RoomIsReal
PROPERTIES
  RefinesFifo
