SPECIFICATION Spec
CONSTANTS
  Session = {1, 2}
  RingSize = 2
  Window = 1
  MaxChunks = 2
  MaxClients = 2
  MaxLines = 2
INVARIANT
  CommitAtClientEof
