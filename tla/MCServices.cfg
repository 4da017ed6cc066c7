SPECIFICATION Spec
CONSTANTS
  Commands <- AllCommands
  QueueSize = 2
INVARIANTS
  OneBridgeUser
  AnswerMatches
  ApplyOnce
  SessionOutlivesTask
PROPERTIES
  StopEnds
