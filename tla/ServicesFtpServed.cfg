SPECIFICATION Spec
CONSTANTS
  Commands = {"ftpStart", "smbStart"}
  QueueSize = 2
INVARIANTS
  FtpServed
