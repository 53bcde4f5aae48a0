\* Two server actions, three messages, of which two are a thread.
SPECIFICATION Spec
CONSTANTS
  Message = {1, 2, 3}
  Root <- MCRoot
  Mailboxes <- MCMailboxes
  Worker = {w1, w2}
  Change = {"archive", "star", "important", "read", "delete"}
  ChunkSize = 1
  MaxRetries = 1
  MaxOps = 2
  MaxFaults = 1
SYMMETRY Workers
PROPERTY Implements
CHECK_DEADLOCK FALSE
