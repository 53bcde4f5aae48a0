\* Whatever the user does, with every provider, the dialog and the page.
SPECIFICATION Spec
CONSTANTS
  Kinds = {"gmail", "graph", "imap"}
  Surfaces = {"dialog", "page"}
  MaxMails = 2
  MaxEdits = 2
  MaxSends = 2
  MaxFaults = 1
INVARIANT NothingLost
PROPERTY SentOnce SendsSettle
CHECK_DEADLOCK FALSE
