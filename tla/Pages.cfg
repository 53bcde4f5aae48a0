\* One reader of each kind, every kind of listing.
SPECIFICATION Spec
CONSTANTS
  c1 = c1
  c2 = c2
  Conn = {c1, c2}
  Active = c1
  View = {"folder", "all", "poll"}
  Listing = {"gmail", "graph", "imap", "search", "gmailDrafts", "graphDrafts", "imapDrafts"}
  MaxStart = 3
  MaxUid = 4
  PageSize = 1
  PollSize = 2
  MaxChanges = 2
  MaxFaults = 1
INVARIANT WalkComplete
PROPERTY WalkEnds 
CHECK_DEADLOCK FALSE
