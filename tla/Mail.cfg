SPECIFICATION Spec
CHECK_DEADLOCK FALSE
CONSTANTS
  None = None
  MaxFaults = 1
INVARIANTS
  
  EventsAsEntered
  ReplyJoins
  SentIsServed
  
  RowsAreWhole
  ListedAsStored
  ShownAsChosen
