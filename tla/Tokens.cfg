SPECIFICATION FairSpec
CONSTANTS
  Call = {c1, c2}
  POOL = 5
  MaxGrant = 2
  MaxIssue = 3
  MaxFaults = 1
INVARIANTS CredentialKept FlagMeansDead
PROPERTY FlagHeals
