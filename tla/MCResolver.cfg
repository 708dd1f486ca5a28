SPECIFICATION FairSpec
CONSTANTS
  n1 = n1
  Host = Host
  Targets = {n1, Host}
  Root = Root
  Replies <- SomeReplies
  MaxHops = 3
  ReferralBudget = 3
INVARIANTS
  TypeOK
  NestingIsBudgeted
  OnlyHostAddresses
  FailuresAreContained
PROPERTY Terminates
CHECK_DEADLOCK FALSE
