SPECIFICATION MembershipSpec
CONSTANTS
  Servers = {1, 2, 3, 4}
  Me = 1
  Base = {1, 2, 3}
  Movable = {3, 4}
  Standby = FALSE
  Joiner = 4
  JoinBase = {1, 2}
  MinMembers = 3
  MaxIndex = 4
  MaxTerm = 4
CONSTRAINT NotReread
INVARIANTS
  MemberFollowsLog
  MemberAssertsHold
  MemberOneChange
  JoinerStandbyClears
CHECK_DEADLOCK FALSE
