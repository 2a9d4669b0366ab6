SPECIFICATION FairSpec
CONSTANTS
  home = home
  club = club
  None = None
  Clients = {"web", "ios", "android"}
  Servers = {home, club}
  Default = home
  Accounts <- TwoAccounts
  MaxMoves = 4
  MaxLoads = 2
INVARIANTS
  TypeOK
  SessionsMoveTogetherUndisturbed
  SameServerShown
PROPERTIES
  FreshStays
  LeavesSplash
CHECK_DEADLOCK FALSE
