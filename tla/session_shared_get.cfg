SPECIFICATION FairSpec
CONSTANTS
  home = home
  club = club
  None = None
  Clients = {"web", "ios", "android"}
  Servers = {home, club}
  Default = home
  Accounts <- ThreeAccounts
  MaxMoves = 4
  MaxLoads = 2
INVARIANTS
  OwnDataShown
CHECK_DEADLOCK FALSE
