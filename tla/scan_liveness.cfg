SPECIFICATION FairSpec
CONSTANTS
  r1 = r1
  r2 = r2
  r3 = r3
  a = a
  b = b
  c = c
  None = None
  Scans = {r1, r2}
  Tabs = {a, b}
  ScanOf <- TwoTabsEach
  Parallel = 1
  Tickets = {t1, t2}
  MaxWaiting = 2
  Punctual = TRUE
PROPERTIES
  TurnComes
  ImplementsTurns
