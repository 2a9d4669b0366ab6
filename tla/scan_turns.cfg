SPECIFICATION Spec
CONSTANTS
  r1 = r1
  r2 = r2
  r3 = r3
  a = a
  b = b
  c = c
  None = None
  Scans = {r1, r2, r3}
  Tabs = {a, b, c}
  ScanOf <- OneTabEach
  Parallel = 2
  Tickets = {t1, t2, t3, t4}
  MaxWaiting = 2
  Punctual = TRUE
INVARIANTS
  TypeOK
  SlotsGuardTheModel
  OnePlaceInLine
PROPERTIES
  FirstComeFirstServed
SYMMETRY AnyTicket
