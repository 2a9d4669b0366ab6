SPECIFICATION FairSpec
CONSTANTS
  ann = ann
  bob = bob
  None = None
  People <- MCPeople
  expense = expense
  edit = edit
  comment = comment
  payment = payment
  Events <- MCEvents
  Audience <- MCAudience
  Urgent = {payment}
  Dues <- SomeDues
  Reports = {crash, typo}
  Milestones = {ten, hundred}
  Thresholds = {deep}
  Jobs = {p1, p2}
  Topics <- SomeTopics
  MaxFaults = 1
INVARIANTS
  NothingMarkedUnsaid
  MailedOnce
  OncePerCooldown
PROPERTIES
  EverybodyTold
