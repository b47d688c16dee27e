\* One tab, two administrators one of whom operates the control plane, two tickets, four requests.
CONSTANTS
  s1 = s1
  s2 = s2
  o1 = o1
  None = None
  Orgs = {o1}
  Sessions = {s1, s2}
  Superadmins = {s1}
  Home <- HomeOf
  Tickets = {t1, t2}
  MaxRequests = 4
  Plans <- ConsolePlans
SPECIFICATION ConsoleSpec
INVARIANTS RestIsReady OperatorViewsGuarded TicketSavesItsForm
PROPERTY LateAnswersIgnored
CHECK_DEADLOCK FALSE
