SPECIFICATION Spec
CONSTANTS
  t1 = t1  t2 = t2  a1 = a1  a2 = a2  b1 = b1  b2 = b2
  NoTicket = none
  Tickets = {t1}
  Comments <- OneTicketComments
  TicketOf <- OneTicketOf
  KindOf <- Customers
  Backshift = 0
  LateListing = FALSE
  Refreshes = TRUE
  MaxPublishAttempts = 2
  MaxTime = 3
  MaxFaults = 0
INVARIANTS FreshCommentsAreWorkedOn
CHECK_DEADLOCK FALSE
