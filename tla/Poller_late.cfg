SPECIFICATION Spec
CONSTANTS
  t1 = t1  t2 = t2  a1 = a1  a2 = a2  b1 = b1  b2 = b2
  NoTicket = none
  Tickets = {t1, t2}
  Comments <- TwoTicketComments
  TicketOf <- TwoTicketOf
  KindOf <- WithDirective
  Backshift = 1
  LateListing = TRUE
  Refreshes = FALSE
  MaxPublishAttempts = 2
  MaxTime = 3
  MaxFaults = 0
PROPERTIES LateTicketsAreNotLost
