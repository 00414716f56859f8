SPECIFICATION FairSpec
CONSTANTS
  t1 = t1  t2 = t2  a1 = a1  a2 = a2  b1 = b1  b2 = b2
  NoTicket = none
  Tickets = {t1, t2}
  Comments <- Descriptions
  TicketOf <- DescriptionOf
  KindOf <- Described
  Backshift = 0
  LateListing = TRUE
  Refreshes = FALSE
  MaxPublishAttempts = 2
  MaxTime = 2
  MaxFaults = 1
PROPERTIES NoTicketLeftBehind ActiveTicketsBecomeKnown
