CONSTANTS
  p1 = p1
  p2 = p2
  t1 = t1
  t2 = t2
  t3 = t3
  Players = {p1, p2}
  Tickets = {t1, t2, t3}
  NoTicket = NoTicket
  OwnerOf <- MCOwnerOf
  LightOf <- MCLightOf
  Workers = {w1}
  Sweepers = {}
  Reconcilers = {}
  TicketTtl = 3
  ReservationTtl = 2
  CooldownTtl = 1
  MaxNow = 3
  MaxJoin = 0
  MaxCrashes = 0
SPECIFICATION Spec
CHECK_DEADLOCK FALSE
INVARIANTS RequeuesAreOwed
