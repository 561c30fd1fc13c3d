CONSTANTS
  Plates = {p1}
  Roads <- MCRoads
  Timestamps <- MCTimestamps
  Miles <- MCMiles
  Limits <- MCLimits

INIT CtrlInit
NEXT CtrlNext

INVARIANT CtrlTypeOK
INVARIANT TicketDaysDisjoint
INVARIANT EveryViolationTicketed
INVARIANT TicketsWellFounded
