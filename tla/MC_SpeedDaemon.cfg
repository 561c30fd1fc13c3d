CONSTANTS
  Conns = {c1, c2, c3, c4}
  Plates = {p1}
  NoCamera = NoCamera
  Roads <- MCRoads
  Miles <- MCMiles
  Timestamps <- MCTimestamps
  Limits <- MCLimits
  CameraIds <- MCCameraIds
  DispatchRoads <- MCDispatchRoads
  MaxPlates = 1

SPECIFICATION Spec
SYMMETRY ConnSymmetry
CHECK_DEADLOCK FALSE

INVARIANT TypeOK
INVARIANT TicketConservation
INVARIANT RoutedToCoveringDispatcher
INVARIANT NoStrandedPending
INVARIANT CameraRegistryConsistent
INVARIANT ClosedDispatcherLeaving
