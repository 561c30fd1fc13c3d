CONSTANTS
  Conns = {c1, c2, c3}
  Plates = {p1}
  NoCamera = NoCamera
  Roads <- MCRoads
  Miles <- MCMiles
  Timestamps <- MCTimestamps
  Limits <- MCLimits
  CameraIds <- LiveCameraIds
  DispatchRoads <- LiveDispatchRoads
  MaxPlates = 1

SPECIFICATION Spec
CHECK_DEADLOCK FALSE

PROPERTY TicketEventuallyDelivered
