CONSTANTS
  Conns = {c1, c2, c3}
  Plates = {p1}
  NoCamera = NoCamera
  Roads <- MCRoads
  Miles <- MCMiles
  Timestamps <- MCTimestamps
  Limits <- MCLimits
  CameraIds <- MCCameraIds
  DispatchRoads <- MCDispatchRoads
  MaxPlates = 2

SPECIFICATION Spec
SYMMETRY ConnSymmetry
CHECK_DEADLOCK FALSE

INVARIANT NoDrainSendFails
