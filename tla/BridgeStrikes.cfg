\* One headset: which failures cost its device its place.
SPECIFICATION RememberedSpec
CONSTANTS
  None = None
  h1 = h1
  h2 = h2
  k1 = k1
  Headset = {h1}
  Key = {k1}
  KeyOf <- OneDongle
  Unacceptable = {}
  Percent = {50}
  Sample = {s1}
  NativeTick = 1
  UnansweredRetry = 1
  Interval = 2
  OfflineGrace = 6
  MissingGrace = 6
  MaxPlausibleStep = 15
  ConfirmTolerance = 5
  Inherited = 1
  MaxTick = 0
  AttachRetry = 2
  DeviceFailureLimit = 3
  DisconnectSettle = 3
  RepublishEvery = 2
PROPERTIES DestroyedForFailuresInARow
