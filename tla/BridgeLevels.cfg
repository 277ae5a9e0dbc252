\* One headset and many levels: which of them are shown.
SPECIFICATION ReadingSpec
CONSTANTS
  None = None
  h1 = h1
  k1 = k1
  Headset = {h1}
  Key = {k1}
  KeyOf <- OneHeadset
  Unacceptable = {}
  Percent = {40, 45, 46, 61, 77}
  Sample = {s1, s2}
  NativeTick = 1
  UnansweredRetry = 1
  Interval = 1
  OfflineGrace = 1
  MissingGrace = 1
  MaxPlausibleStep = 15
  ConfirmTolerance = 5
  Inherited = 1
  MaxTick = 0
  AttachRetry = 1
  DeviceFailureLimit = 2
  DisconnectSettle = 1
  RepublishEvery = 1
INVARIANTS DoubtContradictsTheLevelShown
PROPERTIES LevelMovesAreBelievable JumpsTakeTwoReadings ImplementsDesktop
