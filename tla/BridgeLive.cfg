\* A headset and one the kernel never accepts, and a daemon that opens its own
\* handles and is fair.
SPECIFICATION FairSpec
CONSTANTS
  None = None
  h1 = h1
  h2 = h2
  k1 = k1
  k2 = k2
  Headset = {h1, h2}
  Key = {k1, k2}
  KeyOf <- TwoModels
  Unacceptable = {k2}
  Percent = {50}
  Sample = {s1}
  NativeTick = 1
  UnansweredRetry = 2
  Interval = 3
  OfflineGrace = 1
  MissingGrace = 2
  MaxPlausibleStep = 15
  ConfirmTolerance = 5
  Inherited = 0
  MaxTick = 1
  AttachRetry = 2
  DeviceFailureLimit = 2
  DisconnectSettle = 2
  RepublishEvery = 2
PROPERTIES StopEndsTheDaemon QuietEntriesDoNotLast
