\* Three headsets, two inherited handles, and one headset whose identity the
\* kernel can never accept: who is attached, on which handle, at which index.
SPECIFICATION VectorSpec
CONSTANTS
  None = None
  h1 = h1
  h2 = h2
  h3 = h3
  k1 = k1
  k2 = k2
  k3 = k3
  Headset = {h1, h2, h3}
  Key = {k1, k2, k3}
  KeyOf <- ThreeModels
  Unacceptable = {k3}
  Percent = {50}
  Sample = {s1}
  NativeTick = 1
  UnansweredRetry = 1
  Interval = 1
  OfflineGrace = 1
  MissingGrace = 1
  MaxPlausibleStep = 15
  ConfirmTolerance = 5
  Inherited = 2
  MaxTick = 0
  AttachRetry = 2
  DeviceFailureLimit = 1
  DisconnectSettle = 0
  RepublishEvery = 1
INVARIANTS VectorsAreInStep HandlesAccountedFor
