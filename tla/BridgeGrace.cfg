\* Two dongles of one model, every clock, a single level, and a daemon that
\* opens its own handles.
SPECIFICATION RememberedSpec
CONSTANTS
  None = None
  h1 = h1
  h2 = h2
  k1 = k1
  Headset = {h1, h2}
  Key = {k1}
  KeyOf <- TwoDongles
  Unacceptable = {}
  Percent = {50}
  Sample = {s1}
  NativeTick = 1
  UnansweredRetry = 2
  Interval = 4
  OfflineGrace = 3
  MissingGrace = 5
  MaxPlausibleStep = 15
  ConfirmTolerance = 5
  Inherited = 0
  MaxTick = 1
  AttachRetry = 3
  DeviceFailureLimit = 2
  DisconnectSettle = 2
  RepublishEvery = 3
INVARIANTS TypeOK HandlesAccountedFor AttachedIsUnencumbered QuietEntriesGo ShownLevelIsRecent GoneIsBelieved
PROPERTIES EntriesGoForCause FailuresAreSpaced
