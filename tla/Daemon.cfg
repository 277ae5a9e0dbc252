SPECIFICATION Spec
CONSTANTS
  None = None
  Percent = {40}
  Sample = {}
  NativeTick = 1
  UnansweredRetry = 2
  Interval = 7
  OfflineGrace = 1
  MissingGrace = 1
  MaxPlausibleStep = 1
  ConfirmTolerance = 1
  Timeout = 3
  PipeSize = 1
  MostOutput = 2
  Reports <- SomeReports
  Backends = {"Auto", "Native", "HeadsetControl"}
  NativeReports <- SomeNativeReports
  ReenumerationGrace = 4
  MaxWait = 4
  Registration = 1
  MostHeadsets = 2
  SummarySettle = 3
INVARIANTS TypeOK ReadingsAreShort PingsAreClose StopIsPrompt ComingBackIsNoticed PendingIsWhatIsHeard
PROPERTIES AnnouncedHasLasted
