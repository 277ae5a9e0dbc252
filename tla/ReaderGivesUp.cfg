\* One dongle, writes to which may fail.
SPECIFICATION RememberedSpec
CONSTANTS
  None = None
  n1 = n1
  n2 = n2
  p1 = p1
  Percent = {50}
  NativeInterval = 2
  ListenFirst = 1
  AskAgainAfter <- TwoExtraQuestions
  AskIdleRetry = 3
  LongestDelay = 3
  MaxUnanswered = 3
  Message <- Messages
  ErrorSettle = 1
  WedgeSilence = 3
  WedgeReminder = 3
  ProbeEvery = 1
  Node = {n1, n2}
  Product = {p1}
  ProductOf <- SameModel
  Listing <- OneAtATime
  MaxReadings = 2
PROPERTIES GivingUpLeavesTheSlowCadence
