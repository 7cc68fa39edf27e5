CONSTANTS
  kBigitSize = 4
  kChunkSize = 5
  kBigitCapacity = 9
  Values = {0, 1, 7, 16, 255}
  Shifts = {0, 1, 5}
  MaxValue = 4095
  SH_PRB = 200000000
  SZ_PRB = 400000000
  Codes <- SomeCodes
  MktCodes <- SomeMktCodes
  Days <- SomeDays
  Workdays <- SomeWorkdays
  Seconds <- SomeSeconds
  Dates <- SomeDates
  Strings <- Ab
  OldValues <- SomeOldValues
  NewValues <- SomeNewValues
  Numbers <- NumberTexts
  Urls <- SomeUrls
  Objects <- SomeObjects
  Outside <- SomeOutside
  Lengths <- SomeLengths
SPECIFICATION Spec
INVARIANTS
  BignumsAreExact CodesSurvive TimesSurvive TextsAreKept MessagesArrive
  DigitsAreRight FixedDigitsAreRight NumbersAreRead ValuesSurvive
CHECK_DEADLOCK FALSE
