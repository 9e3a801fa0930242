SPECIFICATION AllSpec
CONSTANTS
  a = a
  b = b
  None = None
  Passwords <- MCPasswords
  Archives <- MCArchives
  Clis <- MCClis
  Values <- MCValues
  Chars <- MCChars
  RawNames <- MCRawNames
  Patterns <- MCPatterns
  Controls = {"NUL"}
  TickDays <- MCTickDays
  Letters = {"l", "h", "d", "P"}
  NotUnicode = "bytes"
  MaxItems = 3
  EPOCH_DIFF = 100000
  TICKS_PER_SEC = 10
  MAX = 1500007
  LastDay = 146500
INVARIANTS
  TypeOK
  NothingBeforePassword
  WrongKeyStopsTheCall
  DeliversWhatWasAsked
  ParsesWhatWasMeant
  NamesAreSafe
  TimesAreRight
