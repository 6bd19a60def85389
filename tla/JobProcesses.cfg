CONSTANTS
  f1 = f1
  f2 = f2
  f3 = f3
  Files = {f1, f2, f3, other}
  JobFiles = {f1, f2, f3}
  MaxProc = 2
  NoFile = NoFile
  UINT_MAX = 9999
  MAX_RESERVATION_SIZE = 3
  Directories <- MCDirectories
  Stale <- StaleDigits
SPECIFICATION JobsFairSpec
INVARIANTS TypeOK AtMostMaxProc CountsChildren AllReaped JobsTypeOK
INVARIANTS LostOnlyAfterInvalid OutputsRight NumbersHeld
PROPERTIES ParentEnds
CHECK_DEADLOCK FALSE
