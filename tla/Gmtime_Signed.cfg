SPECIFICATION GmtimeSpec
CONSTANT Clocks <- MCClocks
CHECK_DEADLOCK FALSE
INVARIANTS
  UsedAfter2019
