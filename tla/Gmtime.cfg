SPECIFICATION GmtimeSpec
CONSTANT Clocks <- MCClocks
CHECK_DEADLOCK FALSE
INVARIANTS
  GmtimeIsCalendar
