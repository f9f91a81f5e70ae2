SPECIFICATION Spec
CONSTANTS
  cut = cut  low = low  Absent = Absent
  Types = {cut, low}
  Reports <- SomeReports
  NumSessions = 2
  Stores = {TRUE, FALSE}
  MaxReports = 3
  MaxStoreFailures = 1
CHECK_DEADLOCK FALSE
INVARIANTS
  OneActiveRow
  AlarmsMatchReport
