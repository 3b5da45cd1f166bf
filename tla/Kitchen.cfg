SPECIFICATION Spec
CHECK_DEADLOCK FALSE
CONSTANTS
  soup = soup
  roast = roast
  hot = hot
  starter = starter
  main = main
  Dishes = {roast}
  Stations = {hot}
  Courses = {main}
  StationOf <- OneScreen
  CourseOf <- OneCourse
  DefaultStation = hot
  MaxQty = 2
  MaxFirings = 2
  MaxStops = 1
  MaxFaults = 1
  TicketOff = FALSE
  KeepPaid = TRUE
INVARIANT PaperTellsTheLedger
INVARIANT ToldIsKnown
INVARIANT CourseFiredOnce
PROPERTY NoneIsLeftPending
