SPECIFICATION Spec
CHECK_DEADLOCK FALSE
CONSTANTS
  soup = soup
  roast = roast
  hot = hot
  starter = starter
  main = main
  Dishes = {soup, roast}
  Stations = {hot}
  Courses = {starter, main}
  StationOf <- OneScreen
  CourseOf <- TwoCourses
  DefaultStation = hot
  MaxQty = 1
  MaxFirings = 2
  MaxStops = 1
  MaxFaults = 0
  TicketOff = TRUE
  KeepPaid = FALSE
INVARIANT PrintedIsOnPaper
