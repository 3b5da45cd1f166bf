SPECIFICATION Spec
CONSTANTS
  a = a
  b = b
  p1 = p1
  p2 = p2
  NoJob = NoJob
  Jobs = {a, b}
  Printers = {p1}
  PrinterOf <- OnePrinterOf
  Priority <- BillAndTicket
  Unreadable <- BUnreadable
  Stoppable <- FirstOnly
  MaxAttempts = 1
  MaxRetries = 0
  MaxStarts = 2
  MaxFaults = 1
CHECK_DEADLOCK FALSE
INVARIANT AcceptedIsNeverLost
INVARIANT DismissedStaysOut
PROPERTY PrintedInOrder
