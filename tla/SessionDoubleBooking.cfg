INIT ScheduleInit
NEXT ScheduleNext
CONSTANTS
  StartTimes = {0, 4, 6}
  Lengths = {1, 4}
  MaxBookings = 3
  MaxCancels = 3
  QuotaMaxSessions = 3
  AbuseAfter = 3
INVARIANT NoDoubleBooking
CHECK_DEADLOCK FALSE
