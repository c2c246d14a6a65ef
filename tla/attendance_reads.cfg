SPECIFICATION Spec
CONSTANTS
  u1 = u1
  a = a
  b = b
  r1 = r1
  User = {u1}
  Tenant = {a, b}
  TenantOf <- HomeOf
  Reader = {r1}
  DayLength = 2
  WeekLength = 2
  MonthStart <- FirstDays
  AskedDate = {1, NoDate}
  PageSize = {1, 2}
  DefaultHistoryDays = 3
  MaxRangeDays = 3
  MaxTime = 5
  MaxEvents = 3
  NoEvent = NoEvent
  NoDate = NoDate
  NoRequest = NoRequest
  NoDay = NoDay
INVARIANTS
  NoEventIsLost
  PagesShowEveryDay
  HoursAreWorked
  HistoryHasNoGap
  LiveStateOnceRecorded
