SPECIFICATION Spec
CONSTANTS
  s1 = s1
  Schedulers = {s1}
  Created <- CreatedDays
  Frequencies = {"daily", "weekly", "biweekly", "monthly", "quarterly", "yearly"}
  DueDays = {1, 31}
  Windows <- ReminderDays
  Days <- Horizon
  MaxMissed = 1
  MaxEdits = 1
INVARIANTS
  NextIsFirstDue
  OneReminderPerDueDate
  EveryDueDateIsAnnounced
CHECK_DEADLOCK FALSE
