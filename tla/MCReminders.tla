--------------------------- MODULE MCReminders ---------------------------
(***************************************************************************)
(* A finite instance of Reminders: a winter with a leap day.               *)
(***************************************************************************)
EXTENDS Reminders

CONSTANTS s1

ReminderDays == {NoDay, 16}

CreatedDays == {Day(2023, 11, 30), Day(2024, 1, 31)}

\* Until the second due date of every frequency.
Horizon == [f \in Frequencies |->
  IF f = "yearly" THEN 340 ELSE IF f = "quarterly" THEN 95 ELSE 62]
=============================================================================
