----------------------------- MODULE Reminders -----------------------------
(***************************************************************************)
(* The daily reminders of a fixed movement: every morning the scheduler    *)
(* computes its next due date and, inside the reminder window, creates a   *)
(* notification unless one with the same reference is there.  The user     *)
(* deletes notifications and edits the movement; runs fail or do not take  *)
(* place.  The movements of a run do not depend on each other (one failing *)
(* is caught and the next one is tried), so the model follows one of them. *)
(***************************************************************************)
EXTENDS Calendar, Bags, FiniteSetsExt

CONSTANTS
  Schedulers,  \* server processes, each with its cron job
  Created,     \* days movements are entered on
  Frequencies,
  DueDays,
  Windows,     \* reminder_days; NoDay where it was left out
  Days,        \* bound: [Frequencies -> days a behaviour covers]
  MaxMissed,   \* bound: mornings in a row without a successful run
  MaxEdits     \* bound: edits of the movement

ASSUME RemindersAssumption ==
  /\ Schedulers # {}
  /\ Created \subseteq Nat /\ Windows \subseteq 0 .. 30 \cup {NoDay}
  /\ Frequencies \subseteq {"daily", "weekly", "biweekly", "monthly", "quarterly", "yearly"}
  /\ DueDays \subseteq 1 .. 31
  /\ Days \in [Frequencies -> Nat] /\ MaxMissed \in Nat /\ MaxEdits \in Nat

VARIABLES
  today,
  tx,        \* the fixed movement; it is no longer "live" when deleted
  row,       \* bag of notifications, by the due date in their reference
  run,       \* [Schedulers -> where the morning's run stands]
  answered,  \* a run of this morning went through
  missed,    \* mornings in a row without such a run
  edits,
  seen,      \* history: mornings that saw the movement as it is, up to Memory
  announced  \* history: due dates from today on that were announced

vars == <<today, tx, row, run, answered, missed, edits, seen, announced>>

Terms == [created : Created, frequency : Frequencies, due : DueDays,
          window : Windows, live : BOOLEAN]

Waiting == [at |-> "waiting"]
Done    == [at |-> "done"]

\* `created_at >= from`, 370 days back: for partition pruning.
Lookback == 370

\* findFixedForReminders; its other conditions (is_fixed, a due day) are what a
\* movement in Terms is.
Found == tx.live /\ tx.created >= today - Lookback

NextDue == NextOccurrence(tx, today)

Widest == Max(Windows \cup {3})
Memory == Widest + 1

WindowOf == IF tx.window = NoDay THEN 3 ELSE tx.window

\* Mutation: no reminder on the due date itself.
AheadOfTheDay == NextDue # NoDay /\ NextDue - today \in 1 .. WindowOf

InWindow == NextDue # NoDay /\ NextDue - today \in 0 .. WindowOf

\* Mutation: created without a look.
Overlooked(date) == FALSE

\* findByReference.
Existing(date) == BagIn(date, row)

-----------------------------------------------------------------------------
(* handleDailyReminders.                                                   *)

\* The query, the window, and the lookup of createIfMissing ...
Looks(s) ==
  /\ run[s] = Waiting
  /\ IF Found /\ InWindow /\ ~ Existing(NextDue)
     THEN /\ run' = [run EXCEPT ![s] = [at |-> "create", date |-> NextDue]]
          /\ UNCHANGED answered
     ELSE /\ run' = [run EXCEPT ![s] = Done]
          /\ answered' = TRUE
  /\ UNCHANGED <<today, tx, row, missed, edits, seen, announced>>

\* ... and its insert.
Creates(s) ==
  /\ run[s].at = "create"
  /\ row' = row (+) SetToBag({run[s].date})
  /\ announced' = announced \cup {run[s].date}
  /\ run' = [run EXCEPT ![s] = Done]
  /\ answered' = TRUE
  /\ UNCHANGED <<today, tx, missed, edits, seen>>

\* The server is down at seven, the query fails, or a statement of
\* createIfMissing does: caught, and not tried again before the next morning.
Misses(s) ==
  /\ run[s] # Done /\ missed < MaxMissed
  /\ run' = [run EXCEPT ![s] = Done]
  /\ UNCHANGED <<today, tx, row, answered, missed, edits, seen, announced>>

\* The next morning.  Rows of past dates are not looked up again, and a deleted
\* movement is not followed any further.
DayEnds(last) ==
  /\ today < last /\ tx.live
  /\ \A s \in Schedulers : run[s] = Done
  /\ today' = today + 1
  /\ run' = [s \in Schedulers |-> Waiting]
  /\ missed' = IF answered THEN 0 ELSE missed + 1
  /\ answered' = FALSE
  /\ row' = [date \in {d \in BagToSet(row) : d > today} |-> row[date]]
  /\ announced' = {date \in announced : date > today}
  /\ seen' = IF seen < Memory THEN seen + 1 ELSE seen
  /\ UNCHANGED <<tx, edits>>

-----------------------------------------------------------------------------
(* The user.                                                               *)

\* NotificationService.remove.
RemovesNotice(date) ==
  /\ row' = row (-) SetToBag({date})
  /\ UNCHANGED <<today, tx, run, answered, missed, edits, seen, announced>>

\* PATCH /transactions/:id: due_day, reminder_days.
EditsTerms(due, window) ==
  /\ tx.live /\ edits < MaxEdits
  /\ tx' = [tx EXCEPT !.due = due, !.window = window]
  /\ tx' # tx
  /\ edits' = edits + 1
  /\ seen' = 0
  /\ UNCHANGED <<today, row, run, answered, missed, announced>>

DeletesMovement ==
  /\ tx.live /\ edits < MaxEdits
  /\ tx' = [tx EXCEPT !.live = FALSE]
  /\ edits' = edits + 1
  /\ UNCHANGED <<today, row, run, answered, missed, seen, announced>>

-----------------------------------------------------------------------------
Init ==
  /\ tx \in {t \in Terms : t.live}
  /\ today = tx.created /\ seen = 1
  /\ row = EmptyBag /\ announced = {}
  /\ run = [s \in Schedulers |-> Waiting]
  /\ answered = FALSE /\ missed = 0 /\ edits = 0

Next ==
  \/ \E s \in Schedulers : Looks(s) \/ Creates(s) \/ Misses(s)
  \/ DayEnds(tx.created + Days[tx.frequency])
  \/ \E date \in BagToSet(row) : RemovesNotice(date)
  \/ \E due \in DueDays, window \in Windows : EditsTerms(due, window)
  \/ DeletesMovement

Spec == Init /\ [][Next]_vars

-----------------------------------------------------------------------------
(* Correctness.                                                            *)

TypeOK ==
  /\ today \in Nat /\ tx \in Terms
  /\ IsABag(row) /\ BagToSet(row) \subseteq today .. today + Widest
  /\ \A s \in Schedulers :
       run[s] \in {Waiting, Done} \cup [at : {"create"}, date : today .. today + Widest]
  /\ answered \in BOOLEAN /\ missed \in 0 .. MaxMissed /\ edits \in 0 .. MaxEdits
  /\ seen \in 0 .. Memory /\ announced \subseteq today .. today + Widest

\* nextOccurrence gives the first due date from today on, for every frequency,
\* month length and leap year: checked on the mornings before anything happened.
NextIsFirstDue ==
  edits = 0 /\ missed = 0 /\ tx.live /\ row = EmptyBag /\ (\A s \in Schedulers : run[s] = Waiting)
  => /\ NextDue >= today /\ IsDue(tx, NextDue)
     /\ \A day \in today .. NextDue - 1 : ~ IsDue(tx, day)

\* "Crea una notificacion solo si no existe otra con la misma reference": with one
\* server process there are never two for one due date, whatever the user deletes
\* and edits.
OneReminderPerDueDate == \A date \in BagToSet(row) : row[date] = 1

\* Every due date is announced by its evening, though mornings were missed: if more
\* mornings lie in its window (and after the due date before it, and after the last
\* edit) than may be missed in a row, and the movement was entered in the last 370
\* days.
EveryDueDateIsAnnounced ==
  /\ \A s \in Schedulers : run[s] = Done
  /\ tx.live /\ IsDue(tx, today) /\ today - tx.created <= Lookback
  => LET mornings == {day \in today - WindowOf .. today :
                        today - day < seen /\ \A e \in day .. today - 1 : ~ IsDue(tx, e)}
     IN  Cardinality(mornings) > MaxMissed => today \in announced
=============================================================================
