-------------------------- MODULE StatementImport --------------------------
(***************************************************************************)
(* The import of bank statements: a client uploads a job of PDF files, the *)
(* jobs are processed one after another in the background (the promise     *)
(* chain of StatementImportService), and the failed files of a job may be  *)
(* retried.  Every step of the worker is one statement to the database or  *)
(* the disk; any of them may fail, and the process may stop at any moment, *)
(* which loses the chain and keeps the tables.                             *)
(***************************************************************************)
EXTENDS Totals, Sequences, FiniteSets, SequencesExt

CONSTANTS
  Jobs,
  JobOf,        \* sequence: the job of file 1, 2, ...
  Movements,    \* what a line of a statement is told apart by: its date, its
                \* amount and its normalised description
  Content,      \* sequence: the movements the parser finds in each file, in order
  Ruled,        \* movements whose description the learned rules give a category
  Unreadable,   \* files without the header of a PDF
  Damaged,      \* files pdf-parse rejects
  Encrypted,    \* files that need the password
  Options,      \* what a job may ask for: skip_duplicates, assign_categories, and
                \* whether it names a category
  Passwords,    \* [Jobs -> passwords clients send: "none", "wrong", "right"]
  DriverDates,  \* "text" or "Date": a DATE column of a raw row, see Stored
  Clients,      \* retry requests in progress at a time
  MaxFaults,    \* bound: statements that fail
  MaxRestarts,  \* bound: stops of the process
  MaxRetries    \* bound: retry requests

Files == 1 .. Len(JobOf)

ASSUME ImportAssumption ==
  /\ JobOf \in Seq(Jobs)
  /\ Content \in [Files -> Seq(Movements)] /\ Ruled \subseteq Movements
  /\ Unreadable \subseteq Files /\ Damaged \subseteq Files /\ Encrypted \subseteq Files
  /\ Options \subseteq [skip : BOOLEAN, assign : BOOLEAN, category : BOOLEAN]
  /\ Passwords \in [Jobs -> SUBSET {"none", "wrong", "right"}]
  /\ DriverDates \in {"text", "Date"}
  /\ MaxFaults \in Nat /\ MaxRestarts \in Nat /\ MaxRetries \in Nat

FilesOf(j) == {f \in Files : JobOf[f] = j}

VARIABLES
  job,       \* [Jobs -> row of finance.statement_import]
  file,      \* [Files -> row of finance.statement_import_file]
  disk,      \* files that exist in the temporary directories
  imported,  \* [Files -> [Movements -> transactions created from it]]
  chain,     \* tasks the promise chain has still to run
  worker,    \* the task in progress
  retry,     \* [Clients -> retry request in progress]
  faults, restarts, retries,
  broken,    \* history: jobs whose task ended in an error
  retried    \* history: jobs a retry was accepted for

counters == <<faults, restarts, retries>>
vars == <<job, file, disk, imported, chain, worker, retry, counters, broken, retried>>

\* ImportFileTotals, and the sums of a job.
NoTotals == [parsed |-> 0, created |-> 0, skipped |-> 0, uncategorized |-> 0]

Plus(s, t) == [k \in DOMAIN s |-> s[k] + t[k]]

NoError == "none"

NoJob  == [status |-> "none", options |-> {}, success |-> 0, failed |-> 0,
           totals |-> NoTotals, error |-> FALSE]
NoFile == [status |-> "none", path |-> FALSE, error |-> NoError, totals |-> NoTotals]

Idle == [at |-> "idle"]

Task(kind, j, password) == [kind |-> kind, job |-> j, password |-> password]

-----------------------------------------------------------------------------
(* Clients.                                                                *)

\* createJob: the files are on disk and the rows in the tables when the job is
\* queued; a failure before that removes the directory again.
CreateJob(j, options, password) ==
  /\ job[j].status = "none"
  /\ job' = [job EXCEPT ![j].status = "pending", ![j].options = options]
  /\ file' = [f \in Files |->
       IF f \in FilesOf(j) THEN [NoFile EXCEPT !.status = "pending", !.path = TRUE]
       ELSE file[f]]
  /\ disk' = disk \cup FilesOf(j)
  /\ chain' = Append(chain, Task("first", j, password))
  /\ UNCHANGED <<imported, worker, retry, counters, broken, retried>>

Failed(j) == {f \in FilesOf(j) : file[f].status = "failed"}

\* retryJob: what it reads ...
RetryChecks(c, j, password) ==
  /\ retry[c] = Idle
  /\ retries < MaxRetries
  /\ Failed(j) # {}
  /\ \A f \in Failed(j) : file[f].path
  /\ retry' = [retry EXCEPT ![c] = [at |-> "files", job |-> j, password |-> password]]
  /\ retries' = retries + 1
  /\ retried' = retried \cup {j}
  /\ UNCHANGED <<job, file, disk, imported, chain, worker, faults, restarts, broken>>

\* ... resetFailedFilesForRetry: the files ...
RetryResetsFiles(c) ==
  /\ retry[c].at = "files"
  /\ file' = [f \in Files |->
       IF f \in Failed(retry[c].job)
       THEN [file[f] EXCEPT !.status = "pending", !.error = NoError, !.totals = NoTotals]
       ELSE file[f]]
  /\ retry' = [retry EXCEPT ![c].at = "job"]
  /\ UNCHANGED <<job, disk, imported, chain, worker, counters, broken, retried>>

\* ... and the job, which is queued again.
RetryQueues(c) ==
  /\ retry[c].at = "job"
  /\ job' = [job EXCEPT ![retry[c].job] = [@ EXCEPT !.status = "pending", !.failed = 0,
                                                       !.error = FALSE]]
  /\ chain' = Append(chain, Task("retry", retry[c].job, retry[c].password))
  /\ retry' = [retry EXCEPT ![c] = Idle]
  /\ UNCHANGED <<file, disk, imported, worker, counters, broken, retried>>

\* A statement of the request fails: what it has changed stays changed.
RetryFails(c) ==
  /\ retry[c] # Idle
  /\ faults < MaxFaults
  /\ faults' = faults + 1
  /\ retry' = [retry EXCEPT ![c] = Idle]
  /\ UNCHANGED <<job, file, disk, imported, chain, worker, restarts, retries,
                 broken, retried>>

-----------------------------------------------------------------------------
(* The worker.                                                             *)

At(step) == worker.at = step

Goto(step) == worker' = [worker EXCEPT !.at = step]

\* Files are taken in the order of their ids.
Current == CHOOSE f \in worker.left : \A g \in worker.left : f <= g

\* chain.then(...): the next task, whatever became of the one before.
Takes ==
  /\ At("idle") /\ chain # << >>
  /\ LET t == Head(chain)
     IN  worker' = [at |-> IF t.kind = "first" THEN "start" ELSE "mark",
                    kind |-> t.kind, job |-> t.job, password |-> t.password,
                    left |-> {}, known |-> {}, outcome |-> NoTotals, code |-> NoError,
                    success |-> 0, failed |-> 0, totals |-> NoTotals, thrown |-> FALSE]
  /\ chain' = Tail(chain)
  /\ UNCHANGED <<job, file, disk, imported, retry, counters, broken, retried>>

\* processJob leaves a job alone that is not pending; processRetryJob does not ask.
Starts ==
  /\ At("start")
  /\ IF job[worker.job].status = "pending" THEN Goto("mark") ELSE worker' = Idle
  /\ UNCHANGED <<job, file, disk, imported, chain, retry, counters, broken, retried>>

MarksJob ==
  /\ At("mark")
  /\ job' = [job EXCEPT ![worker.job].status = "processing"]
  /\ Goto("list")
  /\ UNCHANGED <<file, disk, imported, chain, retry, counters, broken, retried>>

Lists ==
  /\ At("list")
  /\ LET todo == IF worker.kind = "first" THEN FilesOf(worker.job)
                 ELSE {f \in FilesOf(worker.job) : file[f].status = "pending"}
     IN  worker' = [worker EXCEPT !.at = "next", !.left = todo]
  /\ UNCHANGED <<job, file, disk, imported, chain, retry, counters, broken, retried>>

\* The entities of the list keep the path they were read with.
MarksFile ==
  /\ At("next") /\ worker.left # {}
  /\ file' = [file EXCEPT ![Current].status = "processing"]
  /\ Goto("read")
  /\ UNCHANGED <<job, disk, imported, chain, retry, counters, broken, retried>>

\* A path that is cleared or leads nowhere, the PDF header, the parser and its
\* password, an empty result; what classifyError makes of each error.
Refusal(f) ==
  IF f \notin disk \/ ~ file[f].path THEN "PDF_INVALID"
  ELSE CASE f \in Unreadable -> "UNSUPPORTED_FILE"
         [] f \in Damaged \ Unreadable -> "PDF_INVALID"
         [] f \in Encrypted \ (Unreadable \cup Damaged) /\ worker.password = "none" ->
              "PDF_PASSWORD_REQUIRED"
         [] f \in Encrypted \ (Unreadable \cup Damaged) /\ worker.password = "wrong" ->
              "PDF_WRONG_PASSWORD"
         [] OTHER -> IF Content[f] = << >> THEN "NO_TRANSACTIONS" ELSE NoError

\* Fingerprints: a parsed line carries its date as text; String() of what the
\* driver returns for a DATE column of a raw row is text of the same form or that
\* of a Date object ("Sat Mar 01 2025 00:00:00 ...").  node-postgres as the
\* application configures it returns a Date.
Parsed(m) == <<"text", m>>
Stored(m) == <<DriverDates, m>>

\* Mutation: duplicates are looked up within the file only.
ExistingNowhere == {}

\* findExistingFingerprints.
Existing == {Stored(m) : m \in {n \in Movements : \E f \in Files : imported[f][n] > 0}}

Asked == job[worker.job].options

Reads ==
  /\ At("read")
  /\ LET refusal == Refusal(Current)
     IN  worker' = IF refusal = NoError
                   THEN [worker EXCEPT !.at = "create",
                                       !.known = IF Asked.skip THEN Existing ELSE {}]
                   ELSE [worker EXCEPT !.at = "fail", !.code = refusal]
  /\ UNCHANGED <<job, file, disk, imported, chain, retry, counters, broken, retried>>

\* What is neither in the books nor earlier in the file.
Fresh == {m \in ToSet(Content[Current]) : Parsed(m) \notin worker.known}

Categorised(m) == Asked.category \/ (Asked.assign /\ m \in Ruled)

\* Mutation: a movement that is twice in a file is forgotten, not skipped.
OutcomeOfDistinct ==
  [parsed |-> Len(Content[Current]), created |-> Cardinality(Fresh),
   skipped |-> Cardinality(ToSet(Content[Current]) \ Fresh),
   uncategorized |-> Cardinality({m \in Fresh : ~ Categorised(m)})]

\* Without a category and without rules a row is counted when its DTO is made and
\* again when it has been created.
OutcomeOf ==
  [parsed |-> Len(Content[Current]), created |-> Cardinality(Fresh),
   skipped |-> Len(Content[Current]) - Cardinality(Fresh),
   uncategorized |-> Cardinality({m \in Fresh : ~ Categorised(m)})
                     + IF Asked.category \/ Asked.assign THEN 0 ELSE Cardinality(Fresh)]

\* createMany is one transaction.
Creates ==
  /\ At("create")
  /\ imported' = [imported EXCEPT ![Current] =
       [m \in Movements |-> IF m \in Fresh THEN @[m] + 1 ELSE @[m]]]
  /\ worker' = [worker EXCEPT !.at = "succeed", !.outcome = OutcomeOf]
  /\ UNCHANGED <<job, file, disk, chain, retry, counters, broken, retried>>

\* The sums of the job follow the update of the file, so they are without a file
\* whose rows were created and not marked.
MarksSuccess ==
  /\ At("succeed")
  /\ file' = [file EXCEPT ![Current] = [@ EXCEPT !.status = "success", !.error = NoError,
                                                !.totals = worker.outcome]]
  /\ worker' = [worker EXCEPT !.at = "remove", !.success = @ + 1, !.outcome = NoTotals,
                              !.known = {}, !.totals = Plus(@, worker.outcome)]
  /\ UNCHANGED <<job, disk, imported, chain, retry, counters, broken, retried>>

MarksFailure ==
  /\ At("fail")
  /\ file' = [file EXCEPT ![Current] = [@ EXCEPT !.status = "failed", !.error = worker.code]]
  /\ worker' = [worker EXCEPT !.at = "remove", !.failed = @ + 1, !.outcome = NoTotals,
                              !.known = {}, !.code = NoError]
  /\ UNCHANGED <<job, disk, imported, chain, retry, counters, broken, retried>>

\* cleanupFile, in a finally block: the file ...  The code skips a file whose path is
\* cleared; such a file is on the disk only after an earlier removal of it failed, and
\* is removed here.
Removes ==
  /\ At("remove")
  /\ disk' = disk \ {Current}
  /\ Goto("clear")
  /\ UNCHANGED <<job, file, imported, chain, retry, counters, broken, retried>>

\* Mutation: a rejected chain runs none of the tasks behind it.
ThrowsThrough ==
  /\ worker' = Idle
  /\ broken' = broken \cup {worker.job}
  /\ chain' = << >>

\* What an error in the task does: it ends it, and the chain goes on.
Throws ==
  /\ worker' = Idle
  /\ broken' = broken \cup {worker.job}
  /\ UNCHANGED chain

\* ... and its path; then an error of markFileFailed goes on its way.
Clears ==
  /\ At("clear")
  /\ file' = [file EXCEPT ![Current].path = FALSE]
  /\ IF worker.thrown THEN Throws
     ELSE /\ worker' = [worker EXCEPT !.at = "next", !.left = @ \ {Current}]
          /\ UNCHANGED <<chain, broken>>
  /\ UNCHANGED <<job, disk, imported, retry, counters, retried>>

\* Mutation: a failed file does not make the job partial.
OutcomeWithoutPartial(success, failed) ==
  IF success = 0 THEN "failed" ELSE "completed"

Outcome(success, failed) ==
  IF success = 0 THEN "failed" ELSE IF failed > 0 THEN "partial" ELSE "completed"

\* finishJob: the totals of this task replace those of the job.  The progress
\* messages and the notification that follow catch their errors.
Finishes ==
  /\ At("next") /\ worker.left = {}
  /\ job' = [job EXCEPT ![worker.job] =
       [status |-> Outcome(worker.success, worker.failed), options |-> @.options,
        success |-> worker.success, failed |-> worker.failed, totals |-> worker.totals,
        error |-> worker.failed > 0]]
  /\ Goto("sweep")
  /\ UNCHANGED <<file, disk, imported, chain, retry, counters, broken, retried>>

\* Mutation: only an empty directory is removed.
SweptIfEmpty == disk

\* cleanupJobDir: the directory of the last file of the task, if there is one.
Swept == IF worker.success + worker.failed > 0 THEN disk \ FilesOf(worker.job) ELSE disk

Sweeps ==
  /\ At("sweep")
  /\ disk' = Swept
  /\ worker' = Idle
  /\ UNCHANGED <<job, file, imported, chain, retry, counters, broken, retried>>

\* The statement of the current step fails.  An error while a file is read,
\* created or marked successful is caught and fails the file, one while it is
\* marked failed lets the finally block run first, those of the removals are
\* swallowed, any other ends the task.
Faults ==
  /\ faults < MaxFaults
  /\ faults' = faults + 1
  /\ CASE worker.at \in {"read", "create", "succeed"} ->
            worker' = [worker EXCEPT !.at = "fail", !.code = "PDF_INVALID"]
              /\ UNCHANGED <<chain, broken>>
       [] worker.at = "fail" ->
            worker' = [worker EXCEPT !.at = "remove", !.thrown = TRUE, !.outcome = NoTotals,
                                     !.known = {}, !.code = NoError]
              /\ UNCHANGED <<chain, broken>>
       [] worker.at = "remove" -> Goto("clear") /\ UNCHANGED <<chain, broken>>
       [] worker.at = "sweep" -> worker' = Idle /\ UNCHANGED <<chain, broken>>
       [] worker.at \in {"start", "mark", "list", "next", "clear"} -> Throws
       [] OTHER -> FALSE
  /\ UNCHANGED <<job, file, disk, imported, retry, restarts, retries, retried>>

\* The process stops: chain, task and requests are gone; the temporary
\* directories may survive with their files or not.
Restarts ==
  /\ restarts < MaxRestarts
  /\ restarts' = restarts + 1
  /\ chain' = << >> /\ worker' = Idle
  /\ retry' = [c \in Clients |-> Idle]
  /\ \E kept \in {disk, {}} : disk' = kept
  /\ UNCHANGED <<job, file, imported, faults, retries, broken, retried>>

-----------------------------------------------------------------------------
Init ==
  /\ job = [j \in Jobs |-> NoJob]
  /\ file = [f \in Files |-> NoFile]
  /\ disk = {}
  /\ imported = [f \in Files |-> [m \in Movements |-> 0]]
  /\ chain = << >> /\ worker = Idle
  /\ retry = [c \in Clients |-> Idle]
  /\ faults = 0 /\ restarts = 0 /\ retries = 0
  /\ broken = {} /\ retried = {}

Work ==
  \/ Takes \/ Starts \/ MarksJob \/ Lists \/ MarksFile \/ Reads \/ Creates
  \/ MarksSuccess \/ MarksFailure \/ Removes \/ Clears \/ Finishes \/ Sweeps

RetryStep(c) == RetryResetsFiles(c) \/ RetryQueues(c)

\* The endpoints, with what their requests may carry.
Uploads ==
  \E j \in Jobs, options \in Options :
    \E password \in Passwords[j] : CreateJob(j, options, password)

AsksRetry ==
  \E c \in Clients, j \in Jobs :
    \E password \in Passwords[j] : RetryChecks(c, j, password)

Next ==
  \/ Uploads \/ AsksRetry
  \/ \E c \in Clients : RetryStep(c) \/ RetryFails(c)
  \/ Work \/ Faults \/ Restarts

\* A promise whose statement is answered is continued: the worker and the retry
\* requests keep running.  Nobody has to upload anything.
Fairness == WF_vars(Work) /\ \A c \in Clients : WF_vars(RetryStep(c))

Spec == Init /\ [][Next]_vars /\ Fairness

-----------------------------------------------------------------------------
(* Correctness.                                                            *)

Finished(j) == job[j].status \in {"completed", "partial", "failed"}

\* "Usada por la importacion masiva para omitir movimientos ya registrados": no
\* movement is booked twice by jobs that skip duplicates, though files overlap, a
\* file is retried after its rows were created and not marked, and several jobs
\* wait in the chain.
NoDoubleImport ==
  \A m \in Movements :
    LET by == {f \in Files : imported[f][m] > 0 /\ job[JobOf[f]].options.skip}
    IN  /\ \A f \in by : imported[f][m] = 1
        /\ Cardinality(by) <= 1

\* An accepted job or retry is brought to an end unless its own task meets an
\* error or the process stops: what happens to the tasks before it in the chain
\* does not matter.
JobsFinish ==
  \A j \in Jobs : job[j].status = "pending" ~>
    Finished(j) \/ j \in broken \/ restarts > 0

Booked(f) == {m \in Movements : imported[f][m] > 0}

\* What a job that was not retried reports is what became of its files: the
\* statuses, the sums over the files that succeeded, and no error for these.
ReportIsTrue ==
  \A j \in Jobs : Finished(j) /\ j \notin retried =>
    LET good == {f \in FilesOf(j) : file[f].status = "success"}
        sum(k) == Total(Len(JobOf), [f \in Files |-> IF f \in good THEN file[f].totals[k] ELSE 0])
    IN  /\ job[j].success = Cardinality(good)
        /\ job[j].failed = Cardinality(FilesOf(j) \ good)
        /\ job[j].status = "completed" <=> good = FilesOf(j) /\ good # {}
        /\ \A k \in DOMAIN NoTotals : job[j].totals[k] = sum(k)
        /\ \A f \in FilesOf(j) : file[f].error = NoError <=> f \in good

\* The figures of a file are those of its lines: each is in the books because of
\* this file or was skipped, and what has no category is counted once, unless the
\* job neither names a category nor asks for one.
LinesAreAccounted ==
  \A f \in Files : file[f].status = "success" =>
    LET t == file[f].totals
        options == job[JobOf[f]].options
    IN  /\ t.created <= Cardinality(Booked(f)) /\ t.parsed = t.created + t.skipped
        /\ t.created > 0 \/ options.skip
        /\ options.category \/ options.assign =>
             t.uncategorized = IF options.category THEN 0
               ELSE IF t.created = 0 THEN 0 ELSE Cardinality(Booked(f) \ Ruled)

\* No statement of a bank stays on the disk when its job has ended: one failed
\* removal is made good by the removal of the directory.
NothingStaysOnDisk ==
  \A j \in Jobs :
    Finished(j) /\ (worker = Idle \/ worker.job # j) /\ j \notin broken
      /\ restarts = 0 /\ faults <= 1
    => disk \cap FilesOf(j) = {}
=============================================================================
