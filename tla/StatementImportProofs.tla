------------------------ MODULE StatementImportProofs ------------------------
(***************************************************************************)
(* Proofs about the import of statements, for any jobs, files, passwords,  *)
(* faults, stops and retries.  The inductive invariant says what a task    *)
(* may rely on at each of its steps: a job waits in the chain for its first*)
(* task once and untouched (Queue), the list of the task is of files       *)
(* nobody else judges (ToDo), what was read of the books is still true     *)
(* (KnowsBooks), a file is created from as a whole (BooksContent), the     *)
(* sums of the task are those of the files that have their outcome         *)
(* (TallyTrue), and what is on the disk is still to be taken (Removing).   *)
(***************************************************************************)
EXTENDS StatementImport, TotalsTheorems, FiniteSetTheorems, SequenceTheorems

(* The shape of the state.                                                 *)

TotalsType == [parsed : Int, created : Int, skipped : Int, uncategorized : Int]
PasswordType == {"none", "wrong", "right"}
TaskType == [kind : {"first", "retry"}, job : Jobs, password : PasswordType]
JobStatus == {"none", "pending", "processing", "completed", "partial", "failed"}
FileStatus == {"none", "pending", "processing", "success", "failed"}
Codes == {"none", "PDF_INVALID", "UNSUPPORTED_FILE", "PDF_PASSWORD_REQUIRED",
          "PDF_WRONG_PASSWORD", "NO_TRANSACTIONS"}
JobType == [status : JobStatus, options : Options \cup {{}}, success : Nat,
            failed : Nat, totals : TotalsType, error : BOOLEAN]
FileType == [status : FileStatus, path : BOOLEAN, error : Codes, totals : TotalsType]

\* The steps before and while the files are taken.
Early  == {"start", "mark", "list"}
OnFile == {"read", "create", "succeed", "fail"}
After  == {"remove", "clear"}
Taking == {"next"} \cup OnFile \cup After
Steps  == Early \cup Taking \cup {"sweep"}

WorkerType ==
  [at : Steps, kind : {"first", "retry"}, job : Jobs, password : PasswordType,
   left : SUBSET Files, known : SUBSET ({"text", "Date"} \X Movements), outcome : TotalsType,
   code : Codes, success : Nat, failed : Nat, totals : TotalsType, thrown : BOOLEAN]
RetryType == [at : {"files", "job"}, job : Jobs, password : PasswordType]

TablesTyped ==
  /\ job \in [Jobs -> JobType] /\ file \in [Files -> FileType]
  /\ disk \subseteq Files /\ imported \in [Files -> [Movements -> Nat]]

TasksTyped ==
  /\ chain \in Seq(TaskType) /\ worker \in WorkerType \cup {Idle}
  /\ retry \in [Clients -> RetryType \cup {Idle}]

CountersTyped ==
  /\ faults \in Nat /\ restarts \in Nat /\ retries \in Nat
  /\ broken \subseteq Jobs /\ retried \subseteq Jobs

Shape == TablesTyped /\ TasksTyped /\ CountersTyped

\* What the task has still to do.
ToDo ==
  worker.at \in Taking =>
    /\ worker.left \subseteq FilesOf(worker.job)
    /\ worker.at # "next" => worker.left # {}
    /\ \A f \in worker.left :
         \/ worker.at \in After /\ f = Current
         \/ file[f].status = IF worker.at \in OnFile /\ f = Current THEN "processing" ELSE "pending"

-----------------------------------------------------------------------------

\* A worker at one of its steps is a record of a task.
LEMMA WorkerTyped ==
  ASSUME Shape, worker.at \in Steps
  PROVE  worker \in WorkerType
BY DEF Shape, TasksTyped, Idle, Steps, Early, Taking, OnFile, After

\* There are finitely many different lines in a statement.
LEMMA ContentFinite ==
  ASSUME NEW f \in Files
  PROVE  /\ IsFiniteSet(ToSet(Content[f])) /\ ToSet(Content[f]) \subseteq Movements
         /\ Len(Content[f]) \in Nat
         /\ Cardinality(ToSet(Content[f])) <= Len(Content[f])
<1> DEFINE n == Len(Content[f])
<1>1. Content[f] \in Seq(Movements)
  BY ImportAssumption
<1>2. n \in Nat /\ Content[f] \in [1..n -> Movements] /\ DOMAIN Content[f] = 1..n
  BY <1>1, LenProperties
<1>3. Content[f] \in Surjection(1..n, ToSet(Content[f]))
  BY <1>2 DEF Surjection, ToSet
<1>4. IsFiniteSet(1..n) /\ Cardinality(1..n) = n
  BY <1>2, FS_Interval
<1> QED
  BY <1>2, <1>3, <1>4, FS_Surjection DEF ToSet

\* The file being taken is one of those that are left.
LEMMA CurrentIsLeft ==
  ASSUME worker.left \subseteq Files, worker.left # {}
  PROVE  Current \in worker.left /\ Current \in Files
<1>1. worker.left \in SUBSET Nat
  BY DEF Files
<1>2. \E f \in worker.left : \A g \in worker.left : f <= g
  BY <1>1, LeastElement
<1> QED
  BY <1>2 DEF Current

\* The file the worker is busy with.
LEMMA CurrentTaken ==
  ASSUME Shape, ToDo, worker.at \in OnFile \cup After
  PROVE  Current \in worker.left /\ Current \in Files
<1>1. worker.left # {} /\ worker.left \subseteq Files
  BY DEF ToDo, Taking, OnFile, After, FilesOf
<1> QED
  BY <1>1, CurrentIsLeft

\* The figures of a file are integers.
LEMMA OutcomeTyped ==
  ASSUME Shape, ToDo, At("create")
  PROVE  /\ OutcomeOf \in TotalsType
         /\ Fresh \subseteq ToSet(Content[Current]) /\ IsFiniteSet(Fresh)
         /\ Cardinality(Fresh) \in Nat
<1>1. Current \in Files
  BY CurrentTaken DEF At, OnFile
<1>2. /\ IsFiniteSet(ToSet(Content[Current])) /\ Len(Content[Current]) \in Nat
  BY <1>1, ContentFinite
<1>3. /\ Fresh \subseteq ToSet(Content[Current])
      /\ {m \in Fresh : ~ Categorised(m)} \subseteq Fresh
  BY DEF Fresh
<1>4. IsFiniteSet(Fresh) /\ Cardinality(Fresh) \in Nat
  BY <1>2, <1>3, FS_Subset, FS_CardinalityType
<1>5. Cardinality({m \in Fresh : ~ Categorised(m)}) \in Nat
  BY <1>3, <1>4, FS_Subset, FS_CardinalityType
<1>6. OutcomeOf \in TotalsType
  BY <1>2, <1>4, <1>5 DEF OutcomeOf, TotalsType
<1> QED
  BY <1>3, <1>4, <1>6

\* The rows createJob inserts.
LEMMA FreshRows ==
  /\ NoTotals \in TotalsType /\ NoJob \in JobType /\ NoFile \in FileType
  /\ [NoFile EXCEPT !.status = "pending", !.path = TRUE] \in FileType
<1>1. NoTotals \in TotalsType
  BY DEF NoTotals, TotalsType
<1>2. NoJob \in JobType /\ NoFile \in FileType
  BY <1>1 DEF NoJob, NoFile, JobType, FileType, JobStatus, FileStatus, NoError, Codes
<1>3. [NoFile EXCEPT !.status = "pending", !.path = TRUE] \in FileType
  BY <1>2 DEF FileType, FileStatus
<1> QED
  BY <1>1, <1>2, <1>3

\* The initial state is well formed.
LEMMA ShapeInit == Init => Shape
<1>1. << >> \in Seq(TaskType)
  BY EmptySeq
<1>4. ASSUME Init PROVE TablesTyped
  BY <1>4, FreshRows DEF Init, TablesTyped
<1>5. ASSUME Init PROVE TasksTyped /\ CountersTyped
  BY <1>5, <1>1 DEF Init, TasksTyped, CountersTyped
<1> QED
  BY <1>4, <1>5 DEF Shape

\* A step keeps the tables well formed.
LEMMA TablesStep ==
  ASSUME Shape, ToDo, [Next]_vars
  PROVE  TablesTyped'
<1> USE DEF Shape, TablesTyped
<1>1. CASE Uploads
  <2>0. PICK j \in Jobs, options \in Options : \E password \in Passwords[j] : CreateJob(j, options, password)
    BY <1>1 DEF Uploads
  <2>1. PICK password \in Passwords[j] : CreateJob(j, options, password)
    BY <2>0
  <2>3. file' \in [Files -> FileType]
    BY <2>1, FreshRows DEF CreateJob
  <2>4. job' \in [Jobs -> JobType]
    BY <2>1 DEF CreateJob, JobType, JobStatus
  <2> QED
    BY <2>1, <2>3, <2>4 DEF CreateJob, FilesOf
<1>2. CASE AsksRetry
  BY <1>2 DEF AsksRetry, RetryChecks
<1>3. ASSUME NEW c \in Clients, RetryStep(c) \/ RetryFails(c) PROVE TablesTyped'
  <2>1. CASE RetryResetsFiles(c)
    <3>1. \A f \in Files :
            [file[f] EXCEPT !.status = "pending", !.error = NoError, !.totals = NoTotals] \in FileType
      BY FreshRows DEF FileType, FileStatus, NoError, Codes
    <3> QED
      BY <2>1, <3>1 DEF RetryResetsFiles
  <2>2. CASE RetryQueues(c)
    BY <2>2 DEF RetryQueues, JobType, JobStatus
  <2>3. CASE RetryFails(c)
    BY <2>3 DEF RetryFails
  <2> QED
    BY <1>3, <2>1, <2>2, <2>3 DEF RetryStep
<1>4. CASE Work
  <2>1. CASE Takes
    BY <2>1 DEF Takes
  <2>2. CASE Starts
    BY <2>2 DEF Starts
  <2>3. CASE MarksJob
    BY <2>3 DEF MarksJob, JobType, JobStatus
  <2>4. CASE Lists
    BY <2>4 DEF Lists
  <2>5. CASE MarksFile
    BY <2>5 DEF MarksFile, FileType, FileStatus
  <2>6. CASE Reads
    BY <2>6 DEF Reads
  <2>7. CASE Creates
    <3>1. Current \in Files
      BY <2>7, CurrentTaken DEF Creates, At, OnFile
    <3>2. [m \in Movements |-> IF m \in Fresh THEN imported[Current][m] + 1 ELSE imported[Current][m]]
            \in [Movements -> Nat]
      BY <3>1
    <3> QED
      BY <2>7, <3>1, <3>2 DEF Creates
  <2>8. CASE MarksSuccess
    <3>1. worker \in WorkerType
      BY <2>8, WorkerTyped DEF MarksSuccess, At, Steps, Taking, OnFile
    <3> QED
      BY <2>8, <3>1 DEF MarksSuccess, FileType, FileStatus, WorkerType, NoError, Codes
  <2>9. CASE MarksFailure
    <3>1. worker \in WorkerType
      BY <2>9, WorkerTyped DEF MarksFailure, At, Steps, Taking, OnFile
    <3> QED
      BY <2>9, <3>1 DEF MarksFailure, FileType, FileStatus, WorkerType, Codes
  <2>10. CASE Removes
    BY <2>10 DEF Removes
  <2>11. CASE Clears
    BY <2>11 DEF Clears, FileType
  <2>12. CASE Finishes
    <3>1. worker \in WorkerType
      BY <2>12, WorkerTyped DEF Finishes, At, Steps, Taking
    <3> QED
      BY <2>12, <3>1 DEF Finishes, JobType, JobStatus, WorkerType, Outcome
  <2>13. CASE Sweeps
    BY <2>13 DEF Sweeps, Swept
  <2> QED
    BY <1>4, <2>1, <2>2, <2>3, <2>4, <2>5, <2>6, <2>7, <2>8, <2>9, <2>10, <2>11, <2>12, <2>13 DEF Work
<1>5. CASE Faults
  BY <1>5 DEF Faults
<1>6. CASE Restarts
  BY <1>6 DEF Restarts
<1>7. CASE UNCHANGED vars
  BY <1>7 DEF vars
<1> QED
  BY <1>1, <1>2, <1>3, <1>4, <1>5, <1>6, <1>7 DEF Next

\* What the worker knows of the books are fingerprints.
LEMMA ExistingTyped == Existing \in SUBSET ({"text", "Date"} \X Movements)
BY ImportAssumption DEF Existing, Stored

\* What makes a file fail is a code other than none.
LEMMA RefusalTyped ==
  ASSUME NEW f PROVE Refusal(f) \in Codes
BY DEF Refusal, Codes, NoError

\* Figures are added field by field.
LEMMA PlusTyped ==
  ASSUME NEW s \in TotalsType, NEW t \in TotalsType
  PROVE  /\ Plus(s, t) \in TotalsType
         /\ \A k \in DOMAIN NoTotals : Plus(s, t)[k] = s[k] + t[k]
<1> DEFINE K == {"parsed", "created", "skipped", "uncategorized"}
<1>1. DOMAIN s = K /\ DOMAIN NoTotals = K
  BY DEF TotalsType, NoTotals
<1>2. \A k \in K : s[k] \in Int /\ t[k] \in Int
  BY DEF TotalsType
<1>3. Plus(s, t) = [k \in K |-> s[k] + t[k]]
  BY <1>1 DEF Plus
<1>4. Plus(s, t) = [parsed |-> s.parsed + t.parsed, created |-> s.created + t.created,
                    skipped |-> s.skipped + t.skipped,
                    uncategorized |-> s.uncategorized + t.uncategorized]
  BY <1>3
<1>5. Plus(s, t) \in TotalsType
  BY <1>2, <1>4 DEF TotalsType
<1> QED
  BY <1>1, <1>3, <1>5

\* A step keeps the queue, the worker and the requests well formed.
LEMMA TasksStep ==
  ASSUME Shape, ToDo, [Next]_vars
  PROVE  TasksTyped'
<1> USE DEF Shape, TasksTyped
<1> DEFINE Keeps == chain' = chain /\ retry' = retry
<1>1. CASE Uploads
  <2>1. PICK j \in Jobs, options \in Options : \E password \in Passwords[j] : CreateJob(j, options, password)
    BY <1>1 DEF Uploads
  <2>2. PICK password \in Passwords[j] : CreateJob(j, options, password)
    BY <2>1
  <2>3. Task("first", j, password) \in TaskType
    BY <2>2, ImportAssumption DEF Task, TaskType, PasswordType
  <2> QED
    BY <2>2, <2>3, AppendProperties DEF CreateJob
<1>2. CASE AsksRetry
  BY <1>2, ImportAssumption DEF AsksRetry, RetryChecks, RetryType, PasswordType
<1>3. ASSUME NEW c \in Clients, RetryStep(c) \/ RetryFails(c) PROVE TasksTyped'
  <2>1. CASE RetryResetsFiles(c)
    <3>0. retry[c].at = "files"
      BY <2>1 DEF RetryResetsFiles
    <3>1. retry[c] \in RetryType
      BY <3>0 DEF Idle
    <3> QED
      BY <2>1, <3>1 DEF RetryResetsFiles, RetryType
  <2>2. CASE RetryQueues(c)
    <3>1. retry[c] \in RetryType
      BY <2>2 DEF RetryQueues, Idle
    <3>2. Task("retry", retry[c].job, retry[c].password) \in TaskType
      BY <3>1 DEF Task, TaskType, RetryType
    <3> QED
      BY <2>2, <3>2, AppendProperties DEF RetryQueues
  <2>3. CASE RetryFails(c)
    BY <2>3 DEF RetryFails
  <2> QED
    BY <1>3, <2>1, <2>2, <2>3 DEF RetryStep
<1>4. CASE Work
  <2>1. CASE Takes
    <3>1. Head(chain) \in TaskType /\ Tail(chain) \in Seq(TaskType)
      BY <2>1, HeadTailProperties DEF Takes
    <3>2. worker' \in WorkerType
      BY <2>1, <3>1, FreshRows DEF Takes, TaskType, WorkerType, Steps, Early, NoError, Codes
    <3> QED
      BY <2>1, <3>1, <3>2 DEF Takes
  <2>2. CASE Starts
    <3>1. worker \in WorkerType
      BY <2>2, WorkerTyped DEF Starts, At, Steps, Early
    <3> QED
      BY <2>2, <3>1 DEF Starts, Goto, WorkerType, Steps, Early
  <2>3. CASE MarksJob
    <3>1. worker \in WorkerType
      BY <2>3, WorkerTyped DEF MarksJob, At, Steps, Early
    <3> QED
      BY <2>3, <3>1 DEF MarksJob, Goto, WorkerType, Steps, Early
  <2>4. CASE Lists
    <3>1. worker \in WorkerType
      BY <2>4, WorkerTyped DEF Lists, At, Steps, Early
    <3> QED
      BY <2>4, <3>1 DEF Lists, WorkerType, Steps, Taking, FilesOf
  <2>5. CASE MarksFile
    <3>1. worker \in WorkerType
      BY <2>5, WorkerTyped DEF MarksFile, At, Steps, Taking
    <3> QED
      BY <2>5, <3>1 DEF MarksFile, Goto, WorkerType, Steps, Taking, OnFile
  <2>6. CASE Reads
    <3>1. worker \in WorkerType
      BY <2>6, WorkerTyped DEF Reads, At, Steps, Taking, OnFile
    <3> QED
      BY <2>6, <3>1, ExistingTyped, RefusalTyped DEF Reads, WorkerType, Steps, Taking, OnFile
  <2>7. CASE Creates
    <3>1. worker \in WorkerType
      BY <2>7, WorkerTyped DEF Creates, At, Steps, Taking, OnFile
    <3> QED
      BY <2>7, <3>1, OutcomeTyped DEF Creates, WorkerType, Steps, Taking, OnFile
  <2>8. CASE MarksSuccess
    <3>1. worker \in WorkerType
      BY <2>8, WorkerTyped DEF MarksSuccess, At, Steps, Taking, OnFile
    <3>2. Plus(worker.totals, worker.outcome) \in TotalsType
      BY <3>1, PlusTyped DEF WorkerType
    <3>3. "remove" \in Steps /\ NoTotals \in TotalsType /\ worker.success + 1 \in Nat
      BY <3>1, FreshRows DEF WorkerType, Steps, Taking, After
    <3>4. worker' = [worker EXCEPT !.at = "remove", !.success = @ + 1, !.outcome = NoTotals,
                                   !.known = {}, !.totals = Plus(@, worker.outcome)]
      BY <2>8 DEF MarksSuccess
    <3>5. worker' \in WorkerType
      BY <3>1, <3>2, <3>3, <3>4 DEF WorkerType
    <3> QED
      BY <2>8, <3>5 DEF MarksSuccess
  <2>9. CASE MarksFailure
    <3>1. worker \in WorkerType
      BY <2>9, WorkerTyped DEF MarksFailure, At, Steps, Taking, OnFile
    <3>2. /\ "remove" \in Steps /\ NoTotals \in TotalsType /\ NoError \in Codes
          /\ worker.failed + 1 \in Nat
      BY <3>1, FreshRows DEF WorkerType, Steps, Taking, After, NoError, Codes
    <3>3. worker' \in WorkerType
      BY <2>9, <3>1, <3>2 DEF MarksFailure, WorkerType
    <3> QED
      BY <2>9, <3>2, <3>3 DEF MarksFailure
  <2>10. CASE Removes
    <3>1. worker \in WorkerType
      BY <2>10, WorkerTyped DEF Removes, At, Steps, Taking, After
    <3> QED
      BY <2>10, <3>1 DEF Removes, Goto, WorkerType, Steps, Taking, After
  <2>11. CASE Clears
    <3>1. worker \in WorkerType
      BY <2>11, WorkerTyped DEF Clears, At, Steps, Taking, After
    <3>2. "next" \in Steps /\ worker.left \ {Current} \in SUBSET Files
      BY <3>1 DEF WorkerType, Steps, Taking
    <3>3. [worker EXCEPT !.at = "next", !.left = @ \ {Current}] \in WorkerType
      BY <3>1, <3>2 DEF WorkerType
    <3> QED
      BY <2>11, <3>1, <3>2, <3>3 DEF Clears, Throws
  <2>12. CASE Finishes
    <3>1. worker \in WorkerType
      BY <2>12, WorkerTyped DEF Finishes, At, Steps, Taking
    <3> QED
      BY <2>12, <3>1 DEF Finishes, Goto, WorkerType, Steps
  <2>13. CASE Sweeps
    BY <2>13 DEF Sweeps
  <2> QED
    BY <1>4, <2>1, <2>2, <2>3, <2>4, <2>5, <2>6, <2>7, <2>8, <2>9, <2>10, <2>11, <2>12, <2>13 DEF Work
<1>5. CASE Faults
  <2>1. CASE worker.at \in {"read", "create", "succeed"}
    <3>1. worker \in WorkerType
      BY <2>1, WorkerTyped DEF Steps, Taking, OnFile
    <3>2. "fail" \in Steps /\ "PDF_INVALID" \in Codes
      BY DEF Steps, Taking, OnFile, Codes
    <3>3. [worker EXCEPT !.at = "fail", !.code = "PDF_INVALID"] \in WorkerType
      BY <3>1, <3>2 DEF WorkerType
    <3> QED
      BY <1>5, <2>1, <3>3 DEF Faults
  <2>2. CASE worker.at = "fail"
    <3>1. worker \in WorkerType
      BY <2>2, WorkerTyped DEF Steps, Taking, OnFile
    <3>2. "remove" \in Steps /\ NoError \in Codes /\ NoTotals \in TotalsType
      BY FreshRows DEF Steps, Taking, After, Codes, NoError
    <3>3. [worker EXCEPT !.at = "remove", !.thrown = TRUE, !.outcome = NoTotals,
                         !.known = {}, !.code = NoError] \in WorkerType
      BY <3>1, <3>2 DEF WorkerType
    <3> QED
      BY <1>5, <2>2, <3>3 DEF Faults
  <2>3. CASE worker.at = "remove"
    <3>1. worker \in WorkerType
      BY <2>3, WorkerTyped DEF Steps, Taking, After
    <3> QED
      BY <1>5, <2>3, <3>1 DEF Faults, Goto, WorkerType, Steps, Taking, After
  <2>4. CASE worker.at = "sweep"
    BY <1>5, <2>4 DEF Faults
  <2>5. CASE worker.at \in {"start", "mark", "list", "next", "clear"}
    BY <1>5, <2>5 DEF Faults, Throws
  <2> QED
    BY <1>5, <2>1, <2>2, <2>3, <2>4, <2>5 DEF Faults
<1>6. CASE Restarts
  BY <1>6, EmptySeq DEF Restarts
<1>7. CASE UNCHANGED vars
  BY <1>7 DEF vars
<1> QED
  BY <1>1, <1>2, <1>3, <1>4, <1>5, <1>6, <1>7 DEF Next

\* A step keeps the counters and the histories well formed.
LEMMA CountersStep ==
  ASSUME Shape, [Next]_vars
  PROVE  CountersTyped'
<1> USE DEF Shape, CountersTyped
<1>1. CASE Uploads
  BY <1>1 DEF Uploads, CreateJob, counters
<1>2. CASE AsksRetry
  BY <1>2 DEF AsksRetry, RetryChecks
<1>3. ASSUME NEW c \in Clients, RetryStep(c) \/ RetryFails(c) PROVE CountersTyped'
  <2>1. CASE RetryResetsFiles(c)
    BY <2>1 DEF RetryResetsFiles, counters
  <2>2. CASE RetryQueues(c)
    BY <2>2 DEF RetryQueues, counters
  <2>3. CASE RetryFails(c)
    BY <2>3 DEF RetryFails
  <2> QED
    BY <1>3, <2>1, <2>2, <2>3 DEF RetryStep
<1>4. CASE Work
  <2>1. CASE Clears
    <3>1. worker.job \in Jobs
      BY <2>1, WorkerTyped DEF Clears, At, Steps, Taking, After, WorkerType
    <3> QED
      BY <2>1, <3>1 DEF Clears, Throws, counters
  <2> QED
    BY <1>4, <2>1 DEF Work, Takes, Starts, MarksJob, Lists, MarksFile, Reads, Creates, MarksSuccess,
       MarksFailure, Removes, Finishes, Sweeps, counters
<1>5. CASE Faults
  <2>1. CASE worker.at \in {"start", "mark", "list", "next", "clear"}
    <3>1. worker.job \in Jobs
      BY <2>1, WorkerTyped DEF Steps, Early, Taking, After, WorkerType
    <3> QED
      BY <1>5, <2>1, <3>1 DEF Faults, Throws
  <2> QED
    BY <1>5, <2>1 DEF Faults
<1>6. CASE Restarts
  BY <1>6 DEF Restarts
<1>7. CASE UNCHANGED vars
  BY <1>7 DEF vars, counters
<1> QED
  BY <1>1, <1>2, <1>3, <1>4, <1>5, <1>6, <1>7 DEF Next

\* A step keeps the state well formed.
LEMMA ShapeStep ==
  ASSUME Shape, ToDo, [Next]_vars
  PROVE  Shape'
BY TablesStep, TasksStep, CountersStep DEF Shape

-----------------------------------------------------------------------------
(* The queue.                                                              *)

FirstQueued(j) == \E i \in 1 .. Len(chain) : chain[i].kind = "first" /\ chain[i].job = j

On(j) == worker.at \in Steps /\ worker.job = j
FirstOn(j) == On(j) /\ worker.kind = "first"

\* A job is queued for the first time once.
QueuedOnce ==
  /\ \A i, k \in 1 .. Len(chain) :
       chain[i].kind = "first" /\ chain[k].kind = "first" /\ chain[i].job = chain[k].job => i = k
  /\ \A j \in Jobs : FirstQueued(j) => ~ On(j)

\* Retries are of jobs that were created, and are remembered.
RetriesRemembered ==
  /\ \A i \in 1 .. Len(chain) : chain[i].kind = "retry" => chain[i].job \in retried
  /\ worker.at \in Steps => worker.kind = "first" \/ worker.job \in retried
  /\ \A c \in Clients : retry[c] # Idle => retry[c].job \in retried

\* Nothing is known of a job nobody uploaded.
NothingBefore ==
  \A j \in Jobs : job[j].status = "none" =>
    /\ j \notin retried /\ ~ FirstQueued(j) /\ ~ On(j)
    /\ \A f \in FilesOf(j) :
         file[f].status = "none" /\ \A m \in Movements : imported[f][m] = 0

Waits(j) == FirstQueued(j) \/ (FirstOn(j) /\ worker.at \in Early)

\* The files of a job that waits for its first task are as they were uploaded.
Waiting ==
  \A j \in Jobs : Waits(j) =>
    /\ j \notin retried
    /\ job[j].status = IF On(j) /\ worker.at = "list" THEN "processing" ELSE "pending"
    /\ \A f \in FilesOf(j) : file[f].status = "pending"

Queue == QueuedOnce /\ RetriesRemembered /\ NothingBefore /\ Waiting

-----------------------------------------------------------------------------

\* A task that goes on, or ends: it touches its own job only, and its job until
\* the files are listed as the first steps say.
Continues ==
  /\ chain' = chain /\ retried' = retried
  /\ \A c \in Clients : retry'[c] \in {retry[c], Idle}
  /\ worker'.at \in Steps =>
       worker.at \in Steps /\ worker'.kind = worker.kind /\ worker'.job = worker.job
  /\ \A j \in Jobs :
       /\ ~ On(j) => /\ job'[j] = job[j]
                     /\ \A f \in FilesOf(j) : file'[f] = file[f] /\ imported'[f] = imported[f]
       /\ job'[j].options = job[j].options
       /\ job'[j].status = "none" => job[j].status = "none"
  /\ worker'.at \in Early =>
       /\ worker.at \in Early /\ file' = file
       /\ \/ worker' = worker /\ job' = job
          \/ worker'.at = "mark" /\ worker.at = "start" /\ job' = job
          \/ worker'.at = "list" /\ worker.at = "mark" /\ job'[worker.job].status = "processing"

\* Every step is one of the clients', takes a task, stops the process, or goes on.
LEMMA StepKinds ==
  ASSUME Shape, ToDo, [Next]_vars
  PROVE  \/ Uploads \/ AsksRetry \/ Takes \/ Restarts \/ Continues
         \/ \E c \in Clients : RetryResetsFiles(c) \/ RetryQueues(c)
<1>1. ASSUME NEW c \in Clients, RetryFails(c) PROVE Continues
  BY <1>1 DEF RetryFails, Continues, Shape, TasksTyped
<1>2. CASE Work
  <2>1. SUFFICES ASSUME ~ Takes PROVE Continues
    OBVIOUS
  <2>2. worker.at \in Steps /\ worker \in WorkerType
    <3>1. worker.at \in Steps
      BY <1>2, <2>1 DEF Work, Starts, MarksJob, Lists, MarksFile, Reads, Creates, MarksSuccess,
         MarksFailure, Removes, Clears, Finishes, Sweeps, At, Steps, Early, Taking, OnFile, After
    <3> QED
      BY <3>1, WorkerTyped
  <2>3. worker.job \in Jobs
    BY <2>2 DEF WorkerType
  <2>4. CASE Starts
    <3>1. CASE job[worker.job].status = "pending"
      BY <2>2, <2>4, <3>1 DEF Starts, Goto, Continues, WorkerType, At, Early
    <3>2. CASE job[worker.job].status # "pending"
      BY <2>2, <2>4, <3>2 DEF Starts, Continues, Idle, Early, Steps, Taking, OnFile, After
    <3> QED
      BY <3>1, <3>2
  <2>5. CASE MarksJob
    BY <2>2, <2>3, <2>5 DEF MarksJob, Goto, Continues, WorkerType, At, Early, On, Shape, TablesTyped, JobType
  <2>6. CASE Lists
    BY <2>2, <2>6 DEF Lists, Continues, WorkerType, At, Early
  <2>7. ASSUME worker.at \in OnFile \cup After
        PROVE Current \in Files /\ JobOf[Current] = worker.job
    <3>1. Current \in worker.left
      BY <2>7, CurrentTaken
    <3>2. worker.left \subseteq FilesOf(worker.job)
      BY <2>7 DEF ToDo, Taking
    <3> QED
      BY <3>1, <3>2 DEF FilesOf
  <2>8. CASE MarksFile
    <3>1. Current \in FilesOf(worker.job)
      BY <2>8, CurrentIsLeft DEF MarksFile, At, ToDo, Taking, FilesOf
    <3>2. \A j \in Jobs : ~ On(j) => Current \notin FilesOf(j)
      BY <2>2, <3>1 DEF On, FilesOf
    <3> QED
      BY <2>2, <2>8, <3>1, <3>2 DEF MarksFile, Goto, Continues, WorkerType, Early, Shape, TablesTyped, FilesOf
  <2>9. CASE Reads
    BY <2>2, <2>9 DEF Reads, Continues, WorkerType, Early
  <2>10. CASE Creates
    <3>1. \A j \in Jobs : ~ On(j) => Current \notin FilesOf(j)
      BY <2>2, <2>7, <2>10 DEF On, FilesOf, Creates, At, OnFile
    <3> QED
      BY <2>2, <2>10, <3>1 DEF Creates, Continues, WorkerType, Early, Shape, TablesTyped, FilesOf
  <2>11. CASE MarksSuccess
    <3>1. \A j \in Jobs : ~ On(j) => Current \notin FilesOf(j)
      BY <2>2, <2>7, <2>11 DEF On, FilesOf, MarksSuccess, At, OnFile
    <3> QED
      BY <2>2, <2>11, <3>1 DEF MarksSuccess, Continues, WorkerType, Early, Shape, TablesTyped, FilesOf
  <2>12. CASE MarksFailure
    <3>1. \A j \in Jobs : ~ On(j) => Current \notin FilesOf(j)
      BY <2>2, <2>7, <2>12 DEF On, FilesOf, MarksFailure, At, OnFile
    <3> QED
      BY <2>2, <2>12, <3>1 DEF MarksFailure, Continues, WorkerType, Early, Shape, TablesTyped, FilesOf
  <2>13. CASE Removes
    BY <2>2, <2>13 DEF Removes, Goto, Continues, WorkerType, Early
  <2>14. CASE Clears
    <3>1. \A j \in Jobs : ~ On(j) => Current \notin FilesOf(j)
      BY <2>2, <2>7, <2>14 DEF On, FilesOf, Clears, At, After
    <3>2. \A j \in Jobs : ~ On(j) =>
            \A f \in FilesOf(j) : file'[f] = file[f] /\ imported'[f] = imported[f]
      BY <2>14, <3>1 DEF Clears, Shape, TablesTyped, FilesOf
    <3>3. CASE worker.thrown
      <4>1. worker' = Idle /\ UNCHANGED <<job, chain, retry, retried>>
        BY <2>14, <3>3 DEF Clears, Throws
      <4>2. worker'.at \notin Steps
        BY <4>1 DEF Idle, Steps, Early, Taking, OnFile, After
      <4> QED
        BY <3>2, <4>1, <4>2 DEF Continues, Steps
    <3>4. CASE ~ worker.thrown
      BY <2>2, <2>14, <3>2, <3>4 DEF Clears, Continues, WorkerType, Early
    <3> QED
      BY <3>3, <3>4
  <2>15. CASE Finishes
    BY <2>2, <2>3, <2>15 DEF Finishes, Goto, Outcome, Continues, WorkerType, Early, On, Shape, TablesTyped, JobType
  <2>16. CASE Sweeps
    BY <2>2, <2>16 DEF Sweeps, Continues, Idle, Early, Steps, Taking, OnFile, After
  <2> QED
    BY <1>2, <2>1, <2>4, <2>5, <2>6, <2>8, <2>9, <2>10, <2>11, <2>12, <2>13, <2>14, <2>15, <2>16 DEF Work
<1>3. CASE Faults
  <2>1. CASE worker.at \in {"read", "create", "succeed"}
    <3>1. worker \in WorkerType
      BY <2>1, WorkerTyped DEF Steps, Taking, OnFile
    <3> QED
      BY <1>3, <2>1, <3>1 DEF Faults, Continues, WorkerType, Early, Steps, Taking, OnFile, After
  <2>2. CASE worker.at = "fail"
    <3>1. worker \in WorkerType
      BY <2>2, WorkerTyped DEF Steps, Taking, OnFile
    <3> QED
      BY <1>3, <2>2, <3>1 DEF Faults, Continues, WorkerType, Early, Steps, Taking, OnFile, After
  <2>3. CASE worker.at = "remove"
    <3>1. worker \in WorkerType
      BY <2>3, WorkerTyped DEF Steps, Taking, After
    <3> QED
      BY <1>3, <2>3, <3>1 DEF Faults, Goto, Continues, WorkerType, Early, Steps, Taking, OnFile, After
  <2>4. CASE worker.at = "sweep"
    BY <1>3, <2>4 DEF Faults, Continues, Idle, Early, Steps, Taking, OnFile, After
  <2>5. CASE worker.at \in {"start", "mark", "list", "next", "clear"}
    BY <1>3, <2>5 DEF Faults, Throws, Continues, Idle, Early, Steps, Taking, OnFile, After
  <2> QED
    BY <1>3, <2>1, <2>2, <2>3, <2>4, <2>5 DEF Faults
<1>4. CASE UNCHANGED vars
  BY <1>4 DEF vars, Continues, Shape, TasksTyped
<1> QED
  BY <1>1, <1>2, <1>3, <1>4 DEF Next, RetryStep

\* A task that is appended to the queue.
LEMMA Appended ==
  ASSUME Shape, NEW t \in TaskType, chain' = Append(chain, t)
  PROVE  /\ Len(chain) \in Nat /\ Len(chain') = Len(chain) + 1
         /\ \A i \in 1 .. Len(chain) : chain'[i] = chain[i]
         /\ chain'[Len(chain) + 1] = t
         /\ \A j : FirstQueued(j)' <=> FirstQueued(j) \/ (t.kind = "first" /\ t.job = j)
<1>1. Len(chain) \in Nat
  BY LenProperties DEF Shape, TasksTyped
<1>2. /\ Len(chain') = Len(chain) + 1
      /\ \A i \in 1 .. Len(chain) : chain'[i] = chain[i]
      /\ chain'[Len(chain) + 1] = t
  BY AppendProperties DEF Shape, TasksTyped
<1> QED
  BY <1>1, <1>2 DEF FirstQueued

\* The task that is taken from the queue.
LEMMA Taken ==
  ASSUME Shape, Takes
  PROVE  /\ Len(chain) \in Nat /\ Len(chain) > 0 /\ Len(chain') = Len(chain) - 1
         /\ \A i \in 1 .. Len(chain') : chain'[i] = chain[i + 1]
         /\ \A j : FirstQueued(j)' => FirstQueued(j)
         /\ worker.at = "idle" /\ chain[1] \in TaskType
         /\ worker'.at = (IF chain[1].kind = "first" THEN "start" ELSE "mark")
         /\ worker'.kind = chain[1].kind /\ worker'.job = chain[1].job
         /\ ~ worker'.thrown /\ worker'.left = {}
         /\ UNCHANGED <<job, file, disk, imported, retry, counters, broken, retried>>
<1>1. chain \in Seq(TaskType) /\ chain # << >>
  BY DEF Shape, TasksTyped, Takes
<1>2. Len(chain) \in Nat /\ Len(chain) > 0
  BY <1>1, LenProperties, EmptySeq
<1>3. /\ Len(chain') = Len(chain) - 1
      /\ \A i \in 1 .. Len(chain') : chain'[i] = chain[i + 1]
  BY <1>1, HeadTailProperties DEF Takes
<1>4. Head(chain) = chain[1] /\ chain[1] \in TaskType
  BY <1>1, <1>2, ElementOfSeq
<1>5. \A j : FirstQueued(j)' => FirstQueued(j)
  BY <1>2, <1>3 DEF FirstQueued
<1> QED
  BY <1>2, <1>3, <1>4, <1>5 DEF Takes, At

\* Nothing queues a job for the first time but its upload.
LEMMA QueuedOnceStep ==
  ASSUME Shape, ToDo, Queue, [Next]_vars
  PROVE  QueuedOnce'
<1> USE DEF Queue
<1>1. CASE Uploads
  <2>1. PICK j \in Jobs, options \in Options : \E password \in Passwords[j] : CreateJob(j, options, password)
    BY <1>1 DEF Uploads
  <2>2. PICK password \in Passwords[j] : CreateJob(j, options, password)
    BY <2>1
  <2> DEFINE t == Task("first", j, password)
  <2>3. t \in TaskType /\ t.kind = "first" /\ t.job = j
    BY <2>2, ImportAssumption DEF Task, TaskType, PasswordType
  <2>4. chain' = Append(chain, t) /\ worker' = worker /\ job[j].status = "none"
    BY <2>2 DEF CreateJob
  <2> HIDE DEF t
  <2>5. ~ FirstQueued(j) /\ ~ On(j)
    BY <2>4 DEF NothingBefore
  <2>6. \A i, k \in 1 .. Len(chain') :
          chain'[i].kind = "first" /\ chain'[k].kind = "first" /\ chain'[i].job = chain'[k].job => i = k
    BY <2>3, <2>4, <2>5, Appended DEF QueuedOnce, FirstQueued
  <2>7. \A i \in Jobs : FirstQueued(i)' => ~ On(i)'
    BY <2>3, <2>4, <2>5, Appended DEF QueuedOnce, On
  <2> QED
    BY <2>6, <2>7 DEF QueuedOnce
<1>2. CASE AsksRetry
  BY <1>2 DEF AsksRetry, RetryChecks, QueuedOnce, FirstQueued, On
<1>3. ASSUME NEW c \in Clients, RetryResetsFiles(c) PROVE QueuedOnce'
  BY <1>3 DEF RetryResetsFiles, QueuedOnce, FirstQueued, On
<1>4. ASSUME NEW c \in Clients, RetryQueues(c) PROVE QueuedOnce'
  <2> DEFINE t == Task("retry", retry[c].job, retry[c].password)
  <2>1. retry[c] \in RetryType
    BY <1>4 DEF RetryQueues, Idle, Shape, TasksTyped
  <2>2. t \in TaskType /\ t.kind = "retry"
    BY <2>1 DEF Task, TaskType, RetryType
  <2>3. chain' = Append(chain, t) /\ worker' = worker
    BY <1>4 DEF RetryQueues
  <2> HIDE DEF t
  <2>4. \A i, k \in 1 .. Len(chain') :
          chain'[i].kind = "first" /\ chain'[k].kind = "first" /\ chain'[i].job = chain'[k].job => i = k
    BY <2>2, <2>3, Appended DEF QueuedOnce
  <2>5. \A i \in Jobs : FirstQueued(i)' => ~ On(i)'
    BY <2>2, <2>3, Appended DEF QueuedOnce, On
  <2> QED
    BY <2>4, <2>5 DEF QueuedOnce
<1>5. CASE Takes
  <2>1. \A i, k \in 1 .. Len(chain') :
          chain'[i].kind = "first" /\ chain'[k].kind = "first" /\ chain'[i].job = chain'[k].job => i = k
    BY <1>5, Taken DEF QueuedOnce
  <2>2. ASSUME NEW j \in Jobs, FirstQueued(j)' PROVE ~ On(j)'
    <3>1. SUFFICES ASSUME chain[1].job = j PROVE FALSE
      BY <1>5, Taken DEF On
    <3>2. PICK i \in 1 .. Len(chain') : chain'[i].kind = "first" /\ chain'[i].job = j
      BY <2>2 DEF FirstQueued
    <3>3. i + 1 \in 1 .. Len(chain) /\ chain[i + 1].kind = "first" /\ chain[i + 1].job = j
      BY <1>5, <3>2, Taken
    <3>4. chain[1].kind # "first"
      BY <1>5, <3>1, <3>3, Taken DEF QueuedOnce
    <3>5. chain[1].kind = "retry" /\ 1 \in 1 .. Len(chain)
      BY <1>5, <3>4, Taken DEF TaskType
    <3>6. j \in retried
      BY <3>1, <3>5 DEF RetriesRemembered
    <3> QED
      BY <3>3, <3>6 DEF Waiting, Waits, FirstQueued
  <2> QED
    BY <2>1, <2>2 DEF QueuedOnce
<1>6. CASE Restarts
  BY <1>6 DEF Restarts, QueuedOnce, FirstQueued, On, Idle, Steps, Early, Taking, OnFile, After
<1>7. CASE Continues
  BY <1>7 DEF Continues, QueuedOnce, FirstQueued, On
<1> QED
  BY <1>1, <1>2, <1>3, <1>4, <1>5, <1>6, <1>7, StepKinds

\* A retry is remembered before it is queued.
LEMMA RetriesStep ==
  ASSUME Shape, ToDo, Queue, [Next]_vars
  PROVE  RetriesRemembered'
<1> USE DEF Queue
<1>1. CASE Uploads
  <2>1. PICK j \in Jobs, options \in Options : \E password \in Passwords[j] : CreateJob(j, options, password)
    BY <1>1 DEF Uploads
  <2>2. PICK password \in Passwords[j] : CreateJob(j, options, password)
    BY <2>1
  <2> DEFINE t == Task("first", j, password)
  <2>3. t \in TaskType /\ t.kind = "first"
    BY <2>2, ImportAssumption DEF Task, TaskType, PasswordType
  <2>4. chain' = Append(chain, t) /\ UNCHANGED <<worker, retry, retried>>
    BY <2>2 DEF CreateJob
  <2> HIDE DEF t
  <2> QED
    BY <2>3, <2>4, Appended DEF RetriesRemembered
<1>2. CASE AsksRetry
  <2>0. PICK c \in Clients, j \in Jobs : \E password \in Passwords[j] : RetryChecks(c, j, password)
    BY <1>2 DEF AsksRetry
  <2>1. PICK password \in Passwords[j] : RetryChecks(c, j, password)
    BY <2>0
  <2>2. \A d \in Clients : retry'[d] # Idle => retry'[d].job \in retried'
    BY <2>1 DEF RetryChecks, RetriesRemembered, Shape, TasksTyped
  <2> QED
    BY <2>1, <2>2 DEF RetryChecks, RetriesRemembered
<1>3. ASSUME NEW c \in Clients, RetryResetsFiles(c) PROVE RetriesRemembered'
  <2>1. retry[c].at = "files" /\ retry' = [retry EXCEPT ![c].at = "job"] /\ UNCHANGED <<chain, worker, retried>>
    BY <1>3 DEF RetryResetsFiles
  <2>2. retry[c] \in RetryType /\ retry[c] # Idle
    BY <2>1 DEF Idle, Shape, TasksTyped
  <2>3. \A d \in Clients : retry'[d] # Idle => retry[d] # Idle /\ retry'[d].job = retry[d].job
    BY <2>1, <2>2 DEF RetryType, Shape, TasksTyped
  <2> QED
    BY <2>1, <2>3 DEF RetriesRemembered
<1>4. ASSUME NEW c \in Clients, RetryQueues(c) PROVE RetriesRemembered'
  <2> DEFINE t == Task("retry", retry[c].job, retry[c].password)
  <2>1. retry[c].at = "job" /\ chain' = Append(chain, t) /\ retry' = [retry EXCEPT ![c] = Idle]
        /\ UNCHANGED <<worker, retried>>
    BY <1>4 DEF RetryQueues
  <2>2. retry[c] \in RetryType /\ retry[c] # Idle
    BY <2>1 DEF Idle, Shape, TasksTyped
  <2>3. t \in TaskType /\ t.job \in retried
    BY <2>2 DEF Task, TaskType, RetryType, RetriesRemembered
  <2>4. \A d \in Clients : retry'[d] # Idle => retry'[d] = retry[d]
    BY <2>1 DEF Shape, TasksTyped
  <2> HIDE DEF t
  <2> QED
    BY <2>1, <2>3, <2>4, Appended DEF RetriesRemembered
<1>5. CASE Takes
  <2>1. 1 \in 1 .. Len(chain) /\ (chain[1].kind = "first" \/ chain[1].kind = "retry")
    BY <1>5, Taken DEF TaskType
  <2>2. worker'.kind = "first" \/ worker'.job \in retried'
    BY <1>5, <2>1, Taken DEF RetriesRemembered
  <2>3. \A i \in 1 .. Len(chain') : chain'[i].kind = "retry" => chain'[i].job \in retried'
    BY <1>5, Taken DEF RetriesRemembered
  <2>4. \A c \in Clients : retry'[c] # Idle => retry'[c].job \in retried'
    BY <1>5, Taken DEF RetriesRemembered
  <2> QED
    BY <2>2, <2>3, <2>4 DEF RetriesRemembered
<1>6. CASE Restarts
  BY <1>6 DEF Restarts, RetriesRemembered, Idle, Steps, Early, Taking, OnFile, After
<1>7. CASE Continues
  BY <1>7 DEF Continues, RetriesRemembered
<1> QED
  BY <1>1, <1>2, <1>3, <1>4, <1>5, <1>6, <1>7, StepKinds

\* What nobody uploaded stays unknown.
LEMMA NothingBeforeStep ==
  ASSUME Shape, ToDo, Queue, [Next]_vars
  PROVE  NothingBefore'
<1> USE DEF Queue
<1>1. CASE Uploads
  <2>1. PICK j \in Jobs, options \in Options : \E password \in Passwords[j] : CreateJob(j, options, password)
    BY <1>1 DEF Uploads
  <2>2. PICK password \in Passwords[j] : CreateJob(j, options, password)
    BY <2>1
  <2> DEFINE t == Task("first", j, password)
  <2>3. t \in TaskType /\ t.kind = "first" /\ t.job = j
    BY <2>2, ImportAssumption DEF Task, TaskType, PasswordType
  <2>4. chain' = Append(chain, t) /\ UNCHANGED <<worker, retried, imported>>
    BY <2>2 DEF CreateJob
  <2> HIDE DEF t
  <2>5. \A i \in Jobs : job'[i].status = "none" =>
          /\ i # j /\ job[i].status = "none"
          /\ \A f \in FilesOf(i) : file'[f] = file[f]
    BY <2>2 DEF CreateJob, Shape, TablesTyped, JobType, FilesOf
  <2>6. \A i \in Jobs : i # j => (FirstQueued(i)' <=> FirstQueued(i))
    BY <2>3, <2>4, Appended
  <2> QED
    BY <2>4, <2>5, <2>6 DEF NothingBefore, On, FilesOf
<1>2. CASE AsksRetry
  <2>0. PICK c \in Clients, j \in Jobs : \E password \in Passwords[j] : RetryChecks(c, j, password)
    BY <1>2 DEF AsksRetry
  <2>1. PICK password \in Passwords[j] : RetryChecks(c, j, password)
    BY <2>0
  <2>2. job[j].status # "none"
    BY <2>1 DEF RetryChecks, Failed, NothingBefore
  <2> QED
    BY <2>1, <2>2 DEF RetryChecks, NothingBefore, FirstQueued, On
<1>3. ASSUME NEW c \in Clients, RetryResetsFiles(c) PROVE NothingBefore'
  <2>1. \A f \in Files : file[f].status = "none" => file'[f] = file[f]
    BY <1>3 DEF RetryResetsFiles, Failed
  <2>2. UNCHANGED <<job, imported, chain, worker, retried>>
    BY <1>3 DEF RetryResetsFiles
  <2> QED
    BY <2>1, <2>2 DEF NothingBefore, FirstQueued, On, FilesOf
<1>4. ASSUME NEW c \in Clients, RetryQueues(c) PROVE NothingBefore'
  <2> DEFINE t == Task("retry", retry[c].job, retry[c].password)
  <2>1. retry[c] \in RetryType
    BY <1>4 DEF RetryQueues, Idle, Shape, TasksTyped
  <2>2. t \in TaskType /\ t.kind = "retry"
    BY <2>1 DEF Task, TaskType, RetryType
  <2>3. chain' = Append(chain, t) /\ UNCHANGED <<worker, file, imported, retried>>
    BY <1>4 DEF RetryQueues
  <2> HIDE DEF t
  <2>4. \A i \in Jobs : job'[i].status = "none" => job[i].status = "none"
    BY <1>4, <2>1 DEF RetryQueues, Shape, TablesTyped, JobType
  <2> QED
    BY <2>2, <2>3, <2>4, Appended DEF NothingBefore, On
<1>5. CASE Takes
  <2>1. ASSUME NEW j \in Jobs, job[j].status = "none" PROVE ~ On(j)'
    <3>1. SUFFICES ASSUME chain[1].job = j PROVE FALSE
      BY <1>5, Taken DEF On
    <3>2. 1 \in 1 .. Len(chain) /\ (chain[1].kind = "first" \/ chain[1].kind = "retry")
      BY <1>5, Taken DEF TaskType
    <3>3. FirstQueued(j) \/ j \in retried
      BY <3>1, <3>2 DEF FirstQueued, RetriesRemembered
    <3> QED
      BY <2>1, <3>3 DEF NothingBefore
  <2> QED
    BY <1>5, <2>1, Taken DEF NothingBefore
<1>6. CASE Restarts
  BY <1>6 DEF Restarts, NothingBefore, FirstQueued, On, Idle, Steps, Early, Taking, OnFile, After
<1>7. CASE Continues
  BY <1>7 DEF Continues, NothingBefore, FirstQueued, On
<1> QED
  BY <1>1, <1>2, <1>3, <1>4, <1>5, <1>6, <1>7, StepKinds

\* A job that waits for its first task is left as it was uploaded.
LEMMA WaitingStep ==
  ASSUME Shape, ToDo, Queue, [Next]_vars
  PROVE  Waiting'
<1> USE DEF Queue
<1>1. CASE Uploads
  <2>1. PICK j \in Jobs, options \in Options : \E password \in Passwords[j] : CreateJob(j, options, password)
    BY <1>1 DEF Uploads
  <2>2. PICK password \in Passwords[j] : CreateJob(j, options, password)
    BY <2>1
  <2> DEFINE t == Task("first", j, password)
  <2>3. t \in TaskType /\ t.kind = "first" /\ t.job = j
    BY <2>2, ImportAssumption DEF Task, TaskType, PasswordType
  <2>4. chain' = Append(chain, t) /\ UNCHANGED <<worker, retried>> /\ job[j].status = "none"
    BY <2>2 DEF CreateJob
  <2> HIDE DEF t
  <2>5. \A i \in Jobs : i # j =>
          /\ job'[i] = job[i] /\ \A f \in FilesOf(i) : file'[f] = file[f]
          /\ Waits(i)' => Waits(i)
    BY <2>2, <2>3, <2>4, Appended DEF CreateJob, Shape, TablesTyped, FilesOf, Waits, FirstOn, On
  <2>6. job'[j].status = "pending" /\ \A f \in FilesOf(j) : file'[f].status = "pending"
    BY <2>2 DEF CreateJob, Shape, TablesTyped, JobType, FilesOf, NoFile
  <2>7. j \notin retried /\ ~ On(j)
    BY <2>4 DEF NothingBefore
  <2> QED
    BY <2>4, <2>5, <2>6, <2>7 DEF Waiting, On, FilesOf
<1>2. CASE AsksRetry
  <2>0. PICK c \in Clients, j \in Jobs : \E password \in Passwords[j] : RetryChecks(c, j, password)
    BY <1>2 DEF AsksRetry
  <2>1. PICK password \in Passwords[j] : RetryChecks(c, j, password)
    BY <2>0
  <2>2. ~ Waits(j)
    BY <2>1 DEF RetryChecks, Failed, Waiting
  <2> QED
    BY <2>1, <2>2 DEF RetryChecks, Waiting, Waits, FirstQueued, FirstOn, On
<1>3. ASSUME NEW c \in Clients, RetryResetsFiles(c) PROVE Waiting'
  <2>1. \A f \in Files : file[f].status = "pending" => file'[f] = file[f]
    BY <1>3 DEF RetryResetsFiles, Failed
  <2>2. UNCHANGED <<job, imported, chain, worker, retried>>
    BY <1>3 DEF RetryResetsFiles
  <2> QED
    BY <2>1, <2>2 DEF Waiting, Waits, FirstQueued, FirstOn, On, FilesOf
<1>4. ASSUME NEW c \in Clients, RetryQueues(c) PROVE Waiting'
  <2> DEFINE t == Task("retry", retry[c].job, retry[c].password)
  <2>1. retry[c] \in RetryType /\ retry[c] # Idle
    BY <1>4 DEF RetryQueues, Idle, Shape, TasksTyped
  <2>2. t \in TaskType /\ t.kind = "retry"
    BY <2>1 DEF Task, TaskType, RetryType
  <2>3. chain' = Append(chain, t) /\ UNCHANGED <<worker, file, imported, retried>>
    BY <1>4 DEF RetryQueues
  <2> HIDE DEF t
  <2>4. \A i \in Jobs : i \notin retried => job'[i] = job[i]
    BY <1>4, <2>1 DEF RetryQueues, Shape, TablesTyped, RetriesRemembered
  <2>5. \A i \in Jobs : Waits(i)' => Waits(i)
    BY <2>2, <2>3, Appended DEF Waits, FirstOn, On
  <2> QED
    BY <2>3, <2>4, <2>5 DEF Waiting, On
<1>5. CASE Takes
  <2>1. \A j \in Jobs : Waits(j)' => FirstQueued(j)
    BY <1>5, Taken DEF Waits, FirstOn, On, FirstQueued
  <2>2. worker'.at # "list" /\ ~ (worker.at \in Steps)
    BY <1>5, Taken DEF Steps, Early, Taking, OnFile, After
  <2> QED
    BY <1>5, <2>1, <2>2, Taken DEF Waiting, Waits, On
<1>6. CASE Restarts
  BY <1>6 DEF Restarts, Waiting, Waits, FirstQueued, FirstOn, On, Idle, Steps, Early, Taking, OnFile, After
<1>7. CASE Continues
  <2>1. ASSUME NEW j \in Jobs, FirstQueued(j)'
        PROVE /\ j \notin retried' /\ ~ On(j)' /\ job'[j].status = "pending"
              /\ \A f \in FilesOf(j) : file'[f].status = "pending"
    <3>1. FirstQueued(j) /\ Waits(j)
      BY <1>7, <2>1 DEF Continues, FirstQueued, Waits
    <3>2. ~ On(j) /\ ~ On(j)'
      BY <1>7, <3>1 DEF QueuedOnce, Continues, On
    <3> QED
      BY <1>7, <3>1, <3>2 DEF Continues, Waiting
  <2>2. ASSUME NEW j \in Jobs, FirstOn(j)', worker'.at \in Early
        PROVE /\ j \notin retried'
              /\ job'[j].status = IF worker'.at = "list" THEN "processing" ELSE "pending"
              /\ \A f \in FilesOf(j) : file'[f].status = "pending"
    <3>1. Waits(j) /\ On(j) /\ worker.job = j
      BY <1>7, <2>2 DEF Continues, FirstOn, On, Waits
    <3> QED
      BY <1>7, <2>2, <3>1 DEF Continues, Waiting
  <2> QED
    BY <2>1, <2>2 DEF Waiting, Waits, On, FirstOn, FilesOf
<1> QED
  BY <1>1, <1>2, <1>3, <1>4, <1>5, <1>6, <1>7, StepKinds

\* A step keeps the queue in order.
LEMMA QueueStep ==
  ASSUME Shape, ToDo, Queue, [Next]_vars
  PROVE  Queue'
BY QueuedOnceStep, RetriesStep, NothingBeforeStep, WaitingStep DEF Queue

-----------------------------------------------------------------------------
(* The books.                                                              *)

Books(f, m) == imported[f][m] > 0

\* What the worker read of the books is still true, and the file has lines.
KnowsBooks ==
  worker.at = "create" =>
    /\ worker.known = IF Asked.skip THEN Existing ELSE {}
    /\ Content[Current] # << >>

\* A file that was created from has all its lines in the books.
BooksContent ==
  \A f \in Files, m \in Movements : Books(f, m) =>
    /\ m \in ToSet(Content[f])
    /\ \A n \in ToSet(Content[f]) : \E g \in Files : Books(g, n)

-----------------------------------------------------------------------------

\* The file being taken is the same while the list is.
LEMMA SameCurrent ==
  ASSUME worker'.left = worker.left
  PROVE  Current' = Current
BY DEF Current

\* The task of the worker is of a job that exists.
LEMMA WorkerJob ==
  ASSUME Shape, NothingBefore, worker.at \in Steps
  PROVE  worker \in WorkerType /\ worker.job \in Jobs /\ job[worker.job].status # "none"
<1>1. worker \in WorkerType
  BY WorkerTyped
<1>2. worker.job \in Jobs
  BY <1>1 DEF WorkerType
<1> QED
  BY <1>1, <1>2 DEF NothingBefore, On

\* A step within the work on one file.
LEMMA SameFileToDo ==
  ASSUME ToDo, worker.at \in OnFile, worker'.at \in OnFile, worker'.job = worker.job,
         worker'.left = worker.left, file' = file
  PROVE  ToDo'
<1>1. Current' = Current
  BY SameCurrent
<1>2. /\ worker.left \subseteq FilesOf(worker.job) /\ worker.left # {}
      /\ \A f \in worker.left : file[f].status = IF f = Current THEN "processing" ELSE "pending"
  BY DEF ToDo, Taking, OnFile, After
<1> QED
  BY <1>1, <1>2 DEF ToDo, FilesOf

\* The list stays one of files nobody else judges.
LEMMA ToDoStep ==
  ASSUME Shape, ToDo, Queue, [Next]_vars
  PROVE  ToDo'
<1> USE DEF Queue
<1>1. CASE Uploads
  <2>0. PICK j \in Jobs, options \in Options : \E password \in Passwords[j] : CreateJob(j, options, password)
    BY <1>1 DEF Uploads
  <2>1. PICK password \in Passwords[j] : CreateJob(j, options, password)
    BY <2>0
  <2>2. worker' = worker /\ Current' = Current
    BY <2>1, SameCurrent DEF CreateJob
  <2>3. SUFFICES ASSUME worker.at \in Taking PROVE ToDo'
    BY <2>2 DEF ToDo
  <2>4. worker.job # j
    BY <2>1, <2>3, WorkerJob DEF CreateJob, Steps
  <2>5. \A f \in FilesOf(worker.job) : file'[f] = file[f]
    BY <2>1, <2>4 DEF CreateJob, FilesOf
  <2> QED
    BY <2>2, <2>5 DEF ToDo, FilesOf
<1>2. CASE AsksRetry
  <2>1. worker' = worker /\ Current' = Current /\ file' = file
    BY <1>2, SameCurrent DEF AsksRetry, RetryChecks
  <2> QED
    BY <2>1 DEF ToDo, FilesOf
<1>3. ASSUME NEW c \in Clients, RetryResetsFiles(c) PROVE ToDo'
  <2>1. worker' = worker /\ Current' = Current
    BY <1>3, SameCurrent DEF RetryResetsFiles
  <2>2. \A f \in Files : file[f].status # "failed" => file'[f] = file[f]
    BY <1>3 DEF RetryResetsFiles, Failed
  <2> QED
    BY <2>1, <2>2 DEF ToDo, FilesOf
<1>4. ASSUME NEW c \in Clients, RetryQueues(c) \/ RetryFails(c) PROVE ToDo'
  <2>1. worker' = worker /\ Current' = Current /\ file' = file
    BY <1>4, SameCurrent DEF RetryQueues, RetryFails
  <2> QED
    BY <2>1 DEF ToDo, FilesOf
<1>5. CASE Work
  <2>1. CASE Takes
    BY <2>1, Taken DEF ToDo, Taking, OnFile, After
  <2>2. CASE Starts
    BY <2>2, WorkerTyped DEF Starts, Goto, At, ToDo, Idle, WorkerType, Steps, Early, Taking, OnFile, After
  <2>3. CASE MarksJob
    BY <2>3, WorkerTyped DEF MarksJob, Goto, At, ToDo, WorkerType, Steps, Early, Taking, OnFile, After
  <2>4. CASE Lists
    <3>1. worker \in WorkerType /\ worker.at = "list"
      BY <2>4, WorkerTyped DEF Lists, At, Steps, Early
    <3>2. worker.kind = "first" => \A f \in FilesOf(worker.job) : file[f].status = "pending"
      BY <3>1 DEF Waiting, Waits, FirstOn, On, Early, Steps, WorkerType
    <3>3. /\ worker'.at = "next" /\ worker'.job = worker.job /\ file' = file
          /\ worker'.left = IF worker.kind = "first" THEN FilesOf(worker.job)
                            ELSE {f \in FilesOf(worker.job) : file[f].status = "pending"}
      BY <2>4, <3>1 DEF Lists, WorkerType
    <3> QED
      BY <3>2, <3>3 DEF ToDo, OnFile, After, FilesOf
  <2>5. CASE MarksFile
    <3>1. worker \in WorkerType /\ worker.at = "next" /\ worker.left # {}
      BY <2>5, WorkerTyped DEF MarksFile, At, Steps, Taking
    <3>2. worker' = [worker EXCEPT !.at = "read"]
      BY <2>5 DEF MarksFile, Goto
    <3>3. /\ worker'.at = "read" /\ worker'.job = worker.job /\ worker'.left = worker.left
          /\ Current' = Current
      BY <3>1, <3>2, SameCurrent DEF WorkerType
    <3>4. /\ worker.left \subseteq FilesOf(worker.job)
          /\ \A f \in worker.left : file[f].status = "pending"
      BY <3>1 DEF ToDo, Taking, OnFile, After
    <3>5. \A f \in worker.left : file'[f].status = IF f = Current THEN "processing" ELSE "pending"
      BY <2>5, <3>4 DEF MarksFile, Shape, TablesTyped, FileType, FilesOf
    <3> QED
      BY <3>1, <3>3, <3>4, <3>5 DEF ToDo, OnFile, FilesOf
  <2>6. CASE Reads
    <3>1. worker \in WorkerType /\ worker.at = "read"
      BY <2>6, WorkerTyped DEF Reads, At, Steps, Taking, OnFile
    <3>2. /\ worker'.at \in {"create", "fail"} /\ worker'.job = worker.job /\ worker'.left = worker.left
          /\ file' = file
      BY <2>6, <3>1 DEF Reads, WorkerType
    <3> QED
      BY <3>1, <3>2, SameFileToDo DEF OnFile
  <2>7. CASE Creates
    <3>1. worker \in WorkerType /\ worker.at = "create"
      BY <2>7, WorkerTyped DEF Creates, At, Steps, Taking, OnFile
    <3>2. /\ worker'.at = "succeed" /\ worker'.job = worker.job /\ worker'.left = worker.left
          /\ file' = file
      BY <2>7, <3>1 DEF Creates, WorkerType
    <3> QED
      BY <3>1, <3>2, SameFileToDo DEF OnFile
  <2>8. CASE MarksSuccess \/ MarksFailure
    <3>1. worker \in WorkerType /\ worker.at \in OnFile
      BY <2>8, WorkerTyped DEF MarksSuccess, MarksFailure, At, Steps, Taking, OnFile
    <3>2. /\ worker'.at = "remove" /\ worker'.job = worker.job /\ worker'.left = worker.left
      BY <2>8, <3>1 DEF MarksSuccess, MarksFailure, WorkerType
    <3>3. \A f \in Files : f # Current => file'[f] = file[f]
      BY <2>8 DEF MarksSuccess, MarksFailure, Shape, TablesTyped
    <3> QED
      BY <3>1, <3>2, <3>3, SameCurrent DEF ToDo, Taking, OnFile, After, FilesOf
  <2>9. CASE Removes
    <3>1. worker \in WorkerType /\ worker.at = "remove"
      BY <2>9, WorkerTyped DEF Removes, At, Steps, Taking, After
    <3>2. /\ worker'.at = "clear" /\ worker'.job = worker.job /\ worker'.left = worker.left
          /\ file' = file
      BY <2>9, <3>1 DEF Removes, Goto, WorkerType
    <3> QED
      BY <3>1, <3>2, SameCurrent DEF ToDo, Taking, OnFile, After, FilesOf
  <2>10. CASE Clears
    <3>1. worker \in WorkerType /\ worker.at = "clear"
      BY <2>10, WorkerTyped DEF Clears, At, Steps, Taking, After
    <3>2. CASE worker.thrown
      BY <2>10, <3>2 DEF Clears, Throws, Idle, ToDo, Taking, OnFile, After
    <3>3. CASE ~ worker.thrown
      <4>1. worker' = [worker EXCEPT !.at = "next", !.left = @ \ {Current}]
        BY <2>10, <3>3 DEF Clears
      <4>2. worker'.at = "next" /\ worker'.job = worker.job /\ worker'.left = worker.left \ {Current}
        BY <3>1, <4>1 DEF WorkerType
      <4>3. \A f \in Files : f # Current => file'[f] = file[f]
        BY <2>10 DEF Clears, Shape, TablesTyped
      <4> QED
        BY <3>1, <4>2, <4>3 DEF ToDo, Taking, OnFile, After, FilesOf
    <3> QED
      BY <3>2, <3>3
  <2>11. CASE Finishes
    BY <2>11, WorkerTyped DEF Finishes, Goto, At, ToDo, WorkerType, Steps, Early, Taking, OnFile, After
  <2>12. CASE Sweeps
    BY <2>12 DEF Sweeps, Idle, ToDo, Taking, OnFile, After
  <2> QED
    BY <1>5, <2>1, <2>2, <2>3, <2>4, <2>5, <2>6, <2>7, <2>8, <2>9, <2>10, <2>11, <2>12 DEF Work
<1>6. CASE Faults
  <2>1. file' = file
    BY <1>6 DEF Faults
  <2>2. CASE worker.at \in {"read", "create", "succeed", "fail", "remove"}
    <3>1. worker \in WorkerType
      BY <2>2, WorkerTyped DEF Steps, Taking, OnFile, After
    <3>2. /\ worker'.job = worker.job /\ worker'.left = worker.left
          /\ worker'.at = IF worker.at \in {"read", "create", "succeed"} THEN "fail"
                          ELSE IF worker.at = "fail" THEN "remove" ELSE "clear"
      BY <1>6, <2>2, <3>1 DEF Faults, Goto, WorkerType
    <3> QED
      BY <2>1, <2>2, <3>2, SameCurrent DEF ToDo, Taking, OnFile, After, FilesOf
  <2>3. CASE worker.at \in {"sweep", "start", "mark", "list", "next", "clear"}
    BY <1>6, <2>3 DEF Faults, Throws, Idle, ToDo, Taking, OnFile, After
  <2> QED
    BY <1>6, <2>2, <2>3 DEF Faults
<1>7. CASE Restarts
  BY <1>7 DEF Restarts, Idle, ToDo, Taking, OnFile, After
<1>8. CASE UNCHANGED vars
  <2>1. worker' = worker /\ file' = file
    BY <1>8 DEF vars
  <2> QED
    BY <2>1, SameCurrent DEF ToDo, FilesOf
<1> QED
  BY <1>1, <1>2, <1>3, <1>4, <1>5, <1>6, <1>7, <1>8 DEF Next, RetryStep

\* A job keeps what it was asked for.
LEMMA OptionsKept ==
  ASSUME Shape, ToDo, Queue, [Next]_vars, NEW j \in Jobs, job[j].status # "none"
  PROVE  job'[j].options = job[j].options /\ job'[j].status # "none"
<1>1. CASE Uploads
  <2>0. PICK i \in Jobs, options \in Options : \E password \in Passwords[i] : CreateJob(i, options, password)
    BY <1>1 DEF Uploads
  <2>1. PICK password \in Passwords[i] : CreateJob(i, options, password)
    BY <2>0
  <2> QED
    BY <2>1 DEF CreateJob, Shape, TablesTyped
<1>2. CASE AsksRetry
  BY <1>2 DEF AsksRetry, RetryChecks
<1>3. ASSUME NEW c \in Clients, RetryResetsFiles(c)
      PROVE job' = job
  BY <1>3 DEF RetryResetsFiles
<1>4. ASSUME NEW c \in Clients, RetryQueues(c)
      PROVE job'[j].options = job[j].options /\ job'[j].status # "none"
  <2>1. retry[c] \in RetryType
    BY <1>4 DEF RetryQueues, Idle, Shape, TasksTyped
  <2> QED
    BY <1>4, <2>1 DEF RetryQueues, Shape, TablesTyped, JobType
<1>5. CASE Takes
  BY <1>5 DEF Takes
<1>6. CASE Restarts
  BY <1>6 DEF Restarts
<1>7. CASE Continues
  BY <1>7 DEF Continues
<1> QED
  BY <1>1, <1>2, <1>3, <1>4, <1>5, <1>6, <1>7, StepKinds

\* Only createMany writes to the books.
LEMMA BooksKept ==
  ASSUME [Next]_vars, ~ Creates
  PROVE  imported' = imported
<1>1. CASE Uploads \/ AsksRetry
  BY <1>1 DEF Uploads, CreateJob, AsksRetry, RetryChecks
<1>2. ASSUME NEW c \in Clients, RetryStep(c) \/ RetryFails(c) PROVE imported' = imported
  BY <1>2 DEF RetryStep, RetryResetsFiles, RetryQueues, RetryFails
<1>3. CASE Work
  BY <1>3 DEF Work, Takes, Starts, MarksJob, Lists, MarksFile, Reads, MarksSuccess, MarksFailure,
     Removes, Clears, Finishes, Sweeps
<1>4. CASE Faults \/ Restarts \/ UNCHANGED vars
  BY <1>4 DEF Faults, Restarts, vars
<1> QED
  BY <1>1, <1>2, <1>3, <1>4 DEF Next

\* What createMany writes.
LEMMA CreatesBooks ==
  ASSUME Shape, ToDo, Queue, Creates
  PROVE  /\ worker \in WorkerType /\ worker.at = "create" /\ worker.job \in Jobs
         /\ Current \in Files /\ JobOf[Current] = worker.job /\ job' = job /\ file' = file
         /\ file[Current].status = "processing"
         /\ \A f \in Files, m \in Movements :
              imported'[f][m] = IF f = Current /\ m \in Fresh THEN imported[f][m] + 1 ELSE imported[f][m]
<1>1. worker \in WorkerType /\ worker.at = "create"
  BY WorkerTyped DEF Creates, At, Steps, Taking, OnFile
<1>2. Current \in Files /\ JobOf[Current] = worker.job
  BY <1>1, CurrentTaken DEF ToDo, Taking, OnFile, FilesOf
<1>3. file[Current].status = "processing"
  BY <1>1, CurrentTaken DEF ToDo, Taking, OnFile, After
<1>4. imported[Current] \in [Movements -> Nat]
  BY <1>2 DEF Shape, TablesTyped
<1>5. \A f \in Files, m \in Movements :
        imported'[f][m] = IF f = Current /\ m \in Fresh THEN imported[f][m] + 1 ELSE imported[f][m]
  BY <1>2, <1>4 DEF Creates, Shape, TablesTyped
<1> QED
  BY <1>1, <1>2, <1>3, <1>5 DEF Creates, WorkerType

\* A file that was created from belongs to a job that exists.
LEMMA BookedJob ==
  ASSUME Shape, Queue, NEW f \in Files, NEW m \in Movements, Books(f, m)
  PROVE  JobOf[f] \in Jobs /\ job[JobOf[f]].status # "none"
<1>1. JobOf[f] \in Jobs
  BY ImportAssumption, ElementOfSeq DEF Files
<1>2. imported[f][m] # 0
  BY DEF Books
<1> QED
  BY <1>1, <1>2 DEF Queue, NothingBefore, FilesOf

\* Where each step of the worker leads.
LEMMA StepsLead ==
  ASSUME Shape
  PROVE  /\ Takes => worker'.at \in {"start", "mark"}
         /\ Starts => worker'.at \in {"mark", "idle"}
         /\ MarksJob => worker'.at = "list"
         /\ Lists => worker'.at = "next"
         /\ MarksFile => worker'.at = "read"
         /\ Reads => worker'.at \in {"create", "fail"}
         /\ Creates => worker'.at = "succeed"
         /\ MarksSuccess \/ MarksFailure => worker'.at = "remove"
         /\ Removes => worker'.at = "clear"
         /\ Clears => worker'.at \in {"next", "idle"}
         /\ Finishes => worker'.at = "sweep"
         /\ Sweeps \/ Restarts => worker'.at = "idle"
         /\ Faults => /\ worker'.at = "fail" => worker.at \in {"read", "create", "succeed"}
                      /\ worker'.at \in {"fail", "remove", "clear", "idle"}
<1>1. Takes => worker'.at \in {"start", "mark"}
  BY Taken
<1>2. Starts => worker'.at \in {"mark", "idle"}
  BY WorkerTyped DEF Starts, Goto, At, Idle, WorkerType, Steps, Early
<1>3. (MarksJob => worker'.at = "list") /\ (Lists => worker'.at = "next")
  BY WorkerTyped DEF MarksJob, Lists, Goto, At, WorkerType, Steps, Early
<1>4. (MarksFile => worker'.at = "read") /\ (Finishes => worker'.at = "sweep")
  BY WorkerTyped DEF MarksFile, Finishes, Goto, At, WorkerType, Steps, Taking
<1>5. (Reads => worker'.at \in {"create", "fail"}) /\ (Creates => worker'.at = "succeed")
  BY WorkerTyped DEF Reads, Creates, At, WorkerType, Steps, Taking, OnFile
<1>6. MarksSuccess \/ MarksFailure => worker'.at = "remove"
  BY WorkerTyped DEF MarksSuccess, MarksFailure, At, WorkerType, Steps, Taking, OnFile
<1>7. Removes => worker'.at = "clear"
  BY WorkerTyped DEF Removes, Goto, At, WorkerType, Steps, Taking, After
<1>8. ASSUME Clears PROVE worker'.at \in {"next", "idle"}
  <2>1. worker \in WorkerType
    BY <1>8, WorkerTyped DEF Clears, At, Steps, Taking, After
  <2>2. CASE worker.thrown
    BY <1>8, <2>2 DEF Clears, Throws, Idle
  <2>3. CASE ~ worker.thrown
    BY <1>8, <2>1, <2>3 DEF Clears, WorkerType
  <2> QED
    BY <2>2, <2>3
<1>9. Sweeps \/ Restarts => worker'.at = "idle"
  BY DEF Sweeps, Restarts, Idle
<1>10. ASSUME Faults
       PROVE  /\ worker'.at = "fail" => worker.at \in {"read", "create", "succeed"}
              /\ worker'.at \in {"fail", "remove", "clear", "idle"}
  <2>1. worker.at \in Steps => worker \in WorkerType
    BY WorkerTyped
  <2>2. CASE worker.at \in {"read", "create", "succeed", "fail", "remove"}
    BY <1>10, <2>1, <2>2 DEF Faults, Goto, WorkerType, Steps, Taking, OnFile, After
  <2>3. CASE worker.at \in {"sweep", "start", "mark", "list", "next", "clear"}
    BY <1>10, <2>3 DEF Faults, Throws, Idle
  <2> QED
    BY <1>10, <2>2, <2>3 DEF Faults
<1> QED
  BY <1>1, <1>2, <1>3, <1>4, <1>5, <1>6, <1>7, <1>8, <1>9, <1>10

\* The clients do not move the worker.
LEMMA ClientsStep ==
  ASSUME Uploads \/ AsksRetry \/ (\E c \in Clients : RetryStep(c) \/ RetryFails(c))
  PROVE  worker' = worker
<1>1. CASE Uploads \/ AsksRetry
  BY <1>1 DEF Uploads, CreateJob, AsksRetry, RetryChecks
<1>2. ASSUME NEW c \in Clients, RetryStep(c) \/ RetryFails(c) PROVE worker' = worker
  BY <1>2 DEF RetryStep, RetryResetsFiles, RetryQueues, RetryFails
<1> QED
  BY <1>1, <1>2

\* What leads to the creation of the rows, and to the marking of the file.
LEMMA Leading ==
  ASSUME Shape, [Next]_vars
  PROVE  /\ worker'.at = "create" => Reads \/ worker' = worker
         /\ worker'.at = "succeed" => Creates \/ worker' = worker
         /\ worker'.at = "fail" => Reads \/ worker' = worker
                                    \/ (Faults /\ worker.at \in {"read", "create", "succeed"})
BY StepsLead, ClientsStep DEF Next, Work, vars

\* The books do not change between the look-up of the duplicates and the creation.
LEMMA KnowsBooksStep ==
  ASSUME Shape, ToDo, Queue, KnowsBooks, [Next]_vars
  PROVE  KnowsBooks'
<1>1. SUFFICES ASSUME worker'.at = "create" PROVE KnowsBooks'
  BY DEF KnowsBooks
<1>2. CASE Reads
  <2>1. worker \in WorkerType /\ worker.at = "read"
    BY <1>2, WorkerTyped DEF Reads, At, Steps, Taking, OnFile
  <2>2. Refusal(Current) = NoError
    BY <1>1, <1>2, <2>1 DEF Reads, WorkerType
  <2>3. Content[Current] # << >>
    BY <2>2 DEF Refusal, NoError
  <2>4. /\ worker'.left = worker.left /\ worker'.job = worker.job
        /\ worker'.known = IF Asked.skip THEN Existing ELSE {}
        /\ imported' = imported /\ job' = job
    BY <1>2, <2>1, <2>2 DEF Reads, WorkerType
  <2>5. Current' = Current /\ Existing' = Existing /\ Asked' = Asked
    BY <2>4, SameCurrent DEF Existing, Stored, Asked
  <2> QED
    BY <2>3, <2>4, <2>5 DEF KnowsBooks
<1>3. CASE worker' = worker
  <2>1. worker.at = "create" /\ Current' = Current
    BY <1>1, <1>3, SameCurrent
  <2>2. ~ Creates
    BY <1>1, <1>3, <2>1, WorkerTyped DEF Creates, WorkerType, Steps, Taking, OnFile
  <2>3. imported' = imported
    BY <2>2, BooksKept
  <2>4. worker.job \in Jobs /\ job[worker.job].status # "none"
    BY <2>1, WorkerJob DEF Queue, Steps, Taking, OnFile
  <2>5. Existing' = Existing /\ Asked' = Asked
    BY <1>3, <2>3, <2>4, OptionsKept DEF Existing, Stored, Asked
  <2> QED
    BY <1>3, <2>1, <2>5 DEF KnowsBooks
<1> QED
  BY <1>1, <1>2, <1>3, Leading

\* A file is created from as a whole.
LEMMA BooksContentStep ==
  ASSUME Shape, ToDo, Queue, KnowsBooks, BooksContent, [Next]_vars
  PROVE  BooksContent'
<1>1. CASE ~ Creates
  BY <1>1, BooksKept DEF BooksContent, Books
<1>2. CASE Creates
  <2>1. /\ worker.at = "create" /\ Current \in Files
        /\ \A f \in Files, m \in Movements :
             imported'[f][m] = IF f = Current /\ m \in Fresh THEN imported[f][m] + 1 ELSE imported[f][m]
    BY <1>2, CreatesBooks
  <2>2. \A f \in Files, m \in Movements : imported[f][m] \in Nat
    BY DEF Shape, TablesTyped
  <2>3. \A f \in Files, m \in Movements : Books(f, m) => Books(f, m)'
    BY <2>1, <2>2 DEF Books
  <2>4. ToSet(Content[Current]) \subseteq Movements
    BY <2>1, ContentFinite
  <2>5. ASSUME NEW m \in Movements, m \in Fresh PROVE \E g \in Files : Books(g, m)'
    <3>1. imported'[Current][m] = imported[Current][m] + 1
      BY <2>1, <2>5
    <3> QED
      BY <2>1, <2>2, <3>1 DEF Books
  <2>6. ASSUME NEW n \in ToSet(Content[Current]) PROVE \E g \in Files : Books(g, n)'
    <3>1. CASE n \in Fresh
      BY <2>4, <2>5, <2>6, <3>1
    <3>2. CASE n \notin Fresh
      <4>1. Parsed(n) \in Existing
        BY <2>1, <2>6, <3>2 DEF Fresh, KnowsBooks
      <4>2. \E g \in Files : Books(g, n)
        BY <4>1 DEF Existing, Parsed, Stored, Books
      <4> QED
        BY <2>3, <2>4, <4>2
    <3> QED
      BY <3>1, <3>2
  <2>7. ASSUME NEW f \in Files, NEW m \in Movements, Books(f, m)'
        PROVE  /\ m \in ToSet(Content[f])
               /\ \A n \in ToSet(Content[f]) : \E g \in Files : Books(g, n)'
    <3>1. CASE f = Current /\ m \in Fresh
      BY <2>6, <3>1 DEF Fresh
    <3>2. CASE ~ (f = Current /\ m \in Fresh)
      <4>1. Books(f, m)
        BY <2>1, <2>7, <3>2 DEF Books
      <4>2. ToSet(Content[f]) \subseteq Movements
        BY ContentFinite
      <4> QED
        BY <2>3, <4>1, <4>2 DEF BooksContent
    <3> QED
      BY <3>1, <3>2
  <2> QED
    BY <2>7 DEF BooksContent
<1> QED
  BY <1>1, <1>2

-----------------------------------------------------------------------------
(* The figures of a file.                                                  *)

\* The figures t are those of the lines of f.
Accounted(f, t) ==
  LET options == job[JobOf[f]].options
  IN  /\ t.created <= Cardinality(Booked(f)) /\ t.parsed = t.created + t.skipped
      /\ t.created > 0 \/ options.skip
      /\ options.category \/ options.assign =>
           t.uncategorized = IF options.category THEN 0
             ELSE IF t.created = 0 THEN 0 ELSE Cardinality(Booked(f) \ Ruled)

FiguresTrue ==
  /\ \A f \in Files : file[f].status = "success" => Accounted(f, file[f].totals)
  /\ worker.at = "succeed" => Accounted(Current, worker.outcome)

-----------------------------------------------------------------------------

\* A file is created from as a whole or not at all.
LEMMA FreshOrNone ==
  ASSUME Shape, ToDo, KnowsBooks, BooksContent, worker.at = "create", Current \in Files
  PROVE  Fresh = {} \/ Booked(Current) \subseteq Fresh
<1>1. worker.known = IF Asked.skip THEN Existing ELSE {}
  BY DEF KnowsBooks
<1>2. ToSet(Content[Current]) \subseteq Movements
  BY ContentFinite
<1>3. ASSUME NEW m \in Booked(Current)
      PROVE m \in ToSet(Content[Current]) /\ \A n \in ToSet(Content[Current]) : \E g \in Files : Books(g, n)
  BY <1>3 DEF BooksContent, Booked, Books
<1>4. CASE ~ Asked.skip \/ DriverDates # "text"
  <2>1. \A n \in ToSet(Content[Current]) : Parsed(n) \notin worker.known
    BY <1>1, <1>4 DEF Existing, Parsed, Stored
  <2> QED
    BY <1>3, <2>1 DEF Fresh
<1>5. CASE Asked.skip /\ DriverDates = "text"
  <2>1. SUFFICES ASSUME NEW m \in Booked(Current) PROVE Fresh = {}
    OBVIOUS
  <2>2. \A n \in ToSet(Content[Current]) : Parsed(n) \in Existing
    BY <1>2, <1>3, <1>5 DEF Existing, Parsed, Stored, Books
  <2> QED
    BY <1>1, <1>5, <2>2 DEF Fresh
<1> QED
  BY <1>4, <1>5

\* The figures createMany's caller makes are true of the file.
LEMMA CreatedAccounted ==
  ASSUME Shape, ToDo, Queue, KnowsBooks, BooksContent, Creates
  PROVE  Accounted(Current, worker.outcome)'
<1> DEFINE f == Current
           T == ToSet(Content[f])
           B == Booked(f)
           C == B \cup Fresh
           o == job[JobOf[f]].options
<1>1. /\ worker \in WorkerType /\ worker.at = "create" /\ f \in Files
      /\ JobOf[f] = worker.job /\ job' = job
      /\ \A g \in Files, m \in Movements :
           imported'[g][m] = IF g = f /\ m \in Fresh THEN imported[g][m] + 1 ELSE imported[g][m]
  BY CreatesBooks
<1>2. worker' = [worker EXCEPT !.at = "succeed", !.outcome = OutcomeOf]
  BY DEF Creates
<1>3. worker'.outcome = OutcomeOf /\ worker'.left = worker.left
  BY <1>1, <1>2 DEF WorkerType
<1>4. Current' = f
  BY <1>3, SameCurrent
<1>5. /\ IsFiniteSet(T) /\ T \subseteq Movements /\ Len(Content[f]) \in Nat
  BY <1>1, ContentFinite
<1>6. Fresh \subseteq T /\ IsFiniteSet(Fresh) /\ Cardinality(Fresh) \in Nat
  BY <1>1, OutcomeTyped DEF At
<1>7. B \subseteq T
  BY <1>1 DEF BooksContent, Booked, Books
<1>8. IsFiniteSet(C) /\ Cardinality(Fresh) <= Cardinality(C) /\ Cardinality(C) \in Nat
  <2>1. C \subseteq T /\ Fresh \subseteq C
    BY <1>6, <1>7
  <2>2. IsFiniteSet(C)
    BY <1>5, <2>1, FS_Subset
  <2> QED
    BY <2>1, <2>2, FS_Subset, FS_CardinalityType
<1>9. Booked(Current)' = C
  <2>1. \A m \in Movements : imported[f][m] \in Nat
    BY <1>1 DEF Shape, TablesTyped
  <2>2. \A m \in Movements : imported'[f][m] > 0 <=> m \in C
    BY <1>1, <2>1 DEF Booked
  <2>3. C \subseteq Movements
    BY <1>5, <1>6 DEF Booked
  <2>4. Booked(Current)' = {m \in Movements : imported'[f][m] > 0}
    BY <1>4 DEF Booked
  <2> HIDE DEF C, f
  <2> QED
    BY <2>2, <2>3, <2>4
<1>10. Asked = o
  BY <1>1 DEF Asked
<1>11. Cardinality(Fresh) > 0 \/ o.skip
  <2>1. SUFFICES ASSUME ~ o.skip PROVE Cardinality(Fresh) > 0
    OBVIOUS
  <2>2. Fresh = T
    BY <1>1, <1>10, <2>1 DEF KnowsBooks, Fresh
  <2>3. Content[f] \in Seq(Movements) /\ Content[f] # << >>
    BY <1>1, ImportAssumption DEF KnowsBooks
  <2>4. 1 \in DOMAIN Content[f]
    BY <2>3, EmptySeq, LenProperties
  <2>5. Content[f][1] \in T
    BY <2>4 DEF ToSet
  <2> QED
    BY <1>6, <2>2, <2>5, FS_EmptySet
<1>12. ASSUME o.category \/ o.assign
       PROVE OutcomeOf.uncategorized = IF o.category THEN 0
               ELSE IF Cardinality(Fresh) = 0 THEN 0 ELSE Cardinality(C \ Ruled)
  <2> DEFINE U == {m \in Fresh : ~ Categorised(m)}
  <2>1. U \subseteq Fresh
    OBVIOUS
  <2>2. IsFiniteSet(U) /\ Cardinality(U) \in Nat
    BY <1>6, <2>1, FS_Subset, FS_CardinalityType
  <2>3. OutcomeOf.uncategorized = Cardinality(U)
    BY <1>10, <1>12, <2>2 DEF OutcomeOf
  <2>4. CASE o.category
    <3>1. U = {}
      BY <1>10, <2>4 DEF Categorised
    <3> QED
      BY <2>3, <2>4, <3>1, FS_EmptySet
  <2>5. CASE ~ o.category
    <3>1. U = Fresh \ Ruled
      BY <1>10, <1>12, <2>5 DEF Categorised
    <3>2. CASE Fresh = {}
      <4>1. U = {} /\ Cardinality(Fresh) = 0
        BY <3>2, FS_EmptySet
      <4> QED
        BY <2>3, <2>5, <4>1, FS_EmptySet
    <3>3. CASE Fresh # {}
      <4>1. C = Fresh
        BY <1>1, <3>3, FreshOrNone
      <4>2. Cardinality(Fresh) # 0
        BY <1>6, <3>3, FS_EmptySet
      <4> QED
        BY <2>3, <2>5, <3>1, <4>1, <4>2
    <3> QED
      BY <3>2, <3>3
  <2> QED
    BY <2>4, <2>5
<1>13. /\ OutcomeOf.created = Cardinality(Fresh)
       /\ OutcomeOf.parsed = OutcomeOf.created + OutcomeOf.skipped
  BY <1>5, <1>6 DEF OutcomeOf
<1>14. job'[JobOf[Current']].options = o
  BY <1>1, <1>4
<1> HIDE DEF f, C, o
<1> QED
  BY <1>3, <1>8, <1>9, <1>11, <1>12, <1>13, <1>14 DEF Accounted

\* A file becomes successful when it is marked so, and keeps its figures.
LEMMA SuccessKept ==
  ASSUME Shape, ToDo, Queue, [Next]_vars, ~ MarksSuccess,
         NEW f \in Files, file'[f].status = "success"
  PROVE  file[f].status = "success" /\ file'[f].totals = file[f].totals
<1> USE DEF Shape, TablesTyped
<1>1. CASE Uploads
  BY <1>1 DEF Uploads, CreateJob, NoFile
<1>2. CASE AsksRetry
  BY <1>2 DEF AsksRetry, RetryChecks
<1>3. ASSUME NEW c \in Clients, RetryStep(c) \/ RetryFails(c)
      PROVE file[f].status = "success" /\ file'[f].totals = file[f].totals
  <2>1. CASE RetryResetsFiles(c)
    BY <2>1 DEF RetryResetsFiles, FileType
  <2>2. CASE RetryQueues(c) \/ RetryFails(c)
    BY <2>2 DEF RetryQueues, RetryFails
  <2> QED
    BY <1>3, <2>1, <2>2 DEF RetryStep
<1>4. CASE Work
  <2>1. CASE MarksFile
    BY <2>1 DEF MarksFile, FileType
  <2>2. CASE MarksFailure
    BY <2>2 DEF MarksFailure, FileType
  <2>3. CASE Clears
    BY <2>3 DEF Clears, FileType
  <2>4. CASE Takes \/ Starts \/ MarksJob \/ Lists \/ Reads \/ Creates \/ Removes \/ Finishes \/ Sweeps
    BY <2>4 DEF Takes, Starts, MarksJob, Lists, Reads, Creates, Removes, Finishes, Sweeps
  <2> QED
    BY <1>4, <2>1, <2>2, <2>3, <2>4 DEF Work
<1>5. CASE Faults \/ Restarts \/ UNCHANGED vars
  BY <1>5 DEF Faults, Restarts, vars
<1> QED
  BY <1>1, <1>2, <1>3, <1>4, <1>5 DEF Next

\* What a step does to the books and the options of a file that is not created from.
LEMMA BookedKept ==
  ASSUME Shape, ToDo, Queue, [Next]_vars, NEW f \in Files, file[f].status # "none",
         ~ (Creates /\ f = Current)
  PROVE  Booked(f)' = Booked(f) /\ job'[JobOf[f]].options = job[JobOf[f]].options
<1>1. imported'[f] = imported[f]
  <2>1. CASE ~ Creates
    BY <2>1, BooksKept
  <2>2. CASE Creates
    BY <2>2 DEF Creates, Shape, TablesTyped
  <2> QED
    BY <2>1, <2>2
<1>2. JobOf[f] \in Jobs
  BY ImportAssumption, ElementOfSeq DEF Files
<1>3. job[JobOf[f]].status # "none"
  BY <1>2 DEF Queue, NothingBefore, FilesOf
<1> QED
  BY <1>1, <1>2, <1>3, OptionsKept DEF Booked

\* The figures of the files stay true.
LEMMA FiguresStep ==
  ASSUME Shape, ToDo, Queue, KnowsBooks, BooksContent, FiguresTrue, [Next]_vars
  PROVE  FiguresTrue'
<1>1. ASSUME NEW f \in Files, file'[f].status = "success" PROVE Accounted(f, file[f].totals)'
  <2>1. CASE ~ (MarksSuccess /\ f = Current)
    <3>1. file[f].status = "success" /\ file'[f].totals = file[f].totals
      <4>1. CASE ~ MarksSuccess
        BY <1>1, <4>1, SuccessKept
      <4>2. CASE MarksSuccess
        BY <1>1, <2>1, <4>2 DEF MarksSuccess, Shape, TablesTyped
      <4> QED
        BY <4>1, <4>2
    <3>2. ~ (Creates /\ f = Current)
      BY <3>1, CreatesBooks
    <3>3. Booked(f)' = Booked(f) /\ job'[JobOf[f]].options = job[JobOf[f]].options
      BY <3>1, <3>2, BookedKept
    <3>4. Accounted(f, file[f].totals)
      BY <3>1 DEF FiguresTrue
    <3> HIDE DEF Booked
    <3> QED
      BY <3>1, <3>3, <3>4 DEF Accounted
  <2>2. CASE MarksSuccess /\ f = Current
    <3>1. worker.at = "succeed" /\ Accounted(f, worker.outcome)
      BY <2>2 DEF MarksSuccess, At, FiguresTrue
    <3>2. file'[f].totals = worker.outcome
      BY <1>1, <2>2 DEF MarksSuccess, Shape, TablesTyped, FileType
    <3>3. imported' = imported /\ job' = job
      BY <2>2 DEF MarksSuccess
    <3> QED
      BY <3>1, <3>2, <3>3 DEF Accounted, Booked
  <2> QED
    BY <2>1, <2>2
<1>2. ASSUME worker'.at = "succeed" PROVE Accounted(Current, worker.outcome)'
  <2>1. CASE Creates
    BY <2>1, CreatedAccounted
  <2>2. CASE worker' = worker
    <3>1. worker.at = "succeed" /\ Current' = Current /\ Accounted(Current, worker.outcome)
      BY <1>2, <2>2, SameCurrent DEF FiguresTrue
    <3>2. ~ Creates
      BY <3>1 DEF Creates, At
    <3>3. Current \in Files /\ file[Current].status = "processing"
      BY <3>1, CurrentTaken DEF ToDo, Taking, OnFile, After
    <3>4. Booked(Current)' = Booked(Current) /\ job'[JobOf[Current]].options = job[JobOf[Current]].options
      <4>1. PICK f \in Files : f = Current
        BY <3>3
      <4>2. Booked(f)' = Booked(f) /\ job'[JobOf[f]].options = job[JobOf[f]].options
        BY <3>2, <3>3, <4>1, BookedKept
      <4> QED
        BY <3>1, <4>1, <4>2 DEF Booked
    <3> QED
      BY <2>2, <3>1, <3>4 DEF Accounted
  <2> QED
    BY <1>2, <2>1, <2>2, Leading
<1> QED
  BY <1>1, <1>2 DEF FiguresTrue

-----------------------------------------------------------------------------
(* The sums of a job.                                                      *)

\* The files of the task that have their outcome.
Done == (FilesOf(worker.job) \ worker.left) \cup IF worker.at \in After THEN {Current} ELSE {}

GoodOf(S) == {f \in S : file[f].status = "success"}
SumOver(S, k) ==
  Total(Len(JobOf), [f \in Files |-> IF f \in S THEN file[f].totals[k] ELSE 0])

\* The figures are those of the files S, which all have their outcome.
Tallied(S, success, failed, totals) ==
  /\ \A f \in S : /\ file[f].status \in {"success", "failed"}
                  /\ file[f].error = NoError <=> file[f].status = "success"
  /\ success = Cardinality(GoodOf(S)) /\ failed = Cardinality(S \ GoodOf(S))
  /\ \A k \in DOMAIN NoTotals : totals[k] = SumOver(GoodOf(S), k)

\* The task counts what became of its files so far.
TallyTrue ==
  /\ worker.at = "fail" => worker.code # NoError
  /\ worker.at \in Steps /\ worker.thrown => worker.at \in After
  /\ worker.at \in Early => worker.success = 0 /\ worker.failed = 0 /\ worker.totals = NoTotals
  /\ worker.at \in Taking /\ worker.kind = "first" /\ worker.job \notin retried =>
       /\ job[worker.job].status = "processing"
       /\ ~ worker.thrown => Tallied(Done, worker.success, worker.failed, worker.totals)

\* A job that has ended reports them.
Reported ==
  \A j \in Jobs : Finished(j) /\ j \notin retried =>
    /\ Tallied(FilesOf(j), job[j].success, job[j].failed, job[j].totals)
    /\ job[j].status = Outcome(job[j].success, job[j].failed)

SameVerdict(f) ==
  /\ file'[f].status = file[f].status /\ file'[f].error = file[f].error
  /\ file'[f].totals = file[f].totals

-----------------------------------------------------------------------------

\* A job has finitely many files.
LEMMA FilesFinite ==
  /\ IsFiniteSet(Files) /\ Len(JobOf) \in Nat
  /\ \A S \in SUBSET Files : IsFiniteSet(S) /\ Cardinality(S) \in Nat
<1>1. Len(JobOf) \in Nat
  BY ImportAssumption, LenProperties
<1>2. IsFiniteSet(Files)
  BY <1>1, FS_Interval DEF Files
<1>3. ASSUME NEW S \in SUBSET Files PROVE IsFiniteSet(S) /\ Cardinality(S) \in Nat
  BY <1>2, FS_Subset, FS_CardinalityType
<1> QED
  BY <1>1, <1>2, <1>3

\* The figure k of a file is an integer.
LEMMA FigureTyped ==
  ASSUME Shape, NEW f \in Files, NEW k \in DOMAIN NoTotals
  PROVE  file[f].totals[k] \in Int
<1>1. k \in {"parsed", "created", "skipped", "uncategorized"}
  BY DEF NoTotals
<1>2. file[f].totals \in TotalsType
  BY DEF Shape, TablesTyped, FileType
<1> QED
  BY <1>1, <1>2 DEF TotalsType

\* No file, no figures.
LEMMA TalliedNone == Tallied({}, 0, 0, NoTotals)
<1>1. GoodOf({}) = {} /\ {} \ GoodOf({}) = {}
  BY DEF GoodOf
<1>2. ASSUME NEW k \in DOMAIN NoTotals PROVE SumOver({}, k) = 0
  <2> DEFINE c == [f \in Files |-> IF f \in {} THEN file[f].totals[k] ELSE 0]
  <2>1. c \in [1 .. Len(JobOf) -> Int] /\ \A i \in 1 .. Len(JobOf) : c[i] = 0
    BY DEF Files
  <2> HIDE DEF c
  <2>2. Total(Len(JobOf), c) = 0
    BY <2>1, FilesFinite, TotalZero
  <2> QED
    BY <2>2 DEF SumOver, c
<1>3. \A k \in DOMAIN NoTotals : NoTotals[k] = 0
  BY DEF NoTotals
<1> QED
  BY <1>1, <1>2, <1>3, FS_EmptySet DEF Tallied

\* The figures stay those of the files while these keep their outcome.
LEMMA TalliedKept ==
  ASSUME NEW S \in SUBSET Files, NEW success, NEW failed, NEW totals,
         Tallied(S, success, failed, totals), \A f \in S : SameVerdict(f)
  PROVE  Tallied(S, success, failed, totals)'
<1>1. GoodOf(S)' = GoodOf(S)
  BY DEF GoodOf, SameVerdict
<1>2. ASSUME NEW k PROVE SumOver(GoodOf(S), k)' = SumOver(GoodOf(S), k)
  <2>1. \A f \in Files : f \in GoodOf(S) => file'[f].totals[k] = file[f].totals[k]
    BY DEF GoodOf, SameVerdict
  <2>2. [f \in Files |-> IF f \in GoodOf(S) THEN file'[f].totals[k] ELSE 0]
          = [f \in Files |-> IF f \in GoodOf(S) THEN file[f].totals[k] ELSE 0]
    BY <2>1
  <2> QED
    BY <1>1, <2>2 DEF SumOver
<1> QED
  BY <1>1, <1>2 DEF Tallied, SameVerdict

\* One more file succeeds.
LEMMA TalliedSuccess ==
  ASSUME Shape, NEW S \in SUBSET Files, NEW f \in Files \ S,
         NEW success, NEW failed, NEW totals \in TotalsType, NEW t \in TotalsType,
         Tallied(S, success, failed, totals), \A g \in S : SameVerdict(g),
         file'[f].status = "success", file'[f].error = NoError, file'[f].totals = t
  PROVE  Tallied(S \cup {f}, success + 1, failed, Plus(totals, t))'
<1> DEFINE R == S \cup {f}
           G == GoodOf(S)
           H == G \cup {f}
<1>1. Tallied(S, success, failed, totals)'
  BY TalliedKept
<1>2. GoodOf(S)' = G /\ GoodOf(R)' = H /\ R \ H = S \ G
  BY DEF GoodOf, SameVerdict
<1>3. Cardinality(H) = Cardinality(G) + 1 /\ Cardinality(G) \in Nat
  <2>1. G \in SUBSET Files /\ f \notin G
    BY DEF GoodOf
  <2> QED
    BY <2>1, FilesFinite, FS_AddElement
<1>4. ASSUME NEW k \in DOMAIN NoTotals
      PROVE  SumOver(GoodOf(R), k)' = SumOver(GoodOf(S), k)' + t[k] /\ SumOver(GoodOf(S), k)' \in Int
  <2> DEFINE n == Len(JobOf)
             c == [g \in Files |-> IF g \in G THEN file'[g].totals[k] ELSE 0]
             d == [g \in Files |-> IF g = f THEN t[k] ELSE 0]
             e == [g \in Files |-> IF g \in H THEN file'[g].totals[k] ELSE 0]
  <2>1. \A g \in H : file'[g].totals[k] \in Int
    <3>1. t[k] \in Int
      BY DEF TotalsType, NoTotals
    <3>2. \A g \in G : file'[g].totals[k] \in Int
      BY FigureTyped DEF GoodOf, SameVerdict
    <3> QED
      BY <3>1, <3>2
  <2>2. n \in Nat /\ Files = 1 .. n /\ f \in 1 .. n /\ G \subseteq S
    BY FilesFinite DEF Files, GoodOf
  <2>3. /\ c \in [1 .. n -> Int] /\ e \in [1 .. n -> Int] /\ d \in [1 .. n -> Int]
        /\ d[f] = t[k] /\ \A g \in (1 .. n) \ {f} : d[g] = 0
    BY <2>1, <2>2
  <2>4. \A g \in 1 .. n : e[g] = c[g] + d[g]
    BY <2>1, <2>2
  <2> HIDE DEF n, c, d, e
  <2>5. Total(n, e) = Total(n, c) + Total(n, d) /\ Total(n, c) \in Int
    BY <2>2, <2>3, <2>4, TotalSum, TotalInt
  <2>6. Total(n, d) = t[k]
    BY <2>2, <2>3, TotalSingle
  <2>7. SumOver(GoodOf(R), k)' = Total(n, e) /\ SumOver(GoodOf(S), k)' = Total(n, c)
    BY <1>2 DEF SumOver, n, c, e
  <2> QED
    BY <2>5, <2>6, <2>7
<1>5. \A k \in DOMAIN NoTotals : Plus(totals, t)[k] = totals[k] + t[k]
  BY PlusTyped
<1>6. \A g \in R : /\ file'[g].status \in {"success", "failed"}
                   /\ file'[g].error = NoError <=> file'[g].status = "success"
  BY <1>1 DEF Tallied
<1>7. success + 1 = Cardinality(GoodOf(R))' /\ failed = Cardinality(R \ GoodOf(R))'
  BY <1>1, <1>2, <1>3 DEF Tallied
<1>8. \A k \in DOMAIN NoTotals : Plus(totals, t)[k] = SumOver(GoodOf(R), k)'
  BY <1>1, <1>4, <1>5 DEF Tallied
<1> QED
  BY <1>6, <1>7, <1>8 DEF Tallied

\* One more file fails.
LEMMA TalliedFailure ==
  ASSUME Shape, NEW S \in SUBSET Files, NEW f \in Files \ S,
         NEW success, NEW failed, NEW totals,
         Tallied(S, success, failed, totals), \A g \in S : SameVerdict(g),
         file'[f].status = "failed", file'[f].error # NoError
  PROVE  Tallied(S \cup {f}, success, failed + 1, totals)'
<1> DEFINE R == S \cup {f}
           B == S \ GoodOf(S)
<1>1. Tallied(S, success, failed, totals)'
  BY TalliedKept
<1>2. GoodOf(S)' = GoodOf(S) /\ GoodOf(R)' = GoodOf(S)' /\ R \ GoodOf(R)' = B \cup {f}
  BY DEF GoodOf, SameVerdict
<1>3. Cardinality(B \cup {f}) = Cardinality(B) + 1 /\ Cardinality(B) \in Nat
  <2>1. B \in SUBSET Files /\ f \notin B
    BY DEF GoodOf
  <2> QED
    BY <2>1, FilesFinite, FS_AddElement
<1>4. ASSUME NEW k PROVE SumOver(GoodOf(R), k)' = SumOver(GoodOf(S), k)'
  BY <1>2 DEF SumOver
<1> QED
  BY <1>1, <1>2, <1>3, <1>4 DEF Tallied

-----------------------------------------------------------------------------
(* The report of a job.                                                    *)

\* The outcome of a file changes by the work on it, or by a retry of its job.
LEMMA VerdictKept ==
  ASSUME Shape, ToDo, Queue, [Next]_vars, NEW f \in Files,
         job[JobOf[f]].status # "none", JobOf[f] \notin retried',
         ~ ((MarksFile \/ MarksSuccess \/ MarksFailure) /\ f = Current)
  PROVE  SameVerdict(f)
<1> USE DEF Shape, TablesTyped, SameVerdict
<1>1. CASE Uploads
  <2>0. PICK j \in Jobs, options \in Options : \E password \in Passwords[j] : CreateJob(j, options, password)
    BY <1>1 DEF Uploads
  <2>1. PICK password \in Passwords[j] : CreateJob(j, options, password)
    BY <2>0
  <2> QED
    BY <2>1 DEF CreateJob, FilesOf
<1>2. CASE AsksRetry
  BY <1>2 DEF AsksRetry, RetryChecks
<1>3. ASSUME NEW c \in Clients, RetryStep(c) \/ RetryFails(c) PROVE SameVerdict(f)
  <2>1. CASE RetryResetsFiles(c)
    <3>1. retry[c].at = "files" /\ retried' = retried
      BY <2>1 DEF RetryResetsFiles
    <3>2. retry[c].job \in retried'
      BY <3>1 DEF Queue, RetriesRemembered, Idle
    <3>3. f \notin Failed(retry[c].job)
      BY <3>2 DEF Failed, FilesOf
    <3> QED
      BY <2>1, <3>3 DEF RetryResetsFiles
  <2>2. CASE RetryQueues(c) \/ RetryFails(c)
    BY <2>2 DEF RetryQueues, RetryFails
  <2> QED
    BY <1>3, <2>1, <2>2 DEF RetryStep
<1>4. CASE Work
  <2>1. CASE MarksFile \/ MarksSuccess \/ MarksFailure
    BY <2>1 DEF MarksFile, MarksSuccess, MarksFailure
  <2>2. CASE Clears
    BY <2>2 DEF Clears, FileType
  <2>3. CASE Takes \/ Starts \/ MarksJob \/ Lists \/ Reads \/ Creates \/ Removes \/ Finishes \/ Sweeps
    BY <2>3 DEF Takes, Starts, MarksJob, Lists, Reads, Creates, Removes, Finishes, Sweeps
  <2> QED
    BY <1>4, <2>1, <2>2, <2>3 DEF Work
<1>5. CASE Faults \/ Restarts \/ UNCHANGED vars
  BY <1>5 DEF Faults, Restarts, vars
<1> QED
  BY <1>1, <1>2, <1>3, <1>4, <1>5 DEF Next

\* The row of a job changes when it is uploaded, retried, marked and finished.
LEMMA RowKept ==
  ASSUME Shape, ToDo, Queue, [Next]_vars, NEW j \in Jobs,
         job[j].status # "none" \/ job'[j].status # "pending",
         j \notin retried', ~ ((MarksJob \/ Finishes) /\ worker.job = j)
  PROVE  job'[j] = job[j]
<1> USE DEF Shape, TablesTyped
<1>1. CASE Uploads
  <2>0. PICK i \in Jobs, options \in Options : \E password \in Passwords[i] : CreateJob(i, options, password)
    BY <1>1 DEF Uploads
  <2>1. PICK password \in Passwords[i] : CreateJob(i, options, password)
    BY <2>0
  <2> QED
    BY <2>1 DEF CreateJob, JobType
<1>2. CASE AsksRetry
  BY <1>2 DEF AsksRetry, RetryChecks
<1>3. ASSUME NEW c \in Clients, RetryStep(c) \/ RetryFails(c) PROVE job'[j] = job[j]
  <2>1. CASE RetryQueues(c)
    <3>1. retry[c].at = "job" /\ retried' = retried
      BY <2>1 DEF RetryQueues
    <3>2. retry[c].job \in retried'
      BY <3>1 DEF Queue, RetriesRemembered, Idle
    <3> QED
      BY <2>1, <3>2 DEF RetryQueues
  <2>2. CASE RetryResetsFiles(c) \/ RetryFails(c)
    BY <2>2 DEF RetryResetsFiles, RetryFails
  <2> QED
    BY <1>3, <2>1, <2>2 DEF RetryStep
<1>4. CASE Work
  <2>1. CASE MarksJob \/ Finishes
    BY <2>1 DEF MarksJob, Finishes
  <2>2. CASE ~ (MarksJob \/ Finishes)
    BY <1>4, <2>2 DEF Work, Takes, Starts, Lists, MarksFile, Reads, Creates, MarksSuccess,
       MarksFailure, Removes, Clears, Sweeps
  <2> QED
    BY <2>1, <2>2
<1>5. CASE Faults \/ Restarts \/ UNCHANGED vars
  BY <1>5 DEF Faults, Restarts, vars
<1> QED
  BY <1>1, <1>2, <1>3, <1>4, <1>5 DEF Next

\* Retries are not forgotten.
LEMMA RetriedKept ==
  ASSUME [Next]_vars PROVE retried \subseteq retried'
<1>1. CASE Uploads \/ AsksRetry
  BY <1>1 DEF Uploads, CreateJob, AsksRetry, RetryChecks
<1>2. ASSUME NEW c \in Clients, RetryStep(c) \/ RetryFails(c) PROVE retried \subseteq retried'
  BY <1>2 DEF RetryStep, RetryResetsFiles, RetryQueues, RetryFails
<1>3. CASE Work
  BY <1>3 DEF Work, Takes, Starts, MarksJob, Lists, MarksFile, Reads, Creates, MarksSuccess,
     MarksFailure, Removes, Clears, Finishes, Sweeps
<1>4. CASE Faults \/ Restarts \/ UNCHANGED vars
  BY <1>4 DEF Faults, Restarts, vars
<1> QED
  BY <1>1, <1>2, <1>3, <1>4 DEF Next

\* A task starts with empty sums, and no error goes unnamed.
LEMMA TallyStartsStep ==
  ASSUME Shape, ToDo, Queue, TallyTrue, [Next]_vars
  PROVE  /\ worker'.at = "fail" => worker'.code # NoError
         /\ worker'.at \in Steps /\ worker'.thrown => worker'.at \in After
         /\ worker'.at \in Early =>
              worker'.success = 0 /\ worker'.failed = 0 /\ worker'.totals = NoTotals
<1> DEFINE Goal == /\ worker'.at = "fail" => worker'.code # NoError
                   /\ worker'.at \in Steps /\ worker'.thrown => worker'.at \in After
                   /\ worker'.at \in Early =>
                        worker'.success = 0 /\ worker'.failed = 0 /\ worker'.totals = NoTotals
<1>1. CASE worker' = worker
  BY <1>1 DEF TallyTrue
<1>2. CASE worker' = Idle
  BY <1>2 DEF Idle, Steps, Early, Taking, OnFile, After
<1>3. CASE Takes
  BY <1>3, Taken DEF Takes, Early, Steps, Taking, OnFile, After
<1>4. CASE Work /\ ~ Takes
  <2>1. worker.at \in Steps /\ worker \in WorkerType
    <3>1. worker.at \in Steps
      BY <1>4 DEF Work, Starts, MarksJob, Lists, MarksFile, Reads, Creates, MarksSuccess,
         MarksFailure, Removes, Clears, Finishes, Sweeps, At, Steps, Early, Taking, OnFile, After
    <3> QED
      BY <3>1, WorkerTyped
  <2>2. CASE Starts
    BY <1>2, <2>1, <2>2 DEF Starts, Goto, At, TallyTrue, WorkerType, Early, Steps, After
  <2>3. CASE MarksJob \/ Lists
    BY <2>1, <2>3 DEF MarksJob, Lists, Goto, At, TallyTrue, WorkerType, Early, Steps, After
  <2>4. CASE MarksFile \/ Finishes
    BY <2>1, <2>4 DEF MarksFile, Finishes, Goto, At, TallyTrue, WorkerType, Early, Steps, After
  <2>5. CASE Reads
    BY <2>1, <2>5 DEF Reads, At, TallyTrue, WorkerType, Early, Steps, After
  <2>6. CASE Creates
    BY <2>1, <2>6 DEF Creates, At, TallyTrue, WorkerType, Early, Steps, After
  <2>7. CASE MarksSuccess \/ MarksFailure
    <3>1. worker'.at = "remove"
      BY <2>7, StepsLead
    <3> QED
      BY <3>1 DEF Early, After
  <2>8. CASE Removes
    <3>1. worker'.at = "clear"
      BY <2>8, StepsLead
    <3> QED
      BY <3>1 DEF Early, After
  <2>9. CASE Clears
    <3>1. CASE worker.thrown
      BY <1>2, <2>9, <3>1 DEF Clears, Throws
    <3>2. CASE ~ worker.thrown
      BY <2>1, <2>9, <3>2 DEF Clears, WorkerType, Early
    <3> QED
      BY <3>1, <3>2
  <2>10. CASE Sweeps
    BY <1>2, <2>10 DEF Sweeps
  <2> QED
    BY <1>4, <2>2, <2>3, <2>4, <2>5, <2>6, <2>7, <2>8, <2>9, <2>10 DEF Work
<1>5. CASE Faults
  <2>1. CASE worker.at \in {"read", "create", "succeed"}
    <3>1. worker \in WorkerType
      BY <2>1, WorkerTyped DEF Steps, Taking, OnFile
    <3> QED
      BY <1>5, <2>1, <3>1 DEF Faults, WorkerType, TallyTrue, NoError, Early, Steps, After
  <2>2. CASE worker.at \in {"fail", "remove"}
    <3>1. worker \in WorkerType
      BY <2>2, WorkerTyped DEF Steps, Taking, OnFile, After
    <3>2. worker'.at \in After
      BY <1>5, <2>2, <3>1 DEF Faults, Goto, WorkerType, After
    <3> QED
      BY <3>2 DEF Early, After
  <2>3. CASE worker.at \in {"sweep", "start", "mark", "list", "next", "clear"}
    BY <1>2, <1>5, <2>3 DEF Faults, Throws
  <2> QED
    BY <1>5, <2>1, <2>2, <2>3 DEF Faults
<1>6. CASE Restarts
  BY <1>2, <1>6 DEF Restarts
<1> QED
  BY <1>1, <1>3, <1>4, <1>5, <1>6, ClientsStep DEF Next, vars

\* The task of the worker is a first one of a job nobody retried.
FirstTask == worker.at \in Taking /\ worker.kind = "first" /\ worker.job \notin retried

\* A step that judges no file and takes none keeps the sums.
LEMMA TallyCarries ==
  ASSUME Shape, ToDo, Queue, [Next]_vars, FirstTask, FirstTask',
         worker'.job = worker.job, Done' = Done,
         worker'.success = worker.success, worker'.failed = worker.failed,
         worker'.totals = worker.totals,
         Tallied(Done, worker.success, worker.failed, worker.totals),
         \A f \in Done : ~ ((MarksFile \/ MarksSuccess \/ MarksFailure) /\ f = Current)
  PROVE  Tallied(Done, worker.success, worker.failed, worker.totals)'
<1>1. worker.job \in Jobs /\ job[worker.job].status # "none"
  BY WorkerJob DEF FirstTask, Queue, Steps
<1>2. Done \subseteq FilesOf(worker.job)
  BY CurrentTaken DEF Done, ToDo, FirstTask, Taking
<1>3. \A f \in Done : SameVerdict(f)
  <2>1. \A f \in Done : f \in Files /\ JobOf[f] = worker.job
    BY <1>2 DEF FilesOf
  <2>2. worker.job \notin retried'
    BY DEF FirstTask
  <2> HIDE DEF Done, FirstTask
  <2> QED
    BY <1>1, <2>1, <2>2, VerdictKept
<1>4. PICK S \in SUBSET Files : S = Done
  BY <1>2 DEF FilesOf
<1>5. PICK success, failed, totals :
        success = worker.success /\ failed = worker.failed /\ totals = worker.totals
  OBVIOUS
<1>6. Tallied(S, success, failed, totals)'
  BY <1>3, <1>4, <1>5, TalliedKept
<1> HIDE DEF Done
<1> QED
  BY <1>4, <1>5, <1>6 DEF Tallied, GoodOf, SumOver

\* The files that have their outcome are of the task, and not left but the last.
LEMMA DoneFiles ==
  ASSUME Shape, ToDo, worker.at \in Taking
  PROVE  /\ Done \subseteq FilesOf(worker.job) /\ Done \subseteq Files
         /\ worker.at \in OnFile \cup {"next"} =>
              Done = FilesOf(worker.job) \ worker.left /\ worker.left \subseteq FilesOf(worker.job)
         /\ worker.at \in OnFile => Current \in worker.left
         /\ worker.at \in After => Done = (FilesOf(worker.job) \ worker.left) \cup {Current}
                                   /\ Current \in worker.left /\ Current \in FilesOf(worker.job)
BY CurrentTaken DEF Done, ToDo, Taking, OnFile, After, FilesOf

\* The sums of the task are those of the files that have their outcome.
LEMMA TallyStep ==
  ASSUME Shape, ToDo, Queue, TallyTrue, [Next]_vars, FirstTask'
  PROVE  /\ job'[worker'.job].status = "processing"
         /\ ~ worker'.thrown => Tallied(Done, worker.success, worker.failed, worker.totals)'
<1> DEFINE Goal == /\ job'[worker'.job].status = "processing"
                   /\ ~ worker'.thrown =>
                        Tallied(Done, worker.success, worker.failed, worker.totals)'
<1>1. ASSUME worker.at \in Taking, worker'.job = worker.job, worker'.kind = worker.kind
      PROVE  /\ FirstTask /\ worker.job \in Jobs
             /\ job[worker.job].status = "processing" /\ job'[worker'.job].status = "processing"
             /\ ~ worker.thrown => Tallied(Done, worker.success, worker.failed, worker.totals)
  <2>1. FirstTask /\ worker.job \notin retried'
    BY <1>1, RetriedKept DEF FirstTask
  <2>2. /\ job[worker.job].status = "processing"
        /\ ~ worker.thrown => Tallied(Done, worker.success, worker.failed, worker.totals)
    BY <2>1 DEF TallyTrue, FirstTask
  <2>3. worker.job \in Jobs
    BY <1>1, WorkerJob DEF Queue, Steps
  <2>4. ~ MarksJob /\ ~ Finishes
    <3>1. worker'.at \notin {"list", "sweep"} /\ worker.at # "mark"
      BY <1>1 DEF FirstTask, Taking, OnFile, After
    <3> QED
      BY <3>1, StepsLead
  <2>5. job'[worker.job] = job[worker.job]
    BY <2>1, <2>2, <2>3, <2>4, RowKept
  <2> QED
    BY <1>1, <2>1, <2>2, <2>3, <2>5
<1>2. CASE worker' = worker
  <2>1. worker.at \in Taking /\ FirstTask
    BY <1>1, <1>2 DEF FirstTask
  <2>2. Done' = Done
    BY <1>2, SameCurrent DEF Done, FilesOf
  <2>3. ~ MarksFile /\ ~ MarksSuccess /\ ~ MarksFailure
    <3>1. worker'.at = worker.at
      BY <1>2
    <3> QED
      BY <3>1, StepsLead DEF MarksFile, MarksSuccess, MarksFailure, At
  <2> QED
    BY <1>1, <1>2, <2>1, <2>2, <2>3, TallyCarries
<1>3. CASE Lists
  <2>1. worker \in WorkerType /\ worker.at = "list" /\ worker.job \in Jobs
    BY <1>3, WorkerTyped DEF Lists, At, Steps, Early, WorkerType
  <2>2. /\ worker'.at = "next" /\ worker'.kind = worker.kind /\ worker'.job = worker.job
        /\ worker'.success = 0 /\ worker'.failed = 0 /\ worker'.totals = NoTotals
        /\ job' = job
    BY <1>3, <2>1 DEF Lists, WorkerType, TallyTrue, Early
  <2>3. worker.kind = "first"
    BY <2>2 DEF FirstTask
  <2>4. worker'.left = FilesOf(worker.job)
    BY <1>3, <2>1, <2>3 DEF Lists, WorkerType
  <2>5. Done' = {}
    BY <2>2, <2>4 DEF Done, After, FilesOf
  <2>6. job[worker.job].status = "processing"
    BY <2>1, <2>3 DEF Queue, Waiting, Waits, FirstOn, On, Early, Steps
  <2>7. Tallied({}, 0, 0, NoTotals)'
    <3>1. file' = file
      BY <1>3 DEF Lists
    <3> QED
      BY <3>1, TalliedNone DEF Tallied, GoodOf, SumOver
  <2> HIDE DEF Done
  <2> QED
    BY <2>2, <2>5, <2>6, <2>7 DEF Tallied, GoodOf, SumOver
<1>4. CASE MarksFile
  <2>1. worker \in WorkerType /\ worker.at = "next" /\ worker.left # {}
    BY <1>4, WorkerTyped DEF MarksFile, At, Steps, Taking
  <2>2. worker' = [worker EXCEPT !.at = "read"]
    BY <1>4 DEF MarksFile, Goto
  <2>3. /\ worker'.at = "read" /\ worker'.job = worker.job /\ worker'.kind = worker.kind
        /\ worker'.left = worker.left /\ worker'.success = worker.success
        /\ worker'.failed = worker.failed /\ worker'.totals = worker.totals
        /\ worker'.thrown = worker.thrown
    BY <2>1, <2>2 DEF WorkerType
  <2>4. Done' = Done /\ Current \notin Done /\ worker.at \in Taking
    <3>1. worker.at \in Taking /\ Current \in worker.left
      BY <2>1, CurrentIsLeft DEF Taking, WorkerType
    <3> QED
      BY <2>1, <2>3, <3>1, DoneFiles DEF Done, OnFile, After, FilesOf
  <2> HIDE DEF Done
  <2> QED
    BY <1>1, <2>3, <2>4, TallyCarries
<1>5. CASE Reads \/ Creates
  <2>1. worker \in WorkerType /\ worker.at \in {"read", "create"} /\ worker.at \in Taking
    BY <1>5, WorkerTyped DEF Reads, Creates, At, Steps, Taking, OnFile
  <2>2. /\ worker'.at \in OnFile /\ worker'.job = worker.job /\ worker'.kind = worker.kind
        /\ worker'.left = worker.left /\ worker'.success = worker.success
        /\ worker'.failed = worker.failed /\ worker'.totals = worker.totals
        /\ worker'.thrown = worker.thrown
    BY <1>5, <2>1 DEF Reads, Creates, WorkerType, OnFile
  <2>3. Done' = Done
    BY <2>1, <2>2 DEF Done, OnFile, After, FilesOf
  <2>4. ~ MarksFile /\ ~ MarksSuccess /\ ~ MarksFailure
    BY <2>1 DEF MarksFile, MarksSuccess, MarksFailure, At
  <2> HIDE DEF Done
  <2> QED
    BY <1>1, <2>1, <2>2, <2>3, <2>4, TallyCarries
<1>6. CASE MarksSuccess \/ MarksFailure
  <2>1. worker \in WorkerType /\ worker.at \in OnFile /\ worker.at \in Taking
    BY <1>6, WorkerTyped DEF MarksSuccess, MarksFailure, At, Steps, Taking, OnFile
  <2>2. /\ worker'.at = "remove" /\ worker'.job = worker.job /\ worker'.kind = worker.kind
        /\ worker'.left = worker.left /\ worker'.thrown = worker.thrown
    BY <1>6, <2>1 DEF MarksSuccess, MarksFailure, WorkerType
  <2>3. PICK S \in SUBSET Files : S = Done
    BY <2>1, DoneFiles
  <2>4. PICK f \in Files : f = Current
    BY <2>1, CurrentTaken
  <2>5. f \notin S /\ Done' = S \cup {f}
    <3>1. Done = FilesOf(worker.job) \ worker.left /\ Current \in worker.left
      BY <2>1, DoneFiles
    <3>2. Current' = Current
      BY <2>2, SameCurrent
    <3> QED
      BY <2>2, <2>3, <2>4, <3>1, <3>2 DEF Done, After, FilesOf
  <2>6. /\ FirstTask /\ job'[worker'.job].status = "processing"
        /\ ~ worker.thrown => Tallied(S, worker.success, worker.failed, worker.totals)
    <3> HIDE DEF Done
    <3> QED
      BY <1>1, <2>1, <2>2, <2>3
  <2>7. \A g \in S : SameVerdict(g)
    BY <1>6, <2>4, <2>5 DEF MarksSuccess, MarksFailure, Shape, TablesTyped, SameVerdict
  <2>8. ASSUME ~ worker.thrown
        PROVE  Tallied(Done, worker.success, worker.failed, worker.totals)'
    <3>1. PICK success, failed, totals :
            success = worker.success /\ failed = worker.failed /\ totals = worker.totals
      OBVIOUS
    <3>2. Tallied(S, success, failed, totals) /\ totals \in TotalsType
      BY <2>1, <2>6, <2>8, <3>1 DEF WorkerType
    <3>3. CASE MarksSuccess
      <4>1. PICK t \in TotalsType : t = worker.outcome
        BY <2>1 DEF WorkerType
      <4>2. worker' = [worker EXCEPT !.at = "remove", !.success = @ + 1, !.outcome = NoTotals,
                                     !.known = {}, !.totals = Plus(@, worker.outcome)]
        BY <3>3 DEF MarksSuccess
      <4>3. /\ worker'.success = success + 1 /\ worker'.failed = failed
            /\ worker'.totals = Plus(totals, t)
        BY <2>1, <3>1, <4>1, <4>2 DEF WorkerType
      <4>4. file'[f].status = "success" /\ file'[f].error = NoError /\ file'[f].totals = t
        BY <2>4, <3>3, <4>1 DEF MarksSuccess, Shape, TablesTyped, FileType
      <4>5. Tallied(S \cup {f}, success + 1, failed, Plus(totals, t))'
        BY <2>5, <2>7, <3>2, <4>4, TalliedSuccess
      <4> HIDE DEF Done
      <4> QED
        BY <2>5, <4>3, <4>5 DEF Tallied, GoodOf, SumOver
    <3>4. CASE MarksFailure
      <4>1. worker.at = "fail" /\ worker.code # NoError
        BY <3>4 DEF MarksFailure, At, TallyTrue
      <4>2. worker' = [worker EXCEPT !.at = "remove", !.failed = @ + 1, !.outcome = NoTotals,
                                     !.known = {}, !.code = NoError]
        BY <3>4 DEF MarksFailure
      <4>3. /\ worker'.success = success /\ worker'.failed = failed + 1
            /\ worker'.totals = totals
        BY <2>1, <3>1, <4>2 DEF WorkerType
      <4>4. file'[f].status = "failed" /\ file'[f].error # NoError
        BY <2>4, <3>4, <4>1 DEF MarksFailure, Shape, TablesTyped, FileType
      <4>5. Tallied(S \cup {f}, success, failed + 1, totals)'
        BY <2>5, <2>7, <3>2, <4>4, TalliedFailure
      <4> HIDE DEF Done
      <4> QED
        BY <2>5, <4>3, <4>5 DEF Tallied, GoodOf, SumOver
    <3> QED
      BY <1>6, <3>3, <3>4
  <2> HIDE DEF Done
  <2> QED
    BY <2>2, <2>6, <2>8
<1>7. CASE Removes
  <2>1. worker \in WorkerType /\ worker.at = "remove" /\ worker.at \in Taking
    BY <1>7, WorkerTyped DEF Removes, At, Steps, Taking, After
  <2>2. worker' = [worker EXCEPT !.at = "clear"]
    BY <1>7 DEF Removes, Goto
  <2>3. /\ worker'.at = "clear" /\ worker'.job = worker.job /\ worker'.kind = worker.kind
        /\ worker'.left = worker.left /\ worker'.success = worker.success
        /\ worker'.failed = worker.failed /\ worker'.totals = worker.totals
        /\ worker'.thrown = worker.thrown
    BY <2>1, <2>2 DEF WorkerType
  <2>4. Done' = Done
    BY <2>1, <2>3, SameCurrent DEF Done, After, FilesOf
  <2>5. ~ MarksFile /\ ~ MarksSuccess /\ ~ MarksFailure
    BY <2>1 DEF MarksFile, MarksSuccess, MarksFailure, At
  <2> HIDE DEF Done
  <2> QED
    BY <1>1, <2>1, <2>3, <2>4, <2>5, TallyCarries
<1>8. CASE Clears
  <2>1. worker \in WorkerType /\ worker.at = "clear" /\ worker.at \in Taking
    BY <1>8, WorkerTyped DEF Clears, At, Steps, Taking, After
  <2>2. ~ worker.thrown
    BY <1>8 DEF Clears, Throws, Idle, FirstTask, Taking, OnFile, After
  <2>3. worker' = [worker EXCEPT !.at = "next", !.left = @ \ {Current}]
    BY <1>8, <2>2 DEF Clears
  <2>4. /\ worker'.at = "next" /\ worker'.job = worker.job /\ worker'.kind = worker.kind
        /\ worker'.left = worker.left \ {Current} /\ worker'.success = worker.success
        /\ worker'.failed = worker.failed /\ worker'.totals = worker.totals
        /\ worker'.thrown = worker.thrown
    BY <2>1, <2>3 DEF WorkerType
  <2>5. Done' = Done
    <3>1. Current \in FilesOf(worker.job) /\ Done = (FilesOf(worker.job) \ worker.left) \cup {Current}
      BY <2>1, DoneFiles DEF After
    <3>2. Done' = FilesOf(worker.job) \ (worker.left \ {Current})
      BY <2>4 DEF Done, After, FilesOf
    <3> QED
      BY <3>1, <3>2
  <2>6. ~ MarksFile /\ ~ MarksSuccess /\ ~ MarksFailure
    BY <2>1 DEF MarksFile, MarksSuccess, MarksFailure, At
  <2> HIDE DEF Done
  <2> QED
    BY <1>1, <2>1, <2>2, <2>4, <2>5, <2>6, TallyCarries
<1>9. CASE Faults
  <2>1. worker \in WorkerType /\ worker.at \in {"read", "create", "succeed", "fail", "remove"}
    BY <1>9, WorkerTyped DEF Faults, Throws, Idle, FirstTask, Steps, Taking, OnFile, After
  <2>2. /\ worker'.job = worker.job /\ worker'.kind = worker.kind /\ worker'.left = worker.left
        /\ worker'.success = worker.success /\ worker'.failed = worker.failed
        /\ worker'.totals = worker.totals
        /\ worker'.at = IF worker.at \in {"read", "create", "succeed"} THEN "fail"
                        ELSE IF worker.at = "fail" THEN "remove" ELSE "clear"
        /\ worker'.thrown = (worker.at = "fail" \/ worker.thrown)
    BY <1>9, <2>1 DEF Faults, Goto, WorkerType
  <2>3. worker.at # "fail" => Done' = Done
    BY <2>1, <2>2, SameCurrent DEF Done, After, FilesOf
  <2>4. ~ MarksFile /\ ~ MarksSuccess /\ ~ MarksFailure
    <3>1. worker'.at = "remove" => worker.at = "fail"
      BY <2>1, <2>2
    <3>2. MarksFailure \/ MarksSuccess => faults' = faults
      BY DEF MarksFailure, MarksSuccess, counters
    <3>3. faults' # faults
      BY <1>9 DEF Faults, Shape, CountersTyped
    <3> QED
      BY <2>1, <3>2, <3>3 DEF MarksFile, At
  <2>5. worker.at \in Taking
    BY <2>1 DEF Taking, OnFile, After
  <2> HIDE DEF Done
  <2> QED
    BY <1>1, <2>1, <2>2, <2>3, <2>4, <2>5, TallyCarries
<1>10. worker'.at \in Taking
  BY DEF FirstTask
<1>11. ~ (Takes \/ Starts \/ MarksJob \/ Finishes \/ Sweeps \/ Restarts)
  BY <1>10, StepsLead DEF Taking, OnFile, After
<1> HIDE DEF Done
<1> QED
  BY <1>2, <1>3, <1>4, <1>5, <1>6, <1>7, <1>8, <1>9, <1>11, ClientsStep DEF Next, Work, vars

\* A step keeps the sums of the task true.
LEMMA TallyTrueStep ==
  ASSUME Shape, ToDo, Queue, TallyTrue, [Next]_vars
  PROVE  TallyTrue'
<1>1. FirstTask' => /\ job'[worker'.job].status = "processing"
                    /\ ~ worker'.thrown => Tallied(Done, worker.success, worker.failed, worker.totals)'
  BY TallyStep
<1> QED
  BY <1>1, TallyStartsStep DEF TallyTrue, FirstTask

\* A finished job goes on reporting what became of its files.
LEMMA ReportedStep ==
  ASSUME Shape, ToDo, Queue, TallyTrue, Reported, [Next]_vars
  PROVE  Reported'
<1>1. SUFFICES ASSUME NEW j \in Jobs, Finished(j)', j \notin retried'
      PROVE  /\ Tallied(FilesOf(j), job[j].success, job[j].failed, job[j].totals)'
             /\ job'[j].status = Outcome(job'[j].success, job'[j].failed)
  BY DEF Reported, Outcome
<1>2. j \notin retried
  BY <1>1, RetriedKept
<1>3. CASE Finishes /\ worker.job = j
  <2>1. worker.at = "next" /\ worker.left = {} /\ worker \in WorkerType
    BY <1>3, WorkerTyped DEF Finishes, At, Steps, Taking
  <2>2. worker.kind = "first"
    BY <1>2, <1>3, <2>1 DEF Queue, RetriesRemembered, Steps, Taking
  <2>3. Tallied(Done, worker.success, worker.failed, worker.totals)
    BY <1>2, <1>3, <2>1, <2>2 DEF TallyTrue, Steps, Taking, After
  <2>4. Done = FilesOf(j)
    BY <1>3, <2>1 DEF Done, After
  <2>5. /\ job'[j].status = Outcome(worker.success, worker.failed)
        /\ job'[j].success = worker.success /\ job'[j].failed = worker.failed
        /\ job'[j].totals = worker.totals /\ file' = file
    BY <1>3 DEF Finishes, Shape, TablesTyped
  <2> HIDE DEF Done
  <2> QED
    BY <2>3, <2>4, <2>5 DEF Tallied, GoodOf, SumOver, FilesOf
<1>4. CASE ~ (Finishes /\ worker.job = j)
  <2>1. ~ (MarksJob /\ worker.job = j)
    BY <1>1 DEF MarksJob, Finished, Shape, TablesTyped, JobType
  <2>2. job'[j] = job[j]
    BY <1>1, <1>4, <2>1, RowKept DEF Finished
  <2>3. Finished(j) /\ job[j].status # "none"
    BY <1>1, <2>2 DEF Finished
  <2>4. ASSUME NEW f \in FilesOf(j) PROVE SameVerdict(f)
    <3>1. f \in Files /\ JobOf[f] = j
      BY <2>4 DEF FilesOf
    <3>2. SUFFICES ASSUME MarksFile \/ MarksSuccess \/ MarksFailure, f = Current PROVE FALSE
      BY <1>1, <2>3, <3>1, VerdictKept
    <3>3. worker.at \in Taking /\ Current \in worker.left
      <4>1. CASE MarksFile
        <5>1. worker.at = "next" /\ worker.left # {} /\ worker \in WorkerType
          BY <4>1, WorkerTyped DEF MarksFile, At, Steps, Taking
        <5> QED
          BY <5>1, CurrentIsLeft DEF Taking, WorkerType
      <4>2. CASE MarksSuccess \/ MarksFailure
        BY <4>2, CurrentTaken DEF MarksSuccess, MarksFailure, At, Taking, OnFile
      <4> QED
        BY <3>2, <4>1, <4>2
    <3>4. worker.job = j
      BY <3>1, <3>2, <3>3 DEF ToDo, FilesOf
    <3>5. worker.kind = "first"
      BY <1>2, <3>3, <3>4 DEF Queue, RetriesRemembered, Steps
    <3>6. job[j].status = "processing"
      BY <1>2, <3>3, <3>4, <3>5 DEF TallyTrue
    <3> QED
      BY <2>3, <3>6 DEF Finished
  <2>5. PICK success, failed, totals :
          success = job[j].success /\ failed = job[j].failed /\ totals = job[j].totals
    OBVIOUS
  <2>6. Tallied(FilesOf(j), success, failed, totals) /\ job[j].status = Outcome(success, failed)
    BY <1>2, <2>3, <2>5 DEF Reported
  <2>7. FilesOf(j) \in SUBSET Files
    BY DEF FilesOf
  <2>8. Tallied(FilesOf(j), success, failed, totals)'
    BY <2>4, <2>6, <2>7, TalliedKept
  <2> QED
    BY <2>2, <2>5, <2>6, <2>8 DEF Tallied, GoodOf, SumOver
<1> QED
  BY <1>3, <1>4

-----------------------------------------------------------------------------
(* The disk, and the theorems.                                             *)

\* The first task removes its files one by one, and counts each.
Removing ==
  worker.at \in Taking \cup {"sweep"} /\ worker.kind = "first" =>
    /\ faults = 0 => disk \cap FilesOf(worker.job) \subseteq worker.left
    /\ faults = 0 /\ worker.at = "clear" => Current \notin disk
    /\ worker.at = "sweep" => worker.left = {}
    /\ worker.success + worker.failed > 0 \/ worker.thrown \/ FilesOf(worker.job) = worker.left
    /\ worker.at \in After => worker.success + worker.failed > 0 \/ worker.thrown

\* What is on the disk belongs to a job whose first task has not ended.
Emptied ==
  \A j \in Jobs : j \notin broken /\ restarts = 0 /\ faults <= 1 =>
    FirstQueued(j) \/ FirstOn(j) \/ disk \cap FilesOf(j) = {}

-----------------------------------------------------------------------------

\* Files appear with their job only; faults and stops are counted, errors remembered.
LEMMA DiskShrinks ==
  ASSUME Shape, [Next]_vars
  PROVE  /\ ~ Uploads => disk' \subseteq disk
         /\ faults <= faults' /\ restarts <= restarts' /\ broken \subseteq broken'
<1> USE DEF Shape, CountersTyped, counters
<1>1. CASE Uploads \/ AsksRetry
  <2>1. UNCHANGED <<faults, restarts, broken>> /\ (~ Uploads => disk' = disk)
    BY <1>1 DEF Uploads, CreateJob, AsksRetry, RetryChecks
  <2> QED
    BY <2>1
<1>2. ASSUME NEW c \in Clients, RetryStep(c) \/ RetryFails(c)
      PROVE  /\ disk' \subseteq disk
             /\ faults <= faults' /\ restarts <= restarts' /\ broken \subseteq broken'
  <2>1. CASE RetryResetsFiles(c)
    <3>1. UNCHANGED <<disk, faults, restarts, broken>>
      BY <2>1 DEF RetryResetsFiles
    <3> QED
      BY <3>1
  <2>2. CASE RetryQueues(c) \/ RetryFails(c)
    BY <2>2 DEF RetryQueues, RetryFails
  <2> QED
    BY <1>2, <2>1, <2>2 DEF RetryStep
<1>3. CASE Work
  <2>1. CASE Takes \/ Starts \/ MarksJob \/ Lists \/ Reads \/ Creates \/ Removes \/ Finishes
    BY <2>1 DEF Takes, Starts, MarksJob, Lists, Reads, Creates, Removes, Finishes
  <2>2. CASE MarksFile \/ MarksSuccess \/ MarksFailure \/ Clears
    BY <2>2 DEF MarksFile, MarksSuccess, MarksFailure, Clears, Throws
  <2>3. CASE Sweeps
    BY <2>3 DEF Sweeps, Swept
  <2> QED
    BY <1>3, <2>1, <2>2, <2>3 DEF Work
<1>4. CASE Faults
  BY <1>4 DEF Faults, Throws
<1>5. CASE Restarts \/ UNCHANGED vars
  BY <1>5 DEF Restarts, vars
<1> QED
  BY <1>1, <1>2, <1>3, <1>4, <1>5 DEF Next

\* The first task of a job, between two of its steps.
FirstAt == worker.at \in Taking \cup {"sweep"} /\ worker.kind = "first"

\* A step on the same list, which counts nothing and clears no path.
LEMMA RemovingCarries ==
  ASSUME Shape, ToDo, Removing, FirstAt, ~ Uploads, [Next]_vars,
         worker'.job = worker.job, worker'.left = worker.left,
         worker'.success = worker.success, worker'.failed = worker.failed,
         worker.thrown => worker'.thrown,
         faults' = 0 /\ worker'.at = "clear" => Current \notin disk',
         worker'.at = "sweep" => worker.left = {},
         worker'.at \in After => worker.success + worker.failed > 0 \/ worker'.thrown
  PROVE  Removing'
<1>1. disk' \subseteq disk /\ (faults' = 0 => faults = 0)
  BY DiskShrinks DEF Shape, CountersTyped
<1>2. Current' = Current
  BY SameCurrent
<1> QED
  BY <1>1, <1>2 DEF Removing, FirstAt, FilesOf

\* The first task goes on removing its files.
LEMMA RemovingStep ==
  ASSUME Shape, Shape', ToDo, Queue, TallyTrue, Removing, [Next]_vars
  PROVE  Removing'
<1>1. SUFFICES ASSUME FirstAt' PROVE Removing'
  BY DEF Removing, FirstAt
<1>2. CASE Uploads
  <2>0. PICK j \in Jobs, options \in Options : \E password \in Passwords[j] : CreateJob(j, options, password)
    BY <1>2 DEF Uploads
  <2>1. PICK password \in Passwords[j] : CreateJob(j, options, password)
    BY <2>0
  <2>2. UNCHANGED <<worker, faults>> /\ disk' = disk \cup FilesOf(j) /\ job[j].status = "none"
    BY <2>1 DEF CreateJob, counters
  <2>3. worker.job # j
    BY <1>1, <2>2, WorkerJob DEF FirstAt, Queue, Steps
  <2>4. FilesOf(j) \cap FilesOf(worker.job) = {}
    BY <2>3 DEF FilesOf
  <2>5. worker.at = "clear" => Current \notin FilesOf(j)
    <3>1. worker.at = "clear" => Current \in FilesOf(worker.job)
      BY DoneFiles DEF Taking, After
    <3> QED
      BY <2>4, <3>1
  <2>6. Current' = Current
    BY <2>2, SameCurrent
  <2> QED
    BY <2>2, <2>4, <2>5, <2>6 DEF Removing, FilesOf
<1>3. CASE worker' = worker /\ ~ Uploads
  <2>1. FirstAt
    BY <1>1, <1>3 DEF FirstAt
  <2>2. disk' \subseteq disk /\ (faults' = 0 => faults = 0)
    BY <1>3, DiskShrinks DEF Shape, CountersTyped
  <2> QED
    BY <1>3, <2>1, <2>2, RemovingCarries DEF Removing, FirstAt
<1>4. CASE Lists
  <2>1. worker \in WorkerType /\ worker.at = "list"
    BY <1>4, WorkerTyped DEF Lists, At, Steps, Early
  <2>2. worker'.at = "next" /\ worker'.kind = worker.kind /\ worker'.job = worker.job
    BY <1>4, <2>1 DEF Lists, WorkerType
  <2>3. worker.kind = "first"
    BY <1>1, <2>2 DEF FirstAt
  <2>4. worker'.left = FilesOf(worker.job)
    BY <1>4, <2>1, <2>3 DEF Lists, WorkerType
  <2> QED
    BY <2>2, <2>4 DEF Removing, After, FilesOf
<1>5. CASE MarksFile \/ Reads \/ Creates
  <2>1. worker \in WorkerType /\ worker.at \in {"next", "read", "create"}
    BY <1>5, WorkerTyped DEF MarksFile, Reads, Creates, At, Steps, Taking, OnFile
  <2>2. /\ worker'.at \in OnFile /\ worker'.job = worker.job /\ worker'.kind = worker.kind
        /\ worker'.left = worker.left /\ worker'.success = worker.success
        /\ worker'.failed = worker.failed /\ worker'.thrown = worker.thrown
    <3>1. CASE MarksFile
      BY <2>1, <3>1 DEF MarksFile, Goto, WorkerType, OnFile
    <3>2. CASE Reads
      BY <2>1, <3>2 DEF Reads, WorkerType, OnFile
    <3>3. CASE Creates
      BY <2>1, <3>3 DEF Creates, WorkerType, OnFile
    <3> QED
      BY <1>5, <3>1, <3>2, <3>3
  <2>3. FirstAt
    BY <1>1, <2>1, <2>2 DEF FirstAt, Taking, OnFile
  <2>4. CASE Uploads
    BY <1>2, <2>4
  <2>5. CASE ~ Uploads
    BY <2>2, <2>3, <2>5, RemovingCarries DEF OnFile, After
  <2> QED
    BY <2>4, <2>5
<1>6. CASE MarksSuccess \/ MarksFailure
  <2>1. worker \in WorkerType /\ worker.at \in OnFile
    BY <1>6, WorkerTyped DEF MarksSuccess, MarksFailure, At, Steps, Taking, OnFile
  <2>2. /\ worker'.at = "remove" /\ worker'.job = worker.job /\ worker'.kind = worker.kind
        /\ worker'.left = worker.left
        /\ worker'.success + worker'.failed = worker.success + worker.failed + 1
        /\ worker.success + worker.failed \in Nat
    <3>1. worker.success \in Nat /\ worker.failed \in Nat
      BY <2>1 DEF WorkerType
    <3>2. CASE MarksSuccess
      BY <2>1, <3>1, <3>2 DEF MarksSuccess, WorkerType
    <3>3. CASE MarksFailure
      BY <2>1, <3>1, <3>3 DEF MarksFailure, WorkerType
    <3> QED
      BY <1>6, <3>2, <3>3
  <2>3. disk' = disk /\ faults' = faults
    BY <1>6 DEF MarksSuccess, MarksFailure, counters
  <2>4. FirstAt
    BY <1>1, <2>1, <2>2 DEF FirstAt, Taking
  <2> QED
    BY <2>2, <2>3, <2>4 DEF Removing, FirstAt, FilesOf
<1>7. CASE Removes
  <2>1. worker \in WorkerType /\ worker.at = "remove"
    BY <1>7, WorkerTyped DEF Removes, At, Steps, Taking, After
  <2>2. worker' = [worker EXCEPT !.at = "clear"] /\ Current \notin disk'
    BY <1>7 DEF Removes, Goto
  <2>3. /\ worker'.at = "clear" /\ worker'.job = worker.job /\ worker'.kind = worker.kind
        /\ worker'.left = worker.left /\ worker'.success = worker.success
        /\ worker'.failed = worker.failed /\ worker'.thrown = worker.thrown
    BY <2>1, <2>2 DEF WorkerType
  <2>4. FirstAt /\ (worker.success + worker.failed > 0 \/ worker.thrown)
    BY <1>1, <2>1, <2>3 DEF Removing, FirstAt, Taking, After
  <2>5. CASE Uploads
    BY <1>2, <2>5
  <2>6. CASE ~ Uploads
    BY <2>2, <2>3, <2>4, <2>6, RemovingCarries
  <2> QED
    BY <2>5, <2>6
<1>8. CASE Clears
  <2>1. worker \in WorkerType /\ worker.at = "clear"
    BY <1>8, WorkerTyped DEF Clears, At, Steps, Taking, After
  <2>2. ~ worker.thrown
    BY <1>1, <1>8 DEF Clears, Throws, Idle, FirstAt, Taking, OnFile, After
  <2>3. worker' = [worker EXCEPT !.at = "next", !.left = @ \ {Current}]
    BY <1>8, <2>2 DEF Clears
  <2>4. /\ worker'.at = "next" /\ worker'.job = worker.job /\ worker'.kind = worker.kind
        /\ worker'.left = worker.left \ {Current} /\ worker'.success = worker.success
        /\ worker'.failed = worker.failed
    BY <2>1, <2>3 DEF WorkerType
  <2>5. disk' = disk /\ faults' = faults
    BY <1>8 DEF Clears, counters
  <2>6. FirstAt /\ worker.at \in After
    BY <1>1, <2>1, <2>4 DEF FirstAt, Taking, After
  <2> QED
    BY <2>1, <2>2, <2>4, <2>5, <2>6 DEF Removing, FirstAt, FilesOf, After
<1>9. CASE Finishes
  <2>1. worker \in WorkerType /\ worker.at = "next" /\ worker.left = {}
    BY <1>9, WorkerTyped DEF Finishes, At, Steps, Taking
  <2>2. worker' = [worker EXCEPT !.at = "sweep"]
    BY <1>9 DEF Finishes, Goto
  <2>3. /\ worker'.at = "sweep" /\ worker'.job = worker.job /\ worker'.kind = worker.kind
        /\ worker'.left = worker.left /\ worker'.success = worker.success
        /\ worker'.failed = worker.failed /\ worker'.thrown = worker.thrown
    BY <2>1, <2>2 DEF WorkerType
  <2>4. disk' = disk /\ faults' = faults
    BY <1>9 DEF Finishes, counters
  <2>5. FirstAt
    BY <1>1, <2>1, <2>3 DEF FirstAt, Taking
  <2> QED
    BY <2>1, <2>3, <2>4, <2>5 DEF Removing, FirstAt, FilesOf, After
<1>10. CASE Faults
  <2>1. worker \in WorkerType /\ worker.at \in {"read", "create", "succeed", "fail", "remove"}
    BY <1>1, <1>10, WorkerTyped DEF Faults, Throws, Idle, FirstAt, Steps, Taking, OnFile, After
  <2>2. /\ worker'.job = worker.job /\ worker'.kind = worker.kind /\ worker'.left = worker.left
        /\ worker'.success = worker.success /\ worker'.failed = worker.failed
        /\ worker'.at = IF worker.at \in {"read", "create", "succeed"} THEN "fail"
                        ELSE IF worker.at = "fail" THEN "remove" ELSE "clear"
        /\ worker'.thrown = (worker.at = "fail" \/ worker.thrown)
    BY <1>10, <2>1 DEF Faults, Goto, WorkerType
  <2>3. FirstAt /\ faults' # 0
    BY <1>1, <1>10, <2>1, <2>2 DEF Faults, FirstAt, Taking, OnFile, After, Shape, CountersTyped
  <2>4. worker'.at \in After => worker.success + worker.failed > 0 \/ worker'.thrown
    BY <2>1, <2>2, <2>3 DEF Removing, FirstAt, After
  <2>5. CASE Uploads
    BY <1>2, <2>5
  <2>6. CASE ~ Uploads
    BY <2>1, <2>2, <2>3, <2>4, <2>6, RemovingCarries
  <2> QED
    BY <2>5, <2>6
<1>11. ~ (Takes \/ Starts \/ MarksJob \/ Sweeps \/ Restarts)
  BY <1>1, StepsLead DEF FirstAt, Taking, OnFile, After
<1> QED
  BY <1>2, <1>3, <1>4, <1>5, <1>6, <1>7, <1>8, <1>9, <1>10, <1>11, ClientsStep DEF Next, Work, vars

\* A task that ends has met an error or swept its directory.
LEMMA TaskEnds ==
  ASSUME Shape, Work \/ Faults, worker.at \in Steps, worker'.at \notin Steps
  PROVE  \/ Starts /\ job[worker.job].status # "pending"
         \/ worker.job \in broken'
         \/ Sweeps
         \/ Faults /\ worker.at = "sweep"
<1>1. CASE Work
  <2>1. Starts \/ Clears \/ Sweeps
    <3>1. ~ (Takes \/ MarksJob \/ Lists \/ MarksFile \/ Reads \/ Creates \/ MarksSuccess
              \/ MarksFailure \/ Removes \/ Finishes)
      BY StepsLead DEF Steps, Early, Taking, OnFile, After
    <3> QED
      BY <1>1, <3>1 DEF Work
  <2>2. ASSUME Starts PROVE job[worker.job].status # "pending"
    BY <2>2, WorkerTyped DEF Starts, Goto, WorkerType, Steps, Early
  <2>3. ASSUME Clears PROVE worker.job \in broken'
    <3>1. worker \in WorkerType
      BY WorkerTyped
    <3>2. worker.thrown
      BY <2>3, <3>1 DEF Clears, WorkerType, Steps, Taking
    <3> QED
      BY <2>3, <3>2 DEF Clears, Throws
  <2> QED
    BY <2>1, <2>2, <2>3
<1>2. CASE Faults
  <2>1. CASE worker.at \in {"read", "create", "succeed", "fail", "remove"}
    BY <1>2, <2>1, WorkerTyped DEF Faults, Goto, WorkerType, Steps, Taking, OnFile, After
  <2>2. CASE worker.at \in {"start", "mark", "list", "next", "clear"}
    BY <1>2, <2>2 DEF Faults, Throws
  <2>3. CASE worker.at = "sweep"
    BY <1>2, <2>3
  <2> QED
    BY <1>2, <2>1, <2>2, <2>3 DEF Faults
<1> QED
  BY <1>1, <1>2

\* Nothing stays on the disk when the first task of a job has ended.
LEMMA EmptiedStep ==
  ASSUME Shape, Shape', ToDo, Queue, TallyTrue, Removing, Emptied, [Next]_vars
  PROVE  Emptied'
<1>1. SUFFICES ASSUME NEW j \in Jobs, j \notin broken', restarts' = 0, faults' <= 1
      PROVE  FirstQueued(j)' \/ FirstOn(j)' \/ disk' \cap FilesOf(j) = {}
  BY DEF Emptied, FilesOf
<1>2. /\ ~ Uploads => disk' \subseteq disk
      /\ j \notin broken /\ restarts = 0 /\ faults <= 1
  BY <1>1, DiskShrinks DEF Shape, CountersTyped
<1>3. FirstQueued(j) \/ FirstOn(j) \/ disk \cap FilesOf(j) = {}
  BY <1>1, <1>2 DEF Emptied
<1>4. CASE Uploads
  <2>1. PICK i \in Jobs, options \in Options : \E password \in Passwords[i] : CreateJob(i, options, password)
    BY <1>4 DEF Uploads
  <2>2. PICK password \in Passwords[i] : CreateJob(i, options, password)
    BY <2>1
  <2> DEFINE t == Task("first", i, password)
  <2>3. t \in TaskType /\ t.kind = "first" /\ t.job = i
    BY <2>2, ImportAssumption DEF Task, TaskType, PasswordType
  <2>4. chain' = Append(chain, t) /\ worker' = worker /\ disk' = disk \cup FilesOf(i)
    BY <2>2 DEF CreateJob
  <2> HIDE DEF t
  <2>5. FirstQueued(j)' <=> FirstQueued(j) \/ i = j
    BY <2>3, <2>4, Appended
  <2>6. i # j => FilesOf(i) \cap FilesOf(j) = {}
    BY DEF FilesOf
  <2>7. FirstOn(j)' <=> FirstOn(j)
    BY <2>4 DEF FirstOn, On
  <2> QED
    BY <1>3, <2>4, <2>5, <2>6, <2>7
<1>5. ASSUME ~ Uploads, chain' = chain, worker' = worker
      PROVE  FirstQueued(j)' \/ FirstOn(j)' \/ disk' \cap FilesOf(j) = {}
  BY <1>2, <1>3, <1>5 DEF FirstQueued, FirstOn, On
<1>6. ASSUME NEW c \in Clients, RetryQueues(c), ~ Uploads
      PROVE  FirstQueued(j)' \/ FirstOn(j)' \/ disk' \cap FilesOf(j) = {}
  <2> DEFINE t == Task("retry", retry[c].job, retry[c].password)
  <2>1. retry[c] \in RetryType
    BY <1>6 DEF RetryQueues, Idle, Shape, TasksTyped
  <2>2. t \in TaskType
    BY <2>1 DEF Task, TaskType, RetryType
  <2>3. chain' = Append(chain, t) /\ worker' = worker
    BY <1>6 DEF RetryQueues
  <2> HIDE DEF t
  <2>4. FirstQueued(j) => FirstQueued(j)'
    BY <2>2, <2>3, Appended
  <2> QED
    BY <1>2, <1>3, <1>6, <2>3, <2>4 DEF FirstOn, On
<1>7. CASE Takes /\ ~ Uploads
  <2>1. FirstQueued(j) => FirstQueued(j)' \/ FirstOn(j)'
    <3>1. SUFFICES ASSUME NEW i \in 1 .. Len(chain), chain[i].kind = "first", chain[i].job = j
          PROVE  FirstQueued(j)' \/ FirstOn(j)'
      BY DEF FirstQueued
    <3>2. CASE i = 1
      BY <1>7, <3>1, <3>2, Taken DEF FirstOn, On, Steps, Early
    <3>3. CASE i # 1
      <4>1. i - 1 \in 1 .. Len(chain') /\ chain'[i - 1] = chain[i]
        BY <1>7, <3>3, Taken
      <4> QED
        BY <3>1, <4>1 DEF FirstQueued
    <3> QED
      BY <3>2, <3>3
  <2>2. ~ FirstOn(j)
    BY <1>7, Taken DEF FirstOn, On, Steps, Early, Taking, OnFile, After
  <2> QED
    BY <1>2, <1>3, <1>7, <2>1, <2>2
<1>8. CASE (Work \/ Faults) /\ ~ Takes /\ ~ Uploads
  <2>1. Continues
    <3>1. ~ AsksRetry /\ ~ Restarts /\ ~ \E c \in Clients : RetryResetsFiles(c) \/ RetryQueues(c)
      <4>1. worker' # worker \/ faults' # faults
        <5>1. CASE Work
          BY <1>8, <5>1, StepsLead DEF Work, Starts, MarksJob, Lists, MarksFile, Reads, Creates,
             MarksSuccess, MarksFailure, Removes, Clears, Finishes, Sweeps, At
        <5>2. CASE Faults
          BY <5>2 DEF Faults, Shape, CountersTyped
        <5> QED
          BY <1>8, <5>1, <5>2
      <4>2. ~ AsksRetry
        BY <4>1 DEF AsksRetry, RetryChecks
      <4>3. ~ \E c \in Clients : RetryResetsFiles(c) \/ RetryQueues(c)
        BY <4>1 DEF RetryResetsFiles, RetryQueues, counters
      <4>4. ~ Restarts
        BY <1>1, <1>2 DEF Restarts
      <4> QED
        BY <4>2, <4>3, <4>4
    <3> QED
      BY <1>8, <3>1, StepKinds
  <2>2. FirstQueued(j) => FirstQueued(j)'
    BY <2>1 DEF Continues, FirstQueued
  <2>3. ASSUME FirstOn(j), ~ FirstOn(j)' PROVE disk' \cap FilesOf(j) = {}
    <3>1. worker.at \in Steps /\ worker'.at \notin Steps /\ worker.job = j /\ worker.kind = "first"
      BY <2>1, <2>3 DEF Continues, FirstOn, On
    <3>2. CASE Starts /\ job[worker.job].status # "pending"
      BY <3>1, <3>2 DEF Starts, At, Queue, Waiting, Waits, FirstOn, On, Early
    <3>3. CASE worker.job \in broken'
      BY <1>1, <3>1, <3>3
    <3>4. CASE Sweeps
      <4>1. worker.at = "sweep" /\ worker \in WorkerType
        BY <3>1, <3>4, WorkerTyped DEF Sweeps, At
      <4>2. worker.left = {} /\ ~ worker.thrown
        BY <3>1, <4>1 DEF Removing, TallyTrue, After
      <4>3. CASE worker.success + worker.failed > 0
        BY <3>1, <3>4, <4>3 DEF Sweeps, Swept
      <4>4. CASE FilesOf(worker.job) = {}
        BY <3>1, <4>4
      <4> QED
        BY <3>1, <4>1, <4>2, <4>3, <4>4 DEF Removing
    <3>5. CASE Faults /\ worker.at = "sweep"
      <4>1. faults = 0
        BY <1>1, <3>5 DEF Faults, Shape, CountersTyped
      <4>2. disk \cap FilesOf(j) \subseteq {}
        BY <3>1, <3>5, <4>1 DEF Removing
      <4> QED
        BY <1>2, <1>8, <4>2
    <3> QED
      BY <1>8, <3>1, <3>2, <3>3, <3>4, <3>5, TaskEnds
  <2> QED
    BY <1>2, <1>3, <1>8, <2>2, <2>3
<1>9. CASE Restarts
  BY <1>1, <1>2, <1>9 DEF Restarts
<1>10. AsksRetry => chain' = chain /\ worker' = worker
  BY DEF AsksRetry, RetryChecks
<1>11. ASSUME NEW c \in Clients, RetryResetsFiles(c) \/ RetryFails(c)
       PROVE  chain' = chain /\ worker' = worker
  BY <1>11 DEF RetryResetsFiles, RetryFails
<1>12. UNCHANGED vars => chain' = chain /\ worker' = worker
  BY DEF vars
<1> QED
  BY <1>4, <1>5, <1>6, <1>7, <1>8, <1>9, <1>10, <1>11, <1>12 DEF Next, RetryStep, Work

-----------------------------------------------------------------------------

\* The inductive invariant.
Inv ==
  /\ Shape /\ ToDo /\ Queue /\ KnowsBooks /\ BooksContent
  /\ FiguresTrue /\ TallyTrue /\ Reported /\ Removing /\ Emptied

\* At first nothing is queued, counted or on the disk.
LEMMA InvInit == Init => Inv
<1> SUFFICES ASSUME Init PROVE Inv
  OBVIOUS
<1>1. Shape
  BY ShapeInit
<1>2. /\ worker.at = "idle" /\ chain = << >> /\ Len(chain) = 0
      /\ \A c \in Clients : retry[c] = Idle
      /\ \A j \in Jobs : job[j] = NoJob
      /\ \A f \in Files : file[f] = NoFile /\ \A m \in Movements : imported[f][m] = 0
      /\ disk = {} /\ retried = {}
  BY EmptySeq DEF Init, Idle
<1>3. worker.at \notin Steps
  BY <1>2 DEF Steps, Early, Taking, OnFile, After
<1>4. \A j \in Jobs : ~ FirstQueued(j) /\ ~ On(j) /\ ~ FirstOn(j)
  BY <1>2, <1>3 DEF FirstQueued, On, FirstOn
<1>5. Queue
  BY <1>2, <1>3, <1>4 DEF Queue, QueuedOnce, RetriesRemembered, NothingBefore, Waiting, Waits, FilesOf, NoFile
<1>6. ToDo /\ KnowsBooks /\ TallyTrue /\ Removing
  BY <1>2, <1>3 DEF ToDo, KnowsBooks, TallyTrue, Removing, Steps, Early, Taking, OnFile, After
<1>7. BooksContent /\ FiguresTrue
  BY <1>2 DEF BooksContent, Books, FiguresTrue, NoFile
<1>8. Reported /\ Emptied
  BY <1>2 DEF Reported, Finished, NoJob, Emptied
<1> QED
  BY <1>1, <1>5, <1>6, <1>7, <1>8 DEF Inv

\* Every step keeps the invariant.
LEMMA InvStep ==
  ASSUME Inv, [Next]_vars PROVE Inv'
<1> USE DEF Inv
<1>1. Shape'
  BY ShapeStep
<1>2. ToDo' /\ Queue' /\ KnowsBooks' /\ BooksContent'
  BY ToDoStep, QueueStep, KnowsBooksStep, BooksContentStep
<1>3. FiguresTrue' /\ TallyTrue' /\ Reported'
  BY FiguresStep, TallyTrueStep, ReportedStep
<1>4. Removing' /\ Emptied'
  BY <1>1, RemovingStep, EmptiedStep
<1> QED
  BY <1>1, <1>2, <1>3, <1>4

\* The invariant holds: in every state of the import the parts above agree.
THEOREM InvHolds == Spec => []Inv
<1>1. Inv /\ UNCHANGED vars => Inv'
  BY InvStep
<1> QED
  BY InvInit, InvStep, PTL DEF Spec

\* The figures of every successful file are those of its lines.
THEOREM ImportLines == Spec => []LinesAreAccounted
<1>1. Inv => LinesAreAccounted
  BY DEF Inv, FiguresTrue, Accounted, LinesAreAccounted
<1> QED
  BY <1>1, InvHolds, PTL

\* A finished job that was not retried reports what became of its files.
THEOREM ImportReports == Spec => []ReportIsTrue
<1>1. Inv => ReportIsTrue
  <2>1. SUFFICES ASSUME Inv, NEW j \in Jobs, Finished(j), j \notin retried
        PROVE  LET good == {f \in FilesOf(j) : file[f].status = "success"}
                   sum(k) == Total(Len(JobOf), [f \in Files |-> IF f \in good THEN file[f].totals[k] ELSE 0])
               IN  /\ job[j].success = Cardinality(good)
                   /\ job[j].failed = Cardinality(FilesOf(j) \ good)
                   /\ job[j].status = "completed" <=> good = FilesOf(j) /\ good # {}
                   /\ \A k \in DOMAIN NoTotals : job[j].totals[k] = sum(k)
                   /\ \A f \in FilesOf(j) : file[f].error = NoError <=> f \in good
    BY DEF ReportIsTrue
  <2> DEFINE S == FilesOf(j)
             good == GoodOf(S)
  <2>2. /\ Tallied(S, job[j].success, job[j].failed, job[j].totals)
        /\ job[j].status = Outcome(job[j].success, job[j].failed)
    BY <2>1 DEF Inv, Reported
  <2>3. S \in SUBSET Files /\ good \in SUBSET Files /\ S \ good \in SUBSET Files
    BY DEF FilesOf, GoodOf
  <2>4. /\ IsFiniteSet(good) /\ IsFiniteSet(S \ good)
        /\ Cardinality(good) \in Nat /\ Cardinality(S \ good) \in Nat
    BY <2>3, FilesFinite
  <2>5. (Cardinality(good) = 0 <=> good = {}) /\ (Cardinality(S \ good) = 0 <=> S \ good = {})
    BY <2>4, FS_EmptySet
  <2>6. job[j].success = Cardinality(good) /\ job[j].failed = Cardinality(S \ good)
    BY <2>2 DEF Tallied
  <2>7. job[j].status = "completed" <=> good # {} /\ S \ good = {}
    BY <2>2, <2>4, <2>5, <2>6 DEF Outcome
  <2>8. good \subseteq S
    BY DEF GoodOf
  <2>9. /\ \A k \in DOMAIN NoTotals : job[j].totals[k] = SumOver(good, k)
        /\ \A f \in S : file[f].error = NoError <=> f \in good
    BY <2>2 DEF Tallied, GoodOf
  <2>10. good = {f \in S : file[f].status = "success"}
    BY DEF GoodOf
  <2> HIDE DEF good, S
  <2> QED
    BY <2>6, <2>7, <2>8, <2>9, <2>10 DEF SumOver, S
<1> QED
  BY <1>1, InvHolds, PTL

\* When a job has ended its statements are off the disk, one failed removal included.
THEOREM ImportLeavesNothing == Spec => []NothingStaysOnDisk
<1>1. Inv => NothingStaysOnDisk
  <2>1. SUFFICES ASSUME Inv, NEW j \in Jobs, Finished(j), worker = Idle \/ worker.job # j,
                        j \notin broken, restarts = 0, faults <= 1
        PROVE  disk \cap FilesOf(j) = {}
    BY DEF NothingStaysOnDisk
  <2>2. ~ FirstQueued(j)
    BY <2>1 DEF Inv, Queue, QueuedOnce, Waiting, Waits, Finished
  <2>3. ~ FirstOn(j)
    BY <2>1 DEF FirstOn, On, Idle, Steps, Early, Taking, OnFile, After
  <2> QED
    BY <2>1, <2>2, <2>3 DEF Inv, Emptied
<1> QED
  BY <1>1, InvHolds, PTL
=============================================================================
