# A verification model of api-cost-manager

api-cost-manager is a NestJS server for personal finances: it records
transactions, moves money between accounts, follows savings goals, assets and
liabilities, imports bank statements and reminds of what is due. This directory
holds TLA+ models of its state and of what its requests, jobs and callbacks do to
it. The ledger and the imports come first, because a mistake there stays in the
data for ever; around them are the summary cache, the reminders, users and their
credentials, rate limits, notifications, the simple tables, and the algorithms that read
statements and compute plans, counts, summaries and listings. TLC checks the models on
small instances; TLAPS proves the main properties for all of them.

    tlc -workers 2 -config ledger_books.cfg MCLedger
    tlapm LedgerProofs.tla

`PROJECT.json` lists the components, runs, mutants, the source lines each
definition stands for, the disagreements between code and comments that the runs
show, the hazards, and the theorems.

## 1. The system

State is in PostgreSQL (schemas `identity`, `catalog`, `banking`, `finance`,
...), reached through TypeORM; Redis holds caches, counters, blocks and presence;
Keycloak holds the credentials; uploaded statements wait in temporary files. The
server is one Node process, so code between two `await`s is not interrupted, but
requests, cron jobs and background work interleave at every `await`, and several
database transactions are open at a time.

| Component | State | Operations | Hard behaviour | What makes it correct |
|---|---|---|---|---|
| transactions (`TransactionRecordRepository`) | `transaction_record`, soft deletion | create, createMany, update (with chained update), clone, softDelete, softDeleteMany | every write also moves up to four balances by differences; reads happen before the database transaction | balances equal what the live records explain |
| transfers (same repository) | pairs of records with a `transfer_group_id` | createTransfer, updateTransfer, softDeleteTransfer, findTransferById, list | two rows and two accounts per operation; rows also reachable through /transactions | a pair lives and dies together and moves one amount |
| categorisation | `transaction_category_rule`, `category_status` | learnRule, applyAutoCategory, company default, chained update | rules learned by one request classify the records of others | the review queue is exactly the records without category |
| objectives and payments | `financial_objective`, `objective_payment` | create, update, delete, pay, remove payment, calculateQuota | completion is decided by every path that moves a balance; plans at month ends | completion follows balance and target; a plan fits its term |
| accounts, assets, liabilities | `bank_account` (encrypted balance), `financial_asset`, `financial_liability` | create, edit, quote, delete | a stale balance may be written back | as for transactions |
| statement import | `statement_import`, `statement_import_file`, temporary files, the promise chain | createJob, retryJob, background processing | faults at any statement, restarts, retries, overlapping files | nothing booked twice, true reports, no file left behind, every job ends |
| bank statement parser | none (lines of a PDF) | one reader per layout | lines of all pages sorted by height, continuation lines, amounts without a column | what was printed is what is read |
| summary cache | Redis, a generation counter per user | read-through, invalidate | fills that race writes, lost increments, writes that do not invalidate | no answer misses an acknowledged write; bounded age |
| summaries and listings | none | getSummary, findAll, findTransfers | folds over maps, a query builder that forgets conditions, pages that cut pairs | breakdowns add up to totals; every transfer once |
| fixed reminders | `notification` rows keyed by `reference` | daily cron | calendar arithmetic, missed mornings, edits and removals in between | first due date; one reminder each; none forgotten |
| cash counts | `cash_arqueo` | create, reconciliation | rows matched by fingerprint | what is unmatched explains the difference |
| periods, profiles, categories, subcategories, companies, banks, news, support | one table each | create, edit, remove | look, then insert; merge into a row read before | no twins; the last answer holds |
| identity | `app_user`, Keycloak accounts, cached profile | create, update, roles, status, delete | two stores without a transaction, compensation | both stores or neither; who is locked out stays out |
| auth | one-time codes, signed tokens, sessions | forgot, verify, reset, login, logout, change password | rows read, changed and saved whole while another request closes them | a code buys one token; guesses are bounded |
| rate limits | Redis counters and blocks | throttle, block an address | counting and blocking are two calls | at most the limit; the block outlives the count |
| notifications, presence | rows, rooms of sockets, a Redis key | create, read, mark, remove, connect, join, disconnect | a list fetched while something is announced | nothing missed, reads shown everywhere |
| market data, mail, audit, intelligence, logging, encryption | none, or rows nothing reads | HTTP, SMTP, inserts | — | — |

Interactions: `StatementImportService` calls the parser,
`TransactionRecordRepository` (`findExistingFingerprints`, `createMany`) and
`NotificationService`; the reminder scheduler reads `transaction_record` and
calls `NotificationService.createIfMissing`, which pushes through the gateway; `/transactions` and
`/transfers` share the repository and its tables, and only the first of them invalidates summaries;
`ObjectivePaymentRepository`, `FinancialObjectiveRepository` and the ledger
share `financial_objective` and `applyCompletion`; `UserService` and `AuthService`
share Keycloak's accounts and sessions; login passes the throttler and the block on addresses.

## 2. The modules

| Module | What it is | Extends |
|---|---|---|
| `Totals` | running totals over rows keyed 1..n, as a recursive function | |
| `Categorization` | normal forms, rules, company default, review status (pure operators) | |
| `Ledger` | every write to records, payments and balances, one step per request: the specification of requests that do not overlap | `Totals`, `Categorization` |
| `LedgerRaces` | the same requests one SQL statement at a time; implements `Ledger` when they do not overlap | `Ledger` |
| `StatementImport` | import jobs, files, figures, the chain, retries, faults and restarts | |
| `FreshReads` | what a cache in front of a table promises: the abstract specification | |
| `SummaryCache` | the generation counter and the summaries kept under it, one call at a time; implements `FreshReads` | instances `FreshReads` |
| `Calendar` | local days and due dates (pure operators), with reference definitions | |
| `Reminders` | the daily run over a fixed movement | `Calendar` |
| `Accounts` | users in Keycloak, in the table and in the cache | |
| `ResetCodes` | one-time codes, guesses, tokens | |
| `RateLimits` | the throttler and the block on addresses | |
| `Inbox` | notifications, sockets, presence | |
| `Registries` | nine tables and the two shapes their repositories share | |
| `Sorting` | the rows of a set in an order | |
| `StatementParser` | lines of a printed statement to movements | `Sorting` |
| `Quotas`, `CashCounts`, `Reports` | plans, reconciliations, summaries and listings (pure operators) | `Calendar`, `Sorting` |
| `MCLedger`, `MCLedgerRaces`, `MCStatementImport`, `MCSummaryCache`, `MCReminders` | finite instances | |
| `MCInputs`, `MCServices` | inputs for the pure operators; one instance for the ten services around the ledger | |
| `TotalsTheorems`, `LedgerProofs`, `LedgerRacesProofs`, `SummaryCacheProofs`, `StatementImportProofs` | theorems | the module they are about |
| `CalendarProofs` | theorems about due dates and reminders, plans, summaries and reconciliations | `Reminders`, `Quotas`, `Reports`, `CashCounts` |
| `LedgerRefinementProofs` | one request at a time implements `Ledger` | `LedgerRacesProofs` |
| `ServicesProofs` | theorems about the throttler, the inbox, the tables, codes and users | `RateLimits`, `Inbox`, `Registries`, `ResetCodes`, `Accounts` |

### Ledger

`record`, `payment` and `status`/`balance`/`target`/`completed` are the tables;
`next` is the identity column; `rules` is `transaction_category_rule`. `base` is
history: the part of a balance that was typed in by the user (at creation, by
PATCH, by a quote) rather than moved. An action is a repository method with
everything it calls: `Create`, `Update`, `Clone`, `CreateMany` post
`collectContributions` differences through `SettleNet` (`applyLinkAdjustments`),
the three transfer operations post `Adjusted` (`applyTransferAdjustment`) through
`Settle`, which also re-evaluates completion (`applyCompletion`) of every goal it
touches, also by zero. A request that fails validation changes nothing and is
not a step. A rolled back request is not a step here either; `LedgerRaces` shows
that this is right.

Abstractions: one user; the three patrimony columns are one field, because the
DTO and a table constraint allow one of them; descriptions are values of which
only the normal form counts; subcategories, dates, texts and payment methods
are left out; amounts are integers (NUMERIC(15,2) in cents). The rows of a deleted
record are forgotten except for their group. `LegEdits` says what clients use
PATCH /transactions/:id for on a leg of a transfer. The code allows "any", and
`ledger_books` and the theorems on types, pairs, gaps, the queue, categories and goals take it so.
That balances equal what explains them (`Reconciled`) is then false; what is true is
`GapsComeFromBentRecords`: a balance departs from what explains it only in a request that changes a record
edited out of the shape of a transfer (`Bent`) and naming that balance. "sameShape" (the leg stays a transfer
without patrimony link) is an assumption on clients, which `ledger_links`, `ledger_review` and the theorem
`BooksBalance` make to state `Reconciled` itself. Likewise a transfer's rows may stop mirroring each other;
`PairsPartByPatch` says of all of these that a PATCH of one of them is the only request that does it.

### LedgerRaces

Each request is a list of statements in `todo`, begun by `Ask...` with the reads
that precede the first write: `findById`, `findTransferById`, outside the transaction
in the code, or the unlocked `find` of `softDeleteMany` inside it. `adjust` is the read of
`applyToEntity`, `write` its save; `work` holds uncommitted writes and, by
its domain, the row locks. The database is external and modelled from how the
code uses it: a transaction reads committed rows and its own writes; an UPDATE
locks its row until the end and then works on the row as committed; a cycle of
waits is ended by rolling one transaction back. TypeORM's `save` of a loaded
entity selects the row again, compares, and updates the columns that differ,
`deleted_at` included; a save without difference writes nothing. `Fail` is
a statement that fails or a process that stops: `dataSource.transaction` rolls back.
`touch` and `raced` are history. `touch` is what a running request has asked to change: the
rows and the balances its statements write, and the entities those rows are linked to, before and after. When a
request begins beside another, `raced` gains the balances both write and, if they
write a common row, everything either is linked to. The new balance
`applyToEntity` computes is always written (`counted`): the driver reads NUMERIC as text and an account's balance is
encrypted anew, so that TypeORM finds a difference even where there is none. Loops over rows are
`Joined` and `ForEach`, recursive functions the proofs can expand. `Keep` takes the
next free keys, which `RacesAssumption` provides for every request. Categories are
switched off here (`Categories = {}`), entities are created before the first
request, and not closed; goals keep their target.

### StatementImport

The worker's `at` is the `await` it stands at in `processJob`/`processRetryJob`; `chain`
is the list of tasks behind the promise chain. `RetryChecks`, `RetryResetsFiles`,
`RetryQueues` are the three steps of `retryJob` between which others run.
`Faults` follows the `try`/`catch`/`finally`: an error while a file is read, created or marked
successful fails the file; an error in `markFileFailed` lets the cleanup run
and then ends the task; any other ends the task, and `.catch` keeps
the chain going. `Restarts` loses chain, worker and requests, keeps the tables and
keeps or loses the temporary files. A file is what can be wrong with it (no PDF header,
damaged, encrypted) and its movements in order; the files a task still has before it are the set `left`; `StatementParser` says how these are
read. The options `skip_duplicates`, `assign_categories` and a category for the whole job decide
what is skipped and what counts as uncategorised; parsed, created, skipped and uncategorised
rows are kept per file and summed per job.

`DriverDates` is how the driver renders a DATE column of a raw row. node-postgres as
configured returns a Date object (`getSummary` handles exactly that and says so in a comment), which is
the run `import_duplicates`. The run `import_once` takes "text", so that everything else the
protection against duplicates rests on (order of lookup and insert, one
transaction per file, faults, restarts, retries) is checked apart from that
one defect; its other properties do not depend on the constant, and no theorem assumes it.

One simplification: a failed file whose `storage_path` is cleared is skipped by the cleanup in the code, also when an
earlier removal of it failed and left it on the disk; in the model a later cleanup tries it again. Either way the
directory is swept at the end, which is what `NothingStaysOnDisk` rests on.

### SummaryCache and FreshReads

`gen` is the key `tx:summary:gen:<user>`, `entry` the summaries kept under a
generation. A write commits, reads the counter and writes it back one higher
(`Commit`, `ReadsGen`, `SetsGen`); a summary is asked for, its key made, looked up,
computed by several selects of which the first and the last matter, and stored (`Asks` to
`Stores`). Keys expire in `Ticks`. A summary is reduced to which writes it has seen. `acked` is the
latest write whose client has its answer, `floor` what was acknowledged when a reader asked.
`FreshReads` is a regular register: an answer reflects at least what was acknowledged
before the question. It does not hold as it stands, because nothing serialises the invalidations of a user: `lapse` is
history, the last time at which the counter failed to follow the writes: an invalidation that read it before another and
sets it after, to a lower number; a counter that ran out; a failed call to Redis; a write that invalidates nothing
(`CommitsElsewhere`: /transfers and imports). What a lapse may still show in (`InDoubt`) is a question that was open at the time, or comes within the
longest life of a key and the patience of two requests; the promise is made of every other question, and so it comes
back by itself after each lapse.

### Calendar and Reminders

`Calendar` has the arithmetic of the scheduler (`nextOccurrence`, months clamped to
their last day, anchors by day of the month) and, apart from it, `IsDue`, which says
on which days a movement is due without computing the next one. `Reminders` follows
one fixed movement day by day: `Looks` is the scheduler's look at it up to the query for the reference in
`createIfMissing`, the insert a step of its own; the user deletes notifications, edits the terms and deletes
the movement; a morning may be missed, by a fault or because the server is down. Movements are
independent of each other (the loop catches the errors of one and goes on), so one is enough.

### Accounts, ResetCodes, RateLimits

`Accounts` has one step per call to Keycloak, PostgreSQL or Redis of `createUser`
(with its compensation), `updateUser`, `changeUserStatus`, the role updates, `deleteUser`, login, logout
and the cached profile. A call may fail before it takes effect (`Fails`) or its
answer may be lost after it (`LosesAnswer`). `stranded` and `shaken` are history: users whose
compensation failed, and users on whom requests overlapped or stopped halfway.

`ResetCodes` has the rows of one user's codes, requests that close open codes and save a new one, verifications that find
the newest open code and save its row, and the change of the password with the signed token.
TypeORM's `save` of a row read before writes the columns that differ from the row as it is then.
Verifications overlap, as nothing in `verifyOtp` keeps them apart. `overrun` is history: the codes one
verification saved after another had saved what both had read. Of those, and only of those, a code may buy
two tokens and be guessed more than three times.

`RateLimits` has the script of the throttler (`CountsHit`: one indivisible command) and
its block, and the counter and block of failed logins, which are a `get` and a `set` each.

### Inbox

`notice` is the table, `socket` what each connected client has been told: its room, the
notifications it knows, those it shows as read, and the list it has asked for since it
joined, which is read in one step (`FetchesList`) and arrives in another (`GetsList`), with confirmations
emitted in between. A request changes the row and then emits to the room, in two steps, and may fail
between them. `crossed` is history: notifications two requests had in hand at a time; `late` are those a
client was told are read while a list that has them unread was on its way to it.
Presence is one key for all connections of the user, set on connect and deleted on
disconnect; that it is wrong with two connections is listed as a divergence in section 5.

### Registries

A table is what its repository does on creation (does it look first, is there an index) and
on removal (delete, deactivate, soft delete). One action per shape serves all
nine tables; `told` is what the last answer said of a row and `met` the rows, and the names under creation, on
which requests overlapped. `NoTwins` excepts `met` names only in tables without index: where there is one, creations that
overlap and both found nothing are part of the run, and the index has to refuse the second.

### StatementParser

A line is a date, words, amounts with their abscissa and a flag for noise. A printed document is
given, its lines are sorted as `extractTextLines` does (by height over all pages), and `ReadsLine` takes them one at
a time: the layout decides what starts a movement, what continues it (words wait until the movement ends, amounts join it at
once and drop the words that wait), and which amount counts in which direction. `Undisturbed` says of which movements the document
lets the reader make sense: those whose lines have nothing of another movement between them when all pages are
sorted together; `KeptWords` what the generic reader keeps of their words. The regular expressions that recognise a token are the alphabet of
the model.

### Quotas, CashCounts, Reports

Pure operators, each with a definition of what it should give that does not follow its algorithm:
`FitsTheTerm` lays out the dates of payments, `ExplainsTheGap` compares totals, `AddsUp` sums
the breakdowns, `ListedOnce` pages through everything. `ExplainsTheGap` is about every month: the lists of unmatched
movements drop repetitions and add incomes to expenses, and it says by how much (`Again`, and twice the difference of the incomes).
`ListedOnce` is about every limit: each row is on exactly one page, and two rows of a transfer that are on one page are
one answer; a page that ends between them gives two halves (section 5). `AddsUp` is about one snapshot of the
table; that `getSummary` reads with several selects is in `SummaryCache`.

### MCServices

Ten services share no state with each other, so a behaviour of `MCServices` is
about one of them, drawn from `Services` at the start, and the rest stay as they are; the
pure algorithms are initial states with an `input`. This is the sum of the
ten state spaces, not their product.

## 3. The runs

| Run | Instance | Shows |
|---|---|---|
| `ledger_books` | 2 accounts, a goal, 2 records, amount 1, income, expense and transfer, legs edited in any way | `PairsTogether`, `GapsComeFromBentRecords`, `TypeOK` over all sequences of operations |
| `ledger_links` | 1 account, goal, asset, liability, 1 record, 1 payment, 4 types | the signs of every link kind, payments, balances set by hand, closed entities: `Reconciled`, `CompletionFollowsBalance` |
| `ledger_review` | 2 accounts, amounts 1 and 2, 2 descriptions with one normal form, one of them with extra blanks, a category, a company with default | the review queue, categories that stay, books that balance, transfers whose rows only a PATCH sets apart |
| `races_alone` | 1 request at a time, all 11 operations, 3 requests | `LedgerRaces` implements `Ledger`, whichever statement fails |
| `races_confined` | 2 requests at a time, 3 in all, 2 accounts | `DamageIsConfined`: damage stays on entities two requests change; `HalvesAreConfined`: half a transfer is left only on such accounts; `Answered`: every request is answered |
| `import_once` | 2 jobs of 2 files with common movements, one of them unreadable and one encrypted, 1 fault, 1 restart, 2 retries, all options or none | no double booking, every line accounted for, true reports, nothing left on disk, jobs end |
| `summary_fresh` | 2 writers, a reader, 3 writes, with and without invalidation, keys that live 1 and a counter that lives 2, times 0 to 6, failures of any call | `SummaryCache` implements `FreshReads`; a quiet cache is current; age is bounded |
| `reminders` | every frequency, anchors on 30 November and 31 January, due days 1 and 31, to the second due date of each, 1 missed morning, 1 edit | the next due date is the first; one reminder; each announced by its evening |
| `services` | the ten services; 2 requests at a time on users, codes (2 requests for one and 2 verifications), limits, notifications and tables, 1 connected client, 1 failing call | see below |
| `import_duplicates` (violation) | no faults | fingerprints never match with Date objects |
| `races_orphan` (violation) | transfer, PATCH of a leg, DELETE | a PATCH resurrects half a transfer |
| `summary_companies` (violation) | two or three rows | expenses by company count records of every type |

The properties of `services`: `NoHalfAccounts`, `LockedOutStaysOut`, `StoresAgree`
(accounts); `CodeBuysOneToken`, `GuessesAreBounded` (codes); `NoMoreThanLimit`, `BlockOutlivesCount`
(limits); `NothingIsMissed`, `ReadsAreReported` (inbox); `NoTwins`, `LastAnswerHolds`
(registries); `StatementsAreReadWhole` (statements); `PaymentsFitTheTerm`
(plans); `UnmatchedExplainTheGap` (counts); `SummariesAddUp` (reports); `TransfersListedOnce` (listings).

Bounds. `MaxRecords` 2 lets a transfer, two plain records, or a record and its
clone meet, and keys are never reused, so that three writes to one record are
reached by edits rather than by more rows; the theorems remove the bound. That
transfers stay whole, as `PairsTogether` says of requests one after the other, is false of overlapping ones: an
amendment that races a removal leaves a leg alive, and a bulk removal may do so without moving any balance; `HalvesAreConfined` says where. In
`races_confined` two requests are enough for a lost update, a resurrection and a deadlock; the third
gives them a record to quarrel about. In `import_once` one fault falls on every step, and two
retries allow one in the cleanup window and one after it. In `ledger_books` a bent record may be amended again and again, each
time moving a balance further; `BoundedSpec` stops where a balance is 2 (`MaxGap`) from what explains it, two amendments away. In `summary_fresh` three writes
by two writers are enough for an old generation to come back with a summary in it, the counter runs out within the run, and
six ticks let a lapse, its time of doubt (3) and a question after it follow each other. `reminders` runs through the end of a short
month, a leap day and the change of the year. In `services` two requests of a kind meet on one row, user, code or counter; three guesses are one
more than the two a code allows, also when two of them overlap; three requests on the inbox let a notification be created, and read while a
list is on its way; limits of 2
and 3 are reached and run out within the time of the run; statements have up to two movements, which meet in every
order, on one page and on two, with lines of words and of amounts under them on either page (the limit of movements per file is not
reached: the code cuts the list at its end). Listings have limits of 1 to 5 rows, identifiers of transfers interleaved and rows moved
to other days, so that pages end at every place of a transfer. Plans start around the ends of
months; daily to monthly ones end on every day of the next four months, quarterly and yearly ones around the ends of months of
the next three years. No invariant depends
on a counter reaching its bound: where a key is exhausted the operation is just
not offered, which is why `CHECK_DEADLOCK` is off (the system may also stop: nobody
has to send a request). Symmetry is over accounts, writers, readers, and the two requests of a service, in runs without liveness.

Fairness. `LedgerRaces`: weak fairness of a request's statements, its commit and the
deadlock detector, because a handler runs on when PostgreSQL answers. A request
that waits for a lock is not enabled, so fairness promises it nothing: that it is
answered is `Answered`, and without the detector it is false (a mutant). `StatementImport`: weak
fairness of the worker and of accepted retries, which are continuations of
promises. Nothing forces a client to act, a fault, or a restart. The other modules state safety only;
that a reminder comes in time is stated by the day (`EveryDueDateIsAnnounced`), because the days pass in the model.

Each property of a passing run has a mutant in `PROJECT.json`, a plausible bug of
the mapped code under which TLC finds it violated.

## 4. What is proved

`TotalsTheorems` proves by a telescoping argument over the recursive function what totals do
under addition, change of one row and extension. The theorems hold for every value of the
constants that meets the named `ASSUME` of the module, which TLC evaluates on every run.

`LedgerProofs`, for every set of accounts, goals, assets, liabilities, amounts, types, descriptions and
every bound:

* `TypeCorrect`: `Spec => []TypeOK`.
* `PairsStayTogether`: `Spec => []PairsTogether`, whatever clients do with legs.
* `GapsExplained`: `Spec => GapsComeFromBentRecords`, an action property, whatever clients do with legs.
* `BooksBalance`: `Spec => []Reconciled`, under the hypothesis `LegEdits # "any"`, an assumption on clients that
  the code does not enforce: then no record is ever bent, and `GapsExplained` leaves no step that could open a gap.

The inductive invariant is

    IInv == TypeOK /\ Fresh /\ PairsTogether /\ Rooted
              /\ (LegEdits # "any" => LegsKeepShape)

`Fresh` says that keys from `next` on are undrawn and that no group is one of them: without it a new
transfer could join an old group, or a new row be added to a balance twice.
`Rooted` says that a live record or payment refers only to entities that exist (the foreign keys);
without it an entity created later would start with movements it never had. `LegsKeepShape` says that no record is bent. A transfer
operation reverts `Adjusted`, which equals `Collected`, what the record
contributed, only for a record of that shape: a balance that names no bent record among those the step changes keeps
its gap. One lemma per action shows that it preserves
each part; the balance part of every action reduces to one lemma on `SumOver` (changing
the lines of a set changes the total by the sum of their differences).

The last part of `LedgerProofs` is about the review of records. Its argument is a classification of steps: outside
/transfers every step leaves a row alone, removes it, adds it, or edits it and decides its
review status anew (`Preserved`), one lemma per operation.

* `QueueHolds`: `Spec => []QueueIsUncategorized`.
* `CategoryStays`: `Spec => CategoryNeverLost`, an action property.
* `PairsPartOnlyByPatch`: `Spec => PairsPartByPatch`, an action property: the rows of a transfer mirror each other until
  a PATCH of one of them, without assumption on clients.
* `CompletionIsCurrent`: `Spec => CompletionFollowsBalance`, an action property: whichever operation moves the
  balance or the target of a live goal decides its completion anew.

`SummaryCacheProofs`:

* `StalenessBounded`: `Spec => []StalenessIsBounded`, for any number of overlapping writers. Inductive
  invariant `AgeInv`: a request is no older than its patience, and a kept summary was kept for
  one of the lifetimes.
* `QuietIsCurrent`, `CacheIsFresh`: `Spec => []QuietCacheIsCurrent`, and the refinement
  `Spec => SummariesAreFresh`, for any number of writers whose invalidations overlap, a counter that may run
  out, failing calls and writes that invalidate nothing. Inductive invariant `FreshInv`: the counter
  and the pending writes together never exceed the writes there were (`CountInv`), so that every number it is given stands for a
  write; what was read since the last lapse under its present value misses pending writes only, and no invalidation
  about to set it to that value or a lower one is of a write that was not seen (`Reflects`); whatever is kept, or in hand, under the generation
  a reader looks under is at least as new as the reader's question, unless that is in doubt (`FloorInv`).
  Then every step maps to a step of `FreshReads` or a stutter.

`CalendarProofs`, for every movement, due day, frequency, calendar day, edit, removal and missed morning:

* `DueDatesAreFirst`, for every day, every due day from 1 to 31 and every frequency: what
  `NextOccurrence` gives is the first due date from that day on. The model computes dates as the code does, with the
  quotients of the Gregorian calendar. The proof numbers the months through (`MonthNumber`): the first days of
  consecutive months lie as far apart as the first of them is long (`MonthsFollow`, down to the leap years), so a day
  lies in exactly one month and a due date `Falls` in its own, the one of an earlier month before the one of a later.
* `OneReminder` (`[]OneReminderPerDueDate`), assuming one scheduler. The
  inductive invariant adds to it that a run about to insert found nothing and no row for its date has come since.
* `RemindersAskForTheFirst` (`[]NextIsFirstDue`), from `DueDatesAreFirst`.
* `AllAnnounced` (`[]EveryDueDateIsAnnounced`), for any number of schedulers, at least one (without a
  process every morning would be missed). The inductive invariant `AnnouncedInv` counts the mornings
  (`Mornings`), says what a run under way looks for (`Runs`), and that a run that went through leaves
  its date announced or removed by the user (`Telling`). A due date has more mornings in its window than can be
  missed, so one of them told of it.

The same module, for every finite set of rows with integer amounts, every query and every two dates. These are facts
about the operators that the run `services` checks on small inputs (`SummariesAddUp`, `UnmatchedExplainTheGap`,
`PaymentsFitTheTerm`):

* `SummariesAlwaysAddUp`: the breakdowns of `getSummary` add up to its totals, and its intervals begin at most 30 days
  before the range. `MapThenSumSet` is recursive in an order it chooses itself; `IsSum` says instead what the sums of all parts of a
  set satisfy, whichever member is added first. Such sums exist (`SumExists`), `MapThenSumSet` is one of them
  (`AddedIs`, by `SumUnique`), and they may be taken key by key (`SumByKey`). No induction principle is needed: if a fact failed for
  some part there would be a smallest one for which it does (`LeastSet`, by the size of the part), and that part
  less one member is no such part. The shortest month decides the 30 days (`DayOfMonth`).
* `UnmatchedAlwaysExplainTheGap`: for every month, with incomes and repeated movements. A side without its repetitions
  (`Again`) has one row for each fingerprint, matched rows have the same amounts on both sides, so the totals
  differ by the unmatched, the repetitions, and twice the incomes, which the lists add and the net subtracts.
* `PlansFitTheTerm`: plans by days, weeks, fortnights and months. A plan by months counts month numbers, so its payments are due
  where `Falls` says (`MonthsAddedTo`). Plans by quarters and years divide days by an average (91.31 and
  365.25) and stay with TLC, over the terms of the run.

`StatementImportProofs`, for any number of jobs, files, clients, faults, restarts and retries:

* `ImportLines`, `ImportReports`, `ImportLeavesNothing`: `Spec => []LinesAreAccounted`,
  `[]ReportIsTrue`, `[]NothingStaysOnDisk`, without hypothesis. `NoDoubleImport` is not among them: of the code as
  configured it is false (`import_duplicates`), and TLC checks it with dates as text.

The inductive invariant `Inv` says what a task may rely on at each `await`: a job waits
for its first task once and untouched (`Queue`); the files on the task's list are judged by nobody else
(`ToDo`); between lookup and insert nothing enters the books, because the chain runs one task
at a time (`KnowsBooks`); a file is in the books as a whole (`BooksContent`); figures are those of the lines
(`FiguresTrue`) and sums those of the files that have their outcome (`TallyTrue`, `Reported`); what is on the disk
is still to be taken (`Removing`, `Emptied`). `ReportIsTrue` rests on all of them: the sums of a job
are only right if no other task judges its files meanwhile.

`LedgerRacesProofs`, for any number of overlapping requests, accounts, goals, records and amounts:

* `DamageConfined`: `RaceSpec => []DamageIsConfined`, under the hypothesis `LegEdits # "any"` of
  `BooksBalance`.
* `HalvesConfined`: `RaceSpec => []HalvesAreConfined`, under the same hypothesis.

The inductive invariant `RaceInv` says of every request p

* `Balanced`: for each live entity that is not raced, the balance as p has it and what the statements p
  has left still do to it come to the committed balance and what the movements that explain it gain when p keeps
  what it has written. A statement weighs what it does to the balance less what it does to the movements, so that
  every statement leaves both sides equal, a commit turns the equation into `DamageIsConfined`, and p
  may be rolled back at any point;
* `Once`, `Ordered`, `AtRest`: no row is written twice, a balance read at the start is
  written before another is read, and who does not run has nothing in hand;
* `Imaged`, `Traced`: what p has written, and what is committed of the rows it asked to write, is linked
  to nothing but what it touches and what is raced;
* `Apart`: what two requests both change is raced.

`Balanced` alone is not inductive: a commit of another request changes the
row a statement of p is about, and then the weight of the statement; `Apart` and `Traced` say that
then all the entities concerned are raced. `Drawn` (inserted rows are live) and `Funded` (payments are of goals)
complete it. Lemmas state what lists of statements weigh (`WeightConcat`, `NetWeight`, `LegWeight`,
`ForEachWeight`), one lemma per statement shows that it keeps the balance of its request, one per request that what it asks for
weighs nothing, and `OthersHeld` that nobody else notices before the commit.

`HalvesAreConfined` needs more, because one commit may delete a leg that another request is about to save or to
delete. `HalvesHold` adds to `RaceInv` that rows and their groups have keys already drawn (`Fresh`), and of
every request

* `Stale`: a row it touches is live, or an overlap has already spoilt all it is about (it read the row live, so
  another request deleted it since, and `Apart` put both on `raced`);
* `KeepsEnds`: no save moves a record to other accounts, so the accounts of a half are those it was confined on;
* `Whole`: who deletes one leg deletes the other, unless the other's accounts are raced already.

`LedgerRefinementProofs`, for one request at a time, any accounts, goals, records and amounts:

* `AloneImplements`: `RaceSpec => ImplementsLedger`, under the hypothesis `LegEdits # "any"`. What a
  request does in many statements, of which any may fail, is one step of `Ledger` at its commit, and none before.

An induction over the statements of a request is avoided by a plan: a record `Plan` of the rows the request leaves of those it
found, the rows and payments it adds, the payments it removes, the goals it re-evaluates and the balances it states.
`Intended` says what plans there are, one disjunct per operation of `Ledger`, with what its handler has
checked; `Carried` says that what a request has written, and what its statements are still to write, is that plan:
rows (`RowsCarried`), insertions in order (`NewCarried`), payments (`PayCarried`), completion and stated
balances (`MoneyCarried`). The inductive invariant is `AloneInv`: what holds of races, the invariant of
`Ledger`, nothing raced, and `Promise`, that each request under way carries out some plan. One lemma per operation
shows that it asks for the statements of its plan (`CreatePlanned` ... `EditPlanned`), one per kind of statement that
the plan stays the same (`CarriedExecuting`), one that a commit leaves what the plan says (`CommitLands`), and one per
operation that this is its step of `Ledger` (`CreateLands` ... `EditLands`). The plan has no balances: they follow,
because `Balanced` says what a balance becomes once nothing is raced, and `Ledger` settles the same
difference.

`ServicesProofs`, each from an inductive invariant of the module it is about:

* `ThrottlerHolds` (`[]NoMoreThanLimit`, `HitsInv`: whoever passed was counted) and
  `BlockOutlives` (`[]BlockOutlivesCount`, `BlockInv`: a count at its maximum is about to be followed by a
  block, or expires no later than it, which takes a block no shorter than the window).
* `NothingMissed` and `ReadsReported` (`[]NothingIsMissed`, `[]ReadsAreReported`), from `InboxInv`: a
  client that is current is in its room, and each notification is known to it, removed, or in the hand
  of a request that is about to announce it; one that waits for its list will know it from the list or from the room; and
  what it will show as unread although it is read, it was told of while it waited.
* `TablesHaveNoTwins` and `AnswersHold` (`[]NoTwins`, `[]LastAnswerHolds`), from `RegistryInv`: a row no two requests
  overlapped on is as told and is in the hand of one request at most, which read it as it is
  (`RowsHeldOnce`); an index keeps twins out however creations overlap (`IndexHolds`), and looking first does where
  no creations of the name overlap (`LooksSuffice`).
* `CodesBuyOneToken` and `CodesBoundGuesses` (`[]CodeBuysOneToken`, `[]GuessesAreBounded`), for any number of
  verifications at a time, of every code not in `overrun`. `CodesInv`: the row of such a code counts its failures (`CountsAgree`), a
  verification nobody has overtaken has the count as it is (`GuessIsCurrent`), and a code with a token is closed (`TokensAreSpent`).
* `RegistrationsAreWhole`, `DeactivatedStayOut`, `StoresEndInAgreement`
  (`[]NoHalfAccounts`, `[]LockedOutStaysOut`, `[]StoresAgree`), from `AccountsInv`: an account
  without row belongs to the one registration that made it (`Halves`); a deactivation nobody contradicts
  has the account disabled from its first step, and without session from its last (`Locks`);
  account, row and cached profile agree as far as the one request under way on the user has come (`Agreement`).

Only model-checked:

* liveness (`Answered`, `JobsFinish`) and what depends on it, which is out of the prover's reach;
* the parser and the paging of listings, whose results over all inputs would need induction over sequences, which the
  installed provers do not have; plans by quarters and years; the expenses by company, which TLC refutes.

## 5. Where the code and its documentation part

Three disagreements are runs of their own (section 3, `findings` in `PROJECT.json`). The following were met while
modelling. The models contain them; the properties above are stated so that they hold beside them,
with the exception in the formula or in a constant.

* Balances. Two requests that read one balance lose an adjustment (`applyToEntity`,
  `DamageIsConfined` says where the damage stops). A leg of a transfer edited through
  /transactions is reverted by /transfers as if it had not been (`GapsComeFromBentRecords`). A bulk
  removal that includes a leg of a transfer ignores the plain records of its selection.
* Summaries. Overlapping invalidations, or a counter whose 24 hours ran out, bring old generations back, and transfers and
  imports invalidate nothing: a summary may be stale for the life of its key.
* Imports. Files that failed are removed like the others, so a retry finds nothing to retry. A
  database error while a file is imported is reported as PDF_INVALID. Rows committed by `createMany` whose file then could not be
  marked are in the books and not in the totals. A task ended by an error, or a
  restart, leaves its job unfinished and may leave statements on disk.
* Parser. Lines of all pages are sorted together by height, so a continuation may be attached to a movement
  of another page; a line of noise drops the words that wait, and so does a line with amounts under the movement; a statement from December to January gets one year; a
  row whose debit and credit are 0 beside a balance is read as a movement of the balance; a blank debit cell
  makes a credit an expense, because the debit column picks first; "pago de nómina" is tried as an expense first.
* Reminders. A movement entered more than 370 days ago is no longer reminded of; a notification the user
  removed is created again the next morning; an edit leaves the reminder of the old date; two server
  processes may both create one.
* Users. `is_active: false` by POST or PATCH, and a user name by PATCH, change the row and not Keycloak; a PATCH that
  read the row before another request saved it reverts that request's columns; `verifyPassword` opens a
  session of Keycloak nobody closes.
* Codes. A verification that read a code while another request closed it opens it again by
  saving it; the failures are kept. Verifications that overlap read one count and save the same failure, so that the
  "máx. 3 intentos de verificación" of README.md:84 of the repository is exceeded by parallel guesses (of codes in `overrun`), and
  two that are right both get a token.
* Inbox. A notification read while a client's list is on its way is confirmed before the list arrives, and the client then
  shows it as unread until it asks again (`late`).
* Presence. Closing one of two connections marks the user offline.
* Registries. Nothing in the database keeps a second financial profile out; subcategories stay unique against inactive ones;
  the default ratios of a profile add up to 110 and violate `ck_ratios_max`; news are removed for good.
* Figures. A quarter is 91.31 days, so that quarterly plans are up to three days out; `progress_percent` is not
  capped. The reconciliation does not see rows entered before their month and counts
  movements with one fingerprint once; the fingerprint ignores the type. `findAll` with a limit above
  500 skips rows; the total of a transfer listing counts rows, and a page that ends between the two rows of a transfer lists it
  twice, once on each page with one row for both sides, although the comment at transfer.service.ts:69-72 says that each
  group becomes one transfer.

## 6. Not modelled

Market data, mail, audit, intelligence, logging and encryption: calls to other systems or rows that no
decision reads. Refreshing and inspecting tokens, and lists and searches of users, which pass a query on. The
detection of banks by configured patterns, and the regular expressions of tokens. Projections with interest, in floating
point. The log of calculations and progress messages, which nothing reads. Wiring, controllers and DTO
validation beyond what decides a request. Decimal arithmetic: account balances are kept as the text of a binary float, and
drift of cents is not visible in the models. The chained update's comparison with a description whose
blanks were collapsed is in `Categorization` (`Spaced`); no property states which records it should reach, because nothing in
the repository does. Recovery after a restart: the code has none, and `JobsFinish`
excludes it. `Close` of an entity, changes of a goal's target and categories do not
overlap with other requests in `LedgerRaces`.

## 7. What is left

1. The same refinement for requests that overlap and share nothing: a commit of another request would have to
   leave the plan of one under way as it is.
2. `LedgerRaces`: `Close`, goal edits with a target, and chained category updates among overlapping requests.
