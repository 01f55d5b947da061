# A verification of learning-tracker-engine

TLA+ specifications of the learning tracker engine, the TLC runs that check them on
small instances, and TLAPS proofs of the results that matter most for every instance.
`PROJECT.json` lists the components, the runs, the map from definitions to source lines,
the hazards and the theorems.

## 1. The system

The engine records *attempts* (one answer each, dated by the caller) against
*objectives* of a *profile* (a "topic" in the web layer) and derives everything else:
score, level, next review, what is due. Nothing derived is stored.

| Component | State | Operations | Interacts with |
|---|---|---|---|
| Level and schedule computation (`core/leveling.py`, `core/scheduling.py`) | none | `compute_state` and the functions it is made of | called by the tracker on every query |
| Tracker (`core/tracker.py`) | none of its own | `record_attempt` (three store calls), `record_series`, the queries, `check_consistency` | both stores, the clock |
| Session recorder (`core/session.py`) | attempts counted, report | `record`, `close`, `report` | the tracker |
| Clock (`core/clock.py`) | the date | `now` | injected everywhere |
| Stores (`core/storage.py`, `store/`) | attempts (append only), profiles with their catalogs | `append`, `save_profile`, `set_archived`, `upsert_objectives`, reads | memory, one JSON file each with a lock, or PostgreSQL |
| Content bank (`content/`) | materials, questions | `add`, `add_many`, `replace_for_material`, reads | memory or PostgreSQL |
| Question generation (`generate/`) | none | `generate` | a language model, or a stub |
| Web API (`web/`) | a connection pool | topics, objectives, material, practice, progress | all of the above; handlers run in a thread pool |
| Command line (`ui/`) | the JSON files of a data directory | profile, objective, record, the queries, check | tracker over the JSON stores |
| Browser client (`webui/js/`) | the practice session, the selection, the material view and its generation tracker | load, select, submit, next, upload, generate | the web API, asynchronously |
| Migrations (`migrations/runner.py`) | applied versions | `apply_migrations` | PostgreSQL |

**What is hard.** (1) Every write of the JSON store is read, check, rewrite, rename of a
whole file by processes that may die anywhere. (2) `record_attempt` looks up, checks and
appends in three store calls, and the web handlers do the same with whole requests; other
callers' calls fall in between. (3) Attempts arrive late, with equal dates, and are asked
about as of any date. (4) The state decays with time alone while review dates are derived
from it. (5) An error may hide a commit, and the browser retries. (6) PostgreSQL's READ
COMMITTED shows every statement what is committed by then, and migrations alter the tables
under a store in use. (7) A generation takes seconds and money, and goes on when its view, or
the tab, is gone.

**What makes each part correct.**

* *Computation*: the state is a function of the attempts in force and the date; time alone
  only lowers score and level; what is due stays due until answered; a hit never lowers the
  raw score; any past can be recovered from.
* *Tracker*: an id is stored once; what was returned is stored; nothing is stored for an
  objective the profile never had; the past is not rewritten; no objective falls out of the
  lists.
* *Stores*: a write happens at one instant or not at all; an acknowledged write is there;
  a write changes what it names and nothing else; a writer does not wait for ever.
* *Content bank*: replacing a material's questions replaces exactly those.
* *Migrations*: the schema is always that of a release; a run that succeeds leaves the latest.
* *Question generation*: a unit it was told of is not founded again in another spelling.
* *Web API*: create does not overwrite; registering twice loses nothing; one answer is one
  attempt, whatever is retried.
* *Browser client*: one question shown is one attempt, whatever is pressed, late or sent
  again; the feedback is true; a tick changes the rows it shows, and the session asks for
  what is ticked; a material is marked as generating exactly while its generation is waited
  for, and its article says what is so.
* *Session recorder*: the report counts what was stored.
* *Command line*: `check` is right, and no traceback escapes, whatever other terminals do.

## 2. The modules

### `Leveling`: the computation

Operators only, one for each function of `core/leveling.py` and `core/scheduling.py`, with
the constants of `core/constants.py` as CONSTANTS. An attempt is a record with a unique id,
so a history is a *set*, and sorting is ranking by `Before` (date, then id). Time is a
number of ticks. Scores are integers in units of `1/Scale`; the raw score stays a fraction
(`HitWeight / TotalWeight`), so thresholds on it are compared exactly, and
`round(.., SCORE_PRECISION)` is rounding to an integer. `0.5 ** (gap / half-life)` with its
floor is the CONSTANT operator `Retention`, of which `RetentionAssumption` states all that
is used: between the floor and one, and never increasing.

### `Clock`, `ObjectiveHistory`: one objective over time

`Clock` is the injected date, which moves on by one of `Steps`. In `ObjectiveHistory`
(`HistorySpec`, with its properties) a learner records attempts (on time or late) and time
passes; the state as of any date is `ComputeState`. `MCHistory` is a scaled-down engine (window
3, two ticks to a day, a ladder 1-2-4) in which everything the engine can do happens within
four attempts.

### `Tracker`, `TrackerQueries`: recording and asking, concurrently

In `Tracker` callers interleave the three store calls of `record_attempt` (`RecordAttempt` and
`LookUp` are `get_objective`, `CheckId` is `exists` and the building of the attempt, `Append_`
and `AppendRaises` are `append`); `record_series` repeats them for each item of one of the
`Series`, from the `get_objective` of the next item on (`NextItem`). Profiles are saved and
extended meanwhile. `AppendRaises` may leave the row behind: that is what a broken connection
after a commit does. `returned` is what each caller got back; `registered` is a history
variable. The attempts have no `recorded_at`, which nothing here reads.

`TrackerQueries` (`QueriesSpec`) adds the queries that call a store more than once, as their
sequences of store calls: `compare_states` and `get_timeline` read the attempts anew for each
date, `get_all_states` reads them once and the catalog after them, and `next_question`, an
endpoint of the web, makes two such queries. Each call is a step (`Answered`), the writes of
`Tracker` fall between the steps, and what the query makes of its answers is an operator of
them (`CompareStates`, `GetTimeline`, `GetDue`, `GetUnstarted`, `NextQuestion`,
`GetSummary`). A query changes nothing, so one is followed at a time. `since` is a
history variable: what the profile held at each moment from the beginning of the query on.

### `StoreOperations`, `AtomicStore`, `JsonStore`: the stores

`StoreOperations` says what each write does to its collection and when it is refused (the rules
of `store/_common.py`). `AtomicStore` is the contract of `core/storage.py`: ask, commit at one
instant, return or give up; `store/memory.py` is exactly this. `JsonStore` is
`store/json_store.py` down to system calls: open the sidecar, `flock`, read and check,
temporary file, `os.replace`, close; an `OSError` or the death of the process may come at any
of them. `flock` locks an *inode*. Somebody may always delete a sidecar that no process has
open; the constant `DeletableInUse` says whether also one that is open. `Abstract` is the
refinement mapping: the file is the stored collection, a process past the rename has written.

### `BankOperations`, `AtomicBank`, `QuestionBank`: the content bank

`BankOperations` has the calls, the rules of `content/_common.py` (`Justified`: the reasons
for which a call may be refused) and what a call does (`Perform`, in the words of
`content/memory.py`). `AtomicBank` is the contract of `content/storage.py`. `QuestionBank`
is `content/postgres.py` at PostgreSQL's default isolation, READ COMMITTED, one action per
statement or per row of a DELETE: a statement sees what was committed when it began, a
DELETE waits for a row that another transaction has marked and skips it when that one
commits, an INSERT waits for a transaction that brings or marks its id; the server breaks
deadlocks (`DeadlockDetected`) and any statement may fail. The transactions implement
`AtomicBank` (`Abstract`: the commit is the write), with one exception that the property
names: `ReplacesAround`, a replacement that was overlapped by another of its material and
leaves, or meets, what that one brought. `before` is a history variable.

### `Migrations`, `PostgresProfiles`, `PostgresProfilesProperties`: the PostgreSQL store

`Migrations` is `apply_migrations` for several runners: read the list, then for each pending
file execute it, record it and commit. A file whose tables another runner has created, or
whose record is there, is an error (`Collides`); a runner that has executed a file holds its
locks until the commit (`Holds`). `there` is what exists and `recorded` what
`schema_migrations` says.

`PostgresProfiles` extends it with the profile store of `store/postgres.py`, one action per
statement (per row of a DELETE and of the INSERTs), with the row locks, the uncommitted keys,
the ACCESS EXCLUSIVE lock of `ALTER TABLE` and the deadlock detector. `Abstract` maps it to
`AtomicStore`; a profile of an older release has no archived column and reads as not archived.
The exception is `SavesAround`: a save that overlaps another write replaces the profile but
for objectives that came after it began. `held` is a history variable: what was stored at
some time during the call of each process.

### `LocalStores`, `CommandLine`, `SessionRecorder`, `LocalPrograms`: programs on one machine

`LocalStores` is one profile and its attempts in the JSON files, each store call atomic (the
run `json` and the proofs about `JsonStore` show that). `CommandLine` has the commands of
`ui/cli.py` that write, and the two that compare several reads: `objectives`, which looks
states up in a second read of the catalog, and `check`, which is `check_consistency` read by
read. `SessionRecorder` is `core/session.py` inside its `with` block: a record may be refused,
fail before or after the store has the attempt, the block may be left by that exception, and
the process may be killed. `LocalPrograms` runs terminals and sessions side by side;
`disturbed` and `overwritten` are history variables.

### `Generation`, `MaterialView`: pages of notes and their questions

`Generation` is the handler `generate_from_material` over the catalog and the questions of a
topic, several at a time: the units the model is told of (`DomainsOf`), its answer or its
failure, `BuildResult` with the spelling of units (`Reconciled`) and the two refusals, the
upsert and the replacement. That is a DELETE and an INSERT of one transaction (`DeleteSees`,
`ReplaceQuestions`): what the first has seen goes when the second commits, so that two
replacements of one material may leave both sets, and the commit may be answered by an error. A
material therefore has a set of batches, each of one generation. A unit is one of a few
spellings, with `strip` and `casefold` as functions on them. `BuildResult` has the aimed run
too, which no handler asks for. (`StudyApi` has the same handler among all the others, without
units.)

`MaterialView` is `views/material.js` on top of it: the variables of a render (`list`,
`shown`, `openMaterialId`, `uploading`), the requests under way (`wire`), the module-level
tracker of `material-state.js`, and what became of the promise of each generation (`pending`,
`settled`, `abandoned`). A render begins with an empty view and whatever the older one still
waits for is gone from sight, but for a generation: its outcome is painted in the article on
screen. A reload loses the tracker and abandons what was pending; a lost response abandons one
that the server may still finish. Nothing but `MaxRequests` and `Generations` is bounded:
renders, clicks and reloads repeat without end. The properties are at the end of the module.

### `StudyApi`: the web handlers

Every handler that writes, as its sequence of store calls, each of them atomic (the stores'
modules show that) and each of them able to fail with the 503 of `web/app.py` (`Unavailable`),
or after its commit, so that the 503 leaves its effect behind (`Committed`). The replacement of
a material's questions is two steps here too. `call`, `stage`, `local` and `status` are the
request, its place in the handler, what it has read and what it answered. The language model is
the constant `Proposals`: the objectives it may propose and those its questions are for;
`Generate` is `build_result`, with its refusals. `CreateRace` says whether two creates of one
topic may overlap; the finding below is about that, and everything else is checked without it.
The properties are at the end of the module.

### `PracticeView`: the practice session in the browser

A session is one call of `renderPracticeSession`, and its variables are that function's
variables. Its promises outlive it: it goes on waiting (`awaiting`) when another view is on
screen. `wire` holds requests the server has not handled, `replies` the responses under way,
in any order; a connection may fail before or after the server has handled the request. The
server is `next_question` and `answer_question` as atomic steps, failures after the commit
included. A key reaches every keydown listener on the document (`listening`), a click only
what is on screen. `AuthChange` is a change of the sign-in: `app.js` renders another view
without a hashchange, so the session's listener stays, against the comment at
`practice.js:71`, and from then on one key may act in two sessions. The properties hold all
the same: the two sessions have questions and attempt ids of their own. The properties are at
the end of the module.

### `PracticeScope`, `PracticeScopeProperties`: what is ticked in the tree

`ScopeSpec` has the `selection`, the `trees` on screen and the server's `catalogs`. An operator
for each function of `practice-scope.js` (`RowState`, `ToggleRow` with `ItemsOf`,
`WithoutSubtree`, `With`, `Normalize`, `TurnOff`; `SelectionQuery`) and `ObjectivesInScope` for
the server's reading of the query. A tree is a copy of the catalog from the moment its goal was
opened (`Unfold`); `Render` folds them all and may keep the selection; `Write` lets others add
objectives, move them and change which have questions. Items are two sets, of units and of
objectives: their order and labels change nothing, and a unit and an objective with the same
spelling, which `withoutSubtree` would confuse, are left out. An objective without a unit does
have a checkbox of its own and an `objective_id`, though the header of `practice-scope.js` says
no parameter can name it; it is still lost when a ticked goal is expanded (`Loose`).

## 3. The runs

| Run | Question | Instance |
|---|---|---|
| `history_small` | SPEC 2 to 4 about one objective | scaled-down engine, 4 attempts on time or two days late, 12 ticks |
| `tracker` | C8, C9 and I7 under races; what a query says while the stores are written to | 2 callers, 2 profiles, 2 objectives, 2 dates, 2 attempts, an explicit and a generated id, a series of two, failing appends, intervals of one day; every query of every date in one of the profiles, beside one of the callers |
| `json` | no append is lost, refinement of `AtomicStore`, no writer waits for ever | 3 processes that append, 2 ids, one of them in 2 profiles; errors and crashes; fair |
| `json_lock_deleted` | "deleting it is harmless" | 2 processes that append, the sidecar deletable in use: violated |
| `postgres` | refinement of `AtomicStore` under migrations; the schema; everyone ends | 2 callers (save, archive, upserts, get), 2 runners, 3 migrations, from nothing or release 2; fair |
| `local` | the report, the check, no traceback | 2 terminals, 1 session, 4 calls begun, 2 objectives, 2 dates |
| `bank` | integrity, what is replaced is gone, refinement of `AtomicBank` (whole batches, whole swaps), every call ends | 3 callers; three replacements and a batch with ids they share, in opposite orders; fair |
| `study_api` | what the handlers promise under interleaving and 503s | 2 requests at a time of all seven handlers, any number after one another; 1 topic, 2 objectives |
| `create_race` | "409 when a topic with that id already exists" | 2 requests: violated |
| `practice_view` | one question, one attempt, true feedback | 2 sessions, 2 questions, 2 keys, 5 requests |
| `material` | the tracker, the article, the summary, the list, the units | from no page to 2, 2 generations, 2 requests at a time, 3 spellings of a unit; renders and reloads without bound |
| `practice_scope` | a tick is its row, a session gets what is ticked | 2 goals, 2 units, 4 objectives (one moves, one comes without a unit) |

**Why the bounds are enough.** A window of 3 fills and evicts with 4 attempts, and every
threshold, the mastery conditions and the floor of the decay are crossed in `history_small`.
`DueUntilAnswered` and `ForgettingOnlyLowers` compare consecutive dates: a longer wait is a
chain of them. Two callers are enough for every race of a check and an append. A query is
followed while one caller records in one profile and is told of every append (`FewAtATime`),
since what it meets is the writes that fall between its store calls: two attempts, on time or
late, let an objective be answered between two dates, or while the query reads, the save of a
smaller catalog leaves orphans, and with intervals of one day what was answered on the first
date is due on the second. In `tracker` an id in two profiles needs two profiles; a holder and
two waiters of a lock, of which one passes the other, are three processes. The run `json`
writes the attempts; what the writes of profiles do to their file is proved
(`JsonStoreIsAtomic`). Three callers of the bank are two replacements of one material and a
call that takes their ids. A handler races with one other; requests follow one another without
a bound, and only the questions ever generated (`MaxQuestions`), the topic and the ids are few.
Five requests are a question, its answer, a retry and the next question, or the two halves of
two sessions. Two units with one and with several objectives, one of them without questions,
expand and collapse in every way `normalize` and `turnOff` tell apart, and a second goal takes
the selection away. Two callers and two runners of `postgres` are a save against an upsert,
against another save and against the migration that alters their table, and a migration against
itself. In `local` a session meets a terminal that overwrites and one that checks. Two
generations are two of one page, or of two pages that share a unit; two requests are the first
list against an upload, or two clicks. Identifiers and processes are interchangeable where
symmetry is used (never with a liveness property). `FewAtATime`, `Horizon`, `MaxAnswers`,
`MaxAttempts`, `Series`, `MaxQuestions`, `MaxRequests`, `MaxRuns`, `MaxBegun` and `Generations`
bound the models only. The slower runs (`tracker`, `bank`, `study_api`, `material`,
`practice_scope`) take one and a half to three minutes each.

**Type invariants.** That of `Tracker`, `TrackerQueries`, `JsonStore` and `PracticeScope` is
proved by itself; that of `PostgresProfiles` (with `MigrationTypeOK`), `QuestionBank`,
`StudyApi`, `PracticeView` and `LocalPrograms` is the first part of an invariant of their run
and proved with it; the proofs about `MaterialView` have what they need of its types
(`Domains`, `Requests`).

**Where the system stops.** `CHECK_DEADLOCK FALSE` is set for `bank`, `postgres` and `local`:
their callers make a bounded number of calls, and when all have ended nothing is left to do.

**Fairness.** `FairSpec` of `JsonStore`: a process that can take its next system call
eventually does (weak fairness), and `flock` is not passed over for ever among the waiters
(strong fairness, the kernel's FIFO of blocked locks). The `FairSpec` of `QuestionBank` and of
`PostgresProfiles` say only that, while some transaction or run can go on, one of them does,
deadlock detection included: each call has few steps, so none is passed over for ever. Nobody
has to begin a call, fail or crash. Nothing is assumed of the browser and the network, and no
liveness is claimed of them: a promise may stay pending for ever.

**Disagreements of the documents and the code.** Two are violated runs:

* `json_lock_deleted`: deleting the `.lock` file is not harmless while a writer runs.
* `create_race`: two overlapping creates of one topic both answer 201, and the second
  overwrites the first.

The others are exceptions that a property of a passing run names, and everything but them is
shown not to happen:

* Two overlapping regenerations of one material leave the union of their questions, since the
  second DELETE does not see what the first one inserts; `web/routers/material.py:218-220`
  says that regenerating swaps the set (`ReplacesAround`, run `bank`).
* A save of a profile in PostgreSQL that overlaps an upsert may keep that objective;
  `store/postgres.py:328` promises the whole profile, as a replacement (`SavesAround`, run
  `postgres`).
* `run` "never lets a traceback escape" (`ui/cli.py:631`), but `objectives` does when a
  `profile create` of another terminal overwrites the profile between its two reads
  (`OnlyOverwritingEscapes`, run `local`).
* `_reconciled_domain` joins units that differ in case or surrounding space
  (`generate/prompting.py:224-225`), but `register_objectives` stores a unit unstripped and
  `domains_of` tells of it stripped, so a generation founds a second one beside it
  (`UnitsAreKept`, run `material`).
* Of three clicks on pages A, B, A the first may fail last and replace the article by its
  error, although `views/material.js:98-99` says that a later click must win: the guard
  compares ids (`Opened`; the property is about what is shown, and an error is not).
* The questions of a summary may be one part of those that the material has: a generation that
  was abandoned (by a reload, or a lost response) and overlaps a later one of the same page
  leaves its set beside the counted one (`Holds` of `SummaryIsTrue`, run `material`).
* `compare_states` and `get_timeline` may report an improvement between two dates without an
  answer between them, when an older answer is recorded after the one date was read and before
  the other (`Meanwhile`, run `tracker`); SPEC 5.1 and 5.3 speak of one history.
* `next_question` may offer neither as due nor as unstarted an objective whose first answer came
  between its two queries (`NothingDropsOut`, run `tracker`).
* A registration is "Idempotent and safe to repeat" (`web/routers/ingest.py:180`), but of two
  that overlap each merges into the objective as it has read it, and the later upsert brings the
  older fields back (`RegistersUpToDate` of `NothingIsForgotten`, run `study_api`).

One more was met that no property speaks of: after a render, the first list may arrive when the
list that follows an upload is on screen already, and replace it by one without the page
(`views/material.js`). `UploadIsListed` says what the form comes back with, not what stays.

## 4. The proofs

TLAPS proves these for every value of the constants that satisfies the named assumptions.

`JsonStoreProofs`:

* `JsonTypeCorrect`: inductive with `TypeInv`, which ties `pc`, `write` and `rows`.
* `NoRenameIsStale`, for `~DeletableInUse`: `NoStaleRename` alone is not inductive, as it
  says nothing of the lock. `LockInv` adds that a process past `open` has the sidecar's
  inode open and one past `flock` holds it; so there is one, and only it can change the file.
* `JsonStoreIsAtomic`, for `~DeletableInUse`: each step is a step of `AtomicStore` or a
  stutter (`StepRefined`); the rename commits because what was read is still there.
* `NoAppendIsLost`, for `~DeletableInUse` and an attempts file: `AppendInv` adds the appends
  that are renamed but not yet returned.

`TrackerProofs`, for any window, ladder, thresholds and `Retention`, and any number of callers,
profiles, objectives, attempts and dates. The library's induction theorems take an operator,
which the provers cannot instantiate, so induction is stated here about a set of numbers or of
finite sets (`NatSetInduction`, `FiniteSetInduction`). The other lemmas say that sorting by
rank lists a set once, in order (`ListingIsSorted`, `ListingIsUnique`), that the window is the
end of that list (`WindowIsTheEnd`), and what sums and counts are (`SumIsACount`,
`SumSetIsACount`, `SumSteps`).

* `DueStaysDue`, `TimeOnlyForgets`: with no attempt in between, the score decays (`ScoreDecays`,
  monotone through both roundings), the level follows it, the interval the level
  (`WaitingOnlyLowers`). `HistoryInv` says that the attempts are a history with ids in order.
* `TheLatestAnswerCounts`: a further answer shifts every weight by one (`SumOfShifted`), in a
  window that grows (`GrowingWindowGains`) and in one that evicts (`MovingWindowGains`).
* `AnyPastIsRecovered`: a window of hits is all of the window (`FreshHitsFillTheWindow`). Its
  hypotheses say that a full window is enough evidence, that mastery asks for two days at most
  and for a span; `core/constants.py` has 8, 2 and 7, and the instance of the run fits as well.
* `TrackerTypeCorrect`.
* `EveryIdIsOnce`: only `Stores(c)` changes the log, and it needs `Accepts`.
* `NoOrphanIsBorn`: `OrphanInv` carries the fact "was registered" through the calls that
  are under way.
* `HistoryIsReproducible`: the state as of a date is a function of the attempts in force
  then (`StateFromInForce`), and a step adds none.
* `QueriesTypeCorrect`, and from one invariant `EveryImprovementIsEarned`,
  `EveryObjectiveIsSomewhere` and `TheSummaryAddsUp`, for any writers beside the query. The
  attempts stay well typed, finite and with unique ids (`QueriesRefineTheTracker`), and
  `QueryInv` says that each answer is of one of the moments in `since` (`AnswersAreOfMoments`).
  The first follows from `WaitingOnlyLowers`, which makes an improvement without an answer
  impossible in one history (`NoAnswerNoGain`); the second because the ranking of the due lists
  each of them once (`DueAreRanked`) and what is unstarted has no attempt; the third by adding
  up the states objective by objective (`TotalsAddUp`).

`PracticeProofs`, of `PracticeScope`, for any tree and any number of units and objectives:

* `ScopeTypeCorrect`: `TypeInv` adds to the types that what has a question is an objective.
* `EveryTickIsItsRow`: the lemmas say what each step of `toggleRow` covers (`ItemsOfCover`,
  `WithAdds`, `NormalizeKeepsTicked`, `TurnOffRemoves`), `ToggleTicks` puts them together.
* `TicksAreServed`: what is drawn ticked is what is covered (`TickedIsCovered`), and the
  server resolves a query to what it covers.
* `SpellingStaysCoarse` and `SameTicksSameSpelling`: ticking keeps a selection in its
  coarsest form, and two coarse selections that tick the same rows are the same one, so there
  is one canonical form per set.

`PostgresProofs`, for any number of callers, objectives, migrations, runners and runs:

* `MigratedToARelease`: `SchemaIsARelease` is not inductive, as it does not say what a runner
  will record. `SchemaInv` adds that a runner at its record has a file that is not there and is
  the next one (`RecordIsNew`), that there is one such runner for a file (`OneRecords`), and what
  a finished run has done (`OkIsDone`), from which `SuccessMeansLatest` follows.
* `UpgradesAreMigrations`: the profile store with its locks only delays a runner, so its
  specification implies that of `Migrations`; hence `StoreIsOnARelease`.
* `ReadsAreOfTheTime`: `ReadsWhatWasThere` speaks of finished calls only. `IInv` adds what a call
  at each statement has found (`Calling`, `Found`), that the past of a call includes the present
  (`Remembers`), what a read has in hand between its two statements (`HalfRead`), and that what a
  save does not delete was not there at some moment of it (`Deleting`).
* `StoreIsAtomicButForOverlaps`: each step is a step of `AtomicStore`, a stutter, or the save
  that `SavesAround` names (`StepRefined`); for the commit of a save, what `Deleting` says is
  exactly that exception. An upgrade is a stutter (`UpgradeChangesNothing`). The
  argument makes no use of the row locks: they delay writers, which matters to `EveryoneEnds`.

`LocalProgramsProofs`, for any number of terminals, sessions, commands, objectives and dates, and
any catalog and finite set of attempts that were there before:

* `ReportsAreTrue`: `SessionKeeps` says that a session's ids are numbered by its calls, so that
  the one being stored is new (`AppendingIsNew`), and that what is kept is what the store has of
  that session but for what it was told it lost (`Mine`).
* `ChecksAreRight`: beside other writers a check relies on what it read still being so
  (`ReadsStand`: catalogs only grow, unless they are overwritten) for its OK, and on nobody
  having written (`ReadsAgree`) for its failure; its sum of counts is the count of the attempts
  of the objectives it has looked at (`OneMoreObjective`).
* `TracebacksAreOfOverwriting`: `ReadsStand` at the second read of `objectives`
  (`HowACommandEnds` says which steps end a command, and how).

`MaterialViewProofs`, for any number of pages, requests and generations:

* `RunningIsWaitedFor`, `ArticleSaysWhatIsTracked`, `SummaryCountsTheBank`, from one invariant.
  `IInv` adds to the three that a promise is of a generation that was sent
  (`PromisesAreOfSteps`), that requests are for pages there are, and `ResponseIsTrue`: what
  `SummaryIsTrue` will say when a response arrives is so already while it is under way. A
  replacement can spoil that only if its generation was abandoned, since a material is marked
  as running while one promise is pending and no second one starts meanwhile; and what it may
  have missed when it deleted is of abandoned generations, for the same reason
  (`MissesTheAbandoned`).
* `UploadsAreListed`: `Uploads` adds that a page on the server stays there, and that a relist has
  the page of its upload from when it is read on; `FormStep` says which responses bring the form
  back.
* `NoUnitIsFoundedTwice`: `Units` adds what a generation under way has read and been answered
  (`Reconciling`). The lemmas are about `Reconciled`: a unit the model was told of comes back in
  the spelling told (`ReconciledIsKnown`), and so does one that the answer repeats. The first of
  equal spellings is a least element, which `NatLessThanWellFounded` gives without an induction.

`QuestionBankProofs`, for any number of callers, ids and questions:

* `BankKeepsIntegrity` and `ReplacementRemovesTheOld`: `IInv` adds that a transaction's marks and
  what it brings are its own (`Holding`, `OwnIds`), that what it has yet to insert fits what is
  there (`PendingFits`, `Brought`), that a row is of the batch of a call that was not refused
  (`RowsStayOfBatches`), and which rows of its material a replacement has already
  found (`Replacing`).
* `BankIsAtomicButForOverlaps`: the initial state is one of `AtomicBank`, and each step is one of
  its steps, a stutter, or the replacement that `ReplacesAround` names.

`StudyApiProofs`, for `~CreateRace` and any number of requests, topics and materials:

* `BankIsPractisable`, `AttemptsHaveObjectives`, `WhatIsSaidIsSaved`: none is inductive, since
  each write relies on what its handler found some store calls before. `IInv` says that it is
  still so (`Found`, `Covering`): without two creates of one topic, a catalog only grows. The
  third also needs that an id is in the log once (`EachIdIsOnce`).
* `CatalogForgetsNothing`: hence no handler takes an objective out of a topic, and a registration
  keeps the fields it does not send, if the catalog is as it has read it.
* `CreateOverwritesOnlyInARace` states it as the absence of the finding `create_race`.

`PracticeProofs`, of `PracticeView`, for any number of sessions, questions, keys and requests:

* `WhatIsShownIsStored`: an attempt id names one question of one session in every request under
  way and in the log (`Numbered`, `AllSound`, `Logged`), a session waits for one request, which
  is for what it still shows (`AllAwait`), and a response says what the server did (`Truthful`).
* `RetriesAddNothing`: so there is one attempt per number, at most as many as were shown.
* `SessionsSkipNothing`: a session goes on only from a question that has its attempt (`GoesOn`).

The assumptions are the named ones of each module: the ranges of the constants, `None` apart
from the values, what `Retention` and the schedule are like, that the calls of a store are
among its operations (`ProfilesAssumption`), that no attempt of an earlier program has an id of
one of the sessions, since ids are generated (`InheritedAssumption`). The exception,
`AnyPastIsRecovered`, states its own. No theorem assumes anything of the environment but
`~DeletableInUse` and `~CreateRace`, where it says so.

`NoLostAppend` is checked (`json`) and proved for stores whose lock files are let alone, and
violated (`json_lock_deleted`) where they are not.

Every invariant and every action property of a passing run is proved. Only model-checked:
liveness (`EveryWriteEnds`, `EveryCallEnds`, `EveryoneEnds`) and ENABLED, which are out of the
prover's reach, and the two runs that expect a violation.

## 5. Plan

Done, in this order: `Leveling`, `ObjectiveHistory`, `Tracker`; `StoreOperations`,
`AtomicStore`, `JsonStore`; the first proofs about `JsonStore` and `Tracker`; `BankOperations`,
`AtomicBank`, `QuestionBank`; `StudyApi`; `PracticeView`; `PracticeScope` and its proofs;
`Migrations` with its proofs and `PostgresProfiles`; `LocalStores`, `CommandLine`,
`SessionRecorder`, `LocalPrograms`; `TrackerQueries`; `Generation`,
`MaterialView` and its proofs; the proofs about the bank, the web handlers, the practice
session, one objective over time, the queries, the PostgreSQL store and the programs on one
machine. Next:

1. Proofs: that the stores composed with their callers keep what the callers were proved to
   keep over atomic stores; lemmas on `IntervalDays`, `RetentionFactor` and `BuildResult` by
   themselves.
2. `next_question` with its choice of a question, composed with `StudyApi`: `TrackerQueries` has
   the two queries it makes, and `PracticeView` its answer.

## 6. Not modelled

Serialisation and the shape of ids, names and texts; validation done by the model classes; a
machine that loses power (the rename is not followed by an fsync of the directory); network
file systems; the prompts, the shuffling of options, the stub of the language model and
`targeting.py`; limits on the sizes of bodies; authentication and configuration; the handlers
and commands that print one query (`progress.py`, `list_profiles`, `due`, `summary`, ..), of
which the query itself is modelled; `get_stale`, another list of the same states; the choice of
the data directory; the file that fills the upload form; rendering; the scripts.
