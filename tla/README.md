# Busync dispatch: TLA+ models and proofs

Busync is a dispatch system for bus companies.  The repository is a monorepo: a
Node/Express back end over PostgreSQL (Prisma) in `packages/backend`, an admin
web, a driver app, and a Python solver in `packages/dispatch-engine`.

The state that matters is in the database.  It is written by HTTP handlers, by
timers in the same process (`index.ts`) and by the tool calls of LLM agents,
which all run at once.  A handler is an async function: it reads, awaits, and
writes later.  Two facts make the order of those statements matter:

* Prisma transactions run READ COMMITTED, with no explicit row lock.  A check
  inside an interactive transaction is as old as one outside it.
* Most handlers check a status once and then write `where: { id }`.  Whether what
  they checked still holds when they write is decided by the other handlers.

Beside these writers there is a second kind of code that is hard to test: the
searches that build a month's roster, in TypeScript and in Python, whose rules
have to hold on every date of every month for every company.

This directory models the writers at the granularity of the statement and the
searches at the granularity of one decision, checks both with TLC, and proves
the central invariants with TLAPS.

All paths below are relative to `src/packages/backend/src` unless they start
with `packages/`.

## Contents

| File | What it is |
|---|---|
| `EmergencyDrops.tla` | the substitute desk of a published roster |
| `ShiftCover.tla` | the abstract promise of that desk: who holds a shift |
| `DraftRoster.tla` | the drafts of a month up to their publication |
| `LeaveDesk.tla` | day-off requests against drafts, publication and the desk |
| `AgentDesk.tla` | runs of the agents, their prompts, overrides and the daily report |
| `Sessions.tla` | refresh tokens on the server and in the two clients |
| `DriverApp.tla` | the offline queue of the driver app |
| `RosterBook.tla` | the books of the monthly solver and the rules of every assignment |
| `CyclicRoster.tla` | the cyclic roster (extends `RosterBook`) |
| `MonthGrid.tla` | the monthly solver (extends `CyclicRoster`) |
| `GeneratedDraft.tla` | a generation from the operating plan to the last fill (extends `MonthGrid`) |
| `EngineFrame.tla` | the base frame of the Python engine and its estimate from last month |
| `EngineMonth.tla` | a month the engine generates (extends `EngineFrame`) |
| `EngineDesk.tla` | the engine's draft and its repairs (extends `EngineMonth`) |
| `MC*.tla` | instances for TLC: one per module that is run |
| `*Proofs.tla` | inductive invariants and theorems of `EmergencyDrops`, `DraftRoster`, `LeaveDesk`, `AgentDesk`, `Sessions`, `DriverApp`, `GeneratedDraft` (with `MonthGrid`), `EngineDesk` |
| `Emergency*`, `Draft*`, `Leave*`, `Agent*`, `Sessions`, `Driver*`, `Month*`, `Generated*`, `Engine*` `.cfg` | the runs, and the known divergences |
| `PROJECT.json` | components, runs, mutants, map to the source, hazards, theorems |

## Inventory

The parts of the system, the state each keeps, its operations and what would
make it correct.

### The dispatch core

**Substitute desk** (*modelled*, `EmergencyDrops`).  State: the status and the
driver of each `ScheduleSlot` of a published roster, and at most one
`EmergencyDrop` per slot (`slotId` is unique) with its status, the driver who
dropped, the driver who filled, and `escalationLevel`.  Operations: a driver or
the office drops a shift (`createEmergencyDrop`), a driver accepts it
(`acceptEmergencySlot`), an administrator fills it (`manualFillEmergency`) or
withdraws it (`cancelEmergencyDrop`), a timer tick every ten minutes expires it
after departure and broadcasts it as urgent two days before
(`runEscalationCheck`, `runD2UrgentSweep`), the agent records an acceptance
(`record_acceptance`), and a user, a route or a whole roster is deleted.  Hard:
five handlers write the same two rows without locking them together; the tick
overlaps with itself and with a second server; the agent writes minutes after it
read; the process may stop between the commit of a drop and its broadcast.
Correct when: slot and drop never contradict each other, nobody loses a shift he
was given, no shift is vacant without an open request for cover, no drop stays
open after its departure, and for every urgent drop the broadcast is run.

**Draft rosters** (*partly*, `DraftRoster`).  State: `Schedule` (status, name,
notes with `unmatchedCells`), its `ScheduleSlot` rows, unique by (schedule, date,
bus, shift), its `SchedulePattern` rows (a bus runs or rests on a date), and a
partial unique index that allows one PUBLISHED roster per month and service
type.  Operations: the office edits a cell, adds, changes and swaps slots, puts
a bus to rest or back to work, fills the spare drivers' cells, matches names
that have got an account, saves an engine answer, generates with the solver,
copies, renames, deletes and publishes; a daily timer lays the base frame of the
next twelve months; the dispatch agent does most of this through tools.  Hard:
every handler reads DRAFT once and writes by id, minutes later when an engine is
asked; the publication gate is three separate statements before the update; the
meaning of a missing pattern row depends on all the others.  Correct when: one
roster of a month is published, what passed the gate is what is published,
nobody works twice on a date, no bus goes out without a driver, fills never
double-book, nothing written by hand is lost to a timer, and names without an
account are not forgotten.

**Day-off requests** (*modelled*, `LeaveDesk`).  State: `DayOffRequest` rows PENDING,
APPROVED or REJECTED.  A driver asks and withdraws, the office or the agent
decides; an approval drops the driver's shift of that date if the roster is
published, and the publication refuses a roster that seats a driver on approved
leave (rule E5).  Hard: each of the two looks for what the other writes; the
review holds the row of the request until it commits, everything else writes by
id.  Correct when: approved leave keeps the driver off the published roster, a
decision stands, there is one live request a day, and what a drop says of its
request is true.

**Monthly solvers** (*partly*, `RosterBook`, `CyclicRoster`, `MonthGrid`).  One
request of the solver: companies with two shifts and crews of two get the cyclic
roster (lines of work and rest, the buses that run, spare crews, repair), the
others a rest plan (phase A), a driver for each seat (phase B) and a local search
(phase C).  Hard: seats, books and labels are kept in several structures by
swaps, fills and reassignments; runs join across a date that is assigned last;
days carried over from last month; forced rests that break the rhythm.  Correct
when: no step of either path seats anybody against a rule, the books agree,
work and rest keep the company's rhythm, and the search makes nothing worse.

**Vacancy fill**, **operating plan** (*modelled*) and **publish inspection** (*partly*),
in `GeneratedDraft`: the rotation that decides which buses of a route rest, the
marks of resting buses, the fill of what the solver left, and the rules E2 and E3
it has to agree with.  Hard: a cursor modulo the fleet with blocks that end and
buses that are called back; two places that decide which buses rest; a fill that
goes by date while runs extend both ways.

**Python dispatch engine** (*partly*, `EngineFrame`, `EngineMonth`, `EngineDesk`).  It
reads the phase of every bus and the order of its two drivers from last month's
roster, decides day by day which buses stay in the yard, poses an assignment
problem whose hard constraints include the frame, and solves it; the draft it
answers with is kept in memory and repaired there when somebody is absent.
Hard: hard constraints that contradict each other make a month infeasible; counts
are shared by largest remainders; a staircase that moves phases; a draft that is
pickled once and changed in memory.

**Agent runs** and **daily report** (*partly*, `AgentDesk`).  A run is a loop of model
calls and tools with a limit, retries with back-off, and one `AgentDecision` row;
drops start runs at once, a timer starts them again for what is still open; the
report of yesterday is written by an hourly tick or by force.  The office may
override a decision, which the next prompts are to teach; a server caches the
prompt for five minutes.  Hard: runs last minutes and overlap; two servers; the
cache is filled after an await.

**Sessions** (*partly*, `Sessions`).  State: `RefreshToken` rows with a family and an
expiry, the tokens that a browser (shared by its tabs) and a phone keep, and the
copy each page has in memory.
Operations: sign-in, rotation, logout, forced logout, password reset, deactivation
and deletion; in the clients, one refresh in flight per tab and other requests
parked behind it.  Hard: rotation deletes what it read and creates the next; a
deletion of many rows waits for the rows a rotation holds; a lost answer leaves
the client with a token that is gone; a page's copy is not renewed by a rotation.

**Driver app** (*partly*, `DriverApp`).  A write without a network is stored and posted
when the connection is back, with retries.  Hard: the stored queue is read and
written back whole by enqueueing and by every run; the flag that keeps runs apart
is looked at before an await; the app is killed anywhere.

### Around it

| Part | What of it is in the modules | Status |
|---|---|---|
| Tools of the emergency and dispatch agents | what they write to slots, drops, rosters, requests and reports | *partly* |
| Engine requests and policy mapping | saving an answer and matching its names (`DraftRoster`); the mapping is format | *partly* |
| Base frame timer | one month of its twelve (`DraftRoster`) | *partly* |
| Users, tags, preferences, licences | deactivation and deletion (`EmergencyDrops`, `LeaveDesk`, `Sessions`), registration (`DraftRoster`) | *partly* |
| Routes and buses | deletion of a route (`EmergencyDrops`) | *partly* |
| Notifications, pushes, sockets | the urgent broadcast, with its early returns and swallowed failures (`EmergencyDrops`); delivery is external | *partly* |
| Server, timers, configuration | ticks and sweeps, `Crash` and `Abort` | *partly* |
| Admin web | the refresh of its tokens, the store and each page's copy (`Sessions`); its requests are the inputs | *partly* |
| Attendance | a check-in and a check-out per driver and date, which no other handler reads to decide | left out |
| Company policy, engine tuning, holidays | one JSON column read, merged and written whole; a constant of a run of the solver here | left out |
| Company registration, onboarding import | before any roster exists | left out |
| Company rules, rule compiler, fairness | text to constraints with a language model | left out: no state |
| Older generation, reading, workbooks | listings derived from the rows | left out: reads only |
| Posts, messages, chat; vehicle inspection, maintenance, training | plain records, no tie to rosters | left out |
| Audit log and retention | appended without awaiting, deleted in batches | left out: nothing reads it |
| Tenant context, validation, rate limits | filters every query by company | left out: a module models one company |
| Back-testing and simulation; deployment, CI, documents | offline; configuration | left out |

### How they interact

    office, drivers --HTTP--> handlers ---+
    escalation timer (10 min) ------------+--> ScheduleSlot / EmergencyDrop
    emergency agent --tools---------------+        ^          |
       ^ started by drops and ticks                |          |
    day-off review, agent tool ----drops a shift---+          |
              | reads published roster    published|          | deletions cascade
              v                                    |          v
    publication --rule E5 reads requests--+        |
    office --HTTP--> handlers ------------+--> Schedule / ScheduleSlot / SchedulePattern
    base frame timer (24 h) --engine------+        ^
    dispatch agent --tools----------------+        |
    operating plan -> monthly solver -> marks -> vacancy fill (one generation)

The modules divide the rows of `ScheduleSlot` by the status of their roster.  The
handlers of `DraftRoster` refuse a published one when they open; those of
`EmergencyDrops` only touch slots that a drop, an approval or a deletion names.
The initial states of `EmergencyDrops` are what a publication of `DraftRoster`
leaves: every slot SCHEDULED with a driver and no drop.  `LeaveDesk` composes the
three at their meeting point, one driver's shift: edits and the publication of
`DraftRoster`, the commits of `EmergencyDrops`, one step each, and the requests
statement by statement.  `GeneratedDraft` composes the operating plan, the solver,
the marks and the fill into the one call that `DraftRoster` sees as `GenerateOpen`
to `InsertNew`; `EngineDesk` is the service whose answer `DraftRoster` saves.
`AgentDesk` starts what `EmergencyDrops` has as `RecordRead` to `RecordCommit`.  A
deleted or deactivated user ends his sessions in `Sessions`.

## `EmergencyDrops` and the code

Rows are records, keyed by what is unique in the schema.  A slot of a deleted
roster has status `GONE`; a missing drop has status `NONE`.  `id` of a drop comes
from the sequence `lastId`, so a handler that remembers the id of a deleted drop
does not find the one created after it on the same slot (`DropRowLives`).

`req[h]` is what the request, tool call or sweep `h` has in its local variables:
the statement it is about to run, the slot, the drop id and the driver it read.
Everything else is re-read from the tables.

| Code | Actions |
|---|---|
| `createEmergencyDrop`: checks, transaction, push, level | `CreateRead`, `CreateCommit` or `CreateReject`, `CreateNotifyUrgent` or `CreateNotifyPlain`, `RaiseLevel` |
| approval of a day off that drops the shift | the same (`CreateRead`, `CreateCommit`) |
| `acceptEmergencySlot`: checks, weekly count, conditional claim | `AcceptRead`, `AcceptCount`, `Claim` |
| `manualFillEmergency`: checks (the override passes the weekly rest), conditional claim | `FillRead`, `Claim` |
| `cancelEmergencyDrop` | `Cancel` |
| tool `record_acceptance`: status and weekly check, then writes by id | `RecordRead`, `RecordCheck`, `RecordCommit` |
| `runEscalationCheck`, one drop: re-read, transaction by id | `ExpireRead`, `ExpireCommit` |
| `runD2UrgentSweep`, one drop: re-check, push, level | `D2Read`, `D2Notify`, `RaiseLevel` |
| `DELETE /users/:id`, `PUT /users/:id` | `DeleteUser`, `SetActive` |
| `DELETE /schedules/:year/:month`, `DELETE /routes/:id` | `DeleteSchedule`, `DeleteRoute` |
| a statement throws; the process dies | `Fail`, `Crash` |

A transaction that only writes is one step: under READ COMMITTED its statements
take the row locks as they go, and every other writer of the same rows waits.  An
interactive transaction that reads first (`acceptEmergencySlot`) is one step per
statement.  Foreign keys are part of the writes: a claim whose driver has been
deleted is rejected and rolled back.

A broadcast is for the drivers resting that day and the active spare drivers, less
those who have worked their week (`Recipients`).  It returns early when the route is
gone or nobody is left, and `Promise.allSettled` swallows notifications that fail, so
its caller never knows: `broadcast[s]` keeps how often somebody was told of the current
drop (`told`) and whether a broadcast ended with nobody told (`vain`).

Data left out: the pushes and AlimTalk messages themselves, ranking of candidates,
reasons, the read-only lists.
Dates are given by constants: `Day`, `Week` (Sunday first), and the instants at
which a slot becomes urgent, departs and ends.

### What it promises: `ShiftCover`

A shift is held, vacant, missed or removed, and has a holder.  It changes hands
only while it is vacant; a removed shift stays removed.  `EmergencyDrops`
implements this under the mapping SCHEDULED, FILLED to *held*; DROPPED to
*vacant*; ABSENT to *missed*; GONE to *removed*, **with the agent off**.  With the
agent on `record_acceptance` may hand a shift that another driver has just taken
to somebody else (`FilledOnce` below).

## `DraftRoster` and the code

One month and one service type of one company.  `row[k]` is a function of the
cells because of the unique key (scheduleId, date, busId, shift); `NoRow` is no
row.  Row ids are reused, and so are roster ids, but only when no handler in
flight remembers them: this is what an autoincrement id means to a handler, and
it keeps the state space finite.  `touched` (changed by hand) and `forced`
(published with `force`) are history variables that no guard reads.

| Code | Actions |
|---|---|
| `setCellDriver`: status, row, eviction of the driver's other rows, upsert | `EditOpen`, `EditRead`, `EditEvict`, `PutCell` or `EditClear` |
| `POST /schedules/slots` | `AddOpen`, `AddCheck`, `PutCell` |
| `PUT /schedules/slots/:id`, `/override`, tool `modify_slot` | `UpdateOpen`, `UpdateRows` |
| tool `swap_drivers` | `SwapOpen`, `UpdateRows` |
| `setVehicleOff` | `OffOpen`, `OffRead`, `OffWrite` |
| `fillSpareSlots` | `SpareOpen`, `SpareRead` (the engine has answered), `Insert` |
| `fillVacancies` (at the end of a generation) | `VacancyOpen`, `VacancyRead`, `InsertNew` |
| `rematchUnmatchedCells` | `RematchOpen`, `RematchRead`, `RematchWrite` |
| `publishSchedule`: other publication, duplicates, inspection, update | `PublishOpen`, `PublishOther`, `PublishDups`, `PublishInspect`, `PublishWrite` |
| `saveEngineDraft` from the office or the timer | `SaveOpen`, `SaveFind`, `SaveReplace` or `SaveReject` |
| `ensureBaseFrameSchedule` | `TickCheck`, `TickAnswer`, then the save |
| generation with the solver | `GenerateOpen`, `Create`, `Rest`, then the vacancy fill |
| `duplicateSchedule` | `DuplicateOpen`, `DuplicateCount`, `Create` |
| deletion, renaming | `DeleteOpen`, `Delete`; `RenameOpen`, `Rename` |
| tool `publish_schedule`, which writes its summary over the notes | `NotesOpen`, `Notes` |
| registration of a driver; a failure, a late engine, a restart | `Register`, `Abort` |

Not in the module: rest-day rows, moving a slot to another bus or shift, the
status ARCHIVED, slots without a bus, the older generation, deactivation of a
driver, and the inspection rules other than duplicates and E2.  A check made of
several reads in a row (the timer's, and each check of the gate) is one step; a
later check and the write are steps of their own, which is where the interesting
interleavings are.  What `fillVacancies` chooses is any plan that its rules on
free drivers and operating cells allow.

`AnswerAssumption` says what the engine and the solver may answer: nobody twice
on a date, nothing for a bus that rests.  The grid solver keeps both as hard
constraints (`RulesHeld` below); the engine service does by construction of its
frame.

## `LeaveDesk` and the code

The requests of one month, the working slots of its rosters (one roster per service
type), the drops of those slots, and handlers with the local variables of one call
each.  `met` records which handlers had a request, a slot or a roster in hand at the
same time; the properties excuse exactly those meetings.  The weekly rest and the
other rules of the inspection are left out; `checkApprovedOff`, a switch of the
company's policy, is on.

| Code | Actions |
|---|---|
| `createDayOffRequest`: live request of that day?, insert | `CreateOpen`, `CreateWrite` |
| `reviewDayOffRequest`, one interactive transaction: status, update (which locks the row), published roster, slot, drop, commit | `ReviewOpen`, `ReviewUpdate`, `ReviewRoster`, `ReviewSlot`, `ReviewDrop`, `ReviewCommit` |
| tools `approve_dayoff`, `reject_dayoff` | `ToolOpen`, `ToolDecide` |
| `cancelDayOffRequest`: read, delete by id | `CancelOpen`, `CancelDelete` |
| `PUT /schedules/slots/:id` on a draft | `EditOpen`, `EditWrite` |
| `publishSchedule`: duplicates, E2, E5, update | `PublishOpen`, `PublishDuplicates`, `PublishInspect`, `PublishLeave`, `PublishWrite` |
| the commits of the desk, the deletion of a user | `DeskDrop`, `DeskFill`, `DeskCancel`, `DeleteUser` |
| a statement throws | `Fail` |

## `AgentDesk` and the code

The runs of one agent of one company; which agent, the initial state chooses, since
the emergency agent and the daily report share neither rows nor cache entries.
Several servers each have their timers and their `cache` of prompts; the database is
one.  The language model is external: it answers with text, asks for tools, or fails.

| Code | Actions |
|---|---|
| `dispatchImmediateEmergency`, when a drop is created | `Dispatch` |
| `runEmergencyAgentBatch`: the open drops of this moment, one run after the other | `BatchTick`, `BatchNext` |
| `runDailyReportsForAllCompanies`, `regenerateDailyReport` | `ReportTick` |
| look-up of `runAgentForDrop`, `runDailyReportForCompany` | `Lookup`, `Throws` |
| `getEvolvedSystemPrompt`: cache, query, cache | `Prompt`, `Fetch` or `FetchFails`, `Store`; `Expire` |
| `BaseAgent.run`, `callWithRetry`: the loop | `Answer`, `CallFails`, `Tools`, `ToolRecords`, `ToolSaves` |
| `logDecision` | `Log` |
| `overrideAgentDecision`, `recordOverride`, `invalidatePromptCache` | `OverrideOpen`, `OverrideRecord` or `OverrideLost`, `OverrideAnswer` |
| `GET` and `POST /daily-reports/:id` | `ViewReport`, `MarkOpen`, `MarkRead` |
| a server stops | `Crash` |

`record_acceptance` is one step here; its statements are in `EmergencyDrops`.  The
cap of twenty overrides and their age of ninety days are left out, so are the text
of a report, the change of yesterday at midnight and simulated runs.

## `Sessions` and the code

A row of `RefreshToken` is LIVE, GONE or not there yet; its family is the token the
sign-in began with.  A call on the server is at one of its statements.  A statement
that deletes many rows takes its snapshot when it starts and waits for the rows that
a rotation has locked.  A browser's pages share one store that is read at once; the
phone's is read and written with an await.  Each page also has in memory (`mem`) the
tokens it signed in or was loaded with.  A rotation renews those in the store only
(`writeAuthTokens`); a sign-out sends the one in memory, and a later write of the page,
`clearMustChangePassword`, puts those in memory back over the store.  `POST /auth/logout`
is behind `authenticate`: with a stale access token the browser's interceptor refreshes
and sends the same body again, the phone's bare `fetch` is refused and the refusal
ignored.

| Code | Actions |
|---|---|
| `login`, `issueTokenPair` | `LoginCheck`, `IssueToken` |
| `refreshAccessToken`: find, purge, delete and create | `RefreshFind`, `RefreshPurge`, `RotateDelete`, `RotateCreate` |
| `logout`, `forceLogout`, `forgotPasswordReset` | `RevokeOpen`, `RevokeErase`; sent by `SignOut`, `ForceLogout`, `Reset` |
| `useAuthStore` of the web: sign-out, `clearMustChangePassword`, a page loaded anew | `SignOut` and `Settle`, `ClearFlag`, `Reload` |
| the interceptors of the two API clients | `Act`, `Refused`, `Check`, `Granted`, `Save`, `Denied`, `Failed`, `Lost`, `Release` |
| `fullLogout`, leaving the page | `FullLogout`, `Leave`, `Detach` |
| time, deactivation, deletion, failures, closed pages | `ExpireRefresh`, `ExpireAccess`, `SetActive`, `DeleteUser`, `CallFail`, `Unheard`, `Close` |

Passwords, one-time codes and their attempt counter are left out: who may sign in,
may.

## `DriverApp` and the code

The stored queue, the writes in flight, and the runs of `processQueue`, each with
what it read.  A post is carried out by the server or not, and its answer arrives or
not, independently.

| Code | Actions |
|---|---|
| a write of the app, its interceptor | `Send`, then `Answered` or `NetworkError` |
| `enqueueRequest`: read, write back whole | `NetworkError`, `Enqueue` |
| `startQueueListener`: NetInfo reports, the flag is looked at | `Heard`, in `Connect` (the connection is back) and `Notice` (any other report of a connection); `Disconnect` |
| `processQueue`: the flag set, the queue read, posts, retry count, what remains written back | `Fetch`, `Read`, `PostDone`, `PostFailed`, `SaveRemaining` |
| sign-out and sign-in, a kill | `SwitchUser`, `Kill` |

## `MonthGrid` and its parts, and the code

One request of the solver is chosen from `Inputs` in the initial state.  A step seats
one driver, or carries one structure over one day.  Where the code sorts candidates
by a cost and takes the first, the model takes any candidate of the leading tier, and
a move of the local search may be kept or not: what holds, holds for every cost and
every objective.  `policy.constitutional` may be missing (`input.stated`): the checks of
a seat then go by the default rules, those of a swap, a fill and the cyclic roster by
none, as in the code.  Days are numbers; the carry-over speaks of days 0, -1, ...

| Code | Definitions |
|---|---|
| `checkAssignment`, `wouldViolateGridRules`, `violatesRestCycle` | `CheckAssignment`, `KeepsGridRules`, `ViolatesRestCycle` (`RosterBook`) |
| `DEFAULT_CONSTITUTIONAL`, and a policy read without it | `DefaultRules`, `StatedRules` |
| `addSlot`, `ctx.driverSlots`, unfilled seats | `AddSlot`, `SeatsOf` and the book variables |
| `buildLines`, `spreadStart` | `StartPairs`, `PairsDay`, `Todays`, `Calls`, `Advance` (`CyclicRoster`) |
| the buses that run, spare crews, blocks and shifts | `BusesDay`, `SparesDay`, `BlockNo`, `OnShift`, `Planned` |
| confirmation and repair of `buildCyclicRoster` | `Confirm`, `ConfirmDone`, `Repair`, `RepairDone` |
| `normalizeToCrews`, `validateCrewModel` | `Accepted` (`MonthGrid`) |
| `buildRestPlan` | `InitialPlan`, `PlanDay` |
| `pickDriver` and the loop around it | `Tier`, `Candidate`, `Picks`, `Assign`, `AssignDone` |
| `localSearch`: swaps, fills, reassignments | `Swap`, `SwapDone`, `Fill`, `FillPass`, `Reassign`, `ReassignDone` |

### `GeneratedDraft`

| Code | Definitions |
|---|---|
| `buildOperatingPlan`, a day of a route | `OperatePlanDay` with `Ongoing`, `Starting`, `Returning`, `CursorAfter` |
| `generateMonthlyScheduleV2`: solver, rows, marks | `Solve`, `PersistOutput`, `Marked`, `PersistResting` |
| `operatingCells` | `OperatingSeats` |
| `fillVacancies`, one seat | `FillSeat` with `Fits`, `Candidates`, `Pick` |
| its end, or an error that the caller swallows | `FillDone`, `FillFails` |
| rules E2 and E3 of the inspection | `Empties`, `InspectionLimit` |

## `EngineFrame`, `EngineMonth`, `EngineDesk` and the code

Paths in this section are in `packages/dispatch-engine`.  A frame is the phase of
each bus of a depot and the order of its two main drivers.

| Code | Definitions |
|---|---|
| `frame.py`: `Cycle`, `staircase_phase`, `build_month_frame` | `WorksAt`, `LeadShift`, `Stair`, `PhaseOn`, `FrameWorks`, `FrameShift` |
| `estimate_anchor`: score, best pair, base | `ScorePhase`, `BestOf`, `BaseOf`, `Estimate` |
| `generate.py`: `_split`, `_counts_for_group`, with a count under the group's own name and a kind of day without one | `Split`, `Sizes`, `OwnCount`, `Share`, `RunCount`, `YardCount` |
| `rotation.py`: `expand_pattern` | `Expand`, with `BySlot` and `ByPointer` |
| `generate.py`: fixed cells, off days, pinned drivers | `Pose`: `FixedOn`, `Off`, `Problem` |
| `mains_only` | `LayFrame` |
| `solver.py`: the hard constraints, date by date; nothing found within the time limit | `Search`, `SolveDay`, `Solved` with `KeepsRules`; `GiveUp` |
| `audit.py` | `Doubles`, `OnLeave`, `LongRuns`, `ShortNights` |
| `service.py`, `repair.py`: the draft, an absence, a repair, a restart | `Store`, `Absence`, `Repair`, `Forget` |

The solver minimises a cost under a time limit; the model takes any assignment the
hard constraints allow, so preferred weekdays, levelling and the floor of work days
are not in it.  The repair endpoint takes any name; the model takes any driver of the
register for any seat that runs, offered or not (`Repair`), and leaves other names out.
Reading workbooks, explanations, recommendations and the triage of leave requests are
left out.

## What is checked

A run takes from a second to two minutes with two workers.

| Run | Instance | Properties | Distinct states |
|---|---|---|---|
| `desk_agent` | one slot, three drivers, two requests, the agent on, one fault | `SlotAgreesWithDrop` | 817 k |
| `desk_sweeps` | one slot that becomes urgent and departs, two drivers, one request, two sweeps, one fault, fairness | `NoOrphanedVacancy`, `RaisedOnlyAfterBroadcast`, `DepartedDropSettles`, `UrgentDropBroadcast`, `ShiftsCovered` | 103 k |
| `draft_office` | one draft, three cells on two buses, a main driver, a spare and an unregistered name, one request at a time | `NoHiddenDouble`, `PublishedStaffed`, `PublishedFrozen`, `FillsBookFreeDrivers` | 941 k |
| `draft_races` | two rosters, two cells, two requests and a timer | `OnePublished`, `NothingOfGoneRosters` | 249 k |
| `leave_reviews` | one driver, one date, two requests, one shift, two handlers | `LeaveHonoured`, `OneRequestPerDay`, `DropHasApproval`, `DecisionStands` | 640 k |
| `agent_desk` | two servers; a drop with its creator's run and the batch, or the report's tick; one decision, two faults, fairness | `KnowsOverrides`, `OverridesLearned`, `EverythingTried` | 120 k |
| `sessions` | a user with a browser page of two requests and a phone, four tokens, two calls | `OneLivePerFamily`, `EndedStaysEnded`, `NoneParked`, `NoCauselessLogout` | 250 k |
| `driver_queue` | two writes, two runs of `processQueue`, one disturbance, fairness | `AcceptedIsKept`, `AppliedOnce`, `PostedInOrder`, `QueueDrains` | 354 k |
| `month_roster` | several companies of three buses and six drivers, five days | `RulesHeld`, `RhythmKept`, `BooksAgree`, `CyclicLimits`, `SearchNeverHarms` | 52 k |
| `generated_month` | 19 companies, five calendars | `RestsRotate`, `FillIsSafe`, `NothingLeftToFill` | 199 k |
| `engine_month` | two depots of one route, four days, 660 requests | `Solvable`, `CutsAsRegistered`, `RestsContinue`, `AuditBlamesFrame`, `OffersStand` | 172 k |
| `engine_anchor` | the same | `FrameRecovered`, which is violated | |

What they show, in words:

* Whatever mixture of requests, sweeps, deletions, a failure or a restart hits a
  slot, slot and drop tell the same story; with the agent off a vacant slot has an
  open drop, a raised level means that a broadcast about this drop ran, and the desk
  implements `ShiftCover`.  Every departed drop is settled, and for every drop that
  becomes urgent a broadcast runs unless it is settled first, also when the handler that
  created it died in between.  That a broadcast tells anybody is not promised, by the
  code or here (`SilencedOnlyWhenTold` below).
* As long as requests come one after the other, the publication gate is tight:
  nobody works twice on a date in a roster that passed it, the cells its patterns
  call operating are staffed, and no handler changes it afterwards.  The fills book
  free drivers.  Failures between the statements of a request (`Abort`) are in this
  run, so partial effects of each handler are too.
* With requests at the same time, one roster of a month is published at most, and
  nothing is ever written for a roster that is gone.
* Of a review and a publication one after the other, whichever comes first, the second
  sees what the first wrote: approved leave and the driver's shift in the published
  roster do not both stand.  Where the two overlap they can: the property leaves that
  out, `LeaveCaught` below states it and fails.  A driver has one live request a day
  unless two were sent at once, a decision stands, and a drop that names a request means
  it was approved, unless two handlers had it in hand; `SecondRefused` and
  `DecidedOnce` state the same without the exception and fail.
* Every prompt a server caches has the overrides that server answered, unless it was
  reading them at that moment or the reading failed; those too are learned, by every
  server, when the entry has aged.  What is open is taken up again after any failure
  or restart, and every run ends.
* A session has one good refresh token at most, whatever requests and tabs refresh.  A
  token that a sign-out, a revocation or a deletion of the user has deleted stays gone: a
  rotation that had read it cannot replace it.  A revocation that waits for a
  rotation misses the token this one inserts, and a sign-out may send a token that is no
  longer the good one (`RevokedEverywhere`, `SignOutEnds` below).  No request of a
  browser stays parked, and nobody is logged out without an expiry, a revocation, a
  failure, an overtaken refresh or an old page that wrote its tokens back.
* What the app has answered with "queued" is kept until it is posted, or has failed
  `MaxRetry` times, or was written over by an overlapping writer; it is applied once
  unless an answer was lost, in the order it was accepted; the queue empties where
  connections are reported again and again.
* No step of either way to build a month seats a driver against a rule of leave, licence
  or the other checks of a seat, nor beyond a limit that the policy states, for any order
  of candidates and any objective; runs stay within the cycle, carried-over days
  included; the books agree at every step; the cyclic roster keeps to its counts and
  limits; the local search takes nothing away that it may not.
* In a whole generation the rests go round the buses evenly, fills break no rule of
  the road on either side of their date, and what is reported vacant is what the
  inspection finds empty and nobody could be given.
* In the engine the hard constraints never contradict each other, whatever the frame,
  leave and counts; as many buses run as are registered, for a route or for a depot, or
  all where nothing is registered; last month's rests go on; what the audit finds is the frame's doing; and a candidate named at
  once stands.

Every property of a passing run has a mutant: a plausible bug in one mapped
definition, under which the run refutes the property.  The mutants stand before the
definition they change.

### Known divergences

These are statements of the repository that its code does not keep.  Each is a
definition at the end of its module, with the comment it comes from, and fails under
the configuration named here (`tlc -config <file> <MC module>`, with `-continue` where
a file has several).  The run `engine_anchor` must end in its violation.

| Statement | Says | Happens | Reproduced by |
|---|---|---|---|
| `FrameRecovered` | `packages/dispatch-engine/tests/test_frame.py:192`: the estimate must find the original phases again | the best phase is always taken from the first half of the cycle, and the depot is put on one staircase after the order of the two drivers was chosen (`frame.py:394`): on some buses morning and afternoon change places | run `engine_anchor` |
| `WeeklyLimitHeldByAcceptance` | `controllers/emergencyController.ts:235`: the weekly rest is judged with the claim, in one transaction, so races cannot exceed it | two acceptances of one driver lock two different drops and count the same week | `EmergencySameDay.cfg` |
| `NoSameDayDoubleAssign` | `packages/admin-web/src/pages/DispatchSettingsPage.tsx:421`: no two shifts on one day, a structural rule | drop a shift, accept another of that date, have the first drop cancelled | `EmergencySameDay.cfg` |
| `FilledOnce` | `agents/_tools/emergency-tools.ts:609,636`: recording is atomic and refuses a drop already settled | the status is checked before the transaction, which writes by id: a driver who accepts in between loses the shift | `EmergencyAgentRace.cfg` |
| `OnlyOpenExpires` | `services/escalationService.ts:9`: unfilled (OPEN) drops expire | the sweep re-reads, then writes by id: an acceptance in between is overwritten with EXPIRED and the slot with ABSENT | `EmergencyRaces.cfg` |
| `NoDuplicateUrgent` | `services/escalationService.ts:86,95`: the level prevents a second broadcast | the level is raised after the broadcast: a sweep beside the creating request sends it twice | `EmergencyRaces.cfg` |
| `SilencedOnlyWhenTold` | `services/escalationService.ts:87`: the broadcast is sent and the level raised to lock it | a broadcast with no route or nobody to ask returns early, failed notifications are swallowed, and the level is raised: the drop is not announced again, whoever becomes free | `EmergencyRaces.cfg` |
| `TickSparesPublished` | `services/baseFrameService.ts:25`: a month with a published roster is skipped | a publication between the timer's look-up and its delete by id is deleted | `DraftTick.cfg` |
| `TickSparesOffice` | `services/baseFrameService.ts:24`: what the office has touched is never touched | resting buses, cleared cells and `PUT /slots` leave no manual mark | `DraftTick.cfg` |
| `EveryBusStaffed` | `services/operatingPlanService.ts:246`: empty cells of a solver roster do not escape the gate | one vehicle-on mark on a solver draft makes `operatingCells` return that bus alone | `DraftCells.cfg` |
| `OffBusIdle` | `services/vehicleOffService.ts:13`: a resting bus has no slots | `setCellDriver` does not look at the pattern | `DraftCells.cfg` |
| `EditLeavesOneShift` | `services/cellEditService.ts:228`: one shift a day | the eviction leaves rows of the same bus alone, so a driver may have both its shifts | `DraftCells.cfg` |
| `PublishedFrozen`, two requests | `services/cellEditService.ts:210`: editing a published roster here would change it unannounced, so it is refused | the status is read once; an edit that began before the publication commits after it | `DraftGate.cfg` |
| `NoHiddenDouble`, two requests | `controllers/scheduleController.ts:542`: what is not stopped here is stopped nowhere | an edit commits between the gate and the update | `DraftGate.cfg` |
| `DraftLimit`, two requests | `services/solverDispatchService.ts:702`: at most five drafts a month | count, then insert | `DraftLimit.cfg` |
| `UnregisteredNamesKept`, agent | `services/rematchDriversService.ts:16`: names without an account stay marked until they are registered | `publish_schedule` overwrites the notes that hold it | `DraftNames.cfg` |
| `ApprovalDropsShift` | `controllers/dayoffController.ts:178`: the update of the request and the drop of the slot are one atomic step | with a published roster of each service type the approval looks at one of them only, and the driver of an approved request stays on the other | `LeaveKnown.cfg` |
| `LeaveCaught` | `services/publishInspectionService.ts:171`: the state "approved" in the app and at work in the roster is caught | the review looks for a published roster (`dayoffController.ts:194`) and finds none, the publication does not see the approval that is not committed, and both commit: leave and shift stand | `LeaveKnown.cfg` |
| `DecidedOnce` | `controllers/dayoffController.ts:173`: a request is decided already | the status is read before the transaction: an approval and a rejection both pass, and the slot is dropped for a request that ends as rejected | `LeaveKnown.cfg` |
| `SecondRefused` | `controllers/dayoffController.ts:128`: there is a request for that date already | find, then insert, and no key on driver and date | `LeaveKnown.cfg` |
| `LearnedAtOnce` | `controllers/agentDecisionController.ts:169`: the next run learns the override at once | the other servers keep their prompt for five minutes; a run that reads meanwhile caches the old one | `AgentKnown.cfg` |
| `OverrideStored` | `agents/_core/decision-logger.ts:64`: an override has to be stored for good | the error of the update is swallowed and the office is answered success | `AgentKnown.cfg` |
| `TickSparesReport` | `index.ts:85`: only companies without a report of today, idempotent | the tick looks, works for minutes and overwrites what a forced run has written | `AgentKnown.cfg` |
| `ReadIsOfThisReport` | `agents/_tools/report-tools.ts:639`: a report that is written again is unread | a request to mark it, sent for the text before, marks the new one | `AgentKnown.cfg` |
| `StoredIsProcessed` | `packages/mobile/src/services/api.ts:115`: the request is stored and is processed when the connection is back | two writers of the stored queue overlap and an entry is gone | `DriverStored.cfg` |
| `ProcessedWhenConnected` | `packages/mobile/src/services/api.ts:115`: the same sentence | a run starts only when NetInfo reports: a write stored on a network error, or kept after a failed post, while the connection stays up, waits for a report that need not come | `DriverStored.cfg` |
| `SignOutEnds` | `packages/admin-web/src/store/authStore.ts:23`: a sign-out has the server discard the refresh token | the web sends the token that the page has in memory, which a rotation has replaced in the store, and the delete matches nothing; the phone's request with a stale access token is refused | `SessionsKnown.cfg` |
| `RevokedEverywhere` | `controllers/authController.ts:595`: all sessions there are are ended | the delete waits for the row a rotation has locked and does not see the row it inserts | `SessionsKnown.cfg` |
| `LogoutOnlyWhenOver` | `packages/admin-web/src/store/authStore.ts:31`: one source of truth | the copy a page has in memory is written back over newer tokens, and the next refresh is refused; or two things crossed | `SessionsKnown.cfg` |
| `MinRestKept` | `agents/_solvers/types.ts:343`, `monthly-grid-solver.ts:256`: no morning after an afternoon | `checkAssignment` looks at the day before only: an afternoon given to a driver who has the next morning is accepted, by a repair for one | `MonthKnown.cfg` |
| `DefaultLimitsKept` | `agents/_solvers/types.ts:310`: a policy without rules has the default ones | `checkAssignment` and `validateFullGrid` take the default (`constraints.ts:79`); swaps, fills (`constraints.ts:374,378,406,424`) and the cyclic roster (`cyclic-roster.ts:154,482-487`) read the field as it is and enforce no limit | `MonthKnown.cfg` |
| `RepairKeepsCycle` | `agents/_solvers/cyclic-roster.ts:758`: a repair must not make a block of work longer than the policy | it can, among others with the days carried over from last month | `MonthKnown.cfg` |
| `CountsKept` | `services/operatingPlanService.ts:49`: how many buses run is a policy, set by the numbers of the route | more buses of a route are left unmarked, and so run, than its numbers say | `GeneratedKnown.cfg` |
| `FillsPassInspection` | `services/publishInspectionService.ts:38`: a rule must bite in the generation and at the gate alike | fills allow runs of `MaxConsecutiveDays`, a constant of the code, the inspection those of the company | `GeneratedKnown.cfg` |
| `RestingBusesIdle` | `services/solverDispatchService.ts:886`: the marks agree with the assignments on the screen | where the cyclic roster did not choose the buses, those of the plan are marked, whatever the solver did with them | `GeneratedKnown.cfg` |
| `NoShortNights` | `packages/dispatch-engine/busync_engine/solver.py:361`: no morning after a late shift | the mains of the frame are fixed before | `EngineKnown.cfg` |
| `OffersRested` | `.../repair.py:138`: a candidate has had his night | the offer may give him a short night | `EngineKnown.cfg` |
| `AbsentNotOffered` | `.../repair.py:88`: the absent driver is never a candidate | who was reported absent from another seat of the date is offered | `EngineKnown.cfg` |
| `OffersHold` | `.../repair.py:210`: the candidate that is named is seated | the list is not made again when another repair has seated him on that date | `EngineKnown.cfg` |
| `RepairsLast` | `.../repair.py:10`, `service.py:62`: a repair changes the draft | in memory only: a restart, or twenty newer drafts, bring back the month as generated | `EngineKnown.cfg` |

### Bounds, and why they are enough

* **Substitute desk.**  The handlers look at one slot and its drop, except for the
  same-day and weekly counts: two slots suffice for those (`EmergencySameDay.cfg`), one
  for everything else.  Three drivers are a holder and two rivals; in `desk_sweeps`, where nobody competes for a shift, two are enough.
  All races described above need two requests in flight, or two sweeps; a third
  repeats a read-then-write window that two already open, and the theorems do not
  depend on the number.  `MaxTime` 2: not urgent yet, urgent or departed, past its
  date.  `MaxUrgent` 2 tells apart drops of which no, one and
  more broadcasts told somebody.  `MaxDays` 1: the weekly limit is at hand from the start.  `MaxFaults` 1: each property concerns what
  is left after one interruption, and the interrupted request may be anywhere.
* **Drafts.**  Two roster ids let a replacement, a copy and a second publication
  happen.  One date, one bus with two shifts and one with one: the same-bus and
  other-bus halves of every check.  A main driver, a spare and a name without an
  account are the three kinds the code tells apart.  `draft_races` keeps one cell of
  each bus, because its properties are about rosters as a whole.  The answers of the
  engine: both buses run, the second with a name nobody has registered; both run with
  a vacancy; the second rests.  `Abort` is unbounded.
* **Day-off requests.**  One driver, date and shift: every check is about a single
  triple of them.  Two requests for the date, and two handlers, of any kind.
* **Agents.**  Two servers, because a prompt is cached per process; one drop; one
  decision to override.  `MaxIterations` 2 and `MaxRetries` 1 are both limits with a
  step before them; two faults let a second one hit what takes up the work of the
  first.  A forced report is in `AgentKnown.cfg` only.
* **Sessions.**  Two browser requests that share a page, and a phone; four tokens, which
  is a session, its successor and that one's, and another session; two calls at once;
  three sign-ins and sign-outs, expiries, revocations, failures or old tokens written
  back (`MaxEvents`).
* **Driver app.**  Two writes, which is what an order needs; two runs of
  `processQueue`; one loss of the network, kill or change of driver; `MaxRetry` 2.
* **Monthly solver.**  Five days: a weekend, and a Sunday that starts a new week.
  Three buses, two of one route; six drivers, of whom some are spares, on leave,
  without a licence from some date on, new or known from last month.  259 initial
  states: one and two shifts, crews of one and two, alternating days, a request that
  is thrown out.  Two moves of the local search (`MaxMoves`): one may undo what the
  other did.
* **Generation.**  19 companies and five calendars (constant, fewer at the weekend, a
  holiday in between, more on a Saturday).  Runs of three days at most instead of six,
  so that the limit bites within five days.  The local search is off (`MaxMoves` 0):
  the fill sees the seats, and `MonthGrid` covers how they come about.
* **Engine.**  Two days of work and one of rest, four days after seven known ones, so
  that the cycle turns over inside the month and before it.  Two depots of one route,
  two buses with two drivers each, one bus with one, a spare.  Every frame where the
  month is the frame's alone; some where the rest is searched; the office's calls on
  a few of these.  The constraint search may return any assignment that keeps its
  hard constraints: costs are left out, so what holds does not depend on them.

`draft_races`, `leave_reviews` and `sessions` use symmetry, over ids, requests and
handlers that no property of these runs distinguishes.  No run with a liveness
property does.

`CHECK_DEADLOCK FALSE` stands in every configuration: requests need not come, the
clock stops at its bound, and a finished month has no successor, so a state without
a successor is legal.

### Fairness

Nothing is assumed of people: no driver has to accept, no office has to act.

`EmergencyDrops` assumes

* weak fairness of `Continue(h)`: a statement in flight returns, with a result or an
  error;
* strong fairness, per slot, of `ExpireRead` and of `D2Read` by some sweep: the
  timer of `index.ts` runs every ten minutes, a tick queries every drop that is due
  and visits each of them in turn, and one that throws is logged and the loop goes
  on.  Strong, because what takes the sweeps away in between are only their own
  visits to other drops, and a tick starts whether or not another still runs.

Time itself may stop.  With the agent on there is no sweep, and no liveness is
claimed.

`AgentDesk` assumes that timers fire (`BatchTick`, `BatchNext`, `ReportTick`), that a
call returns, well or badly (`Continue`), and that the entry of a cache ages
(`Expire`).

`DriverApp` assumes that an await returns (`Step`) and nothing of the network:
`startQueueListener` subscribes to NetInfo, which reports changes and need not report
again while a connection stays up.  `QueueDrains` therefore has a condition of its own,
that connections are reported again and again.

What is promised holds in spite of finitely many faults: nothing can be promised of
a database, a network or a model that fails for ever.

## What is proved

The theorems hold for every value of the constants that satisfies the named
assumptions: any number of drivers, slots, rosters, requests, servers and days, any
clock, any company.  Each proof is in a module of its own and refers to the same
definitions the runs check.

### `EmergencyDropsProofs`

Assumptions: `RosterAssumption` (the constants have the right types; handlers and
sweeps are disjoint) and `BoundAssumption`.

`SlotAgreesWithDrop` is not inductive: a handler in flight may be about to write
whatever it remembers.  `RowInv` adds what it may remember:

* `RequestsNameRows`: a handler at a statement names a slot, and one about to
  claim names a driver;
* `RowsNameUsers`: rows name a user wherever their status says there is one;
* `CreateHoldsOwner`: a creation about to commit on a slot that exists remembers
  the driver who holds it, or who dropped it if it has a drop by now, unless he
  has been deleted since.  This is what makes a creation safe although it
  re-checks nothing: whoever takes a slot does so through a drop, which the
  unique `slotId` rejects, and a deleted driver is rejected by his foreign key.

| Theorem | States |
|---|---|
| `TypeCorrect` | `TypeOK` always |
| `SlotsAgreeWithDrops` | `SlotAgreesWithDrop` always, agent on or off |
| `VacanciesAreOpen` | `NoOrphanedVacancy` always |
| `NoDanglingUser` | rows name users who exist |
| `LevelFollowsBroadcast` | `RaisedOnlyAfterBroadcast` always |
| `DeskImplementsShiftCover` | with `AgentEnabled = FALSE`, `SafetySpec` implies `ShiftsCovered` |

`LevelFollowsBroadcast` rests on `BroadcastInv`, which adds that ids are issued in
order (a remembered id is not newer than the sequence, so it never names a drop
created later) and that a handler about to raise the level of a living drop
follows a broadcast that ran.  Whether that broadcast told anybody is not part of it: it
may have had no route, nobody to ask, or failed notifications.  The refinement maps each
action to a step of `ShiftCover` or a stutter, and uses that no `record_acceptance` is
in flight.

### `DraftRosterProofs`

Assumptions: `CalendarAssumption`, with finitely many requests and timers (so that
a fresh row id exists), and the typing part of `AnswerAssumption`.

`RosterInv` is `TypeOK`, `OnePublished`, `NothingOfGoneRosters` and `Aimed` of every
request: a handler past its first read has a roster, and one that edits a cell has
a cell.  Every table action is reduced to one of a few lemmas about its effect
(`Lay`, rows of one roster, pattern, notes), every reading action to one lemma
about `req`.

| Theorem | States |
|---|---|
| `TypeCorrect` | `TypeOK` always |
| `OnePublication` | `OnePublished` always |
| `NothingOutlivesItsRoster` | `NothingOfGoneRosters` always |
| `StaleByAnothersWrite` | `Sure(h)` stays true, unless another handler writes to the same roster |
| `GateFailsByStaleOnly` | a published roster stops being `Passed` only by the write of a handler that is not `Sure` |
| `FrozenButForStale` | the slots and resting buses of a published roster change only so |
| `FillsAreFree` | a fill that is `Sure` gives nobody a second shift of a date |

The gate, the freeze and the fills fail where two requests on one draft overlap
(`DraftGate.cfg`), because no handler reads the status of its roster again before it
writes, and no lock keeps the second out.  The last four theorems assume none: they
hold of every behaviour, with any number of requests and timers on the same roster, and
say that the overlap is the only way.  `Sure(h)` says that what handler `h` has read is
still so: its roster is a draft (`AtWork`), the plan of a fill books free drivers
(`FreePlan`), a publication past a check has passed it.  `Passed(k)` says that roster `k`
would pass the gate, or was published over its objections.  So a publication with a
double or an unstaffed cell, a change after it and a double booking of a fill each need
a write by another handler between the reading and the writing of this one: neither
edits before the request, nor other rosters, failures half-way (`Abort`) or
registrations bring them about.  What the run `DraftOffice.cfg` checks of one request at
a time is the case in which nobody can write in between.

`Elsewhere` shows that a step changes the roster of its own handler only, `SureWrite`
that a handler's own writes leave it sure, `GateHolds` that the last step of
`publishSchedule` publishes what the gate has seen, `FillsByPlan` that fills write their
plan, and `NobodysStep` that a registration changes none of it.

### `LeaveDeskProofs`

Assumption: `LeaveAssumption` (types; every applicant is a driver).

`LeaveHonoured` is about a review and a publication that pass each other, so its
strengthening `IInv` says what a handler has read by each of its statements, and that
it still holds unless the handler met another that writes it: `HandlersInv`, one
clause per kind of request, and `MetInv`, which says that two such handlers know of
each other.  Of the tables it adds that only a cancelled drop gives a shift back
(`DropsTakeShifts`), that a published roster passed its inspection unless it was
forced (`Inspected`), and that an undecided request was never reviewed (`Pristine`).

| Theorem | States |
|---|---|
| `Typed` | `TypeOK` always |
| `OneRequestADay` | `OneRequestPerDay` always |
| `DropsApproved` | `DropHasApproval` always |
| `LeaveIsHonoured` | `LeaveHonoured` always |
| `DecisionsStand` | `DecisionStands` |

### `SessionsProofs`

Assumption: `SessionAssumption` (types of the tables that say who belongs to whom).

`TokenInv` relates the rows to what a call has read of them: which token it holds,
that what a revocation has in its snapshot was a token, that a rotation's lock is its
own, and that the good token of a family that has ended is gone.  `TabsInv`
says that a page which refreshes has a request doing so, and that only then
requests wait; both are needed because calls are in flight on either side.

`DevicesInv` is the argument that nobody is logged out for nothing.  A session is
`Spoiled` when there is a cause to give it up (expired, ended, the user deactivated or
deleted), which is never taken back (`Onward`), and a token `Sound` when it is good or
spoiled.  `Apart`: no token is on two devices, so only a device's own rotation can use
its token up; `Holds` counts the copies that pages have in memory (`InPage`) too.  A
device is disturbed when an answer to it was lost, two of its refreshes or sign-ins
crossed, or a page wrote back tokens that the store had newer ones of.  For one that is
not, `Sole`: one call or one outcome to store at a time; `StoreOk`: the stored token is sound, or its successor is
in an answer or being saved; `CallOk`: a refresh that is served carries the stored
token, and is refused only if the session is spoiled; `ReqOk`: what the phone is about
to save is sound, and it empties its store only of a spoiled session.  The statements of the
server are steps of one call (`CallStep`), those of the clients of one device
(`OneDevice`); every other device sees tokens that endure (`FarStep`).

| Theorem | States |
|---|---|
| `Columns` | `TypeOK` always |
| `SessionsAreSingle` | `OneLivePerFamily` always |
| `EndedForGood` | `EndedStaysEnded` always |
| `NobodyIsParked` | `NoneParked` always |
| `NobodyLoggedOutForNothing` | `NoCauselessLogout` |

### `AgentDeskProofs`

Assumption: `AgentAssumption`.  `IInv` adds to `KnowsOverrides` that what the office was
told is stored (`ToldStored`), that a run about to cache has read every override of
its server, unless one came in meanwhile or the reading failed (`ReadAll`), and that
the cached prompts have them (`CacheTold`).  Theorem `OverridesAreKnown`.

### `DriverAppProofs`

Assumption: `AppAssumption` (`MaxRetry` is a positive number, `MaxEvents` a number).

The offline queue lives in one storage key, which a failed write, a run of
`processQueue` and a crash each read and write back whole.  The model records in
`excused` the actions behind which an answer was lost, the app was killed in the middle of
a run, or two readings and savings overlapped; the properties speak of the others.  For these `HandsInv` compares
what is stored with what a run has in its hands, its batch and what it keeps: the run
holds nothing that is not stored, what is stored is in its hands or over, and two
runs share nothing.  So whichever replaces the other loses and repeats nothing.
`UnappliedInv` says that what is stored or held has not been applied, `OrderInv` that
the queue, the batch and what is kept are each in the order of acceptance and what is
kept is ahead of the batch, `TriedInv` that what is kept has been posted, `SoundInv`
that the queues hold accepted actions with the tries the server saw, `FreshInv` that an
action not yet accepted has left no trace, `RunShape` where a run stands.

| Theorem | States |
|---|---|
| `TypesHold` | `TypeOK` always |
| `AcceptedKept` | `AcceptedIsKept` always |
| `AppliedAtMostOnce` | `AppliedOnce` always |
| `FirstPostsInOrder` | `PostedInOrder` always |

### `GeneratedDraftProofs`

The module has two parts: the monthly solver alone, and the generation around it.

The solver assumes `BookAssumption` (the company is well formed); the limits of the
cyclic roster also need `TwoShiftAssumption` (two shifts are the morning and the afternoon,
`types.ts:206`) and `HomeBusAssumption` (a driver is in one crew, once: the crews are
the drivers grouped by home bus, `solverDispatchService.ts:615-632`).  One lemma per way to
seat a driver says what the seat leaves true.  The code keeps each seat twice, in the list
of slots and with its driver; that the two agree is an invariant, `BooksAgree`, on
which the others rest.

| Theorem | States |
|---|---|
| `RulesAlwaysHeld` | `RulesHeld` always: the checks of a seat, and the limits a company states |
| `RunsAlwaysBounded` | outside the cyclic roster no run of work days is longer than the cycle, carried-over days included |
| `BooksAlwaysAgree` | `BooksAgree` always |
| `RestsAlwaysWhole` | a rest of the rest plan has its full length unless the month ends |
| `RhythmAlwaysKept` | `RhythmKept` always |
| `SearchIsHarmless` | `SearchNeverHarms` |
| `CyclicAlwaysWithin` | `CyclicLimits` always |

For the cyclic roster `RosterInv` follows a limit through all its stages.  While the
lines are drawn it is a fact about each line (`LineSound`): the run a line carries is
at least as long as the one its days end in, so that no block is more than a day longer
than the cycle's, and its days are within the month's limit; that holds for a line that
starts in mid-block too, whatever the month before (`StartsSound`), and whoever is called
(`TodaysSound`).  When the plan is confirmed it passes to the drivers: all a driver's seats
are on the days of one unit, one seat a day (`OneUnit`), since nobody is in two units
(`OneMembership`), the two members of a unit are on opposite shifts (`SidesTurn`) and no
two buses of a day have the same turn (`FrontsDiffer`).  A repair then
keeps it (`RepairWithin`).

The generation assumes `GenerationAssumption` as well (it does not take buses out of
operation by itself).  `GenerationSolves` shows that a generation implements
`MonthGrid` between its plan and its fills, so that the rules above carry over
(`GeneratedByTheRules`).  `FillInv` says what the fill has passed and what it still has
before it; `FillsOut` that the rows are the seats and the fills.

| Theorem | States |
|---|---|
| `GenerationSolves` | `GenSpec` implies `Spec` of `MonthGrid` |
| `GeneratedByTheRules` | `RulesHeld` and `BooksAgree` always |
| `FillsAlwaysSafe` | `FillIsSafe` always |
| `FillsAllItCan` | `NothingLeftToFill` always |
| `CyclicBusesRest` | in the cyclic roster nobody is on a bus marked as resting |
| `RestsAlwaysRotate` | `RestsRotate` always |

That the buses of a route rest in turn is an argument about a cursor that goes round.
`RestInv` is inductive:

* `BlocksGoOn`: the blocks that go on today are those of the buses that began yesterday,
  so a block is two days long unless the number of resting buses falls (`TwoDays`).
* `AsManyRest`: every day written has the number asked for.  `RestingCounted` adds
  those who go on to those who start and takes off those called back; each of the
  three is counted by rank (`Ranked`: the place of a bus among others with distinct
  keys is a bijection onto an interval from 0).
* `InTurn`, for a route whose number stays the same: each bus has had `q` blocks, those
  the cursor has passed one more (`Turns`).  After a day of new blocks the cursor may
  stand at a place lower than before, and then `q` goes up; that it never passes a
  bus twice is `CursorGoesOn`, and `Wrapped` says that a block that goes on behind the
  cursor went round with those in front of it, or the difference would be two blocks.

### `EngineDeskProofs`

Assumptions, each of them what `generate.py` sees to before it starts:

* `CycleAssumption`: the cycle and the two months have at least a day each.
* `FleetAssumption`: a bus is in one group, once, because `vehicle_group` maps a bus to
  its group (`generate.py:416`), and a group has a bus, or `step % n` (`generate.py:349`)
  would divide by zero.
* `CrewAssumption`: a main driver's bus is one of the month (`generate.py:247`), and
  whoever is not registered is no main (`generate.py:256-262`).  Its last clauses say
  what `MainsOf` returns, the mains of a bus, each once: the drivers of a bus are the
  keys of a dictionary (`frame.py:355-357`).  That holds by the definition of
  `SelectSeq`, whose recursion the provers cannot unfold; TLC evaluates it in the run.
* `PhaseAssumption`: `Null` is no phase.
* `RequestAssumption`: the cap on runs is a number of days, a pointer a number of
  buses, a staircase starts at a whole day, and what is registered for a kind of day,
  under the name of a route or of a depot, is a number of buses or nothing (`_split` takes
  a negative one for none, `generate.py:78`).  `CountAssumption`: nothing is no number.
* `RouteAssumption`: the list of groups has every group once (the backend sends the entries
  of a map by group name, `engineScheduleService.ts:486-518`), so the groups of a route
  are listed once.  As with `MainsOf`,
  this is what `SelectSeq` returns, and TLC evaluates it in the run.

`DeskInv` is what the proofs rest on.  Of the frame it says that phases are numbers and
that of two drivers of one bus one leads (`FrameOK`), which holds of whatever
`estimate_anchor` makes of any last month (`EstimateOK`); of the problem that the
frame's drivers are fixed in their own seats, pinned, and that the others of the frame
are off (`LaidOut`); of the dates assigned so far what the constraints gave them
(`Audited`: nobody twice or on leave, the pinned as in the frame, everybody else within
the cap and without a short night); of the candidates on the screen that those named
since the last change still qualify in the draft as it is (`OffersInv`).

* *The search.*  Whether a date can be assigned asks for an assignment, so the proof
  names one: the frame's seats and nobody else (`FrameAssigned`).  `FrameKeepsRules`
  goes through the constraints.  Runs, nights and swaps bind only those who are not
  pinned; what is left is that the partners of a bus work together unless one is on
  leave, and never on one shift.  That no spare is needed is why the month is never
  INFEASIBLE, whatever the days before look like.
* *The audit.*  `AuditIsClean` compares the audit's own count with the constraints.  For
  the pinned it needs that a bus stays on one shift for a whole block of work
  (`SameBlock`), so that the frame has no short night by itself.  That rests on the
  arithmetic of the cycle for a length that is a constant: quotients and remainders are
  built from `QuotientUnique`, for the provers know them for numerals only.
* *The candidates.*  `suggest_repair` counts a run across the date in both directions
  (`RunWith`), the audit from its end; `RunCounts` shows that a run too long for the
  audit is too long for him.
* *The yards.*  Buses whose pairs rest are taken first (`PrefixFits`), the others by the
  pointer, which meets every bus of the depot and adds as many as are missing, no more
  (`WalkMeetsAll`, `FilledExactly`).
* *The shares.*  `_split` rounds each depot's share down and gives what is left to the
  largest remainders.  What is left is at most a bus for each depot (`GivenFits`), the
  depots that get one are exactly as many (`MoreCounted`), and a depot whose share is
  already all its buses gets none, so the shares add up to the count and fit
  (`SplitShares`, `SharesFit`).  That speaks of sums over any number of depots, which the
  code and the model make with a fold; `FoldSums` shows by induction over sets of
  depots that the order of the fold does not matter, and `PartsCounted` that the sum of
  the parts is the number of buses of the route (`RouteCount`).  A depot with a count
  under its own name takes that (`OneShare`, `DepotCount`), and all its buses run where
  nothing is registered (`AllRun`).
* *The frame of last month.*  Here the theorem has a hypothesis, for `estimate_anchor`
  only sees who worked: if nobody had come, any phase would score.  `MissedFew` asks that
  the two drivers of each bus missed fewer days together than two for each whole cycle
  of last month: fewer than eight days of a month of thirty, with five days of work and
  two of rest, fewer than four in the run, whose requests miss one or two.  A phase that is
  no half cycle away from the true one differs from it on two days of every cycle
  (`PhasesDisagree`, `ApartCounts`), on each of which both drivers lose both points
  (`WrongScore`); a missed day costs the true phase two points and may give the other
  two (`RightScore`).  So the best phase of every bus is the true one or the one half a
  cycle away (`FoundIsRight`), which rests on the same days.  Then a staircase that is
  neither has no vote, and the one chosen has one (`BaseIsRight`).  Which of the two it is
  nobody knows, and that is why `FrameRecovered` fails: the shifts may be exchanged.

| Theorem | States |
|---|---|
| `DeskInvHolds` | `DeskInv` always |
| `SearchNeverStuck` | `Solvable` always |
| `AuditFindsFrame` | `AuditBlamesFrame` always |
| `CandidatesStand` | `OffersStand` always |
| `CutsAreRight` | `CutsAsRegistered` always |
| `RestsGoOn` | `RestsContinue` always, if few days of last month were missed (`MissedFew`) |

### Only model-checked

* Liveness: `DepartedDropSettles`, `UrgentDropBroadcast`, `OverridesLearned`,
  `EverythingTried`, `QueueDrains`.  Fairness and `ENABLED` are out of the prover's reach.

## Not modelled, and seen on the way

Parts without a module are listed under *Inventory* with the reason.  By lines most
of them are pages of the two clients, listings and statistics, workbook formats,
texts for the language model and plain records: code that decides nothing about the
rows other parts depend on.  The map covers a tenth of the implementation.

Behaviour of modelled parts that no property states, in words:

* **Sessions.**  The comment at `controllers/authController.ts:157` says all of a
  user's refresh tokens are deleted when one is used again; the code only refuses.  A
  request of the phone that fails while `fullLogout` awaits is parked after the queue
  was emptied and never answered.  Two tabs that refresh one token log each other out.
  Changing a password does not end sessions.
* **One-time codes.**  The attempt counter (`authController.ts:426`) is read and written
  back in READ COMMITTED: two answers at once count as one.  Not modelled.
* **Driver app.**  A queue is posted under the account that is signed in then.
* **Agents.**  When the reading of overrides fails the base prompt is cached; with the
  agent on, departed drops are never expired, so the batch takes them up every ten
  minutes; an event run and a batch run of one drop may overlap.
* **Monthly solver.**  Night streaks and the weekly limit do not look across the month
  boundary; the staircase of the spares starts again each month; the phase may go
  negative by JavaScript's remainder; a date on which no bus of a route runs counts as
  demand without limit; `partnerOf` is computed and not used; the number of rests a date
  allows (`cyclic-roster.ts:428`) is not exactly the formula in its comment.
* **Generation.**  The fill does not look at licences, leave, weekly limits or weekends;
  companies with one shift or alternating days get morning and afternoon fills on
  buses meant to stand; the plan is built without the service type.
* **Engine.**  Costs, fairness weights and the import of workbooks are left out: the
  model's search may return anything that keeps the hard constraints.

## What is left

In this order: one-time codes and the policy column (two small read-modify-write
modules); attendance from two devices; registration and the onboarding import.

## Running

    tlc -workers 2 -config DraftOffice.cfg MCDraftRoster
    tlapm EmergencyDropsProofs.tla

and so on for the runs in `PROJECT.json` and the eight proof modules, which have
between 281 (`AgentDeskProofs`) and 5025 (`EngineDeskProofs`) obligations; each takes
from half a minute to several minutes from nothing.
