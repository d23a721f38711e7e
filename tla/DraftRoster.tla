----------------------------- MODULE DraftRoster -----------------------------
(***************************************************************************)
(* The rosters of one month and one service type while they are drafts:    *)
(* every handler, timer and agent tool that writes Schedule, ScheduleSlot  *)
(* or SchedulePattern before the publication, and the publication itself.  *)
(*                                                                         *)
(* Each handler reads the status of its roster once, awaits, and writes    *)
(* later by id; nothing reads the status again.  A statement is a step, a  *)
(* transaction that only writes is one step.  ScheduleSlot has a unique    *)
(* key (scheduleId, date, busId, shift), so the rows of a roster are a     *)
(* function of its cells.  What the engine and the solver answer is chosen *)
(* from Answers.                                                           *)
(***************************************************************************)
EXTENDS Integers, FiniteSets

CONSTANTS
    Rosters,     \* ids of Schedule rows
    Cells,       \* a bus, a date and a shift
    BusDays,     \* a bus and a date
    BusDay,      \* cell -> the bus and the date it belongs to
    DateOf,      \* bus and date -> the date
    Drivers,     \* names of drivers in files, and accounts once registered
    Spares,      \* drivers with driverType SPARE
    Registered,  \* drivers with an account at first
    Answers,     \* what the engine and the solver may answer
    Laid,        \* rosters that exist at first, as machine-made drafts
    Editors,     \* requests of the office and agent tool calls in flight
    Ticks,       \* daily timers that lay the base frame
    Operations,  \* which requests this instance makes
    MaxDrafts,   \* the limit of drafts per month, 5 in the code
    Null

ASSUME CalendarAssumption ==
    /\ BusDay \in [Cells -> BusDays]
    /\ Null \notin Drivers \cup Rosters \cup Cells
    /\ Spares \subseteq Drivers
    /\ Registered \subseteq Drivers
    /\ Laid \subseteq Rosters
    /\ Editors \cap Ticks = {}
    /\ IsFiniteSet(Editors) /\ IsFiniteSet(Ticks)
    /\ MaxDrafts \in Nat

\* A driver or nobody, for each cell.
Plans == [Cells -> Drivers \cup {Null}]

Blank == [c \in Cells |-> Null]

SameDate(c, e) == DateOf[BusDay[c]] = DateOf[BusDay[e]]

\* Nobody has two shifts on one date.
SingleShifts(p) ==
    \A c, e \in Cells : c # e /\ p[c] = p[e] /\ p[c] # Null => ~SameDate(c, e)

\* The engine and the solver give nobody two shifts on one date.  They may give
\* somebody a bus that rests: a generation marks the resting buses of its own
\* operating plan, of which the grid solver knows nothing.
ASSUME AnswerAssumption ==
    \A a \in Answers :
        /\ a.plan \in Plans
        /\ a.buses \subseteq BusDays
        /\ SingleShifts(a.plan)

VARIABLES
    roster,      \* Schedule rows: status and name
    row,         \* ScheduleSlot rows of a roster, by cell
    pattern,     \* SchedulePattern rows of a roster: operating, or no row
    pending,     \* unmatchedCells in the notes: names without an account
    registered,  \* drivers with an account
    forced,      \* rosters published over the objections of the gate
    touched,     \* rosters the office has changed by hand (history)
    req          \* what each handler in flight has read so far

vars == <<roster, row, pattern, pending, registered, forced, touched, req>>

Handlers == Editors \cup Ticks

-----------------------------------------------------------------------------
(* Rows *)

\* BASE_FRAME_NAME, a name the office types, a name the code makes unique.
Names == {"frame", "draft", "copy"}

NoRoster == [status |-> "NONE", name |-> "copy"]

NoRow == [driver |-> Null, manual |-> FALSE, id |-> 0]

NoIds == [c \in Cells |-> 0]

Idle == [pc |-> "idle", k |-> Null, c |-> Null, drv |-> Null, flag |-> FALSE,
         ids |-> NoIds, plan |-> Blank, names |-> Blank,
         buses |-> {}, marks |-> {}, name |-> "copy"]

Exists(k) == roster[k].status # "NONE"

IsDraft(k) == roster[k].status = "DRAFT"

DriverOf(k) == [c \in Cells |-> row[k][c].driver]

Filled(k, c) == row[k][c] # NoRow

\* WHERE id = ... still finds the row a handler read.
Holds(k, c, id) == Filled(k, c) /\ row[k][c].id = id

\* The id of a row created now: one that no handler in flight remembers.
FreshId(k, c) ==
    CHOOSE i \in 1 .. Cardinality(Handlers) + 1 :
        \A h \in Handlers : req[h].k = k => req[h].ids[c] # i

NewRow(k, c, d, manual) == [driver |-> d, manual |-> manual, id |-> FreshId(k, c)]

\* The id of a roster created by h: unused, and remembered by nobody else.
FreshRoster(k, h) ==
    /\ ~Exists(k) \/ k = req[h].k
    /\ \A g \in Handlers \ {h} : req[g].k # k

\* The rows of k with those of a plan added to them.
With(k, plan, marks) ==
    [c \in Cells |-> IF plan[c] = Null THEN row[k][c] ELSE NewRow(k, c, plan[c], c \in marks)]

\* d works somewhere on the date of c.
Busy(k, c, d) == \E e \in Cells : SameDate(c, e) /\ Filled(k, e) /\ row[k][e].driver = d

Drafts == {k \in Rosters : IsDraft(k)}

Published == {k \in Rosters : roster[k].status = "PUBLISHED"}

\* A company that uses patterns runs the buses marked as operating, one that
\* does not runs every bus that is not marked as resting.
OperatingCells(k) ==
    IF \E b \in BusDays : pattern[k][b] = "on"
      THEN {c \in Cells : pattern[k][BusDay[c]] = "on"}
      ELSE {c \in Cells : pattern[k][BusDay[c]] # "off"}

\* What a plan becomes among the accounts there are, and what is left over.
Matched(plan) == [c \in Cells |-> IF plan[c] \in registered THEN plan[c] ELSE Null]
Unmatched(plan) == [c \in Cells |-> IF plan[c] \in registered THEN Null ELSE plan[c]]

-----------------------------------------------------------------------------
(* A machine-made roster: the engine records every bus, the solver only     *)
(* those that rest.                                                         *)

EnginePattern(buses) == [b \in BusDays |-> IF b \in buses THEN "on" ELSE "off"]

SolverPattern(buses) == [b \in BusDays |-> IF b \in buses THEN "none" ELSE "off"]

MachineRow(d) == IF d \in Registered THEN [driver |-> d, manual |-> FALSE, id |-> 1] ELSE NoRow

Init ==
    \E a \in Answers, byEngine \in BOOLEAN :
        /\ roster = [k \in Rosters |->
               IF k \in Laid THEN [status |-> "DRAFT",
                                   name |-> IF byEngine THEN "frame" ELSE "copy"]
                             ELSE NoRoster]
        /\ row = [k \in Rosters |-> [c \in Cells |->
               IF k \in Laid THEN MachineRow(a.plan[c]) ELSE NoRow]]
        /\ pattern = [k \in Rosters |->
               IF k \notin Laid THEN [b \in BusDays |-> "none"]
               ELSE IF byEngine THEN EnginePattern(a.buses) ELSE SolverPattern(a.buses)]
        /\ pending = [k \in Rosters |-> [c \in Cells |->
               IF k \in Laid /\ byEngine /\ a.plan[c] \notin Registered THEN a.plan[c] ELSE Null]]
        /\ registered = Registered
        /\ forced = {}
        /\ touched = {}
        /\ req = [h \in Handlers |-> Idle]

-----------------------------------------------------------------------------
(* Steps of a handler *)

Request(pc, k) == [Idle EXCEPT !.pc = pc, !.k = k]

Starts(op, h) == op \in Operations /\ h \in Editors /\ req[h] = Idle

At(h, pc) == req[h].pc = pc

Become(h, r) == req' = [req EXCEPT ![h] = r]

Goto(h, pc) == req' = [req EXCEPT ![h].pc = pc]

Finish(h) == req' = [req EXCEPT ![h] = Idle]

Tables == <<roster, row, pattern, pending, registered, forced, touched>>

\* The rows of one roster change, or the statement is rejected and nothing does.
WriteRows(h, k, ok, rows, byHand) ==
    /\ row' = IF ok THEN [row EXCEPT ![k] = rows] ELSE row
    /\ touched' = IF ok /\ byHand THEN touched \cup {k} ELSE touched
    /\ Finish(h)
    /\ UNCHANGED <<roster, pattern, pending, registered, forced>>

-----------------------------------------------------------------------------
(* PUT /schedules/by-id/:id/cell : setCellDriver *)

\* A driver for the cell, or Null to clear it.
EditOpen(h, k, c, d) ==
    /\ Starts("edit", h)
    /\ IsDraft(k)
    /\ Become(h, [Request("editRead", k) EXCEPT !.c = c, !.drv = d])
    /\ UNCHANGED Tables

EditRead(h) ==
    LET c == req[h].c
    IN  /\ At(h, "editRead")
        /\ Become(h, [req[h] EXCEPT !.ids = [@ EXCEPT ![c] = row[req[h].k][c].id],
                                    !.pc = IF req[h].drv = Null THEN "editClear" ELSE "editEvict"])
        /\ UNCHANGED Tables

EditClear(h) ==
    LET k == req[h].k
        c == req[h].c
    IN  /\ At(h, "editClear")
        /\ WriteRows(h, k, Holds(k, c, req[h].ids[c]), [row[k] EXCEPT ![c] = NoRow], TRUE)

\* The driver's other rows of the date, except those on the same bus.
Evicted(k, c, d) ==
    {e \in Cells : SameDate(c, e) /\ BusDay[e] # BusDay[c] /\ row[k][e].driver = d}

EditEvict(h) ==
    LET k == req[h].k
        gone == Evicted(k, req[h].c, req[h].drv)
    IN  /\ At(h, "editEvict")
        /\ row' = [row EXCEPT ![k] = [e \in Cells |-> IF e \in gone THEN NoRow ELSE row[k][e]]]
        /\ touched' = IF gone = {} THEN touched ELSE touched \cup {k}
        /\ Goto(h, "putCell")
        /\ UNCHANGED <<roster, pattern, pending, registered, forced>>

\* Update the row that was there, or create the one that was not.
PutCell(h) ==
    LET k == req[h].k
        c == req[h].c
        id == req[h].ids[c]
        ok == IF id = 0 THEN Exists(k) /\ ~Filled(k, c) ELSE Holds(k, c, id)
        new == IF id = 0 THEN NewRow(k, c, req[h].drv, TRUE)
                         ELSE [row[k][c] EXCEPT !.driver = req[h].drv, !.manual = TRUE]
    IN  /\ At(h, "putCell")
        /\ WriteRows(h, k, ok, [row[k] EXCEPT ![c] = new], TRUE)

-----------------------------------------------------------------------------
(* POST /schedules/slots, PUT /schedules/slots/:id (and /override), and the *)
(* tools modify_slot and swap_drivers                                       *)

AddOpen(h, k, c, d) ==
    /\ Starts("add", h)
    /\ IsDraft(k)
    /\ Become(h, [Request("addCheck", k) EXCEPT !.c = c, !.drv = d])
    /\ UNCHANGED Tables

AddCheck(h) ==
    /\ At(h, "addCheck")
    /\ IF Busy(req[h].k, req[h].c, req[h].drv) THEN Finish(h) ELSE Goto(h, "putCell")
    /\ UNCHANGED Tables

\* PUT leaves isManualOverride alone; the override and the tools set it.
UpdateOpen(h, k, c, d, manual) ==
    /\ Starts("update", h)
    /\ IsDraft(k) /\ Filled(k, c)
    /\ Become(h, [Request("update", k) EXCEPT !.plan = [Blank EXCEPT ![c] = d],
                                              !.ids = [NoIds EXCEPT ![c] = row[k][c].id],
                                              !.flag = manual])
    /\ UNCHANGED Tables

\* The drivers to exchange are those that were read.
SwapOpen(h, k, c, e) ==
    /\ Starts("swap", h)
    /\ IsDraft(k) /\ c # e /\ Filled(k, c) /\ Filled(k, e)
    /\ Become(h, [Request("update", k) EXCEPT
                     !.plan = [Blank EXCEPT ![c] = row[k][e].driver, ![e] = row[k][c].driver],
                     !.ids = [NoIds EXCEPT ![c] = row[k][c].id, ![e] = row[k][e].id],
                     !.flag = TRUE])
    /\ UNCHANGED Tables

UpdateRows(h) ==
    LET k == req[h].k
        cells == {c \in Cells : req[h].plan[c] # Null}
        new == [c \in Cells |->
                   IF c \in cells
                     THEN [row[k][c] EXCEPT !.driver = req[h].plan[c], !.manual = @ \/ req[h].flag]
                     ELSE row[k][c]]
    IN  /\ At(h, "update")
        /\ WriteRows(h, k, \A c \in cells : Holds(k, c, req[h].ids[c]), new, TRUE)

-----------------------------------------------------------------------------
(* PUT /schedules/by-id/:id/vehicle-off : setVehicleOff *)

OffOpen(h, k, c, off) ==
    /\ Starts("off", h)
    /\ IsDraft(k)
    /\ Become(h, [Request(IF off THEN "offRead" ELSE "offWrite", k) EXCEPT !.c = c, !.flag = off])
    /\ UNCHANGED Tables

\* A bus that still has a driver cannot rest.
OffRead(h) ==
    LET busy == \E e \in Cells : BusDay[e] = BusDay[req[h].c] /\ Filled(req[h].k, e)
    IN  /\ At(h, "offRead")
        /\ IF busy THEN Finish(h) ELSE Goto(h, "offWrite")
        /\ UNCHANGED Tables

OffWrite(h) ==
    LET k == req[h].k
    IN  /\ At(h, "offWrite")
        /\ IF Exists(k)
             THEN /\ pattern' = [pattern EXCEPT ![k][BusDay[req[h].c]] =
                                    IF req[h].flag THEN "off" ELSE "on"]
                  /\ touched' = touched \cup {k}
             ELSE UNCHANGED <<pattern, touched>>
        /\ Finish(h)
        /\ UNCHANGED <<roster, row, pending, registered, forced>>

-----------------------------------------------------------------------------
(* fillSpareSlots, fillVacancies, rematchUnmatchedCells *)

\* Mutant: a published roster may be filled.
SpareOpenAnyStatus(h, k) ==
    /\ Starts("spare", h)
    /\ Exists(k)
    /\ Become(h, Request("spareRead", k))
    /\ UNCHANGED Tables

SpareOpen(h, k) ==
    /\ Starts("spare", h)
    /\ IsDraft(k)
    /\ Become(h, Request("spareRead", k))
    /\ UNCHANGED Tables

\* Mutant: the drivers who work that day are not left out.
SpareReadIgnoringBusy(h, a) ==
    LET k == req[h].k
        Fits(c) == /\ a.plan[c] \in registered
                   /\ ~Filled(k, c)
                   /\ pattern[k][BusDay[c]] # "off"
    IN  /\ At(h, "spareRead")
        /\ Become(h, [req[h] EXCEPT !.pc = "insert",
                                    !.plan = [c \in Cells |-> IF Fits(c) THEN a.plan[c] ELSE Null]])
        /\ UNCHANGED Tables

\* The engine has answered: the cells of the answer that are empty, on buses
\* not marked as resting, for drivers not yet busy on the date.
SpareRead(h, a) ==
    LET k == req[h].k
        Fits(c) == /\ a.plan[c] \in registered
                   /\ ~Filled(k, c)
                   /\ pattern[k][BusDay[c]] # "off"
                   /\ ~Busy(k, c, a.plan[c])
    IN  /\ At(h, "spareRead")
        /\ Become(h, [req[h] EXCEPT !.pc = "insert",
                                    !.plan = [c \in Cells |-> IF Fits(c) THEN a.plan[c] ELSE Null]])
        /\ UNCHANGED Tables

\* createMany inserts every row or, when one of them violates a key, none.
Insertable(h) ==
    /\ Exists(req[h].k)
    /\ \A c \in Cells : req[h].plan[c] # Null => ~Filled(req[h].k, c)

Insert(h) ==
    LET k == req[h].k
    IN  /\ At(h, "insert")
        /\ WriteRows(h, k, Insertable(h), With(k, req[h].plan, {}), FALSE)

\* fillVacancies runs at the end of a generation, on the roster just created.
VacancyOpen(h) ==
    /\ At(h, "vacancyOpen")
    /\ IF IsDraft(req[h].k) THEN Goto(h, "vacancyRead") ELSE Finish(h)
    /\ UNCHANGED Tables

\* Free drivers for vacant operating cells, as many as the rules on rest allow.
VacancyRead(h, p) ==
    LET k == req[h].k
    IN  /\ At(h, "vacancyRead")
        /\ SingleShifts(p)
        /\ \A c \in Cells : p[c] # Null => /\ p[c] \in registered
                                           /\ c \in OperatingCells(k)
                                           /\ ~Filled(k, c)
                                           /\ ~Busy(k, c, p[c])
        /\ Become(h, [req[h] EXCEPT !.pc = "insertNew", !.plan = p])
        /\ UNCHANGED Tables

\* skipDuplicates: ON CONFLICT DO NOTHING.
InsertNew(h) ==
    LET k == req[h].k
        new == [c \in Cells |-> IF Filled(k, c) THEN Null ELSE req[h].plan[c]]
    IN  /\ At(h, "insertNew")
        /\ WriteRows(h, k, Exists(k), With(k, new, {}), FALSE)

RematchOpen(h, k) ==
    /\ Starts("rematch", h)
    /\ IsDraft(k)
    /\ pending[k] # Blank
    /\ Become(h, [Request("rematchRead", k) EXCEPT !.names = pending[k]])
    /\ UNCHANGED Tables

\* A name that has an account now leaves the list, also when its cell is taken
\* or the driver busy.  Of two cells of one name on a date the first wins.
RematchRead(h, p) ==
    LET k == req[h].k
        names == req[h].names
        Fits(c) == names[c] \in registered /\ ~Filled(k, c) /\ ~Busy(k, c, names[c])
    IN  /\ At(h, "rematchRead")
        /\ SingleShifts(p)
        /\ \A c \in Cells : p[c] # Null => Fits(c) /\ p[c] = names[c]
        /\ \A c \in Cells : Fits(c) /\ p[c] = Null =>
               \E e \in Cells \ {c} : p[e] = names[c] /\ SameDate(c, e)
        /\ Become(h, [req[h] EXCEPT !.pc = "rematchWrite", !.plan = p,
                                    !.names = Unmatched(names)])
        /\ UNCHANGED Tables

\* The rows and the names still without an account, in one transaction.
RematchWrite(h) ==
    LET k == req[h].k
    IN  /\ At(h, "rematchWrite")
        /\ pending' = IF Insertable(h) THEN [pending EXCEPT ![k] = req[h].names] ELSE pending
        /\ row' = IF Insertable(h) THEN [row EXCEPT ![k] = With(k, req[h].plan, {})] ELSE row
        /\ Finish(h)
        /\ UNCHANGED <<roster, pattern, registered, forced, touched>>

-----------------------------------------------------------------------------
(* PUT /schedules/:year/:month/publish : publishSchedule *)

PublishOpen(h, k, force) ==
    /\ Starts("publish", h)
    /\ IsDraft(k)
    /\ Become(h, [Request("pubOther", k) EXCEPT !.flag = force])
    /\ UNCHANGED Tables

PublishOther(h) ==
    /\ At(h, "pubOther")
    /\ IF Published = {} THEN Goto(h, "pubDups") ELSE Finish(h)
    /\ UNCHANGED Tables

\* Mutant: the driver is looked for on the same bus only.
PublishDupsOnBus(h) ==
    LET p == DriverOf(req[h].k)
        twice == \E c, e \in Cells : c # e /\ BusDay[c] = BusDay[e] /\ p[c] = p[e] /\ p[c] # Null
    IN  /\ At(h, "pubDups")
        /\ IF req[h].flag \/ ~twice THEN Goto(h, "pubInspect") ELSE Finish(h)
        /\ UNCHANGED Tables

\* The same driver twice on one date.
PublishDups(h) ==
    /\ At(h, "pubDups")
    /\ IF req[h].flag \/ SingleShifts(DriverOf(req[h].k)) THEN Goto(h, "pubInspect") ELSE Finish(h)
    /\ UNCHANGED Tables

\* Rule E2 of the inspection: an operating cell without a driver.
Staffed(k) == \A c \in OperatingCells(k) : Filled(k, c)

\* Mutant: only buses with a pattern are inspected.
PublishInspectPatterns(h) ==
    LET k == req[h].k
        staffed == \A c \in Cells : pattern[k][BusDay[c]] = "on" => Filled(k, c)
    IN  /\ At(h, "pubInspect")
        /\ IF req[h].flag \/ staffed THEN Goto(h, "pubWrite") ELSE Finish(h)
        /\ UNCHANGED Tables

PublishInspect(h) ==
    /\ At(h, "pubInspect")
    /\ IF req[h].flag \/ Staffed(req[h].k) THEN Goto(h, "pubWrite") ELSE Finish(h)
    /\ UNCHANGED Tables

\* Mutant: there is no unique index.
PublishWriteUnindexed(h) ==
    LET k == req[h].k
    IN  /\ At(h, "pubWrite")
        /\ roster' = IF Exists(k) THEN [roster EXCEPT ![k].status = "PUBLISHED"] ELSE roster
        /\ forced' = IF Exists(k) /\ req[h].flag THEN forced \cup {k} ELSE forced
        /\ Finish(h)
        /\ UNCHANGED <<row, pattern, pending, registered, touched>>

\* The partial unique index allows one published roster.
PublishWrite(h) ==
    LET k == req[h].k
        ok == Exists(k) /\ Published \subseteq {k}
    IN  /\ At(h, "pubWrite")
        /\ roster' = IF ok THEN [roster EXCEPT ![k].status = "PUBLISHED"] ELSE roster
        /\ forced' = IF ok /\ req[h].flag THEN forced \cup {k} ELSE forced
        /\ Finish(h)
        /\ UNCHANGED <<row, pattern, pending, registered, touched>>

-----------------------------------------------------------------------------
(* Whole rosters come and go *)

\* A new draft k with these rows; old, if any, goes in the same transaction.
Lay(k, old, name, plan, marks, pat, names) ==
    LET Other(f, none, new) ==
            [q \in Rosters |-> IF q = k THEN new ELSE IF q = old THEN none ELSE f[q]]
        rows == [c \in Cells |-> IF plan[c] = Null THEN NoRow ELSE
                    [driver |-> plan[c], manual |-> c \in marks, id |-> FreshId(k, c)]]
    IN  /\ roster' = Other(roster, NoRoster, [status |-> "DRAFT", name |-> name])
        /\ row' = Other(row, [c \in Cells |-> NoRow], rows)
        /\ pattern' = Other(pattern, [b \in BusDays |-> "none"], pat)
        /\ pending' = Other(pending, Blank, names)
        /\ forced' = forced \ {k, old}
        /\ touched' = touched \ {k, old}
        /\ UNCHANGED registered

\* The office saves an engine answer under a name, whatever it overwrites.
SaveOpen(h, n, a) ==
    /\ Starts("save", h)
    /\ n # "copy"
    /\ Become(h, [Request("saveFind", Null) EXCEPT
                     !.name = n, !.buses = a.buses,
                     !.plan = Matched(a.plan), !.names = Unmatched(a.plan)])
    /\ UNCHANGED Tables

\* The frame of the month may be laid (again): nothing is published, and the
\* frame that exists has no manual row and no spare driver.
TickCheck(h) ==
    /\ h \in Ticks
    /\ req[h] = Idle
    /\ Published = {}
    /\ LET frames == {k \in Drafts : roster[k].name = "frame"}
       IN  \/ frames = {}
           \/ \E k \in frames : \A c \in Cells : /\ ~row[k][c].manual
                                                 /\ row[k][c].driver \notin Spares
    /\ Become(h, Request("engine", Null))
    /\ UNCHANGED Tables

\* mains_only: the engine leaves the cells of spare drivers empty.
TickAnswer(h, a) ==
    LET mains == [c \in Cells |-> IF a.plan[c] \in Spares THEN Null ELSE a.plan[c]]
    IN  /\ At(h, "engine")
        /\ Become(h, [Request("saveFind", Null) EXCEPT
                         !.name = "frame", !.buses = a.buses,
                         !.plan = Matched(mains), !.names = Unmatched(mains)])
        /\ UNCHANGED Tables

\* findFirst of a draft of that name, inside the transaction.
SaveFind(h) ==
    LET found == {k \in Drafts : roster[k].name = req[h].name}
    IN  /\ At(h, "saveFind")
        /\ \E k \in IF found = {} THEN {Null} ELSE found :
               Become(h, [req[h] EXCEPT !.pc = "saveReplace", !.k = k])
        /\ UNCHANGED Tables

\* The draft that was found is deleted by its id and the new one created.
SaveReplace(h, k) ==
    /\ At(h, "saveReplace")
    /\ req[h].k # Null => Exists(req[h].k)
    /\ FreshRoster(k, h)
    /\ Lay(k, req[h].k, req[h].name, req[h].plan, {}, EnginePattern(req[h].buses), req[h].names)
    /\ Finish(h)

\* P2025: somebody else deleted it first.
SaveReject(h) ==
    /\ At(h, "saveReplace")
    /\ req[h].k # Null /\ ~Exists(req[h].k)
    /\ Finish(h)
    /\ UNCHANGED Tables

\* persistSolverOutput counts the drafts ...
GenerateOpen(h, a) ==
    /\ Starts("generate", h)
    /\ Cardinality(Drafts) < MaxDrafts
    /\ Become(h, [Request("create", Null) EXCEPT
                     !.plan = Matched(a.plan), !.buses = a.buses, !.flag = TRUE])
    /\ UNCHANGED Tables

\* duplicateSchedule reads the rows and the notes, not the patterns ...
DuplicateOpen(h, k) ==
    /\ Starts("duplicate", h)
    /\ Exists(k)
    /\ Become(h, [Request("dupCount", Null) EXCEPT
                     !.plan = DriverOf(k), !.names = pending[k],
                     !.marks = {c \in Cells : row[k][c].manual}])
    /\ UNCHANGED Tables

DuplicateCount(h) ==
    /\ At(h, "dupCount")
    /\ IF Cardinality(Drafts) < MaxDrafts THEN Goto(h, "create") ELSE Finish(h)
    /\ UNCHANGED Tables

\* ... and create another one.  A generation goes on with its resting buses.
Create(h, k) ==
    /\ At(h, "create")
    /\ FreshRoster(k, h)
    /\ Lay(k, Null, "copy", req[h].plan, req[h].marks, [b \in BusDays |-> "none"], req[h].names)
    /\ IF req[h].flag
         THEN Become(h, [Request("rest", k) EXCEPT !.buses = req[h].buses])
         ELSE Finish(h)

\* persistRestingVehicles: rows that are already there are kept.
Rest(h) ==
    LET k == req[h].k
        off == {b \in BusDays \ req[h].buses : pattern[k][b] = "none"}
    IN  /\ At(h, "rest")
        /\ IF Exists(k) \/ req[h].buses = BusDays
             THEN /\ pattern' = [pattern EXCEPT ![k] =
                                    [b \in BusDays |-> IF b \in off THEN "off" ELSE pattern[k][b]]]
                  /\ Become(h, Request("vacancyOpen", k))
             ELSE UNCHANGED pattern /\ Finish(h)
        /\ UNCHANGED <<roster, row, pending, registered, forced, touched>>

DeleteOpen(h, k) ==
    /\ Starts("delete", h)
    /\ Exists(k)
    /\ Become(h, Request("delete", k))
    /\ UNCHANGED Tables

\* Mutant: the slots are left to a cascade that does not exist.
DeleteKeepsRows(h) ==
    LET k == req[h].k
    IN  /\ At(h, "delete")
        /\ roster' = [roster EXCEPT ![k] = NoRoster]
        /\ pattern' = [pattern EXCEPT ![k] = [b \in BusDays |-> "none"]]
        /\ pending' = [pending EXCEPT ![k] = Blank]
        /\ forced' = forced \ {k}
        /\ touched' = touched \ {k}
        /\ Finish(h)
        /\ UNCHANGED <<row, registered>>

\* Drafts and published rosters alike, with their rows.
Delete(h) ==
    LET k == req[h].k
    IN  /\ At(h, "delete")
        /\ roster' = [roster EXCEPT ![k] = NoRoster]
        /\ row' = [row EXCEPT ![k] = [c \in Cells |-> NoRow]]
        /\ pattern' = [pattern EXCEPT ![k] = [b \in BusDays |-> "none"]]
        /\ pending' = [pending EXCEPT ![k] = Blank]
        /\ forced' = forced \ {k}
        /\ touched' = touched \ {k}
        /\ Finish(h)
        /\ UNCHANGED registered

RenameOpen(h, k, n) ==
    /\ Starts("rename", h)
    /\ Exists(k)
    /\ \A q \in Rosters \ {k} : Exists(q) => n = "copy" \/ roster[q].name # n
    /\ Become(h, [Request("rename", k) EXCEPT !.name = n])
    /\ UNCHANGED Tables

Rename(h) ==
    LET k == req[h].k
    IN  /\ At(h, "rename")
        /\ roster' = IF Exists(k) THEN [roster EXCEPT ![k].name = req[h].name] ELSE roster
        /\ Finish(h)
        /\ UNCHANGED <<row, pattern, pending, registered, forced, touched>>

-----------------------------------------------------------------------------
(* The agent's publish_schedule writes its summary over the notes; a driver *)
(* is registered; a handler fails                                           *)

NotesOpen(h, k) ==
    /\ Starts("notes", h)
    /\ Exists(k)
    /\ Become(h, Request("notes", k))
    /\ UNCHANGED Tables

Notes(h) ==
    LET k == req[h].k
    IN  /\ At(h, "notes")
        /\ pending' = IF Exists(k) THEN [pending EXCEPT ![k] = Blank] ELSE pending
        /\ Finish(h)
        /\ UNCHANGED <<roster, row, pattern, registered, forced, touched>>

Register(d) ==
    /\ registered' = registered \cup {d}
    /\ d \notin registered
    /\ UNCHANGED <<roster, row, pattern, pending, forced, touched, req>>

\* A failed statement, an engine that does not answer, a server restart.
Abort(h) ==
    /\ req[h] # Idle
    /\ Finish(h)
    /\ UNCHANGED Tables

-----------------------------------------------------------------------------
Begin(h) ==
    \/ \E n \in Names, a \in Answers : SaveOpen(h, n, a)
    \/ \E a \in Answers : GenerateOpen(h, a)
    \/ \E k \in Rosters :
           \/ \E c \in Cells, d \in registered \cup {Null} : EditOpen(h, k, c, d)
           \/ \E c \in Cells, d \in registered : \/ AddOpen(h, k, c, d)
                                                 \/ UpdateOpen(h, k, c, d, TRUE)
                                                 \/ UpdateOpen(h, k, c, d, FALSE)
           \/ \E c, e \in Cells : SwapOpen(h, k, c, e)
           \/ \E c \in Cells, off \in BOOLEAN : OffOpen(h, k, c, off)
           \/ \E force \in BOOLEAN : PublishOpen(h, k, force)
           \/ \E n \in Names : RenameOpen(h, k, n)
           \/ SpareOpen(h, k) \/ RematchOpen(h, k) \/ DuplicateOpen(h, k)
           \/ DeleteOpen(h, k) \/ NotesOpen(h, k)

Read(h) ==
    \/ EditRead(h) \/ AddCheck(h) \/ OffRead(h) \/ VacancyOpen(h)
    \/ \E a \in Answers : SpareRead(h, a) \/ TickAnswer(h, a)
    \/ \E p \in Plans : VacancyRead(h, p) \/ RematchRead(h, p)
    \/ PublishOther(h) \/ PublishDups(h) \/ PublishInspect(h)
    \/ TickCheck(h) \/ SaveFind(h) \/ SaveReject(h) \/ DuplicateCount(h)

Write(h) ==
    \/ EditClear(h) \/ EditEvict(h) \/ PutCell(h) \/ UpdateRows(h) \/ OffWrite(h)
    \/ Insert(h) \/ InsertNew(h) \/ RematchWrite(h) \/ PublishWrite(h)
    \/ \E k \in Rosters : SaveReplace(h, k) \/ Create(h, k)
    \/ Rest(h) \/ Delete(h) \/ Rename(h) \/ Notes(h)

Next ==
    \/ \E h \in Handlers : Begin(h) \/ Read(h) \/ Write(h) \/ Abort(h)
    \/ "register" \in Operations /\ \E d \in Drivers : Register(d)

Spec == Init /\ [][Next]_vars

-----------------------------------------------------------------------------
(* Properties *)

SlotRows == [driver : Drivers \cup {Null}, manual : BOOLEAN, id : Nat]

Steps == {"idle", "editRead", "editClear", "editEvict", "putCell", "addCheck", "update",
          "offRead", "offWrite", "spareRead", "insert", "vacancyOpen", "vacancyRead",
          "insertNew", "rematchRead", "rematchWrite", "pubOther", "pubDups", "pubInspect",
          "pubWrite", "engine", "saveFind", "saveReplace", "dupCount", "create", "rest",
          "delete", "rename", "notes"}

Requests == [pc : Steps, k : Rosters \cup {Null}, c : Cells \cup {Null},
             drv : Drivers \cup {Null}, flag : BOOLEAN, ids : [Cells -> Nat],
             plan : Plans, names : Plans, buses : SUBSET BusDays,
             marks : SUBSET Cells, name : Names]

\* Every row has the columns of the schema, and every handler is at one of the
\* statements of the code.
TypeOK ==
    /\ roster \in [Rosters -> [status : {"NONE", "DRAFT", "PUBLISHED"}, name : Names]]
    /\ row \in [Rosters -> [Cells -> SlotRows]]
    /\ pattern \in [Rosters -> [BusDays -> {"none", "on", "off"}]]
    /\ pending \in [Rosters -> Plans]
    /\ registered \in SUBSET Drivers
    /\ forced \in SUBSET Rosters
    /\ touched \in SUBSET Rosters
    /\ req \in [Handlers -> Requests]

\* A month has one published roster at most, however many requests to publish
\* have passed the check of publishSchedule at the same time.
OnePublished == \A k, q \in Published : k = q

\* Nothing is left of a roster that is gone: no slot, pattern or name survives
\* a deletion or a replacement, or is written after it by a handler that still
\* holds the id.
NothingOfGoneRosters ==
    \A k \in Rosters :
        ~Exists(k) => /\ \A c \in Cells : row[k][c] = NoRow
                      /\ \A b \in BusDays : pattern[k][b] = "none"
                      /\ pending[k] = Blank

\* "여기서 못 막으면 아무도 못 막는다": a roster that passed the gate has nobody on two
\* shifts of one date, and it stays so.
NoHiddenDouble == \A k \in Published \ forced : SingleShifts(DriverOf(k))

\* A roster that passed the gate sends no bus out without a driver: the cells
\* its patterns say are operated have a row, and it stays so.
PublishedStaffed == \A k \in Published \ forced : Staffed(k)

\* "발행본을 여기서 고치면 기사가 이미 본 배차가 알림 없이 바뀐다": none of the handlers of
\* this module changes the slots or the resting buses of a published roster.
PublishedFrozen ==
    [][\A k \in Published : roster'[k].status = "PUBLISHED" =>
          row'[k] = row[k] /\ pattern'[k] = pattern[k]]_vars

\* "조용한 이중 배정이 최악의 결과": the three fills give nobody a second shift of a
\* date, whatever the office has put into the draft before.
FillsBookFreeDrivers ==
    [][\A h \in Handlers : req[h].pc \in {"insert", "insertNew", "rematchWrite"} =>
          \A c, e \in Cells :
              LET k == req[h].k
              IN  /\ c # e /\ SameDate(c, e)
                  /\ ~Filled(k, c) /\ row'[k][c] # NoRow
                  => row'[k][c].driver # row'[k][e].driver]_vars

\* A name without an account keeps its cell marked until somebody registers the
\* driver or the roster goes: no fill and no edit makes it look like a cell the
\* planner left empty.
UnregisteredNamesKept ==
    [][\A k \in Rosters, c \in Cells :
          pending[k][c] \in Drivers \ registered /\ roster'[k].status # "NONE"
              /\ ~(\E h \in Handlers : req[h].pc = "saveReplace") =>
          pending'[k][c] = pending[k][c]]_vars

\* "월당 최대 5개": generations and copies leave at most MaxDrafts drafts.
DraftLimit == Cardinality(Drafts) <= MaxDrafts

-----------------------------------------------------------------------------
(* What comments of the repository say and the code does not do *)

\* "감차 = 그 차·그날 슬롯 0개": a bus marked as resting has no slot.
OffBusIdle ==
    \A k \in Rosters, c \in Cells : pattern[k][BusDay[c]] = "off" => ~Filled(k, c)

\* "하루 1시프트 원칙": after an edit the driver has no other shift of the date.
EditLeavesOneShift ==
    [][\A h \in Handlers : LET k == req[h].k
                               c == req[h].c
                           IN  req[h].pc = "putCell" /\ row' # row =>
                                   \A e \in Cells \ {c} : SameDate(c, e) =>
                                       row'[k][e].driver # row'[k][c].driver]_vars

\* "담당자가 손댄 것은 절대 건드리지 않는다": the timer replaces no draft that the office
\* has changed by hand.
TickSparesOffice ==
    [][\A h \in Ticks : req[h].pc = "saveReplace" /\ roster' # roster =>
          req[h].k \notin touched]_vars

\* "발행본이 있는 달은 통째로 건너뛴다": the timer removes no published roster.
TickSparesPublished ==
    [][\A h \in Ticks : req[h].pc = "saveReplace" /\ roster' # roster =>
          req[h].k \notin Published]_vars

\* "빈 칸이 검사를 통째로 빠져나가 …": no cell of a bus that is not marked as resting
\* escapes the gate.
EveryBusStaffed ==
    \A k \in Published \ forced, c \in Cells :
        pattern[k][BusDay[c]] # "off" => Filled(k, c)

=============================================================================
