---------------------------- MODULE EmergencyDrops ----------------------------
(***************************************************************************)
(* The substitute desk of a published roster: the rows of ScheduleSlot and *)
(* EmergencyDrop, and the handlers that write them.                        *)
(*                                                                         *)
(* A handler reads, awaits, and commits; between two awaits every other    *)
(* handler may run.  A Prisma transaction that only writes is one step; a  *)
(* statement that reads inside an interactive transaction is a step of its *)
(* own, because PostgreSQL runs these transactions READ COMMITTED.  The    *)
(* slots are the working slots (isRestDay = false) of rosters that are     *)
(* already PUBLISHED: no other code path edits the slots of such a roster. *)
(***************************************************************************)
EXTENDS Integers, FiniteSets

CONSTANTS
    Drivers,        \* users with role DRIVER
    Slots,          \* working slots of the published rosters of one company
    Routes,         \* routes the slots belong to
    Rosters,        \* published rosters, one per month and service type
    Handlers,       \* HTTP requests and agent tool calls in flight at one time
    Sweeps,         \* ticks of the escalation timer in flight at one time
    Null,           \* SQL NULL, and the empty field of an idle handler
    Owner,          \* slot -> driver it was published with
    Route,          \* slot -> route
    Roster,         \* slot -> roster
    Day,            \* slot -> calendar date
    Resting,        \* slot -> drivers with a rest slot on its date in its roster
    Spares,         \* drivers with driverType SPARE
    Week,           \* slot -> week of that date, Sunday first
    UrgentAt,       \* slot -> first instant within two days of its date
    DepartAt,       \* slot -> instant of departure
    LastAt,         \* slot -> last instant of its calendar date
    MaxDays,        \* weeklyMaxWorkDays.maxDays of the company policy
    AgentEnabled,   \* EMERGENCY_AGENT_ENABLED = 'true'
    MaxTime,        \* bound: instants of the clock
    MaxUrgent,      \* bound: urgent broadcasts are counted up to here
    MaxFaults       \* bound: failed statements and server restarts

ASSUME RosterAssumption ==
    /\ Null \notin Drivers
    /\ Handlers \cap Sweeps = {}
    /\ Owner \in [Slots -> Drivers]
    /\ Route \in [Slots -> Routes]
    /\ Roster \in [Slots -> Rosters]
    /\ Resting \in [Slots -> SUBSET Drivers]
    /\ Spares \subseteq Drivers
    /\ UrgentAt \in [Slots -> Nat]
    /\ DepartAt \in [Slots -> Nat]
    /\ LastAt \in [Slots -> Nat]

ASSUME BoundAssumption ==
    /\ AgentEnabled \in BOOLEAN
    /\ MaxDays \in Nat
    /\ MaxTime \in Nat
    /\ MaxUrgent \in Nat \ {0}
    /\ MaxFaults \in Nat

VARIABLES
    slot,       \* ScheduleSlot rows: status and driverId
    drop,       \* EmergencyDrop rows, by their unique slotId
    user,       \* User rows: isActive, or deleted
    req,        \* what each handler or sweep in flight has read so far
    lastId,     \* the autoincrement sequence of EmergencyDrop.id
    broadcast,  \* D-2 broadcasts about the current drop of a slot, by what they came to
    now,        \* the clock
    faults      \* failed statements and server restarts so far

vars == <<slot, drop, user, req, lastId, broadcast, now, faults>>

-----------------------------------------------------------------------------
(* Rows *)

SlotStatus == {"SCHEDULED", "DROPPED", "FILLED", "ABSENT", "GONE"}
DropStatus == {"NONE", "OPEN", "FILLED", "CANCELLED", "EXPIRED"}
UserStatus == {"ACTIVE", "INACTIVE", "DELETED"}

\* No EmergencyDrop row for the slot.
NoDrop == [id |-> 0, status |-> "NONE", driver |-> Null, filledBy |-> Null, level |-> 0]

\* No broadcast about the current drop of the slot so far.
NoBroadcast == [told |-> 0, vain |-> FALSE]

Idle == [pc |-> "idle", slot |-> Null, id |-> 0, drv |-> Null]

\* The statement a handler in flight is about to run.
Steps == {"idle", "create", "notify", "raise", "acceptCount", "acceptClaim",
          "fillClaim", "recordCheck", "record", "expire", "d2notify"}

Request(pc, s, id, d) == [pc |-> pc, slot |-> s, id |-> id, drv |-> d]

Exists(s) == slot[s].status # "GONE"

\* Mutant: the drop is looked up by its slot, as if a slot never had a second one.
DropRowBySlot(h) == drop[req[h].slot].status # "NONE"

\* WHERE id = ... still finds the row the handler read.
DropRowLives(h) == /\ drop[req[h].slot].status # "NONE"
                   /\ drop[req[h].slot].id = req[h].id

Finish(h) == req' = [req EXCEPT ![h] = Idle]

Goto(h, pc) == req' = [req EXCEPT ![h].pc = pc]

\* Statuses that count as work, for the weekly rest and the same-day check.
WorkStatuses == {"SCHEDULED", "FILLED"}

\* sameDay: another working slot of d on the date of s.
SameDay(d, s) == \E t \in Slots \ {s} : /\ slot[t].driver = d
                                        /\ slot[t].status \in WorkStatuses
                                        /\ Day[t] = Day[s]

\* weeklyWorkDays: working slots of d in the week of s, s itself excluded.
WeeklyWorkDays(d, s) == Cardinality({t \in Slots \ {s} : /\ slot[t].driver = d
                                                         /\ slot[t].status \in WorkStatuses
                                                         /\ Week[t] = Week[s]})

EligibleForWeek(d, s) == WeeklyWorkDays(d, s) < MaxDays

\* Whom a broadcast about s is for: the drivers resting on its date and the active
\* spare drivers, those left out who have worked their week.
Recipients(s) ==
    LET resting == {d \in Resting[s] : Exists(s) /\ user[d] # "DELETED"}
        spare   == {d \in Spares : user[d] = "ACTIVE"}
    IN  {d \in resting \cup spare : EligibleForWeek(d, s)}

\* A broadcast has run: it told somebody, or ended with nobody told.
Announced(b, reached) ==
    IF reached THEN [told |-> IF b.told < MaxUrgent THEN b.told + 1 ELSE b.told, vain |-> b.vain]
               ELSE [told |-> b.told, vain |-> TRUE]

\* The urgent broadcast about the drop h has in hand, and on to the statement that
\* raises the escalation level.  It returns early when the route is gone or nobody
\* is left to ask, and a notification that cannot be written is swallowed
\* (allSettled): the handler is not told, and goes on alike.
Broadcast(h) ==
    LET s == req[h].slot
    IN  /\ \E reached \in BOOLEAN :
              /\ reached => Recipients(s) # {}
              /\ broadcast' = IF DropRowLives(h)
                                THEN [broadcast EXCEPT ![s] = Announced(@, reached)]
                                ELSE broadcast
        /\ Goto(h, "raise")

-----------------------------------------------------------------------------
Init ==
    /\ slot = [s \in Slots |-> [status |-> "SCHEDULED", driver |-> Owner[s]]]
    /\ drop = [s \in Slots |-> NoDrop]
    /\ user = [d \in Drivers |-> "ACTIVE"]
    /\ req = [h \in Handlers \cup Sweeps |-> Idle]
    /\ lastId = 0
    /\ broadcast = [s \in Slots |-> NoBroadcast]
    /\ now = 0
    /\ faults = 0

-----------------------------------------------------------------------------
(* POST /emergency : createEmergencyDrop *)

\* Every check is made before the transaction and none is made again inside
\* it.  An office user may drop any slot, a driver only his own, so for some
\* caller every slot qualifies.  Neither the status of the slot nor that of
\* its roster is looked at.
CreateRead(h, s) ==
    /\ req[h] = Idle
    /\ Exists(s)
    /\ now <= LastAt[s]
    /\ drop[s].status = "NONE"
    /\ req' = [req EXCEPT ![h] = Request("create", s, 0, slot[s].driver)]
    /\ UNCHANGED <<slot, drop, user, lastId, broadcast, now, faults>>

\* Mutant: the drop is created at level 1, before the broadcast is sent.
OpenDropRaised(s, d) ==
    /\ lastId' = lastId + 1
    /\ drop' = [drop EXCEPT ![s] = [id |-> lastId + 1, status |-> "OPEN", driver |-> d,
                                    filledBy |-> Null, level |-> 1]]
    /\ slot' = [slot EXCEPT ![s].status = "DROPPED"]
    /\ broadcast' = [broadcast EXCEPT ![s] = NoBroadcast]

\* The two writes of one transaction: the drop OPEN and the slot DROPPED.
OpenDrop(s, d) ==
    /\ lastId' = lastId + 1
    /\ drop' = [drop EXCEPT ![s] = [id |-> lastId + 1, status |-> "OPEN", driver |-> d,
                                    filledBy |-> Null, level |-> 0]]
    /\ slot' = [slot EXCEPT ![s].status = "DROPPED"]
    /\ broadcast' = [broadcast EXCEPT ![s] = NoBroadcast]

CreateCommit(h) ==
    LET s == req[h].slot
    IN  /\ req[h].pc = "create"
        /\ Exists(s)
        /\ drop[s].status = "NONE"
        /\ user[req[h].drv] # "DELETED"
        /\ OpenDrop(s, req[h].drv)
        /\ req' = [req EXCEPT ![h].pc = "notify", ![h].id = lastId + 1]
        /\ UNCHANGED <<user, now, faults>>

\* The unique slotId or a foreign key rejects the transaction: 500.
CreateReject(h) ==
    LET s == req[h].slot
    IN  /\ req[h].pc = "create"
        /\ \/ ~Exists(s)
           \/ drop[s].status # "NONE"
           \/ user[req[h].drv] = "DELETED"
        /\ Finish(h)
        /\ UNCHANGED <<slot, drop, user, lastId, broadcast, now, faults>>

\* After the commit the resting and spare drivers are told, as urgent when
\* the slot is at most two days away.
CreateNotifyUrgent(h) ==
    LET s == req[h].slot
    IN  /\ req[h].pc = "notify"
        /\ now >= UrgentAt[s]
        /\ Broadcast(h)
        /\ UNCHANGED <<slot, drop, user, lastId, now, faults>>

CreateNotifyPlain(h) ==
    /\ req[h].pc = "notify"
    /\ now < UrgentAt[req[h].slot]
    /\ Finish(h)
    /\ UNCHANGED <<slot, drop, user, lastId, broadcast, now, faults>>

\* escalationLevel = 1, in a statement of its own after the broadcast.  When
\* the drop row is gone the update throws and the handler ends.
RaiseLevel(h) ==
    /\ req[h].pc = "raise"
    /\ drop' = IF DropRowLives(h) THEN [drop EXCEPT ![req[h].slot].level = 1] ELSE drop
    /\ Finish(h)
    /\ UNCHANGED <<slot, user, lastId, broadcast, now, faults>>

-----------------------------------------------------------------------------
(* PUT /emergency/:id/accept : acceptEmergencySlot *)

\* The drop must be OPEN and the driver free that day; the same-day check is
\* outside the transaction.  The caller may be the driver who dropped.
AcceptRead(h, s, d) ==
    /\ req[h] = Idle
    /\ user[d] = "ACTIVE"
    /\ drop[s].status = "OPEN"
    /\ ~SameDay(d, s)
    /\ req' = [req EXCEPT ![h] = Request("acceptCount", s, drop[s].id, d)]
    /\ UNCHANGED <<slot, drop, user, lastId, broadcast, now, faults>>

\* The weekly count: the first statement of the transaction.
AcceptCount(h) ==
    /\ req[h].pc = "acceptCount"
    /\ IF EligibleForWeek(req[h].drv, req[h].slot) THEN Goto(h, "acceptClaim") ELSE Finish(h)
    /\ UNCHANGED <<slot, drop, user, lastId, broadcast, now, faults>>

\* Both rows of a claim: the drop FILLED by d and the slot handed to d.
Assign(s, d) ==
    /\ drop' = [drop EXCEPT ![s].status = "FILLED", ![s].filledBy = d]
    /\ slot' = [slot EXCEPT ![s] = [status |-> "FILLED", driver |-> d]]

\* Mutant: a claim by the id alone.
ClaimAnyStatus(h) == DropRowLives(h) /\ user[req[h].drv] # "DELETED"

\* updateMany WHERE id AND status = 'OPEN' still matches the row.
ClaimMatches(h) == /\ DropRowLives(h)
                   /\ drop[req[h].slot].status = "OPEN"
                   /\ user[req[h].drv] # "DELETED"

\* The conditional claim that ends both the acceptance of a driver and the
\* manual fill of an administrator; count = 0 rolls back (ALREADY_FILLED).
Claim(h) ==
    /\ req[h].pc \in {"acceptClaim", "fillClaim"}
    /\ IF ClaimMatches(h)
         THEN Assign(req[h].slot, req[h].drv)
         ELSE UNCHANGED <<drop, slot>>
    /\ Finish(h)
    /\ UNCHANGED <<user, lastId, broadcast, now, faults>>

-----------------------------------------------------------------------------
(* PUT /emergency/:id/manual-fill : manualFillEmergency *)

\* All checks precede the transaction; an override with a reason lets the
\* administrator pass the weekly rest, never the same-day check.
FillRead(h, s, d, override) ==
    /\ req[h] = Idle
    /\ drop[s].status = "OPEN"
    /\ user[d] = "ACTIVE"
    /\ d # drop[s].driver
    /\ ~SameDay(d, s)
    /\ EligibleForWeek(d, s) \/ override
    /\ req' = [req EXCEPT ![h] = Request("fillClaim", s, drop[s].id, d)]
    /\ UNCHANGED <<slot, drop, user, lastId, broadcast, now, faults>>

\* The new status of a drop and of its slot, in one transaction.
Settle(s, dropStatus, slotStatus) ==
    /\ drop' = [drop EXCEPT ![s].status = dropStatus]
    /\ slot' = [slot EXCEPT ![s].status = slotStatus]

(* PUT /emergency/:id/cancel : cancelEmergencyDrop *)

\* Mutant: the substitute is taken off the drop but not off the slot.
CancelForgetsFiller(s) ==
    /\ drop[s].status # "NONE"
    /\ drop' = [drop EXCEPT ![s].status = "CANCELLED", ![s].filledBy = Null]
    /\ slot' = [slot EXCEPT ![s].status = "SCHEDULED"]
    /\ UNCHANGED <<user, req, lastId, broadcast, now, faults>>

\* No status is checked: any drop that exists is cancelled and its slot set
\* back to SCHEDULED, with whichever driver holds it; filledBy stays.
Cancel(s) ==
    /\ drop[s].status # "NONE"
    /\ Settle(s, "CANCELLED", "SCHEDULED")
    /\ UNCHANGED <<user, req, lastId, broadcast, now, faults>>

-----------------------------------------------------------------------------
(* record_acceptance, the tool by which the emergency agent fills a drop *)

RecordRead(h, s, d) ==
    /\ AgentEnabled
    /\ req[h] = Idle
    /\ drop[s].status = "OPEN"
    /\ user[d] = "ACTIVE"
    /\ req' = [req EXCEPT ![h] = Request("recordCheck", s, drop[s].id, d)]
    /\ UNCHANGED <<slot, drop, user, lastId, broadcast, now, faults>>

RecordCheck(h) ==
    /\ req[h].pc = "recordCheck"
    /\ IF EligibleForWeek(req[h].drv, req[h].slot) THEN Goto(h, "record") ELSE Finish(h)
    /\ UNCHANGED <<slot, drop, user, lastId, broadcast, now, faults>>

\* Mutants: the agent writes the slot and not the drop, or names any driver.
RecordSlotOnly(h) ==
    /\ req[h].pc = "record"
    /\ drop' = IF DropRowLives(h) THEN [drop EXCEPT ![req[h].slot].status = "FILLED"] ELSE drop
    /\ slot' = IF DropRowLives(h)
                 THEN [slot EXCEPT ![req[h].slot] = [status |-> "FILLED", driver |-> req[h].drv]]
                 ELSE slot
    /\ Finish(h)
    /\ UNCHANGED <<user, lastId, broadcast, now, faults>>

RecordWithoutUserKey(h) ==
    /\ req[h].pc = "record"
    /\ IF DropRowLives(h) THEN Assign(req[h].slot, req[h].drv) ELSE UNCHANGED <<drop, slot>>
    /\ Finish(h)
    /\ UNCHANGED <<user, lastId, broadcast, now, faults>>

\* The transaction updates by id alone: what the status has become since it
\* was read is not looked at.
RecordCommit(h) ==
    /\ req[h].pc = "record"
    /\ IF DropRowLives(h) /\ user[req[h].drv] # "DELETED"
         THEN Assign(req[h].slot, req[h].drv)
         ELSE UNCHANGED <<drop, slot>>
    /\ Finish(h)
    /\ UNCHANGED <<user, lastId, broadcast, now, faults>>

-----------------------------------------------------------------------------
(* tickEmergencyEngine with the agent off: runEscalationCheck.  Ticks and   *)
(* server instances may overlap, so each drop is swept by any handler.      *)

\* Mutant: the sweep skips drops that have been raised.
ExpireUnraisedOnly(h, s) ==
    /\ ~AgentEnabled
    /\ req[h] = Idle
    /\ drop[s].status = "OPEN"
    /\ drop[s].level = 0
    /\ now > DepartAt[s]
    /\ req' = [req EXCEPT ![h] = Request("expire", s, drop[s].id, Null)]
    /\ UNCHANGED <<slot, drop, user, lastId, broadcast, now, faults>>

\* The fresh re-read of an OPEN drop that has departed.
ExpireRead(h, s) ==
    /\ ~AgentEnabled
    /\ req[h] = Idle
    /\ drop[s].status = "OPEN"
    /\ now > DepartAt[s]
    /\ req' = [req EXCEPT ![h] = Request("expire", s, drop[s].id, Null)]
    /\ UNCHANGED <<slot, drop, user, lastId, broadcast, now, faults>>

\* Mutant: only the drop is written.
ExpireDropOnly(h) ==
    LET s == req[h].slot
    IN  /\ req[h].pc = "expire"
        /\ drop' = IF DropRowLives(h) THEN [drop EXCEPT ![s].status = "EXPIRED"] ELSE drop
        /\ Finish(h)
        /\ UNCHANGED <<slot, user, lastId, broadcast, now, faults>>

\* The transaction that follows it updates by id alone.
ExpireCommit(h) ==
    LET s == req[h].slot
    IN  /\ req[h].pc = "expire"
        /\ IF DropRowLives(h)
             THEN Settle(s, "EXPIRED", "ABSENT")
             ELSE UNCHANGED <<drop, slot>>
        /\ Finish(h)
        /\ UNCHANGED <<user, lastId, broadcast, now, faults>>

\* runD2UrgentSweep: the re-check, the broadcast, and then RaiseLevel.
D2Read(h, s) ==
    /\ ~AgentEnabled
    /\ req[h] = Idle
    /\ drop[s].status = "OPEN"
    /\ drop[s].level = 0
    /\ now >= UrgentAt[s]
    /\ req' = [req EXCEPT ![h] = Request("d2notify", s, drop[s].id, Null)]
    /\ UNCHANGED <<slot, drop, user, lastId, broadcast, now, faults>>

D2Notify(h) ==
    LET s == req[h].slot
    IN  /\ req[h].pc = "d2notify"
        /\ Broadcast(h)
        /\ UNCHANGED <<slot, drop, user, lastId, now, faults>>

-----------------------------------------------------------------------------
(* Deletions.  Each transaction writes only; a foreign key violated in      *)
(* between by another handler rolls it back as a whole.                     *)

\* The rows of the slots in S go, with their drops.
Purge(S) ==
    /\ slot' = [s \in Slots |-> IF s \in S THEN [status |-> "GONE", driver |-> Null] ELSE slot[s]]
    /\ drop' = [s \in Slots |-> IF s \in S THEN NoDrop ELSE drop[s]]

\* DELETE /users/:id takes the slots of d, their drops, and every other drop d
\* raised or filled, whose slot stays as it is.
DeleteUser(d) ==
    /\ user[d] # "DELETED"
    /\ user' = [user EXCEPT ![d] = "DELETED"]
    /\ slot' = [s \in Slots |-> IF slot[s].driver = d
                                   THEN [status |-> "GONE", driver |-> Null]
                                   ELSE slot[s]]
    /\ drop' = [s \in Slots |-> IF d \in {drop[s].driver, drop[s].filledBy, slot[s].driver}
                                   THEN NoDrop
                                   ELSE drop[s]]
    /\ UNCHANGED <<req, lastId, broadcast, now, faults>>

\* PUT /users/:id sets isActive; a deletion that some other reference forbids
\* ends as a deactivation.
SetActive(d, status) ==
    /\ user[d] # "DELETED"
    /\ user[d] # status
    /\ user' = [user EXCEPT ![d] = status]
    /\ UNCHANGED <<slot, drop, req, lastId, broadcast, now, faults>>

\* DELETE /schedules/:year/:month and DELETE /routes/:id
DeleteSchedule(k) ==
    /\ \E s \in Slots : Roster[s] = k /\ Exists(s)
    /\ Purge({s \in Slots : Roster[s] = k})
    /\ UNCHANGED <<user, req, lastId, broadcast, now, faults>>

DeleteRoute(r) ==
    /\ \E s \in Slots : Route[s] = r /\ Exists(s)
    /\ Purge({s \in Slots : Route[s] = r})
    /\ UNCHANGED <<user, req, lastId, broadcast, now, faults>>

-----------------------------------------------------------------------------
(* The environment *)

Advance ==
    /\ now < MaxTime
    /\ now' = now + 1
    /\ UNCHANGED <<slot, drop, user, req, lastId, broadcast, faults>>

\* A statement of h throws: the handler answers 500, a sweep goes on with the
\* next drop.  What was committed before stays.
Fail(h) ==
    /\ req[h] # Idle
    /\ faults < MaxFaults
    /\ faults' = faults + 1
    /\ Finish(h)
    /\ UNCHANGED <<slot, drop, user, lastId, broadcast, now>>

\* The process dies: everything in flight is lost, the rows stay.
Crash ==
    /\ faults < MaxFaults
    /\ faults' = faults + 1
    /\ req' = [h \in Handlers \cup Sweeps |-> Idle]
    /\ UNCHANGED <<slot, drop, user, lastId, broadcast, now>>

-----------------------------------------------------------------------------
\* A request or an agent call begins.
Begin(h) ==
    \E s \in Slots :
        \/ CreateRead(h, s)
        \/ \E d \in Drivers : \/ AcceptRead(h, s, d)
                              \/ \E override \in BOOLEAN : FillRead(h, s, d, override)
                              \/ RecordRead(h, s, d)

\* The next statement of a handler or sweep in flight.
Continue(h) ==
    \/ CreateCommit(h) \/ CreateReject(h)
    \/ CreateNotifyUrgent(h) \/ CreateNotifyPlain(h)
    \/ RaiseLevel(h)
    \/ AcceptCount(h) \/ Claim(h)
    \/ RecordCheck(h) \/ RecordCommit(h)
    \/ ExpireCommit(h) \/ D2Notify(h)

Administer ==
    \/ \E s \in Slots : Cancel(s)
    \/ \E d \in Drivers : \/ DeleteUser(d)
                          \/ \E status \in {"ACTIVE", "INACTIVE"} : SetActive(d, status)
    \/ \E k \in Rosters : DeleteSchedule(k)
    \/ \E r \in Routes : DeleteRoute(r)

Next ==
    \/ \E h \in Handlers : Begin(h)
    \/ \E h \in Sweeps, s \in Slots : ExpireRead(h, s) \/ D2Read(h, s)
    \/ \E h \in Handlers \cup Sweeps : Continue(h) \/ Fail(h)
    \/ Administer
    \/ Advance
    \/ Crash

\* Statements in flight return, and time may stop.  The timer keeps ticking and a
\* tick visits every drop its query returns, so a drop that stays due is
\* reached however often the sweeps are busy with others.
Fairness ==
    /\ \A h \in Handlers \cup Sweeps : WF_vars(Continue(h))
    /\ \A s \in Slots : /\ SF_vars(\E h \in Sweeps : ExpireRead(h, s))
                        /\ SF_vars(\E h \in Sweeps : D2Read(h, s))

SafetySpec == Init /\ [][Next]_vars

Spec == SafetySpec /\ Fairness

-----------------------------------------------------------------------------
(* Properties *)

SlotRow == [status : SlotStatus, driver : Drivers \cup {Null}]

DropRow == [id : Nat, status : DropStatus, driver : Drivers \cup {Null},
            filledBy : Drivers \cup {Null}, level : {0, 1}]

BroadcastRow == [told : 0 .. MaxUrgent, vain : BOOLEAN]

RequestRow == [pc : Steps, slot : Slots \cup {Null}, id : Nat, drv : Drivers \cup {Null}]

\* Every row has the columns and the statuses of the schema, and every handler
\* is at one of the statements of the code.
TypeOK ==
    /\ slot \in [Slots -> SlotRow]
    /\ drop \in [Slots -> DropRow]
    /\ user \in [Drivers -> UserStatus]
    /\ req \in [Handlers \cup Sweeps -> RequestRow]
    /\ lastId \in Nat
    /\ broadcast \in [Slots -> BroadcastRow]
    /\ now \in 0 .. MaxTime
    /\ faults \in 0 .. MaxFaults

\* The status of a slot that a drop with the given status leaves it in.
StatusUnder ==
    [OPEN |-> "DROPPED", FILLED |-> "FILLED", CANCELLED |-> "SCHEDULED", EXPIRED |-> "ABSENT"]

\* The two rows of a slot that has a drop tell the same story, whatever mixture
\* of acceptances, fills, cancellations, sweeps and deletions produced them:
\* the status of one determines the other's, and the shift belongs to the
\* substitute the drop names, or else to the driver who dropped it.  No
\* transaction of the code checks this when it commits, and the writers do not
\* lock the two rows together while they read.
SlotAgreesWithDrop ==
    \A s \in Slots : drop[s].status # "NONE" =>
        /\ slot[s].status = StatusUnder[drop[s].status]
        /\ slot[s].driver = IF drop[s].filledBy = Null THEN drop[s].driver ELSE drop[s].filledBy

\* A slot is never left vacant with nobody asked to cover it: a DROPPED slot
\* always has an OPEN drop, also when a user, a route or a roster is deleted
\* while a drop is being raised, filled or swept.
NoOrphanedVacancy ==
    \A s \in Slots : slot[s].status = "DROPPED" => drop[s].status = "OPEN"

\* No row keeps pointing at a user who is gone: deleteUser clears every slot and
\* every drop of the user, including a drop raised while the deletion ran.
NoRowOfDeletedUser ==
    \A s \in Slots : \A d \in Drivers :
        d \in {slot[s].driver, drop[s].driver, drop[s].filledBy} => user[d] # "DELETED"

\* A broadcast about the current drop has run.
BroadcastRan(s) == broadcast[s].told > 0 \/ broadcast[s].vain

\* The escalation level that silences the sweep is raised only when a broadcast
\* about this very drop has run: a broadcast that threw, a restart or a drop
\* recreated on the same slot never inherits the silence.  That somebody was told
\* is not promised (SilencedOnlyWhenTold).
RaisedOnlyAfterBroadcast ==
    \A s \in Slots : drop[s].level = 1 => BroadcastRan(s)

\* The abstract state of a shift.
CoverState ==
    [SCHEDULED |-> "held", FILLED |-> "held", DROPPED |-> "vacant",
     ABSENT |-> "missed", GONE |-> "removed"]

Shifts == INSTANCE ShiftCover
    WITH cover <- [s \in Slots |-> [state |-> CoverState[slot[s].status],
                                    holder |-> slot[s].driver]]

\* With the agent off the desk keeps its promise to the drivers: no driver, once
\* given a shift, loses it to a claim that started from an older read of the
\* drop, and no step brings a deleted slot back.  With the agent on it does not
\* (FilledOnce).
ShiftsCovered == Shifts!Spec

\* With the agent off, a drop still OPEN after the departure does not stay so:
\* some sweep expires it unless a claim, a cancellation or a deletion comes
\* first (escalationService, "출발시간을 넘기면 자동으로 EXPIRED").
DepartedDropSettles ==
    \A s \in Slots : drop[s].status = "OPEN" /\ now > DepartAt[s] ~> drop[s].status # "OPEN"

\* With the agent off, a drop that enters its last two days OPEN has the urgent
\* broadcast run for it, also when the creating handler failed or the server
\* restarted between the commit and the broadcast.  It runs once: whether it finds
\* somebody to tell is another matter (SilencedOnlyWhenTold).
UrgentDropBroadcast ==
    \A s \in Slots : drop[s].status = "OPEN" /\ now >= UrgentAt[s] ~>
        BroadcastRan(s) \/ drop[s].status # "OPEN"

-----------------------------------------------------------------------------
(* What comments and tests of the repository say and the code does not do *)

\* "행 락으로 … 원자적": the weekly limit is checked with the claim, so an
\* acceptance never gives a driver more working days in a week than allowed.
WeeklyLimitHeldByAcceptance ==
    [][\A h \in Handlers :
          req[h].pc = "acceptClaim" /\ drop'[req[h].slot] # drop[req[h].slot] =>
              EligibleForWeek(req[h].drv, req[h].slot)]_vars

\* "한 기사가 같은 날 두 슬롯에 배정되지 않도록": nobody has two working slots on
\* one date.
NoSameDayDoubleAssign ==
    \A s \in Slots : slot[s].status \in WorkStatuses => ~SameDay(slot[s].driver, s)

\* "미충원(OPEN) 드랍이 … EXPIRED": only an unfilled drop expires.
OnlyOpenExpires ==
    [][\A s \in Slots : drop'[s].status = "EXPIRED" => drop[s].status \in {"OPEN", "EXPIRED"}]_vars

\* "escalationLevel 로 중복 발송을 막는다": no urgent broadcast goes out twice.
NoDuplicateUrgent == \A s \in Slots : broadcast[s].told <= 1

\* "발송하고 escalationLevel=1 로 락": what the sweep is silenced for has been sent.
\* A broadcast that found nobody to ask is never made again, whoever becomes free.
SilencedOnlyWhenTold ==
    \A s \in Slots : drop[s].level = 1 => broadcast[s].told > 0

\* "두 명이 같은 슬롯을 맡는 사고": a filled drop is not filled again by another
\* driver.
FilledOnce ==
    [][\A s \in Slots : drop[s].status = "FILLED" /\ drop'[s].status = "FILLED" =>
          drop'[s].filledBy = drop[s].filledBy]_vars

=============================================================================
