------------------------------- MODULE LeaveDesk -------------------------------
(***************************************************************************)
(* The day-off requests of one month and what becomes of an approved one:  *)
(* the driver has to be out of the published roster that day.  Two         *)
(* handlers see to it from opposite ends.  The review looks for a          *)
(* published roster and drops the shift; the publication looks for         *)
(* approved requests and refuses (rule E5).  Each reads what the other     *)
(* writes, so which of them overlapped is recorded.                        *)
(*                                                                         *)
(* A statement is a step.  reviewDayOffRequest updates the request first,  *)
(* in an interactive transaction, so it holds the row until it commits     *)
(* and nobody sees the decision before.  The writes of the substitute desk *)
(* are the commits of EmergencyDrops, one step each.                       *)
(***************************************************************************)
EXTENDS Integers, FiniteSets

CONSTANTS
    Drivers,     \* users with role DRIVER
    Dates,       \* days of the month
    Requests,    \* ids of DayOffRequest rows
    Rosters,     \* rosters of the month, one per service type
    Slots,       \* working slots of the rosters
    RosterOf,    \* slot -> roster
    DateOf,      \* slot -> date
    Handlers,    \* HTTP requests and agent tool calls in flight
    Operations,  \* which requests this instance makes
    Applicants,  \* drivers that ask for a day off in it
    Null

ASSUME LeaveAssumption ==
    /\ RosterOf \in [Slots -> Rosters]
    /\ DateOf \in [Slots -> Dates]
    /\ Applicants \subseteq Drivers
    /\ Null \notin Drivers \cup Requests \cup Rosters \cup Slots \cup Dates

VARIABLES
    request,     \* DayOffRequest rows
    roster,      \* status of the Schedule rows
    slot,        \* ScheduleSlot rows: status and driver
    drop,        \* EmergencyDrop rows by slot: status, driver, the request that raised it
    deleted,     \* users that have been deleted
    forced,      \* rosters published over the objections of the gate (history)
    restored,    \* slots a cancelled drop has given back (history)
    overlapped,  \* requests and slots written by a handler beside another (history)
    req          \* what each handler in flight has read so far

vars == <<request, roster, slot, drop, deleted, forced, restored, overlapped, req>>

Tables == <<request, roster, slot, drop, deleted, forced, restored, overlapped>>

-----------------------------------------------------------------------------
(* Rows *)

NoRequest == [status |-> "NONE", driver |-> Null, date |-> Null, reviewed |-> FALSE]

NoDrop == [status |-> "NONE", driver |-> Null, cause |-> Null]

\* A drop as it is created: OPEN, who cannot come, and the request behind it.
NewDrop(d, cause) == [status |-> "OPEN", driver |-> d, cause |-> cause]

Idle == [op |-> "none", pc |-> "idle", r |-> Null, drv |-> Null, date |-> Null, s |-> Null,
         k |-> Null, verdict |-> "NONE", seen |-> {}, force |-> FALSE, met |-> FALSE]

\* Requests that cost the driver a day: status not REJECTED.
Live(r) == request[r].status \in {"PENDING", "APPROVED"}

RowExists(r) == request[r].status \in {"PENDING", "APPROVED", "REJECTED"}

Working(s) == slot[s].status \in {"SCHEDULED", "FILLED"}

\* Ids the sequence has not given out yet: a bound on the number of requests.
Unused == {r \in Requests : request[r].status = "NONE"}

Init ==
    /\ request = [r \in Requests |-> NoRequest]
    /\ roster = [k \in Rosters |-> "DRAFT"]
    /\ slot \in [Slots -> [status : {"SCHEDULED"}, driver : Drivers]]
    /\ drop = [s \in Slots |-> NoDrop]
    /\ deleted = {}
    /\ forced = {}
    /\ restored = {}
    /\ overlapped = {}
    /\ req = [h \in Handlers |-> Idle]

-----------------------------------------------------------------------------
(* Handlers in flight *)

Deciding == {"review", "tool", "cancel"}

\* One of a and b may write what the other has read.
Affects(a, b) ==
    \/ a.op = "create" /\ b.op = "create" /\ a.drv = b.drv /\ a.date = b.date
    \/ a.op \in Deciding /\ b.op \in Deciding /\ a.r = b.r
    \/ a.op = "publish" /\ b.op \in {"review", "edit"}

Begin(h, q) ==
    LET met == {g \in Handlers \ {h} : Affects(req[g], q) \/ Affects(q, req[g])}
    IN  /\ q.op \in Operations
        /\ req[h] = Idle
        /\ req' = [g \in Handlers |-> IF g = h THEN [q EXCEPT !.met = (met # {})]
                                      ELSE IF g \in met THEN [req[g] EXCEPT !.met = TRUE]
                                      ELSE req[g]]

At(h, pc) == req[h].pc = pc

Finish(h) == req' = [req EXCEPT ![h] = Idle]

Goto(h, pc) == req' = [req EXCEPT ![h].pc = pc]

\* x was written by h, beside another handler or not.
Mark(h, x) == overlapped' = IF req[h].met THEN overlapped \cup {x} ELSE overlapped

-----------------------------------------------------------------------------
(* POST /dayoff : createDayOffRequest *)

\* Mutant: a request that was approved does not count as existing.
CreateOpenPendingOnly(h, d, t) ==
    /\ d \notin deleted
    /\ ~\E r \in Requests :
          request[r].status = "PENDING" /\ request[r].driver = d /\ request[r].date = t
    /\ Begin(h, [Idle EXCEPT !.op = "create", !.pc = "create", !.drv = d, !.date = t])
    /\ UNCHANGED Tables

\* The check for an existing request, outside any transaction.
CreateOpen(h, d, t) ==
    /\ d \notin deleted
    /\ ~\E r \in Requests : Live(r) /\ request[r].driver = d /\ request[r].date = t
    /\ Begin(h, [Idle EXCEPT !.op = "create", !.pc = "create", !.drv = d, !.date = t])
    /\ UNCHANGED Tables

\* The table has no key on driver and date; only the foreign key can refuse.
CreateWrite(h) ==
    /\ At(h, "create")
    /\ \E r \in Unused :
          IF req[h].drv \in deleted
            THEN UNCHANGED <<request, overlapped>>
            ELSE /\ request' = [request EXCEPT ![r] =
                       [status |-> "PENDING", driver |-> req[h].drv, date |-> req[h].date,
                        reviewed |-> FALSE]]
                 /\ Mark(h, r)
    /\ Finish(h)
    /\ UNCHANGED <<roster, slot, drop, deleted, forced, restored>>

-----------------------------------------------------------------------------
(* PUT /dayoff/:id/review : reviewDayOffRequest *)

\* Mutant: a decided request may be reviewed again.
ReviewOpenAny(h, r, verdict) ==
    /\ RowExists(r)
    /\ Begin(h, [Idle EXCEPT !.op = "review", !.pc = "update", !.r = r, !.verdict = verdict])
    /\ UNCHANGED Tables

\* The status is read before the transaction and not again inside it.
ReviewOpen(h, r, verdict) ==
    /\ request[r].status = "PENDING"
    /\ Begin(h, [Idle EXCEPT !.op = "review", !.pc = "update", !.r = r, !.verdict = verdict])
    /\ UNCHANGED Tables

InTransaction == {"roster", "slot", "drop", "commit"}

\* Another review has updated the row and not committed: a write of it waits.
Locked(r) == \E g \in Handlers : req[g].r = r /\ req[g].pc \in InTransaction

\* Mutant: the shift is looked for and dropped whatever the verdict.
ReviewUpdateAnyVerdict(h) ==
    /\ At(h, "update")
    /\ ~Locked(req[h].r)
    /\ IF ~RowExists(req[h].r) THEN Finish(h) ELSE Goto(h, "roster")
    /\ UNCHANGED Tables

\* The update of the request takes the row; a row that is gone ends it all.
ReviewUpdate(h) ==
    LET r == req[h].r
    IN  /\ At(h, "update")
        /\ ~Locked(r)
        /\ IF ~RowExists(r) THEN Finish(h)
           ELSE Goto(h, IF req[h].verdict = "APPROVED" THEN "roster" ELSE "commit")
        /\ UNCHANGED Tables

\* A published roster of the month, of whichever service type comes first.
ReviewRoster(h) ==
    LET published == {k \in Rosters : roster[k] = "PUBLISHED"}
    IN  /\ At(h, "roster")
        /\ IF published = {} THEN Goto(h, "commit")
           ELSE \E k \in published : req' = [req EXCEPT ![h].pc = "slot", ![h].k = k]
        /\ UNCHANGED Tables

ReviewSlot(h) ==
    LET own == {s \in Slots : /\ RosterOf[s] = req[h].k
                              /\ slot[s].driver = request[req[h].r].driver
                              /\ DateOf[s] = request[req[h].r].date
                              /\ slot[s].status = "SCHEDULED"}
    IN  /\ At(h, "slot")
        /\ IF own = {} THEN Goto(h, "commit")
           ELSE \E s \in own : req' = [req EXCEPT ![h].pc = "drop", ![h].s = s]
        /\ UNCHANGED Tables

\* A slot that already has a drop, in whatever status, is left alone.
ReviewDrop(h) ==
    /\ At(h, "drop")
    /\ req' = [req EXCEPT ![h].pc = "commit",
                          ![h].s = IF drop[req[h].s].status = "NONE" THEN @ ELSE Null]
    /\ UNCHANGED Tables

\* Mutant: the shift is not dropped.
ReviewCommitRequestOnly(h) ==
    LET r == req[h].r
    IN  /\ At(h, "commit")
        /\ IF RowExists(r)
             THEN /\ request' = [request EXCEPT ![r].status = req[h].verdict, ![r].reviewed = TRUE]
                  /\ Mark(h, r)
             ELSE UNCHANGED <<request, overlapped>>
        /\ Finish(h)
        /\ UNCHANGED <<roster, slot, drop, deleted, forced, restored>>

\* The decision, and with it the drop when there is a shift to drop.  The
\* unique slotId or a foreign key undoes both.
ReviewCommit(h) ==
    LET r == req[h].r
        s == req[h].s
    IN  /\ At(h, "commit")
        /\ IF RowExists(r) /\ (s = Null \/ (drop[s].status = "NONE" /\ slot[s].status # "GONE"))
             THEN /\ request' = [request EXCEPT ![r].status = req[h].verdict, ![r].reviewed = TRUE]
                  /\ slot' = IF s = Null THEN slot ELSE [slot EXCEPT ![s].status = "DROPPED"]
                  /\ drop' = IF s = Null THEN drop
                             ELSE [drop EXCEPT ![s] = NewDrop(request[r].driver, r)]
                  /\ Mark(h, r)
             ELSE UNCHANGED <<request, slot, drop, overlapped>>
        /\ Finish(h)
        /\ UNCHANGED <<roster, deleted, forced, restored>>

-----------------------------------------------------------------------------
(* approve_dayoff and reject_dayoff, the tools of the dispatch agent *)

ToolOpen(h, r, verdict) ==
    /\ request[r].status = "PENDING"
    /\ Begin(h, [Idle EXCEPT !.op = "tool", !.pc = "decide", !.r = r, !.verdict = verdict])
    /\ UNCHANGED Tables

\* By id; reviewedBy stays empty, and a shift in the way is only reported.
ToolDecide(h) ==
    LET r == req[h].r
    IN  /\ At(h, "decide")
        /\ ~Locked(r)
        /\ IF RowExists(r)
             THEN /\ request' = [request EXCEPT ![r].status = req[h].verdict]
                  /\ Mark(h, r)
             ELSE UNCHANGED <<request, overlapped>>
        /\ Finish(h)
        /\ UNCHANGED <<roster, slot, drop, deleted, forced, restored>>

-----------------------------------------------------------------------------
(* DELETE /dayoff/:id : cancelDayOffRequest *)

CancelOpen(h, r) ==
    /\ request[r].status \in {"PENDING", "REJECTED"}
    /\ Begin(h, [Idle EXCEPT !.op = "cancel", !.pc = "delete", !.r = r])
    /\ UNCHANGED Tables

\* By id, whatever the status is by now.
CancelDelete(h) ==
    LET r == req[h].r
    IN  /\ At(h, "delete")
        /\ ~Locked(r)
        /\ IF RowExists(r)
             THEN /\ request' = [request EXCEPT ![r].status = "DELETED"]
                  /\ Mark(h, r)
             ELSE UNCHANGED <<request, overlapped>>
        /\ Finish(h)
        /\ UNCHANGED <<roster, slot, drop, deleted, forced, restored>>

-----------------------------------------------------------------------------
(* The drafts: an edit of a cell, and publishSchedule *)

EditOpen(h, s, d) ==
    /\ roster[RosterOf[s]] = "DRAFT"
    /\ slot[s].status # "GONE"
    /\ Begin(h, [Idle EXCEPT !.op = "edit", !.pc = "edit", !.s = s, !.drv = d])
    /\ UNCHANGED Tables

\* By id: the roster may have been published since.
EditWrite(h) ==
    LET s == req[h].s
    IN  /\ At(h, "edit")
        /\ IF slot[s].status # "GONE" /\ req[h].drv \notin deleted
             THEN /\ slot' = [slot EXCEPT ![s].driver = req[h].drv]
                  /\ Mark(h, s)
             ELSE UNCHANGED <<slot, overlapped>>
        /\ Finish(h)
        /\ UNCHANGED <<request, roster, drop, deleted, forced, restored>>

PublishOpen(h, k, force) ==
    /\ roster[k] = "DRAFT"
    /\ Begin(h, [Idle EXCEPT !.op = "publish", !.pc = "duplicates", !.k = k, !.force = force])
    /\ UNCHANGED Tables

\* dupGroups: a driver with two working slots on one date.
Doubled(k) ==
    \E s, t \in Slots : /\ s # t /\ RosterOf[s] = k /\ RosterOf[t] = k
                        /\ Working(s) /\ Working(t)
                        /\ slot[s].driver = slot[t].driver /\ DateOf[s] = DateOf[t]

PublishDuplicates(h) ==
    /\ At(h, "duplicates")
    /\ IF Doubled(req[h].k) /\ ~req[h].force THEN Finish(h) ELSE Goto(h, "inspect")
    /\ UNCHANGED Tables

\* The working slots, as the inspection reads them.
PublishInspect(h) ==
    /\ At(h, "inspect")
    /\ req' = [req EXCEPT ![h].pc = "leave",
                          ![h].seen = {<<slot[s].driver, DateOf[s]>> : s \in
                                           {t \in Slots : RosterOf[t] = req[h].k /\ Working(t)}}]
    /\ UNCHANGED Tables

\* E5: an approved request on a date the driver works.
PublishLeave(h) ==
    LET clash == \E r \in Requests : /\ request[r].status = "APPROVED"
                                     /\ <<request[r].driver, request[r].date>> \in req[h].seen
    IN  /\ At(h, "leave")
        /\ IF clash /\ ~req[h].force THEN Finish(h) ELSE Goto(h, "publish")
        /\ UNCHANGED Tables

PublishWrite(h) ==
    LET k == req[h].k
    IN  /\ At(h, "publish")
        /\ roster' = [roster EXCEPT ![k] = "PUBLISHED"]
        /\ forced' = IF req[h].force THEN forced \cup {k} ELSE forced
        /\ Finish(h)
        /\ UNCHANGED <<request, slot, drop, deleted, restored, overlapped>>

-----------------------------------------------------------------------------
(* The substitute desk, by its commits *)

DeskDrop(s) ==
    /\ "desk" \in Operations
    /\ drop[s].status = "NONE" /\ slot[s].status # "GONE"
    /\ drop' = [drop EXCEPT ![s] = NewDrop(slot[s].driver, Null)]
    /\ slot' = [slot EXCEPT ![s].status = "DROPPED"]
    /\ UNCHANGED <<request, roster, deleted, forced, restored, overlapped, req>>

\* Leave is not among the checks of an acceptance or a manual fill.
DeskFill(s, d) ==
    /\ "desk" \in Operations
    /\ drop[s].status = "OPEN" /\ d \notin deleted
    /\ drop' = [drop EXCEPT ![s].status = "FILLED"]
    /\ slot' = [slot EXCEPT ![s] = [status |-> "FILLED", driver |-> d]]
    /\ UNCHANGED <<request, roster, deleted, forced, restored, overlapped, req>>

DeskCancel(s) ==
    /\ "desk" \in Operations
    /\ drop[s].status # "NONE"
    /\ drop' = [drop EXCEPT ![s].status = "CANCELLED"]
    /\ slot' = [slot EXCEPT ![s].status = "SCHEDULED"]
    /\ restored' = restored \cup {s}
    /\ UNCHANGED <<request, roster, deleted, forced, overlapped, req>>

\* deleteUser: the requests, the slots and their drops in one transaction; a
\* request in a review's hands makes it wait.
DeleteUser(d) ==
    /\ "delete" \in Operations
    /\ d \notin deleted
    /\ \A r \in Requests : request[r].driver = d => ~Locked(r)
    /\ deleted' = deleted \cup {d}
    /\ request' = [r \in Requests |-> IF RowExists(r) /\ request[r].driver = d
                                        THEN [request[r] EXCEPT !.status = "DELETED"]
                                        ELSE request[r]]
    /\ slot' = [s \in Slots |-> IF slot[s].driver = d
                                  THEN [status |-> "GONE", driver |-> Null] ELSE slot[s]]
    /\ drop' = [s \in Slots |-> IF d \in {slot[s].driver, drop[s].driver} THEN NoDrop ELSE drop[s]]
    /\ UNCHANGED <<roster, forced, restored, overlapped, req>>

-----------------------------------------------------------------------------
Open(h) ==
    \/ \E d \in Applicants, t \in Dates : CreateOpen(h, d, t)
    \/ \E r \in Requests : \/ \E v \in {"APPROVED", "REJECTED"} : ReviewOpen(h, r, v)
                           \/ \E v \in {"APPROVED", "REJECTED"} : ToolOpen(h, r, v)
                           \/ CancelOpen(h, r)
    \/ \E s \in Slots, d \in Drivers : EditOpen(h, s, d)
    \/ \E k \in Rosters, force \in BOOLEAN : PublishOpen(h, k, force)

Continue(h) ==
    \/ CreateWrite(h)
    \/ ReviewUpdate(h) \/ ReviewRoster(h) \/ ReviewSlot(h) \/ ReviewDrop(h) \/ ReviewCommit(h)
    \/ ToolDecide(h)
    \/ CancelDelete(h)
    \/ EditWrite(h)
    \/ PublishDuplicates(h) \/ PublishInspect(h) \/ PublishLeave(h) \/ PublishWrite(h)

Desk == \E s \in Slots : DeskDrop(s) \/ DeskCancel(s) \/ \E d \in Drivers : DeskFill(s, d)

\* A statement throws or the process dies: an open transaction is rolled back.
Fail(h) == /\ req[h] # Idle
           /\ Finish(h)
           /\ UNCHANGED Tables

Next ==
    \/ \E h \in Handlers : Open(h) \/ Continue(h) \/ Fail(h)
    \/ Desk
    \/ \E d \in Drivers : DeleteUser(d)

Spec == Init /\ [][Next]_vars

-----------------------------------------------------------------------------
(* Properties *)

Steps == {"idle", "create", "update", "decide", "delete", "edit", "duplicates", "inspect",
          "leave", "publish"} \cup InTransaction

\* Every row has the columns and statuses of the schema, and every handler is at
\* one of the statements of the code with what it has read.
TypeOK ==
    /\ request \in [Requests -> [status : {"NONE", "PENDING", "APPROVED", "REJECTED", "DELETED"},
                                 driver : Drivers \cup {Null}, date : Dates \cup {Null},
                                 reviewed : BOOLEAN]]
    /\ roster \in [Rosters -> {"DRAFT", "PUBLISHED"}]
    /\ slot \in [Slots -> [status : {"SCHEDULED", "DROPPED", "FILLED", "GONE"},
                           driver : Drivers \cup {Null}]]
    /\ drop \in [Slots -> [status : {"NONE", "OPEN", "FILLED", "CANCELLED"},
                           driver : Drivers \cup {Null}, cause : Requests \cup {Null}]]
    /\ deleted \subseteq Drivers
    /\ forced \subseteq Rosters
    /\ restored \subseteq Slots
    /\ overlapped \subseteq Requests \cup Slots
    /\ req \in [Handlers -> [op : {"none", "create", "review", "tool", "cancel", "edit", "publish"},
                             pc : Steps, r : Requests \cup {Null}, drv : Drivers \cup {Null},
                             date : Dates \cup {Null}, s : Slots \cup {Null},
                             k : Rosters \cup {Null}, verdict : {"NONE", "APPROVED", "REJECTED"},
                             seen : SUBSET ((Drivers \cup {Null}) \X Dates),
                             force : BOOLEAN, met : BOOLEAN]]

Published == {k \in Rosters : roster[k] = "PUBLISHED"}

\* A shift of the driver on the day he has been given off, in a published roster.
WorksOnLeave(r, s) ==
    /\ request[r].status = "APPROVED"
    /\ slot[s].status = "SCHEDULED"
    /\ slot[s].driver = request[r].driver
    /\ DateOf[s] = request[r].date
    /\ RosterOf[s] \in Published

\* A shift of that day in that roster was given back by the desk, or edited beside
\* a publication.
Unsettled(s) ==
    \E q \in restored \cup overlapped : q \in Slots /\ RosterOf[q] = RosterOf[s] /\ DateOf[q] = DateOf[s]

\* While one roster of the month is published, leave the office approved is
\* honoured: whether the review or the publication came first, the driver is not
\* on the published roster that day, unless the office forced the publication, a
\* shift of the day was given back or edited beside a publication, or the review
\* ran beside a publication or another decision.
LeaveHonoured ==
    \A r \in Requests, s \in Slots :
        /\ WorksOnLeave(r, s)
        /\ request[r].reviewed
        /\ Published = {RosterOf[s]}
        => RosterOf[s] \in forced \/ r \in overlapped \/ Unsettled(s)

\* A decision stands: an approved request changes only when the user is deleted,
\* a rejected one is at most removed, unless two handlers had it in hand.
DecisionStands ==
    [][\A r \in Requests \ overlapped' :
          /\ request[r].status = "APPROVED" =>
                \/ request'[r].status = "APPROVED"
                \/ request'[r].status = "DELETED" /\ request[r].driver \in deleted'
          /\ request[r].status = "REJECTED" => request'[r].status \in {"REJECTED", "DELETED"}]_vars

\* A day of leave is counted once: a driver has one pending or approved request
\* for a date, unless two requests for it were sent at once.
OneRequestPerDay ==
    \A r, q \in Requests \ overlapped :
        Live(r) /\ Live(q) /\ request[r].driver = request[q].driver
                /\ request[r].date = request[q].date => r = q

\* A shift is taken from a driver only for leave he has got: the request behind an
\* open drop is approved, unless two handlers had the request in hand.
DropHasApproval ==
    \A s \in Slots : drop[s].cause # Null =>
        request[drop[s].cause].status = "APPROVED" \/ drop[s].cause \in overlapped

-----------------------------------------------------------------------------
(* What comments of the repository say and the code does not do *)

\* "트랜잭션으로 요청 업데이트 + 슬롯 드랍을 원자적으로": a request the office
\* approves takes the driver off the published rosters, even where nothing overlaps.
ApprovalDropsShift ==
    \A r \in Requests \ overlapped, s \in Slots :
        WorksOnLeave(r, s) /\ request[r].reviewed =>
            RosterOf[s] \in forced \/ s \in restored

\* "기사앱엔 '승인'인데 배차표엔 근무로 남아 있는 상태를 잡는다": approved leave beside a
\* shift in the one published roster is caught by the publication or the review,
\* also when the two overlap.
LeaveCaught ==
    \A r \in Requests, s \in Slots :
        WorksOnLeave(r, s) /\ request[r].reviewed /\ Published = {RosterOf[s]} =>
            RosterOf[s] \in forced \/ Unsettled(s)

\* "이미 처리된 요청입니다": a request is decided once, whoever decides beside.
DecidedOnce ==
    [][\A r \in Requests :
          request[r].status \in {"APPROVED", "REJECTED"} =>
              request'[r].status \in {request[r].status, "DELETED"}]_vars

\* "해당 날짜에 이미 휴무 요청이 있습니다": a second request for a date is refused, sent
\* at once or not.
SecondRefused ==
    \A r, q \in Requests :
        Live(r) /\ Live(q) /\ request[r].driver = request[q].driver
                /\ request[r].date = request[q].date => r = q

=============================================================================
