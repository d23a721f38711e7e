------------------------- MODULE EmergencyDropsProofs -------------------------
(***************************************************************************)
(* The rows of a slot and its drop agree in every reachable state, for any *)
(* number of drivers, slots, requests and sweeps.                          *)
(***************************************************************************)
EXTENDS EmergencyDrops, TLAPS

(* The inductive invariant.  The transaction of createEmergencyDrop writes  *)
(* the holder it read before, so what has to be carried along is that the  *)
(* holder of a slot without a drop cannot have changed under it, unless    *)
(* the user it read is gone and the transaction fails.                      *)

InFlight == {"create", "notify", "raise", "acceptCount", "acceptClaim",
             "fillClaim", "recordCheck", "record", "expire", "d2notify"}

Claiming == {"create", "acceptCount", "acceptClaim", "fillClaim", "recordCheck", "record"}

RequestsNameRows ==
    \A h \in Handlers \cup Sweeps :
        /\ req[h].pc \in InFlight => req[h].slot \in Slots
        /\ req[h].pc \in Claiming => req[h].drv \in Drivers

RowsNameUsers ==
    \A s \in Slots :
        /\ slot[s].status # "GONE" => slot[s].driver \in Drivers
        /\ slot[s].status = "GONE" => drop[s].status = "NONE" /\ slot[s].driver = Null
        /\ drop[s].status # "NONE" => drop[s].driver \in Drivers
        /\ drop[s].status = "NONE" => drop[s] = NoDrop
        /\ drop[s].status = "OPEN" => drop[s].filledBy = Null

\* Who gave the slot up, or would if it were dropped now.
Dropper(s) == IF drop[s].status = "NONE" THEN slot[s].driver ELSE drop[s].driver

CreateHoldsOwner ==
    \A h \in Handlers \cup Sweeps :
        req[h].pc = "create" /\ Exists(req[h].slot) =>
            Dropper(req[h].slot) = req[h].drv \/ user[req[h].drv] = "DELETED"

RowInv ==
    /\ TypeOK
    /\ SlotAgreesWithDrop
    /\ NoOrphanedVacancy
    /\ NoRowOfDeletedUser
    /\ RequestsNameRows
    /\ RowsNameUsers
    /\ CreateHoldsOwner

\* Ids tell the drops of one slot apart: a drop recreated on a slot has an id no
\* handler in flight holds, so none raises its level for an older broadcast.
IdsIssued ==
    /\ \A s \in Slots : drop[s].id <= lastId
    /\ \A h \in Handlers \cup Sweeps : req[h].id <= lastId

RaiseFollowsBroadcast ==
    \A h \in Handlers \cup Sweeps :
        req[h].pc = "raise" /\ DropRowLives(h) => BroadcastRan(req[h].slot)

BroadcastInv ==
    /\ RowInv
    /\ IdsIssued
    /\ RaiseFollowsBroadcast
    /\ RaisedOnlyAfterBroadcast
-----------------------------------------------------------------------------
(* What the writes do to the rows. *)

USE DEF SlotStatus, DropStatus, UserStatus, Steps, SlotRow, DropRow, RequestRow

Unchanged(s) == slot'[s] = slot[s] /\ drop'[s] = drop[s]

\* An idle handler, a handler at another statement and a new request are rows.
LEMMA RequestTypes ==
  ASSUME TypeOK, NEW h \in Handlers \cup Sweeps
  PROVE  /\ Finish(h) => req' \in [Handlers \cup Sweeps -> RequestRow]
         /\ \A pc \in Steps : Goto(h, pc) => req' \in [Handlers \cup Sweeps -> RequestRow]
  <1>1. Idle \in RequestRow
    BY DEF Idle
  <1>2. ASSUME NEW pc \in Steps, Goto(h, pc)
        PROVE  req' \in [Handlers \cup Sweeps -> RequestRow]
    <2> DEFINE row == [req[h] EXCEPT !.pc = pc]
    <2>0. req[h] \in RequestRow
      BY DEF TypeOK
    <2>1. row \in RequestRow
      BY <2>0
    <2>2. req' = [req EXCEPT ![h] = row]
      BY <1>2 DEF Goto
    <2> HIDE DEF row, RequestRow
    <2> QED BY <2>1, <2>2 DEF TypeOK
  <1> QED
    <2> HIDE DEF RequestRow, Idle
    <2> QED BY <1>1, <1>2 DEF TypeOK, Finish

\* A new request of a handler.
LEMMA RequestType ==
  ASSUME NEW pc \in Steps, NEW s \in Slots, NEW id \in Nat, NEW d \in Drivers \cup {Null}
  PROVE  Request(pc, s, id, d) \in RequestRow
  BY DEF Request

\* A claim writes the status and the new holder of both rows.
LEMMA AssignEffect ==
  ASSUME TypeOK, NEW s \in Slots, NEW d \in Drivers, Assign(s, d)
  PROVE  /\ slot' \in [Slots -> SlotRow] /\ drop' \in [Slots -> DropRow]
         /\ slot'[s].status = "FILLED" /\ slot'[s].driver = d
         /\ drop'[s].status = "FILLED" /\ drop'[s].filledBy = d
         /\ drop'[s].driver = drop[s].driver
         /\ drop'[s].id = drop[s].id /\ drop'[s].level = drop[s].level
         /\ \A t \in Slots \ {s} : Unchanged(t)
  <1> DEFINE old == [drop[s] EXCEPT !.status = "FILLED"]
             dr == [old EXCEPT !.filledBy = d]
             sl == [status |-> "FILLED", driver |-> d]
  <1>0. /\ old \in DropRow /\ old.status = "FILLED"
        /\ old.driver = drop[s].driver /\ old.id = drop[s].id /\ old.level = drop[s].level
    <2>1. drop[s] \in DropRow
      BY DEF TypeOK
    <2> QED BY <2>1
  <1>1. /\ dr \in DropRow /\ dr.status = "FILLED" /\ dr.filledBy = d
        /\ dr.driver = drop[s].driver /\ dr.id = drop[s].id /\ dr.level = drop[s].level
    <2> HIDE DEF old
    <2>1. dr \in DropRow
      BY <1>0
    <2> QED BY <1>0, <2>1
  <1>2. sl \in SlotRow /\ sl.status = "FILLED" /\ sl.driver = d
    OBVIOUS
  <1>3. drop' = [drop EXCEPT ![s] = dr] /\ slot' = [slot EXCEPT ![s] = sl]
    BY DEF Assign, TypeOK
  <1> HIDE DEF dr, sl
  <1> QED BY <1>1, <1>2, <1>3 DEF TypeOK, Unchanged

\* A cancellation or an expiry writes the two statuses and nothing else.
LEMMA SettleEffect ==
  ASSUME TypeOK, NEW s \in Slots, NEW ds \in DropStatus, NEW ss \in SlotStatus,
         Settle(s, ds, ss)
  PROVE  /\ slot' \in [Slots -> SlotRow] /\ drop' \in [Slots -> DropRow]
         /\ slot'[s].status = ss /\ slot'[s].driver = slot[s].driver
         /\ drop'[s].status = ds
         /\ drop'[s].driver = drop[s].driver /\ drop'[s].filledBy = drop[s].filledBy
         /\ drop'[s].id = drop[s].id /\ drop'[s].level = drop[s].level
         /\ \A t \in Slots \ {s} : Unchanged(t)
  <1> DEFINE dr == [drop[s] EXCEPT !.status = ds]
             sl == [slot[s] EXCEPT !.status = ss]
  <1>1. /\ dr \in DropRow /\ dr.status = ds
        /\ dr.driver = drop[s].driver /\ dr.filledBy = drop[s].filledBy
        /\ dr.id = drop[s].id /\ dr.level = drop[s].level
    BY DEF TypeOK
  <1>2. sl \in SlotRow /\ sl.status = ss /\ sl.driver = slot[s].driver
    BY DEF TypeOK
  <1>3. drop' = [drop EXCEPT ![s] = dr] /\ slot' = [slot EXCEPT ![s] = sl]
    BY DEF Settle
  <1> HIDE DEF dr, sl
  <1> QED BY <1>1, <1>2, <1>3 DEF TypeOK, Unchanged

\* A new drop and the slot it vacates.
LEMMA OpenEffect ==
  ASSUME TypeOK, NEW s \in Slots, NEW d \in Drivers, OpenDrop(s, d)
  PROVE  /\ slot' \in [Slots -> SlotRow] /\ drop' \in [Slots -> DropRow]
         /\ slot'[s].status = "DROPPED" /\ slot'[s].driver = slot[s].driver
         /\ drop'[s].status = "OPEN" /\ drop'[s].filledBy = Null
         /\ drop'[s].driver = d /\ drop'[s].id = lastId + 1 /\ drop'[s].level = 0
         /\ \A t \in Slots \ {s} : Unchanged(t)
         /\ lastId' = lastId + 1
         /\ broadcast' = [broadcast EXCEPT ![s] = NoBroadcast]
  <1> DEFINE dr == [id |-> lastId + 1, status |-> "OPEN", driver |-> d,
                    filledBy |-> Null, level |-> 0]
             sl == [slot[s] EXCEPT !.status = "DROPPED"]
  <1>1. /\ dr \in DropRow /\ dr.status = "OPEN" /\ dr.filledBy = Null
        /\ dr.driver = d /\ dr.id = lastId + 1 /\ dr.level = 0
    BY DEF TypeOK
  <1>2. sl \in SlotRow /\ sl.status = "DROPPED" /\ sl.driver = slot[s].driver
    BY DEF TypeOK
  <1>3. drop' = [drop EXCEPT ![s] = dr] /\ slot' = [slot EXCEPT ![s] = sl]
        /\ lastId' = lastId + 1 /\ broadcast' = [broadcast EXCEPT ![s] = NoBroadcast]
    BY DEF OpenDrop
  <1> HIDE DEF dr, sl
  <1> QED BY <1>1, <1>2, <1>3 DEF TypeOK, Unchanged

\* Raising the level of the drop in hand touches nothing else.
LEMMA RaiseEffect ==
  ASSUME TypeOK, NEW s \in Slots, drop' = [drop EXCEPT ![s].level = 1]
  PROVE  /\ drop' \in [Slots -> DropRow]
         /\ drop'[s].status = drop[s].status /\ drop'[s].driver = drop[s].driver
         /\ drop'[s].filledBy = drop[s].filledBy /\ drop'[s].id = drop[s].id
         /\ \A t \in Slots \ {s} : drop'[t] = drop[t]
  <1> DEFINE dr == [drop[s] EXCEPT !.level = 1]
  <1>1. /\ dr \in DropRow /\ dr.status = drop[s].status /\ dr.driver = drop[s].driver
        /\ dr.filledBy = drop[s].filledBy /\ dr.id = drop[s].id
    BY DEF TypeOK
  <1>2. drop' = [drop EXCEPT ![s] = dr]
    OBVIOUS
  <1> HIDE DEF dr
  <1> QED BY <1>1, <1>2 DEF TypeOK

-----------------------------------------------------------------------------
(* Type correctness *)

HIDE DEF SlotStatus, DropStatus, UserStatus, Steps, SlotRow, DropRow, RequestRow

\* The initial rows have their columns.
LEMMA TypeInit == Init => TypeOK
  <1> SUFFICES ASSUME Init PROVE TypeOK
    OBVIOUS
  <1> USE RosterAssumption, BoundAssumption
  <1>1. slot \in [Slots -> SlotRow]
    BY DEF Init, SlotRow, SlotStatus
  <1>2. drop \in [Slots -> DropRow]
    BY DEF Init, NoDrop, DropRow, DropStatus
  <1>3. req \in [Handlers \cup Sweeps -> RequestRow]
    BY DEF Init, Idle, RequestRow, Steps
  <1>4. broadcast \in [Slots -> BroadcastRow]
    BY DEF Init, NoBroadcast, BroadcastRow
  <1> QED BY <1>1, <1>2, <1>3, <1>4 DEF Init, TypeOK, UserStatus

\* A request that begins is a row, whoever makes it.
LEMMA BeginType ==
  ASSUME TypeOK, NEW h \in Handlers \cup Sweeps, NEW pc \in Steps, NEW s \in Slots,
         NEW id \in Nat, NEW d \in Drivers \cup {Null},
         req' = [req EXCEPT ![h] = Request(pc, s, id, d)]
  PROVE  req' \in [Handlers \cup Sweeps -> RequestRow]
  <1>1. Request(pc, s, id, d) \in RequestRow
    BY RequestType
  <1> QED BY <1>1 DEF TypeOK

\* The columns of a row of each table.
LEMMA Columns ==
  ASSUME TypeOK
  PROVE  /\ \A s \in Slots : /\ slot[s].status \in SlotStatus
                              /\ slot[s].driver \in Drivers \cup {Null}
                              /\ drop[s].status \in DropStatus
                              /\ drop[s].driver \in Drivers \cup {Null}
                              /\ drop[s].filledBy \in Drivers \cup {Null}
                              /\ drop[s].id \in Nat
                              /\ drop[s].level \in {0, 1}
         /\ \A h \in Handlers \cup Sweeps : /\ req[h].pc \in Steps
                                             /\ req[h].slot \in Slots \cup {Null}
                                             /\ req[h].id \in Nat
                                             /\ req[h].drv \in Drivers \cup {Null}
  BY DEF TypeOK, SlotRow, DropRow, RequestRow

-----------------------------------------------------------------------------
(* What a statement does to the handler that runs it. *)

\* The requests after a step: still rows that name slots and drivers, and a
\* pending creation is an old one or has just read the holder.
RequestsKept ==
    /\ req' \in [Handlers \cup Sweeps -> RequestRow]
    /\ RequestsNameRows'
    /\ \A h \in Handlers \cup Sweeps : req'[h].pc = "create" =>
          req'[h] = req[h] \/ req'[h].drv = Dropper(req'[h].slot)

\* A handler that ends.
LEMMA FinishKeeps ==
  ASSUME RowInv, NEW h \in Handlers \cup Sweeps, Finish(h)
  PROVE  RequestsKept
  <1>1. req' \in [Handlers \cup Sweeps -> RequestRow]
    BY RequestTypes DEF RowInv
  <1>2. Idle.pc = "idle"
    BY DEF Idle
  <1>3. \A k \in Handlers \cup Sweeps : req'[k] = req[k] \/ req'[k].pc = "idle"
    BY <1>2 DEF Finish, RowInv, TypeOK
  <1>4. RequestsNameRows'
    BY <1>3 DEF RequestsNameRows, RowInv, InFlight, Claiming
  <1> QED BY <1>1, <1>3, <1>4 DEF RequestsKept

\* A handler that goes on to its next statement, about the same rows.
LEMMA GotoKeeps ==
  ASSUME RowInv, NEW h \in Handlers \cup Sweeps, NEW pc \in InFlight \ {"create"}, Goto(h, pc),
         req[h].pc \in InFlight, pc \in Claiming => req[h].pc \in Claiming
  PROVE  RequestsKept
  <1>1. req' \in [Handlers \cup Sweeps -> RequestRow]
    BY RequestTypes DEF RowInv, Steps, InFlight
  <1>2. req[h] \in RequestRow
    BY DEF RowInv, TypeOK
  <1>3. req'[h] = [req[h] EXCEPT !.pc = pc]
    BY DEF Goto, RowInv, TypeOK
  <1>4. /\ req'[h].pc = pc
        /\ req'[h].slot = req[h].slot
        /\ req'[h].drv = req[h].drv
    BY <1>2, <1>3 DEF RequestRow
  <1>5. \A k \in Handlers \cup Sweeps : k # h => req'[k] = req[k]
    BY DEF Goto, RowInv, TypeOK
  <1>6. RequestsNameRows'
    BY <1>4, <1>5 DEF RequestsNameRows, RowInv
  <1> QED BY <1>1, <1>4, <1>5, <1>6 DEF RequestsKept

\* A handler that begins, with the slot and the driver it has read.
LEMMA BeginKeeps ==
  ASSUME RowInv, NEW h \in Handlers \cup Sweeps, NEW pc \in Steps, NEW s \in Slots,
         NEW id \in Nat, NEW d \in Drivers \cup {Null},
         req' = [req EXCEPT ![h] = Request(pc, s, id, d)],
         pc \in Claiming => d \in Drivers,
         pc = "create" => d = Dropper(s)
  PROVE  RequestsKept
  <1>1. req' \in [Handlers \cup Sweeps -> RequestRow]
    BY BeginType DEF RowInv
  <1>2. req'[h].pc = pc /\ req'[h].slot = s /\ req'[h].drv = d
    BY DEF Request, RowInv, TypeOK
  <1>3. \A k \in Handlers \cup Sweeps : k # h => req'[k] = req[k]
    BY DEF RowInv, TypeOK
  <1>4. RequestsNameRows'
    BY <1>2, <1>3 DEF RequestsNameRows, RowInv
  <1> QED BY <1>1, <1>2, <1>3, <1>4 DEF RequestsKept

-----------------------------------------------------------------------------
(* One step of each kind keeps the rows in agreement. *)

\* What a step leaves in the tables that hold no driver and no status.
CountersTyped ==
    /\ user' \in [Drivers -> UserStatus]
    /\ lastId' \in Nat
    /\ broadcast' \in [Slots -> BroadcastRow]
    /\ now' \in 0 .. MaxTime
    /\ faults' \in 0 .. MaxFaults

\* A step that writes neither rows nor users.
LEMMA QuietStep ==
  ASSUME RowInv, RequestsKept, CountersTyped, UNCHANGED <<slot, drop, user>>
  PROVE  RowInv'
  <1>1. TypeOK'
    BY DEF RowInv, TypeOK, RequestsKept, CountersTyped
  <1>2. SlotAgreesWithDrop' /\ NoOrphanedVacancy' /\ NoRowOfDeletedUser' /\ RowsNameUsers'
    BY DEF RowInv, SlotAgreesWithDrop, NoOrphanedVacancy, NoRowOfDeletedUser, RowsNameUsers
  <1>3. CreateHoldsOwner'
    BY DEF RowInv, RequestsKept, CreateHoldsOwner, Dropper, Exists
  <1> QED BY <1>1, <1>2, <1>3 DEF RowInv, RequestsKept

\* A claim: both rows name the claimant, who is still a user.
LEMMA AssignStep ==
  ASSUME RowInv, RequestsKept, CountersTyped, UNCHANGED user,
         NEW s \in Slots, NEW d \in Drivers, user[d] # "DELETED", drop[s].status # "NONE",
         Assign(s, d)
  PROVE  RowInv'
  <1>1. /\ slot' \in [Slots -> SlotRow] /\ drop' \in [Slots -> DropRow]
        /\ slot'[s].status = "FILLED" /\ slot'[s].driver = d
        /\ drop'[s].status = "FILLED" /\ drop'[s].filledBy = d
        /\ drop'[s].driver = drop[s].driver
        /\ \A t \in Slots \ {s} : slot'[t] = slot[t] /\ drop'[t] = drop[t]
    BY AssignEffect DEF RowInv, Unchanged
  <1>2. TypeOK'
    BY <1>1 DEF TypeOK, RequestsKept, CountersTyped
  <1>3. SlotAgreesWithDrop'
    BY <1>1, RosterAssumption DEF RowInv, SlotAgreesWithDrop, StatusUnder
  <1>4. NoOrphanedVacancy'
    BY <1>1 DEF RowInv, NoOrphanedVacancy
  <1>5. NoRowOfDeletedUser'
    BY <1>1 DEF RowInv, NoRowOfDeletedUser
  <1>6. RowsNameUsers'
    BY <1>1 DEF RowInv, RowsNameUsers
  <1>7. CreateHoldsOwner'
    <2>1. \A t \in Slots : Dropper(t)' = Dropper(t) /\ (Exists(t)' => Exists(t))
      BY <1>1 DEF Dropper, Exists, RowInv, RowsNameUsers
    <2>2. \A h \in Handlers \cup Sweeps : req'[h].pc = "create" => req'[h].slot \in Slots
      BY DEF RequestsKept, RequestsNameRows, InFlight
    <2> QED BY <2>1, <2>2 DEF RowInv, CreateHoldsOwner, RequestsKept
  <1> QED BY <1>2, <1>3, <1>4, <1>5, <1>6, <1>7 DEF RowInv, RequestsKept

\* A cancellation or an expiry: the holder stays, the two statuses go together.
LEMMA SettleStep ==
  ASSUME RowInv, RequestsKept, CountersTyped, UNCHANGED user,
         NEW s \in Slots, drop[s].status # "NONE",
         \/ Settle(s, "CANCELLED", "SCHEDULED")
         \/ Settle(s, "EXPIRED", "ABSENT")
  PROVE  RowInv'
  <1>1. PICK ds \in DropStatus, ss \in SlotStatus :
           /\ Settle(s, ds, ss)
           /\ \/ ds = "CANCELLED" /\ ss = "SCHEDULED"
              \/ ds = "EXPIRED" /\ ss = "ABSENT"
    BY DEF DropStatus, SlotStatus
  <1>2. /\ slot' \in [Slots -> SlotRow] /\ drop' \in [Slots -> DropRow]
        /\ slot'[s].status = ss /\ slot'[s].driver = slot[s].driver
        /\ drop'[s].status = ds
        /\ drop'[s].driver = drop[s].driver /\ drop'[s].filledBy = drop[s].filledBy
        /\ \A t \in Slots \ {s} : slot'[t] = slot[t] /\ drop'[t] = drop[t]
    BY <1>1, SettleEffect DEF RowInv, Unchanged
  <1>3. TypeOK'
    BY <1>2 DEF TypeOK, RequestsKept, CountersTyped
  <1>4. SlotAgreesWithDrop'
    BY <1>1, <1>2 DEF RowInv, SlotAgreesWithDrop, StatusUnder
  <1>5. NoOrphanedVacancy'
    BY <1>1, <1>2 DEF RowInv, NoOrphanedVacancy
  <1>6. NoRowOfDeletedUser'
    BY <1>2 DEF RowInv, NoRowOfDeletedUser
  <1>7. RowsNameUsers'
    BY <1>1, <1>2 DEF RowInv, RowsNameUsers
  <1>8. CreateHoldsOwner'
    <2>1. \A t \in Slots : Dropper(t)' = Dropper(t) /\ (Exists(t)' => Exists(t))
      BY <1>1, <1>2 DEF Dropper, Exists, RowInv, RowsNameUsers
    <2>2. \A h \in Handlers \cup Sweeps : req'[h].pc = "create" => req'[h].slot \in Slots
      BY DEF RequestsKept, RequestsNameRows, InFlight
    <2> QED BY <2>1, <2>2 DEF RowInv, CreateHoldsOwner, RequestsKept
  <1> QED BY <1>3, <1>4, <1>5, <1>6, <1>7, <1>8 DEF RowInv, RequestsKept

\* A creation: the holder that was read is still the holder, because the slot has
\* no drop yet and the user is still there.
LEMMA OpenStep ==
  ASSUME RowInv, RequestsKept, CountersTyped, UNCHANGED user,
         NEW s \in Slots, NEW d \in Drivers, user[d] # "DELETED",
         Exists(s), drop[s].status = "NONE", slot[s].driver = d,
         OpenDrop(s, d)
  PROVE  RowInv'
  <1>1. /\ slot' \in [Slots -> SlotRow] /\ drop' \in [Slots -> DropRow]
        /\ slot'[s].status = "DROPPED" /\ slot'[s].driver = slot[s].driver
        /\ drop'[s].status = "OPEN" /\ drop'[s].filledBy = Null
        /\ drop'[s].driver = d
        /\ \A t \in Slots \ {s} : slot'[t] = slot[t] /\ drop'[t] = drop[t]
    BY OpenEffect DEF RowInv, Unchanged
  <1>2. TypeOK'
    BY <1>1 DEF TypeOK, RequestsKept, CountersTyped
  <1>3. SlotAgreesWithDrop'
    BY <1>1 DEF RowInv, SlotAgreesWithDrop, StatusUnder
  <1>4. NoOrphanedVacancy'
    BY <1>1 DEF RowInv, NoOrphanedVacancy
  <1>5. NoRowOfDeletedUser'
    BY <1>1, RosterAssumption DEF RowInv, NoRowOfDeletedUser
  <1>6. RowsNameUsers'
    BY <1>1 DEF RowInv, RowsNameUsers
  <1>7. CreateHoldsOwner'
    <2>1. \A t \in Slots : Dropper(t)' = Dropper(t) /\ (Exists(t)' => Exists(t))
      BY <1>1 DEF Dropper, Exists
    <2>2. \A h \in Handlers \cup Sweeps : req'[h].pc = "create" => req'[h].slot \in Slots
      BY DEF RequestsKept, RequestsNameRows, InFlight
    <2> QED BY <2>1, <2>2 DEF RowInv, CreateHoldsOwner, RequestsKept
  <1> QED BY <1>2, <1>3, <1>4, <1>5, <1>6, <1>7 DEF RowInv, RequestsKept

\* A level raised: no other column moves.
LEMMA RaiseStep ==
  ASSUME RowInv, RequestsKept, CountersTyped, UNCHANGED <<slot, user>>,
         NEW s \in Slots, drop[s].status # "NONE", drop' = [drop EXCEPT ![s].level = 1]
  PROVE  RowInv'
  <1>1. /\ drop' \in [Slots -> DropRow]
        /\ drop'[s].status = drop[s].status /\ drop'[s].driver = drop[s].driver
        /\ drop'[s].filledBy = drop[s].filledBy
        /\ \A t \in Slots \ {s} : drop'[t] = drop[t]
    BY RaiseEffect DEF RowInv
  <1>2. TypeOK'
    BY <1>1 DEF RowInv, TypeOK, RequestsKept, CountersTyped
  <1>3. SlotAgreesWithDrop' /\ NoOrphanedVacancy'
    BY <1>1 DEF RowInv, SlotAgreesWithDrop, NoOrphanedVacancy
  <1>4. NoRowOfDeletedUser' /\ RowsNameUsers'
    BY <1>1 DEF RowInv, NoRowOfDeletedUser, RowsNameUsers
  <1>5. CreateHoldsOwner'
    <2>1. \A t \in Slots : Dropper(t)' = Dropper(t) /\ (Exists(t)' => Exists(t))
      BY <1>1 DEF Dropper, Exists
    <2>2. \A h \in Handlers \cup Sweeps : req'[h].pc = "create" => req'[h].slot \in Slots
      BY DEF RequestsKept, RequestsNameRows, InFlight
    <2> QED BY <2>1, <2>2 DEF RowInv, CreateHoldsOwner, RequestsKept
  <1> QED BY <1>2, <1>3, <1>4, <1>5 DEF RowInv, RequestsKept

\* Slots go with their drops.
LEMMA PurgeStep ==
  ASSUME RowInv, NEW S, Purge(S), UNCHANGED <<user, req, lastId, broadcast, now, faults>>
  PROVE  RowInv'
  <1>1. /\ \A s \in Slots : s \in S => slot'[s] = [status |-> "GONE", driver |-> Null] /\ drop'[s] = NoDrop
        /\ \A s \in Slots : s \notin S => slot'[s] = slot[s] /\ drop'[s] = drop[s]
    BY DEF Purge
  <1>2. /\ [status |-> "GONE", driver |-> Null] \in SlotRow
        /\ NoDrop \in DropRow
        /\ NoDrop.status = "NONE" /\ NoDrop.driver = Null /\ NoDrop.filledBy = Null
    BY DEF SlotRow, SlotStatus, NoDrop, DropRow, DropStatus
  <1> HIDE DEF NoDrop
  <1>3. slot' \in [Slots -> SlotRow] /\ drop' \in [Slots -> DropRow]
    BY <1>1, <1>2 DEF RowInv, TypeOK, Purge
  <1>4. TypeOK'
    BY <1>3 DEF RowInv, TypeOK
  <1>5. SlotAgreesWithDrop'
    BY <1>1, <1>2 DEF RowInv, SlotAgreesWithDrop
  <1>6. NoOrphanedVacancy'
    BY <1>1, <1>2 DEF RowInv, NoOrphanedVacancy
  <1>7. NoRowOfDeletedUser'
    BY <1>1, <1>2, RosterAssumption DEF RowInv, NoRowOfDeletedUser
  <1>8. RowsNameUsers'
    BY <1>1, <1>2 DEF RowInv, RowsNameUsers
  <1>9. CreateHoldsOwner' /\ RequestsNameRows'
    BY <1>1, <1>2 DEF RowInv, CreateHoldsOwner, RequestsNameRows, Dropper, Exists, InFlight
  <1> QED BY <1>4, <1>5, <1>6, <1>7, <1>8, <1>9 DEF RowInv

\* A user goes with every row that names him.  A drop he raised for a slot that
\* somebody else now holds goes alone, and that slot has a holder.
LEMMA DeleteUserStep ==
  ASSUME RowInv, NEW d \in Drivers, DeleteUser(d)
  PROVE  RowInv'
  <1> DEFINE gone == [status |-> "GONE", driver |-> Null]
  <1>1. \A s \in Slots :
          /\ slot[s].driver = d => slot'[s] = gone /\ drop'[s] = NoDrop
          /\ slot[s].driver # d => slot'[s] = slot[s]
          /\ drop[s].driver = d \/ drop[s].filledBy = d => drop'[s] = NoDrop
          /\ drop'[s] = drop[s] \/ drop'[s] = NoDrop
          /\ slot[s].driver # d /\ drop[s].driver # d /\ drop[s].filledBy # d => drop'[s] = drop[s]
    BY DEF DeleteUser
  <1>2. /\ gone \in SlotRow /\ gone.status = "GONE" /\ gone.driver = Null
        /\ NoDrop \in DropRow
        /\ NoDrop.status = "NONE" /\ NoDrop.driver = Null /\ NoDrop.filledBy = Null
    BY DEF SlotRow, SlotStatus, NoDrop, DropRow, DropStatus
  <1>3. /\ user'[d] = "DELETED"
        /\ \A e \in Drivers : e # d => user'[e] = user[e]
        /\ user' \in [Drivers -> UserStatus]
    BY DEF DeleteUser, RowInv, TypeOK, UserStatus
  <1>a. UNCHANGED <<req, lastId, broadcast, now, faults>>
    BY DEF DeleteUser
  <1>b. slot' \in [Slots -> SlotRow] /\ drop' \in [Slots -> DropRow]
    <2>1. \A s \in Slots : slot'[s] \in SlotRow /\ drop'[s] \in DropRow
      BY <1>1, <1>2 DEF RowInv, TypeOK
    <2>2. /\ slot' = [s \in Slots |-> slot'[s]]
          /\ drop' = [s \in Slots |-> drop'[s]]
      BY DEF DeleteUser
    <2> QED BY <2>1, <2>2
  <1> HIDE DEF gone
  <1>4. TypeOK'
    BY <1>3, <1>a, <1>b DEF RowInv, TypeOK
  <1>5. SlotAgreesWithDrop'
    BY <1>1, <1>2 DEF RowInv, SlotAgreesWithDrop
  <1>6. NoOrphanedVacancy'
    <2> SUFFICES ASSUME NEW s \in Slots, slot'[s].status = "DROPPED"
                 PROVE  drop'[s].status = "OPEN"
      BY DEF NoOrphanedVacancy
    <2>1. slot[s].driver # d /\ slot[s].status = "DROPPED" /\ drop[s].status = "OPEN"
      BY <1>1, <1>2 DEF RowInv, NoOrphanedVacancy
    <2>2. drop[s].driver # d /\ drop[s].filledBy # d
      BY <2>1, <1>1, RosterAssumption DEF RowInv, SlotAgreesWithDrop, RowsNameUsers
    <2> QED BY <1>1, <2>1, <2>2
  <1>7. NoRowOfDeletedUser'
    BY <1>1, <1>2, <1>3, RosterAssumption DEF RowInv, NoRowOfDeletedUser
  <1>8. RowsNameUsers'
    BY <1>1, <1>2 DEF RowInv, RowsNameUsers
  <1>9. CreateHoldsOwner'
    <2> SUFFICES ASSUME NEW h \in Handlers \cup Sweeps,
                        req[h].pc = "create", Exists(req[h].slot)'
                 PROVE  Dropper(req[h].slot)' = req[h].drv \/ user'[req[h].drv] = "DELETED"
      BY <1>a DEF CreateHoldsOwner
    <2> DEFINE s == req[h].slot
    <2>1. s \in Slots /\ req[h].drv \in Drivers
      BY DEF RowInv, RequestsNameRows, InFlight, Claiming
    <2>2. slot[s].driver # d /\ slot'[s] = slot[s] /\ Exists(s)
      BY <1>1, <1>2, <1>a, <2>1 DEF Exists
    <2>3. Dropper(s) = req[h].drv \/ user[req[h].drv] = "DELETED"
      BY <2>2 DEF RowInv, CreateHoldsOwner
    <2>4. CASE req[h].drv = d
      BY <2>4, <1>3
    <2>5. CASE req[h].drv # d
      <3>1. CASE drop'[s] = drop[s]
        BY <3>1, <1>a, <2>1, <2>2, <2>3, <2>5, <1>3 DEF Dropper
      <3>2. CASE drop'[s] # drop[s]
        <4>1. drop[s].driver = d \/ drop[s].filledBy = d
          BY <3>2, <1>1, <2>1, <2>2
        <4>2. drop[s].status # "NONE" /\ drop[s].driver = d
          BY <4>1, <2>1, <2>2, <1>2, RosterAssumption
             DEF RowInv, RowsNameUsers, SlotAgreesWithDrop
        <4> QED BY <4>2, <1>a, <2>1, <2>3, <2>5, <1>3 DEF Dropper
      <3> QED BY <3>1, <3>2
    <2> QED BY <2>4, <2>5
  <1>10. RequestsNameRows'
    BY <1>a DEF RowInv, RequestsNameRows
  <1> QED BY <1>4, <1>5, <1>6, <1>7, <1>8, <1>9, <1>10 DEF RowInv

\* A user is deactivated or reactivated.
LEMMA SetActiveStep ==
  ASSUME RowInv, NEW d \in Drivers, NEW status \in {"ACTIVE", "INACTIVE"}, SetActive(d, status)
  PROVE  RowInv'
  <1>1. /\ user' \in [Drivers -> UserStatus]
        /\ \A e \in Drivers : (user'[e] = "DELETED") <=> (user[e] = "DELETED")
        /\ UNCHANGED <<slot, drop, req, lastId, broadcast, now, faults>>
    BY DEF SetActive, RowInv, TypeOK, UserStatus
  <1>2. TypeOK'
    BY <1>1 DEF RowInv, TypeOK
  <1>3. NoRowOfDeletedUser'
    BY <1>1 DEF RowInv, NoRowOfDeletedUser
  <1>4. CreateHoldsOwner'
    BY <1>1 DEF RowInv, CreateHoldsOwner, Dropper, Exists, RequestsNameRows, Claiming
  <1>5. SlotAgreesWithDrop' /\ NoOrphanedVacancy' /\ RequestsNameRows' /\ RowsNameUsers'
    BY <1>1 DEF RowInv, SlotAgreesWithDrop, NoOrphanedVacancy, RequestsNameRows, RowsNameUsers
  <1> QED BY <1>2, <1>3, <1>4, <1>5 DEF RowInv

\* A request begins: nothing is written.
LEMMA BeginStep ==
  ASSUME RowInv, NEW h \in Handlers, Begin(h)
  PROVE  RowInv'
  <1>1. PICK s \in Slots :
          \/ CreateRead(h, s)
          \/ \E d \in Drivers : \/ AcceptRead(h, s, d)
                                \/ \E override \in BOOLEAN : FillRead(h, s, d, override)
                                \/ RecordRead(h, s, d)
    BY DEF Begin
  <1>2. CASE CreateRead(h, s)
    <2>1. slot[s].driver = Dropper(s) /\ slot[s].driver \in Drivers
      BY <1>2 DEF CreateRead, Dropper, Exists, RowInv, RowsNameUsers
    <2>2. RequestsKept
      BY <1>2, <2>1, BeginKeeps DEF CreateRead, Steps
    <2> QED BY <1>2, <2>2, QuietStep DEF CreateRead, CountersTyped, RowInv, TypeOK
  <1>3. CASE \E d \in Drivers : \/ AcceptRead(h, s, d)
                                \/ \E override \in BOOLEAN : FillRead(h, s, d, override)
                                \/ RecordRead(h, s, d)
    <2>1. PICK d \in Drivers, pc \in Steps :
            /\ pc # "create"
            /\ req' = [req EXCEPT ![h] = Request(pc, s, drop[s].id, d)]
            /\ UNCHANGED <<slot, drop, user, lastId, broadcast, now, faults>>
      BY <1>3 DEF AcceptRead, FillRead, RecordRead, Steps
    <2>2. drop[s].id \in Nat
      BY Columns DEF RowInv
    <2>3. RequestsKept
      BY <2>1, <2>2, BeginKeeps
    <2> QED BY <2>1, <2>3, QuietStep DEF CountersTyped, RowInv, TypeOK
  <1> QED BY <1>1, <1>2, <1>3

\* A sweep takes up a drop: nothing is written.
LEMMA SweepStep ==
  ASSUME RowInv, NEW h \in Sweeps, NEW s \in Slots, ExpireRead(h, s) \/ D2Read(h, s)
  PROVE  RowInv'
  <1>1. PICK pc \in {"expire", "d2notify"} :
            /\ req' = [req EXCEPT ![h] = Request(pc, s, drop[s].id, Null)]
            /\ UNCHANGED <<slot, drop, user, lastId, broadcast, now, faults>>
    BY DEF ExpireRead, D2Read
  <1>2. drop[s].id \in Nat
    BY Columns DEF RowInv
  <1>p. pc \in Steps /\ pc \notin Claiming
    BY DEF Steps, Claiming
  <1>3. RequestsKept
    BY <1>1, <1>2, <1>p, BeginKeeps
  <1> QED BY <1>1, <1>3, QuietStep DEF CountersTyped, RowInv, TypeOK

\* What a broadcast leaves on record, and that one has then run.
LEMMA AnnouncedRow ==
  ASSUME NEW b \in BroadcastRow, NEW reached \in BOOLEAN
  PROVE  /\ Announced(b, reached) \in BroadcastRow
         /\ Announced(b, reached).told >= b.told
         /\ b.vain => Announced(b, reached).vain
         /\ Announced(b, reached).told > 0 \/ Announced(b, reached).vain
  <1> DEFINE n == IF b.told < MaxUrgent THEN b.told + 1 ELSE b.told
  <1>1. b.told \in 0 .. MaxUrgent /\ b.vain \in BOOLEAN
    BY DEF BroadcastRow
  <1>2. n \in 0 .. MaxUrgent /\ n >= b.told /\ n > 0 /\ b.told >= b.told
    BY <1>1, BoundAssumption
  <1>3. CASE reached
    <2>1. Announced(b, reached) = [told |-> n, vain |-> b.vain]
      BY <1>3 DEF Announced
    <2> HIDE DEF n
    <2> QED BY <1>1, <1>2, <2>1 DEF BroadcastRow
  <1>4. CASE ~reached
    <2>1. Announced(b, reached) = [told |-> b.told, vain |-> TRUE]
      BY <1>4 DEF Announced
    <2> QED BY <1>1, <1>2, <2>1 DEF BroadcastRow
  <1> QED BY <1>3, <1>4

\* The record of the broadcasts keeps its type.
LEMMA BroadcastTyped ==
  ASSUME RowInv, NEW h \in Handlers \cup Sweeps, Broadcast(h)
  PROVE  broadcast' \in [Slots -> BroadcastRow]
  <1> DEFINE s == req[h].slot
  <1>1. broadcast \in [Slots -> BroadcastRow]
    BY DEF RowInv, TypeOK
  <1>2. PICK reached \in BOOLEAN :
            broadcast' = IF DropRowLives(h)
                           THEN [broadcast EXCEPT ![s] = Announced(broadcast[s], reached)]
                           ELSE broadcast
    BY DEF Broadcast
  <1>3. s \in Slots => Announced(broadcast[s], reached) \in BroadcastRow
    BY <1>1, AnnouncedRow
  <1> HIDE DEF s
  <1> QED BY <1>1, <1>2, <1>3

\* The next statement of a handler in flight.
LEMMA ContinueStep ==
  ASSUME RowInv, NEW h \in Handlers \cup Sweeps, Continue(h)
  PROVE  RowInv'
  <1> DEFINE s == req[h].slot
             d == req[h].drv
  <1>1. CASE CreateCommit(h)
    <2>1. req[h].pc = "create" /\ s \in Slots /\ d \in Drivers
      BY <1>1 DEF CreateCommit, RowInv, RequestsNameRows, InFlight, Claiming
    <2>2. user[d] # "DELETED" /\ Exists(s) /\ drop[s].status = "NONE" /\ OpenDrop(s, d) /\ UNCHANGED <<user, now, faults>>
      BY <1>1 DEF CreateCommit
    <2>3. slot[s].driver = d
      BY <2>1, <2>2 DEF RowInv, CreateHoldsOwner, Dropper
    <2>4. lastId' = lastId + 1 /\ broadcast' = [broadcast EXCEPT ![s] = NoBroadcast]
      BY <2>2 DEF OpenDrop
    <2>5. req' = [req EXCEPT ![h] = Request("notify", s, lastId + 1, d)]
      <3>1. req[h] \in RequestRow
        BY DEF RowInv, TypeOK
      <3>2. req' = [req EXCEPT ![h] = [[req[h] EXCEPT !.pc = "notify"] EXCEPT !.id = lastId + 1]]
        BY <1>1 DEF CreateCommit, RowInv, TypeOK
      <3>3. [[req[h] EXCEPT !.pc = "notify"] EXCEPT !.id = lastId + 1]
              = Request("notify", s, lastId + 1, d)
        <4> DEFINE row == [req[h] EXCEPT !.pc = "notify"]
        <4>1. row = Request("notify", s, req[h].id, d)
          BY <3>1 DEF RequestRow, Request
        <4>2. [row EXCEPT !.id = lastId + 1] = Request("notify", s, lastId + 1, d)
          <5> HIDE DEF row
          <5> QED BY <4>1 DEF Request
        <4> QED BY <4>2
      <3> QED BY <3>2, <3>3
    <2>6. RequestsKept
      <3>1. "notify" \in Steps /\ "notify" \notin Claiming /\ "notify" # "create"
        BY DEF Steps, Claiming
      <3>2. lastId + 1 \in Nat
        BY DEF RowInv, TypeOK
      <3> HIDE DEF s, d
      <3> QED BY <2>1, <2>5, <3>1, <3>2, BeginKeeps
    <2>7. CountersTyped
      <3>1. broadcast' \in [Slots -> BroadcastRow]
        <4>1. broadcast \in [Slots -> BroadcastRow] /\ NoBroadcast \in BroadcastRow
          BY BoundAssumption DEF RowInv, TypeOK, NoBroadcast, BroadcastRow
        <4> HIDE DEF s
        <4> QED BY <2>4, <4>1
      <3> QED BY <2>2, <2>4, <3>1 DEF CountersTyped, RowInv, TypeOK
    <2> HIDE DEF s, d
    <2> QED BY <2>1, <2>2, <2>3, <2>6, <2>7, OpenStep
  <1>2. CASE CreateReject(h) \/ CreateNotifyPlain(h)
    BY <1>2, FinishKeeps, QuietStep DEF CreateReject, CreateNotifyPlain, CountersTyped, RowInv, TypeOK
  <1>3. CASE CreateNotifyUrgent(h) \/ D2Notify(h)
    <2>1. /\ req[h].pc \in {"notify", "d2notify"}
          /\ Broadcast(h)
          /\ UNCHANGED <<slot, drop, user, lastId, now, faults>>
      BY <1>3 DEF CreateNotifyUrgent, D2Notify
    <2>2. RequestsKept
      BY <2>1, GotoKeeps DEF Broadcast, InFlight, Claiming
    <2> QED BY <2>1, <2>2, BroadcastTyped, QuietStep DEF CountersTyped, RowInv, TypeOK
  <1>4. CASE RaiseLevel(h)
    <2>1. s \in Slots
      BY <1>4 DEF RaiseLevel, RowInv, RequestsNameRows, InFlight
    <2>2. RequestsKept /\ CountersTyped /\ UNCHANGED <<slot, user>>
      BY <1>4, FinishKeeps DEF RaiseLevel, CountersTyped, RowInv, TypeOK
    <2>3. CASE DropRowLives(h)
      <3>1. drop[s].status # "NONE" /\ drop' = [drop EXCEPT ![s].level = 1]
        BY <1>4, <2>3 DEF RaiseLevel, DropRowLives
      <3> HIDE DEF s
      <3> QED BY <2>1, <2>2, <3>1, RaiseStep
    <2>4. CASE ~DropRowLives(h)
      BY <1>4, <2>2, <2>4, QuietStep DEF RaiseLevel
    <2> QED BY <2>3, <2>4
  <1>5. CASE AcceptCount(h) \/ RecordCheck(h)
    <2>1. /\ req[h].pc \in {"acceptCount", "recordCheck"}
          /\ Finish(h) \/ Goto(h, "acceptClaim") \/ Goto(h, "record")
          /\ UNCHANGED <<slot, drop, user, lastId, broadcast, now, faults>>
      BY <1>5 DEF AcceptCount, RecordCheck
    <2>2. RequestsKept
      BY <2>1, FinishKeeps, GotoKeeps DEF InFlight, Claiming
    <2> QED BY <2>1, <2>2, QuietStep DEF CountersTyped, RowInv, TypeOK
  <1>6. CASE Claim(h) \/ RecordCommit(h)
    <2>1. s \in Slots /\ d \in Drivers
      BY <1>6 DEF Claim, RecordCommit, RowInv, RequestsNameRows, InFlight, Claiming
    <2>2. /\ \/ Assign(s, d) /\ user[d] # "DELETED" /\ drop[s].status # "NONE"
             \/ UNCHANGED <<drop, slot>>
          /\ Finish(h) /\ UNCHANGED <<user, lastId, broadcast, now, faults>>
      BY <1>6 DEF Claim, RecordCommit, ClaimMatches, DropRowLives
    <2>3. RequestsKept /\ CountersTyped
      BY <2>2, FinishKeeps DEF CountersTyped, RowInv, TypeOK
    <2> HIDE DEF s, d
    <2> QED BY <2>1, <2>2, <2>3, AssignStep, QuietStep
  <1>7. CASE ExpireCommit(h)
    <2>1. s \in Slots
      BY <1>7 DEF ExpireCommit, RowInv, RequestsNameRows, InFlight
    <2>2. /\ \/ Settle(s, "EXPIRED", "ABSENT") /\ drop[s].status # "NONE"
             \/ UNCHANGED <<drop, slot>>
          /\ Finish(h) /\ UNCHANGED <<user, lastId, broadcast, now, faults>>
      BY <1>7 DEF ExpireCommit, DropRowLives
    <2>3. RequestsKept /\ CountersTyped
      BY <2>2, FinishKeeps DEF CountersTyped, RowInv, TypeOK
    <2> HIDE DEF s
    <2> QED BY <2>1, <2>2, <2>3, SettleStep, QuietStep
  <1> QED BY <1>1, <1>2, <1>3, <1>4, <1>5, <1>6, <1>7 DEF Continue

\* The rows agree at the start.
LEMMA RowInit == Init => RowInv
  <1> SUFFICES ASSUME Init PROVE RowInv
    OBVIOUS
  <1>1. TypeOK
    BY TypeInit
  <1>2. \A s \in Slots : drop[s] = NoDrop /\ slot[s].status = "SCHEDULED" /\ slot[s].driver \in Drivers
    BY RosterAssumption DEF Init
  <1>3. NoDrop.status = "NONE" /\ NoDrop.driver = Null /\ NoDrop.filledBy = Null
    BY DEF NoDrop
  <1>4. \A h \in Handlers \cup Sweeps : req[h].pc = "idle"
    BY DEF Init, Idle
  <1>5. SlotAgreesWithDrop /\ NoOrphanedVacancy /\ RowsNameUsers
    BY <1>2, <1>3 DEF SlotAgreesWithDrop, NoOrphanedVacancy, RowsNameUsers
  <1>6. NoRowOfDeletedUser
    BY DEF Init, NoRowOfDeletedUser
  <1>7. RequestsNameRows /\ CreateHoldsOwner
    BY <1>4 DEF RequestsNameRows, CreateHoldsOwner, InFlight, Claiming
  <1> QED BY <1>1, <1>5, <1>6, <1>7 DEF RowInv

\* Every step keeps them so.
LEMMA RowStep == RowInv /\ [Next]_vars => RowInv'
  <1> SUFFICES ASSUME RowInv, [Next]_vars PROVE RowInv'
    OBVIOUS
  <1>1. CASE \E h \in Handlers : Begin(h)
    BY <1>1, BeginStep
  <1>2. CASE \E h \in Sweeps, s \in Slots : ExpireRead(h, s) \/ D2Read(h, s)
    BY <1>2, SweepStep
  <1>3. ASSUME NEW h \in Handlers \cup Sweeps, Continue(h) PROVE RowInv'
    BY <1>3, ContinueStep
  <1>4. ASSUME NEW h \in Handlers \cup Sweeps, Fail(h) PROVE RowInv'
    <2>1. RequestsKept
      BY <1>4, FinishKeeps DEF Fail
    <2> QED BY <1>4, <2>1, QuietStep, BoundAssumption DEF Fail, CountersTyped, RowInv, TypeOK
  <1>5. CASE Administer
    <2>1. ASSUME NEW s \in Slots, Cancel(s) PROVE RowInv'
      <3>1. RequestsKept /\ CountersTyped
        BY <2>1 DEF Cancel, RequestsKept, CountersTyped, RowInv, TypeOK, RequestsNameRows
      <3> QED BY <2>1, <3>1, SettleStep DEF Cancel
    <2>2. ASSUME NEW k, DeleteSchedule(k) PROVE RowInv'
      BY <2>2, PurgeStep DEF DeleteSchedule
    <2>3. ASSUME NEW r, DeleteRoute(r) PROVE RowInv'
      BY <2>3, PurgeStep DEF DeleteRoute
    <2> QED BY <1>5, <2>1, <2>2, <2>3, DeleteUserStep, SetActiveStep DEF Administer
  <1>6. CASE Advance
    <2>1. RequestsKept
      BY <1>6 DEF Advance, RequestsKept, RowInv, TypeOK, RequestsNameRows
    <2> QED BY <1>6, <2>1, QuietStep, BoundAssumption DEF Advance, CountersTyped, RowInv, TypeOK
  <1>7. CASE Crash
    <2>1. Idle \in RequestRow /\ Idle.pc = "idle"
      BY DEF Idle, RequestRow, Steps
    <2>2. RequestsKept
      BY <1>7, <2>1 DEF Crash, RequestsKept, RequestsNameRows, InFlight, Claiming
    <2> QED BY <1>7, <2>2, QuietStep, BoundAssumption DEF Crash, CountersTyped, RowInv, TypeOK
  <1>8. CASE UNCHANGED vars
    <2>1. RequestsKept
      BY <1>8 DEF vars, RequestsKept, RowInv, TypeOK, RequestsNameRows
    <2> QED BY <1>8, <2>1, QuietStep DEF vars, CountersTyped, RowInv, TypeOK
  <1> QED BY <1>1, <1>2, <1>3, <1>4, <1>5, <1>6, <1>7, <1>8 DEF Next

\* The inductive invariant holds in every reachable state.
THEOREM RowsInvariant == SafetySpec => []RowInv
  BY RowInit, RowStep, PTL DEF SafetySpec

\* Every reachable state is well typed.
THEOREM TypeCorrect == SafetySpec => []TypeOK
  <1>1. RowInv => TypeOK
    BY DEF RowInv
  <1> QED BY <1>1, RowsInvariant, PTL

\* A slot and its drop always tell the same story, for any number of drivers,
\* slots, requests and sweeps, with the agent on or off.
THEOREM SlotsAgreeWithDrops == SafetySpec => []SlotAgreesWithDrop
  <1>1. RowInv => SlotAgreesWithDrop
    BY DEF RowInv
  <1> QED BY <1>1, RowsInvariant, PTL

\* No slot is left vacant without an open request for cover.
THEOREM VacanciesAreOpen == SafetySpec => []NoOrphanedVacancy
  <1>1. RowInv => NoOrphanedVacancy
    BY DEF RowInv
  <1> QED BY <1>1, RowsInvariant, PTL

\* No slot or drop names a deleted user, although claims commit after reads made
\* before the deletion.
THEOREM NoDanglingUser == SafetySpec => []NoRowOfDeletedUser
  <1>1. RowInv => NoRowOfDeletedUser
    BY DEF RowInv
  <1> QED BY <1>1, RowsInvariant, PTL

-----------------------------------------------------------------------------
(* With the agent off, the desk implements ShiftCover. *)

\* Without the agent no handler is inside record_acceptance.
NoRecordInFlight ==
    \A h \in Handlers \cup Sweeps : req[h].pc \notin {"recordCheck", "record"}

\* The abstract shifts of the module ShiftCover.
Cover == [s \in Slots |-> [state |-> CoverState[slot[s].status], holder |-> slot[s].driver]]

\* No step enters record_acceptance without the agent.
LEMMA RecordStep ==
  ASSUME AgentEnabled = FALSE, RowInv, NoRecordInFlight, [Next]_vars
  PROVE  NoRecordInFlight'
  <1> USE DEF NoRecordInFlight
  <1>0. req \in [Handlers \cup Sweeps -> RequestRow]
    BY DEF RowInv, TypeOK
  <1>1. ASSUME NEW h \in Handlers \cup Sweeps, NEW pc \in Steps \ {"recordCheck", "record"},
               Goto(h, pc)
        PROVE  NoRecordInFlight'
    <2>1. /\ req'[h] = [req[h] EXCEPT !.pc = pc]
          /\ \A k \in Handlers \cup Sweeps : k # h => req'[k] = req[k]
      BY <1>0, <1>1 DEF Goto
    <2>2. req[h] \in RequestRow
      BY <1>0
    <2>3. req'[h].pc = pc
      BY <2>1, <2>2 DEF RequestRow
    <2> QED BY <2>1, <2>3
  <1>2. ASSUME NEW h \in Handlers \cup Sweeps, Finish(h)
        PROVE  NoRecordInFlight'
    BY <1>0, <1>2 DEF Finish, Idle
  <1>3. ASSUME NEW h \in Handlers \cup Sweeps, NEW pc \in Steps \ {"recordCheck", "record"},
               NEW s, NEW id, NEW d, req' = [req EXCEPT ![h] = Request(pc, s, id, d)]
        PROVE  NoRecordInFlight'
    BY <1>0, <1>3 DEF Request
  <1>4. ASSUME NEW h \in Handlers, Begin(h) PROVE NoRecordInFlight'
    <2>1. PICK s \in Slots, pc \in Steps \ {"recordCheck", "record"} :
            \E id, d : req' = [req EXCEPT ![h] = Request(pc, s, id, d)]
      BY <1>4 DEF Begin, CreateRead, AcceptRead, FillRead, RecordRead, Steps
    <2> QED BY <1>3, <2>1
  <1>5. ASSUME NEW h \in Sweeps, NEW s \in Slots, ExpireRead(h, s) \/ D2Read(h, s)
        PROVE  NoRecordInFlight'
    BY <1>3, <1>5 DEF ExpireRead, D2Read, Steps
  <1>6. ASSUME NEW h \in Handlers \cup Sweeps, Continue(h) PROVE NoRecordInFlight'
    <2>1. CASE CreateCommit(h)
      <3>1. req'[h] = [[req[h] EXCEPT !.pc = "notify"] EXCEPT !.id = lastId + 1]
        BY <2>1, <1>0 DEF CreateCommit
      <3>2. req'[h].pc = "notify"
        <4> DEFINE row == [req[h] EXCEPT !.pc = "notify"]
        <4>0. req[h] \in RequestRow
          BY <1>0
        <4>1. row.pc = "notify" /\ row \in RequestRow
          BY <4>0 DEF RequestRow, Steps
        <4>2. req'[h] = [row EXCEPT !.id = lastId + 1]
          BY <3>1
        <4> HIDE DEF row
        <4> QED BY <4>1, <4>2 DEF RequestRow
      <3>3. \A k \in Handlers \cup Sweeps : k # h => req'[k] = req[k]
        BY <2>1, <1>0 DEF CreateCommit
      <3> QED BY <3>2, <3>3
    <2>2. CASE CreateNotifyUrgent(h) \/ D2Notify(h)
      BY <2>2, <1>1 DEF CreateNotifyUrgent, D2Notify, Broadcast, Steps
    <2>3. CASE AcceptCount(h)
      BY <2>3, <1>1, <1>2 DEF AcceptCount, Steps
    <2>4. CASE RecordCheck(h) \/ RecordCommit(h)
      BY <2>4 DEF RecordCheck, RecordCommit
    <2>5. CASE Finish(h)
      BY <2>5, <1>2
    <2> QED
      BY <1>6, <2>1, <2>2, <2>3, <2>4, <2>5
         DEF Continue, CreateReject, CreateNotifyPlain, RaiseLevel, Claim, ExpireCommit
  <1>7. ASSUME NEW h \in Handlers \cup Sweeps, Fail(h) PROVE NoRecordInFlight'
    BY <1>7, <1>2 DEF Fail
  <1>8. CASE Crash
    BY <1>8 DEF Crash, Idle
  <1>9. CASE Administer \/ Advance \/ UNCHANGED vars
    BY <1>9 DEF Administer, Cancel, DeleteUser, SetActive, DeleteSchedule, DeleteRoute, Advance, vars
  <1> QED BY <1>4, <1>5, <1>6, <1>7, <1>8, <1>9 DEF Next

\* The abstract shift of every slot has its two fields.
LEMMA CoverFields ==
  /\ \A s \in Slots : /\ Cover[s].state = CoverState[slot[s].status]
                      /\ Cover[s].holder = slot[s].driver
  /\ \A s \in Slots : /\ Cover'[s].state = CoverState[slot'[s].status]
                      /\ Cover'[s].holder = slot'[s].driver
  BY DEF Cover

\* A step that sets the status of one slot and keeps its holder changes the
\* state of one abstract shift.
LEMMA CoverStatus ==
  ASSUME NEW s \in Slots, NEW st \in SlotStatus,
         slot'[s].status = st, slot'[s].driver = slot[s].driver,
         \A t \in Slots \ {s} : slot'[t] = slot[t]
  PROVE  Cover' = [Cover EXCEPT ![s].state = CoverState[st]]
  <1>1. \A t \in Slots \ {s} : Cover'[t] = Cover[t]
    BY DEF Cover
  <1>2. Cover'[s] = [state |-> CoverState[st], holder |-> slot[s].driver]
    BY DEF Cover
  <1>3. Cover[s] = [state |-> CoverState[slot[s].status], holder |-> slot[s].driver]
    BY DEF Cover
  <1>4. [Cover[s] EXCEPT !.state = CoverState[st]]
          = [state |-> CoverState[st], holder |-> slot[s].driver]
    BY <1>3
  <1>5. Cover = [t \in Slots |-> Cover[t]] /\ Cover' = [t \in Slots |-> Cover'[t]]
    BY DEF Cover
  <1> DEFINE new == [Cover[s] EXCEPT !.state = CoverState[st]]
  <1>6. Cover'[s] = new
    BY <1>2, <1>4
  <1>7. [Cover EXCEPT ![s].state = CoverState[st]] = [Cover EXCEPT ![s] = new]
    OBVIOUS
  <1> HIDE DEF new, Cover
  <1> QED BY <1>1, <1>5, <1>6, <1>7

\* The states of an abstract shift.
LEMMA CoverStates ==
  /\ CoverState["SCHEDULED"] = "held" /\ CoverState["FILLED"] = "held"
  /\ CoverState["DROPPED"] = "vacant" /\ CoverState["ABSENT"] = "missed"
  /\ CoverState["GONE"] = "removed"
  BY DEF CoverState

\* The steps of the abstract shifts, in terms of the rows.
AbstractNext ==
    \/ \E s \in Slots : \/ Shifts!Vacate(s) \/ Shifts!Restore(s) \/ Shifts!Miss(s)
                        \/ \E d \in Drivers : Shifts!Take(s, d)
    \/ \E S \in SUBSET Slots : Shifts!Remove(S)
    \/ UNCHANGED Cover

\* Only an OPEN drop is filled when no tool of the agent is in flight: the shift
\* was vacant.
LEMMA TakeRefines ==
  ASSUME RowInv, NEW s \in Slots, NEW d \in Drivers, drop[s].status = "OPEN", Assign(s, d)
  PROVE  AbstractNext
  <1>1. slot[s].status = "DROPPED"
    BY DEF RowInv, SlotAgreesWithDrop, StatusUnder
  <1>2. slot' = [slot EXCEPT ![s] = [status |-> "FILLED", driver |-> d]]
    BY DEF Assign
  <1>3. /\ slot'[s].status = "FILLED" /\ slot'[s].driver = d
        /\ \A t \in Slots \ {s} : slot'[t] = slot[t]
    BY <1>2 DEF RowInv, TypeOK
  <1>4. Cover[s].state = "vacant"
    BY <1>1, CoverFields, CoverStates
  <1>5. Cover' = [Cover EXCEPT ![s] = [state |-> "held", holder |-> d]]
    BY <1>3, CoverStates DEF Cover
  <1>6. Shifts!Take(s, d)
    BY <1>4, <1>5 DEF Shifts!Take, Shifts!Shift, Cover
  <1> QED BY <1>6 DEF AbstractNext

\* A creation vacates a shift that is held or was missed.
LEMMA VacateRefines ==
  ASSUME RowInv, NEW s \in Slots, NEW d \in Drivers, Exists(s), drop[s].status = "NONE",
         OpenDrop(s, d)
  PROVE  AbstractNext
  <1>1. slot[s].status \in {"SCHEDULED", "FILLED", "ABSENT"}
    BY Columns DEF RowInv, NoOrphanedVacancy, Exists, SlotStatus
  <1>2. /\ slot'[s].status = "DROPPED" /\ slot'[s].driver = slot[s].driver
        /\ \A t \in Slots \ {s} : slot'[t] = slot[t]
    BY OpenEffect DEF RowInv, Unchanged
  <1>3. Cover' = [Cover EXCEPT ![s].state = "vacant"]
    BY <1>2, CoverStatus, CoverStates DEF SlotStatus
  <1>4. Cover[s].state \in {"held", "missed"}
    BY <1>1, CoverFields, CoverStates
  <1>5. Shifts!Vacate(s)
    BY <1>3, <1>4 DEF Shifts!Vacate, Shifts!Become, Cover
  <1> QED BY <1>5 DEF AbstractNext

\* A cancellation restores a shift and an expiry records it as missed.
LEMMA SettleRefines ==
  ASSUME RowInv, NEW s \in Slots, drop[s].status # "NONE",
         \/ Settle(s, "CANCELLED", "SCHEDULED")
         \/ Settle(s, "EXPIRED", "ABSENT")
  PROVE  AbstractNext
  <1>1. slot[s].status \in {"SCHEDULED", "DROPPED", "FILLED", "ABSENT"}
    BY Columns DEF RowInv, RowsNameUsers, SlotStatus
  <1>2. Cover[s].state # "removed"
    BY <1>1, CoverFields, CoverStates
  <1>3. CASE Settle(s, "CANCELLED", "SCHEDULED")
    <2>1. /\ slot'[s].status = "SCHEDULED" /\ slot'[s].driver = slot[s].driver
          /\ \A t \in Slots \ {s} : slot'[t] = slot[t]
      BY <1>3, SettleEffect DEF RowInv, Unchanged, DropStatus, SlotStatus
    <2>2. Cover' = [Cover EXCEPT ![s].state = "held"]
      BY <2>1, CoverStatus, CoverStates DEF SlotStatus
    <2>3. Shifts!Restore(s)
      BY <1>2, <2>2 DEF Shifts!Restore, Shifts!Become, Cover
    <2> QED BY <2>3 DEF AbstractNext
  <1>4. CASE Settle(s, "EXPIRED", "ABSENT")
    <2>1. /\ slot'[s].status = "ABSENT" /\ slot'[s].driver = slot[s].driver
          /\ \A t \in Slots \ {s} : slot'[t] = slot[t]
      BY <1>4, SettleEffect DEF RowInv, Unchanged, DropStatus, SlotStatus
    <2>2. Cover' = [Cover EXCEPT ![s].state = "missed"]
      BY <2>1, CoverStatus, CoverStates DEF SlotStatus
    <2>3. Shifts!Miss(s)
      BY <1>2, <2>2 DEF Shifts!Miss, Shifts!Become, Cover
    <2> QED BY <2>3 DEF AbstractNext
  <1> QED BY <1>3, <1>4

\* Slots that are deleted are removed shifts.
LEMMA RemoveRefines ==
  ASSUME NEW S \in SUBSET Slots,
         slot' = [s \in Slots |-> IF s \in S THEN [status |-> "GONE", driver |-> Null] ELSE slot[s]]
  PROVE  AbstractNext
  <1>1. Cover' = [s \in Slots |-> IF s \in S THEN [state |-> "removed", holder |-> Null] ELSE Cover[s]]
    BY CoverStates DEF Cover
  <1>2. Shifts!Remove(S)
    BY <1>1 DEF Shifts!Remove, Shifts!Removed, Shifts!Shift, Cover
  <1> QED BY <1>2 DEF AbstractNext

\* A step that writes no slot does not show.
LEMMA StutterRefines ==
  ASSUME UNCHANGED slot
  PROVE  AbstractNext
  BY DEF AbstractNext, Cover

\* Every step of the desk is a step of the abstract shifts, or none.
LEMMA StepRefines ==
  ASSUME RowInv, NoRecordInFlight, [Next]_vars
  PROVE  AbstractNext
  <1>1. ASSUME NEW h \in Handlers, Begin(h) PROVE AbstractNext
    BY <1>1, StutterRefines DEF Begin, CreateRead, AcceptRead, FillRead, RecordRead
  <1>2. ASSUME NEW h \in Sweeps, NEW s \in Slots, ExpireRead(h, s) \/ D2Read(h, s)
        PROVE  AbstractNext
    BY <1>2, StutterRefines DEF ExpireRead, D2Read
  <1>3. ASSUME NEW h \in Handlers \cup Sweeps, Continue(h) PROVE AbstractNext
    <2> DEFINE s == req[h].slot
               d == req[h].drv
    <2>1. /\ req[h].pc \in InFlight => s \in Slots
          /\ req[h].pc \in Claiming => d \in Drivers
      BY DEF RowInv, RequestsNameRows
    <2>2. CASE CreateCommit(h)
      <3>1. s \in Slots /\ d \in Drivers /\ Exists(s) /\ drop[s].status = "NONE" /\ OpenDrop(s, d)
        BY <2>1, <2>2 DEF CreateCommit, InFlight, Claiming
      <3> HIDE DEF s, d
      <3> QED BY <3>1, VacateRefines
    <2>3. CASE Claim(h)
      <3>1. /\ s \in Slots /\ d \in Drivers
            /\ \/ drop[s].status = "OPEN" /\ Assign(s, d)
               \/ UNCHANGED slot
        BY <2>1, <2>3 DEF Claim, ClaimMatches, InFlight, Claiming
      <3> HIDE DEF s, d
      <3> QED BY <3>1, TakeRefines, StutterRefines
    <2>4. CASE ExpireCommit(h)
      <3>1. /\ s \in Slots
            /\ \/ drop[s].status # "NONE" /\ Settle(s, "EXPIRED", "ABSENT")
               \/ UNCHANGED slot
        BY <2>1, <2>4 DEF ExpireCommit, DropRowLives, InFlight
      <3> HIDE DEF s
      <3> QED BY <3>1, SettleRefines, StutterRefines
    <2>5. CASE RecordCommit(h)
      BY <2>5 DEF RecordCommit, NoRecordInFlight
    <2>6. CASE UNCHANGED slot
      BY <2>6, StutterRefines
    <2> QED
      BY <1>3, <2>2, <2>3, <2>4, <2>5, <2>6
         DEF Continue, CreateReject, CreateNotifyPlain, CreateNotifyUrgent, RaiseLevel,
             AcceptCount, RecordCheck, D2Notify
  <1>4. ASSUME NEW s \in Slots, Cancel(s) PROVE AbstractNext
    BY <1>4, SettleRefines DEF Cancel
  <1>5. ASSUME NEW d \in Drivers, DeleteUser(d) PROVE AbstractNext
    <2> DEFINE S == {s \in Slots : slot[s].driver = d}
    <2>1. slot' = [s \in Slots |-> IF s \in S THEN [status |-> "GONE", driver |-> Null] ELSE slot[s]]
      BY <1>5 DEF DeleteUser
    <2>2. S \in SUBSET Slots
      OBVIOUS
    <2> HIDE DEF S
    <2> QED BY <2>1, <2>2, RemoveRefines
  <1>6. ASSUME NEW S \in SUBSET Slots, Purge(S) PROVE AbstractNext
    BY <1>6, RemoveRefines DEF Purge
  <1>7. ASSUME NEW k, DeleteSchedule(k) \/ DeleteRoute(k) PROVE AbstractNext
    BY <1>6, <1>7 DEF DeleteSchedule, DeleteRoute
  <1>8. CASE UNCHANGED slot
    BY <1>8, StutterRefines
  <1> QED
    BY <1>1, <1>2, <1>3, <1>4, <1>5, <1>7, <1>8
       DEF Next, Administer, SetActive, Advance, Fail, Crash, vars

\* With the agent off the desk keeps the promise of ShiftCover to any number of
\* drivers and slots: one holder per shift, handed over only while it is vacant,
\* and no return of a removed shift.
THEOREM DeskImplementsShiftCover ==
  ASSUME AgentEnabled = FALSE
  PROVE  SafetySpec => ShiftsCovered
  <1>1. Init => Shifts!Init
    <2> SUFFICES ASSUME Init PROVE Shifts!Init
      OBVIOUS
    <2>1. Cover = [s \in Slots |-> [state |-> "held", holder |-> Owner[s]]]
      BY CoverStates DEF Init, Cover
    <2> QED BY <2>1 DEF Shifts!Init, Shifts!Shift, Cover
  <1>2. Init => NoRecordInFlight
    BY DEF Init, Idle, NoRecordInFlight
  <1>3. RowInv /\ NoRecordInFlight /\ [Next]_vars => NoRecordInFlight'
    BY RecordStep
  <1>4. RowInv /\ NoRecordInFlight /\ [Next]_vars => [Shifts!Next]_Cover
    BY StepRefines DEF AbstractNext, Shifts!Next
  <1>5. [Shifts!Next]_Cover <=> [Shifts!Next]_([s \in Slots |-> [state |-> CoverState[slot[s].status], holder |-> slot[s].driver]])
    BY DEF Cover
  <1> QED BY <1>1, <1>2, <1>3, <1>4, <1>5, RowsInvariant, PTL DEF SafetySpec, ShiftsCovered, Shifts!Spec

-----------------------------------------------------------------------------
(* The level is raised only after a broadcast. *)

\* What every step but a creation does to ids, levels and counts.
DropsCarried ==
    /\ lastId' = lastId
    /\ \A s \in Slots :
         /\ drop'[s].status # "NONE" => drop[s].status # "NONE" /\ drop'[s].id = drop[s].id
         /\ drop'[s].id \in {drop[s].id, 0}
         /\ drop'[s].level = 1 => drop[s].level = 1 \/ BroadcastRan(s)
         /\ BroadcastRan(s) => BroadcastRan(s)'

\* What every step but a creation does to the handlers: one that comes to the
\* raising statement has just broadcast.
HandlersCarried ==
    \A h \in Handlers \cup Sweeps :
        \/ req'[h] = req[h]
        \/ /\ req'[h].id <= lastId
           /\ req'[h].pc = "raise" /\ DropRowLives(h)' => BroadcastRan(req[h].slot)'

\* A step that carries drops and handlers along keeps the broadcast invariant.
LEMMA CarriedStep ==
  ASSUME BroadcastInv, RowInv', DropsCarried, HandlersCarried
  PROVE  BroadcastInv'
  <1>1. /\ \A s \in Slots : drop[s].id \in Nat
        /\ lastId \in Nat
    BY Columns DEF BroadcastInv, RowInv, TypeOK
  <1>2. IdsIssued'
    BY <1>1 DEF BroadcastInv, IdsIssued, DropsCarried, HandlersCarried
  <1>3. RaiseFollowsBroadcast'
    <2> SUFFICES ASSUME NEW h \in Handlers \cup Sweeps, req'[h].pc = "raise", DropRowLives(h)'
                 PROVE  BroadcastRan(req[h].slot)'
      BY DEF RaiseFollowsBroadcast
    <2>1. req'[h].slot \in Slots
      BY DEF RowInv, RequestsNameRows, InFlight
    <2>2. CASE req'[h] = req[h]
      <3>1. DropRowLives(h)
        BY <2>1, <2>2 DEF DropRowLives, DropsCarried
      <3>2. BroadcastRan(req[h].slot)
        BY <2>2, <3>1 DEF BroadcastInv, RaiseFollowsBroadcast
      <3> QED BY <1>1, <2>1, <2>2, <3>2 DEF DropsCarried
    <2>3. CASE req'[h] # req[h]
      BY <2>3 DEF HandlersCarried
    <2> QED BY <2>2, <2>3
  <1>4. RaisedOnlyAfterBroadcast'
    BY <1>1 DEF BroadcastInv, RaisedOnlyAfterBroadcast, DropsCarried
  <1> QED BY <1>2, <1>3, <1>4 DEF BroadcastInv

\* Handlers that end or go on without a broadcast are carried.
LEMMA HandlerMoves ==
  ASSUME BroadcastInv, NEW h \in Handlers \cup Sweeps,
         \/ Finish(h)
         \/ \E pc \in Steps \ {"raise"} : Goto(h, pc)
         \/ \E pc \in Steps \ {"raise"}, id \in Nat : \E s, d :
               id <= lastId /\ req' = [req EXCEPT ![h] = Request(pc, s, id, d)]
  PROVE  HandlersCarried
  <1>1. /\ req \in [Handlers \cup Sweeps -> RequestRow] /\ lastId \in Nat
        /\ req[h].id <= lastId /\ req[h] \in RequestRow
    BY DEF BroadcastInv, RowInv, TypeOK, IdsIssued
  <1>2. CASE Finish(h)
    BY <1>1, <1>2 DEF Finish, Idle, HandlersCarried
  <1>3. ASSUME NEW pc \in Steps \ {"raise"}, Goto(h, pc) PROVE HandlersCarried
    <2>1. /\ req'[h] = [req[h] EXCEPT !.pc = pc]
          /\ \A k \in Handlers \cup Sweeps : k # h => req'[k] = req[k]
      BY <1>1, <1>3 DEF Goto
    <2>2. req'[h].pc = pc /\ req'[h].id = req[h].id
      BY <1>1, <2>1 DEF RequestRow
    <2> QED BY <1>1, <2>1, <2>2 DEF HandlersCarried
  <1>4. ASSUME NEW pc \in Steps \ {"raise"}, NEW s, NEW d, NEW id \in Nat,
               id <= lastId, req' = [req EXCEPT ![h] = Request(pc, s, id, d)]
        PROVE  HandlersCarried
    BY <1>1, <1>4 DEF Request, HandlersCarried
  <1> QED BY <1>2, <1>3, <1>4

\* Steps that leave the drops and the counts alone.
LEMMA QuietCarries ==
  ASSUME RowInv, UNCHANGED <<drop, lastId, broadcast>>
  PROVE  DropsCarried
  BY BoundAssumption DEF DropsCarried, BroadcastRan, RowInv, TypeOK

\* Steps that write one drop without giving it another id, and raise its level
\* only behind a broadcast.
LEMMA WriteCarries ==
  ASSUME RowInv, NEW s \in Slots, UNCHANGED <<lastId, broadcast>>, drop[s].status # "NONE",
         drop'[s].id = drop[s].id,
         drop'[s].level = drop[s].level \/ BroadcastRan(s),
         \A t \in Slots \ {s} : drop'[t] = drop[t]
  PROVE  DropsCarried
  BY BoundAssumption DEF DropsCarried, BroadcastRan, RowInv, TypeOK

\* Rows that are deleted carry nothing over.
LEMMA DeleteCarries ==
  ASSUME RowInv, UNCHANGED <<lastId, broadcast>>,
         \A s \in Slots : drop'[s] = drop[s] \/ drop'[s] = NoDrop
  PROVE  DropsCarried
  <1>1. NoDrop.status = "NONE" /\ NoDrop.id = 0 /\ NoDrop.level = 0
    BY DEF NoDrop
  <1> QED BY <1>1, BoundAssumption DEF DropsCarried, BroadcastRan, RowInv, TypeOK

\* A new drop has a new id, level 0 and no broadcast: a handler that holds an
\* older id does not find it.
LEMMA CreateBroadcast ==
  ASSUME BroadcastInv, RowInv', NEW h \in Handlers \cup Sweeps, CreateCommit(h)
  PROVE  BroadcastInv'
  <1> DEFINE s == req[h].slot
  <1>1. s \in Slots /\ OpenDrop(s, req[h].drv) /\ req[h].drv \in Drivers
    BY DEF CreateCommit, BroadcastInv, RowInv, RequestsNameRows, InFlight, Claiming
  <1>2. /\ drop'[s].id = lastId + 1 /\ drop'[s].level = 0
        /\ \A t \in Slots \ {s} : drop'[t] = drop[t]
        /\ lastId' = lastId + 1
        /\ broadcast' = [broadcast EXCEPT ![s] = NoBroadcast]
    <2> HIDE DEF s
    <2> QED BY <1>1, OpenEffect DEF BroadcastInv, RowInv, Unchanged
  <1>3. /\ lastId \in Nat /\ \A t \in Slots : drop[t].id \in Nat
        /\ \A k \in Handlers \cup Sweeps : req[k].id \in Nat
        /\ broadcast \in [Slots -> BroadcastRow]
    BY Columns DEF BroadcastInv, RowInv, TypeOK
  <1>4. /\ \A k \in Handlers \cup Sweeps : k # h => req'[k] = req[k]
        /\ req'[h].pc = "notify" /\ req'[h].id = lastId + 1
    <2>1. /\ req[h] \in RequestRow
          /\ req'[h] = [[req[h] EXCEPT !.pc = "notify"] EXCEPT !.id = lastId + 1]
          /\ \A k \in Handlers \cup Sweeps : k # h => req'[k] = req[k]
      BY DEF CreateCommit, BroadcastInv, RowInv, TypeOK
    <2> DEFINE row == [req[h] EXCEPT !.pc = "notify"]
    <2>2. row \in RequestRow /\ row.pc = "notify"
      BY <2>1 DEF RequestRow, Steps
    <2>3. req'[h] = [row EXCEPT !.id = lastId + 1]
      BY <2>1
    <2> HIDE DEF row
    <2>4. req'[h].pc = "notify" /\ req'[h].id = lastId + 1
      BY <2>2, <2>3 DEF RequestRow
    <2> QED BY <2>1, <2>4
  <1> HIDE DEF s
  <1>5. IdsIssued'
    BY <1>2, <1>3, <1>4 DEF BroadcastInv, IdsIssued
  <1>6. RaiseFollowsBroadcast'
    <2> SUFFICES ASSUME NEW k \in Handlers \cup Sweeps, req'[k].pc = "raise", DropRowLives(k)'
                 PROVE  BroadcastRan(req[k].slot)'
      BY DEF RaiseFollowsBroadcast
    <2>1. k # h /\ req'[k] = req[k] /\ req[k].slot \in Slots
      BY <1>4 DEF BroadcastInv, RowInv, RequestsNameRows, InFlight
    <2>2. req[k].slot # s
      BY <1>2, <1>3, <2>1 DEF DropRowLives, BroadcastInv, IdsIssued
    <2>3. DropRowLives(k)
      BY <1>2, <2>1, <2>2 DEF DropRowLives
    <2>4. broadcast'[req[k].slot] = broadcast[req[k].slot]
      BY <1>2, <1>3, <2>1, <2>2
    <2> QED BY <2>1, <2>3, <2>4 DEF BroadcastInv, RaiseFollowsBroadcast, BroadcastRan
  <1>7. RaisedOnlyAfterBroadcast'
    BY <1>2, <1>3 DEF BroadcastInv, RaisedOnlyAfterBroadcast, BroadcastRan
  <1> QED BY <1>5, <1>6, <1>7 DEF BroadcastInv

\* A broadcast is counted before the handler comes to raise the level.
LEMMA SendBroadcast ==
  ASSUME BroadcastInv, RowInv', NEW h \in Handlers \cup Sweeps, Broadcast(h),
         req[h].pc \in InFlight, UNCHANGED <<drop, lastId>>
  PROVE  BroadcastInv'
  <1> DEFINE s == req[h].slot
  <1>1. s \in Slots
    BY DEF BroadcastInv, RowInv, RequestsNameRows
  <1>2. /\ req \in [Handlers \cup Sweeps -> RequestRow] /\ lastId \in Nat
        /\ req[h].id <= lastId /\ req[h] \in RequestRow
        /\ broadcast \in [Slots -> BroadcastRow]
    BY DEF BroadcastInv, RowInv, TypeOK, IdsIssued
  <1>3. /\ req'[h] = [req[h] EXCEPT !.pc = "raise"]
        /\ \A k \in Handlers \cup Sweeps : k # h => req'[k] = req[k]
    BY <1>2 DEF Broadcast, Goto
  <1>4. req'[h].pc = "raise" /\ req'[h].id = req[h].id /\ req'[h].slot = s
    BY <1>2, <1>3 DEF RequestRow
  <1>5. PICK reached \in BOOLEAN :
            broadcast' = IF DropRowLives(h)
                           THEN [broadcast EXCEPT ![s] = Announced(broadcast[s], reached)]
                           ELSE broadcast
    BY DEF Broadcast
  <1> DEFINE b == Announced(broadcast[s], reached)
  <1>a. /\ b.told >= broadcast[s].told
        /\ broadcast[s].vain => b.vain
        /\ b.told > 0 \/ b.vain
    BY <1>1, <1>2, AnnouncedRow
  <1>n. b.told \in Nat /\ broadcast[s].told \in Nat
    BY <1>1, <1>2, AnnouncedRow, BoundAssumption DEF BroadcastRow
  <1> HIDE DEF s, b
  <1>b. /\ DropRowLives(h) => broadcast'[s] = b
        /\ ~DropRowLives(h) => broadcast'[s] = broadcast[s]
        /\ \A t \in Slots \ {s} : broadcast'[t] = broadcast[t]
    BY <1>1, <1>2, <1>5 DEF b
  <1>6. \A t \in Slots : BroadcastRan(t) => BroadcastRan(t)'
    <2> SUFFICES ASSUME NEW t \in Slots, BroadcastRan(t) PROVE BroadcastRan(t)'
      OBVIOUS
    <2>1. CASE t = s /\ DropRowLives(h)
      BY <2>1, <1>a, <1>b DEF BroadcastRan
    <2>2. CASE ~(t = s /\ DropRowLives(h))
      BY <2>2, <1>1, <1>b DEF BroadcastRan
    <2> QED BY <2>1, <2>2
  <1>7. DropsCarried
    BY <1>6 DEF DropsCarried
  <1>8. DropRowLives(h)' => BroadcastRan(req[h].slot)'
    <2>1. DropRowLives(h)' => DropRowLives(h)
      BY <1>4 DEF DropRowLives, s
    <2> QED BY <2>1, <1>4, <1>a, <1>b DEF BroadcastRan
  <1>9. HandlersCarried
    BY <1>2, <1>3, <1>4, <1>8 DEF HandlersCarried
  <1> QED BY <1>7, <1>9, CarriedStep

\* Every step keeps the three facts about ids, levels and broadcasts.
LEMMA BroadcastStep == BroadcastInv /\ [Next]_vars => BroadcastInv'
  <1> SUFFICES ASSUME BroadcastInv, [Next]_vars PROVE BroadcastInv'
    OBVIOUS
  <1>0. RowInv /\ RowInv'
    BY RowStep DEF BroadcastInv
  <1>a. \A s \in Slots : drop[s].id \in Nat /\ drop[s].id <= lastId
    BY <1>0, Columns DEF BroadcastInv, IdsIssued, RowInv
  <1>b. lastId \in Nat /\ 0 <= lastId
    BY <1>0 DEF RowInv, TypeOK
  <1>1. ASSUME NEW h \in Handlers, Begin(h) PROVE BroadcastInv'
    <2>1. PICK s \in Slots, pc \in Steps \ {"raise"} :
            /\ \E d : \/ req' = [req EXCEPT ![h] = Request(pc, s, 0, d)]
                     \/ req' = [req EXCEPT ![h] = Request(pc, s, drop[s].id, d)]
            /\ UNCHANGED <<drop, lastId, broadcast>>
      BY <1>1 DEF Begin, CreateRead, AcceptRead, FillRead, RecordRead, Steps
    <2>2. HandlersCarried
      <3>1. PICK id \in Nat : \E d : id <= lastId /\ req' = [req EXCEPT ![h] = Request(pc, s, id, d)]
        BY <2>1, <1>a, <1>b
      <3> QED BY <3>1, HandlerMoves
    <2> QED BY <2>1, <2>2, <1>0, QuietCarries, CarriedStep
  <1>2. ASSUME NEW h \in Sweeps, NEW s \in Slots, ExpireRead(h, s) \/ D2Read(h, s)
        PROVE  BroadcastInv'
    <2>1. PICK pc \in Steps \ {"raise"} :
            /\ req' = [req EXCEPT ![h] = Request(pc, s, drop[s].id, Null)]
            /\ UNCHANGED <<drop, lastId, broadcast>>
      BY <1>2 DEF ExpireRead, D2Read, Steps
    <2>2. HandlersCarried
      <3>1. PICK id \in Nat : \E d : id <= lastId /\ req' = [req EXCEPT ![h] = Request(pc, s, id, d)]
        BY <2>1, <1>a
      <3> QED BY <3>1, HandlerMoves
    <2> QED BY <2>1, <2>2, <1>0, QuietCarries, CarriedStep
  <1>3. ASSUME NEW h \in Handlers \cup Sweeps, Continue(h) PROVE BroadcastInv'
    <2> DEFINE s == req[h].slot
               d == req[h].drv
    <2>1. /\ req[h].pc \in InFlight => s \in Slots
          /\ req[h].pc \in Claiming => d \in Drivers
      BY <1>0 DEF RowInv, RequestsNameRows
    <2>2. CASE CreateNotifyUrgent(h) \/ D2Notify(h)
      <3>1. req[h].pc \in InFlight /\ Broadcast(h) /\ UNCHANGED <<drop, lastId>>
        BY <2>2 DEF CreateNotifyUrgent, D2Notify, InFlight
      <3> QED BY <1>0, <3>1, SendBroadcast
    <2>3. CASE RaiseLevel(h)
      <3>1. s \in Slots /\ Finish(h) /\ UNCHANGED <<lastId, broadcast>>
        BY <2>1, <2>3 DEF RaiseLevel, InFlight
      <3>2. DropRowLives(h) => /\ BroadcastRan(s) /\ drop[s].status # "NONE"
                               /\ drop' = [drop EXCEPT ![s].level = 1]
        BY <2>3 DEF RaiseLevel, BroadcastInv, RaiseFollowsBroadcast, DropRowLives
      <3>3. ~DropRowLives(h) => UNCHANGED drop
        BY <2>3 DEF RaiseLevel
      <3> HIDE DEF s
      <3>4. DropsCarried
        BY <1>0, <3>1, <3>2, <3>3, RaiseEffect, WriteCarries, QuietCarries DEF RowInv
      <3> QED BY <1>0, <3>1, <3>4, HandlerMoves, CarriedStep
    <2>4. CASE Claim(h) \/ RecordCommit(h)
      <3>1. /\ s \in Slots /\ d \in Drivers /\ Finish(h) /\ UNCHANGED <<lastId, broadcast>>
            /\ \/ Assign(s, d) /\ drop[s].status # "NONE"
               \/ UNCHANGED drop
        BY <2>1, <2>4 DEF Claim, RecordCommit, ClaimMatches, DropRowLives, InFlight, Claiming
      <3> HIDE DEF s, d
      <3>2. DropsCarried
        BY <1>0, <3>1, AssignEffect, WriteCarries, QuietCarries DEF RowInv, Unchanged
      <3> QED BY <1>0, <3>1, <3>2, HandlerMoves, CarriedStep
    <2>5. CASE ExpireCommit(h)
      <3>1. /\ s \in Slots /\ Finish(h) /\ UNCHANGED <<lastId, broadcast>>
            /\ \/ Settle(s, "EXPIRED", "ABSENT") /\ drop[s].status # "NONE"
               \/ UNCHANGED drop
        BY <2>1, <2>5 DEF ExpireCommit, DropRowLives, InFlight
      <3> HIDE DEF s
      <3>2. DropsCarried
        BY <1>0, <3>1, SettleEffect, WriteCarries, QuietCarries
           DEF RowInv, Unchanged, DropStatus, SlotStatus
      <3> QED BY <1>0, <3>1, <3>2, HandlerMoves, CarriedStep
    <2>6. CASE CreateReject(h) \/ CreateNotifyPlain(h) \/ AcceptCount(h) \/ RecordCheck(h)
      <3>1. /\ Finish(h) \/ Goto(h, "acceptClaim") \/ Goto(h, "record")
            /\ UNCHANGED <<drop, lastId, broadcast>>
        BY <2>6 DEF CreateReject, CreateNotifyPlain, AcceptCount, RecordCheck
      <3>2. HandlersCarried
        BY <3>1, HandlerMoves DEF Steps
      <3> QED BY <1>0, <3>1, <3>2, QuietCarries, CarriedStep
    <2> QED BY <1>0, <1>3, <2>2, <2>3, <2>4, <2>5, <2>6, CreateBroadcast DEF Continue
  <1>4. ASSUME NEW h \in Handlers \cup Sweeps, Fail(h) PROVE BroadcastInv'
    <2>1. Finish(h) /\ UNCHANGED <<drop, lastId, broadcast>>
      BY <1>4 DEF Fail
    <2> QED BY <1>0, <2>1, HandlerMoves, QuietCarries, CarriedStep
  <1>5. ASSUME UNCHANGED req, DropsCarried PROVE BroadcastInv'
    <2>1. HandlersCarried
      BY <1>5 DEF HandlersCarried
    <2> QED BY <1>0, <1>5, <2>1, CarriedStep
  <1>6. ASSUME NEW s \in Slots, Cancel(s) PROVE BroadcastInv'
    BY <1>0, <1>5, <1>6, SettleEffect, WriteCarries
       DEF Cancel, RowInv, Unchanged, DropStatus, SlotStatus
  <1>7. ASSUME NEW d \in Drivers, DeleteUser(d) PROVE BroadcastInv'
    <2>1. /\ \A s \in Slots : drop'[s] = drop[s] \/ drop'[s] = NoDrop
          /\ UNCHANGED <<req, lastId, broadcast>>
      BY <1>7 DEF DeleteUser
    <2> QED BY <1>0, <1>5, <2>1, DeleteCarries
  <1>8. ASSUME NEW k, DeleteSchedule(k) \/ DeleteRoute(k) PROVE BroadcastInv'
    <2>1. /\ \A s \in Slots : drop'[s] = drop[s] \/ drop'[s] = NoDrop
          /\ UNCHANGED <<req, lastId, broadcast>>
      BY <1>8 DEF DeleteSchedule, DeleteRoute, Purge
    <2> QED BY <1>0, <1>5, <2>1, DeleteCarries
  <1>9. CASE Crash
    <2>1. HandlersCarried
      BY <1>9, <1>b DEF Crash, Idle, HandlersCarried
    <2>2. DropsCarried
      BY <1>0, <1>9, QuietCarries DEF Crash
    <2> QED BY <1>0, <2>1, <2>2, CarriedStep
  <1>10. CASE UNCHANGED <<req, drop, lastId, broadcast>>
    BY <1>0, <1>5, <1>10, QuietCarries
  <1> QED
    BY <1>1, <1>2, <1>3, <1>4, <1>6, <1>7, <1>8, <1>9, <1>10
       DEF Next, Administer, SetActive, Advance, vars

\* Nothing silences the sweep for a drop whose urgent broadcast has not gone out.
THEOREM LevelFollowsBroadcast == SafetySpec => []RaisedOnlyAfterBroadcast
  <1>1. Init => BroadcastInv
    <2> SUFFICES ASSUME Init PROVE BroadcastInv
      OBVIOUS
    <2>1. NoDrop.id = 0 /\ NoDrop.level = 0 /\ Idle.id = 0 /\ Idle.pc = "idle"
      BY DEF NoDrop, Idle
    <2>2. IdsIssued /\ RaiseFollowsBroadcast /\ RaisedOnlyAfterBroadcast
      BY <2>1 DEF Init, IdsIssued, RaiseFollowsBroadcast, RaisedOnlyAfterBroadcast
    <2> QED BY <2>2, RowInit DEF BroadcastInv
  <1>2. BroadcastInv => RaisedOnlyAfterBroadcast
    BY DEF BroadcastInv
  <1> QED BY <1>1, <1>2, BroadcastStep, PTL DEF SafetySpec
====
