----------------------------- MODULE OutboxSync -----------------------------
(***************************************************************************)
(* The offline core of the portal: changes made on the device, the outbox  *)
(* they wait in, the run that drains it, and the signals and the timer     *)
(* that start runs.                                                        *)
(*                                                                         *)
(* The portal is one event loop. A step of the model is what runs between  *)
(* two awaits: one IndexedDB or HTTP request and what follows its result.  *)
(* IndexedDB serves requests on a store in order, so a count and the       *)
(* signal set from it are one step.                                        *)
(***************************************************************************)
EXTENDS Naturals, Sequences, FiniteSets

CONSTANTS
    Report, Serial,   \* the reports and serials users create
    NoId,
    MaxRuns,          \* bound: synchronisation runs that overlap
    MaxItems,         \* bound: changes ever queued
    MaxFaults         \* bound: lost requests and disconnections

ASSUME BoundsAssumption == {MaxRuns, MaxItems, MaxFaults} \subseteq Nat

Run == 1 .. MaxRuns

Entity == Report \cup Serial
Local(e) == <<e, "local">>     \* the temporary id, made on the device
Server(e) == <<e, "server">>   \* the id the server gave
LocalIds == {Local(e) : e \in Entity}
ReportIds == Report \X {"local", "server"}
SerialIds == Serial \X {"local", "server"}
Id == ReportIds \cup SerialIds

ASSUME NoIdAssumption == NoId \notin Id

ReportOp == {"createReport", "editReport"}
SerialOp == {"createSerials", "editSerial", "deleteSerial"}
OutboxStatus == {"PENDING", "SYNCED", "FAILED", "CONFLICT"}

(* An outbox item: its operation, entityId, payload.inspectionReportId,    *)
(* the serial it creates, status, and whether lastError is set. "GONE" is  *)
(* the status of an item deleted from the store.                           *)
OutboxItem ==
    [op : ReportOp \cup SerialOp, entity : Id, parent : Id \cup {NoId},
     serial : Serial \cup {NoId}, status : OutboxStatus \cup {"GONE"}, error : BOOLEAN]

VARIABLES
    outbox,        \* the items in the order of their createdAt
    rows,          \* the local rows: the report of each id, NoId if there is no row
    form,          \* the edit a user is saving
    online,        \* ConnectivityService.isOnline
    pendingCount, hasConflict,      \* the signals of OutboxService
    run,           \* where each call of runSyncSequence is
    isSyncing,
    drain,         \* where processQueue is
    clearing,      \* clearConflicts deleted items and has yet to count
    effectDue, timerSet,   \* the orchestrator's effect has to run, its timer is set
    accepted,      \* the items whose effect the server has made
    faults

signals == <<online, hasConflict, pendingCount>>
formVars == <<rows, form>>
syncVars == <<run, isSyncing, drain>>
serverVars == <<accepted, faults>>
vars == <<outbox, formVars, signals, syncVars, clearing, effectDue, timerSet, serverVars>>

NoForm == [step |-> "none"]
NoDrain == [step |-> "idle"]

Init ==
    /\ outbox = <<>>
    /\ rows = [id \in Id |-> NoId]
    /\ form = NoForm
    /\ online \in BOOLEAN
    /\ pendingCount = 0 /\ hasConflict = FALSE
    /\ run = [r \in Run |-> "idle"]
    /\ isSyncing = FALSE
    /\ drain = NoDrain
    /\ clearing = FALSE
    /\ effectDue = TRUE /\ timerSet = FALSE
    /\ accepted = {}
    /\ faults = 0

WithStatus(s) == {n \in DOMAIN outbox : outbox[n].status = s}

Fault == faults < MaxFaults /\ faults' = faults + 1

(***************************************************************************)
(* Changes made by the user (inspection-reports.service.ts). Online, and   *)
(* for an entity the server knows, a change is asked of the server first;  *)
(* otherwise, or if no answer came, it is saved locally and queued.        *)
(***************************************************************************)
(* An id is made once: no row and no item has had it.                      *)
Fresh(e) ==
    /\ rows[Local(e)] = NoId /\ rows[Server(e)] = NoId
    /\ \A n \in DOMAIN outbox : outbox[n].entity[1] # e /\ outbox[n].serial # e

Begin(op, id, parent, serial, asks) ==
    /\ form = NoForm
    /\ Len(outbox) < MaxItems
    /\ form' = [op |-> op, id |-> id, parent |-> parent, serial |-> serial,
                step |-> IF online /\ asks THEN "asking" ELSE "saving"]
    /\ UNCHANGED <<outbox, rows, signals, syncVars, clearing, timerSet, serverVars>>

CreateReport(r) ==
    /\ Fresh(r)
    /\ Begin("createReport", Local(r), NoId, NoId, TRUE)

AddSerial(s, id) ==
    /\ Fresh(s)
    /\ rows[id] # NoId
    /\ Begin("createSerials", id, id, s, id \notin LocalIds)

EditReport(id) ==
    /\ rows[id] # NoId
    /\ Begin("editReport", id, NoId, NoId, id \notin LocalIds)

EditSerial(id) ==
    /\ rows[id] # NoId
    /\ Begin("editSerial", id, rows[id], NoId, id \notin LocalIds)

DeleteSerial(id) ==
    /\ rows[id] # NoId
    /\ Begin("deleteSerial", id, rows[id], NoId, id \notin LocalIds)

(* The answer of the server: it made the change, or refused it with an     *)
(* error shown to the user; or there was no answer.                        *)
AskServer ==
    /\ form.step = "asking"
    /\ \/ /\ form' = NoForm
          /\ \/ rows' = [rows EXCEPT ![IF form.op = "createReport" THEN Server(form.id[1])
                                       ELSE IF form.op = "createSerials"
                                       THEN Server(form.serial) ELSE form.id] =
                            CASE form.op = "createReport" -> Server(form.id[1])
                              [] form.op = "createSerials" -> form.id
                              [] form.op = "deleteSerial" -> NoId
                              [] OTHER -> @]
             \/ UNCHANGED rows
          /\ UNCHANGED <<online, faults>>
       \/ /\ Fault
          /\ online' = FALSE
          /\ form' = [form EXCEPT !.step = "saving"]
          /\ UNCHANGED rows
    /\ UNCHANGED <<outbox, pendingCount, hasConflict, syncVars, clearing, timerSet, accepted>>

(* The row and the item are put; nothing in between depends on either. Of  *)
(* the changes to a serial, an edit names no inspectionReportId.           *)
SaveAndEnqueue ==
    /\ form.step = "saving"
    /\ rows' = CASE form.op = "createReport" -> [rows EXCEPT ![form.id] = form.id]
                 [] form.op = "createSerials" -> [rows EXCEPT ![Local(form.serial)] = form.id]
                 [] form.op = "editReport" -> [rows EXCEPT ![form.id] = form.id]
                 [] form.op = "editSerial" -> [rows EXCEPT ![form.id] = form.parent]
                 [] form.op = "deleteSerial" -> [rows EXCEPT ![form.id] = NoId]
    /\ outbox' = Append(outbox,
          [op |-> form.op, entity |-> form.id, serial |-> form.serial,
           parent |-> IF form.op = "editSerial" THEN NoId ELSE form.parent,
           status |-> "PENDING", error |-> FALSE])
    /\ pendingCount' = pendingCount + 1
    /\ form' = NoForm
    /\ UNCHANGED <<online, hasConflict, syncVars, clearing, timerSet, serverVars>>

Edit ==
    \/ \E r \in Report : CreateReport(r)
    \/ \E id \in ReportIds : EditReport(id) \/ \E s \in Serial : AddSerial(s, id)
    \/ \E id \in SerialIds : EditSerial(id) \/ DeleteSerial(id)
    \/ AskServer
    \/ SaveAndEnqueue

(***************************************************************************)
(* Draining the outbox (OutboxService.processQueue and                     *)
(* SyncDispatcherService.dispatch).                                        *)
(***************************************************************************)
(* A fault to refute: everything unsynced is counted.                      *)
RecountedUnsynced ==
    /\ pendingCount' = Len(outbox) - Cardinality(WithStatus("SYNCED"))
    /\ hasConflict' = (WithStatus("CONFLICT") # {})

Recounted ==
    /\ pendingCount' = Cardinality(WithStatus("PENDING"))
    /\ hasConflict' = (WithStatus("CONFLICT") # {})

(* The listing of the pending items' numbers, oldest first: there is one.  *)
PendingItems ==
    LET P == WithStatus("PENDING")
    IN  {q \in [1 .. Cardinality(P) -> P] : \A i, j \in DOMAIN q : i < j => q[i] < q[j]}

ConflictedEntities == {outbox[n].entity : n \in WithStatus("CONFLICT")}

(* A fault to refute: only the report is looked up in skipEntities.        *)
ParentBlocked(item) == item.parent \in drain.skip

Blocked(item) == {item.entity, item.parent} \cap drain.skip # {}

(* The id in the URL of an item's request.                                 *)
Target(item) ==
    CASE item.op = "createReport" -> NoId
      [] item.op = "createSerials" -> item.parent
      [] OTHER -> item.entity

ListPending ==
    /\ drain.step = "list"
    /\ \E q \in PendingItems : drain' = [drain EXCEPT !.step = "scan", !.todo = q]
    /\ UNCHANGED <<outbox, formVars, signals, run, isSyncing, clearing, timerSet, serverVars>>

(* The item is read again; if it depends on one in trouble it is held,     *)
(* otherwise its request is sent.                                          *)
TakeItem ==
    /\ drain.step = "scan"
    /\ drain.todo # <<>>
    /\ LET n == Head(drain.todo)
           rest == [drain EXCEPT !.todo = Tail(@)]
       IN  IF outbox[n].status # "PENDING"
           THEN drain' = rest
           ELSE drain' = [rest EXCEPT !.step = IF Blocked(outbox[n]) THEN "hold" ELSE "sent",
                                      !.number = n, !.item = outbox[n]]
    /\ UNCHANGED <<outbox, formVars, signals, run, isSyncing, clearing, timerSet, serverVars>>

(* The item is put back as it was read, whatever became of it since.       *)
PutBack(status, failed, skip) ==
    /\ outbox' = [outbox EXCEPT ![drain.number] =
                      [drain.item EXCEPT !.status = status, !.error = failed]]
    /\ drain' = [drain EXCEPT !.step = "recount", !.number = 0, !.item = NoId,
                              !.answer = "none", !.skip = skip]
    /\ UNCHANGED <<formVars, signals, run, isSyncing, clearing, timerSet, serverVars>>

(* A dependent of an item in trouble becomes a conflict itself.            *)
HoldItem ==
    /\ drain.step = "hold"
    /\ PutBack("CONFLICT", TRUE, drain.skip)

(* What can come of a request: the server knows no temporary id.           *)
Answers(item) ==
    {"refused", "lost"} \cup
    IF Target(item) \in LocalIds THEN {}
    ELSE {"ok"} \cup IF item.op \in {"editReport", "createSerials", "editSerial"}
                     THEN {"conflict"} ELSE {}

(* A lost answer (no response, or a 5xx) may follow a change that was made. *)
GetAnswer ==
    /\ drain.step = "sent"
    /\ \E a \in Answers(drain.item) :
          /\ drain' = [drain EXCEPT !.answer = a,
                                    !.step = IF a = "ok" THEN "rows" ELSE "record"]
          /\ IF a = "lost" THEN Fault ELSE UNCHANGED faults
          /\ \/ /\ a = "ok" \/ (a = "lost" /\ "ok" \in Answers(drain.item))
                /\ accepted' = accepted \cup {drain.number}
             \/ a # "ok" /\ UNCHANGED accepted
    /\ UNCHANGED <<outbox, formVars, signals, run, isSyncing, clearing, timerSet>>

(* The local rows after an accepted change: temporary ids give way to the  *)
(* server's, the answer to an edit is stored over the row.                 *)
UpdateRows ==
    /\ drain.step = "rows"
    /\ LET i == drain.item
           e == i.entity[1]
       IN  CASE i.op = "createReport" ->
                    rows' = [id \in Id |->
                        IF id = Local(e) THEN NoId
                        ELSE IF id = Server(e)
                        THEN IF rows[Local(e)] # NoId THEN id ELSE rows[id]
                        ELSE IF rows[id] = Local(e) THEN Server(e) ELSE rows[id]]
             [] i.op = "createSerials" ->
                    rows' = IF rows[Local(i.serial)] = NoId THEN rows
                            ELSE [rows EXCEPT ![Local(i.serial)] = NoId,
                                              ![Server(i.serial)] = i.parent]
             [] i.op = "editReport" -> rows' = [rows EXCEPT ![i.entity] = i.entity]
             [] i.op = "editSerial" ->
                    \E r \in Report :
                        rows' = [rows EXCEPT ![i.entity] = IF @ = NoId THEN Server(r) ELSE @]
             [] OTHER -> UNCHANGED rows
    /\ drain' = [drain EXCEPT !.step = "items"]
    /\ UNCHANGED <<outbox, form, signals, run, isSyncing, clearing, timerSet, serverVars>>

(* A pending item that waits for the entity just created gets its id.      *)
Remapped(m, created) ==
    LET e == created.entity[1]
    IN  CASE created.op = "createReport" /\ m.op \in ReportOp /\ m.entity = Local(e) ->
                 [m EXCEPT !.entity = Server(e)]
          [] created.op = "createReport" /\ m.op \in SerialOp /\ m.parent = Local(e) ->
                 [m EXCEPT !.parent = Server(e),
                           !.entity = IF @ = Local(e) THEN Server(e) ELSE @]
          [] created.op = "createSerials" /\ m.op \in SerialOp
             /\ m.entity = Local(created.serial) ->
                 [m EXCEPT !.entity = Server(created.serial)]
          [] OTHER -> m

(* The pending items are read, then those that wait are put, even if they  *)
(* were cleared in between.                                                *)
FindDependents ==
    /\ drain.step = "items"
    /\ LET waiting == {n \in WithStatus("PENDING") :
                          Remapped(outbox[n], drain.item) # outbox[n]}
       IN  drain' = [drain EXCEPT !.step = IF waiting = {} THEN "record" ELSE "puts",
                                  !.waiting = waiting]
    /\ UNCHANGED <<outbox, formVars, signals, run, isSyncing, clearing, timerSet, serverVars>>

PutDependents ==
    /\ drain.step = "puts"
    /\ outbox' = [n \in DOMAIN outbox |->
                     IF n \in drain.waiting
                     THEN [Remapped(outbox[n], drain.item) EXCEPT !.status = "PENDING"]
                     ELSE outbox[n]]
    /\ drain' = [drain EXCEPT !.step = "record", !.waiting = {}]
    /\ UNCHANGED <<formVars, signals, run, isSyncing, clearing, timerSet, serverVars>>

StatusAfter(answer) ==
    CASE answer = "ok" -> "SYNCED"
      [] answer = "conflict" -> "CONFLICT"
      [] answer = "refused" -> "FAILED"
      [] answer = "lost" -> "PENDING"

SkipAfter(answer) ==
    drain.skip \cup IF answer # "ok" THEN {drain.item.entity} ELSE {}

RecordAnswer ==
    /\ drain.step = "record"
    /\ PutBack(StatusAfter(drain.answer), drain.answer # "ok", SkipAfter(drain.answer))

RehydrateCount ==
    /\ drain.step = "recount"
    /\ Recounted
    /\ drain' = [drain EXCEPT !.step = "scan"]
    /\ UNCHANGED <<outbox, formVars, online, run, isSyncing, clearing, timerSet, serverVars>>

EndDrain ==
    /\ drain.step = "scan"
    /\ drain.todo = <<>>
    /\ run' = [run EXCEPT ![drain.run] = "hydrating"]
    /\ drain' = NoDrain
    /\ UNCHANGED <<outbox, formVars, signals, isSyncing, clearing, timerSet, serverVars>>

ProcessQueue ==
    ListPending \/ TakeItem \/ HoldItem \/ GetAnswer \/ UpdateRows \/ FindDependents
        \/ PutDependents \/ RecordAnswer \/ RehydrateCount \/ EndDrain

(***************************************************************************)
(* Synchronisation runs (SyncOrchestratorService.runSyncSequence).         *)
(***************************************************************************)
StartRun(r) ==
    /\ ~isSyncing
    /\ run[r] = "idle" /\ \A q \in 1 .. r - 1 : run[q] # "idle"
    /\ run' = [run EXCEPT ![r] = "probing"]

(* The server was found unreachable; or isSyncing is set, untested since   *)
(* the run began, and the queue is drained unless another run does.        *)
ProbeServer(r) ==
    /\ run[r] = "probing"
    /\ \/ /\ \/ ~online /\ UNCHANGED <<online, faults>>
             \/ Fault /\ online' = FALSE
          /\ run' = [run EXCEPT ![r] = "idle"]
          /\ UNCHANGED <<isSyncing, drain>>
       \/ /\ online
          /\ isSyncing' = TRUE
          /\ IF drain.step = "idle"
             THEN /\ drain' = [step |-> "list", run |-> r, skip |-> ConflictedEntities,
                               todo |-> <<>>, number |-> 0, item |-> NoId,
                               answer |-> "none", waiting |-> {}]
                  /\ run' = [run EXCEPT ![r] = "draining"]
             ELSE /\ run' = [run EXCEPT ![r] = "hydrating"]
                  /\ UNCHANGED drain
          /\ UNCHANGED <<online, faults>>
    /\ UNCHANGED <<outbox, formVars, pendingCount, hasConflict, clearing, timerSet, accepted>>

(* A fault to refute: a run ends without resetting isSyncing.              *)
EndRunSyncing(r) ==
    /\ run[r] = "hydrating"
    /\ run' = [run EXCEPT ![r] = "idle"]
    /\ UNCHANGED <<outbox, formVars, signals, isSyncing, drain, clearing, timerSet, serverVars>>

EndRun(r) ==
    /\ run[r] = "hydrating"
    /\ run' = [run EXCEPT ![r] = "idle"]
    /\ isSyncing' = FALSE
    /\ \/ UNCHANGED <<online, faults>>
       \/ Fault /\ online' = FALSE
    /\ UNCHANGED <<outbox, formVars, pendingCount, hasConflict, drain, clearing, timerSet,
                   accepted>>

SyncNow ==
    /\ online
    /\ \E r \in Run : StartRun(r)
    /\ UNCHANGED <<outbox, formVars, signals, isSyncing, drain, clearing, timerSet, serverVars>>

(* A fault to refute: the whole outbox is cleared but for what was synced. *)
Unsynced(item) == item.status \notin {"SYNCED", "GONE"}

Clearable(item) ==
    item.status \in {"CONFLICT", "FAILED"} \/ (item.error /\ item.status # "GONE")

(* The shell's clearSyncErrors: clear, count, and synchronise.             *)
ClearConflicts ==
    /\ ~clearing
    /\ \E n \in DOMAIN outbox : Clearable(outbox[n])
    /\ outbox' = [n \in DOMAIN outbox |->
                     IF Clearable(outbox[n])
                     THEN [outbox[n] EXCEPT !.status = "GONE"] ELSE outbox[n]]
    /\ clearing' = TRUE
    /\ UNCHANGED <<formVars, signals, syncVars, timerSet, serverVars>>

CountAfterClear ==
    /\ clearing
    /\ pendingCount' = Cardinality(WithStatus("PENDING"))
    /\ hasConflict' = FALSE
    /\ clearing' = FALSE
    /\ IF isSyncing THEN UNCHANGED run ELSE \E r \in Run : StartRun(r)
    /\ UNCHANGED <<outbox, formVars, online, isSyncing, drain, timerSet, serverVars>>

(***************************************************************************)
(* Automatic runs: an effect on the signals sets a timer, unless one ran   *)
(* within the cooldown. The model keeps no clock: the cooldown may have    *)
(* passed or not.                                                          *)
(***************************************************************************)
MayAutoSync == ~isSyncing /\ online /\ ~hasConflict /\ pendingCount > 0

RunEffect ==
    /\ effectDue
    /\ effectDue' = FALSE
    /\ timerSet' \in {timerSet, timerSet \/ MayAutoSync}
    /\ UNCHANGED <<outbox, formVars, signals, syncVars, clearing, serverVars>>

TimerFires ==
    /\ timerSet
    /\ timerSet' = FALSE
    /\ IF MayAutoSync THEN \E r \in Run : StartRun(r) ELSE UNCHANGED run
    /\ UNCHANGED <<outbox, formVars, signals, isSyncing, drain, clearing, serverVars>>

Disconnect ==
    /\ online
    /\ Fault
    /\ online' = FALSE
    /\ UNCHANGED <<outbox, formVars, pendingCount, hasConflict, syncVars, clearing, timerSet,
                   accepted>>

Reconnect ==
    /\ ~online
    /\ online' = TRUE
    /\ UNCHANGED <<outbox, formVars, pendingCount, hasConflict, syncVars, clearing, timerSet,
                   serverVars>>

(* A changed signal makes the effect run again.                            *)
Signalled == effectDue' = (effectDue \/ signals' # signals)

Next ==
    \/ /\ \/ Edit \/ ProcessQueue \/ SyncNow \/ ClearConflicts \/ CountAfterClear
          \/ \E r \in Run : ProbeServer(r) \/ EndRun(r)
          \/ TimerFires \/ Disconnect \/ Reconnect
       /\ Signalled
    \/ RunEffect

(* The event loop runs what is ready; the device comes online again and    *)
(* the user synchronises.                                                  *)
Fairness ==
    /\ WF_vars(ProcessQueue /\ Signalled)
    /\ \A r \in Run : WF_vars(ProbeServer(r) /\ Signalled) /\ WF_vars(EndRun(r) /\ Signalled)
    /\ WF_vars(Reconnect /\ Signalled)
    /\ WF_vars(SyncNow /\ Signalled)

Spec == Init /\ [][Next]_vars
FairSpec == Spec /\ Fairness

(***************************************************************************)
(* Properties.                                                             *)
(***************************************************************************)
InFlightSteps == {"sent", "rows", "items", "puts", "record"}

InFlight(n) == drain.step \in InFlightSteps /\ drain.number = n

Fate(n) ==
    IF n \notin DOMAIN outbox THEN "none"
    ELSE IF InFlight(n) THEN "sent"
    ELSE CASE outbox[n].status = "PENDING" -> "queued"
           [] outbox[n].status = "SYNCED" -> "delivered"
           [] outbox[n].status = "GONE" -> "dropped"
           [] OTHER -> "held"

Delivery == INSTANCE DeliveryQueue WITH
    fate <- [n \in 1 .. MaxItems |-> Fate(n)],
    marked <- {n \in DOMAIN outbox : outbox[n].error}

(* The outbox keeps the promises of DeliveryQueue: overlapping runs, lost  *)
(* answers and a clear in the middle of a drain never send two requests at *)
(* once, mark a change SYNCED that the server did not make, send it again  *)
(* after that, or drop one that met no error. A clear may be undone.       *)
KeepsDelivery == Delivery!Spec

Sends(n) == drain.step = "scan" /\ drain'.step = "sent" /\ drain'.number = n

(* The drain is FIFO for each entityId, retries included: no item is sent  *)
(* while an older one of the same entity is still pending, although ids    *)
(* are remapped and failed items go back to pending in the meantime.       *)
DispatchInOrder ==
    [][\A n \in DOMAIN outbox : Sends(n) =>
          \A m \in 1 .. n - 1 :
              outbox[m].status = "PENDING" => outbox[m].entity # outbox[n].entity]_vars

(* The signal that decides about automatic runs is the number of pending   *)
(* items, except while the steps that changed one have yet to count: an    *)
(* item cleared and counted comes back when the drain puts its new id.     *)
PendingCountIsExact ==
    drain.step \notin {"record", "recount"} /\ ~clearing =>
        pendingCount = Cardinality(WithStatus("PENDING"))

(* A queued item does not stay pending: with a device that comes online    *)
(* again, a user who synchronises and finitely many lost answers, it is    *)
(* sent, refused, held back or cleared.                                    *)
QueuedIsDecided ==
    \A n \in 1 .. MaxItems :
        (n \in WithStatus("PENDING")) ~> (n \notin WithStatus("PENDING"))

(* The temporary id an item's request will replace.                        *)
Creates(item) ==
    CASE item.op = "createReport" -> item.entity
      [] item.op = "createSerials" -> Local(item.serial)
      [] OTHER -> NoId

(* The dependency gate: the create of an entity always precedes the        *)
(* operations on it. No request is sent for an entity whose create is      *)
(* still pending.                                                          *)
CreatePrecedesDependents ==
    [][\A n \in DOMAIN outbox : Sends(n) =>
          \A m \in WithStatus("PENDING") \ {n} :
              Target(outbox[n]) = NoId \/ Creates(outbox[m]) # Target(outbox[n])]_vars
=============================================================================
