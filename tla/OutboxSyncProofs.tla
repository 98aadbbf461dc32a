-------------------------- MODULE OutboxSyncProofs --------------------------
(***************************************************************************)
(* For any reports, serials and numbers of runs, items and faults: the     *)
(* invariant of the drain; that the count is that of the pending items;    *)
(* that the outbox implements DeliveryQueue; and that the drain is FIFO    *)
(* for each entity.                                                        *)
(***************************************************************************)
EXTENDS OutboxSync, TLAPS, FiniteSetTheorems, FunctionTheorems, SequenceTheorems

(* The change that makes an id, and the items that name a temporary one.   *)
Makes(item, e) ==
    \/ item.op = "createReport" /\ item.entity[1] = e
    \/ item.op = "createSerials" /\ item.serial = e

Made(e) == \E c \in DOMAIN outbox : Makes(outbox[c], e)

Names(item, e) == Local(e) \in {item.entity, item.parent}

AnswerSteps == {"rows", "items", "puts", "record"}
BusySteps == {"hold"} \cup InFlightSteps
DrainStep == {"list", "scan", "hold", "recount"} \cup InFlightSteps
Answer == {"none", "ok", "conflict", "refused", "lost"}

DrainState(D) ==
    [step : DrainStep, run : Run, skip : SUBSET Id, todo : Seq(D), number : {0} \cup D,
     item : OutboxItem \cup {NoId}, answer : Answer, waiting : SUBSET D]

(* The parts of the invariant: the screen and the signals, the queue, and  *)
(* what the drain relies on.                                               *)
FormState ==
    [op : ReportOp \cup SerialOp, id : Id, parent : Id \cup {NoId},
     serial : Serial \cup {NoId}, step : {"asking", "saving"}]

FormType == rows \in [Id -> Id \cup {NoId}] /\ form \in {NoForm} \cup FormState

SignalType ==
    /\ online \in BOOLEAN /\ hasConflict \in BOOLEAN /\ pendingCount \in Nat
    /\ run \in [Run -> {"idle", "probing", "draining", "hydrating"}]
    /\ isSyncing \in BOOLEAN /\ clearing \in BOOLEAN
    /\ effectDue \in BOOLEAN /\ timerSet \in BOOLEAN
    /\ faults \in Nat

QueueType ==
    /\ outbox \in Seq(OutboxItem)
    /\ Len(outbox) <= MaxItems
    /\ form # NoForm => Len(outbox) < MaxItems
    /\ accepted \subseteq Nat
    /\ drain \in {NoDrain} \cup DrainState(DOMAIN outbox)

(* An item whose trouble accounts for the entities skipped.                *)
Witness(m) ==
    /\ m \in DOMAIN outbox
    /\ outbox[m].error
    /\ drain.step = "list" => outbox[m].status # "PENDING"
    /\ \A i \in DOMAIN drain.todo : drain.todo[i] # m
    /\ drain.number # m

InOrder ==
    drain # NoDrain =>
        /\ \A i, j \in DOMAIN drain.todo : i < j => drain.todo[i] < drain.todo[j]
        /\ drain.step = "list" => drain.todo = << >>
        /\ drain.answer = "none" <=> drain.step \notin AnswerSteps
        /\ drain.skip # {} => \E m \in DOMAIN outbox : Witness(m)

AtItem ==
    drain.step \in BusySteps =>
        /\ drain.number \in DOMAIN outbox
        /\ drain.item \in OutboxItem /\ drain.item.status = "PENDING"
        /\ outbox[drain.number].status \in {"PENDING", "GONE"}
        /\ \A i \in DOMAIN drain.todo : drain.number < drain.todo[i]
        /\ drain.answer = "ok" => drain.number \in accepted

StepSound ==
    /\ drain.step = "hold" => drain.skip # {}
    /\ drain.step \in {"rows", "items", "puts"} => drain.answer = "ok"
    /\ drain.step = "puts" =>
          \A m \in drain.waiting : outbox[m].status \in {"PENDING", "GONE"}

(* An error is recorded exactly where something went wrong.                *)
ErrorsRecorded ==
    \A n \in DOMAIN outbox :
        /\ outbox[n].status \in {"CONFLICT", "FAILED", "GONE"} => outbox[n].error
        /\ outbox[n].status = "SYNCED" => ~outbox[n].error

QueueSound == QueueType /\ ErrorsRecorded /\ InOrder /\ AtItem /\ StepSound

(* What the drain holds between its awaits still fits the outbox: the item *)
(* it is at was pending when read, and was at most cleared since; what it  *)
(* has yet to take comes later; whatever makes it skip left a mark on an   *)
(* item it will not take any more.                                         *)
DrainInvariant == FormType /\ SignalType /\ QueueSound

LEMMA InvariantParts == DrainInvariant <=> FormType /\ SignalType /\ QueueSound
  BY DEF DrainInvariant

----------------------------------------------------------------------------
(* Operators.                                                              *)

LEMMA OutboxIsFunction ==
    ASSUME NEW items \in Seq(OutboxItem)
    PROVE  /\ Len(items) \in Nat /\ DOMAIN items = 1 .. Len(items)
           /\ \A n \in DOMAIN items : items[n] \in OutboxItem
BY LenProperties, ElementOfSeq

(* A rewrite of the items in place is an outbox of the same length.        *)
LEMMA InPlace ==
    ASSUME NEW items \in Seq(OutboxItem), NEW to,
           to \in [DOMAIN items -> OutboxItem]
    PROVE  /\ to \in Seq(OutboxItem) /\ Len(to) = Len(items) /\ DOMAIN to = DOMAIN items
<1>1. Len(items) \in Nat /\ DOMAIN items = 1 .. Len(items)
  BY OutboxIsFunction
<1>2. to \in Seq(OutboxItem)
  BY <1>1, SeqDef
<1>3. Len(to) \in Nat /\ DOMAIN to = 1 .. Len(to)
  BY <1>2, OutboxIsFunction
<1> QED BY <1>1, <1>2, <1>3

LEMMA ItemFields ==
    ASSUME NEW i \in OutboxItem
    PROVE  /\ i.status \in OutboxStatus \cup {"GONE"} /\ i.error \in BOOLEAN
           /\ i.entity \in Id /\ i.parent \in Id \cup {NoId} /\ i.serial \in Serial \cup {NoId}
           /\ i.op \in ReportOp \cup SerialOp
BY DEF OutboxItem

(* What an item is about, whatever became of it; and what made of it.      *)
SameNames(i, j) ==
    i.op = j.op /\ i.serial = j.serial /\ i.entity = j.entity /\ i.parent = j.parent

SameOrigin(i, j) == i.op = j.op /\ i.serial = j.serial /\ i.entity[1] = j.entity[1]

(* What makes an id, and what names it, follow from these alone.           *)
LEMMA SameMade ==
    ASSUME NEW i, NEW j, NEW e
    PROVE  /\ SameNames(i, j) => SameOrigin(i, j) /\ (Names(i, e) <=> Names(j, e))
           /\ SameOrigin(i, j) => (Makes(i, e) <=> Makes(j, e))
BY DEF SameNames, SameOrigin, Makes, Names

LEMMA ItemMarked ==
    ASSUME NEW i \in OutboxItem, NEW s \in {"PENDING", "GONE"}
    PROVE  /\ [i EXCEPT !.status = s] \in OutboxItem
           /\ [i EXCEPT !.status = s].status = s
           /\ [i EXCEPT !.status = s].error = i.error
           /\ SameNames([i EXCEPT !.status = s], i)
BY DEF OutboxItem, OutboxStatus, SameNames

LEMMA EntityOfId ==
    ASSUME NEW id \in Id
    PROVE  id[1] \in Entity /\ id = <<id[1], id[2]>>
BY DEF Id, ReportIds, SerialIds, Entity

LEMMA ServerIds ==
    ASSUME NEW x \in Entity
    PROVE  Server(x) \in Id /\ Local(x) \in Id
BY DEF Server, Local, Id, ReportIds, SerialIds, Entity

(* New ids are given to an item, never a status or an error.               *)
LEMMA RemappedKeeps ==
    ASSUME NEW m \in OutboxItem, NEW created \in OutboxItem
    PROVE  /\ Remapped(m, created) \in OutboxItem
           /\ Remapped(m, created).status = m.status
           /\ Remapped(m, created).error = m.error
           /\ SameOrigin(Remapped(m, created), m)
           /\ \A x \in Entity : Names(Remapped(m, created), x) => Names(m, x)
<1>1. PICK r : r = Remapped(m, created)
  OBVIOUS
<1>2. PICK e : e = created.entity[1]
  OBVIOUS
<1>3. PICK s : s = created.serial
  OBVIOUS
<1>4. Server(e) \in Id
  BY <1>2, ItemFields, EntityOfId, ServerIds
<1>5. \/ m.entity = Local(e) /\ r = [m EXCEPT !.entity = Server(e)]
      \/ r = [m EXCEPT !.parent = Server(e)]
      \/ m.entity = Local(e) /\ r = [m EXCEPT !.parent = Server(e), !.entity = Server(e)]
      \/ m.entity = Local(s) /\ r = [m EXCEPT !.entity = Server(s)]
      \/ r = m
  <2>1. CASE created.op = "createReport"
    <3>1. CASE m.op \in ReportOp /\ m.entity = Local(e)
      BY <3>1, <2>1, <1>1, <1>2 DEF Remapped
    <3>2. CASE m.op \in SerialOp /\ m.parent = Local(e)
      <4>1. r = [m EXCEPT !.parent = Server(e),
                          !.entity = IF @ = Local(e) THEN Server(e) ELSE @]
        BY <3>2, <2>1, <1>1, <1>2 DEF Remapped, ReportOp, SerialOp
      <4>2. CASE m.entity = Local(e)
        BY <3>2, <4>1, <4>2 DEF OutboxItem
      <4>3. CASE m.entity # Local(e)
        BY <3>2, <4>1, <4>3 DEF OutboxItem
      <4> QED BY <4>2, <4>3
    <3> QED BY <3>1, <3>2, <2>1, <1>1, <1>2 DEF Remapped
  <2>2. CASE created.op # "createReport"
    BY <2>2, <1>1, <1>3 DEF Remapped
  <2> QED BY <2>1, <2>2
<1>6. m.entity = Local(s) => Server(s) \in Id
  <2> SUFFICES ASSUME m.entity = Local(s) PROVE Server(s) \in Id
    OBVIOUS
  <2>1. m.entity \in Id /\ m.entity[1] = s
    BY ItemFields DEF Local
  <2> QED BY <2>1, EntityOfId, ServerIds
<1>7. /\ r \in OutboxItem /\ r.status = m.status /\ r.error = m.error
      /\ r.op = m.op /\ r.serial = m.serial
      /\ \/ r.entity = m.entity
         \/ r.entity = Server(e) /\ m.entity = Local(e)
         \/ r.entity = Server(s) /\ m.entity = Local(s)
      /\ r.parent = m.parent \/ r.parent = Server(e)
  <2>1. CASE m.entity = Local(e) /\ r = [m EXCEPT !.entity = Server(e)]
    BY <2>1, <1>4 DEF OutboxItem
  <2>2. CASE r = [m EXCEPT !.parent = Server(e)]
    BY <2>2, <1>4 DEF OutboxItem
  <2>3. CASE m.entity = Local(e) /\ r = [m EXCEPT !.parent = Server(e), !.entity = Server(e)]
    BY <2>3, <1>4 DEF OutboxItem
  <2>4. CASE m.entity = Local(s) /\ r = [m EXCEPT !.entity = Server(s)]
    BY <2>4, <1>6 DEF OutboxItem
  <2> QED BY <1>5, <2>1, <2>2, <2>3, <2>4
<1>8. r.entity[1] = m.entity[1]
  BY <1>7 DEF Server, Local
<1>9. \A x \in Entity : Names(r, x) => Names(m, x)
  BY <1>7 DEF Names, Server, Local
<1> QED BY <1>1, <1>7, <1>8, <1>9 DEF SameOrigin

LEMMA StatusSets ==
    ASSUME outbox \in Seq(OutboxItem), NEW s
    PROVE  /\ WithStatus(s) \subseteq DOMAIN outbox /\ IsFiniteSet(WithStatus(s))
           /\ Cardinality(WithStatus(s)) \in Nat
<1>1. IsFiniteSet(DOMAIN outbox)
  BY OutboxIsFunction, FS_Interval
<1>2. WithStatus(s) \in SUBSET DOMAIN outbox
  BY DEF WithStatus
<1>3. IsFiniteSet(WithStatus(s))
  BY <1>1, <1>2, FS_Subset
<1> QED BY <1>2, <1>3, FS_CardinalityType

----------------------------------------------------------------------------
(* The form, the local rows and the signals.                               *)

LEMMA FormFields ==
    ASSUME NEW f \in FormState
    PROVE  /\ f # NoForm /\ f.op \in ReportOp \cup SerialOp
           /\ f.id \in Id /\ f.parent \in Id \cup {NoId}
           /\ f.serial \in Serial \cup {NoId} /\ f.step \in {"asking", "saving"}
           /\ [f EXCEPT !.step = "saving"] \in FormState
BY DEF FormState, NoForm

LEMMA FormOpen ==
    ASSUME FormType, form.step \in {"asking", "saving"}
    PROVE  form \in FormState
BY DEF FormType, NoForm

LEMMA BeginType ==
    ASSUME FormType,
           NEW op \in ReportOp \cup SerialOp, NEW id \in Id, NEW parent \in Id \cup {NoId},
           NEW serial \in Serial \cup {NoId}, NEW asks \in BOOLEAN,
           Begin(op, id, parent, serial, asks)
    PROVE  FormType'
BY DEF FormType, FormState, Begin

(* Opening a form leaves everything but the form as it is.                 *)
BeginsForm ==
    /\ Len(outbox) < MaxItems
    /\ UNCHANGED <<outbox, rows, signals, syncVars, clearing, timerSet, serverVars>>

UserBegins ==
    \/ \E r \in Report : CreateReport(r)
    \/ \E id \in ReportIds : EditReport(id) \/ \E s \in Serial : AddSerial(s, id)
    \/ \E id \in SerialIds : EditSerial(id) \/ DeleteSerial(id)

LEMMA UserBeginsType ==
    ASSUME FormType, UserBegins
    PROVE  FormType' /\ BeginsForm
<1>1. ASSUME NEW r \in Report, CreateReport(r)
      PROVE  FormType' /\ BeginsForm
  <2>1. Local(r) \in Id /\ "createReport" \in ReportOp \cup SerialOp
    BY ServerIds DEF Entity, ReportOp
  <2>2. Begin("createReport", Local(r), NoId, NoId, TRUE)
    BY <1>1 DEF CreateReport
  <2> QED BY <2>1, <2>2, BeginType DEF Begin, BeginsForm
<1>2. ASSUME NEW id \in ReportIds, EditReport(id)
      PROVE  FormType' /\ BeginsForm
  <2>1. id \in Id /\ "editReport" \in ReportOp \cup SerialOp
    BY DEF Id, ReportOp
  <2>2. Begin("editReport", id, NoId, NoId, id \notin LocalIds)
    BY <1>2 DEF EditReport
  <2> QED BY <2>1, <2>2, BeginType DEF Begin, BeginsForm
<1>3. ASSUME NEW id \in ReportIds, NEW s \in Serial, AddSerial(s, id)
      PROVE  FormType' /\ BeginsForm
  <2>1. id \in Id /\ "createSerials" \in ReportOp \cup SerialOp
    BY DEF Id, SerialOp
  <2>2. Begin("createSerials", id, id, s, id \notin LocalIds)
    BY <1>3 DEF AddSerial
  <2> QED BY <2>1, <2>2, BeginType DEF Begin, BeginsForm
<1>4. ASSUME NEW id \in SerialIds, EditSerial(id) \/ DeleteSerial(id)
      PROVE  FormType' /\ BeginsForm
  <2>1. id \in Id /\ {"editSerial", "deleteSerial"} \subseteq ReportOp \cup SerialOp
    BY DEF Id, SerialOp
  <2>2. rows[id] \in Id \cup {NoId}
    BY <2>1 DEF FormType
  <2>3. \/ Begin("editSerial", id, rows[id], NoId, id \notin LocalIds)
        \/ Begin("deleteSerial", id, rows[id], NoId, id \notin LocalIds)
    BY <1>4 DEF EditSerial, DeleteSerial
  <2> QED BY <2>1, <2>2, <2>3, BeginType DEF Begin, BeginsForm
<1> QED BY <1>1, <1>2, <1>3, <1>4 DEF UserBegins

LEMMA AskServerType ==
    ASSUME FormType, AskServer
    PROVE  FormType'
<1>1. form \in FormState
  BY FormOpen DEF AskServer
<1>2. /\ form.id \in Id /\ Server(form.id[1]) \in Id
      /\ [form EXCEPT !.step = "saving"] \in FormState
  BY <1>1, FormFields, EntityOfId, ServerIds
<1>3. form' \in {NoForm} \cup FormState
  BY <1>2 DEF AskServer
<1>4. rows' \in [Id -> Id \cup {NoId}]
  <2> DEFINE at == IF form.op = "createReport" THEN Server(form.id[1])
                   ELSE IF form.op = "createSerials" THEN Server(form.serial) ELSE form.id
             to == CASE form.op = "createReport" -> Server(form.id[1])
                     [] form.op = "createSerials" -> form.id
                     [] form.op = "deleteSerial" -> NoId
                     [] OTHER -> rows[at]
  <2>1. rows' = [rows EXCEPT ![at] = to] \/ rows' = rows
    BY DEF AskServer
  <2>2. rows \in [Id -> Id \cup {NoId}]
    BY DEF FormType
  <2>3. at \in Id => to \in Id \cup {NoId}
    <3>1. CASE form.op = "createReport"
      BY <3>1, <1>2
    <3>2. CASE form.op = "createSerials"
      BY <3>2, <1>2
    <3>3. CASE form.op \notin {"createReport", "createSerials"}
      BY <3>3, <2>2
    <3> QED BY <3>1, <3>2, <3>3
  <2> HIDE DEF at, to
  <2>4. CASE at \in Id
    BY <2>1, <2>2, <2>3, <2>4
  <2>5. CASE at \notin Id
    BY <2>1, <2>2, <2>5
  <2> QED BY <2>4, <2>5
<1> QED BY <1>3, <1>4 DEF FormType

(* A change of one row.                                                    *)
LEMMA RowChanged ==
    ASSUME NEW R \in [Id -> Id \cup {NoId}], NEW at, NEW to \in Id \cup {NoId}
    PROVE  [R EXCEPT ![at] = to] \in [Id -> Id \cup {NoId}]
OBVIOUS

LEMMA SavedRows ==
    ASSUME FormType, SaveAndEnqueue
    PROVE  FormType'
<1>1. form \in FormState
  BY FormOpen DEF SaveAndEnqueue
<1>2. form.id \in Id /\ form.parent \in Id \cup {NoId} /\ form.op \in ReportOp \cup SerialOp
  BY <1>1, FormFields
<1>3. rows \in [Id -> Id \cup {NoId}] /\ form' = NoForm
  BY DEF FormType, SaveAndEnqueue
<1>4. CASE form.op = "createReport"
  BY <1>2, <1>3, <1>4, RowChanged DEF SaveAndEnqueue, FormType
<1>5. CASE form.op = "createSerials"
  BY <1>2, <1>3, <1>5, RowChanged DEF SaveAndEnqueue, FormType
<1>6. CASE form.op = "editReport"
  BY <1>2, <1>3, <1>6, RowChanged DEF SaveAndEnqueue, FormType
<1>7. CASE form.op = "editSerial"
  BY <1>2, <1>3, <1>7, RowChanged DEF SaveAndEnqueue, FormType
<1>8. CASE form.op = "deleteSerial"
  BY <1>2, <1>3, <1>8, RowChanged DEF SaveAndEnqueue, FormType
<1> QED BY <1>2, <1>4, <1>5, <1>6, <1>7, <1>8 DEF ReportOp, SerialOp

LEMMA UpdatedRows ==
    ASSUME FormType, UpdateRows, drain.item \in OutboxItem
    PROVE  FormType'
<1> DEFINE i == drain.item
           e == i.entity[1]
<1>1. i.entity \in Id /\ e \in Entity /\ i.parent \in Id \cup {NoId}
      /\ i.op \in ReportOp \cup SerialOp
  BY ItemFields, EntityOfId
<1>2. Server(e) \in Id
  BY <1>1, ServerIds
<1>3. rows \in [Id -> Id \cup {NoId}] /\ form' = form
  BY DEF FormType, UpdateRows
<1>4. rows' \in [Id -> Id \cup {NoId}]
  <2>1. CASE i.op = "createReport"
    <3>1. rows' = [id \in Id |->
                      IF id = Local(e) THEN NoId
                      ELSE IF id = Server(e)
                      THEN IF rows[Local(e)] # NoId THEN id ELSE rows[id]
                      ELSE IF rows[id] = Local(e) THEN Server(e) ELSE rows[id]]
      BY <2>1 DEF UpdateRows
    <3> HIDE DEF e
    <3> QED BY <3>1, <1>2, <1>3
  <2>2. CASE i.op = "createSerials"
    <3>1. \/ rows' = rows
          \/ rows' = [rows EXCEPT ![Local(i.serial)] = NoId, ![Server(i.serial)] = i.parent]
      BY <2>2 DEF UpdateRows
    <3> QED BY <3>1, <1>1, <1>3, RowChanged
  <2>3. CASE i.op = "editReport"
    BY <2>3, <1>1, <1>3, RowChanged DEF UpdateRows
  <2>4. CASE i.op = "editSerial"
    <3>1. PICK r \in Report :
             rows' = [rows EXCEPT ![i.entity] = IF @ = NoId THEN Server(r) ELSE @]
      BY <2>4 DEF UpdateRows
    <3>2. Server(r) \in Id
      BY ServerIds DEF Entity
    <3> QED BY <3>1, <3>2, <1>1, <1>3
  <2>5. CASE i.op = "deleteSerial"
    BY <2>5, <1>3 DEF UpdateRows
  <2> QED BY <1>1, <2>1, <2>2, <2>3, <2>4, <2>5 DEF ReportOp, SerialOp
<1> QED BY <1>3, <1>4 DEF FormType

(* The steps that leave the outbox, the drain and the server alone: the    *)
(* user's forms, the runs around the drain, the clock and the connection.  *)
AroundDrain ==
    \/ UserBegins \/ AskServer \/ SyncNow \/ CountAfterClear \/ TimerFires
    \/ Disconnect \/ Reconnect
    \/ \E r \in Run : EndRun(r) \/ (ProbeServer(r) /\ UNCHANGED drain)

StartDrain == \E r \in Run : ProbeServer(r) /\ drain' # drain

LEMMA StepsOfNext ==
    ASSUME Next
    PROVE  \/ /\ \/ AroundDrain \/ StartDrain \/ SaveAndEnqueue \/ ClearConflicts
                 \/ ProcessQueue
              /\ Signalled
           \/ RunEffect
BY DEF Next, Edit, UserBegins, AroundDrain, StartDrain

LEMMA RunMoves ==
    ASSUME SignalType, NEW r \in Run
    PROVE  /\ StartRun(r) => run' \in [Run -> {"idle", "probing", "draining", "hydrating"}]
           /\ \A x \in {"idle", "probing", "draining", "hydrating"} :
                 [run EXCEPT ![r] = x] \in [Run -> {"idle", "probing", "draining", "hydrating"}]
BY DEF SignalType, StartRun

LEMMA FaultCounted ==
    ASSUME SignalType, Fault \/ UNCHANGED faults
    PROVE  faults' \in Nat
BY DEF SignalType, Fault

LEMMA SignalledType ==
    ASSUME SignalType, Signalled
    PROVE  effectDue' \in BOOLEAN
<1>1. effectDue \in BOOLEAN /\ effectDue' = (effectDue \/ signals' # signals)
  BY Zenon DEF SignalType, Signalled
<1> QED BY <1>1, Zenon

LEMMA AroundDrainType ==
    ASSUME FormType, SignalType, QueueType, AroundDrain, Signalled
    PROVE  SignalType'
<1>1. effectDue' \in BOOLEAN
  BY SignalledType
<1>2. CASE UserBegins
  <2>1. BeginsForm
    BY <1>2, UserBeginsType
  <2> QED BY <2>1, <1>1, Zenon DEF SignalType, BeginsForm, signals, syncVars, serverVars
<1>3. CASE AskServer
  <2>1. online' \in BOOLEAN /\ faults' \in Nat
    BY <1>3, FaultCounted DEF AskServer, SignalType
  <2> QED BY <2>1, <1>1, <1>3, Zenon DEF SignalType, AskServer, syncVars
<1>4. CASE SyncNow
  <2>1. run' \in [Run -> {"idle", "probing", "draining", "hydrating"}]
    BY <1>4, RunMoves DEF SyncNow
  <2> QED BY <2>1, <1>1, <1>4, Zenon DEF SignalType, SyncNow, signals, serverVars
<1>5. CASE CountAfterClear
  <2>1. run' \in [Run -> {"idle", "probing", "draining", "hydrating"}]
    <3>1. CASE isSyncing
      BY <1>5, <3>1 DEF CountAfterClear, SignalType
    <3>2. CASE ~isSyncing
      BY <1>5, <3>2, RunMoves DEF CountAfterClear
    <3> QED BY <3>1, <3>2
  <2>2. pendingCount' \in Nat
    BY <1>5, StatusSets DEF CountAfterClear, QueueType
  <2>3. hasConflict' \in BOOLEAN /\ clearing' \in BOOLEAN
    BY <1>5 DEF CountAfterClear
  <2> QED BY <2>1, <2>2, <2>3, <1>1, <1>5, Zenon DEF SignalType, CountAfterClear, serverVars
<1>6. CASE TimerFires
  <2>1. run' \in [Run -> {"idle", "probing", "draining", "hydrating"}]
    <3>1. CASE MayAutoSync
      BY <1>6, <3>1, RunMoves DEF TimerFires
    <3>2. CASE ~MayAutoSync
      BY <1>6, <3>2 DEF TimerFires, SignalType
    <3> QED BY <3>1, <3>2
  <2>2. timerSet' \in BOOLEAN
    BY <1>6 DEF TimerFires
  <2> QED BY <2>1, <2>2, <1>1, <1>6, Zenon DEF SignalType, TimerFires, signals, serverVars
<1>7. CASE Disconnect
  <2>1. online' \in BOOLEAN /\ faults' \in Nat
    BY <1>7, FaultCounted DEF Disconnect
  <2> QED BY <2>1, <1>1, <1>7, Zenon DEF SignalType, Disconnect, syncVars
<1>8. CASE Reconnect
  <2>1. online' \in BOOLEAN
    BY <1>8 DEF Reconnect
  <2> QED BY <2>1, <1>1, <1>8, Zenon DEF SignalType, Reconnect, syncVars, serverVars
<1>9. ASSUME NEW r \in Run, EndRun(r)
      PROVE  SignalType'
  <2>1. run' \in [Run -> {"idle", "probing", "draining", "hydrating"}]
    BY <1>9, RunMoves DEF EndRun
  <2>2. isSyncing' \in BOOLEAN /\ online' \in BOOLEAN /\ faults' \in Nat
    BY <1>9, FaultCounted DEF EndRun, SignalType
  <2> QED BY <2>1, <2>2, <1>1, <1>9, Zenon DEF SignalType, EndRun
<1>10. ASSUME NEW r \in Run, ProbeServer(r)
       PROVE  SignalType'
  <2>1. run' \in [Run -> {"idle", "probing", "draining", "hydrating"}]
    BY <1>10, RunMoves DEF ProbeServer
  <2>2. isSyncing' \in BOOLEAN /\ online' \in BOOLEAN /\ faults' \in Nat
    BY <1>10, FaultCounted DEF ProbeServer, SignalType
  <2> QED BY <2>1, <2>2, <1>1, <1>10, Zenon DEF SignalType, ProbeServer
<1> QED BY <1>2, <1>3, <1>4, <1>5, <1>6, <1>7, <1>8, <1>9, <1>10 DEF AroundDrain

LEMMA StartDrainType ==
    ASSUME SignalType, StartDrain, Signalled
    PROVE  SignalType'
<1>1. effectDue' \in BOOLEAN
  BY SignalledType
<1>2. PICK r \in Run : ProbeServer(r)
  BY DEF StartDrain
<1>3. run' \in [Run -> {"idle", "probing", "draining", "hydrating"}]
  BY <1>2, RunMoves DEF ProbeServer
<1>4. isSyncing' \in BOOLEAN /\ online' \in BOOLEAN /\ faults' \in Nat
  BY <1>2, FaultCounted DEF ProbeServer, SignalType
<1> QED BY <1>1, <1>2, <1>3, <1>4, Zenon DEF SignalType, ProbeServer

LEMMA QueueStepType ==
    ASSUME SignalType, QueueType, SaveAndEnqueue \/ ClearConflicts \/ ProcessQueue, Signalled
    PROVE  SignalType'
<1>1. effectDue' \in BOOLEAN
  BY SignalledType
<1>2. CASE SaveAndEnqueue
  <2>1. pendingCount' \in Nat
    BY <1>2 DEF SaveAndEnqueue, SignalType
  <2> QED BY <2>1, <1>1, <1>2, Zenon DEF SignalType, SaveAndEnqueue, syncVars, serverVars
<1>3. CASE ClearConflicts
  <2>1. clearing' \in BOOLEAN
    BY <1>3 DEF ClearConflicts
  <2> QED BY <2>1, <1>1, <1>3, Zenon DEF SignalType, ClearConflicts, signals, syncVars, serverVars
<1>4. CASE GetAnswer
  <2>1. faults' \in Nat
    BY <1>4, FaultCounted DEF GetAnswer
  <2> QED BY <2>1, <1>1, <1>4, Zenon DEF SignalType, GetAnswer, signals
<1>5. CASE RehydrateCount
  <2>1. pendingCount' \in Nat
    BY <1>5, StatusSets DEF RehydrateCount, Recounted, QueueType
  <2>2. hasConflict' \in BOOLEAN
    BY <1>5 DEF RehydrateCount, Recounted
  <2> QED BY <2>1, <2>2, <1>1, <1>5, Zenon DEF SignalType, RehydrateCount, serverVars
<1>6. CASE EndDrain
  <2>1. run' \in [Run -> {"idle", "probing", "draining", "hydrating"}]
    BY <1>6 DEF EndDrain, SignalType
  <2> QED BY <2>1, <1>1, <1>6, Zenon DEF SignalType, EndDrain, signals, serverVars
<1>7. CASE ListPending \/ TakeItem \/ UpdateRows \/ FindDependents \/ PutDependents
  <2>1. UNCHANGED <<signals, run, isSyncing, clearing, timerSet, faults>>
    BY <1>7 DEF ListPending, TakeItem, UpdateRows, FindDependents, PutDependents, serverVars
  <2> QED BY <2>1, <1>1, Zenon DEF SignalType, signals
<1>8. CASE HoldItem \/ RecordAnswer
  <2>1. UNCHANGED <<signals, run, isSyncing, clearing, timerSet, faults>>
    BY <1>8 DEF HoldItem, RecordAnswer, PutBack, serverVars
  <2> QED BY <2>1, <1>1, Zenon DEF SignalType, signals
<1> QED BY <1>2, <1>3, <1>4, <1>5, <1>6, <1>7, <1>8 DEF ProcessQueue

LEMMA RunEffectType ==
    ASSUME SignalType, RunEffect
    PROVE  SignalType'
<1>1. effectDue' \in BOOLEAN
  BY DEF RunEffect
<1>2. timerSet' \in BOOLEAN
  <2>1. timerSet \in BOOLEAN /\ timerSet' \in {timerSet, timerSet \/ MayAutoSync}
    BY Zenon DEF SignalType, RunEffect
  <2> QED BY <2>1, Zenon
<1> QED BY <1>1, <1>2, Zenon DEF SignalType, RunEffect, signals, syncVars, serverVars

----------------------------------------------------------------------------
(* The queue under the steps that leave the drain alone.                   *)

LEMMA AroundDrainFrame ==
    ASSUME FormType, QueueType, AroundDrain \/ RunEffect
    PROVE  /\ UNCHANGED <<outbox, drain, accepted>>
           /\ form' # NoForm => Len(outbox) < MaxItems
<1>1. CASE UserBegins
  <2>1. BeginsForm
    BY <1>1, UserBeginsType
  <2> QED BY <2>1 DEF BeginsForm, syncVars, serverVars
<1>2. CASE AskServer
  <2>1. form # NoForm
    BY <1>2 DEF AskServer, NoForm
  <2> QED BY <2>1, <1>2 DEF AskServer, syncVars, QueueType
<1>3. CASE SyncNow \/ CountAfterClear \/ TimerFires \/ RunEffect
  BY <1>3 DEF SyncNow, CountAfterClear, TimerFires, RunEffect, QueueType, formVars, syncVars,
              serverVars
<1>4. CASE Disconnect \/ Reconnect
  BY <1>4 DEF Disconnect, Reconnect, QueueType, formVars, syncVars, serverVars
<1>5. ASSUME NEW r \in Run, EndRun(r)
      PROVE  /\ UNCHANGED <<outbox, drain, accepted>>
             /\ form' # NoForm => Len(outbox) < MaxItems
  BY <1>5 DEF EndRun, QueueType, formVars
<1>6. ASSUME NEW r \in Run, ProbeServer(r), UNCHANGED drain
      PROVE  /\ UNCHANGED <<outbox, drain, accepted>>
             /\ form' # NoForm => Len(outbox) < MaxItems
  BY <1>6 DEF ProbeServer, QueueType, formVars
<1> QED BY <1>1, <1>2, <1>3, <1>4, <1>5, <1>6 DEF AroundDrain

LEMMA QueueStill ==
    ASSUME QueueSound, UNCHANGED <<outbox, drain, accepted>>,
           form' # NoForm => Len(outbox) < MaxItems
    PROVE  QueueSound'
BY DEF QueueSound, QueueType, ErrorsRecorded, InOrder, Witness, AtItem, StepSound

LEMMA DrainOpen ==
    ASSUME QueueType, drain.step \in DrainStep
    PROVE  drain # NoDrain /\ drain \in DrainState(DOMAIN outbox)
BY DEF QueueType, NoDrain, DrainStep, InFlightSteps

LEMMA DrainFields ==
    ASSUME NEW D, NEW d \in DrainState(D)
    PROVE  /\ d.step \in DrainStep /\ d.run \in Run /\ d.skip \subseteq Id
           /\ d.todo \in Seq(D) /\ d.number \in {0} \cup D
           /\ d.item \in OutboxItem \cup {NoId} /\ d.answer \in Answer
           /\ d.waiting \subseteq D /\ d # NoDrain
BY DEF DrainState, NoDrain, DrainStep, InFlightSteps

LEMMA MoreItems ==
    ASSUME NEW C, NEW D, C \subseteq D, NEW d \in DrainState(C)
    PROVE  d \in DrainState(D)
<1>1. d.todo \in Seq(D)
  BY DrainFields, SeqMonotonic
<1> QED BY <1>1 DEF DrainState

LEMMA TodoFacts ==
    ASSUME NEW items \in Seq(OutboxItem), NEW q \in Seq(DOMAIN items)
    PROVE  /\ DOMAIN q = 1 .. Len(q) /\ Len(q) \in Nat
           /\ \A i \in DOMAIN q : q[i] \in DOMAIN items /\ q[i] \in Nat \ {0}
<1>1. DOMAIN q = 1 .. Len(q) /\ Len(q) \in Nat
  BY LenProperties
<1>2. \A i \in DOMAIN q : q[i] \in DOMAIN items
  BY <1>1, ElementOfSeq
<1>3. Len(items) \in Nat /\ DOMAIN items = 1 .. Len(items)
  BY OutboxIsFunction
<1> QED BY <1>1, <1>2, <1>3

----------------------------------------------------------------------------
(* The queue under each step that concerns it.                             *)

LEMMA InitSound == Init => DrainInvariant
<1> SUFFICES ASSUME Init PROVE DrainInvariant
  OBVIOUS
<1>1. FormType
  BY DEF Init, FormType
<1>2. SignalType
  BY DEF Init, SignalType
<1>3. outbox \in Seq(OutboxItem) /\ Len(outbox) = 0 /\ DOMAIN outbox = {}
  BY EmptySeq DEF Init
<1>4. QueueType
  BY <1>3, BoundsAssumption DEF Init, QueueType
<1>5. drain = NoDrain /\ drain.step = "idle"
  BY DEF Init, NoDrain
<1>6. QueueSound
  BY <1>3, <1>4, <1>5 DEF QueueSound, ErrorsRecorded, InOrder, AtItem, StepSound, BusySteps,
                          InFlightSteps
<1> QED BY <1>1, <1>2, <1>6, InvariantParts

(* The item queued, and that the others stay.                              *)
LEMMA Enqueued ==
    ASSUME FormType, QueueType, SaveAndEnqueue
    PROVE  /\ outbox' \in Seq(OutboxItem) /\ Len(outbox') = Len(outbox) + 1
           /\ Len(outbox') <= MaxItems
           /\ DOMAIN outbox' = (DOMAIN outbox) \cup {Len(outbox) + 1}
           /\ Len(outbox) + 1 \notin DOMAIN outbox
           /\ \A n \in DOMAIN outbox : outbox'[n] = outbox[n]
           /\ outbox'[Len(outbox) + 1].status = "PENDING"
           /\ outbox'[Len(outbox) + 1].error = FALSE
           /\ outbox'[Len(outbox) + 1].op = form.op
           /\ outbox'[Len(outbox) + 1].entity = form.id
           /\ outbox'[Len(outbox) + 1].parent \in {form.parent, NoId}
           /\ outbox'[Len(outbox) + 1].serial = form.serial
           /\ UNCHANGED <<drain, accepted>> /\ form' = NoForm
<1> DEFINE new == [op |-> form.op, entity |-> form.id, serial |-> form.serial,
                   parent |-> IF form.op = "editSerial" THEN NoId ELSE form.parent,
                   status |-> "PENDING", error |-> FALSE]
<1>1. form \in FormState /\ form # NoForm
  BY FormOpen, FormFields DEF SaveAndEnqueue
<1>2. /\ new \in OutboxItem /\ new.status = "PENDING" /\ new.error = FALSE
      /\ new.op = form.op /\ new.entity = form.id /\ new.serial = form.serial
      /\ new.parent \in {form.parent, NoId}
  BY <1>1, FormFields DEF OutboxItem, OutboxStatus
<1>3. outbox' = Append(outbox, new)
  BY DEF SaveAndEnqueue
<1>4. outbox \in Seq(OutboxItem) /\ Len(outbox) < MaxItems
  BY <1>1 DEF QueueType
<1> HIDE DEF new
<1>5. /\ outbox' \in Seq(OutboxItem) /\ Len(outbox') = Len(outbox) + 1
      /\ \A i \in 1 .. Len(outbox) : outbox'[i] = outbox[i]
      /\ outbox'[Len(outbox) + 1] = new
  BY <1>2, <1>3, <1>4, AppendProperties
<1>6. /\ Len(outbox) \in Nat /\ DOMAIN outbox = 1 .. Len(outbox)
      /\ DOMAIN outbox' = 1 .. Len(outbox')
  BY <1>4, <1>5, OutboxIsFunction
<1>7. UNCHANGED <<drain, accepted>> /\ form' = NoForm
  BY DEF SaveAndEnqueue, syncVars, serverVars
<1> QED BY <1>2, <1>4, <1>5, <1>6, <1>7, BoundsAssumption

LEMMA EnqueueKeeps ==
    ASSUME FormType, QueueSound, SaveAndEnqueue
    PROVE  QueueSound'
<1> QueueType
  BY DEF QueueSound
<1> USE Enqueued
<1>1. QueueType'
  <2>1. drain' \in {NoDrain} \cup DrainState(DOMAIN outbox')
    BY MoreItems DEF QueueType
  <2> QED BY <2>1 DEF QueueType
<1>2. ErrorsRecorded'
  BY DEF QueueSound, ErrorsRecorded
<1>3. ASSUME NEW m, Witness(m)
      PROVE  Witness(m)'
  BY <1>3 DEF Witness
<1>4. InOrder'
  BY <1>3 DEF QueueSound, InOrder
<1>5. AtItem'
  <2> SUFFICES ASSUME drain.step \in BusySteps PROVE AtItem'
    BY DEF AtItem
  <2>1. /\ drain.number \in DOMAIN outbox
        /\ drain.item \in OutboxItem /\ drain.item.status = "PENDING"
        /\ outbox[drain.number].status \in {"PENDING", "GONE"}
        /\ \A i \in DOMAIN drain.todo : drain.number < drain.todo[i]
        /\ drain.answer = "ok" => drain.number \in accepted
    BY DEF QueueSound, AtItem
  <2>2. /\ DOMAIN outbox' = (DOMAIN outbox) \cup {Len(outbox) + 1}
        /\ outbox'[drain.number] = outbox[drain.number]
        /\ drain' = drain /\ accepted' = accepted
    BY <2>1
  <2> QED BY <2>1, <2>2 DEF AtItem
<1>6. StepSound'
  <2>1. drain.step = "puts" => drain.waiting \subseteq DOMAIN outbox
    BY DrainOpen, DrainFields DEF DrainStep, InFlightSteps
  <2> QED BY <2>1 DEF QueueSound, StepSound
<1> QED BY <1>1, <1>2, <1>4, <1>5, <1>6 DEF QueueSound

(* Rewrites of the outbox in place: what they leave alone.                 *)
InPlaceKeeps ==
    /\ DOMAIN outbox' = DOMAIN outbox
    /\ outbox' \in Seq(OutboxItem)
    /\ UNCHANGED <<form, accepted>>

LEMMA InPlaceType ==
    ASSUME QueueType, outbox' \in [DOMAIN outbox -> OutboxItem], UNCHANGED <<form, accepted>>,
           drain' \in {NoDrain} \cup DrainState(DOMAIN outbox)
    PROVE  QueueType' /\ DOMAIN outbox' = DOMAIN outbox
<1>1. /\ outbox' \in Seq(OutboxItem) /\ Len(outbox') = Len(outbox)
      /\ DOMAIN outbox' = DOMAIN outbox
  BY InPlace DEF QueueType
<1> QED BY <1>1 DEF QueueType

LEMMA Cleared ==
    ASSUME QueueType, ErrorsRecorded, ClearConflicts
    PROVE  /\ outbox' \in [DOMAIN outbox -> OutboxItem]
           /\ UNCHANGED <<form, drain, accepted>>
           /\ \A n \in DOMAIN outbox :
                 /\ outbox'[n].error = outbox[n].error
                 /\ outbox'[n].status = IF Clearable(outbox[n]) THEN "GONE" ELSE outbox[n].status
                 /\ Clearable(outbox[n]) => outbox[n].error
                 /\ SameNames(outbox'[n], outbox[n])
<1>1. outbox' = [n \in DOMAIN outbox |-> IF Clearable(outbox[n])
                                         THEN [outbox[n] EXCEPT !.status = "GONE"]
                                         ELSE outbox[n]]
  BY DEF ClearConflicts
<1>2. \A n \in DOMAIN outbox : outbox[n] \in OutboxItem
  BY OutboxIsFunction DEF QueueType
<1>3. \A n \in DOMAIN outbox :
         /\ [outbox[n] EXCEPT !.status = "GONE"] \in OutboxItem
         /\ [outbox[n] EXCEPT !.status = "GONE"].status = "GONE"
         /\ [outbox[n] EXCEPT !.status = "GONE"].error = outbox[n].error
         /\ SameNames([outbox[n] EXCEPT !.status = "GONE"], outbox[n])
  BY <1>2, ItemMarked
<1>4. \A n \in DOMAIN outbox : Clearable(outbox[n]) => outbox[n].error
  BY DEF ErrorsRecorded, Clearable
<1>5. UNCHANGED <<form, drain, accepted>>
  BY DEF ClearConflicts, formVars, syncVars, serverVars
<1>6. \A n \in DOMAIN outbox : SameNames(outbox[n], outbox[n])
  BY DEF SameNames
<1> QED BY <1>1, <1>2, <1>3, <1>4, <1>5, <1>6

LEMMA ClearKeeps ==
    ASSUME QueueSound, ClearConflicts
    PROVE  QueueSound'
<1> QueueType /\ ErrorsRecorded
  BY DEF QueueSound
<1>1. QueueType' /\ DOMAIN outbox' = DOMAIN outbox
  BY Cleared, InPlaceType DEF QueueType
<1>2. /\ drain' = drain /\ accepted' = accepted
      /\ \A n \in DOMAIN outbox :
            /\ outbox'[n].error = outbox[n].error
            /\ outbox'[n].status \in {outbox[n].status, "GONE"}
            /\ outbox'[n].status # outbox[n].status => outbox[n].error
  BY Cleared
<1>3. ErrorsRecorded'
  BY <1>1, <1>2, Cleared DEF ErrorsRecorded
<1>4. ASSUME NEW m, Witness(m)
      PROVE  Witness(m)'
  BY <1>1, <1>2, <1>4 DEF Witness
<1>5. InOrder'
  BY <1>1, <1>2, <1>4 DEF QueueSound, InOrder
<1>6. AtItem'
  BY <1>1, <1>2 DEF QueueSound, AtItem
<1>7. StepSound'
  <2>1. drain.step = "puts" => drain.waiting \subseteq DOMAIN outbox
    BY DrainOpen, DrainFields DEF DrainStep, InFlightSteps
  <2> QED BY <2>1, <1>1, <1>2 DEF QueueSound, StepSound
<1> QED BY <1>1, <1>3, <1>5, <1>6, <1>7 DEF QueueSound

LEMMA StartFacts ==
    ASSUME QueueType, StartDrain
    PROVE  /\ drain = NoDrain /\ UNCHANGED <<outbox, form, accepted>>
           /\ drain' \in DrainState(DOMAIN outbox)
           /\ drain'.step = "list" /\ drain'.skip = ConflictedEntities /\ drain'.todo = << >>
           /\ drain'.number = 0 /\ drain'.answer = "none"
<1>1. PICK r \in Run : ProbeServer(r) /\ drain' # drain
  BY DEF StartDrain
<1> DEFINE new == [step |-> "list", run |-> r, skip |-> ConflictedEntities,
                   todo |-> <<>>, number |-> 0, item |-> NoId,
                   answer |-> "none", waiting |-> {}]
<1>2. drain.step = "idle" /\ drain' = new /\ UNCHANGED <<outbox, form, accepted>>
  BY <1>1 DEF ProbeServer, formVars
<1>3. drain = NoDrain
  BY <1>2, DrainFields DEF QueueType, DrainStep, InFlightSteps
<1>4. ConflictedEntities \subseteq Id
  <2>1. \A n \in WithStatus("CONFLICT") : outbox[n].entity \in Id
    BY OutboxIsFunction, ItemFields DEF QueueType, WithStatus
  <2> QED BY <2>1 DEF ConflictedEntities
<1>5. << >> \in Seq(DOMAIN outbox)
  BY EmptySeq
<1>6. new \in DrainState(DOMAIN outbox)
  BY <1>4, <1>5 DEF DrainState, DrainStep, Answer
<1> QED BY <1>2, <1>3, <1>6

LEMMA StartKeeps ==
    ASSUME QueueSound, StartDrain
    PROVE  QueueSound'
<1> QueueType /\ ErrorsRecorded
  BY DEF QueueSound
<1> USE StartFacts
<1>1. QueueType' /\ ErrorsRecorded'
  BY DEF QueueType, ErrorsRecorded
<1>2. ASSUME drain'.skip # {}
      PROVE  \E m \in DOMAIN outbox' : Witness(m)'
  <2>1. PICK m \in DOMAIN outbox : outbox[m].status = "CONFLICT"
    BY <1>2 DEF ConflictedEntities, WithStatus
  <2>2. outbox[m].error
    BY <2>1 DEF ErrorsRecorded
  <2>3. m # 0
    BY OutboxIsFunction DEF QueueType
  <2> QED BY <2>1, <2>2, <2>3 DEF Witness
<1>3. InOrder'
  BY <1>2 DEF InOrder, AnswerSteps
<1>4. AtItem' /\ StepSound'
  BY DEF AtItem, StepSound, BusySteps, InFlightSteps
<1> QED BY <1>1, <1>3, <1>4 DEF QueueSound

(* A list of the pending items, in the order of their numbers.             *)
LEMMA ListingFacts ==
    ASSUME QueueType, NEW q \in PendingItems
    PROVE  /\ q \in Seq(DOMAIN outbox)
           /\ \A i, j \in DOMAIN q : i < j => q[i] < q[j]
           /\ \A i \in DOMAIN q : outbox[q[i]].status = "PENDING"
           /\ \A n \in WithStatus("PENDING") : \E i \in DOMAIN q : q[i] = n
<1> DEFINE P == WithStatus("PENDING")
<1>1. P \subseteq DOMAIN outbox /\ Cardinality(P) \in Nat
  BY StatusSets DEF QueueType
<1>2. q \in [1 .. Cardinality(P) -> P] /\ \A i, j \in DOMAIN q : i < j => q[i] < q[j]
  BY DEF PendingItems
<1>3. \A i \in DOMAIN q : outbox[q[i]].status = "PENDING"
  BY <1>2 DEF WithStatus
<1>4. IsFiniteSet(P) /\ P \subseteq Nat
  BY <1>1, StatusSets, OutboxIsFunction DEF QueueType
<1> HIDE DEF P
<1>5. q \in Seq(P)
  BY <1>1, <1>2, SeqDef
<1>6. \A n \in P : \E i \in DOMAIN q : q[i] = n
  <2>1. \A i, j \in 1 .. Cardinality(P) : q[i] = q[j] => i = j
    BY <1>1, <1>2, <1>4
  <2>2. q \in Injection(1 .. Cardinality(P), P)
    BY <1>2, <2>1, Fun_IsInj
  <2>3. Cardinality(1 .. Cardinality(P)) = Cardinality(P)
    BY <1>1, FS_Interval
  <2>4. q \in Surjection(1 .. Cardinality(P), P)
    BY <2>2, <2>3, <1>4, FS_Injection
  <2> QED BY <2>4, <1>2 DEF Surjection
<1> QED BY <1>1, <1>2, <1>3, <1>5, <1>6, SeqMonotonic DEF P

LEMMA ListKeeps ==
    ASSUME QueueSound, ListPending
    PROVE  QueueSound'
<1> QueueType /\ ErrorsRecorded
  BY DEF QueueSound
<1>1. PICK q \in PendingItems : drain' = [drain EXCEPT !.step = "scan", !.todo = q]
  BY DEF ListPending
<1>2. drain.step = "list" /\ UNCHANGED <<outbox, form, accepted>>
  BY DEF ListPending, formVars, serverVars
<1>3. drain # NoDrain /\ drain \in DrainState(DOMAIN outbox)
  BY <1>2, DrainOpen DEF DrainStep
<1>4. /\ q \in Seq(DOMAIN outbox)
      /\ \A i, j \in DOMAIN q : i < j => q[i] < q[j]
      /\ \A i \in DOMAIN q : outbox[q[i]].status = "PENDING"
  BY ListingFacts
<1>5. /\ drain' \in DrainState(DOMAIN outbox) /\ drain'.step = "scan"
      /\ drain'.skip = drain.skip /\ drain'.todo = q /\ drain'.number = drain.number
      /\ drain'.item = drain.item /\ drain'.answer = drain.answer
  <2>1. "scan" \in DrainStep
    BY DEF DrainStep
  <2> QED BY <2>1, <1>1, <1>3, <1>4 DEF DrainState, DrainStep
<1>6. QueueType' /\ ErrorsRecorded'
  BY <1>2, <1>5 DEF QueueType, ErrorsRecorded
<1>7. ASSUME NEW m, Witness(m)
      PROVE  Witness(m)'
  BY <1>2, <1>4, <1>5, <1>7 DEF Witness
<1>8. InOrder'
  BY <1>2, <1>3, <1>4, <1>5, <1>7 DEF QueueSound, InOrder, AnswerSteps
<1>9. AtItem' /\ StepSound'
  BY <1>5 DEF AtItem, StepSound, BusySteps, InFlightSteps
<1> QED BY <1>6, <1>8, <1>9 DEF QueueSound

(* Taking an item: passed over, or at hand as it was read.                 *)
LEMMA TakeFacts ==
    ASSUME QueueType, TakeItem
    PROVE  LET n == Head(drain.todo)
           IN  /\ drain.step = "scan" /\ drain.todo # << >>
               /\ drain \in DrainState(DOMAIN outbox)
               /\ UNCHANGED <<outbox, form, accepted>>
               /\ n \in DOMAIN outbox /\ n = drain.todo[1]
               /\ drain' \in DrainState(DOMAIN outbox)
               /\ drain'.skip = drain.skip /\ drain'.todo = Tail(drain.todo)
               /\ drain'.answer = drain.answer
               /\ \/ /\ outbox[n].status # "PENDING"
                     /\ drain'.step = "scan" /\ drain'.number = drain.number
                  \/ /\ outbox[n].status = "PENDING"
                     /\ drain'.step = IF Blocked(outbox[n]) THEN "hold" ELSE "sent"
                     /\ drain'.number = n /\ drain'.item = outbox[n]
<1> DEFINE n == Head(drain.todo)
<1>1. drain.step = "scan" /\ drain.todo # << >> /\ UNCHANGED <<outbox, form, accepted>>
  BY DEF TakeItem, formVars, serverVars
<1>2. drain \in DrainState(DOMAIN outbox)
  BY <1>1, DrainOpen DEF DrainStep
<1>3. drain.todo \in Seq(DOMAIN outbox)
  BY <1>2, DrainFields
<1>4. n \in DOMAIN outbox /\ Tail(drain.todo) \in Seq(DOMAIN outbox) /\ n = drain.todo[1]
  <2>1. n \in DOMAIN outbox /\ Tail(drain.todo) \in Seq(DOMAIN outbox)
    BY <1>1, <1>3, HeadTailProperties
  <2>2. n = drain.todo[1]
    BY <1>1, <1>3
  <2> QED BY <2>1, <2>2
<1>5. outbox[n] \in OutboxItem
  BY <1>4, OutboxIsFunction DEF QueueType
<1> DEFINE rest == [drain EXCEPT !.todo = Tail(@)]
           x == IF Blocked(outbox[n]) THEN "hold" ELSE "sent"
<1>6. CASE outbox[n].status # "PENDING"
  <2>1. drain' = [drain EXCEPT !.todo = Tail(@)]
    BY <1>6 DEF TakeItem
  <2>2. drain' = [drain EXCEPT !.step = "scan", !.todo = Tail(drain.todo)]
    BY <2>1, <1>1, <1>2 DEF DrainState
  <2>3. /\ drain' \in DrainState(DOMAIN outbox) /\ drain'.step = "scan"
        /\ drain'.skip = drain.skip /\ drain'.todo = Tail(drain.todo)
        /\ drain'.number = drain.number /\ drain'.answer = drain.answer
    <3>1. "scan" \in DrainStep
      BY DEF DrainStep
    <3> HIDE DEF n
    <3> QED BY <3>1, <2>2, <1>2, <1>4 DEF DrainState, DrainStep
  <2> QED BY <2>3, <1>1, <1>2, <1>4, <1>6
<1>7. CASE outbox[n].status = "PENDING"
  <2>1. drain' = [rest EXCEPT !.step = x, !.number = n, !.item = outbox[n]]
    BY <1>7, Zenon DEF TakeItem
  <2>2. x \in DrainStep
    BY DEF DrainStep, InFlightSteps
  <2> HIDE DEF x, n
  <2>3. drain' = [[drain EXCEPT !.todo = Tail(drain.todo)]
                     EXCEPT !.step = x, !.number = n, !.item = outbox[n]]
    BY <2>1
  <2>4. /\ drain' \in DrainState(DOMAIN outbox) /\ drain'.step = x
        /\ drain'.skip = drain.skip /\ drain'.todo = Tail(drain.todo)
        /\ drain'.number = n /\ drain'.item = outbox[n] /\ drain'.answer = drain.answer
    BY <2>2, <2>3, <1>2, <1>4, <1>5 DEF DrainState, DrainStep
  <2> QED BY <2>4, <1>1, <1>2, <1>4, <1>7 DEF x, n
<1> QED BY <1>6, <1>7

LEMMA TakeKeeps ==
    ASSUME QueueSound, TakeItem
    PROVE  QueueSound'
<1> QueueType /\ ErrorsRecorded
  BY DEF QueueSound
<1> DEFINE n == Head(drain.todo)
<1>1. /\ drain.step = "scan" /\ drain.todo # << >>
      /\ drain \in DrainState(DOMAIN outbox)
      /\ UNCHANGED <<outbox, form, accepted>>
      /\ n \in DOMAIN outbox /\ n = drain.todo[1]
      /\ drain' \in DrainState(DOMAIN outbox)
      /\ drain'.skip = drain.skip /\ drain'.todo = Tail(drain.todo)
      /\ drain'.answer = drain.answer
  BY TakeFacts
<1>2. \/ drain'.step = "scan" /\ drain'.number = drain.number
      \/ /\ outbox[n].status = "PENDING"
         /\ drain'.step = IF Blocked(outbox[n]) THEN "hold" ELSE "sent"
         /\ drain'.number = n /\ drain'.item = outbox[n]
  BY TakeFacts
<1> HIDE DEF n
<1>3. /\ DOMAIN drain.todo = 1 .. Len(drain.todo) /\ Len(drain.todo) \in Nat
      /\ drain.todo \in Seq(DOMAIN outbox)
  BY <1>1, DrainFields, TodoFacts DEF QueueType
<1>4. /\ DOMAIN drain'.todo = 1 .. Len(drain.todo) - 1
      /\ \A i \in DOMAIN drain'.todo :
            i + 1 \in DOMAIN drain.todo /\ drain'.todo[i] = drain.todo[i + 1]
  <2>1. /\ Len(Tail(drain.todo)) = Len(drain.todo) - 1
        /\ \A i \in 1 .. Len(Tail(drain.todo)) : Tail(drain.todo)[i] = drain.todo[i + 1]
        /\ Tail(drain.todo) \in Seq(DOMAIN outbox)
    BY <1>1, <1>3, HeadTailProperties
  <2>2. DOMAIN Tail(drain.todo) = 1 .. Len(Tail(drain.todo))
    BY <2>1, LenProperties
  <2> QED BY <1>1, <1>3, <2>1, <2>2
<1>5. 1 \in DOMAIN drain.todo
  BY <1>1, <1>3, EmptySeq
<1>6. \A i, j \in DOMAIN drain.todo : i < j => drain.todo[i] < drain.todo[j]
  BY <1>1, DrainFields DEF QueueSound, InOrder
<1>7. QueueType' /\ ErrorsRecorded'
  BY <1>1 DEF QueueType, ErrorsRecorded
<1>8. ASSUME NEW m, Witness(m)
      PROVE  Witness(m)'
  <2>1. drain'.step # "list"
    BY <1>2
  <2>2. \A i \in DOMAIN drain'.todo : drain'.todo[i] # m
    BY <1>4, <1>8 DEF Witness
  <2>3. drain'.number # m
    BY <1>1, <1>2, <1>5, <1>8 DEF Witness
  <2> QED BY <1>1, <1>8, <2>1, <2>2, <2>3 DEF Witness
<1>9. InOrder'
  <2>1. \A i, j \in DOMAIN drain'.todo : i < j => drain'.todo[i] < drain'.todo[j]
    <3> TAKE i, j \in DOMAIN drain'.todo
    <3>1. i \in Int /\ j \in Int
      BY <1>3, <1>4
    <3>2. i < j => i + 1 < j + 1
      BY <3>1
    <3> QED BY <3>2, <1>4, <1>6
  <2>2. drain'.answer = "none" /\ drain'.step \notin {"list"} \cup AnswerSteps
    BY <1>1, <1>2, DrainFields DEF QueueSound, InOrder, AnswerSteps
  <2>3. drain'.skip # {} => \E m \in DOMAIN outbox' : Witness(m)'
    BY <1>1, <1>8, DrainFields DEF QueueSound, InOrder
  <2> QED BY <2>1, <2>2, <2>3 DEF InOrder
<1>10. AtItem'
  <2> SUFFICES ASSUME drain'.step \in BusySteps PROVE AtItem'
    BY DEF AtItem
  <2>1. drain'.number = n /\ drain'.item = outbox[n] /\ outbox[n].status = "PENDING"
    BY <1>2 DEF BusySteps, InFlightSteps
  <2>2. outbox[n] \in OutboxItem
    BY <1>1, OutboxIsFunction DEF QueueType
  <2>3. \A i \in DOMAIN drain'.todo : n < drain'.todo[i]
    <3> TAKE i \in DOMAIN drain'.todo
    <3>1. 1 < i + 1
      BY <1>3, <1>4
    <3> QED BY <3>1, <1>1, <1>4, <1>5, <1>6
  <2>4. drain'.answer # "ok"
    BY <1>1, DrainFields DEF QueueSound, InOrder, AnswerSteps
  <2> QED BY <2>1, <2>2, <2>3, <2>4, <1>1 DEF AtItem
<1>11. StepSound'
  <2>1. Blocked(outbox[n]) => drain.skip # {}
    BY DEF Blocked
  <2> QED BY <2>1, <1>1, <1>2 DEF StepSound
<1> QED BY <1>7, <1>9, <1>10, <1>11 DEF QueueSound

LEMMA AtItemOpen ==
    ASSUME QueueSound, drain.step \in BusySteps
    PROVE  /\ drain \in DrainState(DOMAIN outbox) /\ drain # NoDrain
           /\ drain.number \in DOMAIN outbox /\ drain.number # 0
           /\ drain.item \in OutboxItem /\ drain.item.status = "PENDING"
           /\ outbox[drain.number].status \in {"PENDING", "GONE"}
           /\ \A i \in DOMAIN drain.todo : drain.number < drain.todo[i]
           /\ drain.answer = "ok" => drain.number \in accepted
<1>1. QueueType /\ AtItem
  BY DEF QueueSound
<1>2. drain \in DrainState(DOMAIN outbox) /\ drain # NoDrain
  BY <1>1, DrainOpen DEF BusySteps, DrainStep
<1>3. drain.number \in DOMAIN outbox => drain.number # 0
  BY <1>1, OutboxIsFunction DEF QueueType
<1> QED BY <1>1, <1>2, <1>3 DEF AtItem

(* An item put back as it was read, with its new status.                   *)
LEMMA PutBackFacts ==
    ASSUME QueueSound, drain.step \in BusySteps,
           NEW status \in OutboxStatus, NEW failed \in BOOLEAN, NEW skip \in SUBSET Id,
           PutBack(status, failed, skip)
    PROVE  /\ outbox' \in [DOMAIN outbox -> OutboxItem]
           /\ outbox'[drain.number].status = status /\ outbox'[drain.number].error = failed
           /\ \A n \in DOMAIN outbox : n # drain.number => outbox'[n] = outbox[n]
           /\ drain' \in DrainState(DOMAIN outbox)
           /\ drain'.step = "recount" /\ drain'.number = 0 /\ drain'.answer = "none"
           /\ drain'.skip = skip /\ drain'.todo = drain.todo
           /\ UNCHANGED <<form, accepted>>
           /\ SameNames(outbox'[drain.number], drain.item)
<1> DEFINE back == [drain.item EXCEPT !.status = status, !.error = failed]
<1>1. back \in OutboxItem /\ back.status = status /\ back.error = failed
      /\ SameNames(back, drain.item)
  <2>1. PICK i \in OutboxItem : i = drain.item
    BY AtItemOpen
  <2>2. /\ [i EXCEPT !.status = status, !.error = failed] \in OutboxItem
        /\ [i EXCEPT !.status = status, !.error = failed].status = status
        /\ [i EXCEPT !.status = status, !.error = failed].error = failed
        /\ SameNames([i EXCEPT !.status = status, !.error = failed], i)
    BY DEF OutboxItem, SameNames
  <2> QED BY <2>1, <2>2
<1>2. outbox' = [outbox EXCEPT ![drain.number] = back]
  BY DEF PutBack
<1> HIDE DEF back
<1>3. outbox \in [DOMAIN outbox -> OutboxItem] /\ drain.number \in DOMAIN outbox
  BY AtItemOpen, OutboxIsFunction DEF QueueSound, QueueType
<1>4. /\ outbox' \in [DOMAIN outbox -> OutboxItem]
      /\ outbox'[drain.number] = back
      /\ \A n \in DOMAIN outbox : n # drain.number => outbox'[n] = outbox[n]
  BY <1>1, <1>2, <1>3
<1>5. drain \in DrainState(DOMAIN outbox)
  BY AtItemOpen
<1>6. drain' = [drain EXCEPT !.step = "recount", !.number = 0, !.item = NoId,
                             !.answer = "none", !.skip = skip]
  BY DEF PutBack
<1>7. /\ drain' \in DrainState(DOMAIN outbox)
      /\ drain'.step = "recount" /\ drain'.number = 0 /\ drain'.answer = "none"
      /\ drain'.skip = skip /\ drain'.todo = drain.todo
  BY <1>5, <1>6 DEF DrainState, DrainStep, Answer
<1>8. UNCHANGED <<form, accepted>>
  BY DEF PutBack, formVars, serverVars
<1> QED BY <1>1, <1>4, <1>7, <1>8

(* The entities skipped are accounted for by this item, or by another one. *)
LEMMA PutBackKeeps ==
    ASSUME QueueSound, drain.step \in BusySteps,
           NEW status \in OutboxStatus, NEW failed \in BOOLEAN, NEW skip \in SUBSET Id,
           PutBack(status, failed, skip),
           status \in {"CONFLICT", "FAILED"} => failed,
           status = "SYNCED" => ~failed,
           ~failed => skip = drain.skip
    PROVE  QueueSound'
<1> QueueType /\ ErrorsRecorded
  BY DEF QueueSound
<1>0. PICK n : n = drain.number
  OBVIOUS
<1>1. /\ outbox' \in [DOMAIN outbox -> OutboxItem]
      /\ outbox'[n].status = status /\ outbox'[n].error = failed
      /\ \A m \in DOMAIN outbox : m # n => outbox'[m] = outbox[m]
      /\ drain' \in DrainState(DOMAIN outbox)
      /\ drain'.step = "recount" /\ drain'.number = 0 /\ drain'.answer = "none"
      /\ drain'.skip = skip /\ drain'.todo = drain.todo
      /\ UNCHANGED <<form, accepted>>
  BY <1>0, PutBackFacts
<1>2. /\ n \in DOMAIN outbox /\ n # 0 /\ drain # NoDrain
      /\ \A i \in DOMAIN drain.todo : n < drain.todo[i]
      /\ drain \in DrainState(DOMAIN outbox)
  BY <1>0, AtItemOpen
<1>3. QueueType' /\ DOMAIN outbox' = DOMAIN outbox
  BY <1>1, InPlaceType
<1>4. ErrorsRecorded'
  BY <1>1, <1>3 DEF ErrorsRecorded, OutboxStatus
<1>5. ASSUME drain'.skip # {}
      PROVE  \E m \in DOMAIN outbox' : Witness(m)'
  <2>1. CASE failed
    <3>1. \A i \in DOMAIN drain.todo : drain.todo[i] # n
      <4>1. n \in Nat /\ \A i \in DOMAIN drain.todo : drain.todo[i] \in Nat
        <5>1. outbox \in Seq(OutboxItem) /\ drain.todo \in Seq(DOMAIN outbox)
          BY <1>2, DrainFields DEF QueueType
        <5> QED BY <5>1, <1>2, TodoFacts, OutboxIsFunction
      <4> QED BY <4>1, <1>2
    <3>2. Witness(n)'
      BY <2>1, <3>1, <1>1, <1>2, <1>3 DEF Witness
    <3> QED BY <3>2, <1>2, <1>3
  <2>2. CASE ~failed
    <3>1. drain.skip # {}
      BY <2>2, <1>1, <1>5
    <3>2. PICK m \in DOMAIN outbox : Witness(m)
      BY <3>1, <1>2 DEF QueueSound, InOrder
    <3>3. m # n /\ m # 0
      BY <3>2, <1>0, OutboxIsFunction DEF Witness, QueueType
    <3>4. Witness(m)'
      BY <3>2, <3>3, <1>1, <1>3 DEF Witness
    <3> QED BY <3>4, <1>3
  <2> QED BY <2>1, <2>2
<1>6. InOrder'
  <2>1. \A i, j \in DOMAIN drain.todo : i < j => drain.todo[i] < drain.todo[j]
    BY <1>2 DEF QueueSound, InOrder
  <2> QED BY <2>1, <1>1, <1>5 DEF InOrder, AnswerSteps
<1>7. AtItem' /\ StepSound'
  BY <1>1 DEF AtItem, StepSound, BusySteps, InFlightSteps
<1> QED BY <1>3, <1>4, <1>6, <1>7 DEF QueueSound

LEMMA HoldKeeps ==
    ASSUME QueueSound, HoldItem
    PROVE  QueueSound'
<1> DEFINE status == "CONFLICT"
           failed == TRUE
           skip == drain.skip
<1>1. drain.step \in BusySteps /\ PutBack(status, failed, skip)
  BY DEF HoldItem, BusySteps
<1>2. skip \in SUBSET Id
  BY <1>1, AtItemOpen, DrainFields
<1>3. status \in OutboxStatus /\ failed \in BOOLEAN
  BY DEF OutboxStatus
<1>4. /\ status \in {"CONFLICT", "FAILED"} => failed
      /\ status = "SYNCED" => ~failed
      /\ ~failed => skip = drain.skip
  OBVIOUS
<1> HIDE DEF status, failed, skip
<1> QED BY <1>1, <1>2, <1>3, <1>4, PutBackKeeps

(* What an answer means for its item.                                      *)
LEMMA RecordFacts ==
    ASSUME QueueSound, RecordAnswer
    PROVE  LET failed == drain.answer # "ok"
               skip == SkipAfter(drain.answer)
           IN  /\ drain.step = "record" /\ drain.step \in BusySteps
               /\ drain.answer \in Answer \ {"none"}
               /\ StatusAfter(drain.answer) \in OutboxStatus
               /\ StatusAfter(drain.answer) = "SYNCED" <=> ~failed
               /\ skip \in SUBSET Id
               /\ PutBack(StatusAfter(drain.answer), failed, skip)
<1>1. drain.step = "record" /\ drain.step \in BusySteps
  BY DEF RecordAnswer, BusySteps, InFlightSteps
<1>2. drain \in DrainState(DOMAIN outbox) /\ drain # NoDrain
  BY <1>1, AtItemOpen
<1>3. drain.answer \in Answer \ {"none"}
  BY <1>1, <1>2, DrainFields DEF QueueSound, InOrder, AnswerSteps
<1>4. /\ StatusAfter(drain.answer) \in OutboxStatus
      /\ StatusAfter(drain.answer) = "SYNCED" <=> drain.answer = "ok"
  BY <1>3 DEF StatusAfter, Answer, OutboxStatus
<1>5. drain.skip \subseteq Id /\ drain.item.entity \in Id
  BY <1>1, <1>2, AtItemOpen, DrainFields, ItemFields
<1> QED BY <1>1, <1>3, <1>4, <1>5 DEF RecordAnswer, SkipAfter

LEMMA RecordKeeps ==
    ASSUME QueueSound, RecordAnswer
    PROVE  QueueSound'
<1> DEFINE failed == drain.answer # "ok"
           skip == SkipAfter(drain.answer)
           status == StatusAfter(drain.answer)
<1>1. drain.step \in BusySteps /\ PutBack(status, failed, skip)
  BY RecordFacts
<1>2. skip \in SUBSET Id
  BY RecordFacts
<1>3. status \in OutboxStatus /\ failed \in BOOLEAN
  BY RecordFacts
<1>4. /\ status \in {"CONFLICT", "FAILED"} => failed
      /\ status = "SYNCED" => ~failed
      /\ ~failed => skip = drain.skip
  BY RecordFacts DEF SkipAfter
<1> HIDE DEF failed, skip, status
<1> QED BY <1>1, <1>2, <1>3, <1>4, PutBackKeeps

(* An answer, and what the server did: an "ok" is the server's own word.   *)
LEMMA AnswerFacts ==
    ASSUME QueueSound, GetAnswer
    PROVE  /\ drain.step = "sent" /\ drain.step \in BusySteps
           /\ UNCHANGED <<outbox, form>>
           /\ drain' \in DrainState(DOMAIN outbox)
           /\ drain'.number = drain.number /\ drain'.item = drain.item
           /\ drain'.skip = drain.skip /\ drain'.todo = drain.todo
           /\ drain'.answer \in Answer \ {"none"}
           /\ drain'.step = IF drain'.answer = "ok" THEN "rows" ELSE "record"
           /\ \/ accepted' = accepted \cup {drain.number}
              \/ drain'.answer # "ok" /\ accepted' = accepted
<1>1. /\ drain.step = "sent" /\ drain.step \in BusySteps
      /\ UNCHANGED <<outbox, form>>
  BY DEF GetAnswer, BusySteps, InFlightSteps, formVars
<1>2. PICK a \in Answers(drain.item) :
         /\ drain' = [drain EXCEPT !.answer = a, !.step = IF a = "ok" THEN "rows" ELSE "record"]
         /\ \/ /\ a = "ok" \/ (a = "lost" /\ "ok" \in Answers(drain.item))
               /\ accepted' = accepted \cup {drain.number}
            \/ a # "ok" /\ UNCHANGED accepted
  BY DEF GetAnswer
<1>3. a \in Answer \ {"none"}
  BY DEF Answers, Answer
<1>4. drain \in DrainState(DOMAIN outbox)
  BY <1>1, AtItemOpen
<1>5. /\ drain' \in DrainState(DOMAIN outbox)
      /\ drain'.number = drain.number /\ drain'.item = drain.item
      /\ drain'.skip = drain.skip /\ drain'.todo = drain.todo
      /\ drain'.answer = a /\ drain'.step = IF a = "ok" THEN "rows" ELSE "record"
  BY <1>2, <1>3, <1>4 DEF DrainState, DrainStep, InFlightSteps
<1> QED BY <1>1, <1>2, <1>3, <1>5

LEMMA AnswerKeeps ==
    ASSUME QueueSound, GetAnswer
    PROVE  QueueSound'
<1> QueueType /\ ErrorsRecorded
  BY DEF QueueSound
<1> USE AnswerFacts
<1>1. /\ drain.number \in DOMAIN outbox /\ drain # NoDrain
      /\ drain.item \in OutboxItem /\ drain.item.status = "PENDING"
      /\ outbox[drain.number].status \in {"PENDING", "GONE"}
      /\ \A i \in DOMAIN drain.todo : drain.number < drain.todo[i]
  BY AtItemOpen
<1>2. accepted' \subseteq Nat /\ accepted \subseteq accepted'
  <2>1. drain.number \in Nat
    BY <1>1, OutboxIsFunction DEF QueueType
  <2> QED BY <2>1 DEF QueueType
<1>3. QueueType' /\ ErrorsRecorded'
  BY <1>2 DEF QueueType, ErrorsRecorded
<1>4. ASSUME NEW m, Witness(m)
      PROVE  Witness(m)'
  BY <1>4 DEF Witness
<1>5. InOrder'
  <2>1. /\ \A i, j \in DOMAIN drain.todo : i < j => drain.todo[i] < drain.todo[j]
        /\ drain.skip # {} => \E m \in DOMAIN outbox : Witness(m)
    BY <1>1 DEF QueueSound, InOrder
  <2> QED BY <2>1, <1>4 DEF InOrder, AnswerSteps
<1>6. AtItem'
  BY <1>1 DEF AtItem
<1>7. StepSound'
  BY DEF StepSound
<1> QED BY <1>3, <1>5, <1>6, <1>7 DEF QueueSound

(* Steps between the answer and its record that touch no item.             *)
LEMMA MovesOn ==
    ASSUME QueueSound, drain.step \in {"rows", "items"}, NEW x \in {"items", "puts", "record"},
           NEW W \in SUBSET WithStatus("PENDING"),
           drain' = [drain EXCEPT !.step = x] \/ drain' = [drain EXCEPT !.step = x, !.waiting = W],
           x = "puts" => drain' = [drain EXCEPT !.step = x, !.waiting = W],
           UNCHANGED <<outbox, form, accepted>>
    PROVE  /\ QueueSound' /\ drain'.step = x /\ drain'.number = drain.number
           /\ drain.step \in InFlightSteps
           /\ drain'.item = drain.item /\ drain'.skip = drain.skip
           /\ drain'.todo = drain.todo /\ (x = "puts" => drain'.waiting = W)
<1> QueueType /\ ErrorsRecorded
  BY DEF QueueSound
<1>1. drain.step \in BusySteps /\ drain.step \in InFlightSteps
  BY DEF BusySteps, InFlightSteps
<1>2. /\ drain \in DrainState(DOMAIN outbox) /\ drain # NoDrain
      /\ drain.number \in DOMAIN outbox
      /\ drain.item \in OutboxItem /\ drain.item.status = "PENDING"
      /\ outbox[drain.number].status \in {"PENDING", "GONE"}
      /\ \A i \in DOMAIN drain.todo : drain.number < drain.todo[i]
      /\ drain.answer = "ok" => drain.number \in accepted
  BY <1>1, AtItemOpen
<1>3. drain.answer = "ok"
  BY DEF QueueSound, StepSound
<1>4. W \in SUBSET DOMAIN outbox
  BY DEF WithStatus
<1>5. /\ drain' \in DrainState(DOMAIN outbox) /\ drain'.step = x
      /\ drain'.number = drain.number /\ drain'.item = drain.item
      /\ drain'.skip = drain.skip /\ drain'.todo = drain.todo /\ drain'.answer = drain.answer
      /\ x = "puts" => drain'.waiting = W
  BY <1>2, <1>4 DEF DrainState, DrainStep, InFlightSteps
<1>6. QueueType' /\ ErrorsRecorded'
  BY <1>5 DEF QueueType, ErrorsRecorded
<1>7. ASSUME NEW m, Witness(m)
      PROVE  Witness(m)'
  BY <1>5, <1>7 DEF Witness
<1>8. InOrder'
  <2>1. /\ \A i, j \in DOMAIN drain.todo : i < j => drain.todo[i] < drain.todo[j]
        /\ drain.skip # {} => \E m \in DOMAIN outbox : Witness(m)
    BY <1>2 DEF QueueSound, InOrder
  <2> QED BY <2>1, <1>3, <1>5, <1>7 DEF InOrder, AnswerSteps
<1>9. AtItem'
  BY <1>2, <1>5 DEF AtItem
<1>10. StepSound'
  BY <1>3, <1>5 DEF StepSound, WithStatus
<1> QED BY <1>1, <1>5, <1>6, <1>8, <1>9, <1>10 DEF QueueSound

LEMMA RowsStep ==
    ASSUME QueueSound, UpdateRows
    PROVE  /\ QueueSound' /\ drain'.step = "items" /\ drain'.number = drain.number
           /\ drain.step \in InFlightSteps /\ UNCHANGED <<outbox, accepted>>
           /\ drain.step = "rows" /\ drain'.item = drain.item /\ drain'.skip = drain.skip
           /\ drain'.todo = drain.todo
<1>1. /\ drain.step = "rows" /\ drain' = [drain EXCEPT !.step = "items"]
      /\ UNCHANGED <<outbox, form, accepted>>
  BY DEF UpdateRows, serverVars
<1> QED BY <1>1, MovesOn

LEMMA FindStep ==
    ASSUME QueueSound, FindDependents
    PROVE  /\ QueueSound' /\ drain'.step \in InFlightSteps /\ drain'.number = drain.number
           /\ drain.step \in InFlightSteps /\ UNCHANGED <<outbox, accepted>>
           /\ drain.step = "items" /\ drain'.item = drain.item /\ drain'.skip = drain.skip
           /\ drain'.todo = drain.todo
           /\ drain'.step = "puts" =>
                 drain'.waiting = {n \in WithStatus("PENDING") :
                                      Remapped(outbox[n], drain.item) # outbox[n]}
<1> DEFINE W == {n \in WithStatus("PENDING") : Remapped(outbox[n], drain.item) # outbox[n]}
           x == IF W = {} THEN "record" ELSE "puts"
<1>1. /\ drain.step = "items" /\ drain' = [drain EXCEPT !.step = x, !.waiting = W]
      /\ UNCHANGED <<outbox, form, accepted>>
  BY DEF FindDependents, formVars, serverVars
<1>2. x \in {"items", "puts", "record"} /\ x \in InFlightSteps
  BY DEF InFlightSteps
<1>3. W \in SUBSET WithStatus("PENDING")
  OBVIOUS
<1> HIDE DEF W, x
<1>4. /\ QueueSound' /\ drain'.step = x /\ drain'.number = drain.number
      /\ drain.step \in InFlightSteps
      /\ drain'.item = drain.item /\ drain'.skip = drain.skip
      /\ drain'.todo = drain.todo /\ (x = "puts" => drain'.waiting = W)
  BY <1>1, <1>2, <1>3, MovesOn
<1> QED BY <1>1, <1>2, <1>4 DEF W

(* The items that wait for the new id are put as pending, cleared or not.  *)
LEMMA PutsFacts ==
    ASSUME QueueSound, PutDependents
    PROVE  /\ drain.step = "puts" /\ drain.step \in BusySteps
           /\ drain.waiting \subseteq DOMAIN outbox
           /\ outbox' \in [DOMAIN outbox -> OutboxItem]
           /\ \A n \in DOMAIN outbox :
                 /\ outbox'[n].error = outbox[n].error
                 /\ n \in drain.waiting => outbox'[n].status = "PENDING"
                 /\ n \notin drain.waiting => outbox'[n] = outbox[n]
                 /\ n \in drain.waiting => outbox[n].status \in {"PENDING", "GONE"}
           /\ drain' \in DrainState(DOMAIN outbox) /\ drain'.step = "record"
           /\ drain'.number = drain.number /\ drain'.item = drain.item
           /\ drain'.skip = drain.skip /\ drain'.todo = drain.todo
           /\ drain'.answer = drain.answer
           /\ UNCHANGED <<form, accepted>>
           /\ \A n \in DOMAIN outbox :
                 /\ SameOrigin(outbox'[n], outbox[n])
                 /\ \A e \in Entity : Names(outbox'[n], e) => Names(outbox[n], e)
<1>1. /\ drain.step = "puts" /\ drain.step \in BusySteps
      /\ UNCHANGED <<form, accepted>>
  BY DEF PutDependents, BusySteps, InFlightSteps, formVars, serverVars
<1>2. drain \in DrainState(DOMAIN outbox) /\ drain.item \in OutboxItem
  BY <1>1, AtItemOpen
<1>3. drain.waiting \subseteq DOMAIN outbox
  BY <1>2, DrainFields
<1>4. outbox' = [n \in DOMAIN outbox |->
                    IF n \in drain.waiting
                    THEN [Remapped(outbox[n], drain.item) EXCEPT !.status = "PENDING"]
                    ELSE outbox[n]]
  BY DEF PutDependents
<1>5. \A n \in DOMAIN outbox : outbox[n] \in OutboxItem
  BY OutboxIsFunction DEF QueueSound, QueueType
<1>6. ASSUME NEW n \in DOMAIN outbox
      PROVE  LET put == [Remapped(outbox[n], drain.item) EXCEPT !.status = "PENDING"]
             IN  /\ put \in OutboxItem /\ put.status = "PENDING" /\ put.error = outbox[n].error
                 /\ SameOrigin(put, outbox[n])
                 /\ \A e \in Entity : Names(put, e) => Names(outbox[n], e)
  <2>1. PICK m : m = Remapped(outbox[n], drain.item)
    OBVIOUS
  <2>2. /\ m \in OutboxItem /\ m.error = outbox[n].error
        /\ SameOrigin(m, outbox[n])
        /\ \A e \in Entity : Names(m, e) => Names(outbox[n], e)
    BY <2>1, <1>2, <1>5, RemappedKeeps
  <2>3. /\ [m EXCEPT !.status = "PENDING"] \in OutboxItem
        /\ [m EXCEPT !.status = "PENDING"].status = "PENDING"
        /\ [m EXCEPT !.status = "PENDING"].error = m.error
        /\ SameNames([m EXCEPT !.status = "PENDING"], m)
    BY <2>2, ItemMarked
  <2> QED BY <2>1, <2>2, <2>3 DEF SameNames, SameOrigin, Names
<1>7. /\ outbox' \in [DOMAIN outbox -> OutboxItem]
      /\ \A n \in DOMAIN outbox :
            /\ outbox'[n].error = outbox[n].error
            /\ n \in drain.waiting => outbox'[n].status = "PENDING"
            /\ n \notin drain.waiting => outbox'[n] = outbox[n]
            /\ SameOrigin(outbox'[n], outbox[n])
            /\ \A e \in Entity : Names(outbox'[n], e) => Names(outbox[n], e)
  <2>1. \A n \in DOMAIN outbox : SameOrigin(outbox[n], outbox[n])
    BY DEF SameOrigin
  <2> QED BY <2>1, <1>4, <1>5, <1>6
<1>8. \A n \in drain.waiting : outbox[n].status \in {"PENDING", "GONE"}
  BY <1>1 DEF QueueSound, StepSound
<1>9. drain' = [drain EXCEPT !.step = "record", !.waiting = {}]
  BY DEF PutDependents
<1>10. /\ drain' \in DrainState(DOMAIN outbox) /\ drain'.step = "record"
       /\ drain'.number = drain.number /\ drain'.item = drain.item
       /\ drain'.skip = drain.skip /\ drain'.todo = drain.todo
       /\ drain'.answer = drain.answer
  BY <1>2, <1>9 DEF DrainState, DrainStep, InFlightSteps
<1> QED BY <1>1, <1>3, <1>7, <1>8, <1>10

LEMMA PutsKeep ==
    ASSUME QueueSound, PutDependents
    PROVE  QueueSound'
<1> QueueType /\ ErrorsRecorded
  BY DEF QueueSound
<1> USE PutsFacts
<1>1. /\ drain.number \in DOMAIN outbox /\ drain # NoDrain
      /\ drain.item \in OutboxItem /\ drain.item.status = "PENDING"
      /\ outbox[drain.number].status \in {"PENDING", "GONE"}
      /\ \A i \in DOMAIN drain.todo : drain.number < drain.todo[i]
      /\ drain.answer = "ok" => drain.number \in accepted
  BY AtItemOpen
<1>2. QueueType' /\ DOMAIN outbox' = DOMAIN outbox
  BY InPlaceType
<1>3. ErrorsRecorded'
  <2> SUFFICES ASSUME NEW n \in DOMAIN outbox
               PROVE  /\ outbox'[n].status \in {"CONFLICT", "FAILED", "GONE"} =>
                            outbox'[n].error
                      /\ outbox'[n].status = "SYNCED" => ~outbox'[n].error
    BY <1>2 DEF ErrorsRecorded
  <2>1. CASE n \in drain.waiting
    BY <2>1
  <2>2. CASE n \notin drain.waiting
    BY <2>2 DEF ErrorsRecorded
  <2> QED BY <2>1, <2>2
<1>4. ASSUME NEW m, Witness(m)
      PROVE  Witness(m)'
  BY <1>2, <1>4 DEF Witness
<1>5. InOrder'
  <2>1. /\ \A i, j \in DOMAIN drain.todo : i < j => drain.todo[i] < drain.todo[j]
        /\ drain.skip # {} => \E m \in DOMAIN outbox : Witness(m)
        /\ drain.answer # "none"
    BY <1>1 DEF QueueSound, InOrder, AnswerSteps
  <2> QED BY <2>1, <1>2, <1>4 DEF InOrder, AnswerSteps
<1>6. AtItem'
  <2>1. outbox'[drain.number].status \in {"PENDING", "GONE"}
    BY <1>1
  <2> QED BY <2>1, <1>1, <1>2 DEF AtItem
<1>7. StepSound'
  BY DEF StepSound
<1> QED BY <1>2, <1>3, <1>5, <1>6, <1>7 DEF QueueSound

LEMMA RecountKeeps ==
    ASSUME QueueSound, RehydrateCount
    PROVE  /\ QueueSound' /\ drain'.step = "scan" /\ drain.step = "recount"
           /\ UNCHANGED <<outbox, accepted>>
           /\ drain'.skip = drain.skip /\ drain'.todo = drain.todo
<1> QueueType /\ ErrorsRecorded
  BY DEF QueueSound
<1>1. /\ drain.step = "recount" /\ drain' = [drain EXCEPT !.step = "scan"]
      /\ UNCHANGED <<outbox, form, accepted>>
  BY DEF RehydrateCount, formVars, serverVars
<1>2. drain \in DrainState(DOMAIN outbox) /\ drain # NoDrain
  BY <1>1, DrainOpen DEF DrainStep
<1>3. /\ drain' \in DrainState(DOMAIN outbox) /\ drain'.step = "scan"
      /\ drain'.number = drain.number /\ drain'.skip = drain.skip
      /\ drain'.todo = drain.todo /\ drain'.answer = drain.answer
  BY <1>1, <1>2 DEF DrainState, DrainStep
<1>4. QueueType' /\ ErrorsRecorded'
  BY <1>1, <1>3 DEF QueueType, ErrorsRecorded
<1>5. ASSUME NEW m, Witness(m)
      PROVE  Witness(m)'
  BY <1>1, <1>3, <1>5 DEF Witness
<1>6. InOrder'
  <2>1. /\ \A i, j \in DOMAIN drain.todo : i < j => drain.todo[i] < drain.todo[j]
        /\ drain.skip # {} => \E m \in DOMAIN outbox : Witness(m)
        /\ drain.answer = "none"
    BY <1>1, <1>2 DEF QueueSound, InOrder, AnswerSteps
  <2> QED BY <2>1, <1>1, <1>3, <1>5 DEF InOrder, AnswerSteps
<1>7. AtItem' /\ StepSound'
  BY <1>3 DEF AtItem, StepSound, BusySteps, InFlightSteps
<1> QED BY <1>1, <1>3, <1>4, <1>6, <1>7 DEF QueueSound

LEMMA EndKeeps ==
    ASSUME QueueSound, EndDrain
    PROVE  /\ QueueSound' /\ drain' = NoDrain /\ drain.step = "scan"
           /\ UNCHANGED <<outbox, accepted>>
<1>1. /\ drain.step = "scan" /\ drain' = NoDrain /\ drain'.step = "idle"
      /\ UNCHANGED <<outbox, form, accepted>>
  BY DEF EndDrain, NoDrain, formVars, serverVars
<1> QED BY <1>1 DEF QueueSound, QueueType, ErrorsRecorded, InOrder, AtItem, StepSound, BusySteps,
                    InFlightSteps

LEMMA HoldFacts ==
    ASSUME QueueSound, HoldItem
    PROVE  /\ drain.step = "hold"
           /\ outbox' \in [DOMAIN outbox -> OutboxItem]
           /\ outbox'[drain.number].status = "CONFLICT" /\ outbox'[drain.number].error
           /\ \A n \in DOMAIN outbox : n # drain.number => outbox'[n] = outbox[n]
           /\ drain'.step = "recount" /\ accepted' = accepted
           /\ drain'.skip = drain.skip /\ drain'.todo = drain.todo
           /\ SameNames(outbox'[drain.number], drain.item)
<1> DEFINE status == "CONFLICT"
           failed == TRUE
           skip == drain.skip
<1>1. drain.step \in BusySteps /\ PutBack(status, failed, skip) /\ drain.step = "hold"
  BY DEF HoldItem, BusySteps
<1>2. skip \in SUBSET Id
  BY <1>1, AtItemOpen, DrainFields
<1>3. status \in OutboxStatus /\ failed \in BOOLEAN
  BY DEF OutboxStatus
<1> HIDE DEF status, failed, skip
<1>4. /\ outbox' \in [DOMAIN outbox -> OutboxItem]
      /\ outbox'[drain.number].status = status /\ outbox'[drain.number].error = failed
      /\ \A n \in DOMAIN outbox : n # drain.number => outbox'[n] = outbox[n]
      /\ drain'.step = "recount" /\ accepted' = accepted
      /\ drain'.skip = skip /\ drain'.todo = drain.todo
      /\ SameNames(outbox'[drain.number], drain.item)
  BY <1>1, <1>2, <1>3, PutBackFacts
<1> QED BY <1>1, <1>4 DEF status, failed, skip

LEMMA RecordedFacts ==
    ASSUME QueueSound, RecordAnswer
    PROVE  /\ drain.step = "record" /\ drain.answer \in Answer \ {"none"}
           /\ outbox' \in [DOMAIN outbox -> OutboxItem]
           /\ outbox'[drain.number].status = StatusAfter(drain.answer)
           /\ outbox'[drain.number].error = (drain.answer # "ok")
           /\ \A n \in DOMAIN outbox : n # drain.number => outbox'[n] = outbox[n]
           /\ drain'.step = "recount" /\ accepted' = accepted
           /\ drain'.skip = SkipAfter(drain.answer) /\ drain'.todo = drain.todo
           /\ SameNames(outbox'[drain.number], drain.item)
<1> DEFINE failed == drain.answer # "ok"
           skip == SkipAfter(drain.answer)
           status == StatusAfter(drain.answer)
<1>1. drain.step \in BusySteps /\ PutBack(status, failed, skip)
  BY RecordFacts
<1>2. skip \in SUBSET Id
  BY RecordFacts
<1>3. status \in OutboxStatus /\ failed \in BOOLEAN
  BY RecordFacts
<1> HIDE DEF status, failed, skip
<1>4. /\ outbox' \in [DOMAIN outbox -> OutboxItem]
      /\ outbox'[drain.number].status = status /\ outbox'[drain.number].error = failed
      /\ \A n \in DOMAIN outbox : n # drain.number => outbox'[n] = outbox[n]
      /\ drain'.step = "recount" /\ accepted' = accepted
      /\ drain'.skip = skip /\ drain'.todo = drain.todo
      /\ SameNames(outbox'[drain.number], drain.item)
  BY <1>1, <1>2, <1>3, PutBackFacts
<1>5. drain.step = "record" /\ drain.answer \in Answer \ {"none"}
  BY RecordFacts
<1> QED BY <1>4, <1>5 DEF status, failed, skip

(* Every step keeps the invariant.                                         *)
LEMMA FormStays ==
    ASSUME FormType, QueueSound, [Next]_vars
    PROVE  FormType'
<1>1. CASE UNCHANGED vars
  BY <1>1 DEF FormType, vars, formVars
<1>2. CASE UserBegins
  BY <1>2, UserBeginsType
<1>3. CASE AskServer
  BY <1>3, AskServerType
<1>4. CASE SaveAndEnqueue
  BY <1>4, SavedRows
<1>5. CASE UpdateRows
  <2>1. drain.step \in BusySteps
    BY <1>5 DEF UpdateRows, BusySteps, InFlightSteps
  <2> QED BY <2>1, <1>5, AtItemOpen, UpdatedRows
<1>6. CASE UNCHANGED formVars
  BY <1>6 DEF FormType, formVars
<1>7. CASE SyncNow \/ CountAfterClear \/ TimerFires \/ Disconnect \/ Reconnect
           \/ RunEffect \/ ClearConflicts
  BY <1>7, <1>6 DEF SyncNow, CountAfterClear, TimerFires, Disconnect, Reconnect, RunEffect,
                    ClearConflicts
<1>8. CASE \E r \in Run : EndRun(r) \/ ProbeServer(r)
  BY <1>8, <1>6 DEF EndRun, ProbeServer
<1>9. CASE ListPending \/ TakeItem \/ HoldItem \/ GetAnswer \/ FindDependents \/ PutDependents
           \/ RecordAnswer \/ RehydrateCount \/ EndDrain
  BY <1>9, <1>6 DEF ListPending, TakeItem, HoldItem, GetAnswer, FindDependents, PutDependents,
                    RecordAnswer, PutBack, RehydrateCount, EndDrain
<1> QED BY <1>1, <1>2, <1>3, <1>4, <1>5, <1>7, <1>8, <1>9
        DEF Next, Edit, UserBegins, ProcessQueue

LEMMA ProcessKeeps ==
    ASSUME QueueSound, ProcessQueue
    PROVE  QueueSound'
BY ListKeeps, TakeKeeps, HoldKeeps, AnswerKeeps, RowsStep, FindStep, PutsKeep, RecordKeeps,
   RecountKeeps, EndKeeps DEF ProcessQueue

LEMMA NextKeeps == DrainInvariant /\ [Next]_vars => DrainInvariant'
<1> SUFFICES ASSUME FormType, SignalType, QueueSound, [Next]_vars
             PROVE  FormType' /\ SignalType' /\ QueueSound'
  <2>1. (DrainInvariant <=> FormType /\ SignalType /\ QueueSound)'
    BY InvariantParts, PTL
  <2> QED BY <2>1, InvariantParts
<1>1. FormType'
  BY FormStays
<1>2. QueueType
  BY DEF QueueSound
<1>3. CASE UNCHANGED vars
  BY <1>3, <1>1, QueueStill
     DEF vars, signals, syncVars, serverVars, formVars, SignalType, QueueSound, QueueType
<1>4. CASE RunEffect
  BY <1>4, <1>1, <1>2, RunEffectType, AroundDrainFrame, QueueStill
<1>5. CASE AroundDrain /\ Signalled
  BY <1>5, <1>1, <1>2, AroundDrainType, AroundDrainFrame, QueueStill
<1>6. CASE StartDrain /\ Signalled
  BY <1>6, <1>1, StartDrainType, StartKeeps
<1>7. CASE (SaveAndEnqueue \/ ClearConflicts \/ ProcessQueue) /\ Signalled
  BY <1>7, <1>1, <1>2, QueueStepType, EnqueueKeeps, ClearKeeps, ProcessKeeps
<1> QED BY <1>3, <1>4, <1>5, <1>6, <1>7, StepsOfNext

(* What the drain holds between its awaits fits the outbox, whatever the   *)
(* user, the connection and the other runs did meanwhile: an item at hand  *)
(* was pending when it was read and is at most cleared since, the server   *)
(* made the change of an "ok" answer, and every entity skipped is          *)
(* accounted for by an item in trouble.                                    *)
THEOREM DrainIsSound == Spec => []DrainInvariant
<1>1. Init => DrainInvariant
  BY InitSound
<1>2. DrainInvariant /\ [Next]_vars => DrainInvariant'
  BY NextKeeps
<1> QED BY <1>1, <1>2, PTL DEF Spec

----------------------------------------------------------------------------
(* The signal that decides about runs.                                     *)

LEMMA CountKept ==
    ASSUME PendingCountIsExact, UNCHANGED <<outbox, pendingCount, clearing>>,
           drain.step \notin {"record", "recount"} \/ drain' = drain
    PROVE  PendingCountIsExact'
BY DEF PendingCountIsExact, WithStatus

LEMMA CountStays ==
    ASSUME DrainInvariant, PendingCountIsExact, [Next]_vars
    PROVE  PendingCountIsExact'
<1>1. FormType /\ QueueSound /\ QueueType
  BY InvariantParts DEF QueueSound
<1>2. CASE UNCHANGED vars \/ RunEffect
  <2>1. UNCHANGED <<outbox, pendingCount, clearing, drain>>
    BY <1>2 DEF vars, RunEffect, signals, syncVars
  <2> QED BY <2>1, CountKept
<1>3. CASE UserBegins
  <2>1. UNCHANGED <<outbox, pendingCount, clearing, drain>>
    BY <1>1, <1>3, UserBeginsType DEF BeginsForm, signals, syncVars
  <2> QED BY <2>1, CountKept
<1>4. CASE AskServer \/ SyncNow \/ TimerFires \/ Disconnect \/ Reconnect
  <2>1. UNCHANGED <<outbox, pendingCount, clearing, drain>>
    BY <1>4 DEF AskServer, SyncNow, TimerFires, Disconnect, Reconnect, signals, syncVars
  <2> QED BY <2>1, CountKept
<1>5. ASSUME NEW r \in Run, EndRun(r)
      PROVE  PendingCountIsExact'
  <2>1. UNCHANGED <<outbox, pendingCount, clearing, drain>>
    BY <1>5 DEF EndRun
  <2> QED BY <2>1, CountKept
<1>6. ASSUME NEW r \in Run, ProbeServer(r)
      PROVE  PendingCountIsExact'
  <2>1. UNCHANGED <<outbox, pendingCount, clearing>> /\ (drain' = drain \/ drain.step = "idle")
    BY <1>6 DEF ProbeServer
  <2> QED BY <2>1, CountKept
<1>7. CASE CountAfterClear
  <2>1. outbox' = outbox /\ pendingCount' = Cardinality(WithStatus("PENDING"))
    BY <1>7 DEF CountAfterClear
  <2> QED BY <2>1 DEF PendingCountIsExact, WithStatus
<1>8. CASE SaveAndEnqueue
  <2> DEFINE new == Len(outbox) + 1
             P == WithStatus("PENDING")
  <2>1. /\ DOMAIN outbox' = (DOMAIN outbox) \cup {new} /\ new \notin DOMAIN outbox
        /\ \A n \in DOMAIN outbox : outbox'[n] = outbox[n]
        /\ outbox'[new].status = "PENDING" /\ drain' = drain
    BY <1>1, <1>8, Enqueued
  <2>2. WithStatus("PENDING")' = P \cup {new} /\ new \notin P
    BY <2>1 DEF WithStatus
  <2>3. IsFiniteSet(P) /\ Cardinality(P) \in Nat
    BY <1>1, StatusSets DEF QueueType
  <2>4. pendingCount' = pendingCount + 1 /\ clearing' = clearing
    BY <1>8 DEF SaveAndEnqueue
  <2> HIDE DEF P, new
  <2>5. Cardinality(P \cup {new}) = Cardinality(P) + 1
    BY <2>2, <2>3, FS_AddElement
  <2> QED BY <2>1, <2>2, <2>4, <2>5 DEF PendingCountIsExact, P
<1>9. CASE ClearConflicts
  BY <1>9 DEF ClearConflicts, PendingCountIsExact
<1>10. CASE ListPending \/ TakeItem \/ GetAnswer \/ UpdateRows \/ FindDependents \/ EndDrain
  <2>1. UNCHANGED <<outbox, pendingCount, clearing>> /\ drain.step \notin {"record", "recount"}
    BY <1>10 DEF ListPending, TakeItem, GetAnswer, UpdateRows, FindDependents, EndDrain, signals
  <2> QED BY <2>1, CountKept
<1>11. CASE HoldItem
  <2>1. drain'.step = "recount"
    BY <1>1, <1>11, HoldFacts
  <2> QED BY <2>1 DEF PendingCountIsExact
<1>12. CASE RecordAnswer
  <2>1. drain'.step = "recount"
    BY <1>1, <1>12, RecordedFacts
  <2> QED BY <2>1 DEF PendingCountIsExact
<1>13. CASE PutDependents
  <2>1. drain'.step = "record"
    BY <1>1, <1>13, PutsFacts
  <2> QED BY <2>1 DEF PendingCountIsExact
<1>14. CASE RehydrateCount
  <2>1. outbox' = outbox /\ pendingCount' = Cardinality(WithStatus("PENDING"))
    BY <1>14 DEF RehydrateCount, Recounted
  <2> QED BY <2>1 DEF PendingCountIsExact, WithStatus
<1> QED BY <1>2, <1>3, <1>4, <1>5, <1>6, <1>7, <1>8, <1>9, <1>10, <1>11, <1>12, <1>13, <1>14
        DEF Next, Edit, UserBegins, ProcessQueue

(* The signal is the number of pending items whenever no step of a drain   *)
(* or of a clear has yet to count, for any number of items and runs.       *)
THEOREM CountIsExact == Spec => []PendingCountIsExact
<1>1. Init => PendingCountIsExact
  <2> SUFFICES ASSUME Init PROVE PendingCountIsExact
    OBVIOUS
  <2>1. WithStatus("PENDING") = {}
    BY EmptySeq DEF Init, WithStatus
  <2>2. Cardinality({}) = 0
    BY FS_EmptySet
  <2> QED BY <2>1, <2>2 DEF Init, PendingCountIsExact
<1>2. DrainInvariant /\ PendingCountIsExact /\ [Next]_vars => PendingCountIsExact'
  BY CountStays
<1> QED BY <1>1, <1>2, DrainIsSound, PTL DEF Spec

----------------------------------------------------------------------------
(* The outbox implements DeliveryQueue. What follows is about the          *)
(* abstract variables: the fate of each number, and the marked items.      *)

Fates == [n \in 1 .. MaxItems |-> Fate(n)]
Marks == {n \in DOMAIN outbox : outbox[n].error}

FateIs(n) ==
    /\ n \notin DOMAIN outbox => Fate(n) = "none"
    /\ n \in DOMAIN outbox /\ InFlight(n) => Fate(n) = "sent"
    /\ n \in DOMAIN outbox /\ ~InFlight(n) =>
          /\ outbox[n].status = "PENDING" => Fate(n) = "queued"
          /\ outbox[n].status = "SYNCED" => Fate(n) = "delivered"
          /\ outbox[n].status = "GONE" => Fate(n) = "dropped"
          /\ outbox[n].status \in {"CONFLICT", "FAILED"} => Fate(n) = "held"

LEMMA FatesKnown == \A n \in 1 .. MaxItems : FateIs(n)
BY DEF FateIs, Fate

LEMMA FatesKnownNext == \A n \in 1 .. MaxItems : FateIs(n)'
BY DEF FateIs, Fate

LEMMA NumbersFit ==
    ASSUME QueueType
    PROVE  /\ DOMAIN outbox \subseteq 1 .. MaxItems
           /\ \A n \in DOMAIN outbox : outbox[n].status \in OutboxStatus \cup {"GONE"}
<1>1. DOMAIN outbox = 1 .. Len(outbox) /\ Len(outbox) \in Nat /\ Len(outbox) <= MaxItems
  BY OutboxIsFunction DEF QueueType
<1>2. \A n \in DOMAIN outbox : outbox[n] \in OutboxItem
  BY OutboxIsFunction DEF QueueType
<1> QED BY <1>1, <1>2, ItemFields, BoundsAssumption

(* An item whose status and whereabouts stay keeps its fate.               *)
LEMMA SameFate ==
    ASSUME NEW n, DOMAIN outbox' = DOMAIN outbox,
           n \in DOMAIN outbox => outbox'[n].status = outbox[n].status,
           InFlight(n)' <=> InFlight(n)
    PROVE  Fate(n)' = Fate(n)
BY DEF Fate

LEMMA SentIsInFlight ==
    ASSUME QueueType, NEW n \in 1 .. MaxItems, Fate(n) = "sent"
    PROVE  InFlight(n)
<1>1. n \in DOMAIN outbox => outbox[n].status \in OutboxStatus \cup {"GONE"}
  BY NumbersFit
<1> QED BY <1>1, FatesKnown DEF FateIs, OutboxStatus

(* A step the abstract queue does not see.                                 *)
LEMMA Unseen ==
    ASSUME QueueType, UNCHANGED <<outbox, accepted>>,
           \A n \in DOMAIN outbox : InFlight(n)' <=> InFlight(n)
    PROVE  UNCHANGED Delivery!vars
<1>1. \A n \in 1 .. MaxItems : Fate(n)' = Fate(n)
  <2> TAKE n \in 1 .. MaxItems
  <2>1. CASE n \in DOMAIN outbox
    BY <2>1, SameFate
  <2>2. CASE n \notin DOMAIN outbox
    BY <2>2 DEF Fate
  <2> QED BY <2>1, <2>2
<1>2. Fates' = Fates /\ Marks' = Marks
  BY <1>1 DEF Fates, Marks
<1> QED BY <1>2 DEF Delivery!vars, Fates, Marks

LEMMA MapsInit == Init => Delivery!Init
<1> SUFFICES ASSUME Init PROVE Delivery!Init
  OBVIOUS
<1>1. DOMAIN outbox = {}
  BY EmptySeq DEF Init
<1>2. Fates = [n \in 1 .. MaxItems |-> "none"] /\ Marks = {}
  BY <1>1 DEF Fates, Fate, Marks
<1> QED BY <1>2 DEF Init, Delivery!Init, Delivery!Number, Fates, Marks

LEMMA MapsEnqueue ==
    ASSUME FormType, QueueSound, SaveAndEnqueue
    PROVE  Delivery!Next
<1> DEFINE new == Len(outbox) + 1
<1>1. PICK n : n = new
  OBVIOUS
<1>2. /\ QueueType /\ DOMAIN outbox = 1 .. Len(outbox) /\ Len(outbox) \in Nat
      /\ Len(outbox) < MaxItems
  <2>1. form # NoForm
    BY DEF SaveAndEnqueue, NoForm
  <2> QED BY <2>1, OutboxIsFunction DEF QueueSound, QueueType
<1>3. /\ DOMAIN outbox' = (DOMAIN outbox) \cup {n} /\ n \notin DOMAIN outbox
      /\ \A m \in DOMAIN outbox : outbox'[m] = outbox[m]
      /\ outbox'[n].status = "PENDING" /\ outbox'[n].error = FALSE
      /\ drain' = drain /\ accepted' = accepted
  BY <1>1, <1>2, Enqueued
<1>4. n \in 1 .. MaxItems /\ \A m \in 1 .. n - 1 : m \in DOMAIN outbox
  BY <1>1, <1>2, BoundsAssumption
<1>5. ~InFlight(n)
  <2> SUFFICES ASSUME InFlight(n) PROVE FALSE
    OBVIOUS
  <2>1. drain.step \in BusySteps /\ drain.number = n
    BY DEF InFlight, BusySteps
  <2> QED BY <2>1, <1>3, AtItemOpen
<1>6. Fates[n] = "none" /\ \A m \in 1 .. n - 1 : Fates[m] # "none"
  <2>1. Fates[n] = "none"
    BY <1>3, <1>4, FatesKnown DEF Fates, FateIs
  <2>2. ASSUME NEW m \in 1 .. n - 1
        PROVE  Fates[m] # "none"
    <3>1. m \in DOMAIN outbox /\ m \in 1 .. MaxItems
      BY <1>2, <1>4, NumbersFit
    <3>2. outbox[m].status \in OutboxStatus \cup {"GONE"}
      BY <1>2, <3>1, NumbersFit
    <3> QED BY <3>1, <3>2, FatesKnown DEF Fates, FateIs, OutboxStatus
  <2> QED BY <2>1, <2>2
<1>7. Fates' = [Fates EXCEPT ![n] = "queued"]
  <2>1. Fate(n)' = "queued"
    <3>1. ~InFlight(n)'
      BY <1>3, <1>5 DEF InFlight
    <3> QED BY <3>1, <1>3, <1>4, FatesKnownNext DEF FateIs
  <2>2. ASSUME NEW m \in 1 .. MaxItems, m # n
        PROVE  Fate(m)' = Fate(m)
    BY <1>3, <2>2 DEF Fate, InFlight
  <2> QED BY <2>1, <2>2, <1>4 DEF Fates
<1>8. Marks' = Marks
  BY <1>3 DEF Marks
<1>9. Delivery!Enqueue(n)
  BY <1>3, <1>6, <1>7, <1>8 DEF Delivery!Enqueue, Fates, Marks
<1> QED BY <1>4, <1>9 DEF Delivery!Next, Delivery!Number

LEMMA MapsTake ==
    ASSUME QueueSound, TakeItem
    PROVE  Delivery!Next \/ UNCHANGED Delivery!vars
<1>1. PICK n : n = Head(drain.todo)
  OBVIOUS
<1>2. /\ drain.step = "scan" /\ outbox' = outbox /\ accepted' = accepted
      /\ n \in DOMAIN outbox
      /\ \/ drain'.step \in {"scan", "hold"}
         \/ drain'.step = "sent" /\ drain'.number = n /\ outbox[n].status = "PENDING"
  BY <1>1, TakeFacts DEF QueueSound
<1>3. QueueType /\ n \in 1 .. MaxItems
  BY <1>2, NumbersFit DEF QueueSound
<1>4. \A m : ~InFlight(m)
  BY <1>2 DEF InFlight, InFlightSteps
<1>5. CASE drain'.step \in {"scan", "hold"}
  <2>1. \A m : ~InFlight(m)'
    BY <1>5 DEF InFlight, InFlightSteps
  <2> QED BY <2>1, <1>2, <1>3, <1>4, Unseen
<1>6. CASE drain'.step = "sent" /\ drain'.number = n /\ outbox[n].status = "PENDING"
  <2>1. \A m : InFlight(m)' <=> m = n
    BY <1>6 DEF InFlight, InFlightSteps
  <2>2. Fates[n] = "queued" /\ \A m \in 1 .. MaxItems : Fates[m] # "sent"
    BY <1>2, <1>3, <1>4, <1>6, FatesKnown, SentIsInFlight DEF Fates, FateIs
  <2>3. Fate(n)' = "sent"
    BY <2>1, <1>2, <1>3, FatesKnownNext DEF FateIs
  <2>4. ASSUME NEW m \in 1 .. MaxItems, m # n
        PROVE  Fate(m)' = Fate(m)
    BY <1>2, <1>4, <2>1, <2>4 DEF Fate
  <2>5. Fates' = [Fates EXCEPT ![n] = "sent"]
    BY <2>3, <2>4, <1>3 DEF Fates
  <2>6. Marks' = Marks
    BY <1>2 DEF Marks
  <2>7. Delivery!Send(n)
    BY <2>2, <2>5, <2>6, <1>2 DEF Delivery!Send, Delivery!Number, Fates, Marks
  <2> QED BY <2>7, <1>3 DEF Delivery!Next, Delivery!Number
<1> QED BY <1>2, <1>5, <1>6

(* An item is held: one that is cleared meanwhile is restored by it.       *)
LEMMA MapsHold ==
    ASSUME QueueSound, HoldItem
    PROVE  Delivery!Next
<1>1. PICK n : n = drain.number
  OBVIOUS
<1>2. /\ drain.step = "hold" /\ outbox' \in [DOMAIN outbox -> OutboxItem]
      /\ outbox'[n].status = "CONFLICT" /\ outbox'[n].error
      /\ \A m \in DOMAIN outbox : m # n => outbox'[m] = outbox[m]
      /\ drain'.step = "recount" /\ accepted' = accepted
  BY <1>1, HoldFacts
<1>3. /\ n \in DOMAIN outbox /\ outbox[n].status \in {"PENDING", "GONE"}
      /\ QueueType /\ ErrorsRecorded /\ drain # NoDrain
  BY <1>1, <1>2, AtItemOpen DEF BusySteps, QueueSound
<1>4. n \in 1 .. MaxItems /\ DOMAIN outbox' = DOMAIN outbox
  BY <1>2, <1>3, NumbersFit
<1>5. \A m : ~InFlight(m) /\ ~InFlight(m)'
  BY <1>2 DEF InFlight, InFlightSteps
<1>6. Fate(n)' = "held"
  BY <1>2, <1>3, <1>4, <1>5, FatesKnownNext DEF FateIs
<1>7. ASSUME NEW m \in 1 .. MaxItems, m # n
      PROVE  Fate(m)' = Fate(m)
  BY <1>2, <1>4, <1>5, <1>7, SameFate
<1>8. Fates' = [Fates EXCEPT ![n] = "held"]
  BY <1>4, <1>6, <1>7 DEF Fates
<1>9. Marks' = Marks \cup {n}
  BY <1>2, <1>3, <1>4 DEF Marks
<1>10. CASE outbox[n].status = "PENDING"
  <2>1. Fates[n] = "queued"
    BY <1>3, <1>4, <1>5, <1>10, FatesKnown DEF Fates, FateIs
  <2>2. PICK m \in DOMAIN outbox : Witness(m)
    BY <1>2, <1>3 DEF QueueSound, StepSound, InOrder
  <2>3. m \in Marks /\ m # n
    BY <2>2, <1>1 DEF Witness, Marks
  <2>4. Delivery!Hold(n)
    BY <2>1, <2>3, <1>2, <1>8, <1>9 DEF Delivery!Hold, Fates, Marks
  <2> QED BY <2>4, <1>4 DEF Delivery!Next, Delivery!Number
<1>11. CASE outbox[n].status = "GONE"
  <2>1. Fates[n] = "dropped"
    BY <1>3, <1>4, <1>5, <1>11, FatesKnown DEF Fates, FateIs
  <2>2. Marks' = Marks
    BY <1>3, <1>9, <1>11 DEF ErrorsRecorded, Marks
  <2>3. Fates' = [m \in 1 .. MaxItems |-> IF m \in {n} THEN "held" ELSE Fates[m]]
    BY <1>8 DEF Fates
  <2>4. Delivery!Restore({n})
    BY <2>1, <2>2, <2>3, <1>2 DEF Delivery!Restore, Delivery!Number, Fates, Marks
  <2> QED BY <2>4, <1>4 DEF Delivery!Next, Delivery!Number
<1> QED BY <1>3, <1>10, <1>11

LEMMA MapsAnswer ==
    ASSUME QueueSound, GetAnswer
    PROVE  Delivery!Next \/ UNCHANGED Delivery!vars
<1>1. PICK n : n = drain.number
  OBVIOUS
<1>2. /\ drain.step = "sent" /\ outbox' = outbox
      /\ drain'.step \in {"rows", "record"} /\ drain'.number = n
      /\ accepted' \in {accepted, accepted \cup {n}}
  BY <1>1, AnswerFacts
<1>3. n \in DOMAIN outbox /\ QueueType
  BY <1>1, <1>2, AtItemOpen DEF BusySteps, InFlightSteps, QueueSound
<1>4. /\ \A m : InFlight(m)' <=> m = n
      /\ \A m : InFlight(m) <=> m = n
  BY <1>1, <1>2 DEF InFlight, InFlightSteps
<1>5. CASE accepted' = accepted
  BY <1>2, <1>3, <1>4, <1>5, Unseen
<1>6. CASE accepted' = accepted \cup {n}
  <2>1. n \in 1 .. MaxItems
    BY <1>3, NumbersFit
  <2>2. Fates[n] = "sent"
    BY <2>1, <1>3, <1>4, FatesKnown DEF Fates, FateIs
  <2>3. Fates' = Fates /\ Marks' = Marks
    <3>1. \A m \in 1 .. MaxItems : Fate(m)' = Fate(m)
      BY <1>2, <1>4, SameFate
    <3> QED BY <3>1, <1>2 DEF Fates, Marks
  <2>4. Delivery!Accept(n)
    BY <2>2, <2>3, <1>6 DEF Delivery!Accept, Fates, Marks
  <2> QED BY <2>1, <2>4 DEF Delivery!Next, Delivery!Number
<1> QED BY <1>2, <1>5, <1>6

(* Items cleared while they waited for the new id come back.               *)
LEMMA MapsPuts ==
    ASSUME QueueSound, PutDependents
    PROVE  Delivery!Next \/ UNCHANGED Delivery!vars
<1>1. PICK n : n = drain.number
  OBVIOUS
<1>2. /\ drain.step = "puts" /\ drain.waiting \subseteq DOMAIN outbox
      /\ outbox' \in [DOMAIN outbox -> OutboxItem]
      /\ \A m \in DOMAIN outbox :
            /\ outbox'[m].error = outbox[m].error
            /\ m \in drain.waiting => outbox'[m].status = "PENDING"
            /\ m \notin drain.waiting => outbox'[m] = outbox[m]
            /\ m \in drain.waiting => outbox[m].status \in {"PENDING", "GONE"}
      /\ drain'.step = "record" /\ drain'.number = n /\ accepted' = accepted
  BY <1>1, PutsFacts
<1>3. QueueType /\ DOMAIN outbox' = DOMAIN outbox /\ DOMAIN outbox \subseteq 1 .. MaxItems
  BY <1>2, NumbersFit DEF QueueSound
<1>4. /\ \A m : InFlight(m)' <=> m = n
      /\ \A m : InFlight(m) <=> m = n
  BY <1>1, <1>2 DEF InFlight, InFlightSteps
<1>5. PICK S : S = {m \in drain.waiting : m # n /\ outbox[m].status = "GONE"}
  OBVIOUS
<1>6. \A m \in S : Fates[m] = "dropped"
  BY <1>2, <1>3, <1>4, <1>5, FatesKnown DEF Fates, FateIs
<1>7. \A m \in S : Fate(m)' = "queued"
  BY <1>2, <1>3, <1>4, <1>5, FatesKnownNext DEF FateIs
<1>8. ASSUME NEW m \in 1 .. MaxItems, m \notin S
      PROVE  Fate(m)' = Fate(m)
  <2>1. CASE m = n
    BY <2>1, <1>3, <1>4 DEF Fate
  <2>2. CASE m # n
    <3>1. m \in DOMAIN outbox => outbox'[m].status = outbox[m].status
      <4>1. CASE m \in drain.waiting
        BY <4>1, <2>2, <1>2, <1>5, <1>8
      <4>2. CASE m \notin drain.waiting
        BY <4>2, <1>2
      <4> QED BY <4>1, <4>2
    <3> QED BY <3>1, <1>3, <1>4, SameFate
  <2> QED BY <2>1, <2>2
<1>9. Marks' = Marks
  BY <1>2, <1>3 DEF Marks
<1>10. CASE S = {}
  <2>1. Fates' = Fates
    BY <1>8, <1>10 DEF Fates
  <2> QED BY <2>1, <1>2, <1>9 DEF Delivery!vars, Fates, Marks
<1>11. CASE S # {}
  <2>1. Fates' = [m \in 1 .. MaxItems |-> IF m \in S THEN "queued" ELSE Fates[m]]
    BY <1>7, <1>8 DEF Fates
  <2>2. Delivery!Restore(S)
    BY <2>1, <1>2, <1>6, <1>9, <1>11 DEF Delivery!Restore, Delivery!Number, Fates, Marks
  <2>3. S \in SUBSET (1 .. MaxItems)
    BY <1>2, <1>3, <1>5
  <2> QED BY <2>2, <2>3 DEF Delivery!Next, Delivery!Number
<1> QED BY <1>10, <1>11

LEMMA MapsRecord ==
    ASSUME QueueSound, RecordAnswer
    PROVE  Delivery!Next
<1>1. PICK n : n = drain.number
  OBVIOUS
<1>2. PICK a : a = drain.answer
  OBVIOUS
<1>3. /\ drain.step = "record" /\ a \in Answer \ {"none"}
      /\ outbox' \in [DOMAIN outbox -> OutboxItem]
      /\ outbox'[n].status = StatusAfter(a) /\ outbox'[n].error = (a # "ok")
      /\ \A m \in DOMAIN outbox : m # n => outbox'[m] = outbox[m]
      /\ drain'.step = "recount" /\ accepted' = accepted
  BY <1>1, <1>2, RecordedFacts
<1>4. n \in DOMAIN outbox /\ QueueType /\ (a = "ok" => n \in accepted)
  BY <1>1, <1>2, <1>3, AtItemOpen DEF BusySteps, InFlightSteps, QueueSound
<1>5. n \in 1 .. MaxItems /\ DOMAIN outbox' = DOMAIN outbox
  BY <1>3, <1>4, NumbersFit
<1>6. /\ \A m : InFlight(m) <=> m = n
      /\ \A m : ~InFlight(m)'
  BY <1>1, <1>3 DEF InFlight, InFlightSteps
<1>7. Fates[n] = "sent"
  BY <1>4, <1>5, <1>6, FatesKnown DEF Fates, FateIs
<1>8. ASSUME NEW m \in 1 .. MaxItems, m # n
      PROVE  Fate(m)' = Fate(m)
  BY <1>3, <1>5, <1>6, <1>8, SameFate
<1>9. ASSUME NEW f, Fate(n)' = f
      PROVE  Fates' = [Fates EXCEPT ![n] = f]
  BY <1>5, <1>8, <1>9 DEF Fates
<1>10. CASE a = "ok"
  <2>1. Fate(n)' = "delivered"
    <3>1. outbox'[n].status = "SYNCED"
      BY <1>3, <1>10 DEF StatusAfter
    <3> QED BY <3>1, <1>4, <1>5, <1>6, FatesKnownNext DEF FateIs
  <2>2. Marks' = Marks \ {n}
    BY <1>3, <1>4, <1>5, <1>10 DEF Marks
  <2>3. Delivery!Deliver(n)
    BY <2>1, <2>2, <1>3, <1>4, <1>7, <1>9, <1>10 DEF Delivery!Deliver, Fates, Marks
  <2> QED BY <2>3, <1>5 DEF Delivery!Next, Delivery!Number
<1>11. CASE a # "ok"
  <2>1. Fate(n)' \in {"queued", "held"}
    <3>1. outbox'[n].status \in {"CONFLICT", "FAILED", "PENDING"}
      BY <1>3, <1>11 DEF StatusAfter, Answer
    <3> QED BY <3>1, <1>4, <1>5, <1>6, FatesKnownNext DEF FateIs
  <2>2. Marks' = Marks \cup {n}
    BY <1>3, <1>4, <1>5, <1>11 DEF Marks
  <2>3. Delivery!Fail(n)
    BY <2>1, <2>2, <1>3, <1>7, <1>9 DEF Delivery!Fail, Fates, Marks
  <2> QED BY <2>3, <1>5 DEF Delivery!Next, Delivery!Number
<1> QED BY <1>10, <1>11

(* Every item in trouble is dropped, but for one the drain is at.          *)
LEMMA MapsClear ==
    ASSUME QueueSound, ClearConflicts
    PROVE  Delivery!Next \/ UNCHANGED Delivery!vars
<1> QueueType /\ ErrorsRecorded
  BY DEF QueueSound
<1>1. /\ outbox' \in [DOMAIN outbox -> OutboxItem]
      /\ drain' = drain /\ accepted' = accepted
      /\ \A n \in DOMAIN outbox :
            /\ outbox'[n].error = outbox[n].error
            /\ outbox'[n].status = IF Clearable(outbox[n]) THEN "GONE" ELSE outbox[n].status
            /\ Clearable(outbox[n]) => outbox[n].error
  BY Cleared
<1>2. DOMAIN outbox' = DOMAIN outbox /\ DOMAIN outbox \subseteq 1 .. MaxItems
  BY <1>1, NumbersFit
<1>3. \A m : InFlight(m)' <=> InFlight(m)
  BY <1>1 DEF InFlight
<1>4. PICK S : S = {n \in DOMAIN outbox : Clearable(outbox[n]) /\ ~InFlight(n)}
  OBVIOUS
<1>5. \A n \in S : Fates[n] \in {"queued", "held"} /\ n \in Marks
  <2> TAKE n \in S
  <2>1. n \in DOMAIN outbox /\ Clearable(outbox[n]) /\ ~InFlight(n) /\ outbox[n].error
    BY <1>1, <1>4
  <2>2. outbox[n].status \in {"PENDING", "CONFLICT", "FAILED"}
    BY <2>1, NumbersFit DEF Clearable, ErrorsRecorded, OutboxStatus
  <2> QED BY <2>1, <2>2, <1>2, FatesKnown DEF Fates, FateIs, Marks
<1>6. \A n \in S : Fate(n)' = "dropped"
  BY <1>1, <1>2, <1>3, <1>4, FatesKnownNext DEF FateIs
<1>7. ASSUME NEW n \in 1 .. MaxItems, n \notin S
      PROVE  Fate(n)' = Fate(n)
  <2>1. CASE n \notin DOMAIN outbox
    BY <2>1, <1>2 DEF Fate
  <2>2. CASE n \in DOMAIN outbox /\ InFlight(n)
    BY <2>2, <1>2, <1>3 DEF Fate
  <2>3. CASE n \in DOMAIN outbox /\ ~Clearable(outbox[n])
    BY <2>3, <1>1, <1>2, <1>3, SameFate
  <2> QED BY <2>1, <2>2, <2>3, <1>4, <1>7
<1>8. Marks' = Marks
  BY <1>1, <1>2 DEF Marks
<1>9. CASE S = {}
  <2>1. Fates' = Fates
    BY <1>7, <1>9 DEF Fates
  <2> QED BY <2>1, <1>1, <1>8 DEF Delivery!vars, Fates, Marks
<1>10. CASE S # {}
  <2>1. Fates' = [n \in 1 .. MaxItems |-> IF n \in S THEN "dropped" ELSE Fates[n]]
    BY <1>6, <1>7 DEF Fates
  <2>2. Delivery!Drop(S)
    BY <2>1, <1>1, <1>5, <1>8, <1>10 DEF Delivery!Drop, Delivery!Number, Fates, Marks
  <2>3. S \in SUBSET (1 .. MaxItems)
    BY <1>2, <1>4
  <2> QED BY <2>2, <2>3 DEF Delivery!Next, Delivery!Number
<1> QED BY <1>9, <1>10

(* Steps at which the drain stays at its item, or is at none.              *)
LEMMA StaysUnseen ==
    ASSUME QueueType, UNCHANGED <<outbox, accepted>>,
           \/ drain' = drain
           \/ drain.step \notin InFlightSteps /\ drain'.step \notin InFlightSteps
           \/ /\ drain.step \in InFlightSteps /\ drain'.step \in InFlightSteps
              /\ drain'.number = drain.number
    PROVE  UNCHANGED Delivery!vars
<1>1. \A n : InFlight(n)' <=> InFlight(n)
  BY DEF InFlight
<1> QED BY <1>1, Unseen

LEMMA MapsNext ==
    ASSUME DrainInvariant, [Next]_vars
    PROVE  Delivery!Next \/ UNCHANGED Delivery!vars
<1>1. FormType /\ QueueSound /\ QueueType
  BY InvariantParts DEF QueueSound
<1>2. CASE UNCHANGED vars
  BY <1>1, <1>2, StaysUnseen DEF vars, syncVars, serverVars
<1>3. CASE AroundDrain \/ RunEffect
  BY <1>1, <1>3, AroundDrainFrame, StaysUnseen
<1>4. CASE StartDrain
  <2>1. drain.step \notin InFlightSteps /\ drain'.step \notin InFlightSteps
    BY <1>1, <1>4, StartFacts DEF NoDrain, InFlightSteps
  <2> QED BY <1>1, <1>4, <2>1, StartFacts, StaysUnseen
<1>5. CASE ListPending
  <2>1. drain.step = "list" /\ drain'.step = "scan" /\ UNCHANGED <<outbox, accepted>>
    <3>1. drain.step = "list" /\ UNCHANGED <<outbox, accepted>>
      BY <1>5 DEF ListPending, serverVars
    <3>2. drain \in DrainState(DOMAIN outbox)
      BY <1>1, <3>1, DrainOpen DEF DrainStep
    <3>3. drain'.step = "scan"
      BY <1>5, <3>2 DEF ListPending, DrainState
    <3> QED BY <3>1, <3>3
  <2> QED BY <1>1, <2>1, StaysUnseen DEF InFlightSteps
<1>6. CASE UpdateRows
  BY <1>1, <1>6, RowsStep, StaysUnseen DEF InFlightSteps
<1>7. CASE FindDependents
  BY <1>1, <1>7, FindStep, StaysUnseen
<1>8. CASE RehydrateCount
  BY <1>1, <1>8, RecountKeeps, StaysUnseen DEF InFlightSteps
<1>9. CASE EndDrain
  BY <1>1, <1>9, EndKeeps, StaysUnseen DEF InFlightSteps, NoDrain
<1>10. CASE TakeItem \/ HoldItem \/ GetAnswer \/ PutDependents \/ RecordAnswer
  BY <1>1, <1>10, MapsTake, MapsHold, MapsAnswer, MapsPuts, MapsRecord
<1>11. CASE SaveAndEnqueue \/ ClearConflicts
  BY <1>1, <1>11, MapsEnqueue, MapsClear
<1> QED BY <1>2, <1>3, <1>4, <1>5, <1>6, <1>7, <1>8, <1>9, <1>10, <1>11, StepsOfNext
        DEF ProcessQueue

(* The outbox implements the abstract queue, for any reports, serials and  *)
(* numbers of runs, items and faults: it sends one change at a time, marks *)
(* SYNCED only what the server made and never sends that again, holds back *)
(* and drops only what met trouble.                                        *)
THEOREM OutboxKeepsDelivery == Spec => KeepsDelivery
<1>1. Init => Delivery!Init
  BY MapsInit
<1>2. DrainInvariant /\ [Next]_vars => [Delivery!Next]_Delivery!vars
  BY MapsNext
<1> QED BY <1>1, <1>2, DrainIsSound, PTL DEF Spec, KeepsDelivery, Delivery!Spec
----------------------------------------------------------------------------
(* The drain is FIFO for each entity. Two items of one entity may come to  *)
(* name it by a temporary id and by the server's, so the order rests on    *)
(* where ids come from.                                                    *)

AtHand(n) == drain.step \in {"hold"} \cup InFlightSteps /\ drain.number = n

(* Every temporary id was made by one change, and nothing names it that is *)
(* older: neither an item, nor a row, nor the form, nor what is at hand.   *)
ItemsMade ==
    \A e \in Entity :
        /\ \A c, d \in DOMAIN outbox : Makes(outbox[c], e) /\ Makes(outbox[d], e) => c = d
        /\ \A n \in DOMAIN outbox :
              /\ Names(outbox[n], e) => \E c \in 1 .. n : Makes(outbox[c], e)
              /\ AtHand(n) /\ Names(drain.item, e) => \E c \in 1 .. n : Makes(outbox[c], e)

RowsMade ==
    \A e \in Entity :
        /\ rows[Local(e)] # NoId => Made(e)
        /\ \A id \in Id : rows[id] = Local(e) => Made(e)

FormMade ==
    form # NoForm =>
        \A e \in Entity :
            /\ Local(e) \in {form.id, form.parent} =>
                  Made(e) \/ (form.op = "createReport" /\ form.id = Local(e))
            /\ form.op = "createReport" /\ form.id[1] = e => ~Made(e)
            /\ form.op = "createSerials" /\ form.serial = e => ~Made(e)

HandFits ==
    \A n \in DOMAIN outbox : AtHand(n) =>
        /\ SameOrigin(drain.item, outbox[n])
        /\ drain.step = "puts" => \A m \in drain.waiting : n <= m

(* A pending item the drain will not take any more, and that is older than *)
(* something it has yet to deal with, was tried in this drain and failed:  *)
(* its entity is skipped, under the id it has now.                         *)
Overtaken(n) ==
    /\ outbox[n].status = "PENDING" \/ (drain.step = "puts" /\ n \in drain.waiting)
    /\ ~AtHand(n)
    /\ \A i \in DOMAIN drain.todo : drain.todo[i] # n
    /\ \/ \E i \in DOMAIN drain.todo : n < drain.todo[i]
       \/ \E m \in DOMAIN outbox : n < m /\ AtHand(m)

Skipped(n) ==
    /\ outbox[n].entity \in drain.skip
    /\ \A i \in DOMAIN drain.todo : n < drain.todo[i]
    /\ \A m \in DOMAIN outbox : AtHand(m) => n < m

SkipsOvertaken ==
    drain # NoDrain /\ drain.step # "list" =>
        \A n \in DOMAIN outbox : Overtaken(n) => Skipped(n)

IdsMade == ItemsMade /\ RowsMade /\ FormMade

(* The inductive invariant behind DispatchInOrder.                         *)
OrderInvariant == IdsMade /\ HandFits /\ SkipsOvertaken

LEMMA OrderParts == OrderInvariant <=> IdsMade /\ HandFits /\ SkipsOvertaken
  BY DEF OrderInvariant

----------------------------------------------------------------------------
(* Ids and items.                                                          *)

LEMMA LocalOnce ==
    ASSUME NEW d \in Entity, NEW e \in Entity
    PROVE  /\ Local(d) = Local(e) => d = e
           /\ Local(d) # Server(e) /\ Local(d) # NoId /\ Local(d) \in Id
BY NoIdAssumption, ServerIds DEF Local, Server

(* Only what names an entity is remapped when the entity is made.          *)
LEMMA RemapsNamed ==
    ASSUME NEW m \in OutboxItem, NEW created \in OutboxItem,
           Remapped(m, created) # m
    PROVE  \E e \in Entity : Makes(created, e) /\ Names(m, e)
<1>1. PICK e \in Entity : e = created.entity[1]
  BY ItemFields, EntityOfId
<1>2. CASE created.op = "createReport"
  <2>1. Names(m, e)
    BY <1>1, <1>2 DEF Remapped, Names
  <2> QED BY <2>1, <1>1, <1>2 DEF Makes
<1>3. CASE created.op = "createSerials"
  <2>1. m.entity = Local(created.serial)
    BY <1>3 DEF Remapped
  <2>2. created.serial \in Entity
    <3>1. m.entity \in Id /\ m.entity[1] = created.serial
      BY <2>1, ItemFields DEF Local
    <3> QED BY <3>1, EntityOfId
  <2> QED BY <2>1, <2>2, <1>3 DEF Makes, Names
<1>4. CASE created.op \notin {"createReport", "createSerials"}
  BY <1>4 DEF Remapped
<1> QED BY <1>2, <1>3, <1>4

LEMMA AtHandIs ==
    ASSUME NEW n
    PROVE  AtHand(n) <=> drain.step \in BusySteps /\ drain.number = n
BY DEF AtHand, BusySteps

LEMMA AtHandIsNext ==
    ASSUME NEW n
    PROVE  AtHand(n)' <=> drain'.step \in BusySteps /\ drain'.number = n
BY DEF AtHand, BusySteps

(* Steps that rewrite items in place and leave the form and the rows.      *)
NamesKept ==
    /\ DOMAIN outbox' = DOMAIN outbox
    /\ \A n \in DOMAIN outbox :
          /\ SameOrigin(outbox'[n], outbox[n])
          /\ \A e \in Entity : Names(outbox'[n], e) =>
                Names(outbox[n], e) \/ (AtHand(n) /\ Names(drain.item, e))
          /\ AtHand(n)' => drain'.item = outbox[n] \/ (AtHand(n) /\ drain'.item = drain.item)

LEMMA SameItems ==
    ASSUME UNCHANGED outbox,
           \A n \in DOMAIN outbox : AtHand(n)' =>
               drain'.item = outbox[n] \/ (AtHand(n) /\ drain'.item = drain.item)
    PROVE  NamesKept
BY DEF NamesKept, SameOrigin

LEMMA MadeKept ==
    ASSUME NamesKept, NEW e
    PROVE  /\ \A n \in DOMAIN outbox : Makes(outbox'[n], e) <=> Makes(outbox[n], e)
           /\ Made(e)' <=> Made(e)
<1>1. \A n \in DOMAIN outbox : Makes(outbox'[n], e) <=> Makes(outbox[n], e)
  BY SameMade DEF NamesKept
<1> QED BY <1>1 DEF Made, NamesKept

LEMMA ItemsKept ==
    ASSUME QueueType, ItemsMade, NamesKept
    PROVE  ItemsMade'
<1>0. DOMAIN outbox' = DOMAIN outbox
  BY DEF NamesKept
<1>1. ASSUME NEW e \in Entity, NEW n \in DOMAIN outbox, NEW c \in 1 .. n, Makes(outbox[c], e)
      PROVE  \E d \in 1 .. n : Makes(outbox'[d], e)
  <2>1. c \in DOMAIN outbox
    BY OutboxIsFunction DEF QueueType
  <2> QED BY <1>1, <2>1, MadeKept
<1>2. ASSUME NEW e \in Entity, NEW n \in DOMAIN outbox,
             Names(outbox[n], e) \/ (AtHand(n) /\ Names(drain.item, e))
      PROVE  \E c \in 1 .. n : Makes(outbox'[c], e)
  <2>1. PICK c \in 1 .. n : Makes(outbox[c], e)
    BY <1>2 DEF ItemsMade
  <2> QED BY <2>1, <1>1
<1>3. ASSUME NEW e \in Entity, NEW c \in DOMAIN outbox, NEW d \in DOMAIN outbox,
             Makes(outbox'[c], e), Makes(outbox'[d], e)
      PROVE  c = d
  BY <1>3, MadeKept DEF ItemsMade
<1>4. ASSUME NEW e \in Entity, NEW n \in DOMAIN outbox, Names(outbox'[n], e)
      PROVE  \E c \in 1 .. n : Makes(outbox'[c], e)
  BY <1>2, <1>4 DEF NamesKept
<1>5. ASSUME NEW e \in Entity, NEW n \in DOMAIN outbox, AtHand(n)', Names(drain'.item, e)
      PROVE  \E c \in 1 .. n : Makes(outbox'[c], e)
  BY <1>2, <1>5 DEF NamesKept
<1> QED BY <1>0, <1>3, <1>4, <1>5 DEF ItemsMade

LEMMA IdsKept ==
    ASSUME QueueType, IdsMade, NamesKept, UNCHANGED formVars
    PROVE  IdsMade'
<1>1. ItemsMade'
  BY ItemsKept DEF IdsMade
<1>2. RowsMade' /\ FormMade'
  BY MadeKept DEF IdsMade, RowsMade, FormMade, formVars
<1> QED BY <1>1, <1>2 DEF IdsMade

LEMMA HandKept ==
    ASSUME HandFits, NamesKept,
           \A n \in DOMAIN outbox : AtHand(n)' /\ drain'.step = "puts" =>
               \A m \in drain'.waiting : n <= m
    PROVE  HandFits'
<1> SUFFICES ASSUME NEW n \in DOMAIN outbox, AtHand(n)'
             PROVE  SameOrigin(drain'.item, outbox'[n])
  BY DEF HandFits, NamesKept
<1>1. SameOrigin(outbox'[n], outbox[n])
  BY DEF NamesKept
<1>2. drain'.item = outbox[n] \/ SameOrigin(drain'.item, outbox[n])
  BY DEF NamesKept, HandFits
<1> QED BY <1>1, <1>2 DEF SameOrigin

(* What was overtaken and skipped stays so.                                *)
LEMMA OvertakenKept ==
    ASSUME SkipsOvertaken, drain # NoDrain, drain.step # "list",
           drain'.todo = drain.todo, drain.skip \subseteq drain'.skip,
           \A n \in DOMAIN outbox' : Overtaken(n)' =>
               /\ n \in DOMAIN outbox /\ Overtaken(n)
               /\ outbox'[n].entity = outbox[n].entity,
           \A n \in DOMAIN outbox' : AtHand(n)' => n \in DOMAIN outbox /\ AtHand(n)
    PROVE  SkipsOvertaken'
BY DEF SkipsOvertaken, Skipped

----------------------------------------------------------------------------
(* The drain's own steps.                                                  *)

OrderSound == HandFits /\ SkipsOvertaken

(* At the same item as before, or at none as before.                       *)
LEMMA StillOrdered ==
    ASSUME QueueSound, IdsMade, OrderSound, UNCHANGED outbox, drain # NoDrain,
           drain.step \notin {"list", "puts"},
           \/ drain.step \in BusySteps /\ drain'.step \in BusySteps
           \/ drain.step \notin BusySteps /\ drain'.step \notin BusySteps,
           drain'.step \in BusySteps => drain'.number = drain.number /\ drain'.item = drain.item,
           drain'.step = "puts" =>
               \A m \in drain'.waiting : drain.number <= m /\ outbox[m].status = "PENDING",
           drain'.skip = drain.skip, drain'.todo = drain.todo
    PROVE  ItemsMade' /\ NamesKept /\ OrderSound'
<1>1. \A n : AtHand(n)' <=> AtHand(n)
  BY AtHandIs, AtHandIsNext
<1>2. NamesKept
  BY <1>1, SameItems, AtHandIsNext
<1>3. ItemsMade' /\ HandFits'
  BY <1>1, <1>2, ItemsKept, HandKept, AtHandIs DEF QueueSound, OrderSound, IdsMade
<1>4. SkipsOvertaken'
  <2>1. ASSUME NEW n \in DOMAIN outbox', Overtaken(n)'
        PROVE  Overtaken(n)
    BY <1>1, <2>1 DEF Overtaken
  <2> QED BY <1>1, <2>1, OvertakenKept DEF OrderSound
<1> QED BY <1>2, <1>3, <1>4 DEF OrderSound

LEMMA ListOrdered ==
    ASSUME QueueSound, IdsMade, OrderSound, ListPending
    PROVE  (IdsMade /\ OrderSound)'
<1> QueueType
  BY DEF QueueSound
<1>1. PICK q \in PendingItems : drain' = [drain EXCEPT !.step = "scan", !.todo = q]
  BY DEF ListPending
<1>2. drain.step = "list" /\ UNCHANGED <<outbox, formVars>>
  BY DEF ListPending
<1>3. drain \in DrainState(DOMAIN outbox)
  BY <1>2, DrainOpen DEF DrainStep
<1>4. drain'.step = "scan" /\ drain'.todo = q
  BY <1>1, <1>3 DEF DrainState
<1>5. \A n : ~AtHand(n)'
  BY <1>4, AtHandIsNext DEF BusySteps, InFlightSteps
<1>6. NamesKept
  BY <1>2, <1>5, SameItems
<1>7. IdsMade' /\ HandFits'
  BY <1>2, <1>4, <1>6, IdsKept, HandKept DEF OrderSound
<1>8. ASSUME NEW n \in DOMAIN outbox
      PROVE  ~Overtaken(n)'
  <2>1. outbox[n].status = "PENDING" => \E i \in DOMAIN q : q[i] = n
    BY ListingFacts DEF WithStatus
  <2> QED BY <2>1, <1>2, <1>4 DEF Overtaken
<1> QED BY <1>2, <1>7, <1>8 DEF OrderSound, SkipsOvertaken

LEMMA TailFacts ==
    ASSUME NEW S, NEW q \in Seq(S), q # << >>
    PROVE  /\ 1 \in DOMAIN q
           /\ \A i \in DOMAIN Tail(q) : \E j \in DOMAIN q : 1 < j /\ Tail(q)[i] = q[j]
           /\ \A j \in DOMAIN q : j = 1 \/ \E i \in DOMAIN Tail(q) : Tail(q)[i] = q[j]
<1>1. DOMAIN q = 1 .. Len(q) /\ Len(q) \in Nat /\ Len(q) # 0
  BY LenProperties, EmptySeq
<1>2. /\ Tail(q) \in Seq(S) /\ Len(Tail(q)) = Len(q) - 1
      /\ \A i \in 1 .. Len(Tail(q)) : Tail(q)[i] = q[i + 1]
  BY HeadTailProperties
<1>3. DOMAIN Tail(q) = 1 .. Len(q) - 1
  BY <1>2, LenProperties
<1>4. ASSUME NEW i \in DOMAIN Tail(q)
      PROVE  \E j \in DOMAIN q : 1 < j /\ Tail(q)[i] = q[j]
  <2>1. i + 1 \in DOMAIN q /\ 1 < i + 1 /\ Tail(q)[i] = q[i + 1]
    BY <1>1, <1>2, <1>3
  <2> QED BY <2>1
<1>5. ASSUME NEW j \in DOMAIN q, j # 1
      PROVE  \E i \in DOMAIN Tail(q) : Tail(q)[i] = q[j]
  <2>1. j - 1 \in DOMAIN Tail(q) /\ Tail(q)[j - 1] = q[(j - 1) + 1] /\ (j - 1) + 1 = j
    BY <1>1, <1>2, <1>3, <1>5
  <2> QED BY <2>1
<1> QED BY <1>1, <1>4, <1>5

(* What is taken is older than all that is left.                           *)
LEMMA TakeOrdered ==
    ASSUME QueueSound, IdsMade, OrderSound, TakeItem
    PROVE  (IdsMade /\ OrderSound)'
<1> QueueType
  BY DEF QueueSound
<1>1. PICK n : n = Head(drain.todo)
  OBVIOUS
<1>2. /\ drain.step = "scan" /\ drain.todo # << >>
      /\ drain \in DrainState(DOMAIN outbox) /\ drain # NoDrain
      /\ n \in DOMAIN outbox /\ n = drain.todo[1]
      /\ drain'.skip = drain.skip /\ drain'.todo = Tail(drain.todo)
      /\ \/ outbox[n].status # "PENDING" /\ drain'.step = "scan"
         \/ /\ drain'.step \in {"hold", "sent"}
            /\ drain'.number = n /\ drain'.item = outbox[n]
  BY <1>1, TakeFacts, DrainFields
<1>3. UNCHANGED <<outbox, formVars>>
  BY DEF TakeItem
<1>4. \A m : ~AtHand(m) /\ (AtHand(m)' <=> m = n /\ drain'.step # "scan")
  BY <1>2, AtHandIs, AtHandIsNext DEF BusySteps, InFlightSteps
<1>5. NamesKept
  BY <1>2, <1>3, <1>4, SameItems
<1>6. IdsMade' /\ HandFits'
  BY <1>2, <1>3, <1>5, IdsKept, HandKept DEF OrderSound
<1>7. drain.todo \in Seq(DOMAIN outbox)
  BY <1>2, DrainFields
<1>8. \A i \in DOMAIN drain'.todo : \E j \in DOMAIN drain.todo :
         1 < j /\ drain'.todo[i] = drain.todo[j]
  BY <1>2, <1>7, TailFacts
<1>9. ASSUME NEW m \in DOMAIN outbox, Overtaken(m)'
      PROVE  Skipped(m)'
  <2>1. /\ outbox[m].status = "PENDING" /\ m # n
        /\ \A i \in DOMAIN drain'.todo : drain'.todo[i] # m
        /\ (\E i \in DOMAIN drain'.todo : m < drain'.todo[i]) \/ m < n
    BY <1>2, <1>3, <1>4, <1>9 DEF Overtaken
  <2>2. \A j \in DOMAIN drain.todo : drain.todo[j] # m
    <3> TAKE j \in DOMAIN drain.todo
    <3>1. j = 1 \/ \E i \in DOMAIN drain'.todo : drain'.todo[i] = drain.todo[j]
      BY <1>2, <1>7, TailFacts
    <3> QED BY <3>1, <2>1, <1>2
  <2>3. \E j \in DOMAIN drain.todo : m < drain.todo[j]
    BY <2>1, <1>2, <1>7, <1>8, TailFacts
  <2>4. Overtaken(m)
    BY <2>1, <2>2, <2>3, <1>4 DEF Overtaken
  <2>5. outbox[m].entity \in drain.skip /\ \A j \in DOMAIN drain.todo : m < drain.todo[j]
    BY <2>4, <1>2 DEF OrderSound, SkipsOvertaken, Skipped
  <2>6. m < n
    BY <2>5, <1>2, <1>7, TailFacts
  <2> QED BY <2>5, <2>6, <1>2, <1>3, <1>4, <1>8 DEF Skipped
<1> QED BY <1>3, <1>6, <1>9 DEF OrderSound, SkipsOvertaken

(* An item put back: what it leaves overtaken is itself or was before.     *)
LEMMA BackOrdered ==
    ASSUME QueueSound, IdsMade, OrderSound, UNCHANGED formVars, drain.step \in BusySteps,
           drain.step # "puts",
           outbox' \in [DOMAIN outbox -> OutboxItem],
           SameNames(outbox'[drain.number], drain.item),
           \A n \in DOMAIN outbox : n # drain.number => outbox'[n] = outbox[n],
           drain'.step = "recount", drain'.todo = drain.todo, drain.skip \subseteq drain'.skip,
           outbox'[drain.number].status = "PENDING" => drain.item.entity \in drain'.skip
    PROVE  (IdsMade /\ OrderSound)'
<1>1. PICK n : n = drain.number
  OBVIOUS
<1>2. /\ n \in DOMAIN outbox /\ drain # NoDrain /\ drain.step # "list"
      /\ \A i \in DOMAIN drain.todo : n < drain.todo[i]
  BY <1>1, AtItemOpen DEF BusySteps, InFlightSteps
<1>3. \A m : ~AtHand(m)' /\ (AtHand(m) <=> m = n)
  BY <1>1, AtHandIs, AtHandIsNext DEF BusySteps, InFlightSteps
<1>4. NamesKept
  <2>1. SameOrigin(outbox'[n], outbox[n])
    <3>1. SameOrigin(drain.item, outbox[n])
      BY <1>2, <1>3 DEF OrderSound, HandFits
    <3>2. SameOrigin(outbox'[n], drain.item)
      BY <1>1, SameMade
    <3> QED BY <3>1, <3>2 DEF SameOrigin
  <2>2. \A e : Names(outbox'[n], e) => Names(drain.item, e)
    BY <1>1, SameMade
  <2>3. \A m \in DOMAIN outbox : m # n => SameOrigin(outbox'[m], outbox[m])
    BY <1>1 DEF SameOrigin
  <2> QED BY <2>1, <2>2, <2>3, <1>1, <1>3 DEF NamesKept
<1>5. IdsMade' /\ HandFits'
  BY <1>3, <1>4, IdsKept, HandKept DEF QueueSound, OrderSound
<1>6. ASSUME NEW m \in DOMAIN outbox, Overtaken(m)'
      PROVE  Skipped(m)'
  <2>1. /\ outbox'[m].status = "PENDING"
        /\ \A i \in DOMAIN drain.todo : drain.todo[i] # m
        /\ \E i \in DOMAIN drain.todo : m < drain.todo[i]
    BY <1>3, <1>6 DEF Overtaken
  <2>2. CASE m = n
    BY <2>1, <2>2, <1>1, <1>2, <1>3 DEF Skipped, SameNames
  <2>3. CASE m # n
    <3>1. outbox'[m] = outbox[m]
      BY <2>3, <1>1
    <3>2. Overtaken(m)
      BY <2>1, <2>3, <3>1, <1>3 DEF Overtaken
    <3>3. outbox[m].entity \in drain.skip /\ \A j \in DOMAIN drain.todo : m < drain.todo[j]
      BY <3>2, <1>2 DEF OrderSound, SkipsOvertaken, Skipped
    <3> QED BY <3>1, <3>3, <1>3 DEF Skipped
  <2> QED BY <2>2, <2>3
<1> QED BY <1>5, <1>6 DEF OrderSound, SkipsOvertaken, NamesKept

LEMMA HoldOrdered ==
    ASSUME QueueSound, IdsMade, OrderSound, HoldItem
    PROVE  (IdsMade /\ OrderSound)'
<1>1. /\ drain.step = "hold"
      /\ outbox' \in [DOMAIN outbox -> OutboxItem]
      /\ outbox'[drain.number].status = "CONFLICT"
      /\ \A n \in DOMAIN outbox : n # drain.number => outbox'[n] = outbox[n]
      /\ drain'.step = "recount" /\ drain'.skip = drain.skip /\ drain'.todo = drain.todo
      /\ SameNames(outbox'[drain.number], drain.item)
  BY HoldFacts
<1>2. UNCHANGED formVars
  BY DEF HoldItem, PutBack
<1> QED BY <1>1, <1>2, BackOrdered DEF BusySteps

(* An item that goes back to pending makes its entity skipped.             *)
LEMMA RecordOrdered ==
    ASSUME QueueSound, IdsMade, OrderSound, RecordAnswer
    PROVE  (IdsMade /\ OrderSound)'
<1>1. /\ drain.step = "record" /\ drain.answer \in Answer \ {"none"}
      /\ outbox' \in [DOMAIN outbox -> OutboxItem]
      /\ outbox'[drain.number].status = StatusAfter(drain.answer)
      /\ \A n \in DOMAIN outbox : n # drain.number => outbox'[n] = outbox[n]
      /\ drain'.step = "recount"
      /\ drain'.skip = SkipAfter(drain.answer) /\ drain'.todo = drain.todo
      /\ SameNames(outbox'[drain.number], drain.item)
  BY RecordedFacts
<1>2. UNCHANGED formVars
  BY DEF RecordAnswer, PutBack
<1>3. drain.skip \subseteq SkipAfter(drain.answer)
  BY DEF SkipAfter
<1>4. StatusAfter(drain.answer) = "PENDING" => drain.item.entity \in SkipAfter(drain.answer)
  BY <1>1 DEF StatusAfter, SkipAfter, Answer
<1>5. drain.step \in BusySteps /\ drain.step # "puts"
  BY <1>1 DEF BusySteps, InFlightSteps
<1> QED BY <1>1, <1>2, <1>3, <1>4, <1>5, BackOrdered

LEMMA AnswerOrdered ==
    ASSUME QueueSound, IdsMade, OrderSound, GetAnswer
    PROVE  (IdsMade /\ OrderSound)'
<1>1. /\ drain.step = "sent" /\ drain.step \in BusySteps /\ UNCHANGED outbox
      /\ drain'.number = drain.number /\ drain'.item = drain.item
      /\ drain'.skip = drain.skip /\ drain'.todo = drain.todo
      /\ drain'.step \in {"rows", "record"} /\ drain'.step \in BusySteps
  BY AnswerFacts DEF BusySteps, InFlightSteps
<1>2. drain # NoDrain
  BY <1>1, AtItemOpen
<1>3. UNCHANGED formVars
  BY DEF GetAnswer
<1> QED BY <1>1, <1>2, <1>3, StillOrdered, IdsKept DEF QueueSound

(* Rows take only ids that the item at hand names.                         *)
LEMMA RowsOrdered ==
    ASSUME FormType, QueueSound, IdsMade, OrderSound, UpdateRows
    PROVE  (IdsMade /\ OrderSound)'
<1>1. /\ drain.step = "rows" /\ drain.step \in BusySteps /\ UNCHANGED <<outbox, form>>
      /\ drain'.number = drain.number /\ drain'.item = drain.item
      /\ drain'.skip = drain.skip /\ drain'.todo = drain.todo
      /\ drain'.step = "items" /\ drain'.step \in BusySteps
  BY RowsStep DEF UpdateRows, BusySteps, InFlightSteps
<1>2. drain # NoDrain /\ drain.item \in OutboxItem /\ drain.number \in DOMAIN outbox
  BY <1>1, AtItemOpen
<1>3. ItemsMade' /\ OrderSound' /\ NamesKept
  BY <1>1, <1>2, StillOrdered
<1>4. \A x \in Entity : Made(x)' <=> Made(x)
  BY <1>3, MadeKept
<1>5. FormMade'
  BY <1>1, <1>4 DEF FormMade, IdsMade
<1>6. \A x \in Entity : Names(drain.item, x) => Made(x)
  <2> SUFFICES ASSUME NEW x \in Entity, Names(drain.item, x)
               PROVE  Made(x)
    OBVIOUS
  <2>1. PICK n \in DOMAIN outbox : n = drain.number
    BY <1>2
  <2>2. AtHand(n)
    BY <1>1, <2>1, AtHandIs
  <2>3. PICK c \in 1 .. n : Makes(outbox[c], x)
    BY <2>2 DEF IdsMade, ItemsMade
  <2>4. c \in DOMAIN outbox
    BY OutboxIsFunction DEF QueueSound, QueueType
  <2> QED BY <2>3, <2>4 DEF Made
<1>7. ASSUME NEW x \in Entity
      PROVE  /\ rows'[Local(x)] # NoId => rows[Local(x)] # NoId \/ Names(drain.item, x)
             /\ \A id \in Id : rows'[id] = Local(x) =>
                   rows[id] = Local(x) \/ Names(drain.item, x)
  <2>1. PICK i \in OutboxItem : i = drain.item
    BY <1>2
  <2>2. PICK e \in Entity : e = i.entity[1]
    BY ItemFields, EntityOfId
  <2>3. rows \in [Id -> Id \cup {NoId}] /\ Local(x) \in Id
    BY ServerIds DEF FormType
  <2>4. CASE i.op = "createReport"
    <3>1. rows' = [id \in Id |->
                      IF id = Local(e) THEN NoId
                      ELSE IF id = Server(e)
                      THEN IF rows[Local(e)] # NoId THEN id ELSE rows[id]
                      ELSE IF rows[id] = Local(e) THEN Server(e) ELSE rows[id]]
      BY <2>1, <2>2, <2>4 DEF UpdateRows
    <3>2. Local(x) # Server(e) /\ Local(x) # NoId /\ Local(e) # NoId
      BY LocalOnce
    <3> QED BY <2>3, <3>1, <3>2
  <2>5. CASE i.op = "createSerials"
    <3>1. \/ rows' = rows
          \/ rows' = [rows EXCEPT ![Local(i.serial)] = NoId, ![Server(i.serial)] = i.parent]
      BY <2>1, <2>5 DEF UpdateRows
    <3>2. Local(x) # Server(i.serial)
      BY DEF Local, Server
    <3>3. Local(x) = i.parent => Names(i, x)
      BY DEF Names
    <3>4. \A id \in Id : rows'[id] \in {rows[id], NoId}
                            \/ (id = Server(i.serial) /\ rows'[id] = i.parent)
      BY <2>3, <3>1
    <3>5. Local(x) # NoId
      BY LocalOnce
    <3> QED BY <2>1, <2>3, <3>2, <3>3, <3>4, <3>5
  <2>6. CASE i.op = "editReport"
    <3>1. rows' = [rows EXCEPT ![i.entity] = i.entity]
      BY <2>1, <2>6 DEF UpdateRows
    <3> QED BY <2>1, <2>3, <3>1 DEF Names
  <2>7. CASE i.op = "editSerial"
    <3>1. PICK r \in Report :
             rows' = [rows EXCEPT ![i.entity] = IF @ = NoId THEN Server(r) ELSE @]
      BY <2>1, <2>7 DEF UpdateRows
    <3>2. Local(x) # Server(r)
      BY DEF Local, Server
    <3>3. \A id \in Id : rows'[id] = rows[id] \/ (id = i.entity /\ rows'[id] = Server(r))
      BY <2>3, <3>1
    <3> QED BY <2>1, <2>3, <3>2, <3>3 DEF Names
  <2>8. CASE i.op = "deleteSerial"
    <3>1. rows' = rows
      BY <2>1, <2>8 DEF UpdateRows
    <3> QED BY <3>1
  <2> QED BY <2>4, <2>5, <2>6, <2>7, <2>8, ItemFields DEF ReportOp, SerialOp
<1>8. RowsMade'
  BY <1>4, <1>6, <1>7 DEF RowsMade, IdsMade
<1> QED BY <1>3, <1>5, <1>8 DEF IdsMade

(* What waits for a new id was queued after the change that made it.       *)
LEMMA FindOrdered ==
    ASSUME QueueSound, IdsMade, OrderSound, FindDependents
    PROVE  (IdsMade /\ OrderSound)'
<1>1. /\ drain.step = "items" /\ drain.step \in BusySteps /\ UNCHANGED outbox
      /\ drain'.number = drain.number /\ drain'.item = drain.item
      /\ drain'.skip = drain.skip /\ drain'.todo = drain.todo
      /\ drain'.step \in BusySteps
      /\ drain'.step = "puts" =>
            drain'.waiting = {n \in WithStatus("PENDING") :
                                 Remapped(outbox[n], drain.item) # outbox[n]}
  BY FindStep DEF BusySteps, InFlightSteps
<1>2. drain # NoDrain /\ drain.item \in OutboxItem
  BY <1>1, AtItemOpen
<1>3. PICK n \in DOMAIN outbox : n = drain.number /\ AtHand(n)
  BY <1>1, AtItemOpen, AtHandIs
<1>4. ASSUME NEW m \in DOMAIN outbox, Remapped(outbox[m], drain.item) # outbox[m]
      PROVE  n <= m
  <2>1. outbox[m] \in OutboxItem
    BY OutboxIsFunction DEF QueueSound, QueueType
  <2>2. PICK e \in Entity : Makes(drain.item, e) /\ Names(outbox[m], e)
    BY <2>1, <1>2, <1>4, RemapsNamed
  <2>3. Makes(outbox[n], e)
    BY <2>2, <1>3, SameMade DEF OrderSound, HandFits
  <2>4. PICK c \in 1 .. m : Makes(outbox[c], e)
    BY <2>2 DEF IdsMade, ItemsMade
  <2>5. c \in DOMAIN outbox /\ m \in Nat
    BY OutboxIsFunction DEF QueueSound, QueueType
  <2>6. c = n
    BY <2>3, <2>4, <2>5 DEF IdsMade, ItemsMade
  <2> QED BY <2>4, <2>5, <2>6
<1>5. drain'.step = "puts" =>
         \A m \in drain'.waiting : drain.number <= m /\ outbox[m].status = "PENDING"
  BY <1>1, <1>3, <1>4 DEF WithStatus
<1>6. UNCHANGED formVars
  BY DEF FindDependents
<1> QED BY <1>1, <1>2, <1>5, <1>6, StillOrdered, IdsKept DEF QueueSound

LEMMA RecountOrdered ==
    ASSUME QueueSound, IdsMade, OrderSound, RehydrateCount
    PROVE  (IdsMade /\ OrderSound)'
<1>1. /\ drain.step = "recount" /\ drain'.step = "scan" /\ UNCHANGED outbox
      /\ drain'.skip = drain.skip /\ drain'.todo = drain.todo
  BY RecountKeeps
<1>2. drain # NoDrain /\ UNCHANGED formVars
  BY <1>1, DrainOpen DEF QueueSound, DrainStep, RehydrateCount
<1>3. {"recount", "scan"} \cap BusySteps = {}
  BY DEF BusySteps, InFlightSteps
<1> QED BY <1>1, <1>2, <1>3, StillOrdered, IdsKept DEF QueueSound

(* What comes back by being put is not older than the item at hand.        *)
LEMMA PutsOrdered ==
    ASSUME QueueSound, IdsMade, OrderSound, PutDependents
    PROVE  (IdsMade /\ OrderSound)'
<1>1. PICK n \in DOMAIN outbox : n = drain.number /\ AtHand(n)
  BY PutsFacts, AtItemOpen, AtHandIs
<1>2. /\ drain.step = "puts" /\ drain # NoDrain /\ DOMAIN outbox' = DOMAIN outbox
      /\ \A m \in DOMAIN outbox :
            /\ m \notin drain.waiting => outbox'[m] = outbox[m]
            /\ SameOrigin(outbox'[m], outbox[m])
            /\ \A e \in Entity : Names(outbox'[m], e) => Names(outbox[m], e)
      /\ drain'.step = "record"
      /\ drain'.number = drain.number /\ drain'.item = drain.item
      /\ drain'.skip = drain.skip /\ drain'.todo = drain.todo
  BY PutsFacts, AtItemOpen
<1>3. \A m : (AtHand(m)' <=> AtHand(m)) /\ (AtHand(m) <=> m = n)
  BY <1>1, <1>2, AtHandIs, AtHandIsNext DEF BusySteps, InFlightSteps
<1>4. NamesKept
  BY <1>2, <1>3 DEF NamesKept
<1>5. UNCHANGED formVars
  BY DEF PutDependents
<1>6. IdsMade' /\ HandFits'
  BY <1>2, <1>4, <1>5, IdsKept, HandKept DEF QueueSound, OrderSound
<1>7. ASSUME NEW m \in DOMAIN outbox, Overtaken(m)'
      PROVE  Overtaken(m) /\ outbox'[m] = outbox[m]
  <2>1. /\ outbox'[m].status = "PENDING" /\ ~AtHand(m)
        /\ \A i \in DOMAIN drain.todo : drain.todo[i] # m
        /\ \/ \E i \in DOMAIN drain.todo : m < drain.todo[i]
           \/ \E k \in DOMAIN outbox : m < k /\ AtHand(k)
    BY <1>2, <1>3, <1>7 DEF Overtaken
  <2>2. Overtaken(m)
    BY <2>1, <1>2 DEF Overtaken
  <2>3. m < n
    BY <2>2, <1>1, <1>2 DEF OrderSound, SkipsOvertaken, Skipped
  <2>4. m \notin drain.waiting
    <3>1. \A k \in drain.waiting : n <= k
      BY <1>1, <1>2 DEF OrderSound, HandFits
    <3>2. n \in Nat /\ m \in Nat
      BY OutboxIsFunction DEF QueueSound, QueueType
    <3> QED BY <3>1, <3>2, <2>3
  <2> QED BY <2>2, <2>4, <1>2
<1>8. SkipsOvertaken'
  BY <1>2, <1>3, <1>7, OvertakenKept DEF OrderSound
<1> QED BY <1>6, <1>8 DEF OrderSound

LEMMA EndOrdered ==
    ASSUME QueueSound, IdsMade, OrderSound, EndDrain
    PROVE  (IdsMade /\ OrderSound)'
<1>1. drain' = NoDrain /\ UNCHANGED <<outbox, formVars>>
  BY EndKeeps DEF EndDrain
<1>2. \A n : ~AtHand(n)'
  BY <1>1, AtHandIsNext DEF NoDrain, BusySteps, InFlightSteps
<1>3. NamesKept
  BY <1>1, <1>2, SameItems
<1>4. IdsMade' /\ HandFits'
  BY <1>1, <1>2, <1>3, IdsKept, HandKept DEF QueueSound, OrderSound
<1> QED BY <1>1, <1>4 DEF OrderSound, SkipsOvertaken

LEMMA StartOrdered ==
    ASSUME QueueSound, IdsMade, OrderSound, StartDrain
    PROVE  (IdsMade /\ OrderSound)'
<1>1. drain'.step = "list" /\ UNCHANGED <<outbox, formVars>>
  BY StartFacts DEF QueueSound, StartDrain, ProbeServer
<1>2. \A n : ~AtHand(n)'
  BY <1>1, AtHandIsNext DEF BusySteps, InFlightSteps
<1>3. NamesKept
  BY <1>1, <1>2, SameItems
<1>4. IdsMade' /\ HandFits'
  BY <1>1, <1>2, <1>3, IdsKept, HandKept DEF QueueSound, OrderSound
<1> QED BY <1>1, <1>4 DEF OrderSound, SkipsOvertaken

----------------------------------------------------------------------------
(* The steps around the drain.                                             *)

LEMMA ClearOrdered ==
    ASSUME QueueSound, IdsMade, OrderSound, ClearConflicts
    PROVE  (IdsMade /\ OrderSound)'
<1> QueueType /\ ErrorsRecorded
  BY DEF QueueSound
<1>1. /\ DOMAIN outbox' = DOMAIN outbox /\ drain' = drain
      /\ \A n \in DOMAIN outbox :
            /\ outbox'[n].status \in {outbox[n].status, "GONE"}
            /\ SameNames(outbox'[n], outbox[n])
  BY Cleared
<1>2. UNCHANGED formVars
  BY DEF ClearConflicts
<1>3. \A n : AtHand(n)' <=> AtHand(n)
  BY <1>1 DEF AtHand
<1>4. NamesKept
  BY <1>1, <1>3, SameMade DEF NamesKept
<1>5. IdsMade' /\ HandFits'
  BY <1>1, <1>2, <1>3, <1>4, IdsKept, HandKept DEF OrderSound, HandFits
<1>6. \A n \in DOMAIN outbox : Overtaken(n)' => Overtaken(n)
  BY <1>1, <1>3 DEF Overtaken
<1>7. SkipsOvertaken'
  <2>1. CASE drain # NoDrain /\ drain.step # "list"
    BY <2>1, <1>1, <1>3, <1>6, OvertakenKept DEF OrderSound, SameNames
  <2>2. CASE drain = NoDrain \/ drain.step = "list"
    BY <2>2, <1>1 DEF SkipsOvertaken
  <2> QED BY <2>1, <2>2
<1> QED BY <1>5, <1>7 DEF OrderSound

LEMMA QueueUntouched ==
    ASSUME ItemsMade, OrderSound, UNCHANGED <<outbox, drain>>
    PROVE  ItemsMade' /\ OrderSound' /\ \A e : Made(e)' <=> Made(e)
BY DEF ItemsMade, OrderSound, HandFits, SkipsOvertaken, Skipped, Overtaken, AtHand, Made

(* A form names only what is made, or makes it.                            *)
LEMMA UserBeginsOrdered ==
    ASSUME FormType, IdsMade, OrderSound, UserBegins
    PROVE  (IdsMade /\ OrderSound)'
<1>1. UNCHANGED <<outbox, rows, drain>>
  BY UserBeginsType DEF BeginsForm, syncVars
<1>2. ItemsMade' /\ OrderSound' /\ \A e : Made(e)' <=> Made(e)
  BY <1>1, QueueUntouched DEF IdsMade
<1>3. RowsMade'
  BY <1>1, <1>2 DEF RowsMade, IdsMade
<1>4. \A e \in Entity, id \in Id : rows[id] # NoId /\ Local(e) \in {id, rows[id]} => Made(e)
  BY DEF IdsMade, RowsMade
<1>5. \A e \in Entity : Fresh(e) => ~Made(e)
  BY DEF Fresh, Made, Makes
<1>6. \A e \in Entity : Local(e) # NoId
  BY LocalOnce
<1>7. FormMade'
  <2>1. ASSUME NEW r \in Report, CreateReport(r)
        PROVE  FormMade'
    <3>1. /\ Fresh(r) /\ form'.op = "createReport" /\ form'.id = Local(r)
          /\ form'.parent = NoId /\ form'.id[1] = r
      BY <2>1 DEF CreateReport, Begin, Local
    <3> QED BY <3>1, <1>2, <1>5, <1>6 DEF FormMade
  <2>2. ASSUME NEW id \in ReportIds, NEW s \in Serial, AddSerial(s, id)
        PROVE  FormMade'
    <3>1. /\ Fresh(s) /\ rows[id] # NoId /\ id \in Id
          /\ form'.op = "createSerials" /\ form'.id = id /\ form'.parent = id
          /\ form'.serial = s
      BY <2>2 DEF AddSerial, Begin, Id
    <3> QED BY <3>1, <1>2, <1>4, <1>5 DEF FormMade
  <2>3. ASSUME NEW id \in ReportIds, EditReport(id)
        PROVE  FormMade'
    <3>1. /\ rows[id] # NoId /\ id \in Id
          /\ form'.op = "editReport" /\ form'.id = id /\ form'.parent = NoId
      BY <2>3 DEF EditReport, Begin, Id
    <3> QED BY <3>1, <1>2, <1>4, <1>6 DEF FormMade
  <2>4. ASSUME NEW id \in SerialIds, EditSerial(id) \/ DeleteSerial(id)
        PROVE  FormMade'
    <3>1. /\ rows[id] # NoId /\ id \in Id
          /\ form'.op \in {"editSerial", "deleteSerial"}
          /\ form'.id = id /\ form'.parent = rows[id]
      BY <2>4 DEF EditSerial, DeleteSerial, Begin, Id
    <3> QED BY <3>1, <1>2, <1>4 DEF FormMade
  <2> QED BY <2>1, <2>2, <2>3, <2>4 DEF UserBegins
<1> QED BY <1>2, <1>3, <1>7 DEF IdsMade

LEMMA AskServerOrdered ==
    ASSUME FormType, IdsMade, OrderSound, AskServer
    PROVE  (IdsMade /\ OrderSound)'
<1>1. UNCHANGED <<outbox, drain>> /\ form # NoForm /\ form \in FormState
  BY FormOpen DEF AskServer, syncVars, NoForm
<1>2. ItemsMade' /\ OrderSound' /\ \A e : Made(e)' <=> Made(e)
  BY <1>1, QueueUntouched DEF IdsMade
<1>3. FormMade'
  <2>1. form' = NoForm \/ form' = [form EXCEPT !.step = "saving"]
    BY DEF AskServer
  <2>2. form' # NoForm => /\ form'.op = form.op /\ form'.id = form.id
                          /\ form'.parent = form.parent /\ form'.serial = form.serial
    BY <2>1, <1>1 DEF FormState
  <2> QED BY <2>2, <1>1, <1>2 DEF FormMade, IdsMade
<1>4. ASSUME NEW e \in Entity
      PROVE  /\ rows'[Local(e)] # NoId => rows[Local(e)] # NoId
             /\ \A id \in Id : rows'[id] = Local(e) => rows[id] = Local(e) \/ Made(e)
  <2> DEFINE at == IF form.op = "createReport" THEN Server(form.id[1])
                   ELSE IF form.op = "createSerials" THEN Server(form.serial) ELSE form.id
             to == CASE form.op = "createReport" -> Server(form.id[1])
                     [] form.op = "createSerials" -> form.id
                     [] form.op = "deleteSerial" -> NoId
                     [] OTHER -> rows[at]
  <2>1. rows' = [rows EXCEPT ![at] = to] \/ rows' = rows
    BY DEF AskServer
  <2>2. rows \in [Id -> Id \cup {NoId}] /\ Local(e) \in Id
    BY ServerIds DEF FormType
  <2>3. \A x : Local(e) # Server(x)
    BY DEF Local, Server
  <2>4. at = Local(e) => to \in {rows[at], NoId}
    BY <2>3
  <2>5. to = Local(e) => to = rows[at] \/ Made(e)
    <3>1. CASE form.op = "createReport"
      BY <3>1, <2>3
    <3>2. CASE form.op = "createSerials"
      BY <3>2, <1>1 DEF IdsMade, FormMade
    <3>3. CASE form.op = "deleteSerial"
      BY <3>3, LocalOnce
    <3>4. CASE form.op \notin {"createReport", "createSerials", "deleteSerial"}
      BY <3>4
    <3> QED BY <3>1, <3>2, <3>3, <3>4
  <2> HIDE DEF at, to
  <2>6. \A id \in Id : rows'[id] = rows[id] \/ (id = at /\ rows'[id] = to)
    BY <2>1, <2>2
  <2> QED BY <2>2, <2>4, <2>5, <2>6
<1>5. RowsMade'
  BY <1>2, <1>4 DEF RowsMade, IdsMade
<1> QED BY <1>2, <1>3, <1>5 DEF IdsMade

(* The item queued is the newest: whatever it names is made by then.       *)
LEMMA EnqueueIds ==
    ASSUME FormType, QueueSound, IdsMade, SaveAndEnqueue
    PROVE  IdsMade'
<1> QueueType
  BY DEF QueueSound
<1>1. PICK n : n = Len(outbox) + 1
  OBVIOUS
<1>2. /\ DOMAIN outbox' = (DOMAIN outbox) \cup {n} /\ n \notin DOMAIN outbox
      /\ \A m \in DOMAIN outbox : outbox'[m] = outbox[m]
      /\ outbox'[n].op = form.op /\ outbox'[n].entity = form.id
      /\ outbox'[n].parent \in {form.parent, NoId} /\ outbox'[n].serial = form.serial
      /\ drain' = drain /\ form' = NoForm
  BY <1>1, Enqueued
<1>3. /\ n \in Nat \ {0} /\ \A m \in DOMAIN outbox : m \in 1 .. n /\ m # n
      /\ \A m \in DOMAIN outbox : \A c \in 1 .. m : c \in DOMAIN outbox
  BY <1>1, OutboxIsFunction DEF QueueType
<1>4. form \in FormState /\ form # NoForm
  BY FormOpen, FormFields DEF SaveAndEnqueue
<1>5. \A e \in Entity : Makes(outbox'[n], e) => ~Made(e)
  BY <1>2, <1>4 DEF IdsMade, FormMade, Makes
<1>6. \A e \in Entity : Local(e) \in {form.id, form.parent} => Made(e) \/ Makes(outbox'[n], e)
  BY <1>2, <1>4 DEF IdsMade, FormMade, Makes, Local
<1>7. \A e \in Entity : Made(e)' <=> Made(e) \/ Makes(outbox'[n], e)
  BY <1>2 DEF Made
<1>8. ItemsMade'
  <2>1. ASSUME NEW e \in Entity, NEW c \in DOMAIN outbox', NEW d \in DOMAIN outbox',
               Makes(outbox'[c], e), Makes(outbox'[d], e)
        PROVE  c = d
    BY <2>1, <1>2, <1>5 DEF IdsMade, ItemsMade, Made
  <2>2. ASSUME NEW e \in Entity, NEW m \in DOMAIN outbox,
               Names(outbox[m], e) \/ (AtHand(m) /\ Names(drain.item, e))
        PROVE  \E c \in 1 .. m : Makes(outbox'[c], e)
    <3>1. PICK c \in 1 .. m : Makes(outbox[c], e)
      BY <2>2 DEF IdsMade, ItemsMade
    <3> QED BY <3>1, <1>2, <1>3
  <2>3. ASSUME NEW e \in Entity, Names(outbox'[n], e)
        PROVE  \E c \in 1 .. n : Makes(outbox'[c], e)
    <3>1. Local(e) \in {form.id, form.parent}
      BY <2>3, <1>2, LocalOnce DEF Names
    <3>2. CASE Makes(outbox'[n], e)
      BY <3>2, <1>3
    <3>3. CASE Made(e)
      BY <3>3, <1>2, <1>3 DEF Made
    <3> QED BY <3>1, <3>2, <3>3, <1>6
  <2>4. ~AtHand(n)
    <3> SUFFICES ASSUME AtHand(n) PROVE FALSE
      OBVIOUS
    <3>1. drain.step \in BusySteps /\ drain.number = n
      BY AtHandIs
    <3> QED BY <3>1, <1>2, AtItemOpen
  <2>5. \A m : AtHand(m)' <=> AtHand(m)
    BY <1>2 DEF AtHand
  <2> QED BY <2>1, <2>2, <2>3, <2>4, <2>5, <1>2 DEF ItemsMade
<1>9. RowsMade'
  <2>1. rows \in [Id -> Id \cup {NoId}]
    BY DEF FormType
  <2> SUFFICES ASSUME NEW e \in Entity
               PROVE  /\ rows'[Local(e)] # NoId => Made(e) \/ Makes(outbox'[n], e)
                      /\ \A id \in Id : rows'[id] = Local(e) => Made(e) \/ Makes(outbox'[n], e)
    BY <1>7 DEF RowsMade
  <2>2. /\ Local(e) \in Id /\ Local(e) # NoId
        /\ rows[Local(e)] # NoId => Made(e)
        /\ \A id \in Id : rows[id] = Local(e) => Made(e)
    BY LocalOnce DEF IdsMade, RowsMade
  <2>3. CASE form.op \in {"createReport", "editReport"}
    <3>1. rows' = [rows EXCEPT ![form.id] = form.id]
      BY <2>3 DEF SaveAndEnqueue
    <3> QED BY <3>1, <2>1, <2>2, <1>6
  <2>4. CASE form.op = "createSerials"
    <3>1. rows' = [rows EXCEPT ![Local(form.serial)] = form.id]
      BY <2>4 DEF SaveAndEnqueue
    <3>2. Local(e) = Local(form.serial) => Makes(outbox'[n], e)
      BY <2>4, <1>2 DEF Makes, Local
    <3> QED BY <3>1, <3>2, <2>1, <2>2, <1>6
  <2>5. CASE form.op = "editSerial"
    <3>1. rows' = [rows EXCEPT ![form.id] = form.parent]
      BY <2>5 DEF SaveAndEnqueue
    <3> QED BY <3>1, <2>1, <2>2, <1>6
  <2>6. CASE form.op = "deleteSerial"
    <3>1. rows' = [rows EXCEPT ![form.id] = NoId]
      BY <2>6 DEF SaveAndEnqueue
    <3> QED BY <3>1, <2>1, <2>2, <1>6
  <2> QED BY <2>3, <2>4, <2>5, <2>6, <1>4, FormFields DEF ReportOp, SerialOp
<1> QED BY <1>2, <1>8, <1>9 DEF IdsMade, FormMade

(* The newest item is behind everything the drain deals with.              *)
LEMMA EnqueueOrdered ==
    ASSUME FormType, QueueSound, IdsMade, OrderSound, SaveAndEnqueue
    PROVE  (IdsMade /\ OrderSound)'
<1> QueueType
  BY DEF QueueSound
<1>1. PICK n : n = Len(outbox) + 1
  OBVIOUS
<1>2. /\ DOMAIN outbox' = (DOMAIN outbox) \cup {n} /\ n \notin DOMAIN outbox
      /\ \A m \in DOMAIN outbox : outbox'[m] = outbox[m]
      /\ drain' = drain
  BY <1>1, Enqueued
<1>3. n \in Nat /\ \A m \in DOMAIN outbox : m \in Nat /\ m < n
  BY <1>1, OutboxIsFunction DEF QueueType
<1>4. /\ \A m : AtHand(m)' <=> AtHand(m)
      /\ \A m : AtHand(m) => m \in DOMAIN outbox
  BY <1>2, AtHandIs, AtItemOpen DEF AtHand
<1>5. HandFits'
  BY <1>2, <1>4 DEF OrderSound, HandFits
<1>6. SkipsOvertaken'
  <2>1. CASE drain # NoDrain /\ drain.step # "list"
    <3>1. \A i \in DOMAIN drain.todo : drain.todo[i] \in DOMAIN outbox
      BY <2>1, DrainFields, TodoFacts DEF QueueType
    <3>2. drain.step = "puts" => drain.waiting \subseteq DOMAIN outbox
      BY DrainOpen, DrainFields DEF DrainStep, InFlightSteps
    <3>3. ~Overtaken(n)'
      <4> SUFFICES ASSUME Overtaken(n)' PROVE FALSE
        OBVIOUS
      <4>1. \/ \E i \in DOMAIN drain.todo : n < drain.todo[i]
            \/ \E m \in DOMAIN outbox : n < m
        BY <1>2, <1>4 DEF Overtaken
      <4> QED BY <4>1, <3>1, <1>3
    <3>4. \A m \in DOMAIN outbox : Overtaken(m)' => Overtaken(m)
      BY <1>2, <1>4 DEF Overtaken
    <3> QED BY <2>1, <3>3, <3>4, <1>2, <1>4, OvertakenKept DEF OrderSound
  <2>2. CASE drain = NoDrain \/ drain.step = "list"
    BY <2>2, <1>2 DEF SkipsOvertaken
  <2> QED BY <2>1, <2>2
<1> QED BY <1>5, <1>6, EnqueueIds DEF OrderSound

LEMMA AroundOrdered ==
    ASSUME IdsMade, OrderSound, UNCHANGED <<outbox, drain, formVars>>
    PROVE  (IdsMade /\ OrderSound)'
<1>1. ItemsMade' /\ OrderSound' /\ \A e : Made(e)' <=> Made(e)
  BY QueueUntouched DEF IdsMade
<1> QED BY <1>1 DEF IdsMade, RowsMade, FormMade, formVars

LEMMA InitOrdered == Init => IdsMade /\ OrderSound
<1> SUFFICES ASSUME Init PROVE IdsMade /\ OrderSound
  OBVIOUS
<1>1. DOMAIN outbox = {} /\ drain = NoDrain /\ form = NoForm
  BY EmptySeq DEF Init
<1>2. \A e \in Entity : Local(e) # NoId /\ Local(e) \in Id
  BY LocalOnce
<1>3. RowsMade
  BY <1>2 DEF Init, RowsMade
<1> QED BY <1>1, <1>3 DEF IdsMade, ItemsMade, FormMade, OrderSound, HandFits, SkipsOvertaken

LEMMA NextOrdered ==
    ASSUME DrainInvariant, IdsMade, OrderSound, [Next]_vars
    PROVE  (IdsMade /\ OrderSound)'
<1>1. FormType /\ QueueSound
  BY InvariantParts
<1>2. CASE UNCHANGED vars \/ RunEffect
  <2>1. UNCHANGED <<outbox, drain, formVars>>
    BY <1>2 DEF vars, syncVars, RunEffect
  <2> QED BY <2>1, AroundOrdered
<1>3. CASE UserBegins
  BY <1>1, <1>3, UserBeginsOrdered
<1>4. CASE AskServer
  BY <1>1, <1>4, AskServerOrdered
<1>5. CASE SyncNow \/ CountAfterClear \/ TimerFires \/ Disconnect \/ Reconnect
  <2>1. UNCHANGED <<outbox, drain, formVars>>
    BY <1>5 DEF SyncNow, CountAfterClear, TimerFires, Disconnect, Reconnect, syncVars
  <2> QED BY <2>1, AroundOrdered
<1>6. CASE \E r \in Run : EndRun(r) \/ (ProbeServer(r) /\ UNCHANGED drain)
  <2>1. UNCHANGED <<outbox, drain, formVars>>
    BY <1>6 DEF EndRun, ProbeServer
  <2> QED BY <2>1, AroundOrdered
<1>7. CASE StartDrain
  BY <1>1, <1>7, StartOrdered
<1>8. CASE ListPending \/ TakeItem \/ HoldItem \/ GetAnswer
  BY <1>1, <1>8, ListOrdered, TakeOrdered, HoldOrdered, AnswerOrdered
<1>9. CASE UpdateRows \/ FindDependents \/ PutDependents
  BY <1>1, <1>9, RowsOrdered, FindOrdered, PutsOrdered
<1>10. CASE RecordAnswer \/ RehydrateCount \/ EndDrain
  BY <1>1, <1>10, RecordOrdered, RecountOrdered, EndOrdered
<1>11. CASE SaveAndEnqueue \/ ClearConflicts
  BY <1>1, <1>11, EnqueueOrdered, ClearOrdered
<1> QED BY <1>2, <1>3, <1>4, <1>5, <1>6, <1>7, <1>8, <1>9, <1>10, <1>11, StepsOfNext
        DEF AroundDrain, ProcessQueue

(* Nothing older than the change that makes an id names it, and what the   *)
(* drain has passed by and left pending is under an entity it skips, for   *)
(* any reports, serials and numbers of runs, items and faults.             *)
THEOREM OrderIsKept == Spec => []OrderInvariant
<1>1. Init => IdsMade /\ OrderSound
  BY InitOrdered
<1>2. DrainInvariant /\ (IdsMade /\ OrderSound) /\ [Next]_vars => (IdsMade /\ OrderSound)'
  BY NextOrdered
<1>3. IdsMade /\ OrderSound => OrderInvariant
  BY OrderParts DEF OrderSound
<1> QED BY <1>1, <1>2, <1>3, DrainIsSound, PTL DEF Spec

(* The one step that sends takes the oldest item left, if its entity is    *)
(* not skipped; so an older pending item is of another entity.             *)
LEMMA SendsInOrder ==
    ASSUME DrainInvariant, OrderInvariant, [Next]_vars,
           NEW n \in DOMAIN outbox, Sends(n), NEW m \in 1 .. n - 1,
           outbox[m].status = "PENDING"
    PROVE  outbox[m].entity # outbox[n].entity
<1>1. FormType /\ QueueSound /\ QueueType /\ IdsMade /\ HandFits /\ SkipsOvertaken
  BY InvariantParts, OrderParts DEF QueueSound
<1>2. drain.step = "scan" /\ drain'.step = "sent" /\ drain'.number = n
  BY DEF Sends
<1>3. TakeItem
  <2>1. drain' # drain
    BY <1>2
  <2>2. ~(AroundDrain \/ RunEffect \/ SaveAndEnqueue \/ ClearConflicts \/ UNCHANGED vars)
    BY <2>1, <1>1, AroundDrainFrame, Enqueued, Cleared DEF vars, syncVars, QueueSound
  <2>3. ~StartDrain
    BY <1>1, <1>2, StartFacts
  <2>4. ProcessQueue
    BY <2>2, <2>3, StepsOfNext
  <2> QED BY <2>4, <1>2 DEF ProcessQueue, ListPending, HoldItem, GetAnswer, UpdateRows,
             FindDependents, PutDependents, RecordAnswer, RehydrateCount, EndDrain, NoDrain
<1>4. /\ drain.todo # << >> /\ drain \in DrainState(DOMAIN outbox) /\ drain # NoDrain
      /\ n = drain.todo[1] /\ ~Blocked(outbox[n])
  BY <1>1, <1>2, <1>3, TakeFacts, DrainFields
<1>5. drain.todo \in Seq(DOMAIN outbox) /\ 1 \in DOMAIN drain.todo
  BY <1>4, DrainFields, TailFacts
<1>6. /\ m \in DOMAIN outbox /\ m < n
      /\ \A i \in DOMAIN drain.todo : i = 1 \/ n < drain.todo[i]
  <2>1. /\ DOMAIN drain.todo = 1 .. Len(drain.todo)
        /\ \A i \in DOMAIN drain.todo : drain.todo[i] \in Nat
    BY <1>1, <1>5, TodoFacts DEF QueueType
  <2>2. \A i, j \in DOMAIN drain.todo : i < j => drain.todo[i] < drain.todo[j]
    BY <1>1, <1>4 DEF QueueSound, InOrder
  <2>3. m \in DOMAIN outbox /\ m < n
    BY <1>1, OutboxIsFunction DEF QueueType
  <2> QED BY <2>1, <2>2, <2>3, <1>4, <1>5
<1>7. Overtaken(m)
  <2>1. ~AtHand(m)
    BY <1>2, AtHandIs DEF BusySteps, InFlightSteps
  <2>2. \A i \in DOMAIN drain.todo : drain.todo[i] # m
    <3>1. m \in Nat /\ n \in Nat
      BY <1>1, <1>6, OutboxIsFunction DEF QueueType
    <3> QED BY <3>1, <1>4, <1>6
  <2> QED BY <2>1, <2>2, <1>4, <1>5, <1>6 DEF Overtaken
<1>8. outbox[m].entity \in drain.skip
  BY <1>1, <1>2, <1>4, <1>6, <1>7 DEF SkipsOvertaken, Skipped
<1> QED BY <1>4, <1>8 DEF Blocked

(* No item is sent while an older one of the same entity is pending,       *)
(* retries and remapped ids included, for any reports, serials and numbers *)
(* of runs, items and faults.                                              *)
THEOREM OutboxIsFifo == Spec => DispatchInOrder
<1> DEFINE InOrderStep ==
        \A n \in DOMAIN outbox : Sends(n) =>
            \A m \in 1 .. n - 1 :
                outbox[m].status = "PENDING" => outbox[m].entity # outbox[n].entity
<1>1. DrainInvariant /\ OrderInvariant /\ [Next]_vars => InOrderStep
  BY SendsInOrder
<1>2. DrainInvariant /\ OrderInvariant /\ [Next]_vars => [InOrderStep]_vars
  BY <1>1
<1> QED BY <1>2, DrainIsSound, OrderIsKept, PTL DEF Spec, DispatchInOrder
=============================================================================
