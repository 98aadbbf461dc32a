---------------------- MODULE InspectionReportsProofs ----------------------
(***************************************************************************)
(* Proofs about InspectionReports for every set of serials, handlers and   *)
(* child reports and every bound: the type invariant, that no serial is    *)
(* stranded under review or approved without a verdict on record, and what *)
(* a step may never do - with any requests at once, with no review among   *)
(* them, or one at a time.                                                 *)
(***************************************************************************)
EXTENDS InspectionReports, TLAPS

----------------------------------------------------------------------------
(* Types.                                                                  *)

LEMMA NoRequestType == NoRequest \in Request
BY ConstantsAssumption
DEF NoRequest, Request, Operation, Stage, Scope, AnyStatus, Finding, NoStatus

(* A step that only takes in a request, or drops one, keeps the types.     *)
LEMMA TakeRequestType ==
    ASSUME TypeOK, NEW h \in Handler, NEW R \in Request,
           tx' = [tx EXCEPT ![h] = R],
           UNCHANGED <<report, snapshot, child, rowVars, batchVars>>
    PROVE  TypeOK'
BY DEF TypeOK, rowVars, batchVars

LEMMA FinishType ==
    ASSUME TypeOK, NEW h \in Handler, Finish(h)
    PROVE  tx' \in [Handler -> Request]
BY NoRequestType DEF TypeOK, Finish

LEMMA RowTypes ==
    ASSUME TypeOK, NEW c \in Scope, NEW s \in Serial
    PROVE  /\ <<c, s>> \in Row
           /\ approval[<<c, s>>] \in SerialApprovalStatus \cup {NoStatus, Gone}
           /\ Exists(<<c, s>>) => approval[<<c, s>>] \in SerialApprovalStatus
           /\ rowVersion[s] \in Nat
BY DEF TypeOK, Row, Exists

LEMMA ReportWriteType ==
    ASSUME TypeOK, NEW s \in ReportStatus, NEW v \in Nat, NEW f \in ReportStatus \cup {NoStatus}
    PROVE  /\ [report EXCEPT !.version = v] \in ReportRecord
           /\ [report EXCEPT !.version = v, !.status = s] \in ReportRecord
           /\ [report EXCEPT !.status = s, !.version = v, !.heldFrom = f] \in ReportRecord
BY DEF TypeOK, ReportRecord

LEMMA ChildWriteType ==
    ASSUME TypeOK, NEW c \in Child, NEW s \in ChildStatus, NEW n \in Nat
    PROVE  /\ [child EXCEPT ![c].status = s, ![c].logged = TRUE] \in [Child -> ChildRecord]
           /\ [child EXCEPT ![c].version = n] \in [Child -> ChildRecord]
           /\ [child EXCEPT ![c].status = s, ![c].revision = n, ![c].logged = TRUE]
                 \in [Child -> ChildRecord]
<1>1. child \in [Child -> ChildRecord] /\ child[c] \in ChildRecord
  BY DEF TypeOK
<1>2. [child[c] EXCEPT !.status = s, !.logged = TRUE] \in ChildRecord
  BY <1>1 DEF ChildRecord
<1>3. [child[c] EXCEPT !.version = n] \in ChildRecord
  BY <1>1 DEF ChildRecord
<1>4. [child[c] EXCEPT !.status = s, !.revision = n, !.logged = TRUE] \in ChildRecord
  BY <1>1 DEF ChildRecord
<1> QED BY <1>1, <1>2, <1>3, <1>4

LEMMA ParentInScope == Parent \in Scope /\ Child \subseteq Scope
BY DEF Scope

LEMMA RowsInRow ==
    ASSUME NEW c \in Scope, NEW S \in SUBSET Serial
    PROVE  {c} \X S \in SUBSET Row
BY DEF Row

LEMMA TransitionType ==
    ASSUME TypeOK, RequestOK, NEW h \in Handler, Transition(h)
    PROVE  TypeOK'
<1> USE DEF Transition
<1>1. report.status \in ReportStatus /\ report.version \in Nat /\ report.revision \in Nat
      /\ report.heldFrom \in ReportStatus \cup {NoStatus}
  BY DEF TypeOK, ReportRecord
<1>2. ASSUME NEW role \in Role, NEW to \in ReportStatus, NEW reason \in BOOLEAN,
             BeginTransition(h, role, to, reason)
      PROVE  TypeOK'
  <2>1. [NoRequest EXCEPT !.op = "transition", !.from = report.status, !.to = to,
                          !.version = report.version, !.itemVersion = report.revision]
           \in Request
    BY <1>1, NoRequestType DEF Request, Operation, AnyStatus
  <2> QED BY <1>2, <2>1, TakeRequestType DEF BeginTransition
<1>3. ASSUME CommitTransition(h) PROVE TypeOK'
  <2>1. tx[h].from \in ReportStatus /\ tx[h].to \in ReportStatus /\ tx[h].version \in Nat
    BY <1>3 DEF CommitTransition, RequestOK, RequestOf, TypeOK, Request
  <2>2. report' \in ReportRecord
    BY <1>1, <1>3, <2>1 DEF CommitTransition, ReportRecord
  <2>3. snapshot' \in [Serial -> Finding]
    BY <1>3, ParentInScope DEF CommitTransition, TypeOK, Content, Row
  <2>4. approval' \in [Row -> SerialApprovalStatus \cup {NoStatus, Gone}]
    BY <1>3 DEF CommitTransition, TypeOK, SerialApprovalStatus
  <2>5. rowVersion' \in [Serial -> Nat]
    BY <1>3 DEF CommitTransition, TypeOK
  <2> QED BY <1>3, <2>2, <2>3, <2>4, <2>5, FinishType DEF CommitTransition, TypeOK, batchVars
<1> QED BY <1>2, <1>3

LEMMA UpdateType ==
    ASSUME TypeOK, RequestOK, NEW h \in Handler, Update(h)
    PROVE  TypeOK'
<1>1. report.status \in ReportStatus /\ report.version \in Nat
  BY DEF TypeOK, ReportRecord
<1>2. ASSUME NEW to \in ReportStatus \cup {NoStatus}, BeginUpdate(h, to)
      PROVE  TypeOK'
  <2>1. [NoRequest EXCEPT !.op = "update", !.from = report.status,
                          !.to = to, !.version = report.version] \in Request
    BY <1>1, NoRequestType DEF Request, Operation, AnyStatus
  <2> QED BY <1>2, <2>1, TakeRequestType DEF BeginUpdate
<1>3. ASSUME CommitUpdate(h) PROVE TypeOK'
  <2>1. tx[h].to \in ReportStatus \cup {NoStatus} /\ tx[h].version \in Nat
    BY <1>3 DEF CommitUpdate, RequestOK, RequestOf, TypeOK, Request
  <2>2. report' \in ReportRecord
    <3> DEFINE s == IF tx[h].to = NoStatus THEN report.status ELSE tx[h].to
               f == IF tx[h].to = "ON_HOLD" /\ tx[h].from # "ON_HOLD" THEN NoStatus
                    ELSE report.heldFrom
    <3>1. s \in ReportStatus /\ f \in ReportStatus \cup {NoStatus}
      BY <1>1, <2>1 DEF TypeOK, ReportRecord
    <3>2. report' = [report EXCEPT !.status = s, !.version = tx[h].version + 1,
                                   !.heldFrom = f]
      BY <1>3 DEF CommitUpdate
    <3>3. tx[h].version + 1 \in Nat
      BY <2>1
    <3> HIDE DEF s, f
    <3> QED BY <3>1, <3>2, <3>3, ReportWriteType
  <2> QED BY <1>3, <2>2, FinishType DEF CommitUpdate, TypeOK, rowVars, batchVars
<1> QED BY <1>2, <1>3 DEF Update

LEMMA CreateSerialsType ==
    ASSUME TypeOK, RequestOK, NEW h \in Handler, CreateSerials(h)
    PROVE  TypeOK'
<1>1. ASSUME NEW serials \in SUBSET Serial, BeginCreateSerials(h, serials)
      PROVE  TypeOK'
  <2>1. [NoRequest EXCEPT !.op = "createSerial", !.rows = {Parent} \X serials,
                          !.to = "NOT_INSPECTED"] \in Request
    BY NoRequestType, RowsInRow, ParentInScope
    DEF Request, Operation, AnyStatus, SerialApprovalStatus
  <2> QED BY <1>1, <2>1, TakeRequestType DEF BeginCreateSerials
<1>2. ASSUME CommitCreateSerials(h) PROVE TypeOK'
  <2>1. tx[h].to \in SerialApprovalStatus
    BY <1>2 DEF CommitCreateSerials, RequestOK, RequestOf, SerialApprovalStatus
  <2> QED BY <1>2, <2>1, FinishType DEF CommitCreateSerials, TypeOK, batchVars
<1> QED BY <1>1, <1>2 DEF CreateSerials

LEMMA EditSerialType ==
    ASSUME TypeOK, NEW h \in Handler, EditSerial(h)
    PROVE  TypeOK'
<1>1. ASSUME NEW s \in Serial, NEW finding \in Finding, BeginEditSerial(h, s, finding)
      PROVE  TypeOK'
  <2>1. [NoRequest EXCEPT !.op = "editSerial", !.rows = {<<Parent, s>>},
                          !.from = approval[<<Parent, s>>], !.finding = finding,
                          !.itemVersion = rowVersion[s]] \in Request
    BY ZenonT(30), <1>1, NoRequestType, RowTypes, ParentInScope
    DEF BeginEditSerial, Request, Operation, AnyStatus
  <2> QED BY <1>1, <2>1, TakeRequestType DEF BeginEditSerial
<1>2. ASSUME CommitEditSerial(h) PROVE TypeOK'
  <2>1. PICK s \in Serial :
           /\ data' = [data EXCEPT ![<<Parent, s>>] = tx[h].finding]
           /\ approval' = [approval EXCEPT ![<<Parent, s>>] =
                             IF tx[h].from = "NOT_INSPECTED" THEN "INSPECTED_DRAFT" ELSE @]
           /\ rowVersion' = [rowVersion EXCEPT ![s] = tx[h].itemVersion + 1]
           /\ Finish(h)
           /\ UNCHANGED <<report, snapshot, child, batchVars>>
    BY <1>2 DEF CommitEditSerial
  <2>2. tx[h].finding \in Finding /\ tx[h].itemVersion \in Nat
    BY DEF TypeOK, Request
  <2>3. approval' \in [Row -> SerialApprovalStatus \cup {NoStatus, Gone}]
    BY <2>1 DEF TypeOK, SerialApprovalStatus
  <2> QED BY <2>1, <2>2, <2>3, FinishType DEF TypeOK, batchVars
<1> QED BY <1>1, <1>2 DEF EditSerial

LEMMA DeleteSerialType ==
    ASSUME TypeOK, NEW h \in Handler, DeleteSerial(h)
    PROVE  TypeOK'
<1>1. ASSUME NEW s \in Serial, BeginDeleteSerial(h, s)
      PROVE  TypeOK'
  <2>1. [NoRequest EXCEPT !.op = "deleteSerial", !.rows = {<<Parent, s>>}] \in Request
    BY NoRequestType, RowTypes, ParentInScope DEF Request, Operation
  <2> QED BY <1>1, <2>1, TakeRequestType DEF BeginDeleteSerial
<1>2. ASSUME CommitDeleteSerial(h) PROVE TypeOK'
  <2>1. PICK s \in Serial :
           /\ approval' = [approval EXCEPT ![<<Parent, s>>] = Gone]
           /\ data' = [data EXCEPT ![<<Parent, s>>] = NoData]
           /\ rowVersion' = [rowVersion EXCEPT ![s] = 0]
           /\ Finish(h)
           /\ UNCHANGED <<report, snapshot, child, batchVars>>
    BY <1>2 DEF CommitDeleteSerial
  <2> QED BY <2>1, FinishType DEF TypeOK, batchVars, Finding
<1> QED BY <1>1, <1>2 DEF DeleteSerial

LEMMA SubmitType ==
    ASSUME TypeOK, RequestOK, NEW h \in Handler, Submit(h)
    PROVE  TypeOK'
<1>1. ASSUME NEW sc \in Scope, NEW serials \in SUBSET Serial, BeginSubmit(h, sc, serials)
      PROVE  TypeOK'
  <2>1. [NoRequest EXCEPT !.op = "submit", !.scope = sc, !.rows = {sc} \X serials,
                          !.to = "SUBMITTED_FOR_APPROVAL",
                          !.version = report.version] \in Request
    BY NoRequestType, RowsInRow
    DEF Request, Operation, AnyStatus, SerialApprovalStatus, TypeOK, ReportRecord
  <2> QED BY <1>1, <2>1, TakeRequestType DEF BeginSubmit
<1>2. ASSUME CountChildRows(h) PROVE TypeOK'
  <2> DEFINE A == /\ child[tx[h].scope].status = "IN_INSPECTION"
                  /\ AllRows(h, tx[h].scope, {"SUBMITTED_FOR_APPROVAL", "APPROVED"})
             R == [tx[h] EXCEPT !.stage = "closing", !.approves = A]
  <2>1. A \in BOOLEAN
    BY Zenon
  <2>2. tx[h] \in Request
    BY DEF TypeOK
  <2>3. R \in Request
    <3> HIDE DEF A
    <3> QED BY <2>1, <2>2 DEF Request, Stage
  <2>4. tx' = [tx EXCEPT ![h] = R]
    BY <1>2 DEF CountChildRows
  <2>5. UNCHANGED <<report, snapshot, child, rowVars, batchVars>>
    BY <1>2 DEF CountChildRows
  <2> HIDE DEF R
  <2> QED BY <2>3, <2>4, <2>5, TakeRequestType
<1>3. ASSUME CommitSubmit(h) PROVE TypeOK'
  <2>1. /\ tx[h] \in Request
        /\ tx[h].op = "submit" /\ tx[h].to \in SerialApprovalStatus
    BY <1>3 DEF CommitSubmit, RequestOK, RequestOf, TypeOK, SerialApprovalStatus
  <2>2. tx[h].scope \in Scope /\ tx[h].version \in Nat
    BY <2>1 DEF Request
  <2>3. PICK b \in Batch \ BatchesMade :
           /\ approval' = Seen(h)
           /\ batchStatus' = [batchStatus EXCEPT ![b] = "SUBMITTED"]
           /\ batchVersion' = [batchVersion EXCEPT ![b] = 1]
           /\ batchScope' = [batchScope EXCEPT ![b] = tx[h].scope]
           /\ junction' = [junction EXCEPT ![b] =
                             [s \in Serial |-> IF <<tx[h].scope, s>> \in tx[h].rows
                                               THEN "PENDING" ELSE NoStatus]]
           /\ report' = [report EXCEPT !.version = tx[h].version + 1]
           /\ child' = IF tx[h].approves
                       THEN [child EXCEPT ![tx[h].scope].status = "PENDING_APPROVAL",
                                          ![tx[h].scope].logged = TRUE]
                       ELSE child
           /\ Finish(h)
           /\ UNCHANGED <<snapshot, data, rowVersion>>
    BY <1>3 DEF CommitSubmit
  <2>4. approval' \in [Row -> SerialApprovalStatus \cup {NoStatus, Gone}]
    BY <2>1, <2>3 DEF TypeOK, Seen
  <2>5. junction' \in [Batch -> [Serial -> JunctionStatus \cup {NoStatus}]]
    BY <2>3 DEF TypeOK, JunctionStatus
  <2>6. child' \in [Child -> ChildRecord]
    <3>1. tx[h].approves => tx[h].scope \in Child
      BY <2>1 DEF RequestOK, RequestOf
    <3>2. child \in [Child -> ChildRecord] /\ "PENDING_APPROVAL" \in ChildStatus
      BY DEF TypeOK, ChildStatus
    <3> QED BY <2>3, <3>1, <3>2, ChildWriteType
  <2>7. report' \in ReportRecord
    <3>1. report' = [report EXCEPT !.version = tx[h].version + 1]
          /\ tx[h].version + 1 \in Nat
      BY <2>2, <2>3
    <3> QED BY <3>1, ReportWriteType DEF ReportStatus
  <2>8. /\ batchStatus' \in [Batch -> BatchStatus \cup {NoStatus}]
        /\ batchVersion' \in [Batch -> Nat]
        /\ batchScope' \in [Batch -> Scope]
    BY <2>2, <2>3 DEF TypeOK, BatchStatus
  <2>9. tx' \in [Handler -> Request]
    BY <2>3, FinishType
  <2> QED BY <2>3, <2>4, <2>5, <2>6, <2>7, <2>8, <2>9 DEF TypeOK
<1> QED BY <1>1, <1>2, <1>3 DEF Submit

LEMMA WriteRowsType ==
    ASSUME TypeOK, NEW h \in Handler, WriteRows(h)
    PROVE  TypeOK'
<1> DEFINE C == Judging(h) /\ NoneLeft(h)
           R == [tx[h] EXCEPT !.stage = "written", !.locked = Hits(h), !.closes = C]
<1>1. C \in BOOLEAN
  BY Zenon
<1>2. tx[h] \in Request
  BY DEF TypeOK
<1>3. Hits(h) \in SUBSET Row
  BY <1>2 DEF Hits, Request
<1>4. R \in Request
  <2> HIDE DEF C
  <2> QED BY <1>1, <1>2, <1>3 DEF Request, Stage
<1>5. tx' = [tx EXCEPT ![h] = R]
  BY DEF WriteRows
<1>6. UNCHANGED <<report, snapshot, child, rowVars, batchVars>>
  BY DEF WriteRows
<1> HIDE DEF R
<1> QED BY <1>4, <1>5, <1>6, TakeRequestType

LEMMA ReviewType ==
    ASSUME TypeOK, RequestOK, NEW h \in Handler, Review(h)
    PROVE  TypeOK'
<1>1. ASSUME NEW op \in ReviewOperation, NEW b \in Batch, NEW named \in SUBSET Member(b),
             BeginReview(h, op, b, named)
      PROVE  TypeOK'
  <2> DEFINE rows == {r \in named : approval[r] = "SUBMITTED_FOR_APPROVAL"}
             to == IF op = "approve" THEN "APPROVED" ELSE "INSPECTED_DRAFT"
             R == [NoRequest EXCEPT !.op = op, !.scope = batchScope[b], !.batch = b,
                                    !.rows = rows, !.to = to, !.version = report.version,
                                    !.itemVersion = batchVersion[b]]
  <2>1. batchScope[b] \in Scope /\ batchVersion[b] \in Nat /\ report.version \in Nat
    BY DEF TypeOK, ReportRecord
  <2>2. rows \in SUBSET Row
    BY <2>1 DEF Member, Row
  <2>3. to \in AnyStatus
    BY DEF AnyStatus, SerialApprovalStatus
  <2>4. op \in Operation \cup {"none"}
    BY DEF Operation, ReviewOperation
  <2>5. R \in Request
    <3> HIDE DEF rows, to
    <3> QED BY <2>1, <2>2, <2>3, <2>4, NoRequestType DEF Request
  <2>6. tx' = [tx EXCEPT ![h] = R]
    BY <1>1 DEF BeginReview
  <2>7. UNCHANGED <<report, snapshot, child, rowVars, batchVars>>
    BY <1>1 DEF BeginReview
  <2> HIDE DEF R
  <2> QED BY <2>5, <2>6, <2>7, TakeRequestType
<1>2. ASSUME WriteBatch(h) PROVE TypeOK'
  <2> DEFINE A == /\ tx[h].op = "approve"
                  /\ tx[h].scope = Parent
                  /\ AllRows(h, Parent, {"APPROVED"})
                  /\ AllBatchesApproved(h, Scope)
             R == [tx[h] EXCEPT !.stage = "closing", !.approves = A]
  <2>1. A \in BOOLEAN
    BY Zenon
  <2>2. tx[h] \in Request
    BY DEF TypeOK
  <2>3. R \in Request
    <3> HIDE DEF A
    <3> QED BY <2>1, <2>2 DEF Request, Stage
  <2>4. tx' = [tx EXCEPT ![h] = R]
    BY <1>2 DEF WriteBatch
  <2>5. UNCHANGED <<report, snapshot, child, rowVars, batchVars>>
    BY <1>2 DEF WriteBatch
  <2> HIDE DEF R
  <2> QED BY <2>3, <2>4, <2>5, TakeRequestType
<1>3. ASSUME CommitReview(h) PROVE TypeOK'
  <2> DEFINE b == tx[h].batch
             sc == tx[h].scope
             verdict == IF tx[h].op = "approve" THEN "APPROVED" ELSE "RETURNED"
  <2>1. tx[h] \in Request /\ Judging(h) /\ b \in Batch
    BY <1>3 DEF CommitReview, RequestOK, RequestOf, TypeOK, BatchesMade
  <2>2. tx[h].to \in SerialApprovalStatus
    BY <2>1 DEF Judging, ReviewOperation, RequestOK, RequestOf, SerialApprovalStatus
  <2>3. sc \in Scope /\ tx[h].version \in Nat /\ tx[h].itemVersion \in Nat
    BY <2>1 DEF Request
  <2>4. verdict \in JunctionStatus /\ verdict \in BatchStatus
    BY DEF JunctionStatus, BatchStatus
  <2>5. approval' \in [Row -> SerialApprovalStatus \cup {NoStatus, Gone}]
    BY <1>3, <2>2 DEF CommitReview, TypeOK, Seen
  <2>6. junction' \in [Batch -> [Serial -> JunctionStatus \cup {NoStatus}]]
    <3>1. junction' = [junction EXCEPT ![b] =
                         [s \in Serial |-> IF <<sc, s>> \in tx[h].rows THEN verdict ELSE @[s]]]
      BY <1>3 DEF CommitReview
    <3> HIDE DEF verdict, b, sc
    <3> QED BY <3>1, <2>1, <2>4 DEF TypeOK
  <2>7. /\ batchStatus' \in [Batch -> BatchStatus \cup {NoStatus}]
        /\ batchVersion' \in [Batch -> Nat]
    BY <1>3, <2>1, <2>3, <2>4 DEF CommitReview, TypeOK, BatchStatus
  <2>8. report' \in ReportRecord
    <3>1. report' = [report EXCEPT !.version = tx[h].version + 1,
                                   !.status = IF tx[h].approves THEN "APPROVED"
                                              ELSE report.status]
      BY <1>3 DEF CommitReview
    <3>2. report.status \in ReportStatus /\ "APPROVED" \in ReportStatus
      BY DEF TypeOK, ReportRecord, ReportStatus
    <3>3. PICK s \in ReportStatus :
             report' = [report EXCEPT !.version = tx[h].version + 1, !.status = s]
      BY <3>1, <3>2
    <3>4. tx[h].version + 1 \in Nat
      BY <2>3
    <3> QED BY <3>3, <3>4, ReportWriteType DEF ReportStatus
  <2>9. child' \in [Child -> ChildRecord]
    <3>1. \/ child' = child
          \/ /\ sc \in Child
             /\ child' = [child EXCEPT ![sc].status = "APPROVED", ![sc].logged = TRUE]
      BY <1>3 DEF CommitReview
    <3>2. child \in [Child -> ChildRecord] /\ "APPROVED" \in ChildStatus
      BY DEF TypeOK, ChildStatus
    <3>3. sc \in Child =>
             [child EXCEPT ![sc].status = "APPROVED", ![sc].logged = TRUE]
                \in [Child -> ChildRecord]
      BY <3>2, ChildWriteType
    <3> QED BY <3>1, <3>2, <3>3
  <2>10. tx' \in [Handler -> Request]
    BY <1>3, FinishType DEF CommitReview
  <2> QED BY <1>3, <2>5, <2>6, <2>7, <2>8, <2>9, <2>10 DEF CommitReview, TypeOK
<1> QED BY <1>1, <1>2, <1>3 DEF Review, BeginApprove, BeginReturn, ReviewOperation

LEMMA RemoveRowsType ==
    ASSUME TypeOK, NEW h \in Handler, NEW removed, RemoveRows(h, removed)
    PROVE  tx' \in [Handler -> Request]
BY NoRequestType DEF TypeOK, RemoveRows

LEMMA SyncReworkType ==
    ASSUME TypeOK, RequestOK, NEW h \in Handler, SyncRework(h)
    PROVE  TypeOK'
<1>1. ASSUME NEW c \in Child, BeginSync(h, c)
      PROVE  TypeOK'
  <2>1. child[c].status \in AnyStatus
    BY <1>1 DEF BeginSync, TypeOK, ChildRecord, AnyStatus, ChildStatus, ReportStatus, Live
  <2>2. {c} \X Matching \in SUBSET Row
    BY ParentInScope, RowsInRow DEF Matching
  <2>3. [NoRequest EXCEPT !.op = "sync", !.scope = c, !.rows = {c} \X Matching,
                          !.from = child[c].status] \in Request
    BY <2>1, <2>2, NoRequestType, ParentInScope DEF Request, Operation
  <2> QED BY <1>1, <2>3, TakeRequestType DEF BeginSync
<1>2. ASSUME CreateChild(h) PROVE TypeOK'
  <2>1. tx[h] \in Request /\ tx[h].scope \in Child
    BY <1>2 DEF CreateChild, TypeOK, RequestOK, RequestOf
  <2>2. [tx[h] EXCEPT !.stage = "written"] \in Request
    BY <2>1 DEF Request, Stage
  <2>3. tx' \in [Handler -> Request]
    BY <1>2, <2>2 DEF CreateChild, TypeOK
  <2>4. child' \in [Child -> ChildRecord]
    BY ZenonT(30), <1>2, <2>1 DEF CreateChild, TypeOK, ChildRecord, ChildStatus
  <2> QED BY <1>2, <2>3, <2>4 DEF CreateChild, TypeOK, rowVars, batchVars
<1>3. ASSUME Reconcile(h) PROVE TypeOK'
  <2> DEFINE c == tx[h].scope
             leave == RowsOf(c) \ tx[h].rows
             join == tx[h].rows \ RowsOf(c)
  <2>1. c \in Child
    BY <1>3 DEF Reconcile, RequestOK, RequestOf
  <2>2. child' \in [Child -> ChildRecord]
    <3> DEFINE v == child[c].version + (IF tx[h].from # NoStatus THEN 1 ELSE 0)
    <3>1. child' = [child EXCEPT ![c].version = v]
      BY <1>3 DEF Reconcile
    <3>2. v \in Nat
      BY <2>1 DEF TypeOK, ChildRecord
    <3> HIDE DEF c, v
    <3> QED BY <2>1, <3>1, <3>2, ChildWriteType DEF ChildStatus
  <2>3. approval' \in [Row -> SerialApprovalStatus \cup {NoStatus, Gone}]
    BY <1>3 DEF Reconcile, TypeOK, SerialApprovalStatus
  <2>4. data' \in [Row -> Finding]
    BY <1>3 DEF Reconcile, TypeOK, Finding
  <2>5. tx' \in [Handler -> Request]
    BY <1>3, RemoveRowsType DEF Reconcile
  <2> QED BY <1>3, <2>2, <2>3, <2>4, <2>5 DEF Reconcile, TypeOK, batchVars
<1>4. ASSUME DeleteChild(h) PROVE TypeOK'
  <2>1. tx[h].scope \in Child
    BY <1>4 DEF DeleteChild, RequestOK, RequestOf
  <2>2. [NoChild EXCEPT !.status = Gone] \in ChildRecord
    BY DEF NoChild, ChildRecord
  <2>3. child' \in [Child -> ChildRecord]
    BY <1>4, <2>1, <2>2 DEF DeleteChild, TypeOK
  <2>4. approval' \in [Row -> SerialApprovalStatus \cup {NoStatus, Gone}]
    BY <1>4 DEF DeleteChild, TypeOK
  <2>5. data' \in [Row -> Finding]
    BY <1>4 DEF DeleteChild, TypeOK, Finding
  <2>6. batchScope' \in [Batch -> Scope]
    BY <1>4, ParentInScope DEF DeleteChild, TypeOK
  <2>7. tx' \in [Handler -> Request]
    BY <1>4, RemoveRowsType DEF DeleteChild
  <2> QED BY <1>4, <2>3, <2>4, <2>5, <2>6, <2>7 DEF DeleteChild, TypeOK
<1> QED BY <1>1, <1>2, <1>3, <1>4 DEF SyncRework

LEMMA UpdateChildType ==
    ASSUME TypeOK, RequestOK, NEW h \in Handler, UpdateChild(h)
    PROVE  TypeOK'
<1>1. ASSUME NEW c \in Child, NEW to \in ChildStatus \cup {NoStatus}, BeginChildUpdate(h, c, to)
      PROVE  TypeOK'
  <2>1. [NoRequest EXCEPT !.op = "childUpdate", !.scope = c, !.to = to,
                          !.version = child[c].version] \in Request
    BY NoRequestType, ParentInScope
    DEF Request, Operation, AnyStatus, TypeOK, ChildRecord, ChildStatus, ReportStatus
  <2> QED BY <1>1, <2>1, TakeRequestType DEF BeginChildUpdate
<1>2. ASSUME CommitChildUpdate(h) PROVE TypeOK'
  <2> DEFINE c == tx[h].scope
             st == IF tx[h].to = NoStatus THEN child[c].status ELSE tx[h].to
  <2>1. c \in Child /\ st \in ChildStatus /\ child[c].version + 1 \in Nat
    BY <1>2 DEF CommitChildUpdate, RequestOK, RequestOf, TypeOK, ChildRecord, Live
  <2>2. child' = [child EXCEPT ![c].status = st, ![c].version = child[c].version + 1]
    BY <1>2, <2>1 DEF CommitChildUpdate, TypeOK, ChildRecord
  <2>3. child' \in [Child -> ChildRecord]
    <3> HIDE DEF c, st
    <3> QED BY SMTT(30), <2>1, <2>2 DEF TypeOK, ChildRecord
  <2> QED BY <1>2, <2>3, FinishType DEF CommitChildUpdate, TypeOK, rowVars, batchVars
<1> QED BY <1>1, <1>2 DEF UpdateChild

LEMMA EditChildSerialType ==
    ASSUME TypeOK, RequestOK, NEW h \in Handler, EditChildSerial(h)
    PROVE  TypeOK'
<1>1. ASSUME NEW c \in Child, NEW s \in Serial, NEW finding \in Finding,
             BeginChildEdit(h, c, s, finding)
      PROVE  TypeOK'
  <2>1. [NoRequest EXCEPT !.op = "childEdit", !.scope = c, !.rows = {<<c, s>>},
                          !.from = approval[<<c, s>>], !.finding = finding] \in Request
    BY ZenonT(30), <1>1, NoRequestType, RowTypes, ParentInScope
    DEF BeginChildEdit, Request, Operation, AnyStatus
  <2> QED BY <1>1, <2>1, TakeRequestType DEF BeginChildEdit
<1>2. ASSUME CommitChildEdit(h) PROVE TypeOK'
  <2>1. PICK r \in tx[h].rows :
           /\ data' = [data EXCEPT ![r] = tx[h].finding]
           /\ approval' = [approval EXCEPT ![r] =
                             IF tx[h].from = "NOT_INSPECTED" THEN "INSPECTED_DRAFT" ELSE @]
           /\ Finish(h)
           /\ UNCHANGED <<report, snapshot, child, rowVersion, batchVars>>
    BY <1>2 DEF CommitChildEdit
  <2>2. tx[h].finding \in Finding /\ r \in Row
    BY <2>1 DEF TypeOK, Request
  <2>3. approval' \in [Row -> SerialApprovalStatus \cup {NoStatus, Gone}]
    BY <2>1 DEF TypeOK, SerialApprovalStatus
  <2> QED BY <2>1, <2>2, <2>3, FinishType DEF TypeOK, batchVars
<1> QED BY <1>1, <1>2 DEF EditChildSerial

LEMMA TransitionChildType ==
    ASSUME TypeOK, RequestOK, NEW h \in Handler, TransitionChild(h)
    PROVE  TypeOK'
<1>1. ASSUME NEW c \in Child, NEW role \in Role, NEW to \in ChildStatus, NEW reason \in BOOLEAN,
             BeginChildTransition(h, role, c, to, reason)
      PROVE  TypeOK'
  <2>1. child[c].status \in ChildStatus
    BY <1>1 DEF BeginChildTransition, Live
  <2>2. [NoRequest EXCEPT !.op = "childTransition", !.scope = c,
                          !.from = child[c].status, !.to = to] \in Request
    BY <2>1, NoRequestType, ParentInScope
    DEF Request, Operation, AnyStatus, ChildStatus, ReportStatus
  <2> QED BY <1>1, <2>2, TakeRequestType DEF BeginChildTransition
<1>2. ASSUME CommitChildTransition(h) PROVE TypeOK'
  <2> DEFINE c == tx[h].scope
             reopen == tx[h].from = "APPROVED" /\ tx[h].to = "IN_INSPECTION"
             rev == child[c].revision + (IF tx[h].to = "APPROVED" \/ reopen THEN 1 ELSE 0)
  <2>1. c \in Child /\ tx[h].to \in ChildStatus
    BY <1>2 DEF CommitChildTransition, RequestOK, RequestOf
  <2>2. rev \in Nat
    BY <2>1 DEF TypeOK, ChildRecord
  <2>3. child' = [child EXCEPT ![c].status = tx[h].to, ![c].revision = rev,
                               ![c].logged = TRUE]
    BY <1>2, <2>1 DEF CommitChildTransition, TypeOK, ChildRecord
  <2>4. child' \in [Child -> ChildRecord]
    <3> HIDE DEF c, rev
    <3> QED BY <2>1, <2>2, <2>3, ChildWriteType
  <2>5. approval' \in [Row -> SerialApprovalStatus \cup {NoStatus, Gone}]
    BY <1>2 DEF CommitChildTransition, TypeOK, SerialApprovalStatus
  <2> QED BY <1>2, <2>4, <2>5, FinishType DEF CommitChildTransition, TypeOK, batchVars
<1> QED BY <1>1, <1>2 DEF TransitionChild

LEMMA TypeStep ==
    ASSUME TypeOK, RequestOK, [Next]_vars
    PROVE  TypeOK'
<1>1. CASE UNCHANGED vars
  BY <1>1 DEF vars, rowVars, batchVars, TypeOK
<1>2. CASE Next
  <2>1. PICK h \in Handler :
           \/ Transition(h) \/ Update(h) \/ CreateSerials(h) \/ EditSerial(h)
           \/ DeleteSerial(h) \/ Submit(h) \/ WriteRows(h) \/ Review(h)
           \/ SyncRework(h) \/ UpdateChild(h) \/ EditChildSerial(h)
           \/ TransitionChild(h) \/ Abort(h)
    BY <1>2 DEF Next
  <2>2. Abort(h) => TypeOK'
    BY FinishType DEF Abort, TypeOK, rowVars, batchVars
  <2> QED BY <2>1, <2>2, TransitionType, UpdateType, CreateSerialsType, EditSerialType,
             DeleteSerialType, SubmitType, WriteRowsType, ReviewType, SyncReworkType,
             UpdateChildType, EditChildSerialType, TransitionChildType
<1> QED BY <1>1, <1>2

----------------------------------------------------------------------------
(* Steps that commit no review: whatever they change, no serial becomes    *)
(* submitted or approved by them, and no batch changes.                    *)

(* A handler that has written nothing: idle, or its request only read.     *)
Fresh(g) ==
    /\ RequestOf(g)
    /\ tx[g].locked = {}
    /\ ~tx[g].closes
    /\ Judging(g) => tx[g].stage = "read" /\ tx[g].scope = batchScope[tx[g].batch]
    /\ tx[g].op = "submit" => tx[g].stage = "read"

LEMMA NoRequestFresh ==
    ASSUME NEW g \in Handler, tx'[g] = NoRequest
    PROVE  Fresh(g)' /\ ~Judging(g)'
BY DEF Fresh, RequestOf, Judging, NoRequest, ReviewOperation

LEMMA RequestStep ==
    ASSUME RequestOK, BatchesMade \subseteq BatchesMade',
           \A g \in Handler : tx'[g] = tx[g] \/ RequestOf(g)'
    PROVE  RequestOK'
<1> SUFFICES ASSUME NEW g \in Handler PROVE RequestOf(g)'
  BY DEF RequestOK
<1>1. CASE tx'[g] = tx[g]
  BY <1>1 DEF RequestOK, RequestOf, Judging
<1> QED BY <1>1

LEMMA QuietStep ==
    ASSUME ReviewInvariant, TypeOK',
           UNCHANGED <<batchStatus, batchScope, junction>>,
           \A g \in Handler : tx'[g] = tx[g] \/ Fresh(g)',
           \A c \in Child : Live(c) => Live(c)',
           \A c \in Child : child[c].status = Gone => child'[c].status = Gone,
           \A r \in Row : approval'[r] \in {"SUBMITTED_FOR_APPROVAL", "APPROVED"}
                         => approval'[r] = approval[r],
           \A g \in Handler : \A r \in tx'[g].locked : Exists(r)'
    PROVE  ReviewInvariant'
<1>1. RequestOK'
  BY RequestStep DEF ReviewInvariant, BatchesMade, Fresh
<1>2. LocksOK'
  BY DEF ReviewInvariant, LocksOK, Fresh
<1>3. SubmitsToLive'
  BY DEF ReviewInvariant, SubmitsToLive, Fresh, Live
<1>4. UnusedBatchEmpty'
  BY DEF ReviewInvariant, UnusedBatchEmpty, BatchesMade, Member
<1>5. SubmittedHeldOpen'
  <2> SUFFICES ASSUME NEW r \in Row, approval'[r] = "SUBMITTED_FOR_APPROVAL"
               PROVE  OpenBatchHolds(r)'
    BY DEF SubmittedHeldOpen
  <2>1. PICK b \in BatchesMade :
           /\ r \in Member(b)
           /\ batchStatus[b] = "SUBMITTED"
           /\ \A h \in Handler : Judging(h) /\ tx[h].batch = b =>
                 /\ tx[h].scope = r[1]
                 /\ tx[h].closes => r \in tx[h].locked
    BY DEF ReviewInvariant, SubmittedHeldOpen, OpenBatchHolds
  <2>2. b \in BatchesMade' /\ r \in Member(b)' /\ batchStatus'[b] = "SUBMITTED"
    BY <2>1 DEF BatchesMade, Member
  <2>3. r[1] = batchScope[b]
    BY <2>1 DEF Member
  <2>4. ASSUME NEW h \in Handler, Judging(h)', tx'[h].batch = b
        PROVE  /\ tx'[h].scope = r[1]
               /\ tx'[h].closes => r \in tx'[h].locked
    BY <2>1, <2>3, <2>4 DEF Fresh, Judging
  <2> QED BY <2>2, <2>4 DEF OpenBatchHolds
<1>6. NoneGone' => NoneGone
  BY DEF NoneGone, Live
<1>7. ScopesAgree'
  BY <1>6 DEF ReviewInvariant, ScopesAgree, Fresh, Judging
<1>8. MembershipLocked'
  BY DEF ReviewInvariant, MembershipLocked, Fresh, Judging
<1>9. ApprovedHasRecord'
  <2> SUFFICES ASSUME NoneGone', NEW r \in Row, approval'[r] = "APPROVED"
               PROVE  RecordHolds(r)'
    BY DEF ApprovedHasRecord
  <2>1. RecordHolds(r)
    BY <1>6 DEF ReviewInvariant, ApprovedHasRecord
  <2> QED BY <2>1 DEF RecordHolds, Fresh, Judging
<1> QED BY <1>1, <1>2, <1>3, <1>4, <1>5, <1>7, <1>8, <1>9 DEF ReviewInvariant

(* A step that only takes in a request, having read.                       *)
LEMMA TakeRequest ==
    ASSUME ReviewInvariant, TypeOK', NEW h \in Handler, NEW R,
           tx' = [tx EXCEPT ![h] = R], Fresh(h)',
           UNCHANGED <<report, snapshot, child, rowVars, batchVars>>
    PROVE  ReviewInvariant'
<1>1. \A g \in Handler : tx'[g] = tx[g] \/ Fresh(g)'
  BY DEF ReviewInvariant, TypeOK
<1>2. \A g \in Handler : \A r \in tx'[g].locked : Exists(r)'
  BY DEF ReviewInvariant, LocksOK, Exists, rowVars, Fresh, TypeOK
<1> QED BY <1>1, <1>2, QuietStep DEF rowVars, batchVars, Live

(* A new request of a kind that neither submits nor reviews.               *)
Plain(R) ==
    /\ R.op \in Operation \ {"submit", "approve", "return"}
    /\ R.locked = {}
    /\ R.closes = FALSE
    /\ R.op = "transition" => R.from \in ReportStatus /\ R.to \in ReportStatus
    /\ R.op = "update" => R.to \in ReportStatus \cup {NoStatus}
    /\ R.op = "createSerial" => R.to = "NOT_INSPECTED"
    /\ R.op = "childUpdate" => R.to \in ChildStatus \cup {NoStatus}
    /\ R.op = "childTransition" => R.to \in ChildStatus
    /\ R.op \in {"sync", "childUpdate", "childEdit", "childTransition"} =>
          R.scope \in Child
    /\ R.op = "sync" => R.rows \subseteq {R.scope} \X Serial

LEMMA TakePlain ==
    ASSUME ReviewInvariant, TypeOK', NEW h \in Handler, NEW R, Plain(R),
           tx' = [tx EXCEPT ![h] = R],
           UNCHANGED <<report, snapshot, child, rowVars, batchVars>>
    PROVE  ReviewInvariant'
<1>1. tx'[h] = R
  BY DEF ReviewInvariant, TypeOK
<1>2. Fresh(h)'
  BY <1>1 DEF Plain, Operation, Fresh, RequestOf, Judging, ReviewOperation
<1> QED BY <1>2, TakeRequest

LEMMA BeginWorkflowKeeps ==
    ASSUME ReviewInvariant, TypeOK', NEW h \in Handler,
           \/ \E role \in Role, to \in ReportStatus, reason \in BOOLEAN :
                  BeginTransition(h, role, to, reason)
           \/ \E to \in ReportStatus \cup {NoStatus} : BeginUpdate(h, to)
    PROVE  ReviewInvariant'
<1>1. report.status \in ReportStatus
  BY DEF ReviewInvariant, TypeOK, ReportRecord
<1>2. ASSUME NEW role \in Role, NEW to \in ReportStatus, NEW reason \in BOOLEAN,
             BeginTransition(h, role, to, reason)
      PROVE  ReviewInvariant'
  <2>1. Plain([NoRequest EXCEPT !.op = "transition", !.from = report.status, !.to = to,
                                !.version = report.version, !.itemVersion = report.revision])
    BY <1>1 DEF Plain, Operation, NoRequest
  <2> QED BY <1>2, <2>1, TakePlain DEF BeginTransition
<1>3. ASSUME NEW to \in ReportStatus \cup {NoStatus}, BeginUpdate(h, to)
      PROVE  ReviewInvariant'
  <2>1. Plain([NoRequest EXCEPT !.op = "update", !.from = report.status,
                                !.to = to, !.version = report.version])
    BY <1>1 DEF Plain, Operation, NoRequest
  <2> QED BY <1>3, <2>1, TakePlain DEF BeginUpdate
<1> QED BY <1>2, <1>3

LEMMA BeginSerialKeeps ==
    ASSUME ReviewInvariant, TypeOK', NEW h \in Handler,
           \/ \E serials \in SUBSET Serial : BeginCreateSerials(h, serials)
           \/ \E s \in Serial, finding \in Finding : BeginEditSerial(h, s, finding)
           \/ \E s \in Serial : BeginDeleteSerial(h, s)
    PROVE  ReviewInvariant'
<1>1. ASSUME NEW serials \in SUBSET Serial, BeginCreateSerials(h, serials)
      PROVE  ReviewInvariant'
  <2>1. Plain([NoRequest EXCEPT !.op = "createSerial", !.rows = {Parent} \X serials,
                                !.to = "NOT_INSPECTED"])
    BY DEF Plain, Operation, NoRequest
  <2> QED BY <1>1, <2>1, TakePlain DEF BeginCreateSerials
<1>2. ASSUME NEW s \in Serial, NEW finding \in Finding, BeginEditSerial(h, s, finding)
      PROVE  ReviewInvariant'
  <2>1. Plain([NoRequest EXCEPT !.op = "editSerial", !.rows = {<<Parent, s>>},
                                !.from = approval[<<Parent, s>>], !.finding = finding,
                                !.itemVersion = rowVersion[s]])
    BY DEF Plain, Operation, NoRequest
  <2> QED BY <1>2, <2>1, TakePlain DEF BeginEditSerial
<1>3. ASSUME NEW s \in Serial, BeginDeleteSerial(h, s) PROVE ReviewInvariant'
  <2>1. Plain([NoRequest EXCEPT !.op = "deleteSerial", !.rows = {<<Parent, s>>}])
    BY DEF Plain, Operation, NoRequest
  <2> QED BY <1>3, <2>1, TakePlain DEF BeginDeleteSerial
<1> QED BY <1>1, <1>2, <1>3

LEMMA BeginChildKeeps ==
    ASSUME ReviewInvariant, TypeOK', NEW h \in Handler,
           \/ \E c \in Child : BeginSync(h, c)
           \/ \E c \in Child, to \in ChildStatus \cup {NoStatus} : BeginChildUpdate(h, c, to)
           \/ \E c \in Child, s \in Serial, finding \in Finding :
                  BeginChildEdit(h, c, s, finding)
           \/ \E c \in Child, role \in Role, to \in ChildStatus, reason \in BOOLEAN :
                  BeginChildTransition(h, role, c, to, reason)
    PROVE  ReviewInvariant'
<1>1. ASSUME NEW c \in Child, BeginSync(h, c) PROVE ReviewInvariant'
  <2>1. {c} \X Matching \subseteq {c} \X Serial
    BY DEF Matching
  <2>2. Plain([NoRequest EXCEPT !.op = "sync", !.scope = c, !.rows = {c} \X Matching,
                                !.from = child[c].status])
    BY <2>1 DEF Plain, Operation, NoRequest
  <2> QED BY <1>1, <2>2, TakePlain DEF BeginSync
<1>2. ASSUME NEW c \in Child, NEW to \in ChildStatus \cup {NoStatus}, BeginChildUpdate(h, c, to)
      PROVE  ReviewInvariant'
  <2>1. Plain([NoRequest EXCEPT !.op = "childUpdate", !.scope = c, !.to = to,
                                !.version = child[c].version])
    BY DEF Plain, Operation, NoRequest
  <2> QED BY <1>2, <2>1, TakePlain DEF BeginChildUpdate
<1>3. ASSUME NEW c \in Child, NEW s \in Serial, NEW finding \in Finding,
             BeginChildEdit(h, c, s, finding)
      PROVE  ReviewInvariant'
  <2>1. Plain([NoRequest EXCEPT !.op = "childEdit", !.scope = c, !.rows = {<<c, s>>},
                                !.from = approval[<<c, s>>], !.finding = finding])
    BY DEF Plain, Operation, NoRequest
  <2> QED BY <1>3, <2>1, TakePlain DEF BeginChildEdit
<1>4. ASSUME NEW c \in Child, NEW role \in Role, NEW to \in ChildStatus, NEW reason \in BOOLEAN,
             BeginChildTransition(h, role, c, to, reason)
      PROVE  ReviewInvariant'
  <2>1. Plain([NoRequest EXCEPT !.op = "childTransition", !.scope = c,
                                !.from = child[c].status, !.to = to])
    BY DEF Plain, Operation, NoRequest
  <2> QED BY <1>4, <2>1, TakePlain DEF BeginChildTransition
<1> QED BY <1>1, <1>2, <1>3, <1>4

LEMMA BeginReviewKeeps ==
    ASSUME ReviewInvariant, TypeOK', NEW h \in Handler,
           \/ \E sc \in Scope, serials \in SUBSET Serial : BeginSubmit(h, sc, serials)
           \/ \E b \in Batch : \E named \in SUBSET Member(b) : BeginApprove(h, b, named)
           \/ \E b \in Batch : \E named \in SUBSET Member(b) : BeginReturn(h, b, named)
    PROVE  ReviewInvariant'
<1>1. ASSUME NEW sc \in Scope, NEW serials \in SUBSET Serial, BeginSubmit(h, sc, serials)
      PROVE  ReviewInvariant'
  <2> DEFINE R == [NoRequest EXCEPT !.op = "submit", !.scope = sc, !.rows = {sc} \X serials,
                                    !.to = "SUBMITTED_FOR_APPROVAL",
                                    !.version = report.version]
  <2>1. /\ R.op = "submit" /\ R.locked = {} /\ R.closes = FALSE /\ R.stage = "read"
        /\ R.to = "SUBMITTED_FOR_APPROVAL" /\ R.approves = FALSE
        /\ R.rows \subseteq {R.scope} \X Serial
    BY DEF NoRequest
  <2>2. tx' = [tx EXCEPT ![h] = R] /\ tx'[h] = R
    BY <1>1 DEF BeginSubmit, ReviewInvariant, TypeOK
  <2> HIDE DEF R
  <2>3. Fresh(h)'
    BY <2>1, <2>2 DEF Fresh, RequestOf, Judging, ReviewOperation
  <2> QED BY <1>1, <2>2, <2>3, TakeRequest DEF BeginSubmit
<1>2. ASSUME NEW op \in ReviewOperation, NEW b \in Batch, NEW named \in SUBSET Member(b),
             BeginReview(h, op, b, named)
      PROVE  ReviewInvariant'
  <2> DEFINE named1 == {r \in named : approval[r] = "SUBMITTED_FOR_APPROVAL"}
             R == [NoRequest EXCEPT !.op = op, !.scope = batchScope[b], !.batch = b,
                                    !.rows = named1,
                                    !.to = IF op = "approve" THEN "APPROVED"
                                           ELSE "INSPECTED_DRAFT",
                                    !.version = report.version,
                                    !.itemVersion = batchVersion[b]]
  <2>1. named1 \subseteq {batchScope[b]} \X Serial
    BY DEF Member
  <2>2. tx' = [tx EXCEPT ![h] = R] /\ tx'[h] = R
    BY <1>2 DEF BeginReview, ReviewInvariant, TypeOK
  <2> HIDE DEF named1
  <2>3. /\ R.op = op /\ R.locked = {} /\ R.closes = FALSE /\ R.stage = "read"
        /\ R.to = IF op = "approve" THEN "APPROVED" ELSE "INSPECTED_DRAFT"
        /\ R.batch = b /\ R.scope = batchScope[b]
        /\ R.rows \subseteq {R.scope} \X Serial
    BY <2>1 DEF NoRequest
  <2>4. b \in BatchesMade' /\ batchScope' = batchScope
    BY <1>2 DEF BeginReview, BatchesMade, batchVars, NoStatus
  <2> HIDE DEF R
  <2>5. Fresh(h)'
    BY <2>2, <2>3, <2>4 DEF Fresh, RequestOf, Judging, ReviewOperation
  <2> QED BY <1>2, <2>2, <2>5, TakeRequest DEF BeginReview
<1> QED BY <1>1, <1>2 DEF BeginApprove, BeginReturn, ReviewOperation

(* A request that ends after writing the rows W, none of them locked.      *)
LEMMA FinishKeeps ==
    ASSUME ReviewInvariant, TypeOK', NEW h \in Handler,
           NEW W \in SUBSET Row, Lockable(h, W),
           tx'[h] = NoRequest, \A g \in Handler : tx'[g] = tx[g] \/ tx'[g] = NoRequest,
           UNCHANGED <<batchStatus, batchScope, junction>>,
           \A c \in Child : Live(c) => Live(c)',
           \A c \in Child : child[c].status = Gone => child'[c].status = Gone,
           \A r \in Row \ W : approval'[r] = approval[r],
           \A r \in W : approval'[r] \in {"SUBMITTED_FOR_APPROVAL", "APPROVED"}
                         => approval'[r] = approval[r]
    PROVE  ReviewInvariant'
<1>1. \A g \in Handler : tx'[g] = tx[g] \/ Fresh(g)'
  BY NoRequestFresh
<1>2. ASSUME NEW g \in Handler, NEW r \in tx'[g].locked PROVE Exists(r)'
  <2>1. tx'[g] # NoRequest
    BY <1>2 DEF NoRequest
  <2>2. g # h /\ tx'[g] = tx[g]
    BY <2>1
  <2>3. r \in tx[g].locked /\ r \in Row /\ Exists(r)
    BY <1>2, <2>2 DEF ReviewInvariant, LocksOK, TypeOK, Request
  <2>4. r \notin W
    BY <2>2, <2>3 DEF Lockable
  <2> QED BY <2>3, <2>4 DEF Exists
<1>3. \A r \in Row : approval'[r] \in {"SUBMITTED_FOR_APPROVAL", "APPROVED"}
                     => approval'[r] = approval[r]
  OBVIOUS
<1> QED BY <1>1, <1>2, <1>3, QuietStep

LEMMA FinishAlone ==
    ASSUME ReviewInvariant, NEW h \in Handler, Finish(h)
    PROVE  tx'[h] = NoRequest /\ \A g \in Handler : tx'[g] = tx[g] \/ tx'[g] = NoRequest
BY DEF ReviewInvariant, TypeOK, Finish

LEMMA AbortKeeps ==
    ASSUME ReviewInvariant, TypeOK', NEW h \in Handler, Abort(h)
    PROVE  ReviewInvariant'
<1>1. Lockable(h, {})
  BY DEF Lockable
<1> QED BY <1>1, FinishAlone, FinishKeeps DEF Abort, rowVars, batchVars, Live

LEMMA CommitWorkflowKeeps ==
    ASSUME ReviewInvariant, TypeOK', NEW h \in Handler, CommitTransition(h) \/ CommitUpdate(h)
    PROVE  ReviewInvariant'
<1>1. ASSUME CommitTransition(h) PROVE ReviewInvariant'
  <2> DEFINE W == IF IsReopen(tx[h].from, tx[h].to) /\ tx[h].to = "IN_INSPECTION"
                  THEN {r \in RowsOf(Parent) : approval[r] = "APPROVED"} ELSE {}
  <2>1. W \in SUBSET Row
    BY DEF RowsOf, Row, Scope
  <2>2. /\ Lockable(h, W)
        /\ approval' = [r \in Row |-> IF r \in W THEN "INSPECTED_DRAFT" ELSE approval[r]]
    BY <1>1 DEF CommitTransition
  <2> HIDE DEF W
  <2> QED BY <1>1, <2>1, <2>2, FinishAlone, FinishKeeps DEF CommitTransition, batchVars, Live
<1>2. ASSUME CommitUpdate(h) PROVE ReviewInvariant'
  <2>1. Lockable(h, {})
    BY DEF Lockable
  <2> QED BY <1>2, <2>1, FinishAlone, FinishKeeps DEF CommitUpdate, rowVars, batchVars, Live
<1> QED BY <1>1, <1>2

LEMMA CommitSerialKeeps ==
    ASSUME ReviewInvariant, TypeOK', NEW h \in Handler,
           CommitCreateSerials(h) \/ CommitEditSerial(h) \/ CommitDeleteSerial(h)
    PROVE  ReviewInvariant'
<1>1. ASSUME CommitCreateSerials(h) PROVE ReviewInvariant'
  <2> DEFINE W == tx[h].rows
  <2>1. W \in SUBSET Row
    BY DEF ReviewInvariant, TypeOK, Request
  <2>2. \A r \in W : ~Exists(r)
    BY <1>1 DEF CommitCreateSerials, Exists, SerialApprovalStatus, NoStatus
  <2>3. Lockable(h, W)
    BY <2>2 DEF Lockable, ReviewInvariant, LocksOK
  <2>4. tx[h].to = "NOT_INSPECTED"
    BY <1>1 DEF CommitCreateSerials, ReviewInvariant, RequestOK, RequestOf
  <2>5. /\ \A r \in Row \ W : approval'[r] = approval[r]
        /\ \A r \in W : approval'[r] = "NOT_INSPECTED"
    BY <1>1, <2>1, <2>4 DEF CommitCreateSerials
  <2> HIDE DEF W
  <2> QED BY <1>1, <2>1, <2>3, <2>5, FinishAlone, FinishKeeps
          DEF CommitCreateSerials, batchVars, Live
<1>2. ASSUME CommitEditSerial(h) PROVE ReviewInvariant'
  <2>1. PICK s \in Serial :
          LET r == <<Parent, s>> IN
          /\ Lockable(h, {r})
          /\ approval' = [approval EXCEPT ![r] =
                            IF tx[h].from = "NOT_INSPECTED" THEN "INSPECTED_DRAFT" ELSE @]
    BY <1>2 DEF CommitEditSerial
  <2>2. {<<Parent, s>>} \in SUBSET Row
    BY DEF Row, Scope
  <2>3. /\ \A r \in Row \ {<<Parent, s>>} : approval'[r] = approval[r]
        /\ approval'[<<Parent, s>>] \in {"INSPECTED_DRAFT", approval[<<Parent, s>>]}
    BY <2>1, <2>2 DEF ReviewInvariant, TypeOK
  <2> QED BY <1>2, <2>1, <2>2, <2>3, FinishAlone, FinishKeeps
          DEF CommitEditSerial, batchVars, Live
<1>3. ASSUME CommitDeleteSerial(h) PROVE ReviewInvariant'
  <2>1. PICK s \in Serial :
          LET r == <<Parent, s>> IN
          /\ Lockable(h, {r})
          /\ approval' = [approval EXCEPT ![r] = Gone]
    BY <1>3 DEF CommitDeleteSerial
  <2>2. {<<Parent, s>>} \in SUBSET Row
    BY DEF Row, Scope
  <2>3. /\ \A r \in Row \ {<<Parent, s>>} : approval'[r] = approval[r]
        /\ approval'[<<Parent, s>>] = "DELETED"
    BY <2>1, <2>2 DEF ReviewInvariant, TypeOK, Gone
  <2> QED BY <1>3, <2>1, <2>2, <2>3, FinishAlone, FinishKeeps
          DEF CommitDeleteSerial, batchVars, Live
<1> QED BY <1>1, <1>2, <1>3

LEMMA CommitChildKeeps ==
    ASSUME ReviewInvariant, TypeOK', NEW h \in Handler,
           CommitChildUpdate(h) \/ CommitChildEdit(h) \/ CommitChildTransition(h)
    PROVE  ReviewInvariant'
<1> DEFINE c == tx[h].scope
<1>1. \A d \in Child : child[d] \in ChildRecord
  BY DEF ReviewInvariant, TypeOK
<1>2. ASSUME CommitChildUpdate(h) PROVE ReviewInvariant'
  <2>1. c \in Child /\ tx[h].to \in ChildStatus \cup {NoStatus}
    BY <1>2 DEF CommitChildUpdate, ReviewInvariant, RequestOK, RequestOf
  <2>2. Lockable(h, {})
    BY DEF Lockable
  <2>3. /\ \A d \in Child \ {c} : child'[d] = child[d]
        /\ child'[c].status \in ChildStatus
        /\ Live(c)
    BY <1>1, <1>2, <2>1 DEF CommitChildUpdate, ReviewInvariant, TypeOK, ChildRecord, Live
  <2>4. child[c].status # Gone
    BY <2>3 DEF Live, ChildStatus, Gone
  <2> HIDE DEF c
  <2> QED BY <1>2, <2>1, <2>2, <2>3, <2>4, FinishAlone, FinishKeeps
          DEF CommitChildUpdate, rowVars, batchVars, Live
<1>3. ASSUME CommitChildEdit(h) PROVE ReviewInvariant'
  <2>1. PICK r \in tx[h].rows :
          /\ Lockable(h, {r})
          /\ approval' = [approval EXCEPT ![r] =
                            IF tx[h].from = "NOT_INSPECTED" THEN "INSPECTED_DRAFT" ELSE @]
    BY <1>3 DEF CommitChildEdit
  <2>2. {r} \in SUBSET Row
    BY DEF ReviewInvariant, TypeOK, Request
  <2>3. /\ \A q \in Row \ {r} : approval'[q] = approval[q]
        /\ approval'[r] \in {"INSPECTED_DRAFT", approval[r]}
    BY <2>1, <2>2 DEF ReviewInvariant, TypeOK
  <2> QED BY <1>3, <2>1, <2>2, <2>3, FinishAlone, FinishKeeps
          DEF CommitChildEdit, batchVars, Live
<1>4. ASSUME CommitChildTransition(h) PROVE ReviewInvariant'
  <2> DEFINE W == IF tx[h].from = "APPROVED" /\ tx[h].to = "IN_INSPECTION"
                  THEN {r \in RowsOf(c) : approval[r] = "APPROVED"} ELSE {}
  <2>1. c \in Child /\ tx[h].to \in ChildStatus
    BY <1>4 DEF CommitChildTransition, ReviewInvariant, RequestOK, RequestOf
  <2>2. W \in SUBSET Row
    BY <2>1 DEF RowsOf, Row, Scope
  <2>3. /\ Lockable(h, W)
        /\ approval' = [r \in Row |-> IF r \in W THEN "INSPECTED_DRAFT" ELSE approval[r]]
    BY <1>4 DEF CommitChildTransition
  <2>4. /\ \A d \in Child \ {c} : child'[d] = child[d]
        /\ child'[c].status \in ChildStatus
        /\ Live(c)
    BY <1>1, <1>4, <2>1 DEF CommitChildTransition, ReviewInvariant, TypeOK, ChildRecord
  <2>5. child[c].status # Gone
    BY <2>4 DEF Live, ChildStatus, Gone
  <2>6. /\ Finish(h)
        /\ UNCHANGED <<batchStatus, batchScope, junction>>
    BY <1>4 DEF CommitChildTransition, batchVars
  <2> HIDE DEF c, W
  <2>7. /\ \A d \in Child : Live(d) => Live(d)'
        /\ \A d \in Child : child[d].status = Gone => child'[d].status = Gone
    BY <2>1, <2>4, <2>5 DEF Live
  <2>8. /\ \A r \in Row \ W : approval'[r] = approval[r]
        /\ \A r \in W : approval'[r] \in {"SUBMITTED_FOR_APPROVAL", "APPROVED"}
                        => approval'[r] = approval[r]
    BY <2>2, <2>3
  <2> QED BY <2>2, <2>3, <2>6, <2>7, <2>8, FinishAlone, FinishKeeps
<1> QED BY <1>2, <1>3, <1>4

LEMMA SyncKeeps ==
    ASSUME ReviewInvariant, TypeOK', NEW h \in Handler, CreateChild(h) \/ Reconcile(h)
    PROVE  ReviewInvariant'
<1> DEFINE c == tx[h].scope
<1>1. c \in Child
  BY DEF CreateChild, Reconcile, ReviewInvariant, RequestOK, RequestOf
<1>2. \A d \in Child : child[d] \in ChildRecord
  BY DEF ReviewInvariant, TypeOK
<1>3. ASSUME CreateChild(h) PROVE ReviewInvariant'
  <2>1. /\ tx'[h] = [tx[h] EXCEPT !.stage = "written"]
        /\ \A g \in Handler \ {h} : tx'[g] = tx[g]
    BY <1>3 DEF CreateChild, ReviewInvariant, TypeOK
  <2>2. /\ tx'[h].locked = {} /\ ~tx'[h].closes /\ tx'[h].op = "sync"
        /\ tx'[h].scope \in Child /\ tx'[h].rows \subseteq {tx'[h].scope} \X Serial
    <3>1. tx[h].op = "sync" /\ tx[h] \in Request
      BY <1>3 DEF CreateChild, ReviewInvariant, TypeOK
    <3>2. tx[h].locked = {}
      BY <3>1 DEF ReviewInvariant, LocksOK
    <3>3. ~tx[h].closes /\ tx[h].rows \subseteq {tx[h].scope} \X Serial
      BY <3>1 DEF ReviewInvariant, RequestOK, RequestOf, Judging, ReviewOperation
    <3>4. /\ tx'[h].op = tx[h].op /\ tx'[h].locked = tx[h].locked /\ tx'[h].closes = tx[h].closes
          /\ tx'[h].scope = tx[h].scope /\ tx'[h].rows = tx[h].rows
      BY <2>1, <3>1 DEF Request
    <3> QED BY <1>1, <3>1, <3>2, <3>3, <3>4
  <2>3. Fresh(h)'
    BY <2>2 DEF Fresh, RequestOf, Judging, ReviewOperation
  <2>4. \A g \in Handler : tx'[g] = tx[g] \/ Fresh(g)'
    BY <2>1, <2>3
  <2>5. \A g \in Handler : \A r \in tx'[g].locked : Exists(r)'
    BY <1>3, <2>1, <2>2 DEF CreateChild, ReviewInvariant, LocksOK, Exists, rowVars
  <2>6. /\ \A d \in Child \ {c} : child'[d] = child[d]
        /\ child'[c].status = "DRAFT" /\ child[c].status = NoStatus
    BY <1>1, <1>2, <1>3 DEF CreateChild, ReviewInvariant, TypeOK, ChildRecord
  <2>7. "DRAFT" \in ChildStatus /\ NoStatus # Gone
    BY DEF ChildStatus, NoStatus, Gone
  <2> HIDE DEF c
  <2> QED BY <1>3, <2>4, <2>5, <2>6, <2>7, QuietStep DEF CreateChild, rowVars, batchVars, Live
<1>4. ASSUME Reconcile(h) PROVE ReviewInvariant'
  <2> DEFINE leave == RowsOf(c) \ tx[h].rows
             join == tx[h].rows \ RowsOf(c)
  <2>1. /\ Lockable(h, leave)
        /\ RemoveRows(h, leave)
        /\ approval' = [r \in Row |-> IF r \in leave THEN NoStatus
                                      ELSE IF r \in join THEN "NOT_INSPECTED" ELSE approval[r]]
        /\ child' = [child EXCEPT ![c].version = @ + (IF tx[h].from # NoStatus THEN 1 ELSE 0)]
    BY <1>4 DEF Reconcile
  <2>2. leave \cup join \in SUBSET Row
    BY <1>1 DEF RowsOf, Row, Scope, ReviewInvariant, TypeOK, Request
  <2>3. \A r \in Row \ (leave \cup join) : approval'[r] = approval[r]
    BY <2>1
  <2>4. \A r \in leave \cup join : approval'[r] \in {"NONE", "NOT_INSPECTED"}
    BY <2>1, <2>2 DEF NoStatus
  <2>5. \A d \in Child : child'[d].status = child[d].status
    BY <1>1, <1>2, <2>1 DEF ReviewInvariant, TypeOK, ChildRecord
  <2>6. tx'[h] = NoRequest /\ \A g \in Handler : tx'[g] = tx[g] \/ tx'[g] = NoRequest
    BY <2>1 DEF RemoveRows
  <2>7. Lockable(h, leave \cup join)
    <3>1. ASSUME NEW g \in Handler \ {h}, NEW r \in tx[g].locked PROVE r \notin join
      <4>1. Exists(r) /\ tx[g].op \in {"submit", "approve", "return"}
        BY <3>1 DEF ReviewInvariant, LocksOK
      <4>2. SUFFICES ASSUME r \in tx[h].rows PROVE r \in RowsOf(c)
        OBVIOUS
      <4>3. r \in {c} \X Serial
        BY <1>4, <4>2 DEF Reconcile, ReviewInvariant, RequestOK, RequestOf
      <4> QED BY <4>1, <4>3 DEF RowsOf
    <3> QED BY <2>1, <3>1 DEF Lockable
  <2> HIDE DEF leave, join, c
  <2> QED BY <1>4, <2>2, <2>3, <2>4, <2>5, <2>6, <2>7, FinishKeeps
          DEF Reconcile, batchVars, Live
<1> QED BY <1>3, <1>4

----------------------------------------------------------------------------
(* The steps of a submission and of a review.                              *)

LEMMA WriteRowsKeeps ==
    ASSUME ReviewInvariant, TypeOK', NEW h \in Handler, WriteRows(h)
    PROVE  ReviewInvariant'
<1> DEFINE C == Judging(h) /\ NoneLeft(h)
<1>1. tx[h] \in Request /\ tx[h].op \in {"submit", "approve", "return"}
  BY DEF WriteRows, ReviewInvariant, TypeOK, ReviewOperation
<1>2. /\ tx'[h] = [tx[h] EXCEPT !.stage = "written", !.locked = Hits(h), !.closes = C]
      /\ \A g \in Handler \ {h} : tx'[g] = tx[g]
  BY DEF WriteRows, ReviewInvariant, TypeOK
<1>3. /\ tx'[h].stage = "written" /\ tx'[h].locked = Hits(h) /\ tx'[h].closes = C
      /\ tx'[h].op = tx[h].op /\ tx'[h].rows = tx[h].rows /\ tx'[h].scope = tx[h].scope
      /\ tx'[h].batch = tx[h].batch /\ tx'[h].from = tx[h].from /\ tx'[h].to = tx[h].to
      /\ tx'[h].approves = tx[h].approves
  BY <1>1, <1>2 DEF Request
<1>4. C => Judging(h)
  OBVIOUS
<1>5. \A r \in Row : r[1] = tx[h].scope /\ C /\ r \in Member(tx[h].batch)
                     /\ approval[r] = "SUBMITTED_FOR_APPROVAL" => r \in tx[h].rows
  BY DEF NoneLeft, Member, Row
<1>6. UNCHANGED <<report, snapshot, child, rowVars, batchVars>>
  BY DEF WriteRows
<1>15. /\ Lockable(h, Hits(h))
       /\ \A g \in Handler \ {h} : Judging(g) /\ Judging(h) /\ tx[g].batch = tx[h].batch =>
              tx[g].stage = "read" \/ tx[g].rows \cap tx[h].rows = {}
       /\ tx[h].op = "submit" /\ tx[h].scope \in Child => Live(tx[h].scope)
  BY DEF WriteRows
<1> HIDE DEF C
<1> USE DEF rowVars, batchVars
<1>7. RequestOK'
  <2>1. RequestOf(h)'
    BY <1>1, <1>3, <1>4, <1>6
    DEF ReviewInvariant, RequestOK, RequestOf, Judging, ReviewOperation, BatchesMade
  <2> QED BY <1>2, <1>6, <2>1, RequestStep DEF ReviewInvariant, BatchesMade
<1>8. LocksOK'
  <2>1. ASSUME NEW g \in Handler, NEW i \in Handler \ {g}
        PROVE  tx'[g].locked \cap tx'[i].locked = {}
    <3>1. CASE g # h /\ i # h
      BY <1>2, <3>1 DEF ReviewInvariant, LocksOK
    <3>2. CASE g = h
      <4>1. i # h /\ tx'[i].locked = tx[i].locked /\ tx[i].locked \cap Hits(h) = {}
        BY <1>2, <1>15, <3>2 DEF Lockable
      <4> QED BY <1>3, <3>2, <4>1
    <3>3. CASE i = h
      <4>1. g # h /\ tx'[g].locked = tx[g].locked /\ tx[g].locked \cap Hits(h) = {}
        BY <1>2, <1>15, <3>3 DEF Lockable
      <4> QED BY <1>3, <3>3, <4>1
    <3> QED BY <3>1, <3>2, <3>3
  <2>2. ASSUME NEW g \in Handler
        PROVE  /\ tx'[g].locked # {} =>
                    tx'[g].op \in {"submit", "approve", "return"} /\ tx'[g].stage # "read"
               /\ tx'[g].locked \subseteq tx'[g].rows
               /\ \A r \in tx'[g].locked : Exists(r)'
    BY ZenonT(30), <1>1, <1>2, <1>3, <1>6 DEF ReviewInvariant, LocksOK, Hits, Exists
  <2> QED BY <2>1, <2>2 DEF LocksOK
<1>9. SubmitsToLive'
  <2>1. ASSUME NEW g \in Handler, tx'[g].op = "submit", tx'[g].stage # "read",
               tx'[g].scope \in Child
        PROVE  child'[tx'[g].scope].status \in ChildStatus
    <3>1. CASE g # h
      BY <1>2, <1>6, <2>1, <3>1 DEF ReviewInvariant, SubmitsToLive, Live
    <3>2. CASE g = h
      BY <1>3, <1>6, <1>15, <2>1, <3>2 DEF Live
    <3> QED BY <3>1, <3>2
  <2> QED BY <2>1 DEF SubmitsToLive, Live
<1>10. UnusedBatchEmpty'
  BY <1>6 DEF ReviewInvariant, UnusedBatchEmpty, BatchesMade, Member
<1>11. SubmittedHeldOpen'
  <2> SUFFICES ASSUME NEW r \in Row, approval'[r] = "SUBMITTED_FOR_APPROVAL"
               PROVE  OpenBatchHolds(r)'
    BY DEF SubmittedHeldOpen
  <2>1. PICK b \in BatchesMade :
           /\ r \in Member(b)
           /\ batchStatus[b] = "SUBMITTED"
           /\ \A g \in Handler : Judging(g) /\ tx[g].batch = b =>
                 /\ tx[g].scope = r[1]
                 /\ tx[g].closes => r \in tx[g].locked
    BY <1>6 DEF ReviewInvariant, SubmittedHeldOpen, OpenBatchHolds
  <2>2. Exists(r)
    BY <1>6 DEF Exists, SerialApprovalStatus
  <2>3. ASSUME NEW g \in Handler, Judging(g)', tx'[g].batch = b
        PROVE  /\ tx'[g].scope = r[1]
               /\ tx'[g].closes => r \in tx'[g].locked
    <3>1. CASE g # h
      BY <1>2, <2>1, <2>3, <3>1 DEF Judging
    <3>2. CASE g = h
      BY <1>3, <1>5, <1>6, <2>1, <2>2, <2>3, <3>2 DEF Judging, Hits
    <3> QED BY <3>1, <3>2
  <2> QED BY <1>6, <2>1, <2>3 DEF OpenBatchHolds, BatchesMade, Member
<1>12. ScopesAgree'
  <2>1. \A g \in Handler : /\ tx'[g].op = tx[g].op
                           /\ tx'[g].scope = tx[g].scope
                           /\ tx'[g].batch = tx[g].batch
    BY <1>2, <1>3
  <2> QED BY <1>6, <2>1 DEF ReviewInvariant, ScopesAgree, NoneGone, Judging
<1>13. MembershipLocked'
  <2> SUFFICES ASSUME NEW g \in Handler, NEW i \in Handler, g # i, Judging(g)', Judging(i)',
                      tx'[g].batch = tx'[i].batch, tx'[g].stage # "read", tx'[i].stage # "read"
               PROVE  tx'[g].rows \cap tx'[i].rows = {}
    BY DEF MembershipLocked
  <2>1. CASE g # h /\ i # h
    BY <1>2, <2>1 DEF ReviewInvariant, MembershipLocked, Judging
  <2>2. CASE g = h
    BY <1>2, <1>3, <1>15, <2>2 DEF Judging
  <2>3. CASE i = h
    BY <1>2, <1>3, <1>15, <2>3 DEF Judging
  <2> QED BY <2>1, <2>2, <2>3
<1>14. ApprovedHasRecord'
  <2> SUFFICES ASSUME NoneGone, NEW r \in Row, approval'[r] = "APPROVED"
               PROVE  RecordHolds(r)'
    BY <1>6 DEF ApprovedHasRecord, NoneGone
  <2>1. PICK b \in Batch :
          /\ batchScope[b] = r[1]
          /\ junction[b][r[2]] = "APPROVED"
          /\ \A g \in Handler :
                Judging(g) /\ tx[g].batch = b /\ tx[g].stage # "read" /\ r \in tx[g].rows
                => r \in tx[g].locked
    BY <1>6 DEF ReviewInvariant, ApprovedHasRecord, RecordHolds
  <2>2. Exists(r)
    BY <1>6 DEF Exists, SerialApprovalStatus
  <2>3. ASSUME NEW g \in Handler, Judging(g)', tx'[g].batch = b, tx'[g].stage # "read",
               r \in tx'[g].rows
        PROVE  r \in tx'[g].locked
    <3>1. CASE g # h
      BY <1>2, <2>1, <2>3, <3>1 DEF Judging
    <3>2. CASE g = h
      BY <1>3, <2>2, <2>3, <3>2 DEF Hits
    <3> QED BY <3>1, <3>2
  <2> QED BY <1>6, <2>1, <2>3 DEF RecordHolds
<1> QED BY <1>7, <1>8, <1>9, <1>10, <1>11, <1>12, <1>13, <1>14 DEF ReviewInvariant

(* Taking the last decision changes only the stage and that decision.      *)
LEMMA ClosingKeeps ==
    ASSUME ReviewInvariant, TypeOK', NEW h \in Handler, WriteBatch(h) \/ CountChildRows(h)
    PROVE  ReviewInvariant'
<1>1. tx[h] \in Request /\ tx[h].stage # "read"
  BY DEF WriteBatch, CountChildRows, ReviewInvariant, TypeOK
<1>2. PICK A \in BOOLEAN :
        /\ tx'[h] = [tx[h] EXCEPT !.stage = "closing", !.approves = A]
        /\ \A g \in Handler \ {h} : tx'[g] = tx[g]
        /\ tx[h].op = "submit" => tx[h].scope \in Child
        /\ tx[h].op \in {"submit", "approve", "return"}
  BY DEF WriteBatch, CountChildRows, ReviewInvariant, TypeOK, Judging, ReviewOperation
<1>3. /\ tx'[h].stage = "closing" /\ tx'[h].locked = tx[h].locked /\ tx'[h].closes = tx[h].closes
      /\ tx'[h].op = tx[h].op /\ tx'[h].rows = tx[h].rows /\ tx'[h].scope = tx[h].scope
      /\ tx'[h].batch = tx[h].batch /\ tx'[h].from = tx[h].from /\ tx'[h].to = tx[h].to
  BY <1>1, <1>2 DEF Request
<1>4. UNCHANGED <<report, snapshot, child, rowVars, batchVars>>
  BY DEF WriteBatch, CountChildRows
<1>5. \A g \in Handler :
        /\ tx'[g].op = tx[g].op /\ tx'[g].rows = tx[g].rows /\ tx'[g].scope = tx[g].scope
        /\ tx'[g].batch = tx[g].batch /\ tx'[g].locked = tx[g].locked
        /\ tx'[g].closes = tx[g].closes
        /\ tx'[g].stage = "read" <=> tx[g].stage = "read"
  BY <1>1, <1>2, <1>3
<1> USE DEF rowVars, batchVars
<1>6. RequestOK'
  <2>1. RequestOf(h)'
    BY <1>2, <1>3, <1>4
    DEF ReviewInvariant, RequestOK, RequestOf, Judging, ReviewOperation, BatchesMade
  <2> QED BY <1>2, <1>4, <2>1, RequestStep DEF ReviewInvariant, BatchesMade
<1>7. LocksOK'
  BY <1>4, <1>5 DEF ReviewInvariant, LocksOK, Exists
<1>8. SubmitsToLive'
  BY <1>4, <1>5 DEF ReviewInvariant, SubmitsToLive, Live
<1>9. UnusedBatchEmpty'
  BY <1>4 DEF ReviewInvariant, UnusedBatchEmpty, BatchesMade, Member
<1>10. SubmittedHeldOpen'
  BY <1>4, <1>5 DEF ReviewInvariant, SubmittedHeldOpen, OpenBatchHolds, BatchesMade, Member, Judging
<1>11. ScopesAgree'
  BY <1>4, <1>5 DEF ReviewInvariant, ScopesAgree, NoneGone, Judging
<1>12. MembershipLocked'
  BY <1>5 DEF ReviewInvariant, MembershipLocked, Judging
<1>13. ApprovedHasRecord'
  BY <1>4, <1>5 DEF ReviewInvariant, ApprovedHasRecord, RecordHolds, NoneGone, Judging
<1> QED BY <1>6, <1>7, <1>8, <1>9, <1>10, <1>11, <1>12, <1>13 DEF ReviewInvariant

(* What a transaction has written, seen by all once it commits.            *)
LEMMA SeenRows ==
    ASSUME ReviewInvariant, NEW h \in Handler, approval' = Seen(h), tx'[h] = NoRequest,
           \A g \in Handler \ {h} : tx'[g] = tx[g],
           tx[h].to \in SerialApprovalStatus
    PROVE  /\ LocksOK'
           /\ \A r \in Row : approval'[r] = IF r \in tx[h].locked THEN tx[h].to ELSE approval[r]
<1>1. \A r \in Row : approval'[r] = IF r \in tx[h].locked THEN tx[h].to ELSE approval[r]
  BY DEF Seen
<1>2. ASSUME NEW g \in Handler
      PROVE  /\ tx'[g].locked # {} =>
                  tx'[g].op \in {"submit", "approve", "return"} /\ tx'[g].stage # "read"
             /\ tx'[g].locked \subseteq tx'[g].rows
             /\ \A r \in tx'[g].locked : Exists(r)'
  <2>1. CASE g = h
    BY <2>1 DEF NoRequest
  <2>2. CASE g # h
    <3>1. tx[g].locked \subseteq Row
      BY DEF ReviewInvariant, TypeOK, Request
    <3> QED BY <1>1, <2>2, <3>1 DEF ReviewInvariant, LocksOK, Exists
  <2> QED BY <2>1, <2>2
<1>3. ASSUME NEW g \in Handler, NEW i \in Handler \ {g}
      PROVE  tx'[g].locked \cap tx'[i].locked = {}
  <2>1. CASE g # h /\ i # h
    BY <2>1 DEF ReviewInvariant, LocksOK
  <2>2. CASE g = h \/ i = h
    BY <2>2 DEF NoRequest
  <2> QED BY <2>1, <2>2
<1> QED BY <1>1, <1>2, <1>3 DEF LocksOK

LEMMA MembershipStays ==
    ASSUME ReviewInvariant, \A g \in Handler : tx'[g] = tx[g] \/ tx'[g] = NoRequest
    PROVE  MembershipLocked'
<1>1. ASSUME NEW g \in Handler, Judging(g)' PROVE tx'[g] = tx[g] /\ Judging(g)
  BY <1>1 DEF Judging, NoRequest, ReviewOperation
<1> QED BY <1>1 DEF ReviewInvariant, MembershipLocked

LEMMA CommitSubmitKeeps ==
    ASSUME ReviewInvariant, TypeOK', NEW h \in Handler, CommitSubmit(h)
    PROVE  ReviewInvariant'
<1> DEFINE sc == tx[h].scope
           J == [s \in Serial |-> IF <<sc, s>> \in tx[h].rows THEN "PENDING" ELSE NoStatus]
<1>1. PICK b \in Batch \ BatchesMade :
        /\ batchStatus' = [batchStatus EXCEPT ![b] = "SUBMITTED"]
        /\ batchScope' = [batchScope EXCEPT ![b] = sc]
        /\ junction' = [junction EXCEPT ![b] = J]
        /\ approval' = Seen(h)
        /\ tx[h].op = "submit"
        /\ Finish(h)
        /\ tx[h].stage # "read"
        /\ child' = IF tx[h].approves
                    THEN [child EXCEPT ![sc].status = "PENDING_APPROVAL", ![sc].logged = TRUE]
                    ELSE child
  BY DEF CommitSubmit
<1>2. /\ tx[h].to = "SUBMITTED_FOR_APPROVAL"
      /\ tx[h].rows \subseteq {sc} \X Serial
      /\ tx[h].approves => sc \in Child
      /\ tx[h].locked \subseteq tx[h].rows
  BY <1>1 DEF ReviewInvariant, RequestOK, RequestOf, LocksOK
<1>3. tx'[h] = NoRequest /\ \A g \in Handler \ {h} : tx'[g] = tx[g]
  BY <1>1 DEF ReviewInvariant, TypeOK, Finish
<1>4. /\ batchStatus'[b] = "SUBMITTED" /\ batchScope'[b] = sc /\ junction'[b] = J
      /\ \A d \in Batch \ {b} : /\ batchStatus'[d] = batchStatus[d]
                                /\ batchScope'[d] = batchScope[d]
                                /\ junction'[d] = junction[d]
  BY <1>1 DEF ReviewInvariant, TypeOK
<1>5. BatchesMade' = BatchesMade \cup {b}
  BY <1>4 DEF BatchesMade, NoStatus
<1>6. ASSUME NEW g \in Handler, Judging(g)'
      PROVE  tx'[g] = tx[g] /\ Judging(g) /\ tx[g].batch # b /\ tx[g].batch \in BatchesMade
  <2>1. g # h /\ tx'[g] = tx[g]
    BY <1>3, <1>6 DEF Judging, NoRequest, ReviewOperation
  <2>2. Judging(g)
    BY <1>6, <2>1 DEF Judging
  <2> QED BY <2>1, <2>2 DEF ReviewInvariant, RequestOK, RequestOf
<1>7. LocksOK' /\ \A r \in Row : approval'[r] = IF r \in tx[h].locked THEN tx[h].to
                                               ELSE approval[r]
  BY <1>1, <1>2, <1>3, SeenRows DEF SerialApprovalStatus
<1>8. \A c \in Child : /\ Live(c) => Live(c)'
                       /\ child'[c].status # Gone => child[c].status # Gone
  <2>1. CASE tx[h].approves
    <3>1. Live(sc)
      BY <1>1, <1>2, <2>1 DEF ReviewInvariant, SubmitsToLive
    <3>2. child[sc].status # Gone
      BY <3>1 DEF Live, ChildStatus, Gone
    <3>3. \A c \in Child : child[c] \in ChildRecord
      BY DEF ReviewInvariant, TypeOK
    <3>4. /\ child'[sc].status = "PENDING_APPROVAL"
          /\ \A c \in Child \ {sc} : child'[c] = child[c]
      BY <1>1, <1>2, <2>1, <3>3 DEF ReviewInvariant, TypeOK, ChildRecord
    <3>5. "PENDING_APPROVAL" \in ChildStatus
      BY DEF ChildStatus
    <3> HIDE DEF sc
    <3> QED BY <3>2, <3>4, <3>5 DEF Live
  <2>2. CASE ~tx[h].approves
    BY <1>1, <2>2 DEF Live
  <2> QED BY <2>1, <2>2
<1> HIDE DEF J
<1>9. RequestOK'
  <2>1. RequestOf(h)'
    BY <1>3, NoRequestFresh DEF Fresh
  <2> QED BY <1>3, <1>5, <2>1, RequestStep DEF ReviewInvariant
<1>10. SubmitsToLive'
  <2>1. ASSUME NEW g \in Handler, tx'[g].op = "submit", tx'[g].stage # "read",
               tx'[g].scope \in Child
        PROVE  child'[tx'[g].scope].status \in ChildStatus
    BY <1>3, <1>8, <2>1 DEF ReviewInvariant, SubmitsToLive, Live, NoRequest
  <2> QED BY <2>1 DEF SubmitsToLive, Live
<1>11. UnusedBatchEmpty'
  BY <1>4, <1>5 DEF ReviewInvariant, UnusedBatchEmpty, Member
<1>12. SubmittedHeldOpen'
  <2> SUFFICES ASSUME NEW r \in Row, approval'[r] = "SUBMITTED_FOR_APPROVAL"
               PROVE  OpenBatchHolds(r)'
    BY DEF SubmittedHeldOpen
  <2>1. CASE r \in tx[h].locked
    <3>1. PICK s \in Serial : r = <<sc, s>>
      BY <1>2, <2>1
    <3>2. J[s] = "PENDING"
      BY <1>2, <2>1, <3>1 DEF J
    <3>3. r \in Member(b)'
      BY <1>4, <3>1, <3>2 DEF Member, NoStatus
    <3> QED BY <1>4, <1>5, <1>6, <3>3 DEF OpenBatchHolds
  <2>2. CASE r \notin tx[h].locked
    <3>1. PICK d \in BatchesMade :
             /\ r \in Member(d)
             /\ batchStatus[d] = "SUBMITTED"
             /\ \A g \in Handler : Judging(g) /\ tx[g].batch = d =>
                   /\ tx[g].scope = r[1]
                   /\ tx[g].closes => r \in tx[g].locked
      BY <1>7, <2>2 DEF ReviewInvariant, SubmittedHeldOpen, OpenBatchHolds
    <3>2. d # b /\ d \in Batch
      BY DEF BatchesMade
    <3>3. r \in Member(d)' /\ batchStatus'[d] = "SUBMITTED"
      BY <1>4, <3>1, <3>2 DEF Member
    <3> QED BY <1>5, <1>6, <3>1, <3>3 DEF OpenBatchHolds
  <2> QED BY <2>1, <2>2
<1>13. NoneGone' => NoneGone
  BY <1>8 DEF NoneGone
<1>14. ScopesAgree'
  <2> SUFFICES ASSUME NoneGone, NEW g \in Handler, Judging(g)'
               PROVE  tx'[g].scope = batchScope'[tx'[g].batch]
    BY <1>13 DEF ScopesAgree
  <2>1. tx[g].scope = batchScope[tx[g].batch] /\ tx[g].batch \in Batch \ {b}
    BY <1>6 DEF ReviewInvariant, ScopesAgree, BatchesMade
  <2> QED BY <1>4, <1>6, <2>1
<1>15. MembershipLocked'
  BY <1>3, MembershipStays
<1>16. ApprovedHasRecord'
  <2> SUFFICES ASSUME NoneGone, NEW r \in Row, approval'[r] = "APPROVED"
               PROVE  RecordHolds(r)'
    BY <1>13 DEF ApprovedHasRecord
  <2>1. PICK d \in Batch :
          /\ batchScope[d] = r[1]
          /\ junction[d][r[2]] = "APPROVED"
          /\ \A g \in Handler :
                Judging(g) /\ tx[g].batch = d /\ tx[g].stage # "read" /\ r \in tx[g].rows
                => r \in tx[g].locked
    BY <1>2, <1>7 DEF ReviewInvariant, ApprovedHasRecord, RecordHolds
  <2>2. d # b
    <3>1. r[2] \in Serial
      BY DEF Row
    <3>2. Member(b) = {}
      BY DEF ReviewInvariant, UnusedBatchEmpty
    <3>3. junction[b][r[2]] = NoStatus
      BY <3>1, <3>2 DEF Member
    <3> QED BY <2>1, <3>3 DEF NoStatus
  <2>3. batchScope'[d] = r[1] /\ junction'[d][r[2]] = "APPROVED"
    BY <1>4, <2>1, <2>2
  <2> QED BY <1>6, <2>1, <2>3 DEF RecordHolds
<1> QED BY <1>7, <1>9, <1>10, <1>11, <1>12, <1>14, <1>15, <1>16 DEF ReviewInvariant

LEMMA CommitReviewKeeps ==
    ASSUME ReviewInvariant, TypeOK', NEW h \in Handler, CommitReview(h)
    PROVE  ReviewInvariant'
<1> DEFINE b == tx[h].batch
           sc == tx[h].scope
           verdict == IF tx[h].op = "approve" THEN "APPROVED" ELSE "RETURNED"
           J == [s \in Serial |-> IF <<sc, s>> \in tx[h].rows THEN verdict ELSE junction[b][s]]
<1>1. /\ Judging(h)
      /\ tx[h].stage # "read"
      /\ approval' = Seen(h)
      /\ batchStatus' = [batchStatus EXCEPT ![b] = IF tx[h].closes THEN verdict ELSE "SUBMITTED"]
      /\ junction' = [junction EXCEPT ![b] = J]
      /\ batchScope' = batchScope
      /\ Finish(h)
  BY DEF CommitReview
<1>2. /\ tx[h].op = "approve" => tx[h].to = "APPROVED"
      /\ tx[h].op = "return" => tx[h].to = "INSPECTED_DRAFT"
      /\ tx[h].op \in {"approve", "return"}
      /\ tx[h].rows \subseteq {sc} \X Serial
      /\ tx[h].locked \subseteq tx[h].rows
      /\ b \in BatchesMade
  BY <1>1 DEF ReviewInvariant, RequestOK, RequestOf, LocksOK, Judging, ReviewOperation
<1>3. tx'[h] = NoRequest /\ \A g \in Handler \ {h} : tx'[g] = tx[g]
  BY <1>1 DEF ReviewInvariant, TypeOK, Finish
<1>4. /\ batchStatus'[b] = IF tx[h].closes THEN verdict ELSE "SUBMITTED"
      /\ junction'[b] = J
      /\ \A d \in Batch \ {b} : batchStatus'[d] = batchStatus[d] /\ junction'[d] = junction[d]
  BY <1>1, <1>2 DEF ReviewInvariant, TypeOK, BatchesMade
<1>5. BatchesMade' = BatchesMade
  BY <1>2, <1>4 DEF BatchesMade, NoStatus
<1>6. ASSUME NEW g \in Handler, Judging(g)'
      PROVE  g # h /\ tx'[g] = tx[g] /\ Judging(g) /\ tx[g].batch \in BatchesMade
  <2>1. g # h /\ tx'[g] = tx[g]
    BY <1>3, <1>6 DEF Judging, NoRequest, ReviewOperation
  <2>2. Judging(g)
    BY <1>6, <2>1 DEF Judging
  <2> QED BY <2>1, <2>2 DEF ReviewInvariant, RequestOK, RequestOf
<1>7. LocksOK' /\ \A r \in Row : approval'[r] = IF r \in tx[h].locked THEN tx[h].to
                                               ELSE approval[r]
  BY <1>1, <1>2, <1>3, SeenRows DEF SerialApprovalStatus
<1>8. \A c \in Child : /\ Live(c) => Live(c)'
                       /\ child'[c].status # Gone => child[c].status # Gone
  <2>1. CASE child' = child
    BY <2>1 DEF Live
  <2>2. CASE child' # child
    <3>1. /\ child' = [child EXCEPT ![sc].status = "APPROVED", ![sc].logged = TRUE]
          /\ sc \in Child
          /\ Live(sc)
      BY <2>2 DEF CommitReview
    <3>2. child[sc].status # Gone
      BY <3>1 DEF Live, ChildStatus, Gone
    <3>3. \A c \in Child : child[c] \in ChildRecord
      BY DEF ReviewInvariant, TypeOK
    <3>4. /\ child'[sc].status = "APPROVED"
          /\ \A c \in Child \ {sc} : child'[c] = child[c]
      BY <3>1, <3>3 DEF ReviewInvariant, TypeOK, ChildRecord
    <3>5. "APPROVED" \in ChildStatus
      BY DEF ChildStatus
    <3> HIDE DEF sc
    <3> QED BY <3>2, <3>4, <3>5 DEF Live
  <2> QED BY <2>1, <2>2
<1>9. \A s \in Serial : J[s] = IF <<sc, s>> \in tx[h].rows THEN verdict ELSE junction[b][s]
  OBVIOUS
<1>10. verdict \in {"APPROVED", "RETURNED"} /\ (tx[h].op = "approve" => verdict = "APPROVED")
  OBVIOUS
<1> HIDE DEF J, verdict
<1>11. RequestOK'
  <2>1. RequestOf(h)'
    BY <1>3, NoRequestFresh DEF Fresh
  <2> QED BY <1>3, <1>5, <2>1, RequestStep DEF ReviewInvariant
<1>12. SubmitsToLive'
  <2>1. ASSUME NEW g \in Handler, tx'[g].op = "submit", tx'[g].stage # "read",
               tx'[g].scope \in Child
        PROVE  child'[tx'[g].scope].status \in ChildStatus
    BY <1>3, <1>8, <2>1 DEF ReviewInvariant, SubmitsToLive, Live, NoRequest
  <2> QED BY <2>1 DEF SubmitsToLive, Live
<1>13. UnusedBatchEmpty'
  BY <1>1, <1>2, <1>4, <1>5 DEF ReviewInvariant, UnusedBatchEmpty, Member
<1>14. SubmittedHeldOpen'
  <2> SUFFICES ASSUME NEW r \in Row, approval'[r] = "SUBMITTED_FOR_APPROVAL"
               PROVE  OpenBatchHolds(r)'
    BY DEF SubmittedHeldOpen
  <2>1. r \notin tx[h].locked /\ approval[r] = "SUBMITTED_FOR_APPROVAL"
    BY <1>2, <1>7
  <2>2. PICK d \in BatchesMade :
           /\ r \in Member(d)
           /\ batchStatus[d] = "SUBMITTED"
           /\ \A g \in Handler : Judging(g) /\ tx[g].batch = d =>
                 /\ tx[g].scope = r[1]
                 /\ tx[g].closes => r \in tx[g].locked
    BY <2>1 DEF ReviewInvariant, SubmittedHeldOpen, OpenBatchHolds
  <2>3. d \in Batch
    BY DEF BatchesMade
  <2>4. r \in Member(d)' /\ batchStatus'[d] = "SUBMITTED"
    <3>1. CASE d # b
      BY <1>1, <1>4, <2>2, <2>3, <3>1 DEF Member
    <3>2. CASE d = b
      <4>1. ~tx[h].closes
        BY <1>1, <2>1, <2>2, <3>2
      <4>2. PICK s \in Serial : r = <<batchScope[b], s>> /\ junction[b][s] # NoStatus
        BY <2>2, <3>2 DEF Member
      <4>3. J[s] # NoStatus
        BY <1>9, <1>10, <4>2 DEF NoStatus
      <4> QED BY <1>1, <1>4, <3>2, <4>1, <4>2, <4>3 DEF Member
    <3> QED BY <3>1, <3>2
  <2> QED BY <1>5, <1>6, <2>2, <2>4 DEF OpenBatchHolds
<1>15. NoneGone' => NoneGone
  BY <1>8 DEF NoneGone
<1>16. ScopesAgree'
  <2> SUFFICES ASSUME NoneGone, NEW g \in Handler, Judging(g)'
               PROVE  tx'[g].scope = batchScope'[tx'[g].batch]
    BY <1>15 DEF ScopesAgree
  <2> QED BY <1>1, <1>6 DEF ReviewInvariant, ScopesAgree
<1>17. MembershipLocked'
  BY <1>3, MembershipStays
<1>18. ApprovedHasRecord'
  <2> SUFFICES ASSUME NoneGone, NEW r \in Row, approval'[r] = "APPROVED"
               PROVE  RecordHolds(r)'
    BY <1>15 DEF ApprovedHasRecord
  <2>1. sc = batchScope[b]
    BY <1>1 DEF ReviewInvariant, ScopesAgree
  <2>2. CASE r \in tx[h].locked
    <3>1. PICK s \in Serial : r = <<sc, s>> /\ r \in tx[h].rows
      BY <1>2, <2>2
    <3>2. tx[h].op = "approve"
      BY <1>2, <1>7, <2>2
    <3>3. J[s] = "APPROVED"
      BY <1>9, <1>10, <3>1, <3>2
    <3>4. ASSUME NEW g \in Handler, Judging(g)', tx'[g].batch = b, tx'[g].stage # "read",
                 r \in tx'[g].rows
          PROVE  FALSE
      <4>1. g # h /\ tx'[g] = tx[g] /\ Judging(g)
        BY <1>6, <3>4
      <4>2. tx[g].rows \cap tx[h].rows = {}
        BY <1>1, <3>4, <4>1 DEF ReviewInvariant, MembershipLocked
      <4> QED BY <3>1, <3>4, <4>1, <4>2
    <3>5. b \in Batch
      BY <1>2 DEF BatchesMade
    <3> QED BY <1>1, <1>4, <2>1, <3>1, <3>3, <3>4, <3>5 DEF RecordHolds
  <2>3. CASE r \notin tx[h].locked
    <3>1. PICK d \in Batch :
            /\ batchScope[d] = r[1]
            /\ junction[d][r[2]] = "APPROVED"
            /\ \A g \in Handler :
                  Judging(g) /\ tx[g].batch = d /\ tx[g].stage # "read" /\ r \in tx[g].rows
                  => r \in tx[g].locked
      BY <1>7, <2>3 DEF ReviewInvariant, ApprovedHasRecord, RecordHolds
    <3>2. junction'[d][r[2]] = "APPROVED"
      <4>1. CASE d # b
        BY <1>4, <3>1, <4>1
      <4>2. CASE d = b
        <5>1. r \notin tx[h].rows
          BY <1>1, <2>3, <3>1, <4>2
        <5>2. r = <<sc, r[2]>> /\ r[2] \in Serial
          BY <2>1, <3>1, <4>2 DEF Row
        <5> QED BY <1>4, <1>9, <3>1, <4>2, <5>1, <5>2
      <4> QED BY <4>1, <4>2
    <3> QED BY <1>1, <1>6, <3>1, <3>2 DEF RecordHolds
  <2> QED BY <2>2, <2>3
<1> QED BY <1>7, <1>11, <1>12, <1>13, <1>14, <1>16, <1>17, <1>18 DEF ReviewInvariant

(* The batches of a deleted child report become the report's, but none of  *)
(* its rows is left.                                                       *)
LEMMA DeleteChildKeeps ==
    ASSUME ReviewInvariant, TypeOK', NEW h \in Handler, DeleteChild(h)
    PROVE  ReviewInvariant'
<1> DEFINE c == tx[h].scope
<1>1. c \in Child
  BY DEF DeleteChild, ReviewInvariant, RequestOK, RequestOf
<1>2. /\ Lockable(h, RowsOf(c))
      /\ \A g \in Handler : tx[g].scope = c /\ tx[g].op = "submit" => tx[g].stage = "read"
      /\ child' = [child EXCEPT ![c] = [NoChild EXCEPT !.status = Gone]]
      /\ approval' = [r \in Row |-> IF r \in RowsOf(c) THEN NoStatus ELSE approval[r]]
      /\ batchScope' = [d \in Batch |-> IF batchScope[d] = c THEN Parent ELSE batchScope[d]]
      /\ RemoveRows(h, RowsOf(c))
      /\ UNCHANGED <<batchStatus, junction>>
  BY DEF DeleteChild
<1>3. \A g \in Handler : tx'[g] = tx[g] \/ tx'[g] = NoRequest
  BY <1>2 DEF RemoveRows
<1>4. tx'[h] = NoRequest
  BY <1>2 DEF RemoveRows
<1>5. ~NoneGone'
  BY <1>1, <1>2 DEF NoneGone, NoChild, ReviewInvariant, TypeOK
<1>6. \A d \in Child \ {c} : child'[d] = child[d]
  BY <1>2 DEF ReviewInvariant, TypeOK
<1>7. BatchesMade' = BatchesMade
  BY <1>2 DEF BatchesMade
<1> HIDE DEF c
<1>8. RequestOK'
  BY <1>3, <1>7, RequestStep, NoRequestFresh DEF ReviewInvariant, Fresh
<1>9. LocksOK'
  <2>1. ASSUME NEW g \in Handler, tx'[g] = tx[g], g # h, NEW r \in tx[g].locked PROVE Exists(r)'
    <3>1. r \in Row /\ Exists(r)
      BY <2>1 DEF ReviewInvariant, LocksOK, TypeOK, Request
    <3>2. r \notin RowsOf(c)
      BY <1>2, <2>1 DEF Lockable
    <3> QED BY <1>2, <3>1, <3>2 DEF Exists
  <2>2. ASSUME NEW g \in Handler
        PROVE  /\ tx'[g].locked # {} =>
                    tx'[g].op \in {"submit", "approve", "return"} /\ tx'[g].stage # "read"
               /\ tx'[g].locked \subseteq tx'[g].rows
               /\ \A r \in tx'[g].locked : Exists(r)'
    <3>1. CASE tx'[g] = NoRequest
      BY <3>1 DEF NoRequest
    <3>2. CASE tx'[g] = tx[g] /\ g # h
      BY <2>1, <3>2 DEF ReviewInvariant, LocksOK
    <3> QED BY <1>3, <1>4, <3>1, <3>2
  <2>3. ASSUME NEW g \in Handler, NEW i \in Handler \ {g}
        PROVE  tx'[g].locked \cap tx'[i].locked = {}
    <3>1. CASE tx'[g] = NoRequest \/ tx'[i] = NoRequest
      BY <3>1 DEF NoRequest
    <3>2. CASE tx'[g] = tx[g] /\ tx'[i] = tx[i]
      BY <3>2 DEF ReviewInvariant, LocksOK
    <3> QED BY <1>3, <3>1, <3>2
  <2> QED BY <2>2, <2>3 DEF LocksOK
<1>10. SubmitsToLive'
  <2>1. ASSUME NEW g \in Handler, tx'[g].op = "submit", tx'[g].stage # "read",
               tx'[g].scope \in Child
        PROVE  child'[tx'[g].scope].status \in ChildStatus
    <3>1. tx'[g] = tx[g]
      BY <1>3, <2>1 DEF NoRequest
    <3>2. tx[g].scope # c
      BY <1>2, <2>1, <3>1
    <3> QED BY <1>6, <2>1, <3>1, <3>2 DEF ReviewInvariant, SubmitsToLive, Live
  <2> QED BY <2>1 DEF SubmitsToLive, Live
<1>11. UnusedBatchEmpty'
  BY <1>2, <1>7 DEF ReviewInvariant, UnusedBatchEmpty, Member
<1>12. SubmittedHeldOpen'
  <2> SUFFICES ASSUME NEW r \in Row, approval'[r] = "SUBMITTED_FOR_APPROVAL"
               PROVE  OpenBatchHolds(r)'
    BY DEF SubmittedHeldOpen
  <2>1. r \notin RowsOf(c) /\ approval[r] = "SUBMITTED_FOR_APPROVAL"
    BY <1>2 DEF NoStatus
  <2>2. PICK b \in BatchesMade :
           /\ r \in Member(b)
           /\ batchStatus[b] = "SUBMITTED"
           /\ \A g \in Handler : Judging(g) /\ tx[g].batch = b =>
                 /\ tx[g].scope = r[1]
                 /\ tx[g].closes => r \in tx[g].locked
    BY <2>1 DEF ReviewInvariant, SubmittedHeldOpen, OpenBatchHolds
  <2>3. r[1] # c
    BY <2>1 DEF RowsOf, Row, Exists, SerialApprovalStatus
  <2>4. r[1] = batchScope[b] /\ b \in Batch
    BY <2>2 DEF Member, BatchesMade
  <2>5. r \in Member(b)' /\ batchStatus'[b] = "SUBMITTED"
    BY <1>2, <2>2, <2>3, <2>4 DEF Member
  <2>6. ASSUME NEW g \in Handler, Judging(g)' PROVE tx'[g] = tx[g] /\ Judging(g)
    BY <1>3, <2>6 DEF Judging, NoRequest, ReviewOperation
  <2> QED BY <1>7, <2>2, <2>5, <2>6 DEF OpenBatchHolds
<1>13. ScopesAgree' /\ ApprovedHasRecord'
  BY <1>5 DEF ScopesAgree, ApprovedHasRecord
<1>14. MembershipLocked'
  BY <1>3, MembershipStays
<1> QED BY <1>8, <1>9, <1>10, <1>11, <1>12, <1>13, <1>14 DEF ReviewInvariant

----------------------------------------------------------------------------
(* The invariant holds initially and is kept by every step.                *)

LEMMA InitType == Init => TypeOK
BY ConstantsAssumption, NoRequestType
DEF Init, TypeOK, ReportRecord, ChildRecord, NoChild, ReportStatus, Finding, NoStatus, Scope

LEMMA InitKeeps == Init => ReviewInvariant
<1> SUFFICES ASSUME Init PROVE ReviewInvariant
  OBVIOUS
<1>1. \A h \in Handler : tx[h] = NoRequest
  BY DEF Init
<1>2. \A h \in Handler : ~Judging(h) /\ tx[h].op = "none" /\ tx[h].locked = {}
  BY <1>1 DEF Judging, ReviewOperation, NoRequest
<1>3. RequestOK /\ LocksOK
  BY <1>1, <1>2 DEF RequestOK, RequestOf, LocksOK, NoRequest
<1>4. SubmitsToLive /\ ScopesAgree /\ MembershipLocked
  BY <1>2 DEF SubmitsToLive, ScopesAgree, MembershipLocked
<1>5. UnusedBatchEmpty
  BY DEF Init, UnusedBatchEmpty, Member
<1>6. SubmittedHeldOpen /\ ApprovedHasRecord
  BY DEF Init, SubmittedHeldOpen, ApprovedHasRecord, NoStatus
<1> QED BY <1>3, <1>4, <1>5, <1>6, InitType DEF ReviewInvariant

LEMMA NextKeeps ==
    ASSUME ReviewInvariant, [Next]_vars
    PROVE  ReviewInvariant'
<1>1. TypeOK'
  BY TypeStep DEF ReviewInvariant
<1>2. CASE UNCHANGED vars
  <2>1. \A g \in Handler : \A r \in tx'[g].locked : Exists(r)'
    BY <1>2 DEF vars, rowVars, ReviewInvariant, LocksOK, Exists
  <2> QED BY <1>1, <1>2, <2>1, QuietStep DEF vars, rowVars, batchVars, Live
<1>3. CASE Next
  <2>1. PICK h \in Handler :
           \/ Transition(h) \/ Update(h) \/ CreateSerials(h) \/ EditSerial(h)
           \/ DeleteSerial(h) \/ Submit(h) \/ WriteRows(h) \/ Review(h)
           \/ SyncRework(h) \/ UpdateChild(h) \/ EditChildSerial(h)
           \/ TransitionChild(h) \/ Abort(h)
    BY <1>3 DEF Next
  <2>2. Transition(h) \/ Update(h) => ReviewInvariant'
    BY <1>1, BeginWorkflowKeeps, CommitWorkflowKeeps DEF Transition, Update
  <2>3. CreateSerials(h) \/ EditSerial(h) \/ DeleteSerial(h) => ReviewInvariant'
    BY <1>1, BeginSerialKeeps, CommitSerialKeeps DEF CreateSerials, EditSerial, DeleteSerial
  <2>4. Submit(h) => ReviewInvariant'
    BY <1>1, BeginReviewKeeps, ClosingKeeps, CommitSubmitKeeps DEF Submit
  <2>5. Review(h) => ReviewInvariant'
    BY <1>1, BeginReviewKeeps, ClosingKeeps, CommitReviewKeeps DEF Review
  <2>6. SyncRework(h) => ReviewInvariant'
    BY <1>1, BeginChildKeeps, SyncKeeps, DeleteChildKeeps DEF SyncRework
  <2>7. UpdateChild(h) \/ EditChildSerial(h) \/ TransitionChild(h) => ReviewInvariant'
    BY <1>1, BeginChildKeeps, CommitChildKeeps DEF UpdateChild, EditChildSerial, TransitionChild
  <2> QED BY <1>1, <2>1, <2>2, <2>3, <2>4, <2>5, <2>6, <2>7, WriteRowsKeeps, AbortKeeps
<1> QED BY <1>2, <1>3

(* Whatever requests race, every serial that is submitted is a member of   *)
(* an open batch, none is approved without a record, and the locks and     *)
(* requests behind that stay consistent: the invariant is inductive, for   *)
(* every set of serials, child reports and handlers and every bound.       *)
THEOREM ReviewInvariantHolds == Spec => []ReviewInvariant
<1>1. Init => ReviewInvariant
  BY InitKeeps
<1>2. ReviewInvariant /\ [Next]_vars => ReviewInvariant'
  BY NextKeeps
<1> QED BY <1>1, <1>2, PTL DEF Spec

(* The variables and the requests in flight keep their types.              *)
THEOREM TypeCorrect == Spec => []TypeOK
<1>1. ReviewInvariant => TypeOK
  BY DEF ReviewInvariant
<1> QED BY <1>1, ReviewInvariantHolds, PTL

(* No interleaving of submissions, approvals, returns, edits, transitions  *)
(* and syncs leaves a serial submitted with no open batch to release it.   *)
THEOREM NoSerialStranded == Spec => []NoStrandedSerial
<1>1. ReviewInvariant => NoStrandedSerial
  BY DEF ReviewInvariant, SubmittedHeldOpen, OpenBatchHolds, NoStrandedSerial, BatchesMade
<1> QED BY <1>1, ReviewInvariantHolds, PTL

(* While no child report was deleted, every approved serial has the        *)
(* verdict that approved it on record in a batch of its own scope.         *)
THEOREM ApprovalIsOnRecord == Spec => []ApprovalOnRecord
<1>1. ReviewInvariant => ApprovalOnRecord
  BY DEF ReviewInvariant, ApprovedHasRecord, RecordHolds, ApprovalOnRecord
<1> QED BY <1>1, ReviewInvariantHolds, PTL

----------------------------------------------------------------------------
(* What a step does to the requests in flight, and to the rows.            *)

(* Handler g takes a request of any kind.                                  *)
Takes(g) ==
    \/ \E role \in Role, to \in ReportStatus, reason \in BOOLEAN :
            BeginTransition(g, role, to, reason)
    \/ \E to \in ReportStatus \cup {NoStatus} : BeginUpdate(g, to)
    \/ \E serials \in SUBSET Serial : BeginCreateSerials(g, serials)
    \/ \E s \in Serial, finding \in Finding : BeginEditSerial(g, s, finding)
    \/ \E s \in Serial : BeginDeleteSerial(g, s)
    \/ \E sc \in Scope, serials \in SUBSET Serial : BeginSubmit(g, sc, serials)
    \/ \E b \in Batch : \E named \in SUBSET Member(b) :
            BeginApprove(g, b, named) \/ BeginReturn(g, b, named)
    \/ \E c \in Child : BeginSync(g, c)
    \/ \E c \in Child, to \in ChildStatus \cup {NoStatus} : BeginChildUpdate(g, c, to)
    \/ \E c \in Child, s \in Serial, finding \in Finding : BeginChildEdit(g, c, s, finding)
    \/ \E c \in Child, role \in Role, to \in ChildStatus, reason \in BOOLEAN :
            BeginChildTransition(g, role, c, to, reason)

(* Handler g goes on with its request, which is as it was read.            *)
GoesOn(g) ==
    /\ tx'[g].op = tx[g].op /\ tx'[g].scope = tx[g].scope
    /\ tx'[g].rows = tx[g].rows
    /\ tx'[g].from = tx[g].from /\ tx'[g].to = tx[g].to
    /\ tx'[g].version = tx[g].version /\ tx'[g].itemVersion = tx[g].itemVersion
    /\ UNCHANGED <<report, rowVars>>

LEMMA TakesOnly ==
    ASSUME TypeOK, NEW h \in Handler, Takes(h)
    PROVE  /\ \A g \in Handler \ {h} : tx'[g] = tx[g]
           /\ UNCHANGED <<report, snapshot, child, rowVars, batchVars>>
<1>1. (\E R : tx' = [tx EXCEPT ![h] = R]) /\ UNCHANGED <<report, snapshot, child, rowVars, batchVars>>
  BY DEF Takes, BeginTransition, BeginUpdate, BeginCreateSerials, BeginEditSerial,
         BeginDeleteSerial, BeginSubmit, BeginApprove, BeginReturn, BeginReview,
         BeginSync, BeginChildUpdate, BeginChildEdit, BeginChildTransition
<1> QED BY <1>1 DEF TypeOK

(* A step of an operation takes a request, goes on with it, or ends it.    *)
LEMMA OperationSteps ==
    ASSUME NEW h \in Handler,
           \/ Transition(h) \/ Update(h) \/ CreateSerials(h) \/ EditSerial(h)
           \/ DeleteSerial(h) \/ Submit(h) \/ WriteRows(h) \/ Review(h)
           \/ SyncRework(h) \/ UpdateChild(h) \/ EditChildSerial(h)
           \/ TransitionChild(h) \/ Abort(h)
    PROVE  \/ Takes(h) \/ Finish(h)
           \/ WriteRows(h) \/ CountChildRows(h) \/ WriteBatch(h) \/ CreateChild(h)
           \/ Reconcile(h) \/ DeleteChild(h)
<1>1. Transition(h) \/ Update(h) => Takes(h) \/ Finish(h)
  BY DEF Transition, Update, Takes, CommitTransition, CommitUpdate
<1>2. CreateSerials(h) \/ EditSerial(h) \/ DeleteSerial(h) => Takes(h) \/ Finish(h)
  BY DEF CreateSerials, EditSerial, DeleteSerial, Takes,
           CommitCreateSerials, CommitEditSerial, CommitDeleteSerial
<1>3. Submit(h) => Takes(h) \/ Finish(h) \/ CountChildRows(h)
  BY DEF Submit, Takes, CommitSubmit
<1>4. Review(h) => Takes(h) \/ Finish(h) \/ WriteBatch(h)
  BY DEF Review, Takes, CommitReview
<1>5. SyncRework(h) => Takes(h) \/ CreateChild(h) \/ Reconcile(h) \/ DeleteChild(h)
  BY DEF SyncRework, Takes
<1>6. UpdateChild(h) \/ EditChildSerial(h) \/ TransitionChild(h) => Takes(h) \/ Finish(h)
  BY DEF UpdateChild, EditChildSerial, TransitionChild, Takes,
           CommitChildUpdate, CommitChildEdit, CommitChildTransition
<1>7. Abort(h) => Finish(h)
  BY DEF Abort
<1> QED BY <1>1, <1>2, <1>3, <1>4, <1>5, <1>6, <1>7

LEMMA RequestsStep ==
    ASSUME TypeOK, [Next]_vars, NEW g \in Handler
    PROVE  tx'[g] = tx[g] \/ tx'[g] = NoRequest \/ GoesOn(g) \/ Takes(g)
<1>1. CASE UNCHANGED vars
  BY <1>1 DEF vars
<1>2. CASE Next
  <2>1. PICK h \in Handler :
           \/ Transition(h) \/ Update(h) \/ CreateSerials(h) \/ EditSerial(h)
           \/ DeleteSerial(h) \/ Submit(h) \/ WriteRows(h) \/ Review(h)
           \/ SyncRework(h) \/ UpdateChild(h) \/ EditChildSerial(h)
           \/ TransitionChild(h) \/ Abort(h)
    BY <1>2 DEF Next
  <2>2. CASE Takes(h)
    BY <2>2, TakesOnly
  <2>3. CASE Finish(h)
    BY <2>3 DEF Finish, TypeOK
  <2>4. CASE WriteRows(h) \/ CountChildRows(h) \/ WriteBatch(h) \/ CreateChild(h)
    <3>1. tx[h] \in Request /\ tx \in [Handler -> Request]
      BY DEF TypeOK
    <3>2. \A i \in Handler \ {h} : tx'[i] = tx[i]
      BY <2>4, <3>1 DEF WriteRows, CountChildRows, WriteBatch, CreateChild
    <3>3. WriteRows(h) => GoesOn(h)
      BY <3>1 DEF WriteRows, GoesOn, Request
    <3>4. CountChildRows(h) => GoesOn(h)
      BY <3>1 DEF CountChildRows, GoesOn, Request
    <3>5. WriteBatch(h) => GoesOn(h)
      BY <3>1 DEF WriteBatch, GoesOn, Request
    <3>6. CreateChild(h) => GoesOn(h)
      BY <3>1 DEF CreateChild, GoesOn, Request
    <3> QED BY <2>4, <3>2, <3>3, <3>4, <3>5, <3>6
  <2>5. CASE Reconcile(h) \/ DeleteChild(h)
    BY <2>5 DEF Reconcile, DeleteChild, RemoveRows
  <2>6. \/ Takes(h) \/ Finish(h)
        \/ WriteRows(h) \/ CountChildRows(h) \/ WriteBatch(h) \/ CreateChild(h)
        \/ Reconcile(h) \/ DeleteChild(h)
    BY <2>1, OperationSteps
  <2> QED BY <2>2, <2>3, <2>4, <2>5, <2>6
<1> QED BY <1>1, <1>2

(* The steps that write the report, or a row.                              *)
LEMMA WritingSteps ==
    ASSUME TypeOK, [Next]_vars
    PROVE  \/ UNCHANGED <<report, rowVars>>
           \/ \E h \in Handler :
                 \/ CommitTransition(h) \/ CommitUpdate(h) \/ CommitCreateSerials(h)
                 \/ CommitEditSerial(h) \/ CommitDeleteSerial(h) \/ CommitSubmit(h)
                 \/ CommitReview(h) \/ Reconcile(h) \/ DeleteChild(h)
                 \/ CommitChildEdit(h) \/ CommitChildTransition(h)
<1>1. CASE UNCHANGED vars
  BY <1>1 DEF vars
<1>2. CASE Next
  <2>1. PICK h \in Handler :
           \/ Transition(h) \/ Update(h) \/ CreateSerials(h) \/ EditSerial(h)
           \/ DeleteSerial(h) \/ Submit(h) \/ WriteRows(h) \/ Review(h)
           \/ SyncRework(h) \/ UpdateChild(h) \/ EditChildSerial(h)
           \/ TransitionChild(h) \/ Abort(h)
    BY <1>2 DEF Next
  <2>2. Takes(h) => UNCHANGED <<report, rowVars>>
    BY TakesOnly
  <2>3. WriteRows(h) \/ CountChildRows(h) \/ WriteBatch(h) \/ CreateChild(h) \/ Abort(h)
        \/ CommitChildUpdate(h) => UNCHANGED <<report, rowVars>>
    BY DEF WriteRows, CountChildRows, WriteBatch, CreateChild, Abort, CommitChildUpdate
  <2>4. Transition(h) \/ Update(h) => Takes(h) \/ CommitTransition(h) \/ CommitUpdate(h)
    BY DEF Transition, Update, Takes
  <2>5. CreateSerials(h) \/ EditSerial(h) \/ DeleteSerial(h) =>
           Takes(h) \/ CommitCreateSerials(h) \/ CommitEditSerial(h) \/ CommitDeleteSerial(h)
    BY DEF CreateSerials, EditSerial, DeleteSerial, Takes
  <2>6. Submit(h) => Takes(h) \/ CountChildRows(h) \/ CommitSubmit(h)
    BY DEF Submit, Takes
  <2>7. Review(h) => Takes(h) \/ WriteBatch(h) \/ CommitReview(h)
    BY DEF Review, Takes
  <2>8. SyncRework(h) => Takes(h) \/ CreateChild(h) \/ Reconcile(h) \/ DeleteChild(h)
    BY DEF SyncRework, Takes
  <2>9. UpdateChild(h) \/ EditChildSerial(h) \/ TransitionChild(h) =>
           Takes(h) \/ CommitChildUpdate(h) \/ CommitChildEdit(h) \/ CommitChildTransition(h)
    BY DEF UpdateChild, EditChildSerial, TransitionChild, Takes
  <2> QED BY <2>1, <2>2, <2>3, <2>4, <2>5, <2>6, <2>7, <2>8, <2>9
<1> QED BY <1>1, <1>2

----------------------------------------------------------------------------
(* Any requests at once: an edit read before a submission or an approval.  *)

(* A row of the report that was inspected never is uninspected again, and  *)
(* an edit that will pass its guard sees the row as it was read as long as *)
(* nobody inspected it.                                                    *)
Inspected(r) == approval[r] \notin {NoStatus, "NOT_INSPECTED"}

EditSeesRow(g) ==
    \E s \in Serial :
        /\ tx[g].rows = {<<Parent, s>>}
        /\ \/ approval[<<Parent, s>>] = Gone
           \/ /\ Exists(<<Parent, s>>)
              /\ tx[g].itemVersion <= rowVersion[s]
              /\ tx[g].itemVersion = rowVersion[s] /\ tx[g].from = "NOT_INSPECTED"
                    => approval[<<Parent, s>>] = "NOT_INSPECTED"

(* The strengthening behind StaleEditKeepsReview.                          *)
EditsSeeRows ==
    \A g \in Handler :
        /\ tx[g].op = "editSerial" => EditSeesRow(g)
        /\ tx[g].op \in {"submit", "approve", "return"} =>
              \A s \in Serial : <<Parent, s>> \in tx[g].rows => Inspected(<<Parent, s>>)
        /\ tx[g].op = "childEdit" => tx[g].rows \subseteq {tx[g].scope} \X Serial

(* What any step does to a row of the report.                              *)
ParentRowStep(s) ==
    LET r == <<Parent, s>> IN
    /\ Inspected(r) => Inspected(r)'
    /\ approval[r] = Gone => approval'[r] = Gone
    /\ Exists(r) =>
          \/ approval'[r] = Gone
          \/ /\ Exists(r)'
             /\ rowVersion'[s] \in Nat
             /\ rowVersion[s] <= rowVersion'[s]
             /\ rowVersion[s] = rowVersion'[s] =>
                   approval'[r] = approval[r] \/ approval[r] # "NOT_INSPECTED"

LEMMA QuietRow ==
    ASSUME TypeOK, NEW s \in Serial, approval'[<<Parent, s>>] = approval[<<Parent, s>>],
           rowVersion'[s] = rowVersion[s]
    PROVE  ParentRowStep(s)
BY DEF ParentRowStep, Inspected, Exists, TypeOK

LEMMA SerialRowStep ==
    ASSUME ReviewInvariant, NEW h \in Handler, NEW s \in Serial,
           CommitCreateSerials(h) \/ CommitEditSerial(h) \/ CommitDeleteSerial(h)
    PROVE  ParentRowStep(s)
<1> DEFINE r == <<Parent, s>>
<1>1. TypeOK /\ r \in Row /\ rowVersion[s] \in Nat
  BY DEF ReviewInvariant, TypeOK, Row, Scope
<1>2. CASE CommitCreateSerials(h)
  <2>1. r \in tx[h].rows => approval[r] = NoStatus
    BY <1>2 DEF CommitCreateSerials
  <2>2. r \notin tx[h].rows => approval'[r] = approval[r] /\ rowVersion'[s] = rowVersion[s]
    BY <1>1, <1>2 DEF CommitCreateSerials
  <2>3. approval[r] = NoStatus => ParentRowStep(s)
    BY DEF ParentRowStep, Inspected, Exists, NoStatus, Gone, SerialApprovalStatus
  <2> QED BY <1>1, <2>1, <2>2, <2>3, QuietRow
<1>3. CASE CommitEditSerial(h)
  <2>1. PICK t \in Serial :
          /\ RowAtVersionRead(h, t)
          /\ Exists(<<Parent, t>>)
          /\ approval' = [approval EXCEPT ![<<Parent, t>>] =
                            IF tx[h].from = "NOT_INSPECTED" THEN "INSPECTED_DRAFT" ELSE @]
          /\ rowVersion' = [rowVersion EXCEPT ![t] = tx[h].itemVersion + 1]
    BY <1>3 DEF CommitEditSerial
  <2>2. CASE s # t
    BY <1>1, <2>1, <2>2, QuietRow DEF TypeOK
  <2>3. CASE s = t
    <3>1. rowVersion'[s] = rowVersion[s] + 1
      BY <1>1, <2>1, <2>3 DEF TypeOK, RowAtVersionRead
    <3>2. approval'[r] \in {"INSPECTED_DRAFT", approval[r]}
      BY <1>1, <2>1, <2>3 DEF TypeOK
    <3> HIDE DEF r
    <3>3. /\ approval[r] \in SerialApprovalStatus
          /\ approval'[r] \in SerialApprovalStatus
          /\ Inspected(r) => Inspected(r)'
      BY <2>1, <2>3, <3>2 DEF r, Exists, SerialApprovalStatus, Inspected, NoStatus
    <3> QED BY <1>1, <3>1, <3>3 DEF r, ParentRowStep, Exists, SerialApprovalStatus, Gone
  <2> QED BY <2>2, <2>3
<1>4. CASE CommitDeleteSerial(h)
  <2>1. PICK t \in Serial :
          /\ approval' = [approval EXCEPT ![<<Parent, t>>] = Gone]
          /\ rowVersion' = [rowVersion EXCEPT ![t] = 0]
    BY <1>4 DEF CommitDeleteSerial
  <2>2. CASE s # t
    BY <1>1, <2>1, <2>2, QuietRow DEF TypeOK
  <2>3. CASE s = t
    <3>1. approval'[r] = Gone
      BY <1>1, <2>1, <2>3 DEF TypeOK
    <3> QED BY <3>1 DEF ParentRowStep, Inspected, Gone, NoStatus
  <2> QED BY <2>2, <2>3
<1> QED BY <1>2, <1>3, <1>4

(* A review or a submission overwrites rows that it locked, and a reopen   *)
(* rows that are approved: none of them is uninspected.                    *)
LEMMA ReviewRowStep ==
    ASSUME ReviewInvariant, EditsSeeRows, NEW h \in Handler, NEW s \in Serial,
           CommitSubmit(h) \/ CommitReview(h)
    PROVE  ParentRowStep(s)
<1> DEFINE r == <<Parent, s>>
<1>1. TypeOK /\ r \in Row /\ rowVersion[s] \in Nat
  BY DEF ReviewInvariant, TypeOK, Row, Scope
<1>2. approval' = Seen(h) /\ rowVersion' = rowVersion
  BY DEF CommitSubmit, CommitReview
<1>3. approval'[r] = IF r \in tx[h].locked THEN tx[h].to ELSE approval[r]
  BY <1>1, <1>2 DEF Seen
<1>4. CASE r \notin tx[h].locked
  BY <1>1, <1>2, <1>3, <1>4, QuietRow
<1>5. CASE r \in tx[h].locked
  <2>1. tx[h].op \in {"submit", "approve", "return"}
    BY DEF CommitSubmit, CommitReview, Judging, ReviewOperation
  <2>2. tx[h].to \in {"SUBMITTED_FOR_APPROVAL", "APPROVED", "INSPECTED_DRAFT"}
    BY <2>1 DEF ReviewInvariant, RequestOK, RequestOf
  <2>3. r \in tx[h].rows /\ Exists(r)
    BY <1>5 DEF ReviewInvariant, LocksOK
  <2>4. Inspected(r)
    BY <2>1, <2>3 DEF EditsSeeRows
  <2>5. approval'[r] = tx[h].to
    BY <1>3, <1>5
  <2> HIDE DEF r
  <2>6. Exists(r)' /\ Inspected(r)' /\ approval[r] # "NOT_INSPECTED" /\ approval[r] # Gone
    BY <2>2, <2>3, <2>4, <2>5 DEF Exists, Inspected, SerialApprovalStatus, NoStatus, Gone
  <2> QED BY <1>1, <1>2, <2>6 DEF r, ParentRowStep
<1> QED BY <1>4, <1>5

LEMMA TransitionRowStep ==
    ASSUME ReviewInvariant, NEW h \in Handler, NEW s \in Serial, CommitTransition(h)
    PROVE  ParentRowStep(s)
<1> DEFINE r == <<Parent, s>>
           W == IF IsReopen(tx[h].from, tx[h].to) /\ tx[h].to = "IN_INSPECTION"
                THEN {q \in RowsOf(Parent) : approval[q] = "APPROVED"} ELSE {}
<1>1. TypeOK /\ r \in Row /\ rowVersion[s] \in Nat
  BY DEF ReviewInvariant, TypeOK, Row, Scope
<1>2. /\ approval' = [q \in Row |-> IF q \in W THEN "INSPECTED_DRAFT" ELSE approval[q]]
      /\ rowVersion' = [t \in Serial |->
                          rowVersion[t] + (IF <<Parent, t>> \in W THEN 1 ELSE 0)]
  BY DEF CommitTransition
<1>3. r \in W => approval[r] = "APPROVED"
  OBVIOUS
<1> HIDE DEF W
<1>4. CASE r \notin W
  BY <1>1, <1>2, <1>4, QuietRow
<1>5. CASE r \in W
  <2>1. approval'[r] = "INSPECTED_DRAFT" /\ rowVersion'[s] = rowVersion[s] + 1
    BY <1>1, <1>2, <1>5
  <2> HIDE DEF r
  <2>2. Exists(r)' /\ Inspected(r)' /\ approval[r] = "APPROVED"
    BY <1>3, <1>5, <2>1 DEF Exists, Inspected, SerialApprovalStatus, NoStatus
  <2> QED BY <1>1, <2>1, <2>2 DEF r, ParentRowStep, Gone
<1> QED BY <1>4, <1>5

(* The operations on child reports leave the rows of the report alone.     *)
LEMMA ChildRowStep ==
    ASSUME ReviewInvariant, EditsSeeRows, NEW h \in Handler, NEW s \in Serial,
           \/ Reconcile(h) \/ DeleteChild(h) \/ CommitChildEdit(h) \/ CommitChildTransition(h)
    PROVE  /\ approval'[<<Parent, s>>] = approval[<<Parent, s>>]
           /\ data'[<<Parent, s>>] = data[<<Parent, s>>]
           /\ rowVersion'[s] = rowVersion[s]
<1> DEFINE r == <<Parent, s>>
<1>1. r \in Row /\ approval \in [Row -> SerialApprovalStatus \cup {NoStatus, Gone}]
      /\ data \in [Row -> Finding]
  BY DEF ReviewInvariant, TypeOK, Row, Scope
<1>2. rowVersion' = rowVersion
  BY DEF Reconcile, DeleteChild, CommitChildEdit, CommitChildTransition
<1>3. tx[h].scope \in Child /\ tx[h].scope # Parent
  BY ConstantsAssumption
  DEF ReviewInvariant, RequestOK, RequestOf, Reconcile, DeleteChild, CommitChildEdit,
      CommitChildTransition
<1>4. r \notin RowsOf(tx[h].scope)
  BY <1>3 DEF RowsOf
<1>5. CASE Reconcile(h)
  <2>1. r \notin tx[h].rows
    BY <1>3, <1>5 DEF ReviewInvariant, RequestOK, RequestOf, Reconcile
  <2> HIDE DEF r
  <2> QED BY <1>1, <1>2, <1>4, <1>5, <2>1 DEF Reconcile, r
<1>6. CASE DeleteChild(h)
  BY <1>1, <1>2, <1>4, <1>6 DEF DeleteChild
<1>7. CASE CommitChildEdit(h)
  <2>1. PICK q \in tx[h].rows :
          /\ data' = [data EXCEPT ![q] = tx[h].finding]
          /\ approval' = [approval EXCEPT ![q] =
                            IF tx[h].from = "NOT_INSPECTED" THEN "INSPECTED_DRAFT" ELSE @]
    BY <1>7 DEF CommitChildEdit
  <2>2. q # r
    BY <1>3, <1>7, <2>1 DEF EditsSeeRows, CommitChildEdit
  <2> QED BY <1>1, <1>2, <2>1, <2>2
<1>8. CASE CommitChildTransition(h)
  <2>1. approval'[r] = approval[r]
    BY <1>1, <1>4, <1>8 DEF CommitChildTransition
  <2>2. data' = data
    BY <1>8 DEF CommitChildTransition
  <2> QED BY <1>2, <2>1, <2>2
<1> QED BY <1>5, <1>6, <1>7, <1>8

LEMMA RowStep ==
    ASSUME ReviewInvariant, EditsSeeRows, [Next]_vars, NEW s \in Serial
    PROVE  ParentRowStep(s)
<1>1. TypeOK
  BY DEF ReviewInvariant
<1>2. UNCHANGED <<report, rowVars>> => ParentRowStep(s)
  BY <1>1, QuietRow DEF rowVars
<1>3. ASSUME NEW h \in Handler, CommitUpdate(h) PROVE ParentRowStep(s)
  BY <1>1, <1>3, QuietRow DEF CommitUpdate, rowVars
<1>4. ASSUME NEW h \in Handler,
             Reconcile(h) \/ DeleteChild(h) \/ CommitChildEdit(h) \/ CommitChildTransition(h)
      PROVE  ParentRowStep(s)
  BY <1>1, <1>4, ChildRowStep, QuietRow
<1> QED BY <1>1, <1>2, <1>3, <1>4, WritingSteps, SerialRowStep, ReviewRowStep,
           TransitionRowStep

LEMMA TakenEditsSeeRows ==
    ASSUME TypeOK, NEW g \in Handler, Takes(g)
    PROVE  /\ tx'[g].op = "editSerial" => EditSeesRow(g)'
           /\ tx'[g].op \in {"submit", "approve", "return"} =>
                 \A s \in Serial : <<Parent, s>> \in tx'[g].rows => Inspected(<<Parent, s>>)'
           /\ tx'[g].op = "childEdit" => tx'[g].rows \subseteq {tx'[g].scope} \X Serial
<1>1. UNCHANGED rowVars /\ tx \in [Handler -> Request]
  BY TakesOnly DEF TypeOK
<1>2. ASSUME NEW s \in Serial, NEW finding \in Finding, BeginEditSerial(g, s, finding)
      PROVE  tx'[g].op = "editSerial" /\ EditSeesRow(g)'
  <2>1. /\ tx'[g].op = "editSerial"
        /\ tx'[g].rows = {<<Parent, s>>}
        /\ tx'[g].from = approval[<<Parent, s>>]
        /\ tx'[g].itemVersion = rowVersion[s]
        /\ Exists(<<Parent, s>>)
    BY <1>1, <1>2 DEF BeginEditSerial, NoRequest
  <2>2. rowVersion[s] \in Nat
    BY DEF TypeOK
  <2> QED BY <1>1, <2>1, <2>2 DEF EditSeesRow, Exists, rowVars
<1>3. ASSUME NEW sc \in Scope, NEW serials \in SUBSET Serial, BeginSubmit(g, sc, serials)
      PROVE  tx'[g].op = "submit" /\ \A r \in tx'[g].rows : Inspected(r)'
  <2>1. tx'[g].op = "submit" /\ tx'[g].rows = {sc} \X serials
    BY <1>1, <1>3 DEF BeginSubmit, NoRequest
  <2>2. \A r \in {sc} \X serials : approval[r] = "INSPECTED_DRAFT"
    BY <1>3 DEF BeginSubmit
  <2> QED BY <1>1, <2>1, <2>2 DEF Inspected, NoStatus, rowVars
<1>4. ASSUME NEW b \in Batch, NEW named \in SUBSET Member(b),
             BeginApprove(g, b, named) \/ BeginReturn(g, b, named)
      PROVE  tx'[g].op \in {"approve", "return"} /\ \A r \in tx'[g].rows : Inspected(r)'
  <2>1. PICK op \in {"approve", "return"} : BeginReview(g, op, b, named)
    BY <1>4 DEF BeginApprove, BeginReturn
  <2>2. /\ tx'[g].op = op
        /\ tx'[g].rows = {r \in named : approval[r] = "SUBMITTED_FOR_APPROVAL"}
    BY <1>1, <2>1 DEF BeginReview, NoRequest
  <2> QED BY <1>1, <2>2 DEF Inspected, NoStatus, rowVars
<1>5. ASSUME NEW c \in Child, NEW s \in Serial, NEW finding \in Finding,
             BeginChildEdit(g, c, s, finding)
      PROVE  tx'[g].op = "childEdit" /\ tx'[g].rows \subseteq {tx'[g].scope} \X Serial
  BY <1>1, <1>5 DEF BeginChildEdit, NoRequest
<1>6. ASSUME tx'[g].op \in {"editSerial", "submit", "approve", "return", "childEdit"}
      PROVE  \/ \E s \in Serial, finding \in Finding : BeginEditSerial(g, s, finding)
             \/ \E sc \in Scope, serials \in SUBSET Serial : BeginSubmit(g, sc, serials)
             \/ \E b \in Batch : \E named \in SUBSET Member(b) :
                   BeginApprove(g, b, named) \/ BeginReturn(g, b, named)
             \/ \E c \in Child, s \in Serial, finding \in Finding :
                   BeginChildEdit(g, c, s, finding)
  <2>1. \A R : R.op \notin {"editSerial", "submit", "approve", "return", "childEdit"} =>
                 tx' # [tx EXCEPT ![g] = R]
    BY <1>1, <1>6
  <2>2. ASSUME NEW role \in Role, NEW to, NEW reason \in BOOLEAN
        PROVE  ~BeginTransition(g, role, to, reason)
    BY <2>1 DEF BeginTransition, NoRequest
  <2>3. ASSUME NEW to PROVE ~BeginUpdate(g, to)
    BY <2>1 DEF BeginUpdate, NoRequest
  <2>4. ASSUME NEW serials PROVE ~BeginCreateSerials(g, serials)
    BY <2>1 DEF BeginCreateSerials, NoRequest
  <2>5. ASSUME NEW s PROVE ~BeginDeleteSerial(g, s)
    BY <2>1 DEF BeginDeleteSerial, NoRequest
  <2>6. ASSUME NEW c PROVE ~BeginSync(g, c)
    BY <2>1 DEF BeginSync, NoRequest
  <2>7. ASSUME NEW c, NEW to PROVE ~BeginChildUpdate(g, c, to)
    BY <2>1 DEF BeginChildUpdate, NoRequest
  <2>8. ASSUME NEW c, NEW role, NEW to, NEW reason
        PROVE  ~BeginChildTransition(g, role, c, to, reason)
    BY <2>1 DEF BeginChildTransition, NoRequest
  <2> QED BY <2>2, <2>3, <2>4, <2>5, <2>6, <2>7, <2>8 DEF Takes
<1>7. SUFFICES ASSUME tx'[g].op \in {"editSerial", "submit", "approve", "return", "childEdit"}
               PROVE  \/ tx'[g].op = "editSerial" /\ EditSeesRow(g)'
                      \/ /\ tx'[g].op \in {"submit", "approve", "return"}
                         /\ \A r \in tx'[g].rows : Inspected(r)'
                      \/ /\ tx'[g].op = "childEdit"
                         /\ tx'[g].rows \subseteq {tx'[g].scope} \X Serial
  OBVIOUS
<1> QED BY <1>2, <1>3, <1>4, <1>5, <1>6, <1>7

LEMMA EditsStep ==
    ASSUME ReviewInvariant, EditsSeeRows, [Next]_vars
    PROVE  EditsSeeRows'
<1> SUFFICES ASSUME NEW g \in Handler
             PROVE  /\ tx'[g].op = "editSerial" => EditSeesRow(g)'
                    /\ tx'[g].op \in {"submit", "approve", "return"} =>
                          \A s \in Serial : <<Parent, s>> \in tx'[g].rows =>
                                               Inspected(<<Parent, s>>)'
                    /\ tx'[g].op = "childEdit" => tx'[g].rows \subseteq {tx'[g].scope} \X Serial
  BY DEF EditsSeeRows
<1>1. TypeOK /\ tx[g] \in Request /\ rowVersion \in [Serial -> Nat]
  BY DEF ReviewInvariant, TypeOK
<1>2. CASE Takes(g)
  BY <1>1, <1>2, TakenEditsSeeRows
<1>3. CASE tx'[g] = NoRequest
  BY <1>3 DEF NoRequest
<1>4. CASE tx'[g] = tx[g] \/ GoesOn(g)
  <2>1. /\ tx'[g].op = tx[g].op /\ tx'[g].scope = tx[g].scope
        /\ tx'[g].rows = tx[g].rows
        /\ tx'[g].from = tx[g].from /\ tx'[g].itemVersion = tx[g].itemVersion
    BY <1>4 DEF GoesOn
  <2>2. \A s \in Serial : ParentRowStep(s)
    BY RowStep
  <2>3. tx[g].op = "editSerial" => EditSeesRow(g)'
    <3> SUFFICES ASSUME tx[g].op = "editSerial" PROVE EditSeesRow(g)'
      OBVIOUS
    <3>1. PICK s \in Serial :
            /\ tx[g].rows = {<<Parent, s>>}
            /\ \/ approval[<<Parent, s>>] = Gone
               \/ /\ Exists(<<Parent, s>>)
                  /\ tx[g].itemVersion <= rowVersion[s]
                  /\ tx[g].itemVersion = rowVersion[s] /\ tx[g].from = "NOT_INSPECTED"
                        => approval[<<Parent, s>>] = "NOT_INSPECTED"
      BY DEF EditsSeeRows, EditSeesRow
    <3>2. tx[g].itemVersion \in Nat /\ rowVersion[s] \in Nat
      BY <1>1 DEF Request
    <3>3. \/ approval'[<<Parent, s>>] = Gone
          \/ /\ Exists(<<Parent, s>>)'
             /\ tx[g].itemVersion <= rowVersion'[s]
             /\ tx[g].itemVersion = rowVersion'[s] /\ tx[g].from = "NOT_INSPECTED"
                   => approval'[<<Parent, s>>] = "NOT_INSPECTED"
      BY <2>2, <3>1, <3>2 DEF ParentRowStep
    <3> QED BY <2>1, <3>1, <3>3 DEF EditSeesRow
  <2> QED BY <2>1, <2>2, <2>3 DEF EditsSeeRows, ParentRowStep
<1> QED BY <1>1, <1>2, <1>3, <1>4, RequestsStep

LEMMA EditsSeeRowsAlways == Spec => []EditsSeeRows
<1>1. Init => EditsSeeRows
  BY DEF Init, EditsSeeRows, NoRequest
<1>2. ReviewInvariant /\ EditsSeeRows /\ [Next]_vars => EditsSeeRows'
  BY EditsStep
<1> QED BY <1>1, <1>2, ReviewInvariantHolds, PTL DEF Spec

(* An edit of a serial that passes its guard was judged on the row as it   *)
(* is, or on one that somebody had inspected: a submission or an approval  *)
(* that overtook it is never undone, whatever else is going on.            *)
THEOREM StaleEditIsHarmless == Spec => StaleEditKeepsReview
<1>1. ASSUME ReviewInvariant, EditsSeeRows,
             NEW h \in Handler, NEW r \in Row, CommitEditSerial(h),
             approval[r] \in {"SUBMITTED_FOR_APPROVAL", "APPROVED"}
      PROVE  approval'[r] = approval[r]
  <2>1. PICK s \in Serial :
          /\ tx[h].op = "editSerial"
          /\ tx[h].rows = {<<Parent, s>>}
          /\ Exists(<<Parent, s>>)
          /\ RowAtVersionRead(h, s)
          /\ approval' = [approval EXCEPT ![<<Parent, s>>] =
                            IF tx[h].from = "NOT_INSPECTED" THEN "INSPECTED_DRAFT" ELSE @]
    BY <1>1 DEF CommitEditSerial
  <2>2. CASE r # <<Parent, s>>
    BY <2>1, <2>2 DEF ReviewInvariant, TypeOK
  <2>3. CASE r = <<Parent, s>>
    <3>1. PICK t \in Serial :
            /\ tx[h].rows = {<<Parent, t>>}
            /\ \/ approval[<<Parent, t>>] = Gone
               \/ tx[h].itemVersion = rowVersion[t] /\ tx[h].from = "NOT_INSPECTED"
                     => approval[<<Parent, t>>] = "NOT_INSPECTED"
      BY <1>1, <2>1 DEF EditsSeeRows, EditSeesRow
    <3>2. <<Parent, t>> = r /\ s = t
      BY <2>1, <2>3, <3>1
    <3>3. tx[h].from # "NOT_INSPECTED"
      BY <1>1, <2>1, <3>1, <3>2 DEF RowAtVersionRead, Gone
    <3> QED BY <2>1, <2>3, <3>3 DEF ReviewInvariant, TypeOK
  <2> QED BY <2>2, <2>3
<1>2. ReviewInvariant /\ EditsSeeRows /\ [Next]_vars =>
        [\A h \in Handler, r \in Row :
            /\ CommitEditSerial(h)
            /\ approval[r] \in {"SUBMITTED_FOR_APPROVAL", "APPROVED"}
            => approval'[r] = approval[r]]_vars
  BY <1>1
<1> QED BY <1>2, ReviewInvariantHolds, EditsSeeRowsAlways, PTL DEF Spec, StaleEditKeepsReview

(* The approval that leaves every row and every batch of a child report    *)
(* approved approves it, however many approvals run: each counts behind    *)
(* the lock on the report's row.                                           *)
THEOREM CompletedChildIsApproved == Spec => ChildApprovedWithItsBatches
<1>1. ASSUME ReviewInvariant, NEW h \in Handler, NEW c \in Child, CommitApproval(h),
             tx[h].scope = c,
             \A r \in RowsOf(c) : approval'[r] = "APPROVED",
             \A b \in BatchesMade : batchScope[b] = c => batchStatus'[b] = "APPROVED"
      PROVE  child'[c].status = "APPROVED"
  <2>1. /\ tx[h].op = "approve"
        /\ approval' = Seen(h)
        /\ batchStatus' = [batchStatus EXCEPT ![tx[h].batch] =
                             IF tx[h].closes THEN "APPROVED" ELSE "SUBMITTED"]
    BY <1>1 DEF CommitApproval, CommitReview
  <2>2. AllRows(h, c, {"APPROVED"})
    BY <1>1, <2>1 DEF AllRows
  <2>3. AllBatchesApproved(h, {c})
    <3> SUFFICES ASSUME NEW b \in BatchesMade, batchScope[b] = c
                 PROVE  IF b = tx[h].batch THEN tx[h].closes ELSE batchStatus[b] = "APPROVED"
      BY DEF AllBatchesApproved
    <3>1. batchStatus'[b] = "APPROVED" /\ b \in Batch
      BY <1>1 DEF BatchesMade
    <3> QED BY <1>1, <2>1, <3>1 DEF ReviewInvariant, TypeOK
  <2>4. child' = IF child[c].status # "APPROVED"
                 THEN [child EXCEPT ![c].status = "APPROVED", ![c].logged = TRUE]
                 ELSE child
    BY <1>1, <2>1, <2>2, <2>3 DEF CommitApproval, CommitReview
  <2>5. child \in [Child -> ChildRecord]
    BY <1>1 DEF ReviewInvariant, TypeOK
  <2> QED BY <2>4, <2>5 DEF ChildRecord
<1>2. ReviewInvariant /\ [Next]_vars =>
        [\A h \in Handler, c \in Child :
            /\ CommitApproval(h)
            /\ tx[h].scope = c
            /\ \A r \in RowsOf(c) : approval'[r] = "APPROVED"
            /\ \A b \in BatchesMade : batchScope[b] = c => batchStatus'[b] = "APPROVED"
            => child'[c].status = "APPROVED"]_vars
  BY <1>1
<1> QED BY <1>2, ReviewInvariantHolds, PTL DEF Spec, ChildApprovedWithItsBatches

----------------------------------------------------------------------------
(* Without reviews: every write of the report is guarded by its version.   *)

NoReviews == Requests \cap {"submit", "approve", "return"} = {}

(* A request that will pass its guard finds the status it judged; a PATCH  *)
(* judged no locked report, and a transition followed the matrix.          *)
WritesAreGuarded ==
    \A g \in Handler :
        /\ tx[g].op \notin {"submit", "approve", "return"}
        /\ tx[g].op \in {"transition", "update"} =>
              /\ tx[g].version <= report.version
              /\ tx[g].version = report.version => tx[g].from = report.status
        /\ tx[g].op = "update" => tx[g].from \notin LockedReport
        /\ tx[g].op = "transition" /\ tx[g].from \in LockedReport =>
              tx[g].to \in AdminInspectionTransitions[tx[g].from]

(* A step leaves the report alone, or makes a version of it.               *)
LEMMA ReportStep ==
    ASSUME TypeOK, WritesAreGuarded, [Next]_vars
    PROVE  report' = report \/ report'.version = report.version + 1
<1>1. ASSUME NEW h \in Handler, CommitTransition(h) \/ CommitUpdate(h)
      PROVE  report'.version = report.version + 1
  <2>1. report \in ReportRecord
    BY DEF TypeOK
  <2>2. CASE CommitTransition(h)
    BY <2>1, <2>2 DEF ReportRecord, CommitTransition, AtVersionRead
  <2>3. CASE CommitUpdate(h)
    BY <2>1, <2>3 DEF ReportRecord, CommitUpdate, AtVersionRead
  <2> QED BY <1>1, <2>2, <2>3
<1>2. ASSUME NEW h \in Handler PROVE ~CommitSubmit(h) /\ ~CommitReview(h)
  BY DEF WritesAreGuarded, CommitSubmit, CommitReview, Judging, ReviewOperation
<1>3. ASSUME NEW h \in Handler,
             \/ CommitCreateSerials(h) \/ CommitEditSerial(h) \/ CommitDeleteSerial(h)
             \/ Reconcile(h) \/ DeleteChild(h) \/ CommitChildEdit(h)
             \/ CommitChildTransition(h)
      PROVE  report' = report
  BY <1>3 DEF CommitCreateSerials, CommitEditSerial, CommitDeleteSerial, Reconcile,
              DeleteChild, CommitChildEdit, CommitChildTransition
<1> QED BY <1>1, <1>2, <1>3, WritingSteps

LEMMA MatrixOfLocked ==
    ASSUME NEW role \in Role, NEW from \in LockedReport,
           NEW to \in InspectionTransitions(role, from)
    PROVE  to \in AdminInspectionTransitions[from]
BY DEF LockedReport, InspectionTransitions

LEMMA TakenGuarded ==
    ASSUME TypeOK, NoReviews, NEW g \in Handler, Takes(g)
    PROVE  /\ tx'[g].op \notin {"submit", "approve", "return"}
           /\ tx'[g].op \in {"transition", "update"} =>
                 tx'[g].version = report.version /\ tx'[g].from = report.status
           /\ tx'[g].op = "update" => tx'[g].from \notin LockedReport
           /\ tx'[g].op = "transition" /\ tx'[g].from \in LockedReport =>
                 tx'[g].to \in AdminInspectionTransitions[tx'[g].from]
<1>1. tx \in [Handler -> Request]
  BY DEF TypeOK
<1>2. ASSUME NEW role \in Role, NEW to \in ReportStatus, NEW reason \in BOOLEAN,
             BeginTransition(g, role, to, reason)
      PROVE  /\ tx'[g].op = "transition"
             /\ tx'[g].version = report.version /\ tx'[g].from = report.status
             /\ tx'[g].from \in LockedReport =>
                   tx'[g].to \in AdminInspectionTransitions[tx'[g].from]
  <2>1. /\ tx'[g].op = "transition" /\ tx'[g].to = to
        /\ tx'[g].version = report.version /\ tx'[g].from = report.status
    BY <1>1, <1>2 DEF BeginTransition, NoRequest
  <2>2. report.status \in LockedReport => to \in InspectionTransitions(role, report.status)
    BY <1>2 DEF BeginTransition, MayTransition, IsRestoringFromHold, LockedReport
  <2> QED BY <2>1, <2>2, MatrixOfLocked
<1>3. ASSUME NEW to \in ReportStatus \cup {NoStatus}, BeginUpdate(g, to)
      PROVE  /\ tx'[g].op = "update"
             /\ tx'[g].version = report.version /\ tx'[g].from = report.status
             /\ tx'[g].from \notin LockedReport
  BY <1>1, <1>3 DEF BeginUpdate, NoRequest
<1>4. ASSUME NEW sc, NEW serials PROVE ~BeginSubmit(g, sc, serials)
  BY DEF BeginSubmit, CanServe, NoReviews
<1>5. ASSUME NEW b, NEW named PROVE ~BeginApprove(g, b, named) /\ ~BeginReturn(g, b, named)
  BY DEF BeginApprove, BeginReturn, BeginReview, CanServe, NoReviews
<1>6. ASSUME \/ \E serials \in SUBSET Serial : BeginCreateSerials(g, serials)
             \/ \E s \in Serial, finding \in Finding : BeginEditSerial(g, s, finding)
             \/ \E s \in Serial : BeginDeleteSerial(g, s)
             \/ \E c \in Child : BeginSync(g, c)
             \/ \E c \in Child, to \in ChildStatus \cup {NoStatus} : BeginChildUpdate(g, c, to)
             \/ \E c \in Child, s \in Serial, finding \in Finding :
                   BeginChildEdit(g, c, s, finding)
             \/ \E c \in Child, role \in Role, to \in ChildStatus, reason \in BOOLEAN :
                   BeginChildTransition(g, role, c, to, reason)
      PROVE  tx'[g].op \notin {"submit", "approve", "return", "transition", "update"}
  <2> DEFINE Other == {"submit", "approve", "return", "transition", "update"}
  <2>1. \A R : tx' = [tx EXCEPT ![g] = R] /\ R.op \notin Other => tx'[g].op \notin Other
    BY <1>1
  <2> HIDE DEF Other
  <2>2. ASSUME NEW serials, BeginCreateSerials(g, serials) PROVE tx'[g].op \notin Other
    BY <2>1, <2>2 DEF BeginCreateSerials, NoRequest, Other
  <2>3. ASSUME NEW s, NEW finding, BeginEditSerial(g, s, finding) PROVE tx'[g].op \notin Other
    BY <2>1, <2>3 DEF BeginEditSerial, NoRequest, Other
  <2>4. ASSUME NEW s, BeginDeleteSerial(g, s) PROVE tx'[g].op \notin Other
    BY <2>1, <2>4 DEF BeginDeleteSerial, NoRequest, Other
  <2>5. ASSUME NEW c, BeginSync(g, c) PROVE tx'[g].op \notin Other
    BY <2>1, <2>5 DEF BeginSync, NoRequest, Other
  <2>6. ASSUME NEW c, NEW to, BeginChildUpdate(g, c, to) PROVE tx'[g].op \notin Other
    BY <2>1, <2>6 DEF BeginChildUpdate, NoRequest, Other
  <2>7. ASSUME NEW c, NEW s, NEW finding, BeginChildEdit(g, c, s, finding)
        PROVE  tx'[g].op \notin Other
    BY <2>1, <2>7 DEF BeginChildEdit, NoRequest, Other
  <2>8. ASSUME NEW c, NEW role, NEW to, NEW reason,
               BeginChildTransition(g, role, c, to, reason)
        PROVE  tx'[g].op \notin Other
    BY <2>1, <2>8 DEF BeginChildTransition, NoRequest, Other
  <2>9. tx'[g].op \notin Other
    BY <1>6, <2>2, <2>3, <2>4, <2>5, <2>6, <2>7, <2>8
  <2> QED BY <2>9 DEF Other
<1> QED BY <1>2, <1>3, <1>4, <1>5, <1>6 DEF Takes

LEMMA GuardedStep ==
    ASSUME TypeOK, WritesAreGuarded, NoReviews, [Next]_vars
    PROVE  WritesAreGuarded'
<1> SUFFICES ASSUME NEW g \in Handler
             PROVE  /\ tx'[g].op \notin {"submit", "approve", "return"}
                    /\ tx'[g].op \in {"transition", "update"} =>
                          /\ tx'[g].version <= report'.version
                          /\ tx'[g].version = report'.version => tx'[g].from = report'.status
                    /\ tx'[g].op = "update" => tx'[g].from \notin LockedReport
                    /\ tx'[g].op = "transition" /\ tx'[g].from \in LockedReport =>
                          tx'[g].to \in AdminInspectionTransitions[tx'[g].from]
  BY DEF WritesAreGuarded
<1>1. report.version \in Nat /\ tx[g].version \in Nat
  BY DEF TypeOK, ReportRecord, Request
<1>2. CASE Takes(g)
  BY <1>1, <1>2, TakenGuarded, TakesOnly
<1>3. CASE tx'[g] = NoRequest
  BY <1>3 DEF NoRequest
<1>4. CASE tx'[g] = tx[g] \/ GoesOn(g)
  <2>1. /\ tx'[g].op = tx[g].op /\ tx'[g].from = tx[g].from
        /\ tx'[g].to = tx[g].to /\ tx'[g].version = tx[g].version
    BY <1>4 DEF GoesOn
  <2> QED BY <1>1, <2>1, ReportStep DEF WritesAreGuarded
<1> QED BY <1>2, <1>3, <1>4, RequestsStep

LEMMA GuardedAlways ==
    ASSUME NoReviews
    PROVE  Spec => []WritesAreGuarded
<1>1. Init => WritesAreGuarded
  BY DEF Init, WritesAreGuarded, NoRequest
<1>2. TypeOK /\ WritesAreGuarded /\ [Next]_vars => WritesAreGuarded'
  BY GuardedStep
<1> QED BY <1>1, <1>2, TypeCorrect, PTL DEF Spec

(* As long as no request on a batch is served, a transition commits only   *)
(* over the status its checks were made on: each write of the report makes *)
(* a version, and each compares the one it read.                           *)
THEOREM TransitionIsJudged ==
    ASSUME NoReviews
    PROVE  Spec => TransitionJudgedCurrentStatus
<1>1. WritesAreGuarded /\ [Next]_vars =>
        [\A h \in Handler : CommitTransition(h) => report.status = tx[h].from]_vars
  BY DEF WritesAreGuarded, CommitTransition, AtVersionRead
<1> QED BY <1>1, GuardedAlways, PTL DEF Spec, TransitionJudgedCurrentStatus

(* Nor does a report leave a locked status without a new revision that     *)
(* holds the data of every serial.                                         *)
THEOREM ReopenIsFrozen ==
    ASSUME NoReviews
    PROVE  Spec => ReopenFreezesRevision
<1>1. ASSUME TypeOK, WritesAreGuarded, [Next]_vars, report.status \in LockedReport,
             report'.status \notin {"ON_HOLD", "CLOSED", report.status}
      PROVE  report'.revision = report.revision + 1 /\ snapshot' = Content
  <2>1. report' # report
    BY <1>1
  <2>2. PICK h \in Handler : CommitTransition(h) \/ CommitUpdate(h)
    <3>1. ASSUME NEW h \in Handler PROVE ~CommitSubmit(h) /\ ~CommitReview(h)
      BY <1>1 DEF WritesAreGuarded, CommitSubmit, CommitReview, Judging, ReviewOperation
    <3>2. ASSUME NEW h \in Handler,
                 \/ CommitCreateSerials(h) \/ CommitEditSerial(h) \/ CommitDeleteSerial(h)
                 \/ Reconcile(h) \/ DeleteChild(h) \/ CommitChildEdit(h)
                 \/ CommitChildTransition(h)
          PROVE  report' = report
      BY <3>2 DEF CommitCreateSerials, CommitEditSerial, CommitDeleteSerial, Reconcile,
                  DeleteChild, CommitChildEdit, CommitChildTransition
    <3> QED BY <1>1, <2>1, <3>1, <3>2, WritingSteps
  <2>3. /\ tx[h].op \in {"transition", "update"}
        /\ tx[h].from = report.status
    BY <1>1, <2>2 DEF WritesAreGuarded, CommitTransition, CommitUpdate, AtVersionRead
  <2>4. CommitTransition(h)
    BY <1>1, <2>2, <2>3 DEF WritesAreGuarded, CommitUpdate
  <2>5. tx[h].to \in AdminInspectionTransitions[report.status] /\ report'.status = tx[h].to
    BY <1>1, <2>3, <2>4 DEF WritesAreGuarded, CommitTransition
  <2>6. IsReopen(tx[h].from, tx[h].to)
    BY <1>1, <2>3, <2>5 DEF IsReopen, LockedReport, AdminInspectionTransitions
  <2> QED BY <2>4, <2>6 DEF CommitTransition
<1>2. TypeOK /\ WritesAreGuarded /\ [Next]_vars =>
        [/\ report.status \in LockedReport
         /\ report'.status \notin {"ON_HOLD", "CLOSED", report.status}
         => /\ report'.revision = report.revision + 1
            /\ snapshot' = Content]_vars
  BY <1>1
<1> QED BY <1>2, TypeCorrect, GuardedAlways, PTL DEF Spec, ReopenFreezesRevision

----------------------------------------------------------------------------
(* One request at a time: what a handler has read is what it writes over.  *)

OneAtATime == \A g, h \in Handler : g = h

(* What a request was judged on still holds, and its counts are right.     *)
ReadsAreCurrent ==
    \A h \in Handler :
        /\ tx[h].op = "editSerial" => \A r \in tx[h].rows : approval[r] \notin LockedSerial
        /\ tx[h].op = "transition" /\ tx[h].to = "PENDING_APPROVAL" => GatePasses
        /\ tx[h].op = "approve" /\ tx[h].stage = "closing" =>
              (tx[h].approves <=> /\ tx[h].scope = Parent
                                  /\ AllRows(h, Parent, {"APPROVED"})
                                  /\ AllBatchesApproved(h, Scope))
        /\ tx[h].op = "submit" /\ tx[h].stage = "closing" =>
              (tx[h].approves <=>
                  /\ child[tx[h].scope].status = "IN_INSPECTION"
                  /\ AllRows(h, tx[h].scope, {"SUBMITTED_FOR_APPROVAL", "APPROVED"}))

LEMMA TakenIsCurrent ==
    ASSUME TypeOK, NEW h \in Handler, Takes(h)
    PROVE  /\ tx'[h].op = "editSerial" => \A r \in tx'[h].rows : approval'[r] \notin LockedSerial
           /\ tx'[h].op = "transition" /\ tx'[h].to = "PENDING_APPROVAL" => GatePasses'
           /\ tx'[h].stage = "read"
<1>1. tx \in [Handler -> Request]
  BY DEF TypeOK
<1>2. UNCHANGED <<report, snapshot, child, rowVars, batchVars>>
  BY TakesOnly
<1> DEFINE Read == {"editSerial", "transition"}
<1>3. ASSUME NEW role \in Role, NEW to \in ReportStatus, NEW reason \in BOOLEAN,
             BeginTransition(h, role, to, reason)
      PROVE  /\ tx'[h].op = "transition" /\ tx'[h].stage = "read"
             /\ tx'[h].to = "PENDING_APPROVAL" => GatePasses
  <2>1. tx'[h].op = "transition" /\ tx'[h].stage = "read" /\ tx'[h].to = to
    BY <1>1, <1>3 DEF BeginTransition, NoRequest
  <2>2. to = "PENDING_APPROVAL" => GatePasses
    BY <1>3 DEF BeginTransition, MayTransition
  <2> QED BY <2>1, <2>2
<1>4. ASSUME NEW s \in Serial, NEW finding \in Finding, BeginEditSerial(h, s, finding)
      PROVE  /\ tx'[h].op = "editSerial" /\ tx'[h].stage = "read"
             /\ \A r \in tx'[h].rows : approval[r] \notin LockedSerial
  BY <1>1, <1>4 DEF BeginEditSerial, NoRequest
<1>5. ASSUME \/ \E to \in ReportStatus \cup {NoStatus} : BeginUpdate(h, to)
             \/ \E serials \in SUBSET Serial : BeginCreateSerials(h, serials)
             \/ \E s \in Serial : BeginDeleteSerial(h, s)
             \/ \E sc \in Scope, serials \in SUBSET Serial : BeginSubmit(h, sc, serials)
             \/ \E b \in Batch : \E named \in SUBSET Member(b) :
                   BeginApprove(h, b, named) \/ BeginReturn(h, b, named)
             \/ \E c \in Child : BeginSync(h, c)
             \/ \E c \in Child, to \in ChildStatus \cup {NoStatus} : BeginChildUpdate(h, c, to)
             \/ \E c \in Child, s \in Serial, finding \in Finding :
                   BeginChildEdit(h, c, s, finding)
             \/ \E c \in Child, role \in Role, to \in ChildStatus, reason \in BOOLEAN :
                   BeginChildTransition(h, role, c, to, reason)
      PROVE  tx'[h].op \notin Read /\ tx'[h].stage = "read"
  <2> DEFINE Fine == tx'[h].op \notin Read /\ tx'[h].stage = "read"
  <2>1. \A R : tx' = [tx EXCEPT ![h] = R] /\ R.op \notin Read /\ R.stage = "read" => Fine
    BY <1>1
  <2> HIDE DEF Fine
  <2>2. ASSUME NEW to, BeginUpdate(h, to) PROVE Fine
    BY <2>1, <2>2 DEF BeginUpdate, NoRequest
  <2>3. ASSUME NEW serials, BeginCreateSerials(h, serials) PROVE Fine
    BY <2>1, <2>3 DEF BeginCreateSerials, NoRequest
  <2>4. ASSUME NEW s, BeginDeleteSerial(h, s) PROVE Fine
    BY <2>1, <2>4 DEF BeginDeleteSerial, NoRequest
  <2>5. ASSUME NEW sc, NEW serials, BeginSubmit(h, sc, serials) PROVE Fine
    BY <2>1, <2>5 DEF BeginSubmit, NoRequest
  <2>6. ASSUME NEW b, NEW named, BeginApprove(h, b, named) \/ BeginReturn(h, b, named)
        PROVE  Fine
    BY <2>1, <2>6 DEF BeginApprove, BeginReturn, BeginReview, NoRequest
  <2>7. ASSUME NEW c, BeginSync(h, c) PROVE Fine
    BY <2>1, <2>7 DEF BeginSync, NoRequest
  <2>8. ASSUME NEW c, NEW to, BeginChildUpdate(h, c, to) PROVE Fine
    BY <2>1, <2>8 DEF BeginChildUpdate, NoRequest
  <2>9. ASSUME NEW c, NEW s, NEW finding, BeginChildEdit(h, c, s, finding) PROVE Fine
    BY <2>1, <2>9 DEF BeginChildEdit, NoRequest
  <2>10. ASSUME NEW c, NEW role, NEW to, NEW reason, BeginChildTransition(h, role, c, to, reason)
         PROVE  Fine
    BY <2>1, <2>10 DEF BeginChildTransition, NoRequest
  <2>11. Fine
    BY <1>5, <2>2, <2>3, <2>4, <2>5, <2>6, <2>7, <2>8, <2>9, <2>10
  <2> QED BY <2>11 DEF Fine
<1>6. \/ /\ tx'[h].op = "transition" /\ tx'[h].stage = "read"
         /\ tx'[h].to = "PENDING_APPROVAL" => GatePasses
      \/ /\ tx'[h].op = "editSerial" /\ tx'[h].stage = "read"
         /\ \A r \in tx'[h].rows : approval[r] \notin LockedSerial
      \/ tx'[h].op \notin Read /\ tx'[h].stage = "read"
  BY <1>3, <1>4, <1>5 DEF Takes
<1>7. GatePasses' <=> GatePasses
  BY <1>2 DEF GatePasses, RowsOf, Exists, rowVars
<1> QED BY <1>2, <1>6, <1>7 DEF rowVars

LEMMA CountsUnchanged ==
    ASSUME NEW h \in Handler, UNCHANGED <<child, rowVars, batchVars>>,
           tx'[h].op = tx[h].op, tx'[h].scope = tx[h].scope, tx'[h].batch = tx[h].batch,
           tx'[h].locked = tx[h].locked, tx'[h].to = tx[h].to, tx'[h].closes = tx[h].closes,
           NEW sc, NEW done, NEW scs
    PROVE  /\ AllRows(h, sc, done)' <=> AllRows(h, sc, done)
           /\ AllBatchesApproved(h, scs)' <=> AllBatchesApproved(h, scs)
<1>1. /\ approval' = approval
      /\ batchStatus' = batchStatus /\ batchScope' = batchScope
  BY DEF rowVars, batchVars
<1>2. Seen(h)' = Seen(h)
  BY <1>1 DEF Seen
<1>3. RowsOf(sc)' = RowsOf(sc)
  BY <1>1 DEF RowsOf, Exists
<1>4. BatchesMade' = BatchesMade
  BY <1>1 DEF BatchesMade
<1> QED BY <1>1, <1>2, <1>3, <1>4 DEF AllRows, AllBatchesApproved

LEMMA CurrentStep ==
    ASSUME TypeOK, ReadsAreCurrent, OneAtATime, [Next]_vars
    PROVE  ReadsAreCurrent'
<1> SUFFICES ASSUME NEW h \in Handler
             PROVE  (/\ tx[h].op = "editSerial" =>
                           \A r \in tx[h].rows : approval[r] \notin LockedSerial
                     /\ tx[h].op = "transition" /\ tx[h].to = "PENDING_APPROVAL" => GatePasses
                     /\ tx[h].op = "approve" /\ tx[h].stage = "closing" =>
                           (tx[h].approves <=> /\ tx[h].scope = Parent
                                               /\ AllRows(h, Parent, {"APPROVED"})
                                               /\ AllBatchesApproved(h, Scope))
                     /\ tx[h].op = "submit" /\ tx[h].stage = "closing" =>
                           (tx[h].approves <=>
                               /\ child[tx[h].scope].status = "IN_INSPECTION"
                               /\ AllRows(h, tx[h].scope,
                                          {"SUBMITTED_FOR_APPROVAL", "APPROVED"})))'
  BY DEF ReadsAreCurrent
<1>1. tx \in [Handler -> Request] /\ tx[h] \in Request
  BY DEF TypeOK
<1>2. CASE Takes(h)
  BY <1>2, TakenIsCurrent
<1>3. CASE tx'[h] = NoRequest
  BY <1>3 DEF NoRequest
<1>4. CASE WriteRows(h) \/ CreateChild(h)
  <2>1. /\ tx'[h].op \in {"submit", "approve", "return", "sync"}
        /\ tx'[h].stage = "written"
    BY <1>1, <1>4 DEF WriteRows, CreateChild, ReviewOperation, Request
  <2> QED BY <2>1
<1>5. CASE WriteBatch(h)
  <2> DEFINE A == /\ tx[h].op = "approve"
                  /\ tx[h].scope = Parent
                  /\ AllRows(h, Parent, {"APPROVED"})
                  /\ AllBatchesApproved(h, Scope)
  <2>1. tx' = [tx EXCEPT ![h].stage = "closing", ![h].approves = A]
        /\ UNCHANGED <<child, rowVars, batchVars>>
        /\ tx[h].op \in {"approve", "return"}
    BY <1>5 DEF WriteBatch, Judging, ReviewOperation
  <2> HIDE DEF A
  <2>2. /\ tx'[h].op = tx[h].op /\ tx'[h].scope = tx[h].scope /\ tx'[h].batch = tx[h].batch
        /\ tx'[h].locked = tx[h].locked /\ tx'[h].to = tx[h].to
        /\ tx'[h].closes = tx[h].closes /\ tx'[h].approves = A
    BY <1>1, <2>1 DEF Request
  <2>3. AllRows(h, Parent, {"APPROVED"})' <=> AllRows(h, Parent, {"APPROVED"})
    BY <2>1, <2>2, CountsUnchanged
  <2>4. AllBatchesApproved(h, Scope)' <=> AllBatchesApproved(h, Scope)
    BY <2>1, <2>2, CountsUnchanged
  <2>5. tx'[h].op = "approve" =>
          (tx'[h].approves <=> /\ tx'[h].scope = Parent
                               /\ AllRows(h, Parent, {"APPROVED"})'
                               /\ AllBatchesApproved(h, Scope)')
    BY Zenon, <2>2, <2>3, <2>4 DEF A
  <2> QED BY <2>1, <2>2, <2>5
<1>6. CASE CountChildRows(h)
  <2> DEFINE done == {"SUBMITTED_FOR_APPROVAL", "APPROVED"}
             c == tx[h].scope
             A == child[c].status = "IN_INSPECTION" /\ AllRows(h, c, done)
  <2>1. /\ tx' = [tx EXCEPT ![h].stage = "closing", ![h].approves = A]
        /\ UNCHANGED <<child, rowVars, batchVars>>
        /\ tx[h].op = "submit"
    BY <1>6 DEF CountChildRows
  <2> HIDE DEF A
  <2>2. /\ tx'[h].op = tx[h].op /\ tx'[h].scope = tx[h].scope /\ tx'[h].batch = tx[h].batch
        /\ tx'[h].locked = tx[h].locked /\ tx'[h].to = tx[h].to
        /\ tx'[h].closes = tx[h].closes /\ tx'[h].approves = A
    BY <1>1, <2>1 DEF Request
  <2>3. AllRows(h, tx[h].scope, done)' <=> AllRows(h, c, done)
    <3>1. approval' = approval
      BY <2>1 DEF rowVars
    <3>2. Seen(h)' = Seen(h)
      BY <2>2, <3>1 DEF Seen
    <3>3. RowsOf(tx[h].scope)' = RowsOf(c)
      BY <2>2, <3>1 DEF RowsOf, Exists
    <3> QED BY <3>2, <3>3 DEF AllRows
  <2>4. child' = child
    BY <2>1
  <2>5. tx'[h].approves <=> /\ child'[tx'[h].scope].status = "IN_INSPECTION"
                            /\ AllRows(h, tx[h].scope, done)'
    BY Zenon, <2>2, <2>3, <2>4 DEF A
  <2> QED BY <2>1, <2>2, <2>5
<1>7. CASE UNCHANGED vars
  <2>1. tx' = tx /\ child' = child
    BY <1>7 DEF vars
  <2>2. /\ AllRows(h, Parent, {"APPROVED"})' <=> AllRows(h, Parent, {"APPROVED"})
        /\ AllBatchesApproved(h, Scope)' <=> AllBatchesApproved(h, Scope)
    BY <1>7 DEF vars, rowVars, batchVars, AllRows, Seen, RowsOf, Exists,
                AllBatchesApproved, BatchesMade
  <2>3. /\ AllRows(h, tx[h].scope, {"SUBMITTED_FOR_APPROVAL", "APPROVED"})'
            <=> AllRows(h, tx[h].scope, {"SUBMITTED_FOR_APPROVAL", "APPROVED"})
    BY <1>7 DEF vars, rowVars, AllRows, Seen, RowsOf, Exists
  <2>4. GatePasses' <=> GatePasses
    BY <1>7 DEF vars, rowVars, GatePasses, RowsOf, Exists
  <2>5. approval' = approval
    BY <1>7 DEF vars, rowVars
  <2> QED BY <2>1, <2>2, <2>3, <2>4, <2>5 DEF ReadsAreCurrent
<1>8. CASE Next
  <2>1. PICK g \in Handler :
           \/ Transition(g) \/ Update(g) \/ CreateSerials(g) \/ EditSerial(g)
           \/ DeleteSerial(g) \/ Submit(g) \/ WriteRows(g) \/ Review(g)
           \/ SyncRework(g) \/ UpdateChild(g) \/ EditChildSerial(g)
           \/ TransitionChild(g) \/ Abort(g)
    BY <1>8 DEF Next
  <2>2. g = h
    BY DEF OneAtATime
  <2>3. Finish(h) \/ Reconcile(h) \/ DeleteChild(h) => tx'[h] = NoRequest
    BY <1>1 DEF Finish, Reconcile, DeleteChild, RemoveRows
  <2>4. \/ Takes(h) \/ Finish(h)
        \/ WriteRows(h) \/ CountChildRows(h) \/ WriteBatch(h) \/ CreateChild(h)
        \/ Reconcile(h) \/ DeleteChild(h)
    BY <2>1, <2>2, OperationSteps
  <2> QED BY <1>2, <1>3, <1>4, <1>5, <1>6, <2>3, <2>4
<1> QED BY <1>7, <1>8

LEMMA CurrentAlways ==
    ASSUME OneAtATime
    PROVE  Spec => []ReadsAreCurrent
<1>1. Init => ReadsAreCurrent
  BY DEF Init, ReadsAreCurrent, NoRequest
<1>2. TypeOK /\ ReadsAreCurrent /\ [Next]_vars => ReadsAreCurrent'
  BY CurrentStep
<1> QED BY <1>1, <1>2, TypeCorrect, PTL DEF Spec

(* What the commit of an approval leaves, in terms of what it counted.     *)
LEMMA ApprovalLeaves ==
    ASSUME ReviewInvariant, NEW h \in Handler, CommitApproval(h)
    PROVE  /\ RowsOf(Parent)' = RowsOf(Parent)
           /\ \A r \in RowsOf(Parent) : approval'[r] = Seen(h)[r]
           /\ BatchesMade' = BatchesMade
           /\ \A b \in BatchesMade :
                 batchStatus'[b] = "APPROVED" <=>
                    IF b = tx[h].batch THEN tx[h].closes ELSE batchStatus[b] = "APPROVED"
           /\ batchScope' = batchScope
<1>1. /\ tx[h].op = "approve"
      /\ approval' = Seen(h)
      /\ batchStatus' = [batchStatus EXCEPT ![tx[h].batch] =
                           IF tx[h].closes THEN "APPROVED" ELSE "SUBMITTED"]
      /\ batchScope' = batchScope
  BY DEF CommitApproval, CommitReview
<1>2. tx[h].batch \in BatchesMade /\ tx[h].to = "APPROVED"
  BY <1>1 DEF ReviewInvariant, RequestOK, RequestOf, Judging, ReviewOperation
<1>3. /\ batchStatus \in [Batch -> BatchStatus \cup {NoStatus}]
      /\ approval \in [Row -> SerialApprovalStatus \cup {NoStatus, Gone}]
  BY DEF ReviewInvariant, TypeOK
<1>4. \A r \in Row : Exists(r)' <=> Exists(r)
  <2> TAKE r \in Row
  <2>1. CASE r \in tx[h].locked
    <3>1. Exists(r)
      BY <2>1 DEF ReviewInvariant, LocksOK
    <3>2. approval'[r] = "APPROVED"
      BY <1>1, <1>2, <2>1 DEF Seen
    <3> QED BY <3>1, <3>2 DEF Exists, SerialApprovalStatus
  <2>2. CASE r \notin tx[h].locked
    BY <1>1, <2>2 DEF Seen, Exists
  <2> QED BY <2>1, <2>2
<1>5. {Parent} \X Serial \subseteq Row
  BY DEF Row, Scope
<1>6. RowsOf(Parent)' = RowsOf(Parent)
  BY <1>4, <1>5 DEF RowsOf
<1>7. BatchesMade' = BatchesMade
  BY <1>1, <1>2, <1>3 DEF BatchesMade, NoStatus
<1>8. \A b \in BatchesMade :
         batchStatus'[b] = "APPROVED" <=>
            IF b = tx[h].batch THEN tx[h].closes ELSE batchStatus[b] = "APPROVED"
  BY <1>1, <1>3 DEF BatchesMade
<1> QED BY <1>1, <1>6, <1>7, <1>8

LEMMA CompleteIffCounted ==
    ASSUME ReviewInvariant, NEW h \in Handler, CommitApproval(h)
    PROVE  ReviewComplete' <=> AllRows(h, Parent, {"APPROVED"}) /\ AllBatchesApproved(h, Scope)
<1>1. {b \in BatchesMade : batchScope[b] \in Scope} = BatchesMade
  BY DEF ReviewInvariant, TypeOK, BatchesMade
<1>2. (\A b \in BatchesMade' : batchStatus'[b] = "APPROVED") <=> AllBatchesApproved(h, Scope)
  BY <1>1, ApprovalLeaves DEF AllBatchesApproved
<1>3. (\A r \in RowsOf(Parent)' : approval'[r] = "APPROVED") <=> AllRows(h, Parent, {"APPROVED"})
  BY ApprovalLeaves DEF AllRows
<1> QED BY <1>2, <1>3 DEF ReviewComplete

LEMMA LoneApproval ==
    ASSUME ReviewInvariant, ReadsAreCurrent, NEW h \in Handler, CommitApproval(h)
    PROVE  /\ tx[h].approves <=> tx[h].scope = Parent /\ ReviewComplete'
           /\ report'.status = IF tx[h].approves THEN "APPROVED" ELSE report.status
<1>1. tx[h].op = "approve" /\ tx[h].stage = "closing"
  BY DEF CommitApproval, CommitReview
<1>2. tx[h].approves <=> /\ tx[h].scope = Parent
                         /\ AllRows(h, Parent, {"APPROVED"})
                         /\ AllBatchesApproved(h, Scope)
  BY <1>1 DEF ReadsAreCurrent
<1>3. report \in ReportRecord
  BY DEF ReviewInvariant, TypeOK
<1>4. report'.status = IF tx[h].approves THEN "APPROVED" ELSE report.status
  BY <1>3 DEF CommitApproval, CommitReview, ReportRecord
<1> QED BY <1>2, <1>4, CompleteIffCounted

(* While requests do not overlap, the approval that completes the review   *)
(* approves the report with it: its counts are those of the commit.        *)
THEOREM LoneApprovalIsNoticed ==
    ASSUME OneAtATime
    PROVE  Spec => AutoApprovalNeverMissed
<1>1. ReviewInvariant /\ ReadsAreCurrent /\ [Next]_vars =>
        [\A h \in Handler :
            /\ CommitApproval(h)
            /\ tx[h].scope = Parent
            /\ ReviewComplete'
            => report'.status = "APPROVED"]_vars
  BY LoneApproval
<1> QED BY <1>1, ReviewInvariantHolds, CurrentAlways, PTL DEF Spec, AutoApprovalNeverMissed

(* And then only: no report is approved by a batch with a serial or        *)
(* another batch still open.                                               *)
THEOREM LoneApprovalIsComplete ==
    ASSUME OneAtATime
    PROVE  Spec => AutoApprovalIsComplete
<1>1. ReviewInvariant /\ ReadsAreCurrent /\ [Next]_vars =>
        [\A h \in Handler :
            /\ CommitApproval(h)
            /\ report.status # "APPROVED"
            /\ report'.status = "APPROVED"
            => ReviewComplete']_vars
  BY LoneApproval
<1> QED BY <1>1, ReviewInvariantHolds, CurrentAlways, PTL DEF Spec, AutoApprovalIsComplete

(* While requests do not overlap, a report enters PENDING_APPROVAL by a    *)
(* transition only with every serial complete.                             *)
THEOREM LoneEntryPassesGate ==
    ASSUME OneAtATime
    PROVE  Spec => GateHoldsOnEntry
<1>1. ASSUME TypeOK, ReadsAreCurrent, NEW h \in Handler, CommitTransition(h),
             report'.status = "PENDING_APPROVAL"
      PROVE  GatePasses'
  <2>1. tx[h].op = "transition" /\ tx[h].to = "PENDING_APPROVAL" /\ data' = data
    BY <1>1 DEF CommitTransition
  <2>2. GatePasses
    BY <1>1, <2>1 DEF ReadsAreCurrent
  <2>3. approval' = approval
    BY <1>1, <2>1 DEF CommitTransition, TypeOK
  <2> QED BY <2>1, <2>2, <2>3 DEF GatePasses, RowsOf, Exists
<1>2. TypeOK /\ ReadsAreCurrent /\ [Next]_vars =>
        [\A h \in Handler :
            /\ CommitTransition(h)
            /\ report'.status = "PENDING_APPROVAL"
            => GatePasses']_vars
  BY <1>1
<1> QED BY <1>2, TypeCorrect, CurrentAlways, PTL DEF Spec, GateHoldsOnEntry

(* While requests do not overlap, a serial keeps its data as long as it is *)
(* under review or approved: edits ask for its status, deletions for its   *)
(* batches, and the operations on child reports never touch it.            *)
THEOREM LoneEditsSpareReview ==
    ASSUME OneAtATime
    PROVE  Spec => SubmittedSerialsAreLocked
<1>1. ASSUME ReviewInvariant, EditsSeeRows, ReadsAreCurrent, [Next]_vars, NEW s \in Serial,
             approval[<<Parent, s>>] \in {"SUBMITTED_FOR_APPROVAL", "APPROVED"},
             approval'[<<Parent, s>>] = approval[<<Parent, s>>]
      PROVE  data'[<<Parent, s>>] = data[<<Parent, s>>]
  <2>1. /\ TypeOK
        /\ data \in [Row -> Finding]
        /\ approval \in [Row -> SerialApprovalStatus \cup {NoStatus, Gone}]
        /\ <<Parent, s>> \in Row
    BY <1>1 DEF ReviewInvariant, TypeOK, Row, Scope
  <2>2. ASSUME NEW h \in Handler, CommitEditSerial(h) PROVE data'[<<Parent, s>>] = data[<<Parent, s>>]
    <3>1. PICK t \in Serial :
            /\ tx[h].op = "editSerial"
            /\ tx[h].rows = {<<Parent, t>>}
            /\ data' = [data EXCEPT ![<<Parent, t>>] = tx[h].finding]
      BY <2>2 DEF CommitEditSerial
    <3>2. approval[<<Parent, t>>] \notin LockedSerial
      BY <1>1, <3>1 DEF ReadsAreCurrent
    <3>3. s # t
      BY <1>1, <3>2 DEF LockedSerial
    <3> QED BY <2>1, <3>1, <3>3
  <2>3. ASSUME NEW h \in Handler, CommitDeleteSerial(h) PROVE data'[<<Parent, s>>] = data[<<Parent, s>>]
    <3>1. PICK t \in Serial :
            /\ approval' = [approval EXCEPT ![<<Parent, t>>] = Gone]
            /\ data' = [data EXCEPT ![<<Parent, t>>] = NoData]
      BY <2>3 DEF CommitDeleteSerial
    <3>2. s # t
      BY <1>1, <2>1, <3>1 DEF Gone
    <3> QED BY <2>1, <3>1, <3>2
  <2>4. ASSUME NEW h \in Handler,
               \/ CommitTransition(h) \/ CommitUpdate(h) \/ CommitCreateSerials(h)
               \/ CommitSubmit(h) \/ CommitReview(h)
        PROVE  data' = data
    BY <2>4 DEF CommitTransition, CommitUpdate, CommitCreateSerials, CommitSubmit, CommitReview,
                rowVars
  <2>5. ASSUME NEW h \in Handler,
               Reconcile(h) \/ DeleteChild(h) \/ CommitChildEdit(h) \/ CommitChildTransition(h)
        PROVE  data'[<<Parent, s>>] = data[<<Parent, s>>]
    BY <1>1, <2>5, ChildRowStep
  <2>6. UNCHANGED <<report, rowVars>> => data' = data
    BY DEF rowVars
  <2> QED BY <1>1, <2>1, <2>2, <2>3, <2>4, <2>5, <2>6, WritingSteps
<1>2. ReviewInvariant /\ EditsSeeRows /\ ReadsAreCurrent /\ [Next]_vars =>
        [\A s \in Serial :
            LET r == <<Parent, s>> IN
            /\ approval[r] \in {"SUBMITTED_FOR_APPROVAL", "APPROVED"}
            /\ approval'[r] = approval[r]
            => data'[r] = data[r]]_vars
  BY <1>1
<1> QED BY <1>2, ReviewInvariantHolds, EditsSeeRowsAlways, CurrentAlways, PTL
        DEF Spec, SubmittedSerialsAreLocked

(* While requests do not overlap, the submission of the last serial of a   *)
(* child report under inspection moves the child report on.                *)
THEOREM LoneSubmitMovesChild ==
    ASSUME OneAtATime
    PROVE  Spec => ChildMovesOnLastSubmit
<1>1. ASSUME TypeOK, ReadsAreCurrent, NEW h \in Handler, NEW c \in Child, CommitSubmit(h),
             tx[h].scope = c,
             \A r \in RowsOf(c) : approval'[r] \in {"SUBMITTED_FOR_APPROVAL", "APPROVED"}
      PROVE  child'[c].status # "IN_INSPECTION"
  <2>1. c # Parent
    BY ConstantsAssumption
  <2>2. /\ tx[h].op = "submit" /\ tx[h].stage = "closing"
        /\ approval' = Seen(h)
        /\ child' = IF tx[h].approves
                    THEN [child EXCEPT ![c].status = "PENDING_APPROVAL", ![c].logged = TRUE]
                    ELSE child
    BY <1>1, <2>1 DEF CommitSubmit
  <2>3. AllRows(h, c, {"SUBMITTED_FOR_APPROVAL", "APPROVED"})
    BY <1>1, <2>2 DEF AllRows
  <2>4. tx[h].approves <=> child[c].status = "IN_INSPECTION"
    BY <1>1, <2>2, <2>3 DEF ReadsAreCurrent
  <2>5. child \in [Child -> ChildRecord]
    BY <1>1 DEF TypeOK
  <2> QED BY <2>2, <2>4, <2>5 DEF ChildRecord
<1>2. TypeOK /\ ReadsAreCurrent /\ [Next]_vars =>
        [\A h \in Handler, c \in Child :
            /\ CommitSubmit(h)
            /\ tx[h].scope = c
            /\ \A r \in RowsOf(c) : approval'[r] \in {"SUBMITTED_FOR_APPROVAL", "APPROVED"}
            => child'[c].status # "IN_INSPECTION"]_vars
  BY <1>1
<1> QED BY <1>2, TypeCorrect, CurrentAlways, PTL DEF Spec, ChildMovesOnLastSubmit
============================================================================
