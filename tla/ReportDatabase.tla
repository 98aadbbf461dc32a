--------------------------- MODULE ReportDatabase ---------------------------
(***************************************************************************)
(* The tables behind one inspection report, and the requests the API is    *)
(* serving on them.                                                        *)
(*                                                                         *)
(* The API runs on PostgreSQL at READ COMMITTED: a request reads committed *)
(* rows, decides, and then writes inside an interactive transaction.  What *)
(* it read may be stale when it writes; what it wrote is invisible to      *)
(* others, and its rows locked, until it commits.  `tx[h]` is what handler *)
(* h has read, decided and written so far.                                 *)
(*                                                                         *)
(* A row is a serial in a scope: the parent report's own SerialNumber row, *)
(* or a child report's ChildReportSerialNumber row for that serial.        *)
(***************************************************************************)
EXTENDS Integers, FiniteSets, WorkflowPolicy

CONSTANTS
    Serial,       \* serial numbers a receiver may add to the report
    Child,        \* ids the child reports derived from the report may get
    Parent,       \* the scope of the report's own serials
    Handler,      \* requests the API serves at the same time
    Disposition,  \* dispositions an inspector may save on a serial
    Rework,       \* the disposition the rework rule matches
    NoData,       \* inspection data that does not satisfy the approval gate
    Requests,     \* the operations clients call in this instance
    Targets,      \* the report statuses clients ask for in this instance
    MaxVersion,   \* bound: versions of the report and of a child report
    MaxRevision,  \* bound: revisions of a child report
    MaxBatches    \* bound: approval batches

ASSUME ConstantsAssumption ==
    /\ Parent \notin Child
    /\ Rework \in Disposition
    /\ NoData \notin Disposition
    /\ MaxVersion \in Nat \ {0}
    /\ MaxRevision \in Nat
    /\ MaxBatches \in Nat
    /\ Targets \subseteq ReportStatus

Scope == {Parent} \cup Child
Row == Scope \X Serial
Batch == 1..MaxBatches
Finding == Disposition \cup {NoData}

SerialApprovalStatus ==
    {"NOT_INSPECTED", "INSPECTED_DRAFT", "SUBMITTED_FOR_APPROVAL", "APPROVED"}
BatchStatus == {"SUBMITTED", "APPROVED", "RETURNED"}
JunctionStatus == {"PENDING", "APPROVED", "RETURNED"}

NoStatus == "NONE"  \* a null status, or the status of a row that does not exist
Gone == "DELETED"   \* the status of a deleted row, whose id is never used again

VARIABLES
    report,       \* InspectionReport: status, version, revisionNumber, and the
                  \* previousActiveStatus of its latest ON_HOLD transition log
    snapshot,     \* the serials' data in its latest InspectionReportRevision
    child,        \* ChildReport: status, version, revisionNumber, and whether it
                  \* has a transition log
    approval,     \* approvalStatus of each row
    data,         \* inspection data of each row
    rowVersion,   \* SerialNumber.version
    batchStatus,  \* InspectionApprovalBatch.status
    batchVersion, \* InspectionApprovalBatch.version
    batchScope,   \* InspectionApprovalBatch.childReportId
    junction,     \* InspectionApprovalBatchSerialNumber.status, by batch and serial
    tx            \* the request each handler is serving

batchVars == <<batchStatus, batchVersion, batchScope, junction>>
rowVars == <<approval, data, rowVersion>>
vars == <<report, snapshot, child, rowVars, batchVars, tx>>

----------------------------------------------------------------------------
(* Requests in flight.                                                     *)

Operation == {"transition", "update", "createSerial", "editSerial",
              "deleteSerial", "submit", "approve", "return", "sync",
              "childUpdate", "childEdit", "childTransition"}

AnyStatus == ReportStatus \cup SerialApprovalStatus \cup {NoStatus}

(* "read": the handler has read and validated; "written": its first writes *)
(* are made; "closing": it has taken its last decision.  `rows` is what it *)
(* was asked to change, `locked` what it has changed but not committed.    *)
Stage == {"read", "written", "closing"}

NoRequest ==
    [op |-> "none", stage |-> "read", scope |-> Parent, batch |-> 0,
     rows |-> {}, locked |-> {}, from |-> NoStatus, to |-> NoStatus,
     version |-> 0, itemVersion |-> 0, finding |-> NoData,
     closes |-> FALSE, approves |-> FALSE]

Request ==
    [op : Operation \cup {"none"}, stage : Stage, scope : Scope,
     batch : Batch \cup {0}, rows : SUBSET Row, locked : SUBSET Row,
     from : AnyStatus, to : AnyStatus, version : Nat, itemVersion : Nat,
     finding : Finding, closes : BOOLEAN, approves : BOOLEAN]

(* Handler h is free to take a request of kind `op`.                       *)
CanServe(h, op) == tx[h].op = "none" /\ op \in Requests

Finish(h) == tx' = [tx EXCEPT ![h] = NoRequest]

(* A request that ends without effect: a guarded write that matches no row *)
(* (409), a constraint the database enforces, a deadlock it breaks, the    *)
(* five-second limit of an interactive transaction, or a lost process.     *)
Abort(h) ==
    /\ tx[h].op # "none"
    /\ Finish(h)
    /\ UNCHANGED <<report, snapshot, child, rowVars, batchVars>>

----------------------------------------------------------------------------
(* Rows, and what a transaction sees of them.                              *)

Exists(r) == approval[r] \in SerialApprovalStatus
RowsOf(sc) == {r \in {sc} \X Serial : Exists(r)}
Live(c) == child[c].status \in ChildStatus
Member(b) == {<<batchScope[b], s>> : s \in {t \in Serial : junction[b][t] # NoStatus}}
BatchesMade == {b \in Batch : batchStatus[b] # NoStatus}

(* What a revision records of the report's serials.                        *)
Content == [s \in Serial |-> data[<<Parent, s>>]]

(* No other transaction has written any of `rows`.                         *)
Lockable(h, rows) == \A g \in Handler \ {h} : tx[g].locked \cap rows = {}

(* A fault to refute: the write covers the scope, not the rows named.      *)
WholeScope(h) ==
    [r \in Row |-> IF r \in RowsOf(tx[h].scope) THEN tx[h].to ELSE approval[r]]

(* Committed approval states overlaid with the ones h has written.         *)
Seen(h) == [r \in Row |-> IF r \in tx[h].locked THEN tx[h].to ELSE approval[r]]

(* A fault to refute: the rows are counted before they are written.        *)
RowsBeforeWrite(h, sc, done) == \A r \in RowsOf(sc) : approval[r] \in done

(* Every serial of scope sc, as h sees it, has a status in `done`.         *)
AllRows(h, sc, done) == \A r \in RowsOf(sc) : Seen(h)[r] \in done

(* The template's approval gate: there is a serial, and the data of every  *)
(* serial is complete.                                                     *)
GatePasses ==
    /\ RowsOf(Parent) # {}
    /\ \A r \in RowsOf(Parent) : data[r] # NoData

----------------------------------------------------------------------------
ReportRecord == [status : ReportStatus, version : Nat, revision : Nat,
                 heldFrom : ReportStatus \cup {NoStatus}]
ChildRecord == [status : ChildStatus \cup {NoStatus, Gone}, version : Nat,
                revision : Nat, logged : BOOLEAN]

TypeOK ==
    /\ report \in ReportRecord
    /\ snapshot \in [Serial -> Finding]
    /\ child \in [Child -> ChildRecord]
    /\ approval \in [Row -> SerialApprovalStatus \cup {NoStatus, Gone}]
    /\ data \in [Row -> Finding]
    /\ rowVersion \in [Serial -> Nat]
    /\ batchStatus \in [Batch -> BatchStatus \cup {NoStatus}]
    /\ batchVersion \in [Batch -> Nat]
    /\ batchScope \in [Batch -> Scope]
    /\ junction \in [Batch -> [Serial -> JunctionStatus \cup {NoStatus}]]
    /\ tx \in [Handler -> Request]

NoChild == [status |-> NoStatus, version |-> 0, revision |-> 0, logged |-> FALSE]

(* A report as createReport leaves it: a DRAFT at version 1 with no serial.*)
Init ==
    /\ report = [status |-> "DRAFT", version |-> 1, revision |-> 0,
                 heldFrom |-> NoStatus]
    /\ snapshot = [s \in Serial |-> NoData]
    /\ child = [c \in Child |-> NoChild]
    /\ approval = [r \in Row |-> NoStatus]
    /\ data = [r \in Row |-> NoData]
    /\ rowVersion = [s \in Serial |-> 0]
    /\ batchStatus = [b \in Batch |-> NoStatus]
    /\ batchVersion = [b \in Batch |-> 0]
    /\ batchScope = [b \in Batch |-> Parent]
    /\ junction = [b \in Batch |-> [s \in Serial |-> NoStatus]]
    /\ tx = [h \in Handler |-> NoRequest]
=============================================================================
