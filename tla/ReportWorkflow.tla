--------------------------- MODULE ReportWorkflow ---------------------------
(***************************************************************************)
(* The two ways a client changes an inspection report's row: the workflow  *)
(* transition, checked against the matrix, and the PATCH of the report,    *)
(* whose body may carry a status of its own.  Both are guarded writes:     *)
(* they commit only if the version they read is still the row's version.   *)
(***************************************************************************)
EXTENDS ReportDatabase

(* From ON_HOLD, anything but CLOSED is a restore, whatever the matrix says.*)
IsRestoringFromHold(from, to) == from = "ON_HOLD" /\ to # "CLOSED"

MayRestore(role, to) ==
    /\ role \in {"SUPERVISOR", "ADMIN"}
    /\ report.heldFrom # NoStatus
    /\ to = report.heldFrom

(* A fault to refute: a closed report is not reopened, merely moved.       *)
ReopensApprovedOnly(from, to) == from = "APPROVED" /\ to = "IN_INSPECTION"

IsReopen(from, to) ==
    \/ from = "APPROVED" /\ to = "IN_INSPECTION"
    \/ from = "CLOSED" /\ to \in {"APPROVED", "IN_INSPECTION"}

(* A fault to refute: the gate is not asked.                               *)
MayTransitionUngated(role, to, reason) ==
    to \in InspectionTransitions(role, report.status)

(* The checks of a transition, in the order they are made.                 *)
MayTransition(role, to, reason) ==
    /\ role # "CUSTOMER"
    /\ \/ to \in InspectionTransitions(role, report.status)
       \/ IsRestoringFromHold(report.status, to)
    /\ IsRestoringFromHold(report.status, to) => MayRestore(role, to)
    /\ ReasonRequiredForInspection(report.status, to) => reason
    /\ to = "PENDING_APPROVAL" => GatePasses

(* Read and validate a transition request.  `itemVersion` keeps the        *)
(* revision number read, which decides whether an approval is the first.   *)
BeginTransition(h, role, to, reason) ==
    /\ CanServe(h, "transition")
    /\ to \in Targets
    /\ report.version < MaxVersion
    /\ MayTransition(role, to, reason)
    /\ tx' = [tx EXCEPT ![h] =
                [NoRequest EXCEPT !.op = "transition",
                                  !.from = report.status, !.to = to,
                                  !.version = report.version,
                                  !.itemVersion = report.revision]]
    /\ UNCHANGED <<report, snapshot, child, rowVars, batchVars>>

(* A fault to refute: the write is by id alone.                            *)
AnyVersion(h) == TRUE

(* The guard of both writes: the row is at the version the request read.   *)
AtVersionRead(h) == report.version = tx[h].version

(* The guarded write: status, log, snapshot and, on a reopen back into     *)
(* inspection, the approved serials returned to draft, in one transaction. *)
CommitTransition(h) ==
    LET from == tx[h].from
        to == tx[h].to
        reopen == IsReopen(from, to)
        freezes == reopen \/ (to = "APPROVED" /\ tx[h].itemVersion = 0)
        reset == IF reopen /\ to = "IN_INSPECTION"
                 THEN {r \in RowsOf(Parent) : approval[r] = "APPROVED"} ELSE {}
    IN
    /\ tx[h].op = "transition"
    /\ AtVersionRead(h)
    /\ Lockable(h, reset)
    /\ report' = [status   |-> to,
                  version  |-> tx[h].version + 1,
                  revision |-> report.revision + (IF freezes THEN 1 ELSE 0),
                  heldFrom |-> IF to = "ON_HOLD" THEN from ELSE report.heldFrom]
    /\ snapshot' = IF freezes THEN Content ELSE snapshot
    /\ approval' = [r \in Row |-> IF r \in reset THEN "INSPECTED_DRAFT" ELSE approval[r]]
    /\ rowVersion' = [s \in Serial |->
                        rowVersion[s] + (IF <<Parent, s>> \in reset THEN 1 ELSE 0)]
    /\ Finish(h)
    /\ UNCHANGED <<child, data, batchVars>>

(* Read and validate a PATCH of the report.  The status of the body, when  *)
(* it has one, meets no matrix, no gate and no reason.                     *)
BeginUpdate(h, to) ==
    /\ CanServe(h, "update")
    /\ to \in Targets \cup {NoStatus}
    /\ report.version < MaxVersion
    /\ report.status \notin LockedReport
    /\ tx' = [tx EXCEPT ![h] =
                [NoRequest EXCEPT !.op = "update", !.from = report.status,
                                  !.to = to, !.version = report.version]]
    /\ UNCHANGED <<report, snapshot, child, rowVars, batchVars>>

(* A fault to refute: a body without a status clears the status.           *)
CommitUpdateBlank(h) ==
    /\ tx[h].op = "update"
    /\ AtVersionRead(h)
    /\ report' = [report EXCEPT !.status = tx[h].to, !.version = tx[h].version + 1]
    /\ Finish(h)
    /\ UNCHANGED <<snapshot, child, rowVars, batchVars>>

(* A PATCH into ON_HOLD is logged without a previousActiveStatus.          *)
CommitUpdate(h) ==
    LET to == tx[h].to
        logsHold == to = "ON_HOLD" /\ tx[h].from # "ON_HOLD"
    IN
    /\ tx[h].op = "update"
    /\ AtVersionRead(h)
    /\ report' = [report EXCEPT
                    !.status = IF to = NoStatus THEN @ ELSE to,
                    !.version = tx[h].version + 1,
                    !.heldFrom = IF logsHold THEN NoStatus ELSE @]
    /\ Finish(h)
    /\ UNCHANGED <<snapshot, child, rowVars, batchVars>>
=============================================================================
