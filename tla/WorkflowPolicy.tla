--------------------------- MODULE WorkflowPolicy ---------------------------
(***************************************************************************)
(* The authoritative transition matrices of the API: which role may move   *)
(* an inspection report, or a child report, from one status to another,    *)
(* and which moves need a reason.  Constant operators only; the state      *)
(* machines that obey (or bypass) the matrices EXTEND this module.         *)
(***************************************************************************)

Role == {"ADMIN", "RECEIVER", "INSPECTOR", "SUPERVISOR", "CUSTOMER"}

ReportStatus ==
    {"DRAFT", "RECEIVED", "READY_FOR_CLEANING", "READY_FOR_INSPECTION",
     "IN_INSPECTION", "PENDING_APPROVAL", "APPROVED", "ON_HOLD", "CLOSED"}

ChildStatus ==
    {"DRAFT", "IN_INSPECTION", "PENDING_APPROVAL", "APPROVED", "CLOSED"}

(* ADMIN's matrix, which SUPERVISOR shares.  Leaving ON_HOLD for anything  *)
(* but CLOSED is not in it: the service resolves that move from the log.   *)
AdminInspectionTransitions ==
    [DRAFT                |-> {"RECEIVED", "ON_HOLD", "CLOSED"},
     RECEIVED             |-> {"READY_FOR_CLEANING", "ON_HOLD", "CLOSED"},
     READY_FOR_CLEANING   |-> {"READY_FOR_INSPECTION", "ON_HOLD", "CLOSED"},
     READY_FOR_INSPECTION |-> {"IN_INSPECTION", "ON_HOLD", "CLOSED"},
     IN_INSPECTION        |-> {"PENDING_APPROVAL", "ON_HOLD", "CLOSED"},
     PENDING_APPROVAL     |-> {"IN_INSPECTION", "APPROVED", "ON_HOLD", "CLOSED"},
     APPROVED             |-> {"ON_HOLD", "CLOSED", "IN_INSPECTION"},
     ON_HOLD              |-> {"CLOSED"},
     CLOSED               |-> {"APPROVED", "IN_INSPECTION"}]

(* The statuses `role` may move an inspection report to from `from`.       *)
InspectionTransitions(role, from) ==
    CASE role \in {"ADMIN", "SUPERVISOR"} -> AdminInspectionTransitions[from]
      [] role = "RECEIVER" /\ from = "DRAFT" -> {"RECEIVED"}
      [] role = "RECEIVER" /\ from = "RECEIVED" -> {"READY_FOR_CLEANING"}
      [] role = "RECEIVER" /\ from = "READY_FOR_CLEANING" -> {"READY_FOR_INSPECTION"}
      [] role = "INSPECTOR" /\ from = "READY_FOR_INSPECTION" -> {"IN_INSPECTION"}
      [] role = "INSPECTOR" /\ from = "IN_INSPECTION" -> {"PENDING_APPROVAL", "ON_HOLD"}
      [] OTHER -> {}

AdminChildTransitions ==
    [DRAFT            |-> {"IN_INSPECTION"},
     IN_INSPECTION    |-> {"PENDING_APPROVAL"},
     PENDING_APPROVAL |-> {"APPROVED"},
     APPROVED         |-> {"CLOSED", "IN_INSPECTION"},
     CLOSED           |-> {}]

(* The statuses `role` may move a child report to from `from`.             *)
ChildTransitions(role, from) ==
    CASE role \in {"ADMIN", "SUPERVISOR"} -> AdminChildTransitions[from]
      [] role = "INSPECTOR" /\ from \in {"DRAFT", "IN_INSPECTION"} ->
            AdminChildTransitions[from]
      [] OTHER -> {}

(* The moves of an inspection report that are refused without a reason.    *)
ReasonRequiredForInspection(from, to) ==
    \/ to = "ON_HOLD"
    \/ from = "APPROVED" /\ to = "IN_INSPECTION"
    \/ from = "CLOSED"

ReasonRequiredForChild(from, to) ==
    from = "APPROVED" /\ to = "IN_INSPECTION"

(* Statuses in which a report's header, serials and attachments are        *)
(* refused changes by the services.                                        *)
LockedReport == {"APPROVED", "CLOSED"}

(* A fault to refute: a serial under review can still be edited.           *)
OnlyApprovedLocked == {"APPROVED"}

(* Approval statuses in which a serial of the report is refused edits.     *)
LockedSerial == {"SUBMITTED_FOR_APPROVAL", "APPROVED"}
=============================================================================
