----------------------------- MODULE MCReports ------------------------------
(***************************************************************************)
(* Instances of InspectionReports for TLC: the requests clients send, the  *)
(* statuses they ask for, symmetry, and a report that is already under     *)
(* inspection for the instances that study the review of its serials.      *)
(***************************************************************************)
EXTENDS InspectionReports, TLC

CONSTANT FirstChild  \* the child report of the instances that start with one

HandlerSymmetry == Permutations(Handler)
HandlerSerialSymmetry == Permutations(Handler) \cup Permutations(Serial)

NoTargets == {}
AllTargets == ReportStatus
SequentialTargets == {"IN_INSPECTION", "PENDING_APPROVAL"}

ReviewRequests == {"submit", "approve", "return"}
LifecycleRequests ==
    {"transition", "update", "createSerial", "editSerial", "deleteSerial"}
SyncAndReview == ReviewRequests \cup {"sync", "editSerial"}

(* A report in inspection: the rows of the scopes `inspected` have had     *)
(* their first inspection, with every serial of the report marked for      *)
(* rework; no disposition but the report's is known.                       *)
InInspection(version, inspected, serialVersion) ==
    /\ report = [status |-> "IN_INSPECTION", version |-> version, revision |-> 0,
                 heldFrom |-> NoStatus]
    /\ snapshot = [s \in Serial |-> NoData]
    /\ approval = [r \in Row |-> IF r[1] \in inspected THEN "INSPECTED_DRAFT"
                                 ELSE IF r[1] = Parent THEN "NOT_INSPECTED" ELSE NoStatus]
    /\ data = [r \in Row |-> IF r[1] = Parent /\ Parent \in inspected THEN Rework ELSE NoData]
    /\ rowVersion = [s \in Serial |-> serialVersion]
    /\ batchStatus = [b \in Batch |-> NoStatus]
    /\ batchVersion = [b \in Batch |-> 0]
    /\ batchScope = [b \in Batch |-> Parent]
    /\ junction = [b \in Batch |-> [s \in Serial |-> NoStatus]]
    /\ tx = [h \in Handler |-> NoRequest]

(* Four forward transitions made version 5; the serials were just          *)
(* inspected, and no sync has run yet.                                     *)
InspectionInit ==
    /\ InInspection(5, {Parent}, 2)
    /\ child = [c \in Child |-> NoChild]

(* The header was edited once more, and the serials were just received.    *)
ReceivedInit ==
    /\ InInspection(6, {}, 1)
    /\ child = [c \in Child |-> NoChild]

(* A sync has made the child report, a transition put it under inspection, *)
(* and three more syncs and the inspection of its rows followed.           *)
ReworkInit ==
    /\ InInspection(5, {Parent, FirstChild}, 5)
    /\ child = [c \in Child |->
                   IF c = FirstChild
                   THEN [status |-> "IN_INSPECTION", version |-> 5, revision |-> 0,
                         logged |-> TRUE]
                   ELSE NoChild]

InspectionSpec == InspectionInit /\ [][Next]_vars
ReworkSpec == (ReceivedInit \/ ReworkInit) /\ [][Next]_vars
=============================================================================
