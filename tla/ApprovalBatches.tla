-------------------------- MODULE ApprovalBatches ---------------------------
(***************************************************************************)
(* Review of serials in batches: an inspector submits rows, a supervisor   *)
(* approves or returns some or all of a batch.                             *)
(*                                                                         *)
(* A request checks the versions it was sent against the rows it reads and *)
(* never again: its writes to the serials, to the batch and to the report  *)
(* carry no version guard.  A review works in three steps, each locking    *)
(* what it writes until the commit:                                        *)
(*   WriteRows   the serials of the request, then the count of members     *)
(*               still submitted, which decides whether the batch closes;  *)
(*   WriteBatch  the batch row, then the counts that decide whether the    *)
(*               report itself is approved;                                *)
(*   Commit      the report row and everything after it.                   *)
(***************************************************************************)
EXTENDS ReportDatabase

ReviewOperation == {"approve", "return"}
Judging(h) == tx[h].op \in ReviewOperation

(* No batch is made beyond MaxBatches.  An empty set of serials passes     *)
(* every check of the code, so it is an input too.                         *)
BeginSubmit(h, sc, serials) ==
    LET rows == {sc} \X serials IN
    /\ CanServe(h, "submit")
    /\ report.version < MaxVersion
    /\ BatchesMade # Batch
    /\ sc \in Child => Live(sc)
    /\ \A r \in rows : approval[r] = "INSPECTED_DRAFT"
    /\ tx' = [tx EXCEPT ![h] =
                [NoRequest EXCEPT !.op = "submit", !.scope = sc, !.rows = rows,
                                  !.to = "SUBMITTED_FOR_APPROVAL",
                                  !.version = report.version]]
    /\ UNCHANGED <<report, snapshot, child, rowVars, batchVars>>

(* The rows a review will change are the named members that are submitted  *)
(* now, whichever batch they were last submitted in.                       *)
BeginReview(h, op, b, named) ==
    /\ CanServe(h, op)
    /\ report.version < MaxVersion
    /\ batchStatus[b] = "SUBMITTED"
    /\ named \subseteq Member(b)
    /\ tx' = [tx EXCEPT ![h] =
                [NoRequest EXCEPT !.op = op, !.scope = batchScope[b], !.batch = b,
                                  !.rows = {r \in named : approval[r] = "SUBMITTED_FOR_APPROVAL"},
                                  !.to = IF op = "approve" THEN "APPROVED" ELSE "INSPECTED_DRAFT",
                                  !.version = report.version,
                                  !.itemVersion = batchVersion[b]]]
    /\ UNCHANGED <<report, snapshot, child, rowVars, batchVars>>

BeginApprove(h, b, named) == BeginReview(h, "approve", b, named)
BeginReturn(h, b, named) == BeginReview(h, "return", b, named)

(* A fault to refute: a row removed meanwhile is written all the same.     *)
AllNamed(h) == tx[h].rows

(* The rows a request names that still exist when it writes them.  Those   *)
(* of a child report may have been removed, or added again, meanwhile.     *)
Hits(h) == {r \in tx[h].rows : Exists(r)}

(* A fault to refute: a review closes its batch, whatever is left in it.   *)
AlwaysCloses(h) == TRUE

(* No member of the batch is left submitted by the review.                 *)
NoneLeft(h) ==
    \A s \in Serial :
        LET r == <<tx[h].scope, s>> IN
        /\ junction[tx[h].batch][s] # NoStatus
        /\ approval[r] = "SUBMITTED_FOR_APPROVAL"
        => r \in tx[h].rows

(* A submission inserts its batch first, whose foreign keys want the child *)
(* report and the serials.  A review locks its membership rows as well.    *)
WriteRows(h) ==
    /\ tx[h].op \in ReviewOperation \cup {"submit"}
    /\ tx[h].stage = "read"
    /\ Lockable(h, Hits(h))
    /\ \A g \in Handler \ {h} : Judging(g) /\ Judging(h) /\ tx[g].batch = tx[h].batch =>
            tx[g].stage = "read" \/ tx[g].rows \cap tx[h].rows = {}
    /\ tx[h].op = "submit" =>
          /\ tx[h].scope \in Child => Live(tx[h].scope)
          /\ \A r \in tx[h].rows : Exists(<<Parent, r[2]>>)
    /\ tx' = [tx EXCEPT
                ![h].stage = "written",
                ![h].locked = Hits(h),
                ![h].closes = Judging(h) /\ NoneLeft(h)]
    /\ UNCHANGED <<report, snapshot, child, rowVars, batchVars>>

(* Faults to refute: batches are not asked; h's is counted unwritten.      *)
AnyBatches(h, scs) == TRUE
BatchesBeforeWrite(h, scs) ==
    \A b \in {c \in BatchesMade : batchScope[c] \in scs} : batchStatus[b] = "APPROVED"

(* Every batch of the scopes `scs` is approved, h's own as h leaves it.    *)
AllBatchesApproved(h, scs) ==
    \A b \in {c \in BatchesMade : batchScope[c] \in scs} :
        IF b = tx[h].batch THEN tx[h].closes ELSE batchStatus[b] = "APPROVED"

WriteBatch(h) ==
    /\ Judging(h)
    /\ tx[h].stage = "written"
    /\ \A g \in Handler \ {h} : tx[g].stage = "closing" => tx[g].batch # tx[h].batch
    /\ tx' = [tx EXCEPT
                ![h].stage = "closing",
                ![h].approves = /\ tx[h].op = "approve"
                                /\ tx[h].scope = Parent
                                /\ AllRows(h, Parent, {"APPROVED"})
                                /\ AllBatchesApproved(h, Scope)]
    /\ UNCHANGED <<report, snapshot, child, rowVars, batchVars>>

(* A submission to a child report under inspection counts, before it takes *)
(* the report row, whether all the child's rows are submitted now.         *)
CountChildRows(h) ==
    /\ tx[h].op = "submit"
    /\ tx[h].stage = "written"
    /\ tx[h].scope \in Child
    /\ tx' = [tx EXCEPT
                ![h].stage = "closing",
                ![h].approves =
                    /\ child[tx[h].scope].status = "IN_INSPECTION"
                    /\ AllRows(h, tx[h].scope, {"SUBMITTED_FOR_APPROVAL", "APPROVED"})]
    /\ UNCHANGED <<report, snapshot, child, rowVars, batchVars>>

(* The new batch takes the next id.  A child report whose rows were all    *)
(* submitted moves on to PENDING_APPROVAL.                                 *)
CommitSubmit(h) ==
    \E b \in Batch \ BatchesMade :
    LET sc == tx[h].scope IN
    /\ \A c \in Batch \ BatchesMade : b <= c
    /\ tx[h].op = "submit"
    /\ tx[h].stage = IF sc = Parent THEN "written" ELSE "closing"
    /\ approval' = Seen(h)
    /\ batchStatus' = [batchStatus EXCEPT ![b] = "SUBMITTED"]
    /\ batchVersion' = [batchVersion EXCEPT ![b] = 1]
    /\ batchScope' = [batchScope EXCEPT ![b] = sc]
    /\ junction' = [junction EXCEPT ![b] =
                      [s \in Serial |-> IF <<sc, s>> \in tx[h].rows THEN "PENDING"
                                        ELSE NoStatus]]
    /\ report' = [report EXCEPT !.version = tx[h].version + 1]
    /\ child' = IF tx[h].approves
                THEN [child EXCEPT ![sc].status = "PENDING_APPROVAL",
                                   ![sc].logged = TRUE]
                ELSE child
    /\ Finish(h)
    /\ UNCHANGED <<snapshot, data, rowVersion>>

(* The report row is written last; a child report's own completion is      *)
(* counted after it, so behind the lock on the report's row.  The update   *)
(* of a child report that was deleted meanwhile fails.                     *)
CommitReview(h) ==
    LET b == tx[h].batch
        sc == tx[h].scope
        verdict == IF tx[h].op = "approve" THEN "APPROVED" ELSE "RETURNED"
        childDone == /\ tx[h].op = "approve"
                     /\ sc \in Child
                     /\ AllRows(h, sc, {"APPROVED"})
                     /\ AllBatchesApproved(h, {sc})
    IN
    /\ Judging(h)
    /\ tx[h].stage = "closing"
    /\ childDone => Live(sc)
    /\ approval' = Seen(h)
    /\ junction' = [junction EXCEPT ![b] =
                      [s \in Serial |-> IF <<sc, s>> \in tx[h].rows THEN verdict
                                        ELSE @[s]]]
    /\ batchStatus' = [batchStatus EXCEPT ![b] =
                         IF tx[h].closes THEN verdict ELSE "SUBMITTED"]
    /\ batchVersion' = [batchVersion EXCEPT ![b] = tx[h].itemVersion + 1]
    /\ report' = [report EXCEPT !.version = tx[h].version + 1,
                                !.status = IF tx[h].approves THEN "APPROVED" ELSE @]
    /\ child' = IF childDone /\ child[sc].status # "APPROVED"
                THEN [child EXCEPT ![sc].status = "APPROVED", ![sc].logged = TRUE]
                ELSE child
    /\ Finish(h)
    /\ UNCHANGED <<snapshot, data, rowVersion, batchScope>>
=============================================================================
