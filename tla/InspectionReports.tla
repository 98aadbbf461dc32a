------------------------- MODULE InspectionReports --------------------------
(***************************************************************************)
(* One inspection report served by concurrent API requests: the report     *)
(* workflow, its serial numbers, its approval batches and its child        *)
(* reports over the same tables.                                           *)
(***************************************************************************)
EXTENDS ReportWorkflow, SerialNumbers, ApprovalBatches, ChildReports

Transition(h) ==
    \/ \E role \in Role, to \in ReportStatus, reason \in BOOLEAN :
            BeginTransition(h, role, to, reason)
    \/ CommitTransition(h)

Update(h) ==
    \/ \E to \in ReportStatus \cup {NoStatus} : BeginUpdate(h, to)
    \/ CommitUpdate(h)

CreateSerials(h) ==
    \/ \E serials \in SUBSET Serial : BeginCreateSerials(h, serials)
    \/ CommitCreateSerials(h)

EditSerial(h) ==
    \/ \E s \in Serial, finding \in Finding : BeginEditSerial(h, s, finding)
    \/ CommitEditSerial(h)

DeleteSerial(h) ==
    \/ \E s \in Serial : BeginDeleteSerial(h, s)
    \/ CommitDeleteSerial(h)

Submit(h) ==
    \/ \E sc \in Scope, serials \in SUBSET Serial : BeginSubmit(h, sc, serials)
    \/ CountChildRows(h)
    \/ CommitSubmit(h)

Review(h) ==
    \/ \E b \in Batch : \E named \in SUBSET Member(b) : BeginApprove(h, b, named)
    \/ \E b \in Batch : \E named \in SUBSET Member(b) : BeginReturn(h, b, named)
    \/ WriteBatch(h)
    \/ CommitReview(h)

SyncRework(h) ==
    \/ \E c \in Child : BeginSync(h, c)
    \/ CreateChild(h)
    \/ Reconcile(h)
    \/ DeleteChild(h)

UpdateChild(h) ==
    \/ \E c \in Child, to \in ChildStatus \cup {NoStatus} : BeginChildUpdate(h, c, to)
    \/ CommitChildUpdate(h)

EditChildSerial(h) ==
    \/ \E c \in Child, s \in Serial, finding \in Finding : BeginChildEdit(h, c, s, finding)
    \/ CommitChildEdit(h)

TransitionChild(h) ==
    \/ \E c \in Child, role \in Role, to \in ChildStatus, reason \in BOOLEAN :
            BeginChildTransition(h, role, c, to, reason)
    \/ CommitChildTransition(h)

Next ==
    \E h \in Handler :
        \/ Transition(h)
        \/ Update(h)
        \/ CreateSerials(h)
        \/ EditSerial(h)
        \/ DeleteSerial(h)
        \/ Submit(h)
        \/ WriteRows(h)
        \/ Review(h)
        \/ SyncRework(h)
        \/ UpdateChild(h)
        \/ EditChildSerial(h)
        \/ TransitionChild(h)
        \/ Abort(h)

Spec == Init /\ [][Next]_vars

----------------------------------------------------------------------------
(* A serial that is submitted is locked against edits, and only a review   *)
(* of an open batch holding it can release it.  So every submitted serial  *)
(* is in a batch that is still open, whatever raced with its submission:   *)
(* a batch closed over a submitted serial would strand it.                 *)
NoStrandedSerial ==
    \A r \in Row : approval[r] = "SUBMITTED_FOR_APPROVAL" =>
        \E b \in Batch : r \in Member(b) /\ batchStatus[b] = "SUBMITTED"

NoneGone == \A c \in Child : child[c].status # Gone

(* No serial is APPROVED without a supervisor's verdict on record: some    *)
(* batch of its scope has it as an APPROVED member.  Only the deletion of  *)
(* a child report, which hands its batches to the report, can blur that.   *)
ApprovalOnRecord ==
    NoneGone =>
        \A r \in Row : approval[r] = "APPROVED" =>
            \E b \in Batch : batchScope[b] = r[1] /\ junction[b][r[2]] = "APPROVED"

(* What validation and the steps since have left in a request, by its kind.*)
RequestOf(h) ==
    /\ tx[h].op = "none" => tx[h].locked = {}
    /\ tx[h].op = "transition" =>
          tx[h].from \in ReportStatus /\ tx[h].to \in ReportStatus
    /\ tx[h].op = "update" => tx[h].to \in ReportStatus \cup {NoStatus}
    /\ tx[h].op = "createSerial" => tx[h].to = "NOT_INSPECTED"
    /\ tx[h].op = "childUpdate" => tx[h].to \in ChildStatus \cup {NoStatus}
    /\ tx[h].op = "childTransition" => tx[h].to \in ChildStatus
    /\ tx[h].op \in {"sync", "childUpdate", "childEdit", "childTransition"} =>
          tx[h].scope \in Child
    /\ tx[h].op = "submit" => tx[h].to = "SUBMITTED_FOR_APPROVAL"
    /\ tx[h].op = "submit" /\ tx[h].approves => tx[h].scope \in Child
    /\ tx[h].op = "approve" => tx[h].to = "APPROVED"
    /\ tx[h].op = "return" => tx[h].to = "INSPECTED_DRAFT"
    /\ Judging(h) => tx[h].batch \in BatchesMade
    /\ tx[h].closes => Judging(h)
    /\ tx[h].op \in {"submit", "approve", "return", "sync"} =>
          tx[h].rows \subseteq {tx[h].scope} \X Serial

RequestOK == \A h \in Handler : RequestOf(h)

(* Rows are locked by the one transaction that wrote them, and stay.       *)
LocksOK ==
    \A h \in Handler :
        /\ tx[h].locked # {} =>
              tx[h].op \in {"submit", "approve", "return"} /\ tx[h].stage # "read"
        /\ tx[h].locked \subseteq tx[h].rows
        /\ \A r \in tx[h].locked : Exists(r)
        /\ \A g \in Handler \ {h} : tx[g].locked \cap tx[h].locked = {}

(* A child report is not deleted under a submission that has written.      *)
SubmitsToLive ==
    \A h \in Handler :
        tx[h].op = "submit" /\ tx[h].stage # "read" /\ tx[h].scope \in Child
        => Live(tx[h].scope)

UnusedBatchEmpty == \A b \in Batch \ BatchesMade : Member(b) = {}

(* Every submitted row has an open batch, and no review that is about to   *)
(* close that batch leaves the row submitted.                              *)
OpenBatchHolds(r) ==
    \E b \in BatchesMade :
        /\ r \in Member(b)
        /\ batchStatus[b] = "SUBMITTED"
        /\ \A h \in Handler :
              Judging(h) /\ tx[h].batch = b =>
                /\ tx[h].scope = r[1]
                /\ tx[h].closes => r \in tx[h].locked

SubmittedHeldOpen ==
    \A r \in Row : approval[r] = "SUBMITTED_FOR_APPROVAL" => OpenBatchHolds(r)

(* While no child report was deleted, a review's scope is its batch's.     *)
ScopesAgree ==
    NoneGone => \A h \in Handler : Judging(h) => tx[h].scope = batchScope[tx[h].batch]

(* Two reviews that have both written share no membership row.             *)
MembershipLocked ==
    \A g, h \in Handler :
        /\ g # h
        /\ Judging(g) /\ Judging(h)
        /\ tx[g].batch = tx[h].batch
        /\ tx[g].stage # "read" /\ tx[h].stage # "read"
        => tx[g].rows \cap tx[h].rows = {}

(* An approved row's record is not one that a review is about to overwrite *)
(* without touching the row itself.                                        *)
RecordHolds(r) ==
    \E b \in Batch :
        /\ batchScope[b] = r[1]
        /\ junction[b][r[2]] = "APPROVED"
        /\ \A h \in Handler :
              Judging(h) /\ tx[h].batch = b /\ tx[h].stage # "read" /\ r \in tx[h].rows
              => r \in tx[h].locked

ApprovedHasRecord ==
    NoneGone => \A r \in Row : approval[r] = "APPROVED" => RecordHolds(r)

(* The inductive invariant behind TypeOK, NoStrandedSerial and             *)
(* ApprovalOnRecord.                                                       *)
ReviewInvariant ==
    /\ TypeOK
    /\ RequestOK
    /\ LocksOK
    /\ SubmitsToLive
    /\ UnusedBatchEmpty
    /\ SubmittedHeldOpen
    /\ ScopesAgree
    /\ MembershipLocked
    /\ ApprovedHasRecord

CommitApproval(h) == tx[h].op = "approve" /\ CommitReview(h)

(* An edit of a serial of the report never takes it out of review: one     *)
(* submitted or approved since the edit read it keeps its approval status. *)
StaleEditKeepsReview ==
    [][\A h \in Handler, r \in Row :
        /\ CommitEditSerial(h)
        /\ approval[r] \in {"SUBMITTED_FOR_APPROVAL", "APPROVED"}
        => approval'[r] = approval[r]]_vars

(* A transition overwrites the very status its matrix, reason and gate     *)
(* checks were made on, however long ago the handler read it.              *)
TransitionJudgedCurrentStatus ==
    [][\A h \in Handler : CommitTransition(h) => report.status = tx[h].from]_vars

(* A report leaves CLOSED, or goes from APPROVED back into inspection,     *)
(* only through a reopen: the step makes a new revision, and the revision  *)
(* holds the data of every serial as it was while the report was locked.   *)
ReopenFreezesRevision ==
    [][/\ report.status \in LockedReport
       /\ report'.status \notin {"ON_HOLD", "CLOSED", report.status}
       => /\ report'.revision = report.revision + 1
          /\ snapshot' = Content]_vars

(* Every serial of the report is approved and so is every batch.           *)
ReviewComplete ==
    /\ \A r \in RowsOf(Parent) : approval[r] = "APPROVED"
    /\ \A b \in BatchesMade : batchStatus[b] = "APPROVED"

(* The approval of the last open batch approves the report with it.        *)
AutoApprovalNeverMissed ==
    [][\A h \in Handler :
        /\ CommitApproval(h)
        /\ tx[h].scope = Parent
        /\ ReviewComplete'
        => report'.status = "APPROVED"]_vars

(* And a batch approval approves the report only then.                     *)
AutoApprovalIsComplete ==
    [][\A h \in Handler :
        /\ CommitApproval(h)
        /\ report.status # "APPROVED"
        /\ report'.status = "APPROVED"
        => ReviewComplete']_vars

(* A child report has been approved by the approval that completes it,     *)
(* also when two supervisors approve its last two batches together.        *)
ChildApprovedWithItsBatches ==
    [][\A h \in Handler, c \in Child :
        /\ CommitApproval(h)
        /\ tx[h].scope = c
        /\ \A r \in RowsOf(c) : approval'[r] = "APPROVED"
        /\ \A b \in BatchesMade : batchScope[b] = c => batchStatus'[b] = "APPROVED"
        => child'[c].status = "APPROVED"]_vars

(* A child report under inspection leaves it with the submission of the    *)
(* last of its serials.                                                    *)
ChildMovesOnLastSubmit ==
    [][\A h \in Handler, c \in Child :
        /\ CommitSubmit(h)
        /\ tx[h].scope = c
        /\ \A r \in RowsOf(c) : approval'[r] \in {"SUBMITTED_FOR_APPROVAL", "APPROVED"}
        => child'[c].status # "IN_INSPECTION"]_vars

(* A report enters PENDING_APPROVAL by a transition only while every one   *)
(* of its serials passes the template's gate.                              *)
GateHoldsOnEntry ==
    [][\A h \in Handler :
        /\ CommitTransition(h)
        /\ report'.status = "PENDING_APPROVAL"
        => GatePasses']_vars

(* A serial of the report keeps, while it is under review or approved, the *)
(* data its reviewer sees.                                                 *)
SubmittedSerialsAreLocked ==
    [][\A s \in Serial :
        LET r == <<Parent, s>> IN
        /\ approval[r] \in {"SUBMITTED_FOR_APPROVAL", "APPROVED"}
        /\ approval'[r] = approval[r]
        => data'[r] = data[r]]_vars
=============================================================================
