---------------------------- MODULE ChildReports ----------------------------
(***************************************************************************)
(* The child reports derived from the serials that match the template's    *)
(* rework rule: their reconciliation with the report's serials, the PATCH  *)
(* of a child report and of one of its serials, and its own workflow.      *)
(* Only the PATCH of the child report is a guarded write.  None of these   *)
(* operations reads the status of the parent report.                       *)
(***************************************************************************)
EXTENDS ReportDatabase

(* The serials the rework rule matches now.                                *)
Matching == {s \in Serial : Exists(<<Parent, s>>) /\ data[<<Parent, s>>] = Rework}

(* Edits of child rows in flight address a row by its own id: once the row *)
(* is removed they can only fail, even if the serial is added again.       *)
RemoveRows(h, removed) ==
    tx' = [g \in Handler |->
             IF g = h \/ (tx[g].op = "childEdit" /\ tx[g].rows \cap removed # {})
             THEN NoRequest ELSE tx[g]]

(* A sync reads the match set and the child report there is, if any; with  *)
(* neither it does nothing.  A child report still to be made gets an id    *)
(* that was never used.                                                    *)
BeginSync(h, c) ==
    /\ CanServe(h, "sync")
    /\ \/ Live(c) /\ child[c].version < MaxVersion
       \/ /\ \A d \in Child : ~Live(d)
          /\ child[c].status = NoStatus
          /\ Matching # {}
    /\ tx' = [tx EXCEPT ![h] =
                [NoRequest EXCEPT !.op = "sync", !.scope = c, !.rows = {c} \X Matching,
                                  !.from = child[c].status]]
    /\ UNCHANGED <<report, snapshot, child, rowVars, batchVars>>

(* The new child report is committed by itself, before its rows: a report  *)
(* has one child report of a type (the unique key), and it may stay empty. *)
CreateChild(h) ==
    LET c == tx[h].scope IN
    /\ tx[h].op = "sync"
    /\ tx[h].stage = "read"
    /\ tx[h].from = NoStatus
    /\ \A d \in Child : ~Live(d)
    /\ child[c].status = NoStatus
    /\ child' = [child EXCEPT ![c].status = "DRAFT", ![c].version = 1]
    /\ tx' = [tx EXCEPT ![h].stage = "written"]
    /\ UNCHANGED <<report, snapshot, rowVars, batchVars>>

(* Rows that left the match set go, whatever their approval status; those  *)
(* that joined it are made blank.  A pre-existing child is a version on.   *)
Reconcile(h) ==
    LET c == tx[h].scope
        leave == RowsOf(c) \ tx[h].rows
        join == tx[h].rows \ RowsOf(c)
    IN
    /\ tx[h].op = "sync"
    /\ tx[h].rows # {} \/ tx[h].from # "DRAFT"
    /\ tx[h].stage = "written" \/ tx[h].from # NoStatus
    /\ Live(c)
    /\ Lockable(h, leave)
    /\ \A r \in join : Exists(<<Parent, r[2]>>)
    /\ child' = [child EXCEPT ![c].version = @ + (IF tx[h].from # NoStatus THEN 1 ELSE 0)]
    /\ approval' = [r \in Row |-> IF r \in leave THEN NoStatus
                                  ELSE IF r \in join THEN "NOT_INSPECTED" ELSE approval[r]]
    /\ data' = [r \in Row |-> IF r \in leave \cup join THEN NoData ELSE data[r]]
    /\ RemoveRows(h, leave)
    /\ UNCHANGED <<report, snapshot, rowVersion, batchVars>>

(* A child report read as a DRAFT that no serial matches any more is       *)
(* deleted, unless a transition log refers to it.  Its batches stay, and   *)
(* are batches of the report from then on (ON DELETE SET NULL).            *)
DeleteChild(h) ==
    LET c == tx[h].scope IN
    /\ tx[h].op = "sync"
    /\ tx[h].rows = {}
    /\ tx[h].from = "DRAFT"
    /\ Live(c)
    /\ ~child[c].logged
    /\ Lockable(h, RowsOf(c))
    /\ \A g \in Handler : tx[g].scope = c /\ tx[g].op \in {"submit", "approve", "return"} =>
            IF tx[g].op = "submit" THEN tx[g].stage = "read" ELSE tx[g].stage # "closing"
    /\ child' = [child EXCEPT ![c] = [NoChild EXCEPT !.status = Gone]]
    /\ approval' = [r \in Row |-> IF r \in RowsOf(c) THEN NoStatus ELSE approval[r]]
    /\ data' = [r \in Row |-> IF r \in RowsOf(c) THEN NoData ELSE data[r]]
    /\ batchScope' = [b \in Batch |-> IF batchScope[b] = c THEN Parent ELSE batchScope[b]]
    /\ RemoveRows(h, RowsOf(c))
    /\ UNCHANGED <<report, snapshot, rowVersion, batchStatus, batchVersion, junction>>

(* A PATCH of the child report may set any status; one guarded statement.  *)
BeginChildUpdate(h, c, to) ==
    /\ CanServe(h, "childUpdate")
    /\ to \in (Targets \cap ChildStatus) \cup {NoStatus}
    /\ Live(c)
    /\ child[c].version < MaxVersion
    /\ tx' = [tx EXCEPT ![h] =
                [NoRequest EXCEPT !.op = "childUpdate", !.scope = c, !.to = to,
                                  !.version = child[c].version]]
    /\ UNCHANGED <<report, snapshot, child, rowVars, batchVars>>

CommitChildUpdate(h) ==
    LET c == tx[h].scope IN
    /\ tx[h].op = "childUpdate"
    /\ Live(c)
    /\ child[c].version = tx[h].version
    /\ child' = [child EXCEPT ![c].status = IF tx[h].to = NoStatus THEN @ ELSE tx[h].to,
                              ![c].version = @ + 1]
    /\ Finish(h)
    /\ UNCHANGED <<report, snapshot, rowVars, batchVars>>

(* Inspection data is refused unless the child is under inspection; the    *)
(* row's own approval status only decides whether it becomes a draft.      *)
BeginChildEdit(h, c, s, finding) ==
    LET r == <<c, s>> IN
    /\ CanServe(h, "childEdit")
    /\ finding # Rework
    /\ Exists(r)
    /\ child[c].status = "IN_INSPECTION"
    /\ tx' = [tx EXCEPT ![h] =
                [NoRequest EXCEPT !.op = "childEdit", !.scope = c, !.rows = {r},
                                  !.from = approval[r], !.finding = finding]]
    /\ UNCHANGED <<report, snapshot, child, rowVars, batchVars>>

CommitChildEdit(h) ==
    \E r \in tx[h].rows :
    /\ tx[h].op = "childEdit"
    /\ Lockable(h, {r})
    /\ data' = [data EXCEPT ![r] = tx[h].finding]
    /\ approval' = [approval EXCEPT ![r] =
                      IF tx[h].from = "NOT_INSPECTED" THEN "INSPECTED_DRAFT" ELSE @]
    /\ Finish(h)
    /\ UNCHANGED <<report, snapshot, child, rowVersion, batchVars>>

BeginChildTransition(h, role, c, to, reason) ==
    /\ CanServe(h, "childTransition")
    /\ to \in Targets
    /\ Live(c)
    /\ child[c].revision < MaxRevision
    /\ role # "CUSTOMER"
    /\ to \in ChildTransitions(role, child[c].status)
    /\ ReasonRequiredForChild(child[c].status, to) => reason
    /\ tx' = [tx EXCEPT ![h] =
                [NoRequest EXCEPT !.op = "childTransition", !.scope = c,
                                  !.from = child[c].status, !.to = to]]
    /\ UNCHANGED <<report, snapshot, child, rowVars, batchVars>>

(* The write is by id alone: no version is compared and none is counted.   *)
(* Every approval and every reopen makes a revision; a reopen returns the  *)
(* approved rows to draft.                                                 *)
CommitChildTransition(h) ==
    LET c == tx[h].scope
        to == tx[h].to
        reopen == tx[h].from = "APPROVED" /\ to = "IN_INSPECTION"
        reset == IF reopen THEN {r \in RowsOf(c) : approval[r] = "APPROVED"} ELSE {}
    IN
    /\ tx[h].op = "childTransition"
    /\ Live(c)
    /\ Lockable(h, reset)
    /\ child' = [child EXCEPT
                   ![c].status = to,
                   ![c].revision = @ + (IF to = "APPROVED" \/ reopen THEN 1 ELSE 0),
                   ![c].logged = TRUE]
    /\ approval' = [r \in Row |-> IF r \in reset THEN "INSPECTED_DRAFT" ELSE approval[r]]
    /\ Finish(h)
    /\ UNCHANGED <<report, snapshot, data, rowVersion, batchVars>>
=============================================================================
