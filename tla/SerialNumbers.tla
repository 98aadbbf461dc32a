--------------------------- MODULE SerialNumbers ----------------------------
(***************************************************************************)
(* The serial-number endpoints of a report.  Every check (the report's     *)
(* status, the serial's approval status, duplicates) is read before the    *)
(* transaction; only the serial's own version guards an edit, and only the *)
(* unique and foreign keys of the database guard the other two.            *)
(* An edit is a save of inspection data; a rename, which changes only the  *)
(* label of the row, is left out.                                          *)
(***************************************************************************)
EXTENDS ReportDatabase

(* One bulk request adds all of `serials`, or none of them.  The unique    *)
(* key on the label is that two requests cannot make the same serial.      *)
BeginCreateSerials(h, serials) ==
    /\ CanServe(h, "createSerial")
    /\ serials # {}
    /\ report.status \notin LockedReport
    /\ \A s \in serials : approval[<<Parent, s>>] = NoStatus
    /\ tx' = [tx EXCEPT ![h] =
                [NoRequest EXCEPT !.op = "createSerial", !.rows = {Parent} \X serials,
                                  !.to = "NOT_INSPECTED"]]
    /\ UNCHANGED <<report, snapshot, child, rowVars, batchVars>>

CommitCreateSerials(h) ==
    /\ tx[h].op = "createSerial"
    /\ \A r \in tx[h].rows : approval[r] = NoStatus    \* the unique key
    /\ approval' = [r \in Row |-> IF r \in tx[h].rows THEN tx[h].to ELSE approval[r]]
    /\ rowVersion' = [s \in Serial |->
                        IF <<Parent, s>> \in tx[h].rows THEN 1 ELSE rowVersion[s]]
    /\ Finish(h)
    /\ UNCHANGED <<report, snapshot, child, data, batchVars>>

(* Edits per serial are bounded by the report's version bound.             *)
BeginEditSerial(h, s, finding) ==
    LET r == <<Parent, s>> IN
    /\ CanServe(h, "editSerial")
    /\ Exists(r)
    /\ rowVersion[s] < MaxVersion
    /\ report.status \notin LockedReport
    /\ approval[r] \notin LockedSerial
    /\ tx' = [tx EXCEPT ![h] =
                [NoRequest EXCEPT !.op = "editSerial", !.rows = {r},
                                  !.from = approval[r], !.finding = finding,
                                  !.itemVersion = rowVersion[s]]]
    /\ UNCHANGED <<report, snapshot, child, rowVars, batchVars>>

(* A fault to refute: an edit overwrites a newer one.                      *)
AnyRowVersion(h, s) == TRUE

RowAtVersionRead(h, s) == rowVersion[s] = tx[h].itemVersion

CommitEditSerial(h) ==
    \E s \in Serial :
    LET r == <<Parent, s>> IN
    /\ tx[h].op = "editSerial"
    /\ tx[h].rows = {r}
    /\ Exists(r)
    /\ RowAtVersionRead(h, s)
    /\ Lockable(h, {r})
    /\ data' = [data EXCEPT ![r] = tx[h].finding]
    /\ approval' = [approval EXCEPT ![r] =
                      IF tx[h].from = "NOT_INSPECTED" THEN "INSPECTED_DRAFT" ELSE @]
    /\ rowVersion' = [rowVersion EXCEPT ![s] = tx[h].itemVersion + 1]
    /\ Finish(h)
    /\ UNCHANGED <<report, snapshot, child, batchVars>>

BeginDeleteSerial(h, s) ==
    LET r == <<Parent, s>> IN
    /\ CanServe(h, "deleteSerial")
    /\ Exists(r)
    /\ report.status \in {"DRAFT", "RECEIVED", "READY_FOR_CLEANING"}
    /\ tx' = [tx EXCEPT ![h] = [NoRequest EXCEPT !.op = "deleteSerial", !.rows = {r}]]
    /\ UNCHANGED <<report, snapshot, child, rowVars, batchVars>>

(* Batch memberships and child rows hold foreign keys on the serial, those *)
(* a submission has inserted but not committed included.                   *)
CommitDeleteSerial(h) ==
    \E s \in Serial :
    LET r == <<Parent, s>> IN
    /\ tx[h].op = "deleteSerial"
    /\ tx[h].rows = {r}
    /\ Exists(r)
    /\ Lockable(h, {r})
    /\ \A b \in Batch : junction[b][s] = NoStatus
    /\ \A g \in Handler : tx[g].op = "submit" /\ tx[g].stage # "read" =>
            tx[g].rows \cap (Scope \X {s}) = {}
    /\ \A c \in Child : ~Exists(<<c, s>>)
    /\ approval' = [approval EXCEPT ![r] = Gone]
    /\ data' = [data EXCEPT ![r] = NoData]
    /\ rowVersion' = [rowVersion EXCEPT ![s] = 0]
    /\ Finish(h)
    /\ UNCHANGED <<report, snapshot, child, batchVars>>
=============================================================================
