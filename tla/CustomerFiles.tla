---------------------------- MODULE CustomerFiles ----------------------------
(***************************************************************************)
(* Customers, their logos, and the files attached to a report: the rows of *)
(* the database and the objects of the store that belong to them.  No      *)
(* transaction spans both, so every request here is a sequence of steps,   *)
(* any of which may fail, and a restart forgets the requests under way.    *)
(*                                                                         *)
(* An attachment's object has no stored key.  Its location is computed at  *)
(* every access: the attachment's id on the local disk; the report's       *)
(* customer, the report and the id in the S3 bucket.                       *)
(***************************************************************************)
EXTENDS Naturals, FiniteSets

CONSTANTS
    Driver,              \* the configured store: "local" or "s3"
    FileServer,          \* handlers of requests
    Customer,
    NoCustomer,
    Attachment,          \* ids of attachments, each drawn once
    MaxCustomerVersion,  \* bound: versions of a customer
    MaxLogos             \* bound: logos uploaded

ASSUME CustomerFilesAssumption ==
    /\ Driver \in {"local", "s3"}
    /\ NoCustomer \notin Customer
    /\ {MaxCustomerVersion, MaxLogos} \subseteq Nat

VARIABLES
    customer,    \* each customer's row
    logos,       \* the logo objects in the store, each of a customer
    logosDrawn,  \* the last logo id drawn
    report,      \* the report's customer, and whether it is open for uploads
    attachment,  \* each attachment's row: its url is empty, or canonical
    files,       \* the attachment objects in the store, by location
    answered,    \* the attachments whose upload was answered with success
    disrupted,   \* customers with a request whose outcome nobody learnt
    work         \* what each handler is doing

customerVars == <<customer, logos, logosDrawn, disrupted>>
attachmentVars == <<report, attachment, files, answered>>
fileVars == <<customer, logos, logosDrawn, report, attachment, files, answered,
              disrupted, work>>

NoLogo == 0
Resting == [op |-> "none", stage |-> "none", customer |-> NoCustomer, version |-> 0,
            old |-> NoLogo, new |-> NoLogo, file |-> "none", owner |-> NoCustomer]

Here(c) == customer[c].is = "here"
Rests(w) == work[w] = Resting
Doing(w, stage) == work[w].stage = stage
Proceed(w, stage) == work' = [work EXCEPT ![w].stage = stage]
Rest(w) == work' = [work EXCEPT ![w] = Resting]

Location(a, owner) == [id |-> a, under |-> IF Driver = "s3" THEN owner ELSE NoCustomer]
ContentAt(a, owner) ==
    {f.content : f \in {g \in files : g.at = Location(a, owner)}}
Without(a, owner) == {f \in files : f.at # Location(a, owner)}
With(a, owner, content) ==
    Without(a, owner) \cup {[at |-> Location(a, owner), content |-> content]}

CustomerFilesInit ==
    /\ customer \in [Customer -> [is : {"unborn", "here"}, active : {TRUE},
                                  version : {1}, logo : {NoLogo}]]
    /\ logos = {}
    /\ logosDrawn = NoLogo
    /\ report \in [owner : {c \in Customer : Here(c)} \cup {NoCustomer},
                   phase : {"open"}]
    /\ attachment = [a \in Attachment |-> "unused"]
    /\ files = {}
    /\ answered = {}
    /\ disrupted = {}
    /\ work = [w \in FileServer |-> Resting]

(* ----------------------------- customers ------------------------------- *)

(* Every write of a customer's row is judged on a version read before it.  *)
Judge(w, c, op, stage) ==
    /\ Rests(w)
    /\ Here(c)
    /\ customer[c].version < MaxCustomerVersion
    /\ work' = [work EXCEPT ![w] =
                  [Resting EXCEPT !.op = op, !.stage = stage, !.customer = c,
                                  !.version = customer[c].version,
                                  !.old = customer[c].logo]]

JudgeUpdate(w, c) ==
    \E op \in {"update", "setActive"} :
        /\ Judge(w, c, op, "write")
        /\ UNCHANGED <<customerVars, attachmentVars>>

(* The update itself does not look at the version again.                   *)
WriteCustomer(w) ==
    LET c == work[w].customer
    IN  /\ Doing(w, "write")
        /\ IF Here(c)
           THEN \E active \in (IF work[w].op = "setActive" THEN BOOLEAN
                               ELSE {customer[c].active}) :
                   customer' = [customer EXCEPT ![c].version = @ + 1,
                                                ![c].active = active]
           ELSE UNCHANGED customer
        /\ Rest(w)
        /\ UNCHANGED <<logos, logosDrawn, disrupted, attachmentVars>>

CreateCustomer(c) ==
    /\ customer[c].is = "unborn"
    /\ customer' = [customer EXCEPT ![c].is = "here"]
    /\ UNCHANGED <<logos, logosDrawn, disrupted, attachmentVars, work>>

(* The report loses its customer; a logo stays in the store.               *)
DeleteCustomer(c) ==
    /\ Here(c)
    /\ customer' = [customer EXCEPT ![c].is = "gone"]
    /\ report' = [report EXCEPT !.owner = IF @ = c THEN NoCustomer ELSE @]
    /\ UNCHANGED <<logos, logosDrawn, disrupted, attachment, files, answered, work>>

(* ------------------------------- logos --------------------------------- *)

JudgeLogo(w, c) ==
    /\ logosDrawn < MaxLogos
    /\ Judge(w, c, "setLogo", "putLogo")
    /\ UNCHANGED <<customerVars, attachmentVars>>

PutLogo(w) ==
    /\ Doing(w, "putLogo")
    /\ logosDrawn < MaxLogos
    /\ logosDrawn' = logosDrawn + 1
    /\ \/ /\ logos' = logos \cup {<<work[w].customer, logosDrawn'>>}
          /\ work' = [work EXCEPT ![w].stage = "pointLogo", ![w].new = logosDrawn']
       \/ UNCHANGED logos /\ Rest(w)
    /\ UNCHANGED <<customer, disrupted, attachmentVars>>

JudgeRemoval(w, c) ==
    /\ customer[c].logo # NoLogo
    /\ Judge(w, c, "removeLogo", "pointLogo")
    /\ UNCHANGED <<customerVars, attachmentVars>>

(* A fault to refute: the row is written by id, as the other updates are.  *)
UnguardedRow(c, version) == Here(c)

GuardedRow(c, version) == Here(c) /\ customer[c].version = version

(* The guarded write.  A writer that lost, and one that never learns that  *)
(* its commit succeeded, go on to delete the object they have just put.    *)
PointAtLogo(w) ==
    LET c == work[w].customer
        lost == IF work[w].op = "setLogo" THEN Proceed(w, "dropNew") ELSE Rest(w)
    IN  /\ Doing(w, "pointLogo")
        /\ IF GuardedRow(c, work[w].version)
           THEN /\ customer' = [customer EXCEPT ![c].version = @ + 1,
                                                ![c].logo = work[w].new]
                /\ \/ Proceed(w, "dropOld") /\ UNCHANGED disrupted
                   \/ lost /\ disrupted' = disrupted \cup {c}
           ELSE lost /\ UNCHANGED <<customer, disrupted>>
        /\ UNCHANGED <<logos, logosDrawn, attachmentVars>>

DropsOf(w) == IF Doing(w, "dropNew") THEN work[w].new ELSE work[w].old

DropLogo(w) ==
    /\ Doing(w, "dropNew") \/ Doing(w, "dropOld")
    /\ logos' = logos \ {<<work[w].customer, DropsOf(w)>>}
    /\ Rest(w)
    /\ UNCHANGED <<customer, logosDrawn, disrupted, attachmentVars>>

(* ---------------------------- attachments ------------------------------ *)

BeginUpload(w, a) ==
    /\ Rests(w)
    /\ report.phase = "open"
    /\ attachment[a] = "unused"
    /\ \A v \in FileServer : work[v].file # a
    /\ work' = [work EXCEPT ![w] =
                  [Resting EXCEPT !.op = "upload", !.stage = "row", !.file = a,
                                  !.owner = report.owner]]
    /\ UNCHANGED <<customerVars, attachmentVars>>

(* The lock was judged before; only the report's existence is a constraint *)
(* of the row.                                                             *)
CreateRow(w) ==
    /\ Doing(w, "row")
    /\ IF report.phase = "deleted" THEN UNCHANGED attachment /\ Rest(w)
       ELSE /\ attachment' = [attachment EXCEPT ![work[w].file] = "unlinked"]
            /\ Proceed(w, "putFile")
    /\ UNCHANGED <<customerVars, report, files, answered>>

PutFile(w) ==
    /\ Doing(w, "putFile")
    /\ \/ /\ files' = With(work[w].file, work[w].owner, "bytes")
          /\ Proceed(w, "link")
       \/ UNCHANGED files /\ Proceed(w, "clean")
    /\ UNCHANGED <<customerVars, report, attachment, answered>>

LinkRow(w) ==
    LET a == work[w].file
    IN  /\ Doing(w, "link")
        /\ IF attachment[a] = "gone" THEN UNCHANGED attachment /\ Proceed(w, "clean")
           ELSE attachment' = [attachment EXCEPT ![a] = "linked"] /\ Proceed(w, "log")
        /\ UNCHANGED <<customerVars, report, files, answered>>

(* The audit entry is the last step: when it fails the upload is undone,   *)
(* although its row was already shown to readers.                          *)
LogUpload(w) ==
    /\ Doing(w, "log")
    /\ \/ answered' = answered \cup {work[w].file} /\ Rest(w)
       \/ UNCHANGED answered /\ Proceed(w, "clean")
    /\ UNCHANGED <<customerVars, report, attachment, files>>

(* The row goes first; a row that is gone already ends the clean-up.       *)
UndoRow(w) ==
    LET a == work[w].file
    IN  /\ Doing(w, "clean")
        /\ IF attachment[a] = "gone" THEN UNCHANGED attachment /\ Rest(w)
           ELSE attachment' = [attachment EXCEPT ![a] = "gone"] /\ Proceed(w, "cleanFile")
        /\ UNCHANGED <<customerVars, report, files, answered>>

UndoFile(w) ==
    /\ Doing(w, "cleanFile")
    /\ files' = Without(work[w].file, work[w].owner)
    /\ Rest(w)
    /\ UNCHANGED <<customerVars, report, attachment, answered>>

(* ---------------------- the report and the process --------------------- *)

(* An approval locks the report for uploads, a reopen unlocks it.          *)
LockOrUnlock ==
    /\ report.phase \in {"open", "locked"}
    /\ report' = [report EXCEPT !.phase = IF @ = "open" THEN "locked" ELSE "open"]
    /\ UNCHANGED <<customerVars, attachment, files, answered, work>>

(* The rows go in one transaction, whose locations were taken from the     *)
(* customer read before it; the objects follow, one after the other.       *)
BeginDeletion(w) ==
    /\ Rests(w)
    /\ report.phase # "deleted"
    /\ work' = [work EXCEPT ![w] = [Resting EXCEPT !.op = "deleteReport",
                                    !.stage = "rows", !.owner = report.owner]]
    /\ UNCHANGED <<customerVars, attachmentVars>>

DeleteRows(w) ==
    /\ Doing(w, "rows")
    /\ IF report.phase = "deleted" THEN UNCHANGED <<report, attachment>> /\ Rest(w)
       ELSE /\ report' = [report EXCEPT !.phase = "deleted"]
            /\ attachment' = [a \in Attachment |->
                                IF attachment[a] = "unused" THEN "unused" ELSE "gone"]
            /\ Proceed(w, "objects")
    /\ UNCHANGED <<customerVars, files, answered>>

(* Best effort: whatever cannot be deleted stays.                          *)
DeleteObjects(w) ==
    /\ Doing(w, "objects")
    /\ \E A \in SUBSET {a \in Attachment : attachment[a] = "gone"} :
          files' = {f \in files : \A a \in A : f.at # Location(a, work[w].owner)}
    /\ Rest(w)
    /\ UNCHANGED <<customerVars, report, attachment, answered>>

(* A fault to refute: the placeholder is written without looking.          *)
AnyRow(a) == attachment[a] \in {"unlinked", "linked"}

NeedsPlaceholder(a) ==
    attachment[a] \in {"unlinked", "linked"} /\ ContentAt(a, report.owner) = {}

(* At boot the local store gives every row without an object a placeholder *)
(* and every row its canonical url; on S3 only the urls are written.       *)
RestartFiles ==
    LET bare == {Location(a, report.owner) : a \in {b \in Attachment : NeedsPlaceholder(b)}}
    IN  /\ work' = [w \in FileServer |-> Resting]
        /\ files' = IF Driver = "s3" THEN files
                    ELSE {f \in files : f.at \notin bare}
                         \cup {[at |-> l, content |-> "placeholder"] : l \in bare}
        /\ attachment' = [a \in Attachment |->
                            IF attachment[a] = "unlinked" THEN "linked" ELSE attachment[a]]
        /\ disrupted' = disrupted \cup ({work[w].customer : w \in FileServer} \ {NoCustomer})
        /\ UNCHANGED <<customer, logos, logosDrawn, report, answered>>

CustomerFilesNext ==
    \/ \E w \in FileServer :
          \/ \E c \in Customer : JudgeUpdate(w, c) \/ JudgeLogo(w, c) \/ JudgeRemoval(w, c)
          \/ WriteCustomer(w) \/ PutLogo(w) \/ PointAtLogo(w) \/ DropLogo(w)
          \/ \E a \in Attachment : BeginUpload(w, a)
          \/ CreateRow(w) \/ PutFile(w) \/ LinkRow(w) \/ LogUpload(w)
          \/ UndoRow(w) \/ UndoFile(w)
          \/ BeginDeletion(w) \/ DeleteRows(w) \/ DeleteObjects(w)
    \/ \E c \in Customer : CreateCustomer(c) \/ DeleteCustomer(c)
    \/ LockOrUnlock \/ RestartFiles

CustomerFilesSpec == CustomerFilesInit /\ [][CustomerFilesNext]_fileVars

(* ----------------------------- properties ------------------------------ *)

(* A lost race only ever orphans the loser's new object, which is deleted  *)
(* again: when no request is under way, a customer has no other object.    *)
LostRaceLeavesNoLogo ==
    (\A w \in FileServer : Rests(w))
    => \A k \in logos : k[1] \in disrupted \/ customer[k[1]].logo = k[2]

(* Whatever fails, races or restarts, an attachment whose upload was       *)
(* answered is read back as it was uploaded for as long as its row is      *)
(* there, wherever its location is computed from.                          *)
AttachmentFound ==
    \A a \in answered :
        attachment[a] = "linked" => "bytes" \in ContentAt(a, report.owner)
=============================================================================
