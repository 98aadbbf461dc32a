-------------------------- MODULE ReportSignatures --------------------------
(***************************************************************************)
(* The signatures on one inspection report: the signature every account    *)
(* registers, the pointers to it that submissions, approvals and exports   *)
(* freeze onto the report, the fields customers sign, and the immutable    *)
(* picture objects in the store behind all of them.                        *)
(*                                                                         *)
(* A picture is written before the row that points at it, and deleted      *)
(* after it was superseded, so the rows and the store meet only through    *)
(* the order of the steps below.  A transaction is invisible until it      *)
(* commits, and from its write of the report's row on it holds that row's  *)
(* lock.  Each handler serves one request; `job[h]` is what it has read    *)
(* and decided so far, and a crash forgets it.                             *)
(***************************************************************************)
EXTENDS Naturals, FiniteSets, SequencesExt, WorkflowPolicy

CONSTANTS
    Server,           \* handlers of requests about the report
    User,             \* accounts
    RoleOf,           \* the role of each account
    CustomerField,    \* signature fields of the template the customer signs
    SupervisorField,  \* its legacy fields, signed with the approval
    Layout,           \* what templates may require: supervisor fields without
                      \* which nothing is exported, system roles they bind
    Nobody,           \* no account
    MaxObjects,       \* bound: picture objects minted
    MaxFrozen,        \* bound: ReportSignature rows
    MaxReportVersion, \* bound: versions of the report under one handler,
    MaxRacedVersion   \* and under several at a time

InspectorSlot == "inspectorSignature"
SupervisorSlot == "supervisorSignature"

ASSUME SignatureAssumption ==
    /\ RoleOf \in [User -> Role]
    /\ Layout \subseteq [required : SUBSET SupervisorField,
                         slots : SUBSET {InspectorSlot, SupervisorSlot}]
    /\ IsFiniteSet(SupervisorField)
    /\ CustomerField \cap SupervisorField = {}
    /\ {InspectorSlot, SupervisorSlot} \cap (CustomerField \cup SupervisorField) = {}
    /\ {MaxObjects, MaxFrozen, MaxReportVersion, MaxRacedVersion} \subseteq Nat

VARIABLES
    layout,      \* what the report's template requires
    servers,     \* the handlers that are up: one, or several at a time
    header,      \* the report's status, version and revision, the status its
                 \* last ON_HOLD log restores, and the user of its last approval
    inspector,   \* who worked on the report last while it was IN_INSPECTION
    registered,  \* UserSignature.storageKey of each account
    frozen,      \* the report's ReportSignature rows, oldest first
    pictures,    \* the objects in the store
    minted,      \* the last object id drawn
    job          \* the request each handler serves

signatureVars ==
    <<layout, servers, header, inspector, registered, frozen, pictures, minted, job>>
fixedVars == <<layout, servers>>

NoKey == 0
NoPointer == [slot |-> "none", signer |-> Nobody, key |-> NoKey, revision |-> 0]
Idle == [op |-> "none", stage |-> "none", user |-> Nobody, key |-> NoKey,
         previous |-> NoKey, slot |-> "none", from |-> "none", to |-> "none",
         version |-> 0, revision |-> 0, rows |-> << >>]

(* Statuses in which a customer may sign and anyone may export.            *)
Signable == {"APPROVED", "CLOSED"}

Exists == header.status # "DELETED"
Alone == \E h \in Server : servers = {h}
VersionsLeft == header.version < IF Alone THEN MaxReportVersion ELSE MaxRacedVersion
Serves(h) == h \in servers /\ job[h] = Idle
At(h, op, stage) == job[h].op = op /\ job[h].stage = stage
Go(h, stage) == job' = [job EXCEPT ![h].stage = stage]
Done(h) == job' = [job EXCEPT ![h] = Idle]

(* The row of a slot that is current for a revision: the newest.           *)
PointersOf(slot, revision) ==
    {i \in DOMAIN frozen : frozen[i].slot = slot /\ frozen[i].revision = revision}
CurrentPointer(slot, revision) ==
    LET rows == PointersOf(slot, revision)
    IN  IF rows = {} THEN NoPointer ELSE frozen[Max(rows)]

(* Pointers to the signature an account has now; none if it has none.      *)
FreezeNow(slots, user, revision) ==
    IF registered[user] = NoKey THEN << >>
    ELSE SetToSeq({[slot |-> s, signer |-> user, key |-> registered[user],
                    revision |-> revision] : s \in slots})

(* One handler starts on a report under inspection; several at a time on   *)
(* one that was submitted before anybody had a signature.                  *)
SignaturesInit ==
    /\ layout \in Layout
    /\ servers \in {S \in SUBSET Server : S # {}}
    /\ header = [status |-> IF Alone THEN "IN_INSPECTION" ELSE "PENDING_APPROVAL",
                 version |-> IF Alone THEN 1 ELSE 2, revision |-> 0,
                 heldFrom |-> "none", approver |-> Nobody]
    /\ inspector \in {u \in User : RoleOf[u] # "CUSTOMER"}
    /\ registered = [u \in User |-> NoKey]
    /\ frozen = << >>
    /\ pictures = {}
    /\ minted = 0
    /\ job = [h \in Server |-> Idle]

(* ----------------------- registering a signature ----------------------- *)

BeginRegistration(h, u) ==
    /\ Serves(h)
    /\ minted < MaxObjects
    /\ minted' = minted + 1
    /\ job' = [job EXCEPT ![h] =
                 [Idle EXCEPT !.op = "register", !.stage = "put", !.user = u,
                              !.key = minted + 1, !.previous = registered[u]]]
    /\ UNCHANGED <<fixedVars, header, inspector, registered, frozen, pictures>>

(* Object first, row second.                                               *)
PutPicture(h) ==
    /\ job[h].stage = "put"
    /\ pictures' = pictures \cup {job[h].key}
    /\ Go(h, IF job[h].op = "register" THEN "point" ELSE "check")
    /\ UNCHANGED <<fixedVars, header, inspector, registered, frozen, minted>>

PointAtPicture(h) ==
    /\ At(h, "register", "point")
    /\ registered' = [registered EXCEPT ![job[h].user] = job[h].key]
    /\ IF job[h].previous = NoKey THEN Done(h)
       ELSE job' = [job EXCEPT ![h].stage = "count", ![h].key = job[h].previous]
    /\ UNCHANGED <<fixedVars, header, inspector, frozen, pictures, minted>>

(* A fault to refute: a superseded picture is dropped without counting.    *)
DropUncounted(h) ==
    /\ job[h].stage = "count"
    /\ Go(h, "drop")
    /\ UNCHANGED <<fixedVars, header, inspector, registered, frozen, pictures, minted>>

(* A picture is dropped when no row of a report points at it: the one a    *)
(* registration superseded, or the one a refused signing left behind.      *)
CountPointers(h) ==
    /\ job[h].stage = "count"
    /\ IF \E i \in DOMAIN frozen : frozen[i].key = job[h].key
       THEN Done(h) ELSE Go(h, "drop")
    /\ UNCHANGED <<fixedVars, header, inspector, registered, frozen, pictures, minted>>

DropPicture(h) ==
    /\ job[h].stage = "drop"
    /\ pictures' = pictures \ {job[h].key}
    /\ Done(h)
    /\ UNCHANGED <<fixedVars, header, inspector, registered, frozen, minted>>

(* -------------------- a customer signs a field ------------------------- *)

BeginSigning(h, u, f) ==
    /\ Serves(h)
    /\ RoleOf[u] = "CUSTOMER"
    /\ header.status \in Signable
    /\ minted < MaxObjects
    /\ minted' = minted + 1
    /\ job' = [job EXCEPT ![h] =
                 [Idle EXCEPT !.op = "sign", !.stage = "put", !.user = u,
                              !.slot = f, !.key = minted + 1]]
    /\ UNCHANGED <<fixedVars, header, inspector, registered, frozen, pictures>>

(* A fault to refute: the field is looked up under the signer.             *)
UnsignedByCaller(h) ==
    \A i \in PointersOf(job[h].slot, header.revision) : frozen[i].signer # job[h].user

Unsigned(h) == PointersOf(job[h].slot, header.revision) = {}

(* Status, revision and the absence of a signature, read once more in the  *)
(* transaction; whatever is wrong leads to the clean-up of the picture.    *)
CheckUnsigned(h) ==
    /\ At(h, "sign", "check")
    /\ IF header.status \in Signable /\ Unsigned(h)
       THEN job' = [job EXCEPT ![h].stage = "insert", ![h].revision = header.revision]
       ELSE Go(h, "count")
    /\ UNCHANGED <<fixedVars, header, inspector, registered, frozen, pictures, minted>>

(* The row is created and committed; an error, or a lost answer to the     *)
(* commit, leads to the clean-up as well.                                  *)
InsertSigned(h) ==
    /\ At(h, "sign", "insert")
    /\ Len(frozen) < MaxFrozen
    /\ \/ /\ Exists
          /\ frozen' = Append(frozen, [slot |-> job[h].slot, signer |-> job[h].user,
                                       key |-> job[h].key, revision |-> job[h].revision])
          /\ Done(h) \/ Go(h, "count")
       \/ /\ UNCHANGED frozen
          /\ Go(h, "count")
    /\ UNCHANGED <<fixedVars, header, inspector, registered, pictures, minted>>

(* ------------------- transitions that freeze signatures ---------------- *)

WorkOn(u) ==
    /\ header.status = "IN_INSPECTION"
    /\ RoleOf[u] # "CUSTOMER"
    /\ inspector # u
    /\ inspector' = u
    /\ UNCHANGED <<fixedVars, header, registered, frozen, pictures, minted, job>>

ApprovalSlots == SupervisorField \cup (layout.slots \cap {SupervisorSlot})
MustSign == SupervisorSlot \in layout.slots \/ layout.required # {}
MaySign(u) == MustSign => registered[u] # NoKey

RestoresHold(to) == header.status = "ON_HOLD" /\ to # "CLOSED"

BeginTransition(h, u, to) ==
    /\ Serves(h)
    /\ Exists
    /\ VersionsLeft
    /\ IF RestoresHold(to)
       THEN RoleOf[u] \in {"SUPERVISOR", "ADMIN"} /\ to = header.heldFrom
       ELSE to \in InspectionTransitions(RoleOf[u], header.status)
    /\ to = "APPROVED" /\ header.status # "ON_HOLD" => MaySign(u)
    /\ job' = [job EXCEPT ![h] =
                 [Idle EXCEPT !.op = "transition", !.stage = "write", !.user = u,
                              !.from = header.status, !.to = to,
                              !.version = header.version, !.revision = header.revision]]
    /\ UNCHANGED <<fixedVars, header, inspector, registered, frozen, pictures, minted>>

(* The approval of a report's last open batch: any status, no guard.       *)
BeginBatchApproval(h, u) ==
    /\ Serves(h)
    /\ Exists
    /\ RoleOf[u] \in {"SUPERVISOR", "ADMIN"}
    /\ VersionsLeft
    /\ job' = [job EXCEPT ![h] =
                 [Idle EXCEPT !.op = "batch", !.stage = "write", !.user = u,
                              !.from = header.status, !.to = "APPROVED",
                              !.version = header.version, !.revision = header.revision]]
    /\ UNCHANGED <<fixedVars, header, inspector, registered, frozen, pictures, minted>>

RowLocked == \E h \in Server : job[h].stage \in {"freeze", "commit"}

(* The write that takes the row's lock.  A transition's is guarded.        *)
WriteReport(h) ==
    /\ job[h].stage = "write"
    /\ ~RowLocked
    /\ IF Exists /\ (job[h].op = "batch" \/ header.version = job[h].version)
       THEN Go(h, "freeze") ELSE Done(h)
    /\ UNCHANGED <<fixedVars, header, inspector, registered, frozen, pictures, minted>>

IsReopen(from, to) ==
    \/ from = "APPROVED" /\ to = "IN_INSPECTION"
    \/ from = "CLOSED" /\ to \in {"APPROVED", "IN_INSPECTION"}

(* A transition makes a revision on a reopen and on the first approval;    *)
(* the approval of the last batch makes none.                              *)
RevisionAfter(h) ==
    LET first == job[h].to = "APPROVED" /\ job[h].revision = 0
    IN  header.revision +
        (IF job[h].op = "transition" /\ (first \/ IsReopen(job[h].from, job[h].to))
         THEN 1 ELSE 0)

(* A fault to refute: approvals are tagged with the revision judged.       *)
RevisionJudged(h) == job[h].revision

RevisionTagged(h) == RevisionAfter(h)

(* An approval that is not a release from hold, nor one of a report that   *)
(* the batch found approved.                                               *)
Approves(h) ==
    /\ job[h].to = "APPROVED"
    /\ job[h].from # (IF job[h].op = "batch" THEN "APPROVED" ELSE "ON_HOLD")

(* The pointers this transaction creates, from the registrations it reads  *)
(* under the lock: the inspector's on a submission, untagged, and the      *)
(* approver's on an approval.                                              *)
FreezeInTransaction(h) ==
    LET submits == job[h].op = "transition" /\ job[h].to = "PENDING_APPROVAL"
        rows == (IF submits THEN FreezeNow({InspectorSlot}, inspector, 0) ELSE << >>)
                \o (IF Approves(h)
                    THEN FreezeNow(ApprovalSlots, job[h].user, RevisionTagged(h))
                    ELSE << >>)
    IN
    /\ job[h].stage = "freeze"
    /\ Len(frozen) + Len(rows) <= MaxFrozen
    /\ IF job[h].op = "batch" /\ Approves(h) /\ ~MaySign(job[h].user)
       THEN Done(h)
       ELSE job' = [job EXCEPT ![h].stage = "commit", ![h].rows = rows]
    /\ UNCHANGED <<fixedVars, header, inspector, registered, frozen, pictures, minted>>

CommitReport(h) ==
    /\ job[h].stage = "commit"
    /\ header' = [status   |-> job[h].to,
                  version  |-> job[h].version + 1,
                  revision |-> RevisionAfter(h),
                  heldFrom |-> IF job[h].to = "ON_HOLD" THEN job[h].from
                               ELSE header.heldFrom,
                  approver |-> IF job[h].to = "APPROVED" THEN job[h].user
                               ELSE header.approver]
    /\ frozen' = frozen \o job[h].rows
    /\ Done(h)
    /\ UNCHANGED <<fixedVars, inspector, registered, pictures, minted>>

(* An administrator deletes the report: its rows go, the pictures stay.    *)
DeleteReport(u) ==
    /\ Exists
    /\ RoleOf[u] = "ADMIN"
    /\ ~RowLocked
    /\ header' = [header EXCEPT !.status = "DELETED", !.version = @ + 1]
    /\ frozen' = << >>
    /\ UNCHANGED <<fixedVars, inspector, registered, pictures, minted, job>>

(* ------------------------------ export --------------------------------- *)

(* An export of the current revision adopts the approver's signature now   *)
(* for a supervisor field nothing was applied to at the approval.          *)
BeginExport(h) ==
    /\ Serves(h)
    /\ header.status \in Signable
    /\ job' = [job EXCEPT ![h] =
                 [Idle EXCEPT !.op = "export", !.stage = "fields",
                              !.revision = header.revision]]
    /\ UNCHANGED <<fixedVars, header, inspector, registered, frozen, pictures, minted>>

Adoptable(h, f) ==
    /\ CurrentPointer(f, job[h].revision) = NoPointer
    /\ header.approver # Nobody
    /\ FreezeNow({f}, header.approver, job[h].revision) # << >>

AdoptSignature(h) ==
    \E f \in SupervisorField :
        /\ At(h, "export", "fields")
        /\ Adoptable(h, f)
        /\ Len(frozen) < MaxFrozen
        /\ job' = [job EXCEPT ![h].stage = "adopt",
                              ![h].rows = FreezeNow({f}, header.approver, job[h].revision)]
        /\ UNCHANGED <<fixedVars, header, inspector, registered, frozen, pictures, minted>>

InsertAdopted(h) ==
    /\ At(h, "export", "adopt")
    /\ frozen' = IF Exists THEN frozen \o job[h].rows ELSE frozen
    /\ IF Exists THEN Go(h, "fields") ELSE Done(h)
    /\ UNCHANGED <<fixedVars, header, inspector, registered, pictures, minted>>

(* The workbook is made, or refused for the required fields still missing. *)
FinishExport(h) ==
    /\ At(h, "export", "fields")
    /\ \A f \in SupervisorField : ~Adoptable(h, f)
    /\ Done(h)
    /\ UNCHANGED <<fixedVars, header, inspector, registered, frozen, pictures, minted>>

(* The process dies: requests are forgotten, open transactions undone.     *)
Restart ==
    /\ \E h \in Server : job[h] # Idle
    /\ job' = [h \in Server |-> Idle]
    /\ UNCHANGED <<fixedVars, header, inspector, registered, frozen, pictures, minted>>

SignaturesNext ==
    \/ \E h \in Server :
          \/ \E u \in User :
                \/ BeginRegistration(h, u)
                \/ BeginBatchApproval(h, u)
                \/ \E f \in CustomerField : BeginSigning(h, u, f)
                \/ \E to \in ReportStatus : BeginTransition(h, u, to)
          \/ BeginExport(h)
          \/ PutPicture(h) \/ PointAtPicture(h) \/ CountPointers(h) \/ DropPicture(h)
          \/ CheckUnsigned(h) \/ InsertSigned(h)
          \/ WriteReport(h) \/ FreezeInTransaction(h) \/ CommitReport(h)
          \/ AdoptSignature(h) \/ InsertAdopted(h) \/ FinishExport(h)
    \/ \E u \in User : WorkOn(u) \/ DeleteReport(u)
    \/ Restart

SignaturesSpec == SignaturesInit /\ [][SignaturesNext]_signatureVars

(* ----------------------------- properties ------------------------------ *)

(* Served one at a time, requests never take the picture from a pointer on *)
(* a report; and a field a customer signed keeps it however requests race, *)
(* also when the answer to its commit was lost.                            *)
FrozenPictureKept ==
    \A i \in DOMAIN frozen :
        Alone \/ frozen[i].slot \in CustomerField => frozen[i].key \in pictures

(* Served one at a time, requests never change what a customer signed: the *)
(* row an export of that revision shows stays the first one.               *)
SignedFieldNeverOverwritten ==
    [][\A f \in CustomerField, r \in 0 .. MaxReportVersion :
          Alone /\ header'.status # "DELETED" /\ CurrentPointer(f, r) # NoPointer
          => CurrentPointer(f, r)' = CurrentPointer(f, r)]_signatureVars

(* An approval leaves the report with the approver's signature in every    *)
(* slot that must have it, tagged with the revision the report then has.   *)
ApprovalIsSigned ==
    [][\A h \in Server :
          /\ CommitReport(h)
          /\ Approves(h)
          /\ MustSign
          => \A s \in ApprovalSlots :
                CurrentPointer(s, header.revision)'.signer = job[h].user]_signatureVars
=============================================================================
