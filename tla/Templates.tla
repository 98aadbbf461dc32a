------------------------------ MODULE Templates ------------------------------
(***************************************************************************)
(* The versions of one template key: their upload and validation gate,     *)
(* their definitions with the revisions that preserve replaced ones, the   *)
(* workbook objects in the store, and the reports bound to a version.      *)
(*                                                                         *)
(* A transaction on the rows is one step, except that of a definition,     *)
(* whose reads and write are separate.  The workbook is written after the  *)
(* row and deleted after it, under a key made of the version's number,     *)
(* which a deleted version gives back.                                     *)
(***************************************************************************)
EXTENDS Naturals, Sequences, FiniteSetsExt

CONSTANTS
    TemplateServer,      \* handlers of requests
    MaxTemplateVersion,  \* bound: version numbers
    MaxUploads,          \* bound: uploads
    MaxDefinitions       \* bound: definitions written, revisions of a version

ASSUME TemplatesAssumption ==
    {MaxTemplateVersion, MaxUploads, MaxDefinitions} \subseteq Nat

VARIABLES
    template,     \* the row of each version
    revisions,    \* the definitions each version preserves, by revision number
    displaced,    \* audit entries: row `id` was retired by the release of `by`
    workbooks,    \* which upload's bytes are stored under each version's key
    bound,        \* template bindings of the reports: version, and row by hash
    uploads,      \* the last row drawn
    definitions,  \* the last definition drawn
    orphaned,     \* a deletion has left its workbook behind
    serving       \* the request each handler is in the middle of

templateVars == <<template, revisions, displaced, workbooks, bound, uploads,
                  definitions, orphaned, serving>>

TemplateVersion == 1 .. MaxTemplateVersion
Undefined == 0
NoRow == [id |-> 0, status |-> "none", approval |-> "none", definition |-> Undefined]
Unbusy == [stage |-> "none", version |-> 0, id |-> 0, approval |-> "none",
           candidate |-> Undefined, prior |-> Undefined, last |-> 0]

Free(h) == serving[h] = Unbusy
Stage(h, s) == serving[h].stage = s
Finish(h) == serving' = [serving EXCEPT ![h] = Unbusy]
Advance(h, s) == serving' = [serving EXCEPT ![h].stage = s]

Uploaded == {v \in TemplateVersion : template[v] # NoRow}
ActiveVersions == {v \in Uploaded : template[v].status = "ACTIVE"}
Released == {v \in ActiveVersions : template[v].approval = "APPROVED"}
(* What a report can be created against.                                   *)
Usable == {v \in Released : template[v].definition # Undefined}

TemplatesInit ==
    /\ template = [v \in TemplateVersion |-> NoRow]
    /\ revisions = [v \in TemplateVersion |-> << >>]
    /\ displaced = {}
    /\ workbooks = [v \in TemplateVersion |-> 0]
    /\ bound = {}
    /\ uploads = 0
    /\ definitions = 0
    /\ orphaned = FALSE
    /\ serving = [h \in TemplateServer |-> Unbusy]

(* One ACTIVE version other than v, whichever the database finds first, is *)
(* retired by the release of v.                                            *)
RetireForRelease(rows, v) ==
    LET others == {w \in TemplateVersion \ {v} : rows[w].status = "ACTIVE"}
    IN  IF others = {} THEN template' = rows /\ UNCHANGED displaced
        ELSE \E w \in others :
                /\ template' = [rows EXCEPT ![w].status = "DEPRECATED"]
                /\ displaced' = displaced \cup {[id |-> rows[w].id, by |-> v]}

(* A fault to refute: every upload retires the version in use.             *)
RetiresAnyway(approval) == TRUE

RetiresAtUpload(approval) == approval = "APPROVED"

CreateTemplate(h, role) ==
    LET v == 1 + Max(Uploaded \cup {0})
        approval == IF role = "ADMIN" THEN "APPROVED" ELSE "PENDING_APPROVAL"
        rows == [template EXCEPT ![v] =
                   [id |-> uploads + 1, status |-> "ACTIVE", approval |-> approval,
                    definition |-> Undefined]]
    IN
    /\ Free(h)
    /\ v <= MaxTemplateVersion
    /\ uploads < MaxUploads
    /\ uploads' = uploads + 1
    /\ IF RetiresAtUpload(approval) THEN RetireForRelease(rows, v)
       ELSE template' = rows /\ UNCHANGED displaced
    /\ serving' = [serving EXCEPT ![h] =
                     [Unbusy EXCEPT !.stage = "put", !.version = v, !.id = uploads + 1]]
    /\ UNCHANGED <<revisions, workbooks, bound, definitions, orphaned>>

(* The bytes follow the row; when the store refuses them the row stays.    *)
PutWorkbook(h) ==
    /\ Stage(h, "put")
    /\ \/ workbooks' = [workbooks EXCEPT ![serving[h].version] = serving[h].id]
       \/ UNCHANGED workbooks
    /\ Finish(h)
    /\ UNCHANGED <<template, revisions, displaced, bound, uploads, definitions, orphaned>>

ApproveTemplate(h, v) ==
    /\ Free(h)
    /\ template[v].approval = "PENDING_APPROVAL"
    /\ RetireForRelease([template EXCEPT ![v].approval = "APPROVED"], v)
    /\ UNCHANGED <<revisions, workbooks, bound, uploads, definitions, orphaned, serving>>

RejectTemplate(h, v) ==
    /\ Free(h)
    /\ template[v].approval \in {"PENDING_APPROVAL", "REJECTED"}
    /\ template' = [template EXCEPT ![v].approval = "REJECTED"]
    /\ UNCHANGED <<revisions, displaced, workbooks, bound, uploads, definitions, orphaned,
                   serving>>

DeprecateTemplate(h, v) ==
    /\ Free(h)
    /\ v \in ActiveVersions
    /\ ActiveVersions # {v}
    /\ template' = [template EXCEPT ![v].status = "DEPRECATED"]
    /\ UNCHANGED <<revisions, displaced, workbooks, bound, uploads, definitions, orphaned,
                   serving>>

ReportsOf(v) == {r \in bound : r.version = v}

MayDelete(role, v) ==
    role = "ADMIN" \/ /\ template[v].definition = Undefined
                      /\ revisions[v] = << >>
                      /\ ReportsOf(v) = {}

(* The rows go at once, reports included.  When the key is left without an *)
(* ACTIVE version, the newest one that the deleted version had retired is  *)
(* reinstated.                                                             *)
DeleteTemplate(h, v, role) ==
    LET rows == [template EXCEPT ![v] = NoRow]
        retired == {w \in TemplateVersion :
                      /\ rows[w].status = "DEPRECATED"
                      /\ [id |-> rows[w].id, by |-> v] \in displaced}
    IN
    /\ Free(h)
    /\ v \in Uploaded
    /\ MayDelete(role, v)
    /\ bound' = bound \ ReportsOf(v)
    /\ revisions' = [revisions EXCEPT ![v] = << >>]
    /\ template' = IF ActiveVersions = {v} /\ retired # {}
                   THEN [rows EXCEPT ![Max(retired)].status = "ACTIVE"] ELSE rows
    /\ serving' = [serving EXCEPT ![h] = [Unbusy EXCEPT !.stage = "drop", !.version = v]]
    /\ UNCHANGED <<displaced, workbooks, uploads, definitions, orphaned>>

(* Best effort, after the commit.                                          *)
DropWorkbook(h) ==
    /\ Stage(h, "drop")
    /\ \/ workbooks' = [workbooks EXCEPT ![serving[h].version] = 0] /\ UNCHANGED orphaned
       \/ orphaned' = TRUE /\ UNCHANGED workbooks
    /\ Finish(h)
    /\ UNCHANGED <<template, revisions, displaced, bound, uploads, definitions>>

(* ---------------------------- definitions ------------------------------ *)

(* A fault to refute: a definition is accepted without its workbook.       *)
NoWorkbookNeeded(v) == TRUE

WorkbookRead(v) == workbooks[v] # 0

(* A new definition, or one restored from a revision, is validated against *)
(* the tokens of the stored workbook.                                      *)
BeginDefine(h, v) ==
    \E d \in {definitions + 1} \cup {revisions[v][i] : i \in DOMAIN revisions[v]} :
        /\ Free(h)
        /\ v \in Uploaded
        /\ WorkbookRead(v)
        /\ d <= MaxDefinitions
        /\ Len(revisions[v]) < MaxDefinitions
        /\ definitions' = Max({d, definitions})
        /\ serving' = [serving EXCEPT ![h] =
                         [Unbusy EXCEPT !.stage = "prior", !.version = v,
                                        !.id = template[v].id, !.candidate = d,
                                        !.approval = template[v].approval]]
        /\ UNCHANGED <<template, revisions, displaced, workbooks, bound, uploads, orphaned>>

ReadPrior(h) ==
    /\ Stage(h, "prior")
    /\ serving' = [serving EXCEPT ![h].stage = "last",
                     ![h].prior = IF template[serving[h].version].id = serving[h].id
                                  THEN template[serving[h].version].definition
                                  ELSE Undefined]
    /\ UNCHANGED <<template, revisions, displaced, workbooks, bound, uploads, definitions,
                   orphaned>>

ReadLast(h) ==
    /\ Stage(h, "last")
    /\ serving' = [serving EXCEPT ![h].stage = "commit",
                                  ![h].last = Len(revisions[serving[h].version])]
    /\ UNCHANGED <<template, revisions, displaced, workbooks, bound, uploads, definitions,
                   orphaned>>

Preserved(h) == IF serving[h].prior = Undefined THEN << >> ELSE <<serving[h].prior>>

(* The write fails when the row is gone, or when another one has taken the *)
(* revision's number.  A rejected version is submitted again.              *)
CommitDefinition(h) ==
    LET j == serving[h]
        v == j.version
    IN
    /\ Stage(h, "commit")
    /\ IF \/ template[v].id # j.id
          \/ Preserved(h) # << >> /\ Len(revisions[v]) > j.last
       THEN UNCHANGED <<template, revisions>>
       ELSE /\ revisions' = [revisions EXCEPT ![v] = @ \o Preserved(h)]
            /\ template' = [template EXCEPT ![v].definition = j.candidate,
                              ![v].approval = IF j.approval = "REJECTED"
                                              THEN "PENDING_APPROVAL" ELSE @]
    /\ Finish(h)
    /\ UNCHANGED <<displaced, workbooks, bound, uploads, definitions, orphaned>>

(* ------------------------------ reports -------------------------------- *)

(* A report is bound to the newest ACTIVE and APPROVED version, if that is *)
(* defined; the report itself is created later, in its own transaction.    *)
BeginReport(h) ==
    LET v == Max(Released)
    IN  /\ Free(h)
        /\ Released # {}
        /\ v \in Usable
        /\ serving' = [serving EXCEPT ![h] = [Unbusy EXCEPT !.stage = "bind",
                                              !.version = v, !.id = template[v].id]]
        /\ UNCHANGED <<template, revisions, displaced, workbooks, bound, uploads,
                       definitions, orphaned>>

CreateReport(h) ==
    /\ Stage(h, "bind")
    /\ bound' = bound \cup {[version |-> serving[h].version, id |-> serving[h].id]}
    /\ Finish(h)
    /\ UNCHANGED <<template, revisions, displaced, workbooks, uploads, definitions, orphaned>>

(* The process dies: what is committed stays, what was to follow is lost.  *)
TemplateRestart ==
    /\ \E h \in TemplateServer : ~Free(h)
    /\ serving' = [h \in TemplateServer |-> Unbusy]
    /\ orphaned' = (orphaned \/ \E h \in TemplateServer : Stage(h, "drop"))
    /\ UNCHANGED <<template, revisions, displaced, workbooks, bound, uploads, definitions>>

TemplatesNext ==
    \/ \E h \in TemplateServer :
          \/ \E role \in {"ADMIN", "SUPERVISOR"} :
                \/ CreateTemplate(h, role)
                \/ \E v \in TemplateVersion : DeleteTemplate(h, v, role)
          \/ \E v \in TemplateVersion :
                \/ ApproveTemplate(h, v) \/ RejectTemplate(h, v)
                \/ DeprecateTemplate(h, v) \/ BeginDefine(h, v)
          \/ PutWorkbook(h) \/ DropWorkbook(h)
          \/ ReadPrior(h) \/ ReadLast(h) \/ CommitDefinition(h)
          \/ BeginReport(h) \/ CreateReport(h)
    \/ TemplateRestart

TemplatesSpec == TemplatesInit /\ [][TemplatesNext]_templateVars

(* ----------------------------- properties ------------------------------ *)

(* A version a report can be created against has its own workbook in the   *)
(* store, although uploads may fail after their row: nothing is defined    *)
(* without reading it.  (Not once a deletion left an object behind.)       *)
UsableWorkbookStored ==
    orphaned \/ \A v \in Usable : workbooks[v] = template[v].id

(* An edit never silently destroys the previous definition.                *)
DefinitionHistoryKept ==
    [][\A v \in Uploaded :
          /\ template'[v].id = template[v].id
          /\ template[v].definition # Undefined
          => \/ template'[v].definition = template[v].definition
             \/ \E i \in DOMAIN revisions'[v] :
                   revisions'[v][i] = template[v].definition]_templateVars

(* No upload, deletion or definition of a supervisor takes the form in use *)
(* out of service: with one on offer before, there is one after.           *)
SupervisorKeepsForm ==
    [][\A h \in TemplateServer :
          /\ \/ CreateTemplate(h, "SUPERVISOR")
             \/ \E v \in TemplateVersion : DeleteTemplate(h, v, "SUPERVISOR")
             \/ CommitDefinition(h)
          /\ Usable # {}
          => Usable' # {}]_templateVars
=============================================================================
