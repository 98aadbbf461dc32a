--------------------------- MODULE TemplateProofs ----------------------------
(***************************************************************************)
(* Proofs about templates, for every bound.  Of their rows, workbooks and  *)
(* definitions: with one request at a time, a version a report can be      *)
(* created against has its workbook, and no supervisor takes the form in   *)
(* use out of service.  Of the wizard that authors a definition: the       *)
(* invariant of its rows, for any number of tokens and any set of header   *)
(* roles, and what it means for the form that is sent.                     *)
(***************************************************************************)
EXTENDS Templates, TemplateWizard, WellFoundedInduction, TLAPS

(* Requests on templates are served one at a time; a crash may end one.    *)
OneTemplateRequest == \A g, h \in TemplateServer : g = h

TemplateStatus == {"none", "ACTIVE", "DEPRECATED"}
TemplateApproval == {"none", "PENDING_APPROVAL", "APPROVED", "REJECTED"}
TemplateRow == [id : Nat, status : TemplateStatus, approval : TemplateApproval,
                definition : Nat]
DefineStage == {"prior", "last", "commit"}
TemplateJob == [stage : DefineStage \cup {"none", "put", "drop", "bind"}, version : Nat,
                id : Nat, approval : TemplateApproval, candidate : Nat, prior : Nat,
                last : Nat]

TemplatesTypeOK ==
    /\ template \in [TemplateVersion -> TemplateRow]
    /\ revisions \in [TemplateVersion -> Seq(Nat \ {Undefined})]
    /\ workbooks \in [TemplateVersion -> Nat]
    /\ uploads \in Nat /\ definitions \in Nat /\ orphaned \in BOOLEAN
    /\ serving \in [TemplateServer -> TemplateJob]

(* What a request still finds of what it read or wrote: nobody else has    *)
(* changed it since.                                                       *)
JobFresh(h) ==
    LET j == serving[h] IN
    /\ Stage(h, "put") => /\ j.version \in TemplateVersion
                          /\ template[j.version].id = j.id
                          /\ template[j.version].definition = Undefined
    /\ Stage(h, "drop") => j.version \in TemplateVersion /\ template[j.version] = NoRow
    /\ j.stage \in DefineStage =>
          /\ j.version \in TemplateVersion /\ j.candidate # Undefined
          /\ template[j.version].id = j.id /\ template[j.version].approval = j.approval
          /\ j.id # 0
          /\ orphaned \/ workbooks[j.version] = j.id
          /\ ~Stage(h, "prior") => j.prior = template[j.version].definition

BeingDropped(v) == \E h \in TemplateServer : Stage(h, "drop") /\ serving[h].version = v

(* A workbook is its row's own, and a definition has one.                  *)
WorkbookOf(v) ==
    /\ workbooks[v] \in {0, template[v].id} \/ BeingDropped(v)
    /\ template[v].definition # Undefined => workbooks[v] = template[v].id

(* A row there is has been drawn.                                          *)
RowsDrawn == \A v \in TemplateVersion : template[v].id = 0 => template[v] = NoRow

TemplatesInvariant ==
    /\ TemplatesTypeOK
    /\ RowsDrawn
    /\ \A h \in TemplateServer : JobFresh(h)
    /\ orphaned \/ \A v \in TemplateVersion : WorkbookOf(v)

(* ----------------------- the newest of some versions ------------------- *)

LEMMA NaturalsAreWellFounded ==
    IsWellFoundedOn({p \in Nat \X Nat : p[1] < p[2]}, Nat)
  BY NatLessThanWellFounded DEF OpToRel

(* Max is the greatest element; the least distance to a bound gives it.    *)
LEMMA MaxIsGreatest ==
    ASSUME NEW n \in Nat, NEW S \in SUBSET (0 .. n), S # {}
    PROVE  Max(S) \in S /\ \A x \in S : x <= Max(S)
<1> DEFINE R == {p \in Nat \X Nat : p[1] < p[2]}
           T == {n - x : x \in S}
<1>1. T \subseteq Nat /\ T # {}
  <2>1. \A x \in S : n - x \in Nat
    OBVIOUS
  <2> QED BY <2>1
<1>2. IsWellFoundedOn(R, Nat)
  BY NaturalsAreWellFounded
<1> HIDE DEF R, T
<1>3. PICK m \in T : \A y \in T : <<y, m>> \notin R
  BY <1>1, <1>2, WFMin
<1> USE DEF T
<1>4. PICK x \in S : m = n - x
  BY <1>3
<1>5. \A y \in S : x >= y
  <2> SUFFICES ASSUME NEW y \in S, y > x PROVE FALSE
    OBVIOUS
  <2>1. n - y \in T /\ n - y < m /\ n - y \in Nat /\ m \in Nat
    BY <1>1, <1>4
  <2>2. <<n - y, m>> \in R
    BY <2>1 DEF R
  <2> QED BY <1>3, <2>1, <2>2
<1> QED BY <1>5 DEF Max

(* A version's number is new: no version there is has it.                  *)
LEMMA NumberIsNew ==
    ASSUME NEW v, v = 1 + Max(Uploaded \cup {0}), v <= MaxTemplateVersion
    PROVE  v \in TemplateVersion /\ template[v] = NoRow
<1>1. MaxTemplateVersion \in Nat
  BY TemplatesAssumption
<1>2. Uploaded \cup {0} \in SUBSET (0 .. MaxTemplateVersion) /\ Uploaded \cup {0} # {}
  BY <1>1 DEF Uploaded, TemplateVersion
<1>3. /\ Max(Uploaded \cup {0}) \in 0 .. MaxTemplateVersion
      /\ \A w \in Uploaded : w <= Max(Uploaded \cup {0})
  BY <1>1, <1>2, MaxIsGreatest
<1>4. v \in TemplateVersion
  BY <1>1, <1>3 DEF TemplateVersion
<1>5. v \notin Uploaded
  BY <1>3, <1>4 DEF TemplateVersion
<1> QED BY <1>4, <1>5 DEF Uploaded

(* ------------------------------ the rows ------------------------------- *)

SameForms(rows, to) ==
    /\ to \in [TemplateVersion -> TemplateRow]
    /\ \A w \in TemplateVersion : /\ to[w].id = rows[w].id
                                  /\ to[w].approval = rows[w].approval
                                  /\ to[w].definition = rows[w].definition

LEMMA StatusIsSet ==
    ASSUME NEW rows \in [TemplateVersion -> TemplateRow], NEW v \in TemplateVersion,
           NEW status \in TemplateStatus
    PROVE  LET to == [rows EXCEPT ![v].status = status] IN
           /\ SameForms(rows, to)
           /\ to[v].status = status
           /\ \A w \in TemplateVersion \ {v} : to[w] = rows[w]
<1> DEFINE R == [rows[v] EXCEPT !.status = status]
           to == [rows EXCEPT ![v] = R]
<1>1. rows[v] \in TemplateRow
  OBVIOUS
<1>2. /\ R \in TemplateRow /\ R.status = status /\ R.id = rows[v].id
      /\ R.approval = rows[v].approval /\ R.definition = rows[v].definition
  BY <1>1 DEF TemplateRow
<1>3. to = [rows EXCEPT ![v].status = status]
  OBVIOUS
<1> HIDE DEF R
<1>4. SameForms(rows, to) /\ to[v].status = status
      /\ \A w \in TemplateVersion \ {v} : to[w] = rows[w]
  BY <1>2 DEF SameForms
<1> QED BY <1>3, <1>4

LEMMA ApprovalIsSet ==
    ASSUME NEW rows \in [TemplateVersion -> TemplateRow], NEW v \in TemplateVersion,
           NEW approval \in TemplateApproval
    PROVE  LET to == [rows EXCEPT ![v].approval = approval] IN
           /\ to \in [TemplateVersion -> TemplateRow]
           /\ \A w \in TemplateVersion : /\ to[w].id = rows[w].id
                                         /\ to[w].definition = rows[w].definition
                                         /\ w # v => to[w] = rows[w]
<1> DEFINE R == [rows[v] EXCEPT !.approval = approval]
           to == [rows EXCEPT ![v] = R]
<1>1. rows[v] \in TemplateRow
  OBVIOUS
<1>2. R \in TemplateRow /\ R.id = rows[v].id /\ R.definition = rows[v].definition
  BY <1>1 DEF TemplateRow
<1>3. to = [rows EXCEPT ![v].approval = approval]
  OBVIOUS
<1> HIDE DEF R
<1>4. /\ to \in [TemplateVersion -> TemplateRow]
      /\ \A w \in TemplateVersion : /\ to[w].id = rows[w].id
                                    /\ to[w].definition = rows[w].definition
                                    /\ w # v => to[w] = rows[w]
  BY <1>2
<1> QED BY <1>3, <1>4

LEMMA RetiringKeepsForms ==
    ASSUME NEW rows \in [TemplateVersion -> TemplateRow], NEW v, RetireForRelease(rows, v)
    PROVE  /\ SameForms(rows, template')
           /\ \A w \in TemplateVersion : rows[w] = NoRow => template'[w] = NoRow
<1>1. CASE template' = rows
  BY <1>1 DEF SameForms
<1>2. CASE \E w \in TemplateVersion : /\ rows[w].status = "ACTIVE"
                                       /\ template' = [rows EXCEPT ![w].status = "DEPRECATED"]
  <2>1. PICK w \in TemplateVersion : /\ rows[w].status = "ACTIVE"
                                     /\ template' = [rows EXCEPT ![w].status = "DEPRECATED"]
    BY <1>2
  <2>2. "DEPRECATED" \in TemplateStatus
    BY DEF TemplateStatus
  <2>3. LET to == [rows EXCEPT ![w].status = "DEPRECATED"] IN
        SameForms(rows, to) /\ \A u \in TemplateVersion \ {w} : to[u] = rows[u]
    BY <2>2, StatusIsSet
  <2>4. rows[w] # NoRow
    BY <2>1 DEF NoRow
  <2> QED BY <2>1, <2>3, <2>4
<1> QED BY <1>1, <1>2 DEF RetireForRelease

(* ----------------------------- the requests ---------------------------- *)

LEMMA UnbusyIsJob ==
    /\ Unbusy \in TemplateJob /\ Unbusy.stage = "none"
  BY DEF Unbusy, TemplateJob, TemplateApproval, Undefined

LEMMA UnbusyIsFresh ==
    ASSUME NEW h \in TemplateServer, serving'[h] = Unbusy
    PROVE  JobFresh(h)'
  BY UnbusyIsJob DEF JobFresh, Stage, DefineStage

LEMMA InitTemplates == TemplatesInit => TemplatesInvariant
<1> SUFFICES ASSUME TemplatesInit PROVE TemplatesInvariant
  OBVIOUS
<1>1. NoRow \in TemplateRow /\ NoRow.id = 0 /\ NoRow.definition = Undefined
  BY DEF NoRow, TemplateRow, TemplateStatus, TemplateApproval, Undefined
<1>2. TemplatesTypeOK
  <2>1. \A v \in TemplateVersion : << >> \in Seq(Nat \ {Undefined})
    OBVIOUS
  <2>2. /\ template \in [TemplateVersion -> TemplateRow]
        /\ revisions \in [TemplateVersion -> Seq(Nat \ {Undefined})]
        /\ workbooks \in [TemplateVersion -> Nat]
        /\ uploads \in Nat /\ definitions \in Nat
    BY <1>1, <2>1 DEF TemplatesInit
  <2>3. orphaned \in BOOLEAN /\ serving \in [TemplateServer -> TemplateJob]
    BY UnbusyIsJob DEF TemplatesInit
  <2> QED BY <2>2, <2>3 DEF TemplatesTypeOK
<1>3. \A h \in TemplateServer : serving[h] = Unbusy
  BY DEF TemplatesInit
<1>4. \A h \in TemplateServer : JobFresh(h)
  BY <1>3, UnbusyIsJob DEF JobFresh, Stage, DefineStage
<1>5. \A v \in TemplateVersion : WorkbookOf(v)
  BY <1>1 DEF TemplatesInit, WorkbookOf
<1>6. RowsDrawn
  BY DEF TemplatesInit, RowsDrawn
<1> QED BY <1>2, <1>4, <1>5, <1>6 DEF TemplatesInvariant

(* The one request that is served is the whole of what is under way.       *)
LEMMA OneJob ==
    ASSUME OneTemplateRequest, serving \in [TemplateServer -> TemplateJob],
           NEW h \in TemplateServer, NEW job \in TemplateJob,
           serving' = [serving EXCEPT ![h] = job]
    PROVE  /\ serving' \in [TemplateServer -> TemplateJob]
           /\ serving'[h] = job
           /\ \A g \in TemplateServer : g = h
  BY DEF OneTemplateRequest

(* Requests that restate rows and keep their forms' definitions.           *)
LEMMA RestatedRowsKeep ==
    ASSUME TemplatesInvariant, OneTemplateRequest, NEW h \in TemplateServer, Free(h),
           template' \in [TemplateVersion -> TemplateRow],
           \A w \in TemplateVersion : /\ template'[w].id = template[w].id
                                      /\ template'[w].definition = template[w].definition
                                      /\ template[w] = NoRow => template'[w] = NoRow,
           UNCHANGED <<revisions, workbooks, uploads, definitions, orphaned, serving>>
    PROVE  TemplatesInvariant'
<1>1. TemplatesTypeOK'
  BY DEF TemplatesInvariant, TemplatesTypeOK
<1>2. \A g \in TemplateServer : serving[g] = Unbusy
  BY DEF OneTemplateRequest, Free
<1>3. \A g \in TemplateServer : JobFresh(g)'
  BY <1>2, UnbusyIsFresh
<1>4. ASSUME ~orphaned, NEW v \in TemplateVersion
      PROVE  WorkbookOf(v)'
  <2>1. WorkbookOf(v) /\ ~BeingDropped(v)
    BY <1>2, <1>4, UnbusyIsJob DEF TemplatesInvariant, BeingDropped, Stage
  <2> QED BY <2>1 DEF WorkbookOf
<1>5. RowsDrawn'
  BY DEF TemplatesInvariant, RowsDrawn
<1> QED BY <1>1, <1>3, <1>4, <1>5 DEF TemplatesInvariant

LEMMA CreateTemplateKeeps ==
    ASSUME TemplatesInvariant, OneTemplateRequest, NEW h \in TemplateServer,
           NEW role \in {"ADMIN", "SUPERVISOR"}, CreateTemplate(h, role)
    PROVE  TemplatesInvariant'
<1>1. TemplatesTypeOK /\ \A g \in TemplateServer : g = h /\ serving[g] = Unbusy
  BY DEF TemplatesInvariant, OneTemplateRequest, CreateTemplate, Free
<1> DEFINE v == 1 + Max(Uploaded \cup {0})
           approval == IF role = "ADMIN" THEN "APPROVED" ELSE "PENDING_APPROVAL"
           new == [id |-> uploads + 1, status |-> "ACTIVE", approval |-> approval,
                   definition |-> Undefined]
           rows == [template EXCEPT ![v] = new]
           job == [Unbusy EXCEPT !.stage = "put", !.version = v, !.id = uploads + 1]
<1>2. v \in TemplateVersion /\ template[v] = NoRow
  BY NumberIsNew DEF CreateTemplate
<1>3. /\ RetireForRelease(rows, v) \/ template' = rows
      /\ uploads' = uploads + 1 /\ serving' = [serving EXCEPT ![h] = job]
      /\ UNCHANGED <<revisions, workbooks, definitions, orphaned>>
  BY DEF CreateTemplate
<1>4. new \in TemplateRow /\ new.id = uploads + 1 /\ new.definition = Undefined
  BY <1>1 DEF TemplateRow, TemplateStatus, TemplateApproval, TemplatesTypeOK, Undefined
<1>5. v \in Nat
  BY <1>2 DEF TemplateVersion
<1> HIDE DEF v
<1>6. /\ job \in TemplateJob /\ job.stage = "put" /\ job.version = v /\ job.id = uploads + 1
  <2>1. uploads + 1 \in Nat
    BY <1>1 DEF TemplatesTypeOK
  <2> QED BY <1>5, <2>1, UnbusyIsJob DEF TemplateJob
<1> HIDE DEF new, job
<1>7. /\ rows \in [TemplateVersion -> TemplateRow] /\ rows[v] = new
      /\ \A w \in TemplateVersion \ {v} : rows[w] = template[w]
  BY <1>1, <1>2, <1>4 DEF TemplatesTypeOK
<1> HIDE DEF rows
<1>8. /\ SameForms(rows, template')
      /\ \A w \in TemplateVersion : rows[w] = NoRow => template'[w] = NoRow
  BY <1>3, <1>7, RetiringKeepsForms DEF SameForms
<1>9. /\ template'[v].id = uploads + 1 /\ template'[v].definition = Undefined
      /\ \A w \in TemplateVersion \ {v} : /\ template'[w].id = template[w].id
                                          /\ template'[w].definition = template[w].definition
  BY <1>2, <1>4, <1>7, <1>8 DEF SameForms
<1>10. /\ serving' \in [TemplateServer -> TemplateJob] /\ serving'[h] = job
  BY <1>1, <1>3, <1>6, OneJob DEF TemplatesTypeOK
<1>11. TemplatesTypeOK'
  BY <1>1, <1>3, <1>8, <1>10 DEF TemplatesTypeOK, SameForms
<1>12. \A g \in TemplateServer : JobFresh(g)'
  BY <1>1, <1>2, <1>6, <1>9, <1>10 DEF JobFresh, Stage, DefineStage
<1>13. ASSUME ~orphaned, NEW w \in TemplateVersion
       PROVE  WorkbookOf(w)'
  <2>1. WorkbookOf(w) /\ ~BeingDropped(w)
    BY <1>1, <1>13, UnbusyIsJob DEF TemplatesInvariant, BeingDropped, Stage
  <2>2. CASE w = v
    <3>1. workbooks[v] = 0
      BY <1>2, <2>1, <2>2 DEF WorkbookOf, NoRow
    <3> QED BY <1>3, <1>9, <2>2, <3>1 DEF WorkbookOf
  <2>3. CASE w # v
    BY <1>3, <1>9, <2>1, <2>3 DEF WorkbookOf
  <2> QED BY <2>2, <2>3
<1>14. RowsDrawn'
  <2>1. uploads + 1 # 0
    BY <1>1 DEF TemplatesTypeOK
  <2>2. ASSUME NEW w \in TemplateVersion \ {v}, template'[w].id = 0
        PROVE  template'[w] = NoRow
    BY <1>7, <1>8, <1>9, <2>2 DEF TemplatesInvariant, RowsDrawn
  <2> QED BY <1>9, <2>1, <2>2 DEF RowsDrawn
<1> QED BY <1>3, <1>11, <1>12, <1>13, <1>14 DEF TemplatesInvariant

(* The rows of a deleted version go; its workbook is being dropped.        *)
LEMMA DeleteTemplateKeeps ==
    ASSUME TemplatesInvariant, OneTemplateRequest, NEW h \in TemplateServer,
           NEW v \in TemplateVersion, NEW role \in {"ADMIN", "SUPERVISOR"},
           DeleteTemplate(h, v, role)
    PROVE  TemplatesInvariant'
<1>1. TemplatesTypeOK /\ \A g \in TemplateServer : g = h /\ serving[g] = Unbusy
  BY DEF TemplatesInvariant, OneTemplateRequest, DeleteTemplate, Free
<1> DEFINE rows == [template EXCEPT ![v] = NoRow]
           retired == {w \in TemplateVersion :
                          /\ rows[w].status = "DEPRECATED"
                          /\ [id |-> rows[w].id, by |-> v] \in displaced}
           job == [Unbusy EXCEPT !.stage = "drop", !.version = v]
<1>2. /\ template' = IF ActiveVersions = {v} /\ retired # {}
                     THEN [rows EXCEPT ![Max(retired)].status = "ACTIVE"] ELSE rows
      /\ revisions' = [revisions EXCEPT ![v] = << >>]
      /\ serving' = [serving EXCEPT ![h] = job]
      /\ UNCHANGED <<workbooks, uploads, definitions, orphaned>>
  BY DEF DeleteTemplate
<1>3. /\ NoRow \in TemplateRow /\ NoRow.id = 0 /\ NoRow.definition = Undefined
      /\ NoRow.status = "none"
  BY DEF NoRow, TemplateRow, TemplateStatus, TemplateApproval, Undefined
<1>4. v \in Nat /\ MaxTemplateVersion \in Nat
  BY TemplatesAssumption DEF TemplateVersion
<1>5. job \in TemplateJob /\ job.stage = "drop" /\ job.version = v
  BY <1>4, UnbusyIsJob DEF TemplateJob
<1>6. /\ rows \in [TemplateVersion -> TemplateRow] /\ rows[v] = NoRow
      /\ \A w \in TemplateVersion \ {v} : rows[w] = template[w]
  BY <1>1, <1>3 DEF TemplatesTypeOK
<1>7. retired # {} => Max(retired) \in retired
  <2>1. retired \in SUBSET (0 .. MaxTemplateVersion)
    BY <1>4 DEF TemplateVersion
  <2> HIDE DEF retired
  <2> QED BY <1>4, <2>1, MaxIsGreatest
<1>8. \A w \in retired : w \in TemplateVersion \ {v} /\ rows[w] # NoRow
  BY <1>3, <1>6
<1> HIDE DEF rows, retired, job
<1>9. /\ SameForms(rows, template') /\ template'[v] = NoRow
      /\ \A w \in TemplateVersion : rows[w] = NoRow => template'[w] = NoRow
  <2>1. CASE template' = rows
    BY <1>6, <2>1 DEF SameForms
  <2>2. CASE retired # {} /\ template' = [rows EXCEPT ![Max(retired)].status = "ACTIVE"]
    <3>1. /\ Max(retired) \in TemplateVersion \ {v} /\ "ACTIVE" \in TemplateStatus
          /\ rows[Max(retired)] # NoRow
      BY <1>7, <1>8, <2>2 DEF TemplateStatus
    <3>2. PICK m \in TemplateVersion \ {v} : /\ template' = [rows EXCEPT ![m].status = "ACTIVE"]
                                              /\ rows[m] # NoRow
      BY <2>2, <3>1
    <3>3. LET to == [rows EXCEPT ![m].status = "ACTIVE"]
          IN  SameForms(rows, to) /\ \A w \in TemplateVersion \ {m} : to[w] = rows[w]
      BY <1>6, <3>1, StatusIsSet
    <3> QED BY <1>6, <3>2, <3>3
  <2> QED BY <1>2, <2>1, <2>2
<1>10. \A w \in TemplateVersion \ {v} : /\ template'[w].id = template[w].id
                                        /\ template'[w].definition = template[w].definition
  BY <1>6, <1>9 DEF SameForms
<1>11. serving' \in [TemplateServer -> TemplateJob] /\ serving'[h] = job
  BY <1>1, <1>2, <1>5, OneJob DEF TemplatesTypeOK
<1>12. TemplatesTypeOK'
  <2>1. revisions' \in [TemplateVersion -> Seq(Nat \ {Undefined})]
    BY <1>1, <1>2 DEF TemplatesTypeOK
  <2> QED BY <1>1, <1>2, <1>9, <1>11, <2>1 DEF TemplatesTypeOK, SameForms
<1>13. \A g \in TemplateServer : JobFresh(g)'
  BY <1>1, <1>5, <1>9, <1>11 DEF JobFresh, Stage, DefineStage
<1>14. ASSUME ~orphaned, NEW w \in TemplateVersion
       PROVE  WorkbookOf(w)'
  <2>1. WorkbookOf(w) /\ ~BeingDropped(w)
    BY <1>1, <1>14, UnbusyIsJob DEF TemplatesInvariant, BeingDropped, Stage
  <2>2. CASE w = v
    <3>1. BeingDropped(w)'
      BY <1>5, <1>11, <2>2 DEF BeingDropped, Stage
    <3> QED BY <1>3, <1>9, <2>2, <3>1 DEF WorkbookOf
  <2>3. CASE w # v
    BY <1>2, <1>10, <2>1, <2>3 DEF WorkbookOf
  <2> QED BY <2>2, <2>3
<1>15. RowsDrawn'
  BY <1>1, <1>6, <1>9, <1>10 DEF TemplatesInvariant, RowsDrawn
<1> QED BY <1>2, <1>12, <1>13, <1>14, <1>15 DEF TemplatesInvariant

LEMMA PutWorkbookKeeps ==
    ASSUME TemplatesInvariant, OneTemplateRequest, NEW h \in TemplateServer, PutWorkbook(h)
    PROVE  TemplatesInvariant'
<1> DEFINE v == serving[h].version
<1>1. /\ TemplatesTypeOK /\ \A g \in TemplateServer : g = h
      /\ v \in TemplateVersion /\ template[v].id = serving[h].id
      /\ template[v].definition = Undefined /\ Stage(h, "put")
  BY DEF TemplatesInvariant, OneTemplateRequest, PutWorkbook, JobFresh
<1>2. serving[h].id \in Nat
  BY <1>1 DEF TemplatesTypeOK, TemplateJob
<1>3. UNCHANGED <<template, revisions, uploads, definitions, orphaned>>
  BY DEF PutWorkbook
<1>4. serving' = [serving EXCEPT ![h] = Unbusy] /\ Unbusy \in TemplateJob
  BY UnbusyIsJob DEF PutWorkbook, Finish
<1>5. serving' \in [TemplateServer -> TemplateJob] /\ serving'[h] = Unbusy
  BY <1>1, <1>4, OneJob DEF TemplatesTypeOK
<1> HIDE DEF v
<1>6. /\ workbooks' \in [TemplateVersion -> Nat]
      /\ \A w \in TemplateVersion \ {v} : workbooks'[w] = workbooks[w]
      /\ workbooks'[v] \in {workbooks[v], template[v].id}
  BY <1>1, <1>2 DEF PutWorkbook, TemplatesTypeOK, v
<1>7. \A g \in TemplateServer : JobFresh(g)'
  BY <1>1, <1>5, UnbusyIsFresh
<1>8. ASSUME ~orphaned, NEW w \in TemplateVersion
      PROVE  WorkbookOf(w)'
  <2>1. WorkbookOf(w) /\ ~BeingDropped(w)
    BY <1>1, <1>8 DEF TemplatesInvariant, BeingDropped, Stage
  <2> QED BY <1>1, <1>3, <1>6, <2>1 DEF WorkbookOf
<1>9. RowsDrawn'
  BY <1>3 DEF TemplatesInvariant, RowsDrawn
<1> QED BY <1>1, <1>3, <1>5, <1>6, <1>7, <1>8, <1>9 DEF TemplatesInvariant, TemplatesTypeOK

LEMMA DropWorkbookKeeps ==
    ASSUME TemplatesInvariant, OneTemplateRequest, NEW h \in TemplateServer, DropWorkbook(h)
    PROVE  TemplatesInvariant'
<1> DEFINE v == serving[h].version
<1>1. /\ TemplatesTypeOK /\ \A g \in TemplateServer : g = h
      /\ v \in TemplateVersion /\ template[v] = NoRow
  BY DEF TemplatesInvariant, OneTemplateRequest, DropWorkbook, JobFresh
<1>2. UNCHANGED <<template, revisions, uploads, definitions>>
  BY DEF DropWorkbook
<1>3. serving' = [serving EXCEPT ![h] = Unbusy] /\ Unbusy \in TemplateJob
  BY UnbusyIsJob DEF DropWorkbook, Finish
<1>4. serving' \in [TemplateServer -> TemplateJob] /\ serving'[h] = Unbusy
  BY <1>1, <1>3, OneJob DEF TemplatesTypeOK
<1>5. \A g \in TemplateServer : JobFresh(g)'
  BY <1>1, <1>4, UnbusyIsFresh
<1> HIDE DEF v
<1>8. RowsDrawn'
  BY <1>2 DEF TemplatesInvariant, RowsDrawn
<1>6. CASE orphaned' = TRUE /\ UNCHANGED workbooks
  <2>1. orphaned' \in BOOLEAN
    BY <1>6
  <2>2. TemplatesTypeOK'
    BY <1>1, <1>2, <1>4, <1>6, <2>1 DEF TemplatesTypeOK
  <2> QED BY <1>5, <1>6, <1>8, <2>2 DEF TemplatesInvariant
<1>7. CASE workbooks' = [workbooks EXCEPT ![v] = 0] /\ UNCHANGED orphaned
  <2>1. /\ workbooks' \in [TemplateVersion -> Nat] /\ workbooks'[v] = 0
        /\ \A w \in TemplateVersion \ {v} : workbooks'[w] = workbooks[w]
    BY <1>1, <1>7 DEF TemplatesTypeOK
  <2>2. TemplatesTypeOK'
    BY <1>1, <1>2, <1>4, <1>7, <2>1 DEF TemplatesTypeOK
  <2>3. ASSUME ~orphaned, NEW w \in TemplateVersion
        PROVE  WorkbookOf(w)'
    <3>1. CASE w = v
      BY <1>1, <1>2, <2>1, <3>1 DEF WorkbookOf, NoRow, Undefined
    <3>2. CASE w # v
      <4>1. WorkbookOf(w)
        BY <2>3 DEF TemplatesInvariant
      <4>2. ~BeingDropped(w)
        BY <1>1, <3>2 DEF BeingDropped, v
      <4> QED BY <1>2, <2>1, <3>2, <4>1, <4>2 DEF WorkbookOf
    <3> QED BY <3>1, <3>2
  <2> QED BY <1>5, <1>7, <1>8, <2>2, <2>3 DEF TemplatesInvariant
<1> QED BY <1>6, <1>7 DEF DropWorkbook, v

(* Requests that only read: the job they leave is judged on what is there. *)
LEMMA ReadingKeeps ==
    ASSUME TemplatesInvariant, OneTemplateRequest, NEW h \in TemplateServer,
           NEW job \in TemplateJob, serving' = [serving EXCEPT ![h] = job],
           ~Stage(h, "drop"), definitions' \in Nat,
           UNCHANGED <<template, revisions, workbooks, uploads, orphaned>>,
           job.stage \in {"none", "bind"} \/ JobFresh(h)'
    PROVE  TemplatesInvariant'
<1>1. TemplatesTypeOK /\ \A g \in TemplateServer : g = h
  BY DEF TemplatesInvariant, OneTemplateRequest
<1>2. serving' \in [TemplateServer -> TemplateJob] /\ serving'[h] = job
  BY <1>1, OneJob DEF TemplatesTypeOK
<1>3. TemplatesTypeOK'
  BY <1>1, <1>2 DEF TemplatesTypeOK
<1>4. \A g \in TemplateServer : JobFresh(g)'
  BY <1>1, <1>2 DEF JobFresh, Stage, DefineStage
<1>5. ASSUME ~orphaned, NEW w \in TemplateVersion
      PROVE  WorkbookOf(w)'
  <2>1. WorkbookOf(w) /\ ~BeingDropped(w)
    BY <1>1, <1>5 DEF TemplatesInvariant, BeingDropped
  <2> QED BY <2>1 DEF WorkbookOf
<1>6. RowsDrawn'
  BY DEF TemplatesInvariant, RowsDrawn
<1> QED BY <1>3, <1>4, <1>5, <1>6 DEF TemplatesInvariant

(* A definition is begun on a version whose workbook was read, and that is *)
(* the version's own.                                                      *)
LEMMA BeginDefineKeeps ==
    ASSUME TemplatesInvariant, OneTemplateRequest, NEW h \in TemplateServer,
           NEW v \in TemplateVersion, BeginDefine(h, v)
    PROVE  TemplatesInvariant'
<1>1. TemplatesTypeOK /\ \A g \in TemplateServer : g = h /\ serving[g] = Unbusy
  BY DEF TemplatesInvariant, OneTemplateRequest, BeginDefine, Free
<1>2. PICK d \in {definitions + 1} \cup {revisions[v][i] : i \in DOMAIN revisions[v]} :
         /\ definitions' = Max({d, definitions})
         /\ serving' = [serving EXCEPT ![h] =
                          [Unbusy EXCEPT !.stage = "prior", !.version = v,
                                         !.id = template[v].id, !.candidate = d,
                                         !.approval = template[v].approval]]
  BY DEF BeginDefine
<1>3. /\ WorkbookRead(v)
      /\ UNCHANGED <<template, revisions, displaced, workbooks, bound, uploads, orphaned>>
  BY DEF BeginDefine
<1>4. d \in Nat /\ d # Undefined
  <2>1. revisions[v] \in Seq(Nat \ {Undefined}) /\ definitions \in Nat
    BY <1>1 DEF TemplatesTypeOK
  <2> QED BY <1>2, <2>1 DEF Undefined
<1>5. definitions' \in Nat
  <2>1. definitions \in Nat
    BY <1>1 DEF TemplatesTypeOK
  <2>2. {d, definitions} \in SUBSET (0 .. (d + definitions)) /\ d + definitions \in Nat
    BY <1>4, <2>1
  <2>3. Max({d, definitions}) \in {d, definitions}
    BY <2>2, MaxIsGreatest
  <2> QED BY <1>2, <1>4, <2>1, <2>3
<1> DEFINE job == [Unbusy EXCEPT !.stage = "prior", !.version = v, !.id = template[v].id,
                                 !.candidate = d, !.approval = template[v].approval]
<1>6. template[v] \in TemplateRow /\ v \in Nat
  BY <1>1 DEF TemplatesTypeOK, TemplateVersion
<1>7. /\ job \in TemplateJob /\ job.stage = "prior" /\ job.version = v
      /\ job.id = template[v].id /\ job.candidate = d /\ job.approval = template[v].approval
  BY <1>4, <1>6, UnbusyIsJob DEF TemplateJob, TemplateRow, DefineStage
<1>8. serving' = [serving EXCEPT ![h] = job]
  BY <1>2
<1> HIDE DEF job
<1>9. serving'[h] = job
  BY <1>1, <1>8 DEF TemplatesTypeOK
<1>10. orphaned \/ workbooks[v] = template[v].id
  <2>1. orphaned \/ (WorkbookOf(v) /\ ~BeingDropped(v))
    BY <1>1, UnbusyIsJob DEF TemplatesInvariant, BeingDropped, Stage
  <2> QED BY <1>3, <2>1 DEF WorkbookOf, WorkbookRead
<1>11. JobFresh(h)'
  <2>1. template[v].id # 0
    BY DEF TemplatesInvariant, RowsDrawn, BeginDefine, Uploaded
  <2> QED BY <1>3, <1>4, <1>7, <1>9, <1>10, <2>1 DEF JobFresh, Stage, DefineStage
<1>12. ~Stage(h, "drop")
  BY <1>1, UnbusyIsJob DEF Stage
<1> QED BY <1>3, <1>5, <1>7, <1>8, <1>11, <1>12, ReadingKeeps

LEMMA ReadPriorKeeps ==
    ASSUME TemplatesInvariant, OneTemplateRequest, NEW h \in TemplateServer,
           ReadPrior(h) \/ ReadLast(h)
    PROVE  TemplatesInvariant'
<1> DEFINE j == serving[h]
           v == serving[h].version
<1>1. /\ TemplatesTypeOK /\ j \in TemplateJob /\ j.stage \in {"prior", "last"}
      /\ JobFresh(h)
  BY DEF TemplatesInvariant, TemplatesTypeOK, ReadPrior, ReadLast, Stage
<1>2. v \in TemplateVersion /\ template[v] \in TemplateRow
      /\ revisions[v] \in Seq(Nat \ {Undefined})
  BY <1>1 DEF JobFresh, DefineStage, TemplatesTypeOK
<1>3. \E job \in TemplateJob :
         /\ serving' = [serving EXCEPT ![h] = job]
         /\ job.stage \in DefineStage /\ job.version = v /\ job.id = j.id
         /\ job.approval = j.approval /\ job.candidate = j.candidate
         /\ job.prior = template[v].definition
  <2>1. CASE ReadPrior(h)
    <3>1. PICK prior \in Nat : /\ serving' = [serving EXCEPT ![h].stage = "last",
                                                            ![h].prior = prior]
                               /\ prior = template[v].definition
      <4> DEFINE p == IF template[v].id = j.id THEN template[v].definition ELSE Undefined
      <4>1. p \in Nat
        BY <1>2 DEF TemplateRow, Undefined
      <4>2. serving' = [serving EXCEPT ![h].stage = "last", ![h].prior = p]
        BY <2>1 DEF ReadPrior
      <4>3. p = template[v].definition
        BY <1>1 DEF JobFresh, DefineStage
      <4> QED BY <4>1, <4>2, <4>3
    <3> DEFINE J == [j EXCEPT !.stage = "last", !.prior = prior]
    <3>2. /\ J \in TemplateJob /\ J.stage = "last" /\ J.version = v /\ J.id = j.id
          /\ J.approval = j.approval /\ J.candidate = j.candidate /\ J.prior = prior
      BY <1>1 DEF TemplateJob, DefineStage
    <3>3. serving' = [serving EXCEPT ![h] = J]
      BY <1>1, <3>1 DEF TemplatesTypeOK
    <3>4. "last" \in DefineStage
      BY DEF DefineStage
    <3> HIDE DEF J
    <3> QED BY <3>1, <3>2, <3>3, <3>4
  <2>2. CASE ReadLast(h)
    <3>0. j.prior = template[v].definition
      BY <1>1, <2>2 DEF JobFresh, ReadLast, Stage, DefineStage
    <3>1. PICK last \in Nat : serving' = [serving EXCEPT ![h].stage = "commit",
                                                        ![h].last = last]
      <4>1. Len(revisions[v]) \in Nat
        BY <1>2
      <4>2. serving' = [serving EXCEPT ![h].stage = "commit",
                                       ![h].last = Len(revisions[v])]
        BY <2>2 DEF ReadLast
      <4> QED BY <4>1, <4>2
    <3> DEFINE J == [j EXCEPT !.stage = "commit", !.last = last]
    <3>2. /\ J \in TemplateJob /\ J.stage = "commit" /\ J.version = v /\ J.id = j.id
          /\ J.approval = j.approval /\ J.candidate = j.candidate /\ J.prior = j.prior
      BY <1>1 DEF TemplateJob, DefineStage
    <3>3. serving' = [serving EXCEPT ![h] = J]
      BY <1>1, <3>1 DEF TemplatesTypeOK
    <3>4. "commit" \in DefineStage
      BY DEF DefineStage
    <3> HIDE DEF J
    <3> QED BY <3>0, <3>2, <3>3, <3>4
  <2> QED BY <2>1, <2>2
<1>4. PICK job \in TemplateJob :
         /\ serving' = [serving EXCEPT ![h] = job]
         /\ job.stage \in DefineStage /\ job.version = v /\ job.id = j.id
         /\ job.approval = j.approval /\ job.candidate = j.candidate
         /\ job.prior = template[v].definition
  BY <1>3
<1>5. serving'[h] = job
  BY <1>1, <1>4 DEF TemplatesTypeOK
<1>6. UNCHANGED <<template, revisions, workbooks, uploads, definitions, orphaned>>
  BY DEF ReadPrior, ReadLast
<1>7. JobFresh(h)'
  BY <1>1, <1>4, <1>5, <1>6 DEF JobFresh, Stage, DefineStage
<1>8. ~Stage(h, "drop") /\ definitions' \in Nat
  BY <1>1, <1>6 DEF Stage, TemplatesTypeOK
<1> QED BY <1>4, <1>6, <1>7, <1>8, ReadingKeeps

(* The version defined is the one whose workbook was read.                 *)
LEMMA CommitDefinitionKeeps ==
    ASSUME TemplatesInvariant, OneTemplateRequest, NEW h \in TemplateServer,
           CommitDefinition(h)
    PROVE  TemplatesInvariant'
<1> DEFINE j == serving[h]
           v == serving[h].version
<1>1. /\ TemplatesTypeOK /\ j \in TemplateJob /\ Stage(h, "commit")
      /\ v \in TemplateVersion /\ j.candidate # Undefined /\ template[v].id = j.id
      /\ j.id # 0
      /\ orphaned \/ workbooks[v] = j.id
      /\ \A g \in TemplateServer : g = h
  BY DEF TemplatesInvariant, TemplatesTypeOK, CommitDefinition, JobFresh, Stage, DefineStage,
         OneTemplateRequest
<1>2. serving' = [serving EXCEPT ![h] = Unbusy] /\ Unbusy \in TemplateJob
  BY UnbusyIsJob DEF CommitDefinition, Finish
<1>3. serving' \in [TemplateServer -> TemplateJob] /\ serving'[h] = Unbusy
  BY <1>1, <1>2, OneJob DEF TemplatesTypeOK
<1>4. \A g \in TemplateServer : JobFresh(g)'
  BY <1>1, <1>3, UnbusyIsFresh
<1>5. UNCHANGED <<workbooks, uploads, definitions, orphaned>>
  BY DEF CommitDefinition
<1>6. \A w \in TemplateVersion : orphaned \/ (WorkbookOf(w) /\ ~BeingDropped(w))
  BY <1>1 DEF TemplatesInvariant, BeingDropped, Stage
<1>7. CASE UNCHANGED <<template, revisions>>
  <2>1. TemplatesTypeOK'
    BY <1>1, <1>3, <1>5, <1>7 DEF TemplatesTypeOK
  <2>2. \A w \in TemplateVersion : orphaned' \/ WorkbookOf(w)'
    BY <1>5, <1>6, <1>7 DEF WorkbookOf
  <2>3. RowsDrawn'
    BY <1>7 DEF TemplatesInvariant, RowsDrawn
  <2> QED BY <1>4, <2>1, <2>2, <2>3 DEF TemplatesInvariant
<1>8. CASE /\ revisions' = [revisions EXCEPT ![v] = @ \o Preserved(h)]
           /\ template' = [template EXCEPT ![v].definition = j.candidate,
                             ![v].approval = IF j.approval = "REJECTED"
                                             THEN "PENDING_APPROVAL" ELSE @]
  <2> DEFINE approval == IF j.approval = "REJECTED" THEN "PENDING_APPROVAL"
                         ELSE template[v].approval
             R == [template[v] EXCEPT !.definition = j.candidate, !.approval = approval]
  <2>1. template[v] \in TemplateRow
    BY <1>1 DEF TemplatesTypeOK
  <2>2. approval \in TemplateApproval /\ j.candidate \in Nat
    BY <1>1, <2>1 DEF TemplateRow, TemplateApproval, TemplateJob
  <2>3. template' = [template EXCEPT ![v] = R]
    BY <1>1, <1>8 DEF TemplatesTypeOK
  <2> HIDE DEF approval
  <2>4. R \in TemplateRow /\ R.id = template[v].id
    BY <2>1, <2>2 DEF TemplateRow
  <2> HIDE DEF R
  <2>5. /\ template' \in [TemplateVersion -> TemplateRow] /\ template'[v] = R
        /\ \A w \in TemplateVersion \ {v} : template'[w] = template[w]
    BY <1>1, <2>3, <2>4 DEF TemplatesTypeOK
  <2>6. revisions' \in [TemplateVersion -> Seq(Nat \ {Undefined})]
    <3>1. j.prior \in Nat
      BY <1>1 DEF TemplateJob
    <3>2. Preserved(h) \in Seq(Nat \ {Undefined})
      <4>1. CASE j.prior = Undefined
        BY <4>1 DEF Preserved
      <4>2. CASE j.prior # Undefined
        <5>1. <<j.prior>> \in Seq(Nat \ {Undefined})
          BY <3>1, <4>2
        <5> QED BY <4>2, <5>1 DEF Preserved
      <4> QED BY <4>1, <4>2
    <3>3. revisions[v] \o Preserved(h) \in Seq(Nat \ {Undefined})
      BY <1>1, <3>2 DEF TemplatesTypeOK
    <3> QED BY <1>1, <1>8, <3>3 DEF TemplatesTypeOK
  <2>7. TemplatesTypeOK'
    BY <1>1, <1>3, <1>5, <2>5, <2>6 DEF TemplatesTypeOK
  <2>8. ASSUME ~orphaned, NEW w \in TemplateVersion
        PROVE  WorkbookOf(w)'
    <3>1. CASE w = v
      BY <1>1, <1>5, <2>4, <2>5, <2>8, <3>1 DEF WorkbookOf
    <3>2. CASE w # v
      BY <1>5, <1>6, <2>5, <2>8, <3>2 DEF WorkbookOf
    <3> QED BY <3>1, <3>2
  <2>9. RowsDrawn'
    BY <1>1, <2>4, <2>5 DEF TemplatesInvariant, RowsDrawn
  <2> QED BY <1>4, <1>5, <2>7, <2>8, <2>9 DEF TemplatesInvariant
<1> QED BY <1>7, <1>8 DEF CommitDefinition

LEMMA ReportStepsKeep ==
    ASSUME TemplatesInvariant, OneTemplateRequest, NEW h \in TemplateServer,
           BeginReport(h) \/ CreateReport(h)
    PROVE  TemplatesInvariant'
<1>1. TemplatesTypeOK
  BY DEF TemplatesInvariant
<1>2. /\ UNCHANGED <<template, revisions, workbooks, uploads, definitions, orphaned>>
      /\ definitions' \in Nat
  BY <1>1 DEF BeginReport, CreateReport, TemplatesTypeOK
<1>3. ~Stage(h, "drop")
  BY UnbusyIsJob DEF BeginReport, CreateReport, Stage, Free
<1>4. CASE CreateReport(h)
  BY <1>2, <1>3, <1>4, UnbusyIsJob, ReadingKeeps DEF CreateReport, Finish
<1>5. CASE BeginReport(h)
  <2> DEFINE v == Max(Released)
             job == [Unbusy EXCEPT !.stage = "bind", !.version = v, !.id = template[v].id]
  <2>1. v \in TemplateVersion
    BY <1>5 DEF BeginReport, Usable, Released, ActiveVersions, Uploaded
  <2>2. v \in Nat /\ template[v] \in TemplateRow
    BY <1>1, <2>1 DEF TemplatesTypeOK, TemplateVersion
  <2>3. serving' = [serving EXCEPT ![h] = job]
    BY <1>5 DEF BeginReport
  <2> HIDE DEF v
  <2>4. job \in TemplateJob /\ job.stage = "bind"
    BY <2>2, UnbusyIsJob DEF TemplateJob, TemplateRow
  <2> HIDE DEF job
  <2> QED BY <1>2, <1>3, <2>3, <2>4, ReadingKeeps
<1> QED BY <1>4, <1>5

(* A deletion that a crash ends leaves its object behind, and says so.     *)
LEMMA TemplateRestartKeeps ==
    ASSUME TemplatesInvariant, TemplateRestart
    PROVE  TemplatesInvariant'
<1>1. /\ UNCHANGED <<template, revisions, workbooks, uploads, definitions>>
      /\ serving' = [h \in TemplateServer |-> Unbusy]
      /\ orphaned' = (orphaned \/ \E h \in TemplateServer : Stage(h, "drop"))
  BY DEF TemplateRestart
<1>2. orphaned' \in BOOLEAN
  BY <1>1
<1>3. TemplatesTypeOK'
  BY <1>1, <1>2, UnbusyIsJob DEF TemplatesInvariant, TemplatesTypeOK
<1>4. \A h \in TemplateServer : JobFresh(h)'
  BY <1>1, UnbusyIsFresh
<1>5. ASSUME ~orphaned', NEW w \in TemplateVersion
      PROVE  WorkbookOf(w)'
  <2>1. WorkbookOf(w) /\ ~BeingDropped(w)
    BY <1>1, <1>5 DEF TemplatesInvariant, BeingDropped
  <2> QED BY <1>1, <2>1 DEF WorkbookOf
<1>6. RowsDrawn'
  BY <1>1 DEF TemplatesInvariant, RowsDrawn
<1> QED BY <1>3, <1>4, <1>5, <1>6 DEF TemplatesInvariant

LEMMA TemplateStepKeeps ==
    ASSUME OneTemplateRequest, TemplatesInvariant, [TemplatesNext]_templateVars
    PROVE  TemplatesInvariant'
<1>1. TemplatesTypeOK
  BY DEF TemplatesInvariant
<1>2. CASE UNCHANGED templateVars
  <2>1. TemplatesTypeOK'
    BY <1>1, <1>2 DEF TemplatesTypeOK, templateVars
  <2>2. \A h \in TemplateServer : JobFresh(h)'
    BY <1>2 DEF TemplatesInvariant, JobFresh, Stage, templateVars
  <2>3. orphaned' \/ \A v \in TemplateVersion : WorkbookOf(v)'
    BY <1>2 DEF TemplatesInvariant, WorkbookOf, BeingDropped, Stage, templateVars
  <2>4. RowsDrawn'
    BY <1>2 DEF TemplatesInvariant, RowsDrawn, templateVars
  <2> QED BY <2>1, <2>2, <2>3, <2>4 DEF TemplatesInvariant
<1>3. ASSUME NEW h \in TemplateServer, NEW v \in TemplateVersion, ApproveTemplate(h, v)
      PROVE  TemplatesInvariant'
  <2> DEFINE rows == [template EXCEPT ![v].approval = "APPROVED"]
  <2>0. template[v] # NoRow
    BY <1>3 DEF ApproveTemplate, NoRow
  <2>1. /\ rows \in [TemplateVersion -> TemplateRow]
        /\ \A w \in TemplateVersion : /\ rows[w].id = template[w].id
                                      /\ rows[w].definition = template[w].definition
                                      /\ w # v => rows[w] = template[w]
    <3>1. "APPROVED" \in TemplateApproval
      BY DEF TemplateApproval
    <3>2. template \in [TemplateVersion -> TemplateRow]
      BY <1>1 DEF TemplatesTypeOK
    <3> QED BY <3>1, <3>2, ApprovalIsSet
  <2>2. RetireForRelease(rows, v)
    BY <1>3 DEF ApproveTemplate
  <2> HIDE DEF rows
  <2>3. /\ SameForms(rows, template')
        /\ \A w \in TemplateVersion : rows[w] = NoRow => template'[w] = NoRow
    BY <2>1, <2>2, RetiringKeepsForms
  <2> QED BY <1>3, <2>0, <2>1, <2>3, RestatedRowsKeep DEF ApproveTemplate, SameForms
<1>4. ASSUME NEW h \in TemplateServer, NEW v \in TemplateVersion, RejectTemplate(h, v)
      PROVE  TemplatesInvariant'
  <2> DEFINE rows == [template EXCEPT ![v].approval = "REJECTED"]
  <2>0. template[v] # NoRow
    BY <1>4 DEF RejectTemplate, NoRow
  <2>1. /\ rows \in [TemplateVersion -> TemplateRow]
        /\ \A w \in TemplateVersion : /\ rows[w].id = template[w].id
                                      /\ rows[w].definition = template[w].definition
                                      /\ w # v => rows[w] = template[w]
    <3>1. "REJECTED" \in TemplateApproval
      BY DEF TemplateApproval
    <3>2. template \in [TemplateVersion -> TemplateRow]
      BY <1>1 DEF TemplatesTypeOK
    <3> QED BY <3>1, <3>2, ApprovalIsSet
  <2> QED BY <1>4, <2>0, <2>1, RestatedRowsKeep DEF RejectTemplate
<1>5. ASSUME NEW h \in TemplateServer, NEW v \in TemplateVersion, DeprecateTemplate(h, v)
      PROVE  TemplatesInvariant'
  <2> DEFINE rows == [template EXCEPT ![v].status = "DEPRECATED"]
  <2>1. SameForms(template, rows) /\ \A w \in TemplateVersion \ {v} : rows[w] = template[w]
    <3>1. "DEPRECATED" \in TemplateStatus
      BY DEF TemplateStatus
    <3> QED BY <1>1, <3>1, StatusIsSet DEF TemplatesTypeOK
  <2>2. template[v] # NoRow
    BY <1>5 DEF DeprecateTemplate, ActiveVersions, Uploaded
  <2> QED BY <1>5, <2>1, <2>2, RestatedRowsKeep DEF DeprecateTemplate, SameForms
<1>6. ASSUME NEW h \in TemplateServer, NEW role \in {"ADMIN", "SUPERVISOR"},
             \/ CreateTemplate(h, role)
             \/ \E v \in TemplateVersion : DeleteTemplate(h, v, role)
      PROVE  TemplatesInvariant'
  BY <1>6, CreateTemplateKeeps, DeleteTemplateKeeps
<1>7. ASSUME NEW h \in TemplateServer,
             \/ PutWorkbook(h) \/ DropWorkbook(h)
             \/ ReadPrior(h) \/ ReadLast(h) \/ CommitDefinition(h)
             \/ BeginReport(h) \/ CreateReport(h)
             \/ \E v \in TemplateVersion : BeginDefine(h, v)
      PROVE  TemplatesInvariant'
  BY <1>7, PutWorkbookKeeps, DropWorkbookKeeps, BeginDefineKeeps, ReadPriorKeeps,
     CommitDefinitionKeeps, ReportStepsKeep
<1> QED BY <1>2, <1>3, <1>4, <1>5, <1>6, <1>7, TemplateRestartKeeps DEF TemplatesNext

(* ----------------------- the promises of the API ----------------------- *)

(* Served one at a time, requests never offer a version whose workbook is  *)
(* not in the store (TemplateService.createTemplate, TemplateDefinition-     *)
(* Service.applyDefinition): a definition has read its own workbook.       *)
THEOREM UsableFormsHaveWorkbooks ==
    ASSUME OneTemplateRequest
    PROVE  TemplatesSpec => []UsableWorkbookStored
<1>1. TemplatesInit => TemplatesInvariant
  BY InitTemplates
<1>2. TemplatesInvariant /\ [TemplatesNext]_templateVars => TemplatesInvariant'
  BY TemplateStepKeeps
<1>3. TemplatesInvariant => UsableWorkbookStored
  BY DEF TemplatesInvariant, UsableWorkbookStored, Usable, Released, ActiveVersions,
         Uploaded, WorkbookOf
<1> QED BY <1>1, <1>2, <1>3, PTL DEF TemplatesSpec

(* A version on offer is on offer after a step that left its row alone but *)
(* for what is not asked of it.                                            *)
LEMMA StaysUsable ==
    ASSUME NEW w \in Usable, template'[w].status = "ACTIVE",
           template'[w].approval = "APPROVED", template'[w].definition # Undefined
    PROVE  Usable' # {}
<1>1. w \in TemplateVersion
  BY DEF Usable, Released, ActiveVersions, Uploaded
<1>2. template'[w] # NoRow
  BY DEF NoRow
<1> QED BY <1>1, <1>2 DEF Usable, Released, ActiveVersions, Uploaded

LEMMA SupervisorStepKeepsForm ==
    ASSUME OneTemplateRequest, TemplatesInvariant, NEW h \in TemplateServer,
           \/ CreateTemplate(h, "SUPERVISOR")
           \/ \E v \in TemplateVersion : DeleteTemplate(h, v, "SUPERVISOR")
           \/ CommitDefinition(h),
           Usable # {}
    PROVE  Usable' # {}
<1>1. TemplatesTypeOK
  BY DEF TemplatesInvariant
<1>2. PICK w \in Usable : TRUE
  OBVIOUS
<1>3. /\ w \in TemplateVersion /\ template[w] # NoRow /\ template[w].status = "ACTIVE"
      /\ template[w].approval = "APPROVED" /\ template[w].definition # Undefined
      /\ w \in ActiveVersions
  BY DEF Usable, Released, ActiveVersions, Uploaded
<1>4. CASE CreateTemplate(h, "SUPERVISOR")
  <2> DEFINE v == 1 + Max(Uploaded \cup {0})
             new == [id |-> uploads + 1, status |-> "ACTIVE",
                     approval |-> "PENDING_APPROVAL", definition |-> Undefined]
  <2>1. v \in TemplateVersion /\ template[v] = NoRow
    BY <1>4, NumberIsNew DEF CreateTemplate
  <2>2. template' = [template EXCEPT ![v] = new]
    BY <1>4 DEF CreateTemplate, RetiresAtUpload
  <2> HIDE DEF v, new
  <2>3. template'[w] = template[w]
    BY <1>1, <1>3, <2>1, <2>2 DEF TemplatesTypeOK
  <2> QED BY <1>3, <2>3, StaysUsable
<1>5. ASSUME NEW v \in TemplateVersion, DeleteTemplate(h, v, "SUPERVISOR")
      PROVE  Usable' # {}
  <2>1. template[v].definition = Undefined
    BY <1>5 DEF DeleteTemplate, MayDelete
  <2>2. ActiveVersions # {v} /\ w # v
    BY <1>3, <2>1
  <2>3. template' = [template EXCEPT ![v] = NoRow]
    BY <1>5, <2>2 DEF DeleteTemplate
  <2>4. template'[w] = template[w]
    BY <1>1, <1>3, <2>2, <2>3 DEF TemplatesTypeOK
  <2> QED BY <1>3, <2>4, StaysUsable
<1>6. CASE CommitDefinition(h)
  <2> DEFINE j == serving[h]
             v == serving[h].version
             approval == IF j.approval = "REJECTED" THEN "PENDING_APPROVAL"
                         ELSE template[v].approval
             R == [template[v] EXCEPT !.definition = j.candidate, !.approval = approval]
  <2>1. /\ v \in TemplateVersion /\ j.candidate # Undefined
        /\ template[v].approval = j.approval
    BY <1>6 DEF TemplatesInvariant, JobFresh, CommitDefinition, Stage, DefineStage
  <2>2. \/ template' = template
        \/ template' = [template EXCEPT ![v] = R]
    BY <1>1, <1>6, <2>1 DEF CommitDefinition, TemplatesTypeOK
  <2>3. template[v] \in TemplateRow
    BY <1>1, <2>1 DEF TemplatesTypeOK
  <2>4. /\ R.status = template[v].status /\ R.definition = j.candidate
        /\ template[v].approval = "APPROVED" => R.approval = "APPROVED"
    BY <2>1, <2>3 DEF TemplateRow
  <2> HIDE DEF R
  <2>5. CASE template' = template
    BY <1>3, <2>5, StaysUsable
  <2>6. CASE template' = [template EXCEPT ![v] = R]
    <3>1. template'[w] = IF w = v THEN R ELSE template[w]
      BY <1>1, <1>3, <2>1, <2>6 DEF TemplatesTypeOK
    <3>2. /\ template'[w].status = "ACTIVE" /\ template'[w].approval = "APPROVED"
          /\ template'[w].definition # Undefined
      BY <1>3, <2>1, <2>4, <3>1
    <3> QED BY <3>2, StaysUsable
  <2> QED BY <2>2, <2>5, <2>6
<1> QED BY <1>4, <1>5, <1>6

(* Served one at a time, no upload or deletion of a supervisor and no      *)
(* definition takes the form in use out of service (TemplateService.       *)
(* createTemplate, deleteTemplate, retirePreviousActive).                  *)
THEOREM FormStaysInService ==
    ASSUME OneTemplateRequest
    PROVE  TemplatesSpec => SupervisorKeepsForm
<1>1. TemplatesInit => TemplatesInvariant
  BY InitTemplates
<1>2. TemplatesInvariant /\ [TemplatesNext]_templateVars => TemplatesInvariant'
  BY TemplateStepKeeps
<1> DEFINE Kept == \A h \in TemplateServer :
                      /\ \/ CreateTemplate(h, "SUPERVISOR")
                         \/ \E v \in TemplateVersion : DeleteTemplate(h, v, "SUPERVISOR")
                         \/ CommitDefinition(h)
                      /\ Usable # {}
                      => Usable' # {}
<1>3. TemplatesInvariant => Kept
  BY SupervisorStepKeepsForm
<1> HIDE DEF Kept
<1>4. TemplatesSpec => [][Kept]_templateVars
  BY <1>1, <1>2, <1>3, PTL DEF TemplatesSpec
<1> QED BY <1>4 DEF SupervisorKeepsForm, Kept

(* What a step does to the definition of a version that stays.             *)
LEMMA DefinitionPreserved ==
    ASSUME OneTemplateRequest, TemplatesInvariant, [TemplatesNext]_templateVars,
           NEW v \in Uploaded, template'[v].id = template[v].id,
           template[v].definition # Undefined
    PROVE  \/ template'[v].definition = template[v].definition
           \/ \E i \in DOMAIN revisions'[v] : revisions'[v][i] = template[v].definition
<1>1. /\ TemplatesTypeOK /\ v \in TemplateVersion /\ template[v].id # 0
  BY DEF TemplatesInvariant, Uploaded, RowsDrawn
<1>2. CASE UNCHANGED template
  BY <1>2
<1>3. ASSUME NEW h \in TemplateServer, NEW u \in TemplateVersion,
             ApproveTemplate(h, u) \/ RejectTemplate(h, u) \/ DeprecateTemplate(h, u)
      PROVE  template'[v].definition = template[v].definition
  <2>1. /\ "APPROVED" \in TemplateApproval /\ "REJECTED" \in TemplateApproval
        /\ "DEPRECATED" \in TemplateStatus
        /\ template \in [TemplateVersion -> TemplateRow]
    BY <1>1 DEF TemplateApproval, TemplateStatus, TemplatesTypeOK
  <2>2. CASE ApproveTemplate(h, u)
    <3> DEFINE rows == [template EXCEPT ![u].approval = "APPROVED"]
    <3>1. /\ rows \in [TemplateVersion -> TemplateRow]
          /\ rows[v].definition = template[v].definition
      BY <1>1, <2>1, ApprovalIsSet
    <3>2. RetireForRelease(rows, u)
      BY <2>2 DEF ApproveTemplate
    <3> HIDE DEF rows
    <3>3. SameForms(rows, template')
      BY <3>1, <3>2, RetiringKeepsForms
    <3> QED BY <1>1, <3>1, <3>3 DEF SameForms
  <2>3. CASE RejectTemplate(h, u)
    <3>1. template' = [template EXCEPT ![u].approval = "REJECTED"]
      BY <2>3 DEF RejectTemplate
    <3> QED BY <1>1, <2>1, <3>1, ApprovalIsSet
  <2>4. CASE DeprecateTemplate(h, u)
    <3>1. template' = [template EXCEPT ![u].status = "DEPRECATED"]
      BY <2>4 DEF DeprecateTemplate
    <3>2. SameForms(template, [template EXCEPT ![u].status = "DEPRECATED"])
      BY <2>1, StatusIsSet
    <3> QED BY <1>1, <3>1, <3>2 DEF SameForms
  <2> QED BY <1>3, <2>2, <2>3, <2>4
<1>4. ASSUME NEW h \in TemplateServer, NEW role \in {"ADMIN", "SUPERVISOR"},
             CreateTemplate(h, role)
      PROVE  template'[v].definition = template[v].definition
  <2> DEFINE new == 1 + Max(Uploaded \cup {0})
             added == [id |-> uploads + 1, status |-> "ACTIVE",
                       approval |-> IF role = "ADMIN" THEN "APPROVED" ELSE "PENDING_APPROVAL",
                       definition |-> Undefined]
             rows == [template EXCEPT ![new] = added]
  <2>1. new \in TemplateVersion /\ template[new] = NoRow
    BY <1>4, NumberIsNew DEF CreateTemplate
  <2>2. RetireForRelease(rows, new) \/ template' = rows
    BY <1>4 DEF CreateTemplate
  <2>3. added \in TemplateRow
    BY <1>1 DEF TemplateRow, TemplateStatus, TemplateApproval, TemplatesTypeOK, Undefined
  <2> HIDE DEF new, added
  <2>4. rows \in [TemplateVersion -> TemplateRow] /\ rows[v] = template[v]
    <3>1. v # new
      BY <2>1 DEF Uploaded
    <3> QED BY <1>1, <2>1, <2>3, <3>1 DEF TemplatesTypeOK
  <2> HIDE DEF rows
  <2>5. SameForms(rows, template')
    BY <2>2, <2>4, RetiringKeepsForms DEF SameForms
  <2> QED BY <1>1, <2>4, <2>5 DEF SameForms
<1>5. ASSUME NEW h \in TemplateServer, NEW u \in TemplateVersion,
             NEW role \in {"ADMIN", "SUPERVISOR"}, DeleteTemplate(h, u, role)
      PROVE  template'[v].definition = template[v].definition
  <2> DEFINE rows == [template EXCEPT ![u] = NoRow]
  <2>1. rows \in [TemplateVersion -> TemplateRow]
        /\ rows[u] = NoRow /\ \A w \in TemplateVersion \ {u} : rows[w] = template[w]
    BY <1>1 DEF TemplatesTypeOK, NoRow, TemplateRow, TemplateStatus, TemplateApproval,
                Undefined
  <2>2. template' = rows \/ \E m : template' = [rows EXCEPT ![m].status = "ACTIVE"]
    BY <1>5 DEF DeleteTemplate
  <2> HIDE DEF rows
  <2>3. template'[v].id = rows[v].id /\ template'[v].definition = rows[v].definition
    <3>1. rows[v] \in TemplateRow /\ v \in DOMAIN rows
      BY <1>1, <2>1
    <3>2. CASE template' = rows
      BY <3>2
    <3>3. ASSUME NEW m, template' = [rows EXCEPT ![m].status = "ACTIVE"]
          PROVE  template'[v].id = rows[v].id /\ template'[v].definition = rows[v].definition
      <4>1. CASE m = v
        <5>1. template'[v] = [rows[v] EXCEPT !.status = "ACTIVE"]
          BY <3>1, <3>3, <4>1
        <5> QED BY <3>1, <5>1 DEF TemplateRow
      <4>2. CASE m # v
        BY <3>1, <3>3, <4>2
      <4> QED BY <4>1, <4>2
    <3> QED BY <2>2, <3>2, <3>3
  <2>4. u # v
    BY <1>1, <2>1, <2>3 DEF NoRow
  <2> QED BY <1>1, <2>1, <2>3, <2>4
<1>6. ASSUME NEW h \in TemplateServer, CommitDefinition(h)
      PROVE  \/ template'[v].definition = template[v].definition
             \/ \E i \in DOMAIN revisions'[v] : revisions'[v][i] = template[v].definition
  <2> DEFINE j == serving[h]
             u == serving[h].version
  <2>1. u \in TemplateVersion /\ j.prior = template[u].definition
    BY <1>6 DEF TemplatesInvariant, JobFresh, CommitDefinition, Stage, DefineStage
  <2>2. CASE UNCHANGED template
    BY <2>2
  <2>3. CASE /\ revisions' = [revisions EXCEPT ![u] = @ \o Preserved(h)]
             /\ u = v
    <3>1. Preserved(h) = <<template[v].definition>>
      BY <2>1, <2>3 DEF Preserved
    <3>2. revisions[v] \in Seq(Nat \ {Undefined}) /\ template[v].definition \in Nat \ {Undefined}
      BY <1>1 DEF TemplatesTypeOK, TemplateRow
    <3>3. revisions'[v] = revisions[v] \o <<template[v].definition>>
      BY <1>1, <2>3, <3>1 DEF TemplatesTypeOK
    <3>4. /\ Len(revisions[v]) + 1 \in DOMAIN revisions'[v]
          /\ revisions'[v][Len(revisions[v]) + 1] = template[v].definition
      BY <3>2, <3>3
    <3> QED BY <3>4
  <2>4. CASE u # v
    <3>1. \/ UNCHANGED template
          \/ \E d, a : template' = [template EXCEPT ![u].definition = d, ![u].approval = a]
      BY <1>6 DEF CommitDefinition
    <3>2. template'[v] = template[v]
      BY <1>1, <2>1, <2>4, <3>1 DEF TemplatesTypeOK
    <3> QED BY <3>2
  <2> QED BY <1>6, <2>2, <2>3, <2>4 DEF CommitDefinition
<1> QED BY <1>2, <1>3, <1>4, <1>5, <1>6
        DEF TemplatesNext, templateVars, PutWorkbook, DropWorkbook, BeginDefine, ReadPrior,
            ReadLast, BeginReport, CreateReport, TemplateRestart

(* Served one at a time, no request destroys the definition it replaces    *)
(* (TemplateDefinitionService.applyDefinition).  With two it may: the run  *)
(* concurrent_definitions shows how.                                       *)
THEOREM LoneDefinitionsKeepHistory ==
    ASSUME OneTemplateRequest
    PROVE  TemplatesSpec => DefinitionHistoryKept
<1>1. TemplatesInit => TemplatesInvariant
  BY InitTemplates
<1>2. TemplatesInvariant /\ [TemplatesNext]_templateVars => TemplatesInvariant'
  BY TemplateStepKeeps
<1> DEFINE Kept == \A v \in Uploaded :
                      /\ template'[v].id = template[v].id
                      /\ template[v].definition # Undefined
                      => \/ template'[v].definition = template[v].definition
                         \/ \E i \in DOMAIN revisions'[v] :
                               revisions'[v][i] = template[v].definition
<1>3. TemplatesInvariant /\ [TemplatesNext]_templateVars => Kept
  BY DefinitionPreserved
<1> HIDE DEF Kept
<1>4. TemplatesSpec => [][Kept]_templateVars
  BY <1>1, <1>2, <1>3, PTL DEF TemplatesSpec
<1> QED BY <1>4 DEF DefinitionHistoryKept, Kept

-----------------------------------------------------------------------------
(* What holds of rows between any two controls, excluded rows too.         *)
RowsSound(rows) ==
    /\ rows \in [Row -> DescribeRow]
    /\ \A r \in Row :
          /\ rows[r].header => rows[r].role # Marker /\ ~rows[r].serial
          /\ rows[r].role \in HeaderRole => rows[r].header
          /\ rows[r].type = "signature" =>
                rows[r].header /\ rows[r].role = NoRole /\ rows[r].signer = "CUSTOMER"
    /\ \A r, s \in Row : r # s /\ rows[r].role \in HeaderRole => rows[r].role # rows[s].role

(* The inductive invariant behind SavedFormPassesGate.                     *)
WizardInvariant == RowsSound(row)

LEMMA InvariantIsSoundness == WizardInvariant <=> RowsSound(row)
  BY DEF WizardInvariant, RowsSound

(* The roles are distinct from the two that are not header roles.          *)
LEMMA RolesDiffer ==
    /\ Marker # NoRole /\ Marker \notin HeaderRole /\ NoRole \notin HeaderRole
    /\ Marker \in FieldRole /\ NoRole \in FieldRole /\ HeaderRole \subseteq FieldRole
  BY WizardAssumption DEF Marker, NoRole, FieldRole

(* Replacing one row by a description that is sound on its own, and whose  *)
(* header role, if any, is its own or nobody's, keeps the rows sound.      *)
LEMMA OneRowReplaced ==
    ASSUME NEW rows, RowsSound(rows), NEW r \in Row, NEW d \in DescribeRow,
           d.header => d.role # Marker /\ ~d.serial,
           d.role \in HeaderRole => d.header,
           d.type = "signature" => d.header /\ d.role = NoRole /\ d.signer = "CUSTOMER",
           d.role \in HeaderRole => \A s \in Row \ {r} : rows[s].role # d.role
    PROVE  RowsSound([rows EXCEPT ![r] = d])
  <1> DEFINE to == [rows EXCEPT ![r] = d]
  <1>1. rows \in [Row -> DescribeRow]
    BY DEF RowsSound
  <1>2. to \in [Row -> DescribeRow]
    BY <1>1
  <1>3. to[r] = d /\ \A s \in Row : s # r => to[s] = rows[s]
    BY <1>1
  <1> HIDE DEF to
  <1>4. ASSUME NEW s \in Row
        PROVE  /\ to[s].header => to[s].role # Marker /\ ~to[s].serial
               /\ to[s].role \in HeaderRole => to[s].header
               /\ to[s].type = "signature" =>
                     to[s].header /\ to[s].role = NoRole /\ to[s].signer = "CUSTOMER"
    <2>1. CASE s = r
      BY <2>1, <1>3
    <2>2. CASE s # r
      BY <2>2, <1>3 DEF RowsSound
    <2> QED BY <2>1, <2>2
  <1>5. ASSUME NEW s \in Row, NEW t \in Row, s # t, to[s].role \in HeaderRole
        PROVE  to[s].role # to[t].role
    <2>1. CASE s = r
      BY <2>1, <1>3, <1>5
    <2>2. CASE s # r /\ t = r
      BY <2>2, <1>3, <1>5
    <2>3. CASE s # r /\ t # r
      BY <2>3, <1>3, <1>5 DEF RowsSound
    <2> QED BY <2>1, <2>2, <2>3
  <1> QED BY <1>2, <1>4, <1>5 DEF RowsSound, to

(* The default home of the marker is a serial row, so it stays sound.      *)
LEMMA DefaultMarkerIsSound ==
    ASSUME NEW rows, RowsSound(rows), NEW chosen, NEW to,
           MarkerDefaulted(rows, chosen, to)
    PROVE  RowsSound(to)
  <1>1. CASE to = rows
    BY <1>1
  <1>2. CASE \E first \in SerialsOf(rows) :
               to = [rows EXCEPT ![first] = [@ EXCEPT !.role = Marker, !.type = "plain"]]
    <2>1. PICK first \in SerialsOf(rows) :
               to = [rows EXCEPT ![first] = [@ EXCEPT !.role = Marker, !.type = "plain"]]
      BY <1>2
    <2> DEFINE old == rows[first]
               d == [old EXCEPT !.role = Marker, !.type = "plain"]
    <2>2. first \in Row /\ ~rows[first].header
      BY DEF SerialsOf
    <2>3. old \in DescribeRow
      BY <2>2 DEF RowsSound
    <2>4. ~old.header
      BY <2>2
    <2>5. to = [rows EXCEPT ![first] = d]
      BY <2>1, <2>2 DEF RowsSound
    <2> HIDE DEF old
    <2>6. d \in DescribeRow /\ ~d.header /\ d.role = Marker /\ d.type = "plain"
      BY <2>3, <2>4, RolesDiffer DEF DescribeRow
    <2> HIDE DEF d
    <2>7. RowsSound([rows EXCEPT ![first] = d])
      BY <2>2, <2>6, RolesDiffer, OneRowReplaced
    <2> QED BY <2>5, <2>7
  <1> QED BY <1>1, <1>2 DEF MarkerDefaulted

-----------------------------------------------------------------------------

(* A new page.                                                             *)
LEMMA UndescribedIsSound == RowsSound([r \in Row |-> Undescribed])
  BY RolesDiffer DEF RowsSound, Undescribed, DescribeRow

(* What a stored definition gives to the rows is sound, whatever its field.*)
LEMMA PrefilledIsSound ==
    ASSUME NEW stored \in SharedParts
    PROVE  RowsSound([r \in Row |-> Prefilled(stored, r)])
  <1> DEFINE rows == [r \in Row |-> Prefilled(stored, r)]
  <1>1. PICK S \in SUBSET Row : stored \in [S -> Field]
    BY DEF SharedParts
  <1>2. DOMAIN stored = S /\ \A r \in S : stored[r] \in Field
    BY <1>1
  <1>3. RolesPlaced(stored) /\ RolesUnique(stored) /\ SignaturesPlaced(stored)
    BY DEF SharedParts
  <1>4. ASSUME NEW r \in Row
        PROVE  /\ rows[r] \in DescribeRow
               /\ rows[r].header => rows[r].role # Marker /\ ~rows[r].serial
               /\ rows[r].role \in HeaderRole => rows[r].header
               /\ rows[r].type = "signature" =>
                     rows[r].header /\ rows[r].role = NoRole /\ rows[r].signer = "CUSTOMER"
               /\ rows[r].role # NoRole => r \in S /\ rows[r].role = stored[r].role
    <2>1. CASE r \notin S
      BY <2>1, <1>2, RolesDiffer DEF Prefilled, Undescribed, DescribeRow
    <2>2. CASE r \in S
      <3> DEFINE f == stored[r]
      <3>1. f \in Field
        BY <1>2, <2>2
      <3>2. /\ f.role = Marker => f.scope = "item"
            /\ f.role \in HeaderRole => f.scope = "header"
        BY <1>2, <1>3, <2>2 DEF RolesPlaced
      <3>3. f.type = "signature" =>
               f.scope = "header" /\ f.role = NoRole /\ f.signer = "CUSTOMER"
        BY <1>2, <1>3, <2>2 DEF SignaturesPlaced
      <3>4. rows[r] = [header |-> f.scope = "header", serial |-> f.scope = "item",
                       role |-> f.role, type |-> f.type, signer |-> f.signer]
        BY <1>2, <2>2 DEF Prefilled
      <3> DEFINE d == rows[r]
      <3> HIDE DEF rows
      <3>5. /\ d.header = (f.scope = "header") /\ d.serial = (f.scope = "item")
            /\ d.role = f.role /\ d.type = f.type /\ d.signer = f.signer
        BY <3>4
      <3>6. d \in DescribeRow
        <4> HIDE DEF f
        <4> QED BY <3>1, <3>4 DEF Field, DescribeRow
      <3> HIDE DEF d, f
      <3>7. /\ d.header => d.role # Marker /\ ~d.serial
            /\ d.role \in HeaderRole => d.header
            /\ d.type = "signature" =>
                  d.header /\ d.role = NoRole /\ d.signer = "CUSTOMER"
        BY <3>2, <3>3, <3>5
      <3> QED BY <3>5, <3>6, <3>7, <2>2 DEF d, f
    <2> QED BY <2>1, <2>2
  <1>5. ASSUME NEW r \in Row, NEW s \in Row, r # s, rows[r].role \in HeaderRole
        PROVE  rows[r].role # rows[s].role
    <2>1. r \in S /\ rows[r].role = stored[r].role /\ rows[r].role # NoRole
      BY <1>4, <1>5, RolesDiffer
    <2>2. CASE rows[s].role = NoRole
      BY <2>1, <2>2
    <2>3. CASE rows[s].role # NoRole
      <3>1. s \in S /\ rows[s].role = stored[s].role
        BY <2>3, <1>4
      <3> QED BY <3>1, <2>1, <1>2, <1>3, <1>5 DEF RolesUnique
    <2> QED BY <2>2, <2>3
  <1> QED BY <1>4, <1>5 DEF RowsSound

(* A row that changes hands between the header and the serials.            *)
LEMMA HeaderToggleKeeps ==
    ASSUME WizardInvariant, NEW r \in Row, OnHeaderToggle(r)
    PROVE  WizardInvariant'
  <1> DEFINE old == row[r]
  <1>1. RowsSound(row)
    BY InvariantIsSoundness
  <1>2. old \in DescribeRow
    BY <1>1 DEF RowsSound
  <1>3. row' = [row EXCEPT ![r] = IF old.header THEN Unclaimed(old) ELSE Claimed(old)]
    BY DEF OnHeaderToggle
  <1>4. old.role \in HeaderRole => old.header
    BY <1>1 DEF RowsSound
  <1>5. old.type = "signature" => old.header
    BY <1>1 DEF RowsSound
  <1> HIDE DEF old
  <1>6. CASE old.header
    <2> DEFINE d == Unclaimed(old)
    <2>1. d \in DescribeRow /\ ~d.header /\ d.role \notin HeaderRole /\ d.type = "plain"
      BY <1>2, RolesDiffer DEF Unclaimed, DescribeRow
    <2> HIDE DEF d
    <2>2. RowsSound([row EXCEPT ![r] = d])
      BY <1>1, <2>1, OneRowReplaced
    <2>3. row' = [row EXCEPT ![r] = d]
      BY <1>3, <1>6 DEF d
    <2> QED BY <2>2, <2>3, InvariantIsSoundness DEF WizardInvariant, RowsSound
  <1>7. CASE ~old.header
    <2> DEFINE d == Claimed(old)
    <2>1. /\ d \in DescribeRow /\ d.role # Marker /\ ~d.serial
          /\ d.role \notin HeaderRole /\ d.type = "plain"
      BY <1>2, <1>4, <1>5, <1>7, RolesDiffer DEF Claimed, DescribeRow
    <2> HIDE DEF d
    <2>2. RowsSound([row EXCEPT ![r] = d])
      BY <1>1, <2>1, OneRowReplaced
    <2>3. row' = [row EXCEPT ![r] = d]
      BY <1>3, <1>7 DEF d
    <2> QED BY <2>2, <2>3 DEF WizardInvariant, RowsSound
  <1> QED BY <1>6, <1>7

(* A type chosen for a header row without a role.                          *)
LEMMA TypeChangeKeeps ==
    ASSUME WizardInvariant, NEW r \in Row, NEW type \in {"plain", "signature"},
           OnTypeChange(r, type)
    PROVE  WizardInvariant'
  <1> DEFINE old == row[r]
             d == [old EXCEPT !.type = type,
                      !.signer = IF type = "signature" THEN "CUSTOMER" ELSE "none"]
  <1>1. RowsSound(row)
    BY InvariantIsSoundness
  <1>2. old \in DescribeRow /\ old.header /\ old.role = NoRole /\ ~old.serial
    BY <1>1 DEF RowsSound, OnTypeChange, HeaderRows
  <1>3. row' = [row EXCEPT ![r] = d]
    BY <1>1 DEF OnTypeChange, RowsSound
  <1> HIDE DEF old
  <1>4. /\ d \in DescribeRow /\ d.header /\ d.role = NoRole /\ ~d.serial
        /\ d.type = "signature" => d.signer = "CUSTOMER"
    BY <1>2 DEF DescribeRow
  <1> HIDE DEF d
  <1>5. RowsSound([row EXCEPT ![r] = d])
    BY <1>1, <1>4, RolesDiffer, OneRowReplaced
  <1> QED BY <1>3, <1>5 DEF WizardInvariant, RowsSound

(* A role goes to one row and leaves every other that had it.              *)
LEMMA RoleChangeKeeps ==
    ASSUME WizardInvariant, NEW r \in Row, NEW role \in FieldRole, OnRoleChange(r, role)
    PROVE  WizardInvariant'
  <1> DEFINE to == RoleGiven(r, role)
  <1>1. RowsSound(row)
    BY InvariantIsSoundness
  <1>2. row' = to
    BY DEF OnRoleChange
  <1>3. \/ row[r].header /\ role \in HeaderRole \cup {NoRole}
        \/ ~row[r].header /\ role \in {Marker, NoRole}
    BY DEF OnRoleChange, HeaderRows, SerialRows, SerialsOf, AvailableHeaderRoles
  <1>4. ASSUME NEW s \in Row
        PROVE  /\ to[s] \in DescribeRow
               /\ to[s].header = row[s].header /\ to[s].serial = row[s].serial
               /\ to[s].role = IF s = r THEN role
                               ELSE IF role # NoRole /\ row[s].role = role THEN NoRole
                               ELSE row[s].role
               /\ to[s].type = "signature" =>
                     /\ row[s].type = "signature" /\ to[s].signer = row[s].signer
                     /\ s = r => role = NoRole
    <2> DEFINE old == row[s]
    <2>1. old \in DescribeRow
      BY <1>1 DEF RowsSound
    <2>2. to[s] = IF s = r THEN IF role = NoRole THEN [old EXCEPT !.role = role]
                                ELSE [old EXCEPT !.role = role, !.type = "plain",
                                                 !.signer = "none"]
                  ELSE IF role # NoRole /\ old.role = role THEN [old EXCEPT !.role = NoRole]
                  ELSE old
      BY DEF RoleGiven
    <2> DEFINE d == to[s]
    <2> HIDE DEF old, to
    <2>3. d \in DescribeRow
      BY <2>1, <2>2, RolesDiffer DEF DescribeRow
    <2>4. /\ d.header = old.header /\ d.serial = old.serial
          /\ d.role = IF s = r THEN role
                      ELSE IF role # NoRole /\ old.role = role THEN NoRole ELSE old.role
      BY <2>1, <2>2 DEF DescribeRow
    <2>5. d.type = "signature" => /\ old.type = "signature" /\ d.signer = old.signer
                                  /\ s = r => role = NoRole
      BY <2>1, <2>2 DEF DescribeRow
    <2> QED BY <2>3, <2>4, <2>5 DEF old
  <1>5. to \in [Row -> DescribeRow]
    BY <1>4 DEF RoleGiven
  <1> HIDE DEF to
  <1>6. ASSUME NEW s \in Row
        PROVE  /\ to[s].header => to[s].role # Marker /\ ~to[s].serial
               /\ to[s].role \in HeaderRole => to[s].header
               /\ to[s].type = "signature" =>
                     to[s].header /\ to[s].role = NoRole /\ to[s].signer = "CUSTOMER"
    BY <1>1, <1>3, <1>4, RolesDiffer DEF RowsSound
  <1>7. ASSUME NEW s \in Row, NEW t \in Row, s # t, to[s].role \in HeaderRole
        PROVE  to[s].role # to[t].role
    <2>1. CASE s = r
      BY <2>1, <1>4, <1>7, RolesDiffer
    <2>2. CASE s # r
      <3>1. to[s].role = row[s].role /\ (role # NoRole => row[s].role # role)
        BY <2>2, <1>4, <1>7, RolesDiffer
      <3>2. CASE t = r
        BY <3>1, <3>2, <1>4, <1>7, RolesDiffer
      <3>3. CASE t # r
        BY <3>1, <3>3, <1>1, <1>4, <1>7, RolesDiffer DEF RowsSound
      <3> QED BY <3>2, <3>3
    <2> QED BY <2>1, <2>2
  <1> QED BY <1>2, <1>5, <1>6, <1>7 DEF WizardInvariant, RowsSound

(* Including and excluding serial rows leaves their roles alone.           *)
LEMMA SerialToggleKeeps ==
    ASSUME WizardInvariant, NEW r \in Row, OnSerialToggle(r)
    PROVE  WizardInvariant'
  <1> DEFINE old == row[r]
             d == [old EXCEPT !.serial = ~old.serial]
  <1>1. RowsSound(row)
    BY InvariantIsSoundness
  <1>2. old \in DescribeRow /\ ~old.header
    BY <1>1 DEF RowsSound, OnSerialToggle, SerialCandidates, HeaderRows
  <1>3. row' = [row EXCEPT ![r] = d]
    BY <1>1 DEF OnSerialToggle, RowsSound
  <1>4. old.role \notin HeaderRole /\ old.type # "signature"
    BY <1>1, <1>2 DEF RowsSound
  <1> HIDE DEF old
  <1>5. d \in DescribeRow /\ ~d.header /\ d.role \notin HeaderRole /\ d.type # "signature"
    BY <1>2, <1>4 DEF DescribeRow
  <1> HIDE DEF d
  <1>6. RowsSound([row EXCEPT ![r] = d])
    BY <1>1, <1>5, OneRowReplaced
  <1> QED BY <1>3, <1>6 DEF WizardInvariant, RowsSound

LEMMA SelectAllKeeps ==
    ASSUME WizardInvariant, NEW checked \in BOOLEAN, OnSelectAllSerial(checked)
    PROVE  WizardInvariant'
  <1>1. RowsSound(row)
    BY InvariantIsSoundness
  <1>2. ASSUME NEW s \in Row
        PROVE  /\ row'[s] \in DescribeRow
               /\ row'[s].header = row[s].header /\ row'[s].role = row[s].role
               /\ row'[s].type = row[s].type /\ row'[s].signer = row[s].signer
               /\ row[s].header => row'[s].serial = row[s].serial
    <2> DEFINE old == row[s]
    <2>1. old \in DescribeRow
      BY <1>1 DEF RowsSound
    <2>2. row'[s] = IF old.header THEN old ELSE [old EXCEPT !.serial = checked]
      BY DEF OnSelectAllSerial
    <2> HIDE DEF old
    <2>3. /\ row'[s] \in DescribeRow
          /\ row'[s].header = old.header /\ row'[s].role = old.role
          /\ row'[s].type = old.type /\ row'[s].signer = old.signer
          /\ old.header => row'[s].serial = old.serial
      BY <2>1, <2>2 DEF DescribeRow
    <2> QED BY <2>3 DEF old
  <1>3. row' \in [Row -> DescribeRow]
    BY <1>2 DEF OnSelectAllSerial
  <1> QED BY <1>1, <1>2, <1>3 DEF WizardInvariant, RowsSound

(* Opening the page, and entering the Serial step.                         *)
LEMMA LoadKeeps ==
    ASSUME LoadForAuthoring
    PROVE  WizardInvariant'
  <1>1. PICK stored \in SharedParts :
          MarkerDefaulted([r \in Row |-> Prefilled(stored, r)], touched', row')
    BY DEF LoadForAuthoring
  <1>2. RowsSound([r \in Row |-> Prefilled(stored, r)])
    BY PrefilledIsSound
  <1>3. RowsSound(row')
    BY <1>1, <1>2, DefaultMarkerIsSound
  <1> QED BY <1>3 DEF WizardInvariant, RowsSound

LEMMA EnterKeeps ==
    ASSUME WizardInvariant, NEW s, Enter(s)
    PROVE  WizardInvariant'
  <1>1. CASE s = "serial"
    <2>1. MarkerDefaulted(row, touched, row')
      BY <1>1 DEF Enter
    <2>2. RowsSound(row')
      BY <2>1, InvariantIsSoundness, DefaultMarkerIsSound
    <2> QED BY <2>2 DEF WizardInvariant, RowsSound
  <1>2. CASE s # "serial"
    BY <1>2 DEF Enter, WizardInvariant, RowsSound
  <1> QED BY <1>1, <1>2

-----------------------------------------------------------------------------

(* The rows stay sound under every control, for any number of tokens and   *)
(* roles: a header role is on one row, a header one; a marker on none of   *)
(* them; a signature on a header row without a role.                       *)
THEOREM RowsStaySound == WizardSpec => []WizardInvariant
  <1>1. WizardInit => WizardInvariant
    BY UndescribedIsSound DEF WizardInit, WizardInvariant, RowsSound
  <1>2. WizardInvariant /\ [WizardNext]_wizardVars => WizardInvariant'
    <2> SUFFICES ASSUME WizardInvariant, [WizardNext]_wizardVars
                 PROVE  WizardInvariant'
      OBVIOUS
    <2>1. CASE OpenWizard
      BY <2>1, UndescribedIsSound DEF OpenWizard, WizardInvariant, RowsSound
    <2>2. CASE LoadForAuthoring
      BY <2>2, LoadKeeps
    <2>3. ASSUME NEW r \in Row, OnHeaderToggle(r)
          PROVE  WizardInvariant'
      BY <2>3, HeaderToggleKeeps
    <2>4. ASSUME NEW r \in Row, OnSerialToggle(r)
          PROVE  WizardInvariant'
      BY <2>4, SerialToggleKeeps
    <2>5. ASSUME NEW r \in Row, NEW type \in {"plain", "signature"}, OnTypeChange(r, type)
          PROVE  WizardInvariant'
      BY <2>5, TypeChangeKeeps
    <2>6. ASSUME NEW r \in Row, NEW role \in FieldRole, OnRoleChange(r, role)
          PROVE  WizardInvariant'
      BY <2>6, RoleChangeKeeps
    <2>7. CASE \E checked \in BOOLEAN : OnSelectAllSerial(checked)
      BY <2>7, SelectAllKeeps
    <2>8. CASE NextStep \/ PrevStep
      BY <2>8, EnterKeeps DEF NextStep, PrevStep
    <2>9. CASE \/ LoadNothingToEdit \/ Leave \/ OnRework \/ Submit \/ SaveAnswered
               \/ \E r \in Row : OnLabel(r)
      BY <2>9 DEF LoadNothingToEdit, Leave, OnRework, Submit, SaveAnswered, OnLabel,
                  WizardInvariant
    <2>10. CASE UNCHANGED wizardVars
      BY <2>10 DEF wizardVars, WizardInvariant, RowsSound
    <2> QED BY <2>1, <2>2, <2>3, <2>4, <2>5, <2>6, <2>7, <2>8, <2>9, <2>10 DEF WizardNext
  <1> QED BY <1>1, <1>2, PTL DEF WizardSpec

(* Sound rows and the button's own conditions make a form the gate takes.  *)
LEMMA SavedFormIsAccepted == WizardInvariant => SavedFormPassesGate
  <1> SUFFICES ASSUME WizardInvariant, CanSave
               PROVE  GateAccepts(BuildDto)
    BY DEF SavedFormPassesGate
  <1> DEFINE f == BuildDto
  <1>1. DOMAIN f = HeaderRows \cup SerialRows /\ DOMAIN f \subseteq Row
    BY DEF BuildDto, HeaderRows, SerialRows, SerialsOf
  <1>2. ASSUME NEW r \in DOMAIN f
        PROVE  /\ r \in Row /\ f[r] = ToField(r)
               /\ f[r].role = row[r].role /\ f[r].type = row[r].type
               /\ f[r].scope = "header" <=> r \in HeaderRows
               /\ f[r].scope = "item" <=> r \in SerialRows
    BY <1>1 DEF BuildDto, ToField, HeaderRows, SerialRows, SerialsOf
  <1> HIDE DEF f
  <1>3. RolesPlaced(f)
    BY <1>1, <1>2 DEF RolesPlaced, WizardInvariant, RowsSound, HeaderRows
  <1>4. PICK m \in SerialRows : {s \in SerialRows : row[s].role = Marker} = {m}
    BY DEF CanSave, SerialStepValid
  <1>5. RolesUnique(f)
    <2> SUFFICES ASSUME NEW r \in DOMAIN f, NEW s \in DOMAIN f, r # s,
                        f[r].role # NoRole
                 PROVE  f[r].role # f[s].role
      BY DEF RolesUnique
    <2>1. r \in Row /\ s \in Row /\ f[r].role = row[r].role /\ f[s].role = row[s].role
      BY <1>2
    <2>2. CASE row[r].role \in HeaderRole
      BY <2>1, <2>2 DEF WizardInvariant, RowsSound
    <2>3. CASE row[r].role = Marker
      <3> SUFFICES ASSUME row[s].role = Marker
                   PROVE  FALSE
        BY <2>1, <2>3
      <3>1. r \in SerialRows /\ s \in SerialRows
        BY <1>1, <2>1, <2>3 DEF WizardInvariant, RowsSound, HeaderRows
      <3> QED BY <3>1, <2>3, <1>4
    <2> QED
      <3>1. row[r].role \in FieldRole
        BY <2>1 DEF WizardInvariant, RowsSound, DescribeRow
      <3> QED BY <3>1, <2>1, <2>2, <2>3 DEF FieldRole
  <1>6. RolesMandatory(f)
    <2>1. ASSUME NEW role \in HeaderRole
          PROVE  \E r \in DOMAIN f : f[r].role = role
      <3>1. PICK r \in HeaderRows : row[r].role = role
        BY DEF CanSave, MissingRoles
      <3> QED BY <3>1, <1>1, <1>2
    <2>2. \E r \in DOMAIN f : f[r].role = Marker
      <3>1. m \in SerialRows /\ row[m].role = Marker
        BY <1>4
      <3> QED BY <3>1, <1>1, <1>2
    <2> QED BY <2>1, <2>2 DEF RolesMandatory
  <1>7. SignaturesPlaced(f)
    <2> SUFFICES ASSUME NEW r \in DOMAIN f
                 PROVE  IF f[r].type = "signature"
                        THEN /\ f[r].scope = "header" /\ f[r].role = NoRole
                             /\ f[r].signer = "CUSTOMER"
                        ELSE f[r].signer = "none"
      BY DEF SignaturesPlaced
    <2>1. f[r].signer = IF row[r].header /\ row[r].type = "signature" THEN row[r].signer
                        ELSE "none"
      BY <1>2 DEF ToField
    <2>2. CASE row[r].type = "signature"
      BY <2>1, <2>2, <1>2 DEF WizardInvariant, RowsSound, HeaderRows
    <2>3. CASE row[r].type # "signature"
      BY <2>1, <2>3, <1>2
    <2> QED BY <2>2, <2>3
  <1> QED BY <1>3, <1>5, <1>6, <1>7 DEF GateAccepts, f

(* Whatever the author does, a form the page lets be saved carries every   *)
(* role once and in its place, and its signatures as the gate wants them.  *)
THEOREM SavedFormsPassTheGate == WizardSpec => []SavedFormPassesGate
  BY RowsStaySound, SavedFormIsAccepted, PTL
=============================================================================
