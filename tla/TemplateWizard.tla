--------------------------- MODULE TemplateWizard ---------------------------
(***************************************************************************)
(* The Define-Template wizard of the portal: one row per token of the      *)
(* workbook, claimed for the header or for the serials of the form, and    *)
(* the server's gate on the definition it sends.                           *)
(*                                                                         *)
(* Detect, Metadata, Serial and Review are walked in order and back; every *)
(* control edits the rows in place.  A rejected version opens on its own   *)
(* definition and a new upload on that of an earlier version: whatever of  *)
(* it matches tokens of this workbook.  Of the types only `signature` is   *)
(* told apart, and a row's other details count as its label.               *)
(***************************************************************************)
EXTENDS Naturals, FiniteSets

CONSTANTS
    RowCount,    \* the tokens of the workbook, in order
    HeaderRole   \* the system roles of header fields, all mandatory

Marker == "serialNumber"
NoRole == "none"

ASSUME WizardAssumption ==
    /\ RowCount \in Nat
    /\ Marker \notin HeaderRole /\ NoRole \notin HeaderRole

VARIABLES
    row,       \* the describe rows
    labelled,  \* the rows with a label
    touched,   \* markerTouched: the author has chosen the marker
    rework,    \* the rework rule and the token of its trigger field
    step,      \* the step shown
    phase      \* what the page is doing

wizardVars == <<row, labelled, touched, rework, step, phase>>

Row == 1 .. RowCount
FieldRole == HeaderRole \cup {Marker, NoRole}
Step == {"detect", "header", "serial", "review"}

(* A field of a definition, the server's and the one the wizard sends.     *)
Field == [scope : {"header", "item"}, role : FieldRole, type : {"plain", "signature"},
          signer : {"CUSTOMER", "none"}]
DescribeRow == [header : BOOLEAN, serial : BOOLEAN, role : FieldRole,
                type : {"plain", "signature"}, signer : {"CUSTOMER", "none"}]

NoRule == [on |-> FALSE, field |-> 0]
Undescribed == [header |-> FALSE, serial |-> TRUE, role |-> NoRole, type |-> "plain",
                signer |-> "none"]

(* ----------------------------- server gate ----------------------------- *)

RolesPlaced(f) == \A r \in DOMAIN f :
    /\ f[r].role = Marker => f[r].scope = "item"
    /\ f[r].role \in HeaderRole => f[r].scope = "header"

RolesUnique(f) == \A r, s \in DOMAIN f :
    r # s /\ f[r].role # NoRole => f[r].role # f[s].role

RolesMandatory(f) == \A role \in HeaderRole \cup {Marker} :
    \E r \in DOMAIN f : f[r].role = role

SignaturesPlaced(f) == \A r \in DOMAIN f :
    IF f[r].type = "signature"
    THEN f[r].scope = "header" /\ f[r].role = NoRole /\ f[r].signer = "CUSTOMER"
    ELSE f[r].signer = "none"

(* The roles and signatures part of validateDefinition.                    *)
GateAccepts(f) ==
    RolesPlaced(f) /\ RolesUnique(f) /\ RolesMandatory(f) /\ SignaturesPlaced(f)

(* What a stored definition says of the tokens this workbook still has.    *)
SharedParts == {f \in UNION {[S -> Field] : S \in SUBSET Row} :
                  RolesPlaced(f) /\ RolesUnique(f) /\ SignaturesPlaced(f)}

(* ------------------------------- the rows ------------------------------ *)

HeaderRows == {r \in Row : row[r].header}
SerialCandidates == Row \ HeaderRows
SerialsOf(rows) == {r \in Row : ~rows[r].header /\ rows[r].serial}
SerialRows == SerialsOf(row)
TriggerFields == {r \in SerialRows : row[r].role # Marker}

(* ensureSerialMarkerDefault: the first included serial row becomes the    *)
(* marker unless there is one or the author has taken over.                *)
MarkerDefaulted(rows, chosen, to) ==
    LET serials == SerialsOf(rows) IN
    IF chosen \/ serials = {} \/ \E r \in serials : rows[r].role = Marker
    THEN to = rows
    ELSE \E first \in serials :
            /\ \A r \in serials : first <= r
            /\ to = [rows EXCEPT ![first] = [@ EXCEPT !.role = Marker, !.type = "plain"]]

HeaderStepValid == HeaderRows \subseteq labelled
SerialStepValid ==
    /\ SerialRows # {}
    /\ SerialRows \subseteq labelled
    /\ \E r \in SerialRows : {s \in SerialRows : row[s].role = Marker} = {r}
MissingRoles == {role \in HeaderRole : \A r \in HeaderRows : row[r].role # role}
CanSave == HeaderStepValid /\ SerialStepValid /\ MissingRoles = {}

StepValid(s) == CASE s = "detect" -> TRUE
                  [] s = "header" -> HeaderStepValid
                  [] s = "serial" -> SerialStepValid
                  [] s = "review" -> CanSave

ToField(r) ==
    [scope |-> IF row[r].header THEN "header" ELSE "item", role |-> row[r].role,
     type |-> row[r].type,
     signer |-> IF row[r].header /\ row[r].type = "signature" THEN row[r].signer
                ELSE "none"]
BuildDto == [r \in HeaderRows \cup SerialRows |-> ToField(r)]

(* ------------------------------ opening it ----------------------------- *)

WizardInit ==
    /\ row = [r \in Row |-> Undescribed]
    /\ labelled = {} /\ touched = FALSE /\ rework = NoRule
    /\ step = "detect" /\ phase = "closed"

(* The route is activated: a new page.                                     *)
OpenWizard ==
    /\ phase = "closed"
    /\ phase' = "loading"
    /\ row' = [r \in Row |-> Undescribed]
    /\ labelled' = {} /\ touched' = FALSE /\ rework' = NoRule /\ step' = "detect"

(* The requests fail, or the version is defined and not rejected: its      *)
(* recap is all there is.                                                  *)
LoadNothingToEdit ==
    /\ phase = "loading"
    /\ phase' \in {"failed", "recap"}
    /\ UNCHANGED <<row, labelled, touched, rework, step>>

Prefilled(stored, r) ==
    IF r \in DOMAIN stored
    THEN [header |-> stored[r].scope = "header", serial |-> stored[r].scope = "item",
          role |-> stored[r].role, type |-> stored[r].type, signer |-> stored[r].signer]
    ELSE Undescribed

(* `stored` is the definition to start from, empty when there is none; its *)
(* rule is taken to be sound, so that what goes wrong does so in here.     *)
LoadForAuthoring ==
    /\ phase = "loading"
    /\ phase' = "editing"
    /\ \E stored \in SharedParts, trigger \in Row \cup {0} :
          /\ trigger # 0 => /\ trigger \in DOMAIN stored
                            /\ stored[trigger].scope = "item"
                            /\ stored[trigger].role = NoRole
          /\ labelled' = DOMAIN stored
          /\ touched' = \E r \in DOMAIN stored : stored[r].role = Marker
          /\ rework' = IF trigger = 0 THEN NoRule ELSE [on |-> TRUE, field |-> trigger]
          /\ MarkerDefaulted([r \in Row |-> Prefilled(stored, r)], touched', row')
    /\ UNCHANGED step

Leave ==
    /\ phase \notin {"closed", "loading"}
    /\ phase' = "closed"
    /\ UNCHANGED <<row, labelled, touched, rework, step>>

(* ------------------------------- authoring ----------------------------- *)

(* The controls stay enabled while a save is under way.                    *)
AtStep(s) == phase \in {"editing", "saving"} /\ step = s

(* A fault to refute: a marker claimed for the header stays a marker.      *)
ClaimedAsIs(d) == [d EXCEPT !.header = TRUE, !.serial = FALSE]

Claimed(d) == [d EXCEPT !.header = TRUE, !.serial = FALSE,
                        !.role = IF @ = Marker THEN NoRole ELSE @]

(* A fault to refute: a signature released to the serials stays one.       *)
UnclaimedAsIs(d) == [d EXCEPT !.header = FALSE, !.serial = TRUE,
                             !.role = IF @ = Marker THEN @ ELSE NoRole]

Unclaimed(d) == [d EXCEPT !.header = FALSE, !.serial = TRUE,
                         !.role = IF @ = Marker THEN @ ELSE NoRole,
                         !.type = "plain",
                         !.signer = IF d.type = "signature" THEN "none" ELSE @]

OnHeaderToggle(r) ==
    /\ AtStep("header")
    /\ row' = [row EXCEPT ![r] = IF row[r].header THEN Unclaimed(row[r]) ELSE Claimed(row[r])]
    /\ UNCHANGED <<labelled, touched, rework, step, phase>>

OnLabel(r) ==
    /\ \/ AtStep("header") /\ r \in HeaderRows
       \/ AtStep("serial") /\ r \in SerialRows
    /\ labelled' = IF r \in labelled THEN labelled \ {r} ELSE labelled \cup {r}
    /\ UNCHANGED <<row, touched, rework, step, phase>>

(* A roled row's type is not offered.                                      *)
OnTypeChange(r, type) ==
    /\ AtStep("header") /\ r \in HeaderRows
    /\ row[r].role = NoRole
    /\ row' = [row EXCEPT ![r] =
                 [@ EXCEPT !.type = type,
                           !.signer = IF type = "signature" THEN "CUSTOMER" ELSE "none"]]
    /\ UNCHANGED <<labelled, touched, rework, step, phase>>

(* The roles a header row may choose: those no other header row has.       *)
AvailableHeaderRoles(r) ==
    {role \in HeaderRole : \A s \in HeaderRows \ {r} : row[s].role # role}

(* onRoleChange: the role is taken from any other row that carries it.     *)
RoleGiven(r, role) ==
    [s \in Row |->
        IF s = r THEN IF role = NoRole THEN [row[s] EXCEPT !.role = role]
                      ELSE [row[s] EXCEPT !.role = role, !.type = "plain",
                                          !.signer = "none"]
        ELSE IF role # NoRole /\ row[s].role = role THEN [row[s] EXCEPT !.role = NoRole]
        ELSE row[s]]

OnRoleChange(r, role) ==
    /\ \/ AtStep("header") /\ r \in HeaderRows /\ role \in AvailableHeaderRoles(r) \cup {NoRole}
       \/ AtStep("serial") /\ r \in SerialRows /\ role \in {Marker, NoRole}
    /\ role # row[r].role
    /\ touched' = (touched \/ ~row[r].header)
    /\ row' = RoleGiven(r, role)
    /\ UNCHANGED <<labelled, rework, step, phase>>

(* The include box of a serial row; its role stays.                        *)
OnSerialToggle(r) ==
    /\ AtStep("serial") /\ r \in SerialCandidates
    /\ row' = [row EXCEPT ![r].serial = ~@]
    /\ UNCHANGED <<labelled, touched, rework, step, phase>>

OnSelectAllSerial(checked) ==
    /\ AtStep("serial")
    /\ row' = [r \in Row |-> IF row[r].header THEN row[r]
                             ELSE [row[r] EXCEPT !.serial = checked]]
    /\ UNCHANGED <<labelled, touched, rework, step, phase>>

(* The rule's box and its trigger, chosen among the serial fields shown.   *)
OnRework ==
    /\ AtStep("review")
    /\ \/ rework' = [rework EXCEPT !.on = ~@]
       \/ rework.on /\ \E r \in TriggerFields \cup {0} : rework' = [rework EXCEPT !.field = r]
    /\ UNCHANGED <<row, labelled, touched, step, phase>>

(* Landing on Serial, either way, gives the marker a default home.         *)
Enter(s) ==
    /\ step' = s
    /\ IF s = "serial" THEN MarkerDefaulted(row, touched, row') ELSE UNCHANGED row
    /\ UNCHANGED <<labelled, touched, rework, phase>>

NextStep ==
    \/ AtStep("detect") /\ Enter("header")
    \/ AtStep("header") /\ StepValid("header") /\ Enter("serial")
    \/ AtStep("serial") /\ StepValid("serial") /\ Enter("review")

PrevStep ==
    \/ AtStep("header") /\ Enter("detect")
    \/ AtStep("serial") /\ Enter("header")
    \/ AtStep("review") /\ Enter("serial")

(* -------------------------------- saving ------------------------------- *)

Submit ==
    /\ AtStep("review") /\ phase = "editing"
    /\ CanSave
    /\ phase' = "saving"
    /\ UNCHANGED <<row, labelled, touched, rework, step>>

(* The page leaves once the definition is stored and the list is fetched   *)
(* anew; a refusal, a lost answer or a failed fetch keeps it open.         *)
SaveAnswered ==
    /\ phase = "saving"
    /\ phase' \in {"closed", "editing"}
    /\ UNCHANGED <<row, labelled, touched, rework, step>>

WizardNext ==
    \/ OpenWizard \/ LoadNothingToEdit \/ LoadForAuthoring \/ Leave
    \/ \E r \in Row :
          \/ OnHeaderToggle(r) \/ OnLabel(r) \/ OnSerialToggle(r)
          \/ \E type \in {"plain", "signature"} : OnTypeChange(r, type)
          \/ \E role \in FieldRole : OnRoleChange(r, role)
    \/ \E checked \in BOOLEAN : OnSelectAllSerial(checked)
    \/ OnRework \/ NextStep \/ PrevStep
    \/ Submit \/ SaveAnswered

WizardSpec == WizardInit /\ [][WizardNext]_wizardVars

(* ------------------------------ properties ----------------------------- *)

(* The save button is offered only for a form whose roles and signatures   *)
(* the server accepts, in whatever order the fields were claimed, released,*)
(* excluded and prefilled: a refusal of the gate names something else.     *)
SavedFormPassesGate == CanSave => GateAccepts(BuildDto)

(* A rework rule that is sent names one of the serial fields of the form,  *)
(* the only ones the trigger select offers.                                *)
TriggerIsRecorded ==
    [][Submit /\ rework.on /\ rework.field # 0 => rework.field \in TriggerFields]_wizardVars
=============================================================================
