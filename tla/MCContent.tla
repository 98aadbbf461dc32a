------------------------------ MODULE MCContent ------------------------------
(***************************************************************************)
(* One instance for five components that share no state: the signatures of *)
(* a report, the files of customers and reports, the versions of a         *)
(* template, the wizard that defines one, and the session of the portal.   *)
(* The scene, drawn with the first state, says which of them runs; the     *)
(* others rest.                                                            *)
(***************************************************************************)
EXTENDS ReportSignatures, CustomerFiles, Templates, TemplateWizard,
        PortalSession, TLC

VARIABLE scene

contentVars == <<scene, signatureVars, fileVars, templateVars, wizardVars, sessionVars>>

Roles == [u \in User |-> CASE u = "admin" -> "ADMIN"
                           [] u = "inspector" -> "INSPECTOR"
                           [] OTHER -> "CUSTOMER"]

Layouts == {[required |-> {}, slots |-> {}],
            [required |-> SupervisorField, slots |-> {InspectorSlot, SupervisorSlot}]}

ContentSymmetry == Permutations(Server) \cup Permutations(Call) \cup Permutations(Tenant)

(* A component that is not on has one state to rest in.                    *)
NoRequestYet ==
    /\ servers = Server /\ inspector = "inspector"
    /\ layout = [required |-> {}, slots |-> {}]
NoCustomerYet ==
    /\ \A c \in Customer : customer[c].is = "unborn"
    /\ report.owner = NoCustomer

ContentInit ==
    /\ scene \in {"signatures", "files", "templates", "wizard", "session"}
    /\ SignaturesInit /\ CustomerFilesInit /\ TemplatesInit /\ WizardInit
    /\ PortalSessionInit
    /\ scene # "signatures" => NoRequestYet
    /\ scene # "files" => NoCustomerYet

SignaturesRun ==
    /\ scene = "signatures" /\ SignaturesNext
    /\ UNCHANGED <<scene, fileVars, templateVars, wizardVars, sessionVars>>
FilesRun ==
    /\ scene = "files" /\ CustomerFilesNext
    /\ UNCHANGED <<scene, signatureVars, templateVars, wizardVars, sessionVars>>
TemplatesRun ==
    /\ scene = "templates" /\ TemplatesNext
    /\ UNCHANGED <<scene, signatureVars, fileVars, wizardVars, sessionVars>>
WizardRuns ==
    /\ scene = "wizard" /\ WizardNext
    /\ UNCHANGED <<scene, signatureVars, fileVars, templateVars, sessionVars>>
SessionRuns ==
    /\ scene = "session" /\ PortalSessionNext
    /\ UNCHANGED <<scene, signatureVars, fileVars, templateVars, wizardVars>>

ContentNext == SignaturesRun \/ FilesRun \/ TemplatesRun \/ WizardRuns \/ SessionRuns
ContentSpec == ContentInit /\ [][ContentNext]_contentVars
=============================================================================
