---------------------------- MODULE ReportScreen ----------------------------
(***************************************************************************)
(* The row of an inspection report, or of a child report, on a device: the *)
(* transitions its screen offers, those its user confirms, the saves of    *)
(* its header or notes and its publication, on the server when it answers  *)
(* and on the device when it does not, and the queued requests delivered   *)
(* later.  Uploads and the deletion of the report need the server.         *)
(* A step is what runs between two awaits; several operations read the row *)
(* in one step and write it back in another.  The matrices are the         *)
(* server's (WorkflowPolicy); the screen has a policy of its own.          *)
(* Pulls are atomic here, CachePull has their steps.  A child report whose *)
(* parent is closed offers nothing and is not studied; validation and the  *)
(* approval of every serial only take choices away, and are left out.      *)
(***************************************************************************)
EXTENDS Integers, Sequences, WorkflowPolicy

CONSTANTS
    Starts,         \* the screens studied, each with its host, "report" or
                    \* "child", the role of its user, the status the device
                    \* pulled, and how many operations it has (a bound)
    MaxFaults,      \* bound: requests lost, disconnections,
    MaxOthers       \*   steps of other people

NoStatus == "NONE"
AdminLike == {"ADMIN", "SUPERVISOR"}

VARIABLES
    host, user,     \* the kind of report, and the role
    connected,      \* ConnectivityService.isOnline
    server,         \* status, version, and of the latest ON_HOLD log its
                    \* previousActiveStatus and its fromStatus
    cache,          \* the row in IndexedDB
    holdLog,        \* fromStatus of the latest cached ON_HOLD log
    shown,          \* the row, and previousStatus, when last refreshed
    chosen,         \* selectedTransition, and the status it was offered in
    queue,          \* requests in the outbox, in the order of createdAt
    act,            \* the operation of the screen under way
    run,            \* processQueue and dispatch
    excused,        \* ghost: the row was written back over a newer one
    acts,           \* operations left
    faults, others

screenVars == <<host, user, connected, server, cache, holdLog, shown, chosen, queue, act, run,
                excused, acts, faults, others>>
fixed == <<host, user>>
counted == <<acts, faults, others>>

NoChoice == [to |-> NoStatus, reason |-> FALSE, from |-> NoStatus]
Gone == "GONE"
NoCopy == [status |-> NoStatus, version |-> 0, sync |-> "SYNCED", pendingTo |-> NoStatus]
Doing(op, row, next, todo) ==
    [op |-> op, to |-> NoStatus, reason |-> FALSE, from |-> NoStatus, own |-> FALSE,
     version |-> 0, row |-> row, next |-> next, todo |-> todo]
NoOperation == Doing("none", NoCopy, NoChoice, <<>>)
Ended(status) ==
    [op |-> "none", to |-> NoStatus, reason |-> FALSE, from |-> NoStatus, own |-> FALSE,
     version |-> 0, status |-> status]
Turn(todo, skips, step) == [todo |-> todo, item |-> 0, step |-> step, skips |-> skips, row |-> NoCopy]
NoRun == Turn({}, FALSE, "idle")

Copied(s) == [status |-> s.status, version |-> s.version, sync |-> "SYNCED", pendingTo |-> NoStatus]
View(row, previous) == [row |-> row, previous |-> previous]

ReportScreenInit ==
    /\ \E start \in Starts :
          /\ host = start.host /\ user = start.user /\ acts = start.acts
          /\ server = [status |-> start.status, version |-> 1,
                       heldFrom |-> NoStatus, logFrom |-> NoStatus]
    /\ connected \in BOOLEAN
    /\ cache = Copied(server)
    /\ holdLog = NoStatus
    /\ shown = View(cache, NoStatus)
    /\ chosen = NoChoice
    /\ queue = <<>>
    /\ act = NoOperation
    /\ run = NoRun
    /\ excused = FALSE
    /\ faults = 0 /\ others = 0

(* ----------------------- what the screen offers ------------------------ *)

Choice(to, reason) == [to |-> to, reason |-> reason, from |-> shown.row.status]
Roles(admits, choices) == IF user \in admits THEN choices ELSE {}

(* A fault to refute: a hold is offered without a reason.                  *)
HoldsFreely == {Choice("ON_HOLD", FALSE)}
Hold == {Choice("ON_HOLD", TRUE)}
HoldOrClose == Roles(AdminLike, Hold \cup {Choice("CLOSED", FALSE)})
Forward(admits, to) == Roles(admits \cup AdminLike, {Choice(to, FALSE)}) \cup HoldOrClose

(* The choices of the report's screen.  Validation only takes some away.   *)
ReportChoices(status, previous) ==
    CASE status = "DRAFT" -> Forward({"RECEIVER"}, "RECEIVED")
      [] status = "RECEIVED" -> Forward({"RECEIVER"}, "READY_FOR_CLEANING")
      [] status = "READY_FOR_CLEANING" -> Forward({"RECEIVER"}, "READY_FOR_INSPECTION")
      [] status = "READY_FOR_INSPECTION" -> Forward({"INSPECTOR"}, "IN_INSPECTION")
      [] status = "IN_INSPECTION" -> Roles({"INSPECTOR"}, Hold) \cup HoldOrClose
      [] status = "PENDING_APPROVAL" ->
            Roles(AdminLike, {Choice("APPROVED", FALSE), Choice("IN_INSPECTION", TRUE)})
            \cup HoldOrClose
      [] status = "APPROVED" -> Roles(AdminLike, {Choice("IN_INSPECTION", TRUE)}) \cup HoldOrClose
      [] status = "ON_HOLD" ->
            Roles(AdminLike,
                  {Choice(IF previous = NoStatus THEN "DRAFT" ELSE previous, FALSE),
                   Choice("CLOSED", FALSE)})
      [] status = "CLOSED" ->
            Roles(AdminLike, {Choice("APPROVED", TRUE), Choice("IN_INSPECTION", TRUE)})

ChildChoices(status) ==
    CASE status = "DRAFT" -> Roles({"INSPECTOR"} \cup AdminLike, {Choice("IN_INSPECTION", FALSE)})
      [] status = "IN_INSPECTION" ->
            Roles({"INSPECTOR"} \cup AdminLike, {Choice("PENDING_APPROVAL", FALSE)})
      [] status = "PENDING_APPROVAL" -> Roles(AdminLike, {Choice("APPROVED", FALSE)})
      [] status = "APPROVED" ->
            Roles(AdminLike, {Choice("CLOSED", FALSE), Choice("IN_INSPECTION", TRUE)})
      [] OTHER -> {}

Offered ==
    CASE shown.row.sync = "CONFLICT" \/ shown.row.status = NoStatus -> {}
      [] shown.row.sync # "CONFLICT" /\ host = "report" /\ shown.row.status # NoStatus ->
            ReportChoices(shown.row.status, shown.previous)
      [] OTHER -> ChildChoices(shown.row.status)

(* refreshData: the row and the logs, read and shown.                      *)
Show ==
    /\ shown' = View(cache, IF cache.status = "ON_HOLD" THEN holdLog ELSE NoStatus)
    /\ shown' # shown
    /\ UNCHANGED <<fixed, connected, server, cache, holdLog, chosen, queue, act, run, excused, counted>>

(* A transition is selected, and stays so while the screen refreshes.      *)
Select ==
    /\ \E c \in Offered : chosen' = c
    /\ chosen' # chosen
    /\ UNCHANGED <<fixed, connected, server, cache, holdLog, shown, queue, act, run, excused, counted>>

(* ------------------------------ the server ----------------------------- *)

(* The report's transition without its gate: it is never offered.          *)
MayMove(role, from, to, reason) ==
    /\ IF from = "ON_HOLD" /\ to # "CLOSED"
       THEN role \in AdminLike /\ server.heldFrom # NoStatus /\ to = server.heldFrom
       ELSE to \in InspectionTransitions(role, from)
    /\ ReasonRequiredForInspection(from, to) => reason

MayMoveChild(role, from, to, reason) ==
    to \in ChildTransitions(role, from) /\ (ReasonRequiredForChild(from, to) => reason)

(* A fault to refute: the transition looks at no version.                  *)
AnyVersion(r) == TRUE

(* An upload and the transition of a child report look at no version.      *)
VersionMatches(r) ==
    server.version = r.version \/ r.op = "ATTACH" \/ (host = "child" /\ r.op = "TRANSITION")

Permitted(r) ==
    CASE r.op = "DELETE" -> TRUE
      [] r.op \notin {"DELETE", "TRANSITION"} -> host = "child" \/ server.status \notin LockedReport
      [] r.op = "TRANSITION" /\ host = "report" -> MayMove(user, server.status, r.to, r.reason)
      [] OTHER -> MayMoveChild(user, server.status, r.to, r.reason)

Answered(r) ==
    CASE server.status = Gone -> 404
      [] server.status # Gone /\ ~VersionMatches(r) -> 409
      [] server.status # Gone /\ VersionMatches(r) /\ ~Permitted(r) -> 400
      [] OTHER -> 200

Moved(s, to) ==
    [status |-> to, version |-> s.version,
     heldFrom |-> IF to = "ON_HOLD" THEN s.status ELSE s.heldFrom,
     logFrom |-> IF to = "ON_HOLD" THEN s.status ELSE s.logFrom]
Later(s) == [status |-> s.status, version |-> s.version + 1, heldFrom |-> s.heldFrom, logFrom |-> s.logFrom]
Patched(s) ==
    [status |-> "ON_HOLD", version |-> s.version + 1, heldFrom |-> NoStatus, logFrom |-> s.status]

After(r) ==
    CASE r.op = "ATTACH" -> server
      [] r.op = "DELETE" -> Moved(server, Gone)
      [] r.op = "UPDATE" -> Later(server)
      [] r.op = "UPDATE_STATUS" -> Later(Moved(server, "APPROVED"))
      [] r.op = "TRANSITION" /\ host = "report" -> Later(Moved(server, r.to))
      [] OTHER -> Moved(server, r.to)

(* Other people transition the report, save its header and delete it.  A   *)
(* PATCH may put it on hold with a log that names no previousActiveStatus. *)
OthersAct ==
    /\ others < MaxOthers /\ others' = others + 1
    /\ server.status # Gone
    /\ \/ server' = Later(server)
       \/ host = "report" /\ server' = Moved(server, Gone)
       \/ /\ host = "report" /\ server.status \notin LockedReport \cup {"ON_HOLD"}
          /\ server' = Patched(server)
       \/ \E to \in ReportStatus :
             IF host = "report" THEN /\ MayMove("ADMIN", server.status, to, TRUE)
                                     /\ server' = Later(Moved(server, to))
             ELSE /\ MayMoveChild("ADMIN", server.status, to, TRUE)
                  /\ server' = Moved(server, to)
    /\ UNCHANGED <<fixed, connected, cache, holdLog, shown, chosen, queue, act, run, excused,
                   acts, faults>>

(* A report that carries unsynced work is not replaced, or dropped when    *)
(* the server has it no longer; a child report is, when pulled by itself.  *)
Pulled ==
    CASE host = "report" /\ cache.sync # "SYNCED" -> cache
      [] host = "report" /\ cache.sync = "SYNCED" /\ server.status = Gone -> NoCopy
      [] OTHER -> Copied(server)
Pull ==
    /\ connected
    /\ cache' = Pulled
    /\ cache' # cache
    /\ UNCHANGED <<fixed, connected, server, holdLog, shown, chosen, queue, act, run, excused, counted>>

(* ----------------------- operations of the screen ---------------------- *)

(* What is left to do once the server has answered, and what is done when  *)
(* it cannot: each operation in the order of its awaits.                   *)
Answering(op, next) ==
    CASE host = "child" /\ op = "TRANSITION" -> <<"store", "forget">>
      [] host = "child" /\ op # "TRANSITION" ->
            IF next = NoChoice THEN <<"store">> ELSE <<"store", "transition">>
      [] host = "report" /\ op = "TRANSITION" ->
            <<"store", "see", "write", "getLogs", "putLogs", "forget">>
      [] host = "report" /\ op = "UPDATE" -> <<"store", "see", "write">>
      [] host = "report" /\ op = "UPDATE_STATUS" -> <<"store">>
      [] host = "report" /\ op = "ATTACH" -> <<"see", "write">>
      [] host = "report" /\ op = "DELETE" -> <<"prune">>
Locally(op, next) ==
    CASE host = "child" /\ op = "TRANSITION" -> <<"put", "enqueue", "forget">>
      [] host = "child" /\ op # "TRANSITION" ->
            IF next = NoChoice THEN <<"put", "enqueue">> ELSE <<"put", "enqueue", "transition">>
      [] host = "report" /\ op = "TRANSITION" -> <<"put", "log", "enqueue", "forget">>
      [] host = "report" /\ op = "UPDATE" -> <<"put", "see", "write", "enqueue">>
      [] host = "report" /\ op = "UPDATE_STATUS" -> <<"enqueue", "put">>

(* An operation begins by reading the row.                                 *)
Begun(op, choice, next) ==
    [op |-> op, to |-> choice.to, reason |-> choice.reason, from |-> choice.from,
     own |-> choice.from # cache.status \/ cache.sync # "SYNCED",
     version |-> cache.version, row |-> cache, next |-> next,
     todo |-> CASE op = "OPEN" -> <<"see", "write", "getLogs", "putLogs">>
                [] op # "OPEN" /\ connected -> <<"post">>
                [] OTHER -> Locally(op, next)]
IsCached == cache.status # NoStatus

Start(op, choice, next) ==
    /\ act.todo = <<>> /\ IsCached
    /\ acts > 0 /\ acts' = acts - 1
    /\ act' = Begun(op, choice, next)
    /\ UNCHANGED <<fixed, connected, server, cache, holdLog, shown, chosen, queue, run, excused,
                   faults, others>>

(* ngOnInit refreshes the available transitions and the logs.              *)
Open == host = "report" /\ connected /\ Start("OPEN", NoChoice, NoChoice)

(* What was selected stays so until the transition has succeeded.  Notes   *)
(* that were changed are saved first, and must be saved.                   *)
Confirm == host = "report" /\ chosen # NoChoice /\ Start("TRANSITION", chosen, NoChoice)
ConfirmChild ==
    /\ host = "child" /\ chosen # NoChoice
    /\ Start("TRANSITION", chosen, NoChoice) \/ Start("UPDATE", NoChoice, chosen)
SaveHeader == host = "report" /\ Start("UPDATE", NoChoice, NoChoice)
SaveNotes == host = "child" /\ Start("UPDATE", NoChoice, NoChoice)
Publish ==
    /\ host = "report" /\ user \in AdminLike /\ shown.row.status \notin LockedReport
    /\ Start("UPDATE_STATUS", NoChoice, NoChoice)
Attach == host = "report" /\ connected /\ Start("ATTACH", NoChoice, NoChoice)

(* A report is deleted at the version at which its content was counted for *)
(* the administrator, unless the row that is shown is not synced.          *)
Deletable == connected /\ shown.row.sync = "SYNCED" /\ shown.row.status # NoStatus
BeginDeletion ==
    /\ host = "report" /\ user = "ADMIN" /\ Deletable
    /\ act.todo = <<>>
    /\ acts > 0 /\ acts' = acts - 1
    /\ act' = Doing("DELETE", NoCopy, NoChoice, <<"impact", "post">>)
    /\ UNCHANGED <<fixed, connected, server, cache, holdLog, shown, chosen, queue, run, excused,
                   faults, others>>

Now(step) == act.todo # <<>> /\ Head(act.todo) = step
Rest == Tail(act.todo)
Going(row, version, from, todo) ==
    [op |-> act.op, to |-> act.to, reason |-> act.reason, from |-> from, own |-> act.own,
     version |-> version, row |-> row, next |-> act.next, todo |-> todo]
Goes(todo) == act' = IF todo = <<>> THEN NoOperation ELSE Going(act.row, act.version, act.from, todo)

(* The deletion's content is counted; then it may be called off.           *)
GetImpact ==
    /\ Now("impact")
    /\ \/ /\ connected /\ server.status # Gone
          /\ act' = Going(act.row, server.version, act.from, Rest)
       \/ Goes(<<>>)
    /\ UNCHANGED <<fixed, connected, server, cache, holdLog, shown, chosen, queue, run, excused, counted>>

Post ==
    /\ Now("post")
    /\ IF Answered(act) = 200
       THEN /\ server' = After(act)
            /\ act' = Doing(act.op, Copied(server'), act.next, Answering(act.op, act.next))
       ELSE UNCHANGED server /\ Goes(<<>>)
    /\ UNCHANGED <<fixed, connected, cache, holdLog, shown, chosen, queue, run, excused, counted>>

(* A child report's operation that gets no answer fails, and so do those   *)
(* that need the server; the others of a report go on with the row that    *)
(* was read before the request.                                            *)
Fails == host = "child" \/ act.op \in {"ATTACH", "DELETE"}
LosePost ==
    /\ Now("post")
    /\ faults < MaxFaults /\ faults' = faults + 1
    /\ server' \in {server} \cup (IF Answered(act) = 200 THEN {After(act)} ELSE {})
    /\ Goes(IF Fails THEN <<>> ELSE Locally(act.op, NoChoice))
    /\ connected' = (Fails /\ connected)
    /\ UNCHANGED <<fixed, cache, holdLog, shown, chosen, queue, run, excused, acts, others>>

Store ==
    /\ Now("store")
    /\ cache' = act.row
    /\ Goes(Rest)
    /\ UNCHANGED <<fixed, connected, server, holdLog, shown, chosen, queue, run, excused, counted>>

(* The row as it was read, and what was done to it.  A publication is      *)
(* queued before its row is written, and may be delivered in between.      *)
Changed ==
    [status |-> CASE act.op = "UPDATE_STATUS" -> "APPROVED"
                  [] act.op = "TRANSITION" /\ host = "child" -> act.to
                  [] OTHER -> act.row.status,
     version |-> act.row.version, sync |-> "PENDING",
     pendingTo |-> IF act.op = "TRANSITION" /\ host = "report" THEN act.to ELSE act.row.pendingTo]
Put ==
    /\ Now("put")
    /\ cache' = Changed
    /\ excused' = (excused \/ (act.op = "UPDATE_STATUS" /\ cache # act.row))
    /\ Goes(Rest)
    /\ UNCHANGED <<fixed, connected, server, holdLog, shown, chosen, queue, run, counted>>

(* refreshAvailableTransitions and markActingInspector read the row and    *)
(* write it back; either may find that there is nothing to write.          *)
See ==
    /\ Now("see")
    /\ \/ IsCached /\ act' = Going(cache, act.version, act.from, Rest)
       \/ Goes(Tail(Rest))
    /\ UNCHANGED <<fixed, connected, server, cache, holdLog, shown, chosen, queue, run, excused, counted>>

WriteBack ==
    /\ Now("write")
    /\ cache' = act.row
    /\ excused' = (excused \/ cache # act.row)
    /\ Goes(Rest)
    /\ UNCHANGED <<fixed, connected, server, holdLog, shown, chosen, queue, run, counted>>

(* A log of the device's own stands in for the server's until that comes.  *)
LogLocally ==
    /\ Now("log")
    /\ holdLog' = IF act.to = "ON_HOLD" THEN act.row.status ELSE holdLog
    /\ Goes(Rest)
    /\ UNCHANGED <<fixed, connected, server, cache, shown, chosen, queue, run, excused, counted>>

GetLogs ==
    /\ Now("getLogs")
    /\ IF connected /\ server.status # Gone
       THEN act' = Going(act.row, act.version, server.logFrom, Rest)
       ELSE Goes(Tail(Rest))
    /\ UNCHANGED <<fixed, connected, server, cache, holdLog, shown, chosen, queue, run, excused, counted>>

PutLogs ==
    /\ Now("putLogs")
    /\ holdLog' = act.from
    /\ Goes(Rest)
    /\ UNCHANGED <<fixed, connected, server, cache, shown, chosen, queue, run, excused, counted>>

(* A transition that is confirmed along with changed notes.                *)
Proceed ==
    /\ Now("transition")
    /\ act' = IF IsCached THEN Begun("TRANSITION", act.next, NoChoice) ELSE NoOperation
    /\ UNCHANGED <<fixed, connected, server, cache, holdLog, shown, chosen, queue, run, excused, counted>>

Forget ==
    /\ Now("forget")
    /\ chosen' = NoChoice
    /\ Goes(Rest)
    /\ UNCHANGED <<fixed, connected, server, cache, holdLog, shown, queue, run, excused, counted>>

Prune ==
    /\ Now("prune")
    /\ cache' = IF connected THEN Pulled ELSE cache
    /\ Goes(Rest)
    /\ UNCHANGED <<fixed, connected, server, holdLog, shown, chosen, queue, run, excused, counted>>

Request ==
    [op |-> act.op, to |-> act.to, reason |-> act.reason, from |-> act.from, own |-> act.own,
     version |-> act.version, status |-> "PENDING"]

Enqueue ==
    /\ Now("enqueue")
    /\ queue' = Append(queue, Request)
    /\ Goes(Rest)
    /\ UNCHANGED <<fixed, connected, server, cache, holdLog, shown, chosen, run, excused, counted>>

(* ------------------------------ the delivery --------------------------- *)

Waiting(k) == queue[k].status = "PENDING"

StartRun ==
    /\ run.step = "idle" /\ connected
    /\ \E k \in DOMAIN queue : Waiting(k)
    /\ run' = Turn({k \in DOMAIN queue : Waiting(k)},
                   \E k \in DOMAIN queue : queue[k].status = "CONFLICT", "judge")
    /\ UNCHANGED <<fixed, connected, server, cache, holdLog, shown, chosen, queue, act, excused, counted>>

Item == queue[run.item]
Ends(k, status) == queue' = [queue EXCEPT ![k] = Ended(status)]
Passed(todo, skips) ==
    IF todo = {} THEN NoRun ELSE Turn(todo, skips, "judge")

Takes(k) ==
    run' = [todo |-> run.todo \ {k}, item |-> k, step |-> "send", skips |-> run.skips, row |-> run.row]
Onward(row, step) ==
    run' = [todo |-> run.todo, item |-> run.item, step |-> step, skips |-> run.skips, row |-> row]
Judge ==
    \E k \in run.todo :
        /\ run.step = "judge" /\ \A j \in run.todo : k <= j
        /\ IF run.skips THEN Ends(k, "CONFLICT") /\ run' = Passed(run.todo \ {k}, TRUE)
           ELSE UNCHANGED queue /\ Takes(k)
        /\ UNCHANGED <<fixed, connected, server, cache, holdLog, shown, chosen, act, excused, counted>>

Deliver ==
    /\ run.step = "send"
    /\ Answered(Item) = 200
    /\ server' = After(Item)
    /\ Onward(Copied(server'), "answered")
    /\ UNCHANGED <<fixed, connected, cache, holdLog, shown, chosen, queue, act, excused, counted>>

(* The row, if it is there, is marked by what the server said.             *)
Marked(sync, pendingTo) ==
    [status |-> cache.status, version |-> cache.version, sync |-> sync, pendingTo |-> pendingTo]
Refuse ==
    LET code == Answered(Item) IN
    /\ run.step = "send"
    /\ code # 200
    /\ cache' = CASE ~IsCached \/ code = 404 -> cache
                  [] IsCached /\ code = 409 -> Marked("CONFLICT", cache.pendingTo)
                  [] IsCached /\ code = 400 -> Marked("ERROR", NoStatus)
    /\ Ends(run.item, IF code = 409 THEN "CONFLICT" ELSE "FAILED")
    /\ run' = Passed(run.todo, TRUE)
    /\ UNCHANGED <<fixed, connected, server, holdLog, shown, chosen, act, excused, counted>>

LoseDelivery ==
    /\ run.step = "send"
    /\ faults < MaxFaults /\ faults' = faults + 1
    /\ server' \in {server} \cup (IF Answered(Item) = 200 THEN {After(Item)} ELSE {})
    /\ run' = Passed(run.todo, TRUE)
    /\ UNCHANGED <<fixed, connected, cache, holdLog, shown, chosen, queue, act, excused, acts, others>>

(* After a transition the available ones are fetched for a report.         *)
CacheAnswer ==
    /\ run.step = "answered"
    /\ cache' = run.row
    /\ Onward(run.row, IF host = "report" /\ Item.op = "TRANSITION" THEN "see" ELSE "end")
    /\ UNCHANGED <<fixed, connected, server, holdLog, shown, chosen, queue, act, excused, counted>>

SeeDelivered ==
    /\ run.step = "see"
    /\ Onward(cache, IF connected /\ server.status # Gone /\ IsCached THEN "write" ELSE "end")
    /\ UNCHANGED <<fixed, connected, server, cache, holdLog, shown, chosen, queue, act, excused, counted>>

WriteDelivered ==
    /\ run.step = "write"
    /\ cache' = run.row
    /\ excused' = (excused \/ cache # run.row)
    /\ Onward(run.row, "end")
    /\ UNCHANGED <<fixed, connected, server, holdLog, shown, chosen, queue, act, counted>>

EndItem ==
    /\ run.step = "end"
    /\ Ends(run.item, "SYNCED")
    /\ run' = Passed(run.todo, FALSE)
    /\ UNCHANGED <<fixed, connected, server, cache, holdLog, shown, chosen, act, excused, counted>>

Disconnect ==
    /\ connected
    /\ faults < MaxFaults /\ faults' = faults + 1
    /\ connected' = FALSE
    /\ UNCHANGED <<fixed, server, cache, holdLog, shown, chosen, queue, act, run, excused, acts, others>>

Reconnect ==
    /\ ~connected
    /\ connected' = TRUE
    /\ UNCHANGED <<fixed, server, cache, holdLog, shown, chosen, queue, act, run, excused, counted>>

ScreenStep ==
    \/ Show \/ Select \/ Open \/ Confirm \/ ConfirmChild \/ SaveHeader \/ SaveNotes
    \/ Publish \/ Attach \/ BeginDeletion \/ GetImpact \/ Post \/ LosePost \/ Store \/ Put
    \/ See \/ WriteBack \/ LogLocally \/ GetLogs \/ PutLogs \/ Proceed \/ Forget \/ Prune
    \/ Enqueue

DeliveryStep ==
    \/ StartRun \/ Judge \/ Deliver \/ Refuse \/ LoseDelivery \/ CacheAnswer
    \/ SeeDelivered \/ WriteDelivered \/ EndItem

ReportScreenNext ==
    ScreenStep \/ DeliveryStep \/ OthersAct \/ Pull \/ Disconnect \/ Reconnect

ReportScreenSpec == ReportScreenInit /\ [][ReportScreenNext]_screenVars

(* ----------------------------- properties ------------------------------ *)

(* Whatever the screen offers of a synced row that is the server's, with   *)
(* a reason where the screen asks for one, the server accepts - except the *)
(* release of a hold that was made without a previousActiveStatus, or whose*)
(* log has not been fetched.                                               *)
IsCurrent ==
    /\ shown.row = cache /\ cache.sync = "SYNCED"
    /\ cache.version = server.version /\ cache.status = server.status
Released(c) == c.from = "ON_HOLD" /\ c.to # "CLOSED"
OfferedIsAccepted ==
    IsCurrent =>
        \A c \in Offered :
            \/ Released(c) /\ (server.heldFrom = NoStatus \/ shown.previous # server.logFrom)
            \/ IF host = "report" THEN MayMove(user, server.status, c.to, c.reason)
               ELSE MayMoveChild(user, server.status, c.to, c.reason)

(* A transition is made on the status in which it was offered, however     *)
(* long it was selected, queued or on its way and whatever others did -    *)
(* unless its row had changed, or was not synced, when its user confirmed; *)
(* a child report then is moved on from no status but DRAFT.               *)
Sent == IF Now("post") /\ act' # act THEN act ELSE Item
OnOfferedStatus ==
    server'.status # server.status /\ others' = others /\ Sent.op = "TRANSITION"
        => server.status = Sent.from \/ (Sent.own /\ (host = "report" \/ server.status = "DRAFT"))
TransitionOnOfferedStatus == [][OnOfferedStatus]_screenVars

(* A row that is shown as not yet synced has a request that is waiting or  *)
(* was refused, or an operation under way - unless a step that had read    *)
(* the row wrote it back over what was saved in between.                   *)
ReportRowOwed ==
    cache.sync = "PENDING" /\ ~excused =>
        act.todo # <<>> \/ \E k \in DOMAIN queue : queue[k].status # "SYNCED"
=============================================================================
