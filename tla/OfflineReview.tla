---------------------------- MODULE OfflineReview ----------------------------
(***************************************************************************)
(* Review in the portal: batches submitted, approved and returned from one *)
(* device, on the server when it answers and on the device when it does    *)
(* not, the queued requests delivered later, and other people reviewing on *)
(* the server meanwhile.  An operation of the screen, a delivery and a     *)
(* pull interleave at the awaits where another can come between.           *)
(* A batch made on the device has a temporary, negative id until the       *)
(* server has made its own.  Requests keep their place in the queue; a     *)
(* user who clears conflicts is in OutboxSync.                             *)
(***************************************************************************)
EXTENDS Integers, Sequences, FiniteSets

CONSTANTS
    Scopes,         \* what is reviewed: a "report"'s serials or a "child" report's
    Serial,
    MaxBatches,     \* bound: batches made on the server, and on the device,
    MaxActs,        \*   operations of the screen,
    MaxLost,        \*   requests or answers lost, disconnections,
    MaxOthers,      \*   steps of other people,
    MaxUpsets       \*   losses and those steps together

Batch == 1 .. MaxBatches
Temp == -MaxBatches .. -1
Reviewing == {"APPROVE", "RETURN"}

VARIABLES
    scope,      \* whose serials the device reviews
    connected,  \* canUseNetwork
    server,     \* the report's version, the serials' status, the batches
    cache,      \* the same in IndexedDB, with the state of each row's sync
    queue,      \* requests in the outbox, in the order of createdAt
    act,        \* the operation of the screen under way
    run,        \* processQueue: what it still has to send, what it sends, whom it skips
    excused,    \* ghost: serials marked after their request was under way
    acts, lost, others

reviewVars == <<scope, connected, server, cache, queue, act, run, excused, acts, lost, others>>
counted == <<acts, lost, others>>
Upsets == lost + others < MaxUpsets

NoBatch == [status |-> "none", version |-> 0, members |-> {}, pending |-> {}, sync |-> "SYNCED"]
Opened(serials) ==
    [status |-> "SUBMITTED", version |-> 1, members |-> serials, pending |-> serials, sync |-> "SYNCED"]
NoAct == [op |-> "none", batch |-> 0, named |-> {}, step |-> "done", rv |-> 0, bv |-> 0, sees |-> {},
          item |-> 0]
Idle == [todo |-> {}, item |-> 0, skip |-> {}, step |-> "idle", answer |-> 0]

OfflineReviewInit ==
    /\ scope \in Scopes
    /\ connected \in BOOLEAN
    /\ server = [version |-> 1, status |-> [s \in Serial |-> "INSPECTED_DRAFT"],
                 batch |-> [b \in Batch |-> NoBatch]]
    /\ cache = [version |-> 1, status |-> server.status,
                sync |-> [s \in Serial |-> "SYNCED"],
                batch |-> [b \in Temp \cup Batch |-> NoBatch]]
    /\ queue = <<>>
    /\ act = NoAct
    /\ run = Idle
    /\ excused = {}
    /\ acts = 0 /\ lost = 0 /\ others = 0

(* ------------------------------ the server ----------------------------- *)

Made == {b \in Batch : server.batch[b].status # "none"}
NextBatch == Cardinality(Made) + 1

(* A fault to refute: a serial may be submitted in any status.             *)
AnySubmittable(serials) == TRUE
Submittable(serials) == \A s \in serials : server.status[s] = "INSPECTED_DRAFT"

(* What the server answers a request r: a status code.                     *)
Answer(r) ==
    IF r.op = "SUBMIT"
    THEN CASE server.version # r.rv -> 409
           [] ~Submittable(r.named) -> 400
           [] OTHER -> 200
    ELSE LET b == server.batch[r.batch] IN
         CASE r.batch \notin Made -> 404
           [] b.status # "SUBMITTED" -> 400
           [] b.version # r.bv \/ server.version # r.rv -> 409
           [] ~(r.named \subseteq b.members) -> 400
           [] OTHER -> 200

Verdict(op) == IF op = "APPROVE" THEN "APPROVED" ELSE "RETURNED"
StatusAfter(op) == CASE op = "SUBMIT" -> "SUBMITTED_FOR_APPROVAL"
                     [] op = "APPROVE" -> "APPROVED"
                     [] op = "RETURN" -> "INSPECTED_DRAFT"

(* The serials of a request that are still submitted; no name means all.   *)
Targets(r, members, status) ==
    {s \in (IF r.named = {} THEN members ELSE r.named) : status[s] = "SUBMITTED_FOR_APPROVAL"}

Marked(status, serials, op) ==
    [s \in Serial |-> IF s \in serials THEN StatusAfter(op) ELSE status[s]]

(* The batch closes when none of its members is left submitted.            *)
Closed(b, op, status) ==
    IF \A s \in b.members : status[s] # "SUBMITTED_FOR_APPROVAL" THEN Verdict(op) ELSE b.status

Accepted(r) ==
    IF r.op = "SUBMIT"
    THEN [version |-> r.rv + 1,
          status |-> Marked(server.status, r.named, "SUBMIT"),
          batch |-> [server.batch EXCEPT ![NextBatch] = Opened(r.named)]]
    ELSE LET b == server.batch[r.batch]
             rows == Targets(r, b.members, server.status)
             status == Marked(server.status, rows, r.op)
         IN [version |-> r.rv + 1,
             status |-> status,
             batch |-> [server.batch EXCEPT
                           ![r.batch].status = Closed(b, r.op, status),
                           ![r.batch].pending = @ \ rows,
                           ![r.batch].version = @ + 1]]

Room(r) == r.op = "SUBMIT" => NextBatch \in Batch

(* Somebody else, who has loaded the page just now, submits or reviews a   *)
(* batch, or writes the report.                                            *)
Loaded(op, b, named) ==
    [op |-> op, batch |-> b, named |-> named, rv |-> server.version,
     bv |-> server.batch[b].version]
ReportWritten == [server EXCEPT !.version = @ + 1]

OthersAct ==
    /\ Upsets /\ others < MaxOthers /\ others' = others + 1
    /\ \/ server' = ReportWritten
       \/ \E op \in {"SUBMIT"} \cup Reviewing, b \in Batch, named \in SUBSET Serial :
             LET r == Loaded(op, b, named)
             IN (op = "SUBMIT" => named # {}) /\ Room(r) /\ Answer(r) = 200 /\ server' = Accepted(r)
    /\ UNCHANGED <<scope, connected, cache, queue, act, run, excused, acts, lost>>

(* ------------------------------- pulling ------------------------------- *)

(* pullBatchesForReport: every batch of the server, whatever is cached.    *)
WithBatches(c) ==
    [c EXCEPT !.batch = [b \in DOMAIN c.batch |-> IF b \in Made THEN server.batch[b] ELSE c.batch[b]]]

(* pullAllAndCache leaves unsynced serials alone; pullSingleFromServer     *)
(* replaces a child report whole.                                          *)
Replaced == {s \in Serial : scope = "child" \/ cache.sync[s] = "SYNCED"}
WithRows(c) ==
    [c EXCEPT !.version = server.version,
              !.status = [s \in Serial |-> IF s \in Replaced THEN server.status[s] ELSE c.status[s]],
              !.sync = [s \in Serial |-> IF s \in Replaced THEN "SYNCED" ELSE c.sync[s]]]

Refresh ==
    /\ connected
    /\ cache' \in {WithBatches(cache), WithRows(cache)}
    /\ UNCHANGED <<scope, connected, server, queue, act, run, excused, counted>>

(* ----------------------- operations of the screen ---------------------- *)

Start(op, b, named, online) ==
    /\ act.op = "none"
    /\ acts < MaxActs /\ acts' = acts + 1
    /\ act' = [NoAct EXCEPT !.op = op, !.batch = b, !.named = named,
                            !.step = IF online THEN "post" ELSE "read",
                            !.rv = cache.version,
                            !.bv = IF b = 0 THEN 0 ELSE cache.batch[b].version]
    /\ UNCHANGED <<scope, connected, server, cache, queue, run, excused, lost, others>>

Submit(named) ==
    /\ named # {}
    /\ \A s \in named : cache.status[s] = "INSPECTED_DRAFT"
    /\ Start("SUBMIT", 0, named, connected)

(* A batch without a number of the server's is reviewed on the device.     *)
Review(op, b, named) ==
    /\ cache.batch[b].status = "SUBMITTED"
    /\ named \subseteq cache.batch[b].members
    /\ Start(op, b, named, connected /\ b \in Batch)

(* Whatever goes wrong, the operation goes on as if offline.               *)
Post ==
    /\ act.step = "post" /\ Room(act)
    /\ IF Answer(act) = 200
       THEN server' = Accepted(act) /\ act' = [act EXCEPT !.step = "batches"]
       ELSE UNCHANGED server /\ act' = [act EXCEPT !.step = "read"]
    /\ UNCHANGED <<scope, connected, cache, queue, run, excused, counted>>

LosePost ==
    /\ act.step = "post" /\ Room(act)
    /\ Upsets /\ lost < MaxLost /\ lost' = lost + 1
    /\ server' \in {server} \cup (IF Answer(act) = 200 THEN {Accepted(act)} ELSE {})
    /\ act' = [act EXCEPT !.step = "read"]
    /\ UNCHANGED <<scope, connected, cache, queue, run, excused, acts, others>>

(* What follows a success; a pull that fails is only logged.               *)
PullAfter ==
    /\ act.step \in {"batches", "rows"}
    /\ cache' = IF ~connected THEN cache
                ELSE IF act.step = "batches" THEN WithBatches(cache) ELSE WithRows(cache)
    /\ act' = IF act.step = "batches" THEN [act EXCEPT !.step = "rows"] ELSE NoAct
    /\ UNCHANGED <<scope, connected, server, queue, run, excused, counted>>

(* queueApprovalBatchSubmission makes the batch, queueBatchApproval and    *)
(* queueBatchReturn read it, or throw when it is gone.                     *)
NewTemp == CHOOSE t \in Temp : cache.batch[t].status = "none" /\ (\A k \in DOMAIN queue : queue[k].made # t)
ReadForQueue ==
    /\ act.step = "read"
    /\ IF act.op = "SUBMIT"
       THEN /\ \E t \in Temp : \A k \in DOMAIN queue : queue[k].made # t
            /\ cache' = [cache EXCEPT !.batch[NewTemp] =
                            [Opened(act.named) EXCEPT !.sync = "PENDING"]]
            /\ act' = [act EXCEPT !.step = "enqueue", !.batch = NewTemp, !.rv = cache.version,
                                   !.sees = act.named]
       ELSE /\ UNCHANGED cache
            /\ act' = IF cache.batch[act.batch].status = "none" THEN NoAct
                      ELSE [act EXCEPT !.step = "enqueue", !.rv = cache.version,
                                       !.bv = cache.batch[act.batch].version,
                                       !.sees = cache.batch[act.batch].members]
    /\ UNCHANGED <<scope, connected, server, queue, run, excused, counted>>

Request ==
    [op |-> act.op, batch |-> act.batch, named |-> act.named, rv |-> act.rv, bv |-> act.bv,
     status |-> "PENDING",
     made |-> IF act.op = "SUBMIT" THEN act.batch ELSE 0, sees |-> act.sees]

Enqueue ==
    /\ act.step = "enqueue"
    /\ queue' = Append(queue, Request)
    /\ act' = [act EXCEPT !.step = "mark", !.item = Len(queue) + 1]
    /\ excused' = excused \cup (IF cache.batch[act.batch].status = "none" THEN Serial ELSE {})
    /\ UNCHANGED <<scope, connected, server, cache, run, counted>>

(* A child report has one syncState for all its rows.                      *)
Touched(serials) == IF scope = "child" /\ serials # {} THEN Serial ELSE serials

Written(c, serials, op) ==
    [c EXCEPT !.status = Marked(c.status, serials, op),
              !.sync = [s \in Serial |-> IF s \in Touched(serials) THEN "PENDING" ELSE c.sync[s]]]

(* The rows the request is about.  A review that leaves none of its batch  *)
(* submitted writes the batch back as it was read.                         *)
MarkRows ==
    LET members == cache.batch[act.batch].members
        rows == IF act.op = "SUBMIT" THEN act.named ELSE Targets(act, members, cache.status)
        marked == Written(cache, rows, act.op)
        links == cache.batch[act.batch].pending \ rows
    IN
    /\ act.step = "mark"
    /\ cache' = IF act.op = "SUBMIT"
                   \/ \E s \in members : marked.status[s] = "SUBMITTED_FOR_APPROVAL"
                THEN IF act.op = "SUBMIT" THEN marked
                     ELSE [marked EXCEPT !.batch[act.batch].pending = links]
                ELSE [marked EXCEPT !.batch[act.batch] =
                         [@ EXCEPT !.status = Verdict(act.op), !.version = act.bv,
                                   !.members = members, !.pending = links]]
    /\ excused' = excused \cup
         (IF queue[act.item].status # "PENDING" \/ run.item = act.item
          THEN Touched(rows) ELSE {})
    /\ act' = NoAct
    /\ UNCHANGED <<scope, connected, server, queue, run, counted>>

(* ------------------------------ the delivery --------------------------- *)

Waiting(k) == queue[k].status = "PENDING"

StartRun ==
    /\ run.step = "idle" /\ connected
    /\ \E k \in DOMAIN queue : Waiting(k)
    /\ run' = [Idle EXCEPT !.todo = {k \in DOMAIN queue : Waiting(k)},
                           !.skip = {queue[k].batch : k \in {j \in DOMAIN queue :
                                                             queue[j].status = "CONFLICT"}},
                           !.step = "next"]
    /\ UNCHANGED <<scope, connected, server, cache, queue, act, excused, counted>>

Item == queue[run.item]
Ends(k, status) == queue' = [queue EXCEPT ![k].status = status]
Passed == [run EXCEPT !.item = 0, !.step = "next", !.answer = 0]

(* A review whose batch is not cached counts as delivered.                 *)
Vanished(r) == r.op # "SUBMIT" /\ cache.batch[r.batch].status = "none"
Judge ==
    \E k \in run.todo :
        /\ run.step = "next" /\ \A j \in run.todo : k <= j
        /\ \/ /\ queue[k].batch \in run.skip
              /\ Ends(k, "CONFLICT") /\ run' = [run EXCEPT !.todo = @ \ {k}]
           \/ /\ queue[k].batch \notin run.skip /\ Vanished(queue[k])
              /\ Ends(k, "SYNCED") /\ run' = [run EXCEPT !.todo = @ \ {k}]
           \/ /\ queue[k].batch \notin run.skip /\ ~Vanished(queue[k])
              /\ UNCHANGED queue
              /\ run' = [run EXCEPT !.todo = @ \ {k}, !.item = k, !.step = "send"]
        /\ UNCHANGED <<scope, connected, server, cache, act, excused, counted>>

Deliver ==
    /\ run.step = "send" /\ Room(Item)
    /\ Answer(Item) = 200
    /\ server' = Accepted(Item)
    /\ run' = [run EXCEPT !.step = "cache",
                          !.answer = IF Item.op = "SUBMIT" THEN NextBatch ELSE Item.batch]
    /\ UNCHANGED <<scope, connected, cache, queue, act, excused, counted>>

(* The batch is marked by what the server said, if it is cached at all.    *)
Refuse ==
    LET code == Answer(Item)
        sync == IF code = 409 THEN "CONFLICT" ELSE "ERROR"
        isMarked == code # 404 /\ cache.batch[Item.batch].status # "none"
    IN
    /\ run.step = "send"
    /\ code # 200
    /\ cache' = IF isMarked THEN [cache EXCEPT !.batch[Item.batch].sync = sync] ELSE cache
    /\ Ends(run.item, IF code = 409 THEN "CONFLICT" ELSE "FAILED")
    /\ run' = [Passed EXCEPT !.skip = @ \cup {Item.batch}]
    /\ UNCHANGED <<scope, connected, server, act, excused, counted>>

LoseDelivery ==
    /\ run.step = "send" /\ Room(Item)
    /\ Upsets /\ lost < MaxLost /\ lost' = lost + 1
    /\ server' \in {server} \cup (IF Answer(Item) = 200 THEN {Accepted(Item)} ELSE {})
    /\ run' = [Passed EXCEPT !.skip = @ \cup {Item.batch}]
    /\ UNCHANGED <<scope, connected, cache, queue, act, excused, acts, others>>

(* The server's batch takes the place of the temporary one.  The answer to *)
(* a review brings the report's version too.                               *)
CacheAnswer ==
    /\ run.step = "cache"
    /\ cache' = IF Item.op = "SUBMIT"
                THEN [cache EXCEPT !.batch[Item.batch] = NoBatch,
                                   !.batch[run.answer] = Opened(Item.named)]
                ELSE [cache EXCEPT !.batch[Item.batch] = server.batch[Item.batch],
                                   !.version = Item.rv + 1]
    /\ run' = [run EXCEPT !.step = IF Item.op = "SUBMIT" THEN "remap" ELSE "rows"]
    /\ UNCHANGED <<scope, connected, server, queue, act, excused, counted>>

(* Faults to refute: every waiting review goes to the new batch; a         *)
(* delivered submission leaves its rows as they are.                       *)
EveryReview(k) == Waiting(k) /\ queue[k].op \in Reviewing
NoRows(r) == {}

Remapped(k) == Waiting(k) /\ queue[k].batch = Item.batch /\ k # run.item
Redirected(r, b) == [r EXCEPT !.batch = b]
Remap ==
    /\ run.step = "remap"
    /\ queue' = [k \in DOMAIN queue |->
                    IF Remapped(k) THEN Redirected(queue[k], run.answer) ELSE queue[k]]
    /\ run' = [run EXCEPT !.step = "rows"]
    /\ UNCHANGED <<scope, connected, server, cache, act, excused, counted>>

(* The rows that count as synced now: those of the report.  After a review *)
(* a child report is fetched again.                                        *)
SyncedRows(r) == IF scope = "report" THEN (IF r.named = {} THEN r.sees ELSE r.named) ELSE {}
FinishItem ==
    /\ run.step = "rows"
    /\ cache' = IF scope = "child" /\ Item.op # "SUBMIT"
                THEN [cache EXCEPT !.status = server.status, !.sync = [s \in Serial |-> "SYNCED"]]
                ELSE [cache EXCEPT !.sync = [s \in Serial |-> IF s \in SyncedRows(Item) THEN "SYNCED"
                                                              ELSE @[s]]]
    /\ Ends(run.item, "SYNCED")
    /\ run' = Passed
    /\ UNCHANGED <<scope, connected, server, act, excused, counted>>

(* runSyncSequence goes on with a pull.                                    *)
EndRun ==
    /\ run.step = "next" /\ run.todo = {}
    /\ cache' = IF connected /\ scope = "report" THEN WithRows(cache) ELSE cache
    /\ run' = Idle
    /\ UNCHANGED <<scope, connected, server, queue, act, excused, counted>>

Disconnect ==
    /\ connected /\ Upsets /\ lost < MaxLost /\ lost' = lost + 1
    /\ connected' = FALSE
    /\ UNCHANGED <<scope, server, cache, queue, act, run, excused, acts, others>>

Reconnect ==
    /\ ~connected /\ connected' = TRUE
    /\ UNCHANGED <<scope, server, cache, queue, act, run, excused, counted>>

ScreenStep ==
    \/ \E named \in SUBSET Serial : Submit(named)
    \/ \E op \in Reviewing, b \in Temp \cup Batch, named \in SUBSET Serial : Review(op, b, named)
    \/ Post \/ LosePost \/ PullAfter \/ ReadForQueue \/ Enqueue \/ MarkRows

DeliveryStep ==
    \/ StartRun \/ Judge \/ Deliver \/ Refuse \/ LoseDelivery \/ CacheAnswer \/ Remap
    \/ FinishItem \/ EndRun

OfflineReviewNext ==
    ScreenStep \/ DeliveryStep \/ Refresh \/ OthersAct \/ Disconnect \/ Reconnect

OfflineReviewSpec == OfflineReviewInit /\ [][OfflineReviewNext]_reviewVars

(* ----------------------------- properties ------------------------------ *)

(* However an operation was retried - on the device after an answer was    *)
(* lost, or delivered twice - a serial is pending in two batches only when *)
(* a third has reviewed it: a review through an older batch takes the rows *)
(* that a newer one submitted, and leaves them pending there.              *)
ResubmittedAfterReview ==
    \A b, c \in Made :
        b # c => \A s \in server.batch[b].pending \cap server.batch[c].pending :
            \E d \in Made \ {b, c} : s \in server.batch[d].members \ server.batch[d].pending

(* A review that was queued is sent to the batch its reviewer looked at,   *)
(* though that batch has had two ids.                                      *)
VerdictForItsBatch ==
    \A k \in DOMAIN queue :
        queue[k].op \in Reviewing /\ queue[k].batch \in Batch =>
            server.batch[queue[k].batch].members = queue[k].sees

(* A serial of the report that is shown as not yet synced is in a request  *)
(* that is waiting, or was refused and is there to see - unless its        *)
(* request was already under way when the serial was marked, or its batch  *)
(* was gone when the request was queued.                                   *)
Owed(s) == \E k \in DOMAIN queue : s \in queue[k].sees /\ queue[k].status # "SYNCED"
UnsyncedIsOwed ==
    scope = "report" => \A s \in Serial \ excused : cache.sync[s] = "PENDING" => Owed(s)

(* With nobody else writing and nothing lost on the way, what was done     *)
(* offline is delivered: "writes must succeed offline and later reconcile".*)
SoleWriterReconciles ==
    others = 0 /\ lost = 0 => \A k \in DOMAIN queue : queue[k].status \notin {"CONFLICT", "FAILED"}
=============================================================================
