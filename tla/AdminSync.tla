------------------------------ MODULE AdminSync ------------------------------
(***************************************************************************)
(* Users and customers as an administrator keeps them in the portal: made, *)
(* edited and deleted on the server when it answers and on the device when *)
(* it does not, with the queued requests delivered, the lists pulled, and  *)
(* the page reloaded at the awaits in between.  There is one user and one  *)
(* customer at most; one that is made on the device has a temporary id     *)
(* until the server has given its own.  An edit stands for the fields it   *)
(* changes.  Requests that meet on the server are in CustomerFiles.        *)
(***************************************************************************)
EXTENDS Integers, Sequences

CONSTANTS
    Keeps,          \* what is kept together, sets of "user" and "customer"
    MaxActs,        \* bound: operations of the screen,
    MaxFaults,      \*   requests lost, disconnections, reloads,
    MaxOthers,      \*   steps of other administrators,
    MaxPulls        \*   pulls of a list

Thing == {"user", "customer"}
Id == {"local", "real"}
Edits == {"UPDATE", "SET_ACTIVE"}

VARIABLES
    kept,           \* what is kept, one of Keeps
    connected,      \* ConnectivityService.isOnline
    server,         \* each thing on the server; stamp counts what others changed
    cache,          \* each thing's rows in IndexedDB, by id
    queue,          \* requests in the outbox, in the order of createdAt
    act,            \* the operation of the screen under way
    run,            \* processQueue: the positions it has yet to send, the one it
                    \* is at, and whom it skips
    pull,           \* pullAllAndCache: the server's answer and the rows seen
    dropped,        \* ghost: things whose deletion went through on the device
    excused,        \* ghost: things whose row may be left behind, see AdminRowOwed
    acts, faults, strangers, pulls

adminVars == <<kept, connected, server, cache, queue, act, run, pull, dropped, excused,
               acts, faults, strangers, pulls>>
ghosts == <<dropped, excused>>
counters == <<acts, faults, strangers, pulls>>

NoRow == [sync |-> "none", version |-> 0, stamp |-> 0]
RowOf(s) == [sync |-> "SYNCED", version |-> s.version, stamp |-> s.stamp]
NoOperation == [op |-> "none", thing |-> "", id |-> "local", row |-> NoRow, ref |-> "none", found |-> NoRow,
                 step |-> "done"]
NoRun == [todo |-> {}, item |-> 0, skip |-> {}, step |-> "idle", answer |-> NoRow]
NoPull == [thing |-> "", step |-> "idle", answer |-> NoRow, seen |-> [i \in Id |-> NoRow]]

AdminSyncInit ==
    /\ kept \in Keeps
    /\ connected \in BOOLEAN
    /\ server \in [Thing -> {[is |-> s, version |-> 1, stamp |-> 0] : s \in {"unborn", "live"}}]
    /\ \A t \in Thing \ kept : server[t].is = "unborn"
    /\ cache = [t \in Thing |-> [i \in Id |->
                   IF i = "real" /\ server[t].is = "live" THEN RowOf(server[t]) ELSE NoRow]]
    /\ queue = <<>>
    /\ act = NoOperation
    /\ run = NoRun
    /\ pull = NoPull
    /\ dropped = {} /\ excused = {}
    /\ acts = 0 /\ faults = 0 /\ strangers = 0 /\ pulls = 0

Row(t, i) == cache[t][i]
Has(t, i) == Row(t, i).sync # "none"
With(t, i, row) == [cache EXCEPT ![t][i] = row]

(* ------------------------------ the server ----------------------------- *)

(* A user or a customer is made once: names and addresses are unique.      *)
Taken(r) == server[r.thing].is = "live"
Known(r) == r.id = "real" /\ server[r.thing].is = "live"

(* Only customers are compared by version.  A user of a customer that the  *)
(* server does not know breaks a foreign key.                              *)
Answered(r) ==
    CASE r.op = "CREATE" /\ Taken(r) -> 409
      [] r.op = "CREATE" /\ ~Taken(r) /\ r.ref = "local" -> 500
      [] r.op # "CREATE" /\ ~Known(r) -> 404
      [] Known(r) /\ r.thing = "customer" /\ r.op \in Edits \cup {"BRAND"}
            /\ server[r.thing].version # r.row.version -> 409
      [] OTHER -> 200

Made(s) == [s EXCEPT !.is = "live"]
Altered(s) == [s EXCEPT !.version = @ + 1]
Removed(s) == [s EXCEPT !.is = "gone"]
Changed(s) == [is |-> s.is, version |-> s.version + 1, stamp |-> s.stamp + 1]

After(r) ==
    [server EXCEPT ![r.thing] =
        CASE r.op = "CREATE" -> Made(@)
          [] r.op = "DELETE" -> Removed(@)
          [] OTHER -> Altered(@)]

(* Bound: what is deleted is not made again.                               *)
MadeOnce(r) == r.op = "CREATE" => server[r.thing].is # "gone"

OthersChange(t) ==
    /\ strangers < MaxOthers /\ strangers' = strangers + 1
    /\ server[t].is = "live"
    /\ server' \in {[server EXCEPT ![t] = Removed(@)], [server EXCEPT ![t] = Changed(@)]}
    /\ UNCHANGED <<kept, connected, cache, queue, act, run, pull, ghosts, acts, faults, pulls>>

(* ------------------------- operations of the screen -------------------- *)

(* A row is picked, then shown in a form while time passes.                *)
Picked(op, t, i, ref) ==
    /\ t \in kept
    /\ act.op = "none" /\ acts < MaxActs /\ acts' = acts + 1
    /\ act' = [op |-> op, thing |-> t, id |-> i, row |-> Row(t, i), ref |-> ref, found |-> NoRow,
               step |-> "form"]
    /\ UNCHANGED <<kept, connected, server, cache, queue, run, pull, ghosts, faults, strangers, pulls>>

(* Bound: a thing is made once.                                            *)
Unmade(t) ==
    server[t].is = "unborn" /\ ~Has(t, "local") /\ \A k \in DOMAIN queue : queue[k].thing # t

(* A user may be of a customer, picked among the rows cached.              *)
PickUser ==
    \/ /\ Unmade("user")
       /\ \E ref \in {"none"} \cup {i \in Id : Has("customer", i)} :
             Picked("CREATE", "user", "local", ref)
    \/ \E op \in Edits \cup {"DELETE"}, i \in Id : Has("user", i) /\ Picked(op, "user", i, "none")

(* A customer in conflict is not edited.                                   *)
PickCustomer ==
    \/ Unmade("customer") /\ Picked("CREATE", "customer", "local", "none")
    \/ \E op \in Edits \cup {"DELETE"}, i \in Id :
          /\ Has("customer", i)
          /\ op \in Edits => Row("customer", i).sync # "CONFLICT"
          /\ Picked(op, "customer", i, "none")

PickBranding == Has("customer", "real") /\ Picked("BRAND", "customer", "real", "none")

(* A user's profile is read again when its form is sent.                   *)
Seen == IF act.thing = "user" /\ act.op = "UPDATE" THEN Row("user", act.id) ELSE act.row

(* What is never asked of the server under a temporary id.                 *)
StaysHere == act.id = "local" /\ (act.thing = "customer" \/ act.op = "DELETE") /\ act.op # "CREATE"

(* A fault to refute: the row goes before its deletion is queued.          *)
DropThenQueue == <<"drop", "enqueue">>
QueueThenDrop == <<"enqueue", "drop">>

Locally ==
    CASE act.op = "DELETE" -> QueueThenDrop[1]
      [] act.thing = "customer" /\ act.op = "SET_ACTIVE" -> "reread"
      [] OTHER -> "put"

(* What is left of a deletion once a step of it is done.                   *)
Deleting(step) == IF QueueThenDrop[1] = step THEN [act EXCEPT !.step = QueueThenDrop[2]] ELSE NoOperation

SendForm ==
    /\ act.step = "form"
    /\ act' = CASE Seen.sync = "none" /\ act.op # "CREATE" -> NoOperation
                [] act.op = "BRAND" \/ (connected /\ ~StaysHere) ->
                      [act EXCEPT !.row = Seen, !.step = "post"]
                [] OTHER -> [act EXCEPT !.row = Seen, !.step = Locally]
    /\ UNCHANGED <<kept, connected, server, cache, queue, run, pull, ghosts, counters>>

CancelForm ==
    /\ act.step = "form"
    /\ act' = NoOperation
    /\ UNCHANGED <<kept, connected, server, cache, queue, run, pull, ghosts, counters>>

(* An answer that is not a success is shown and ends the operation.        *)
PostForm ==
    /\ act.step = "post" /\ MadeOnce(act)
    /\ IF Answered(act) = 200
       THEN server' = After(act) /\ act' = [act EXCEPT !.row = RowOf(After(act)[act.thing]),
                                                       !.step = "store"]
       ELSE UNCHANGED server /\ act' = NoOperation
    /\ UNCHANGED <<kept, connected, cache, queue, run, pull, ghosts, counters>>

LoseForm ==
    /\ act.step = "post" /\ MadeOnce(act)
    /\ faults < MaxFaults /\ faults' = faults + 1
    /\ server' \in {server} \cup (IF Answered(act) = 200 THEN {After(act)} ELSE {})
    /\ act' = IF act.op = "BRAND" THEN NoOperation ELSE [act EXCEPT !.step = Locally]
    /\ connected' = (act.op = "BRAND" /\ connected)
    /\ UNCHANGED <<kept, cache, queue, run, pull, ghosts, acts, strangers, pulls>>

StoreAnswer ==
    /\ act.step = "store"
    /\ cache' = With(act.thing, "real", IF act.op = "DELETE" THEN NoRow ELSE act.row)
    /\ dropped' = dropped \cup (IF act.op = "DELETE" THEN {act.thing} ELSE {})
    /\ act' = NoOperation
    /\ UNCHANGED <<kept, connected, server, queue, run, pull, excused, counters>>

(* setActive of the repository works on the row it finds, if there is one. *)
RereadRow ==
    /\ act.step = "reread"
    /\ act' = [act EXCEPT !.found = Row(act.thing, act.id),
                          !.step = IF Has(act.thing, act.id) THEN "put" ELSE "enqueue"]
    /\ UNCHANGED <<kept, connected, server, cache, queue, run, pull, ghosts, counters>>

NewRow == [sync |-> "PENDING", version |-> 1, stamp |-> 0]
Marked(row, sync) == [row EXCEPT !.sync = sync]
Unsent ==
    CASE act.op = "CREATE" -> NewRow
      [] act.op # "CREATE" /\ act.found.sync # "none" -> Marked(act.found, "PENDING")
      [] OTHER -> Marked(act.row, "PENDING")
PutRow ==
    /\ act.step = "put"
    /\ cache' = With(act.thing, act.id, Unsent)
    /\ act' = [act EXCEPT !.step = "enqueue"]
    /\ excused' = excused \cup (IF run.step = "remap" THEN {act.thing} ELSE {})
    /\ UNCHANGED <<kept, connected, server, queue, run, pull, dropped, counters>>

(* A fault to refute: the request carries the version now cached.          *)
CachedVersion == Row(act.thing, act.id).version
(* The request carries the version of the row that the form was opened on. *)
FormVersion == act.row.version

Carrying(row, version) == [row EXCEPT !.version = version]
Request ==
    [op |-> act.op, thing |-> act.thing, id |-> act.id, ref |-> act.ref,
     row |-> Carrying(act.row, FormVersion), status |-> "PENDING"]

QueueRequest ==
    /\ act.step = "enqueue"
    /\ queue' = Append(queue, Request)
    /\ act' = IF act.op = "DELETE" THEN Deleting("enqueue") ELSE NoOperation
    /\ UNCHANGED <<kept, connected, server, cache, run, pull, ghosts, counters>>

DropRow ==
    /\ act.step = "drop"
    /\ cache' = With(act.thing, act.id, NoRow)
    /\ dropped' = dropped \cup {act.thing}
    /\ act' = Deleting("drop")
    /\ UNCHANGED <<kept, connected, server, queue, run, pull, excused, counters>>

(* ------------------------------ the delivery --------------------------- *)

Waiting(k) == queue[k].status = "PENDING"
Named(r) == <<r.thing, r.id>>
Onward(todo, skip) == [todo |-> todo, item |-> 0, skip |-> skip, step |-> "next", answer |-> NoRow]

StartRun ==
    /\ run.step = "idle" /\ connected
    /\ \E k \in DOMAIN queue : Waiting(k)
    /\ run' = Onward({k \in DOMAIN queue : Waiting(k)},
                   {Named(queue[k]) : k \in {j \in DOMAIN queue : queue[j].status = "CONFLICT"}})
    /\ UNCHANGED <<kept, connected, server, cache, queue, act, pull, ghosts, counters>>

Item == queue[run.item]
Ended(r, status) == [r EXCEPT !.status = status]
Ends(k, status) == queue' = [queue EXCEPT ![k] = Ended(@, status)]
Passed(todo, skip) == IF todo = {} THEN NoRun ELSE Onward(todo, skip)
Skipping == Passed(run.todo, run.skip \cup {Named(Item)})

Judge ==
    \E k \in run.todo :
        LET rest == run.todo \ {k} IN
        /\ run.step = "next" /\ \A j \in run.todo : k <= j
        /\ IF Named(queue[k]) \in run.skip
           THEN Ends(k, "CONFLICT") /\ run' = Passed(rest, run.skip)
           ELSE UNCHANGED queue /\ run' = [run EXCEPT !.todo = rest, !.item = k, !.step = "send"]
        /\ UNCHANGED <<kept, connected, server, cache, act, pull, ghosts, counters>>

Deliver ==
    /\ run.step = "send" /\ MadeOnce(Item)
    /\ Answered(Item) = 200
    /\ server' = After(Item)
    /\ run' = [run EXCEPT !.answer = RowOf(After(Item)[Item.thing]),
                          !.step = IF Item.op = "CREATE" THEN "look" ELSE "cache"]
    /\ UNCHANGED <<kept, connected, cache, queue, act, pull, ghosts, counters>>

(* The row of a customer in conflict is marked, a user's is not.           *)
Refuse ==
    LET code == Answered(Item)
        isMarked == code = 409 /\ Item.thing = "customer" /\ Has("customer", Item.id)
    IN
    /\ run.step = "send" /\ MadeOnce(Item)
    /\ code # 200
    /\ cache' = IF isMarked THEN With("customer", Item.id, Marked(Row("customer", Item.id), "CONFLICT"))
                ELSE cache
    /\ Ends(run.item, CASE code = 409 -> "CONFLICT" [] code = 404 -> "FAILED" [] OTHER -> "PENDING")
    /\ run' = Skipping
    /\ UNCHANGED <<kept, connected, server, act, pull, ghosts, counters>>

LoseDelivery ==
    /\ run.step = "send" /\ MadeOnce(Item)
    /\ faults < MaxFaults /\ faults' = faults + 1
    /\ server' \in {server} \cup (IF Answered(Item) = 200 THEN {After(Item)} ELSE {})
    /\ run' = Skipping
    /\ UNCHANGED <<kept, connected, cache, queue, act, pull, ghosts, acts, strangers, pulls>>

(* A creation that was delivered: the temporary row, if it is there, gives *)
(* way to the server's - a customer's in one transaction, a user's in two. *)
LookForTemporary ==
    /\ run.step = "look"
    /\ run' = [run EXCEPT !.step = IF Has(Item.thing, "local") THEN "cache" ELSE "remap"]
    /\ UNCHANGED <<kept, connected, server, cache, queue, act, pull, ghosts, counters>>

InPlaceOfTemporary(row) ==
    [cache EXCEPT !["customer"] = [i \in Id |-> IF i = "real" THEN row ELSE NoRow]]

CacheAnswer ==
    LET t == Item.thing
        row == IF Item.op = "DELETE" THEN NoRow ELSE run.answer
    IN
    /\ run.step = "cache"
    /\ cache' = IF Item.op = "CREATE" /\ t = "customer"
                THEN InPlaceOfTemporary(row)
                ELSE With(t, "real", row)
    /\ run' = [run EXCEPT !.step = CASE Item.op = "CREATE" /\ t = "user" -> "clear"
                                     [] Item.op = "CREATE" /\ t = "customer" -> "remap"
                                     [] OTHER -> "end"]
    /\ UNCHANGED <<kept, connected, server, queue, act, pull, ghosts, counters>>

ClearTemporary ==
    /\ run.step = "clear"
    /\ cache' = With("user", "local", NoRow)
    /\ run' = [run EXCEPT !.step = "remap"]
    /\ UNCHANGED <<kept, connected, server, queue, act, pull, ghosts, counters>>

(* Only requests about the same thing are sent on under the real id: the   *)
(* customer of a waiting user keeps its temporary one.                     *)
Remapped(k) == Waiting(k) /\ Named(queue[k]) = Named(Item) /\ k # run.item
Redirected(r) == [r EXCEPT !.id = "real"]
Remap ==
    /\ run.step = "remap"
    /\ queue' = [k \in DOMAIN queue |-> IF Remapped(k) THEN Redirected(queue[k]) ELSE queue[k]]
    /\ run' = [run EXCEPT !.step = "end"]
    /\ UNCHANGED <<kept, connected, server, cache, act, pull, ghosts, counters>>

EndItem ==
    /\ run.step = "end"
    /\ Ends(run.item, "SYNCED")
    /\ run' = Passed(run.todo, run.skip)
    /\ UNCHANGED <<kept, connected, server, cache, act, pull, ghosts, counters>>

(* ------------------------------- the pull ------------------------------ *)

GetList(t) ==
    /\ pull.step = "idle" /\ connected
    /\ pulls < MaxPulls /\ pulls' = pulls + 1
    /\ pull' = [pull EXCEPT !.thing = t, !.step = "see",
                            !.answer = IF server[t].is = "live" THEN RowOf(server[t]) ELSE NoRow]
    /\ UNCHANGED <<kept, connected, server, cache, queue, act, run, ghosts, acts, faults, strangers>>

SeeRows ==
    /\ pull.step = "see"
    /\ pull' = [pull EXCEPT !.step = "put", !.seen = cache[pull.thing]]
    /\ UNCHANGED <<kept, connected, server, cache, queue, act, run, ghosts, counters>>

(* Every user is overwritten, a customer unless work on it was seen.       *)
Overwrites ==
    /\ pull.answer.sync # "none"
    /\ pull.thing = "customer" => pull.seen["real"].sync \in {"none", "SYNCED"}
PutRows ==
    /\ pull.step = "put"
    /\ cache' = IF Overwrites THEN With(pull.thing, "real", pull.answer) ELSE cache
    /\ pull' = [pull EXCEPT !.step = "drop"]
    /\ UNCHANGED <<kept, connected, server, queue, act, run, ghosts, counters>>

(* staleSyncedIds: rows that were seen synced and are not in the answer.   *)
DropStale ==
    /\ pull.step = "drop"
    /\ cache' = IF pull.answer.sync = "none" /\ pull.seen["real"].sync = "SYNCED"
                THEN With(pull.thing, "real", NoRow) ELSE cache
    /\ pull' = NoPull
    /\ UNCHANGED <<kept, connected, server, queue, act, run, ghosts, counters>>

(* ----------------------------- the device ------------------------------ *)

(* The page is loaded anew: the database and the queue are what is left.   *)
Reload ==
    /\ faults < MaxFaults /\ faults' = faults + 1
    /\ act # NoOperation \/ run # NoRun \/ pull # NoPull
    /\ excused' = excused \cup (IF act.step = "enqueue" THEN {act.thing} ELSE {})
    /\ act' = NoOperation /\ run' = NoRun /\ pull' = NoPull
    /\ UNCHANGED <<kept, connected, server, cache, queue, dropped, acts, strangers, pulls>>

Disconnect ==
    /\ connected
    /\ faults < MaxFaults /\ faults' = faults + 1
    /\ connected' = FALSE
    /\ UNCHANGED <<kept, server, cache, queue, act, run, pull, ghosts, acts, strangers, pulls>>

Reconnect ==
    /\ ~connected
    /\ connected' = TRUE
    /\ UNCHANGED <<kept, server, cache, queue, act, run, pull, ghosts, counters>>

ScreenStep ==
    \/ PickUser \/ PickCustomer \/ PickBranding
    \/ SendForm \/ CancelForm \/ PostForm \/ LoseForm \/ StoreAnswer
    \/ RereadRow \/ PutRow \/ QueueRequest \/ DropRow

DeliveryStep ==
    \/ StartRun \/ Judge \/ Deliver \/ Refuse \/ LoseDelivery \/ LookForTemporary
    \/ CacheAnswer \/ ClearTemporary \/ Remap \/ EndItem

PullStep == (\E t \in kept : GetList(t)) \/ SeeRows \/ PutRows \/ DropStale

AdminSyncNext ==
    ScreenStep \/ DeliveryStep \/ PullStep \/ (\E t \in Thing : OthersChange(t))
    \/ Reload \/ Disconnect \/ Reconnect

AdminSyncSpec == AdminSyncInit /\ [][AdminSyncNext]_adminVars

(* ----------------------------- properties ------------------------------ *)

(* A user or customer that the administrator deleted is gone from the      *)
(* server, or its deletion is queued or was refused and is there to see -  *)
(* whatever was lost, reloaded or delivered meanwhile.                     *)
DeletionIsDecided ==
    \A t \in dropped :
        \/ server[t].is = "gone"
        \/ \E k \in DOMAIN queue : queue[k].thing = t /\ queue[k].op = "DELETE"
                                  /\ queue[k].status # "SYNCED"

(* A row shown as not yet synced has a request that is waiting or was      *)
(* refused, or is being written - unless the page was reloaded between the *)
(* row and its request, or the row was written again right after its       *)
(* creation was delivered and before the waiting requests were remapped.   *)
AdminRowOwed ==
    \A t \in Thing \ excused, i \in Id :
        Row(t, i).sync = "PENDING" =>
            \/ act.thing = t
            \/ \E k \in DOMAIN queue : queue[k].thing = t /\ queue[k].status # "SYNCED"

(* No edit of a customer overwrites what another administrator has changed *)
(* since the row that its author was shown, though the row is cached,      *)
(* queued, pulled and sent at different times.                             *)
Sent == IF act.step = "post" /\ act' # act THEN act ELSE Item
OverSeen ==
    strangers' = strangers /\ server["customer"].version # server'["customer"].version
        => Sent.row.stamp = server["customer"].stamp
EditOverSeen == [][OverSeen]_adminVars

(* What is sent names nothing that the server cannot know: temporary ids   *)
(* of "still-pending outbox items" have been rewritten.                    *)
NoTemporaryReference ==
    run.step = "send" /\ Item.ref = "local" => Has("customer", "local")

(* A customer in conflict leaves it when the list is refreshed.            *)
RefreshResolves ==
    [][PutRows /\ pull.thing = "customer" /\ pull.answer.sync # "none"
       => cache'["customer"]["real"].sync # "CONFLICT"]_adminVars
=============================================================================
