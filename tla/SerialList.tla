----------------------------- MODULE SerialList -----------------------------
(***************************************************************************)
(* The serials of a report on a device: added, inspected, renamed and      *)
(* deleted on the server when it answers and on the device when it does    *)
(* not, the queued requests delivered later, the list pulled, the page     *)
(* reloaded, and the synchronisation of the rework child that follows a    *)
(* change of the serials.  A step is what runs between two awaits.  The    *)
(* report is on the server.  A serial is added by itself, and its          *)
(* inspection is whether the template's rule marks it for rework; the      *)
(* server's own races are in SerialNumbers and ChildReports.               *)
(***************************************************************************)
EXTENDS Integers, Sequences

CONSTANTS
    Serial,
    Explicit,       \* whether an inspection is saved with its button: a set
    MaxActs,        \* bound: operations of the screen,
    MaxFaults,      \*   requests lost, disconnections, reloads,
    MaxOthers,      \*   steps of other people,
    MaxPulls,       \*   pulls of the list,
    MaxUpsets       \*   faults, steps of others and pulls together

Id == {"local", "real"}
Actor == {"user", "background"}
Report == <<"report", "real">>

VARIABLES
    connected,      \* canUseNetwork
    server,         \* each serial on the server
    early,          \* the report's inspection has not begun
    child,          \* serials of its rework child, none without a child
    cache,          \* each serial's rows in IndexedDB, by id
    childCached,    \* the child is in IndexedDB
    queue,          \* requests in the outbox, in the order of createdAt
    act,            \* the operation of the screen, and the pull, under way
    run,            \* processQueue and dispatch
    dropped,        \* ghost: serials whose deletion went through on the device
    excused,        \* ghost: what each property excuses, with the serial
    acts, faults, others, pulls

listVars == <<connected, server, early, child, cache, childCached, queue, act, run,
              dropped, excused, acts, faults, others, pulls>>
serverVars == <<server, early, child>>
deviceVars == <<cache, childCached, queue>>
ghostVars == <<dropped, excused>>
countVars == <<acts, faults, others, pulls>>
Upsets == faults + others + pulls < MaxUpsets

NoRow == [sync |-> "none", version |-> 0, marked |-> FALSE]
RowOf(s) == [sync |-> "SYNCED", version |-> s.version, marked |-> s.marked]
NoList == [s \in Serial |-> NoRow]
NoOperation(s) == [op |-> "none", serial |-> s, id |-> "real", row |-> NoRow, marked |-> FALSE,
                   explicit |-> FALSE, list |-> NoList, seen |-> NoList, todo |-> <<>>]
NoSerial == "none"
Idle == NoOperation(NoSerial)
NoRun == [todo |-> {}, item |-> 0, skip |-> {}, step |-> "idle", row |-> NoRow]

SerialListInit ==
    /\ connected \in BOOLEAN
    /\ server \in [Serial -> {[is |-> i, version |-> 1, marked |-> FALSE] : i \in {"unborn", "live"}}]
    /\ early = TRUE
    /\ child = {}
    /\ cache = [s \in Serial |-> [i \in Id |-> IF i = "real" /\ server[s].is = "live"
                                               THEN RowOf(server[s]) ELSE NoRow]]
    /\ childCached = FALSE
    /\ queue = <<>>
    /\ act = [a \in Actor |-> Idle]
    /\ run = NoRun
    /\ dropped = {} /\ excused = {}
    /\ acts = 0 /\ faults = 0 /\ others = 0 /\ pulls = 0

Has(s, i) == cache[s][i].sync # "none"
With(s, i, row) == [cache EXCEPT ![s][i] = row]

(* ------------------------------ the server ----------------------------- *)

Edits == {"UPDATE", "SN_UPDATE_INSPECTION"}
Known(r) == r.id = "real" /\ server[r.serial].is = "live"

(* The unique key, the serial's version, its rows in the child.            *)
Answered(r) ==
    CASE r.op = "BULK_CREATE" -> IF server[r.serial].is = "live" THEN 409 ELSE 200
      [] r.op = "SYNC_REWORK" -> 200
      [] r.op \in Edits -> IF ~Known(r) THEN 404
                           ELSE IF server[r.serial].version # r.row.version THEN 409 ELSE 200
      [] r.op = "SN_DELETE" -> IF ~Known(r) THEN 404 ELSE IF ~early THEN 400
                               ELSE IF r.serial \in child THEN 500 ELSE 200

Made(x) == [x EXCEPT !.is = "live"]
Removed(x) == [x EXCEPT !.is = "gone"]
Edited(x, marked) == [is |-> x.is, version |-> x.version + 1, marked |-> marked]
ServerAfter(r) ==
    CASE r.op = "BULK_CREATE" -> [server EXCEPT ![r.serial] = Made(@)]
      [] r.op = "SN_DELETE" -> [server EXCEPT ![r.serial] = Removed(@)]
      [] r.op \in Edits -> [server EXCEPT
            ![r.serial] = Edited(@, IF r.op = "UPDATE" THEN @.marked ELSE r.marked)]
      [] OTHER -> server
MarkedSerials == {s \in Serial : server[s].is = "live" /\ server[s].marked}
Happens(r) == server' = ServerAfter(r) /\ child' = IF r.op = "SYNC_REWORK" THEN MarkedSerials ELSE child
MayHappen(r) == (Answered(r) = 200 /\ Happens(r)) \/ UNCHANGED <<server, child>>

(* Bound: what is deleted is not made again.                               *)
MadeOnce(r) == r.op = "BULK_CREATE" => server[r.serial].is # "gone"

OthersAct ==
    /\ Upsets /\ others < MaxOthers /\ others' = others + 1
    /\ \/ early' = FALSE /\ UNCHANGED server
       \/ \E s \in Serial : /\ server[s].is = "live"
                            /\ server' = [server EXCEPT ![s] = Edited(@, @.marked)]
                            /\ UNCHANGED early
    /\ UNCHANGED <<connected, child, deviceVars, act, run, ghostVars, acts, faults, pulls>>

(* ----------------------- operations of the screen ---------------------- *)

Pulling == <<"get", "see", "put">>
Following == <<"children", "asked", "sync">>

(* What follows an inspection that was saved with its button.              *)
Generating == IF connected THEN <<"generate">> ELSE <<"withoutChild", "asked", "sync">>

(* What is left to do once the server has answered, and what is done when  *)
(* it cannot, each in the order of its awaits.                             *)
Answering(op) ==
    CASE op = "BULK_CREATE" -> Pulling \o Following
      [] op = "SN_DELETE" -> <<"drop">> \o Following
      [] op = "SN_UPDATE_INSPECTION" -> <<"store">> \o Following
      [] op = "UPDATE" -> <<"store">>
Locally(op) ==
    CASE op = "BULK_CREATE" -> <<"write", "enqueue">> \o Following
      [] op = "SN_DELETE" -> <<"drop", "enqueue">> \o Following
      [] op = "SN_UPDATE_INSPECTION" -> <<"write", "enqueue">> \o Following
      [] op = "UPDATE" -> <<"write", "enqueue">>

(* What has a temporary id is never sent at once.                          *)
Begin(op, s, i, marked, explicit) ==
    /\ act["user"].todo = <<>>
    /\ acts < MaxActs /\ acts' = acts + 1
    /\ act' = [act EXCEPT !["user"] =
          [op |-> op, serial |-> s, id |-> i, row |-> cache[s][i], marked |-> marked,
           explicit |-> explicit, list |-> NoList, seen |-> NoList,
           todo |-> IF connected /\ (op = "BULK_CREATE" \/ i = "real") THEN <<"post">> ELSE Locally(op)]]
    /\ UNCHANGED <<connected, serverVars, deviceVars, run, ghostVars, faults, others, pulls>>

(* A serial is added unless its label is in the list.                      *)
AddSerials(s) ==
    /\ server[s].is = "unborn" /\ \A i \in Id : ~Has(s, i)
    /\ Begin("BULK_CREATE", s, "local", FALSE, FALSE)
RenameSn(s, i) == Has(s, i) /\ Begin("UPDATE", s, i, FALSE, FALSE)
DeleteSn(s, i) == Has(s, i) /\ Begin("SN_DELETE", s, i, FALSE, FALSE)

(* An inspection is saved by itself, or with its button.                   *)
SaveInspection(s, i) ==
    /\ Has(s, i)
    /\ \E marked \in BOOLEAN, explicit \in Explicit :
          Begin("SN_UPDATE_INSPECTION", s, i, marked, explicit)

(* An operation that has these steps left, this row, this list, ...        *)
Left(r, todo) == [r EXCEPT !.todo = todo]
Carrying(r, row) == [r EXCEPT !.row = row]
Listing(r, list) == [r EXCEPT !.list = list]
Seeing(r, seen) == [r EXCEPT !.seen = seen]
Implicit(r) == [r EXCEPT !.explicit = FALSE]

StartPull ==
    /\ connected /\ act["background"].todo = <<>>
    /\ Upsets /\ pulls < MaxPulls /\ pulls' = pulls + 1
    /\ act' = [act EXCEPT !["background"] = Left(@, Pulling)]
    /\ UNCHANGED <<connected, serverVars, deviceVars, run, ghostVars, acts, faults, others>>

Now(a, step) == act[a].todo # <<>> /\ Head(act[a].todo) = step
Rest(a) == Tail(act[a].todo)
Goes(a, todo) ==
    act' = [act EXCEPT ![a] =
        IF todo # <<>> THEN Left(@, todo)
        ELSE IF @.explicit THEN Left(Implicit(@), Generating) ELSE Idle]

Post ==
    LET r == act["user"] IN
    /\ Now("user", "post") /\ MadeOnce(r)
    /\ IF Answered(r) = 200
       THEN /\ Happens(r)
            /\ act' = [act EXCEPT !["user"] =
                          Left(Carrying(@, RowOf(server'[r.serial])), Answering(r.op))]
       ELSE /\ UNCHANGED <<server, child>>
            /\ act' = [act EXCEPT !["user"] = Idle]
    /\ UNCHANGED <<connected, early, deviceVars, run, ghostVars, countVars>>

LosePost ==
    LET r == act["user"] IN
    /\ Now("user", "post") /\ MadeOnce(r)
    /\ Upsets /\ faults < MaxFaults /\ faults' = faults + 1
    /\ MayHappen(r)
    /\ act' = [act EXCEPT !["user"] = Left(@, Locally(r.op))]
    /\ connected' = FALSE
    /\ UNCHANGED <<early, deviceVars, run, ghostVars, acts, others, pulls>>

Store ==
    /\ Now("user", "store")
    /\ cache' = With(act["user"].serial, "real", act["user"].row)
    /\ Goes("user", Rest("user"))
    /\ UNCHANGED <<connected, serverVars, childCached, queue, run, ghostVars, countVars>>

(* An edit on the device counts a version of its own.  It may bring back a *)
(* temporary row that has given way since it was read.                     *)
Unsent(r) ==
    [sync |-> "PENDING", version |-> r.row.version + 1,
     marked |-> IF r.op = "SN_UPDATE_INSPECTION" THEN r.marked ELSE r.row.marked]
Write ==
    LET r == act["user"] IN
    /\ Now("user", "write")
    /\ cache' = With(r.serial, r.id, Unsent(r))
    /\ excused' = excused \cup (IF r.op \in Edits /\ ~Has(r.serial, r.id)
                                THEN {<<"row", r.serial>>} ELSE {})
    /\ Goes("user", Rest("user"))
    /\ UNCHANGED <<connected, serverVars, childCached, queue, run, dropped, countVars>>

Drop ==
    LET r == act["user"] IN
    /\ Now("user", "drop")
    /\ cache' = With(r.serial, r.id, NoRow)
    /\ dropped' = dropped \cup {r.serial}
    /\ Goes("user", Rest("user"))
    /\ UNCHANGED <<connected, serverVars, childCached, queue, run, excused, countVars>>

Request(r) == [op |-> r.op, serial |-> r.serial, id |-> r.id, row |-> r.row, marked |-> r.marked,
               status |-> "PENDING"]
SyncRequest == [op |-> "SYNC_REWORK", serial |-> NoSerial, id |-> "real", row |-> NoRow,
                marked |-> FALSE, status |-> "PENDING"]
Waiting(k) == queue[k].status = "PENDING"
Item == queue[run.item]
IsAsked(op, s) == \E k \in DOMAIN queue : Waiting(k) /\ queue[k].op = op /\ queue[k].serial = s

(* A deletion that is queued once its serial's creation was delivered, and *)
(* the waiting requests were remapped, keeps the temporary id for good.    *)
Enqueue ==
    LET r == act["user"]
        isLate == \/ ~IsAsked("BULK_CREATE", r.serial)
                  \/ run.step = "end" /\ Item.op = "BULK_CREATE" /\ Item.serial = r.serial
    IN
    /\ Now("user", "enqueue")
    /\ queue' = Append(queue, Request(r))
    /\ excused' = excused \cup (IF r.id = "local" /\ r.op = "SN_DELETE" /\ isLate
                                THEN {<<"deletion", r.serial>>} ELSE {})
    /\ Goes("user", Rest("user"))
    /\ UNCHANGED <<connected, serverVars, cache, childCached, run, dropped, countVars>>

(* enqueueChildSync: with a child, and without a request that waits, one is*)
(* queued.  Without a child it is asked for by generateReworkChildReport.  *)
LookForChild ==
    /\ \/ Now("user", "children") /\ Goes("user", IF childCached THEN Rest("user") ELSE <<>>)
       \/ Now("user", "withoutChild") /\ Goes("user", IF childCached THEN <<>> ELSE Rest("user"))
    /\ UNCHANGED <<connected, serverVars, deviceVars, run, ghostVars, countVars>>

LookForRequest ==
    /\ Now("user", "asked")
    /\ Goes("user", IF IsAsked("SYNC_REWORK", NoSerial) THEN <<>> ELSE Rest("user"))
    /\ UNCHANGED <<connected, serverVars, deviceVars, run, ghostVars, countVars>>

QueueSync ==
    /\ Now("user", "sync")
    /\ queue' = Append(queue, SyncRequest)
    /\ Goes("user", Rest("user"))
    /\ UNCHANGED <<connected, serverVars, cache, childCached, run, ghostVars, countVars>>

(* Online the child is generated at once; a failure is let pass.           *)
Generate ==
    /\ Now("user", "generate")
    /\ IF connected THEN child' = MarkedSerials /\ childCached' = (child' # {})
       ELSE UNCHANGED <<child, childCached>>
    /\ excused' = excused \cup {<<"rework", s>> : s \in {x \in Serial : IsAsked("SN_UPDATE_INSPECTION", x)}}
    /\ Goes("user", <<>>)
    /\ UNCHANGED <<connected, server, early, cache, queue, run, dropped, countVars>>

(* ------------------------------- the pull ------------------------------ *)

GetList(a) ==
    /\ Now(a, "get")
    /\ IF connected
       THEN act' = [act EXCEPT ![a] =
                Left(Listing(@, [s \in Serial |-> IF server[s].is = "live" THEN RowOf(server[s])
                                                  ELSE NoRow]), Rest(a))]
       ELSE Goes(a, Tail(Tail(Rest(a))))
    /\ UNCHANGED <<connected, serverVars, deviceVars, run, ghostVars, countVars>>

SeeRows(a) ==
    /\ Now(a, "see")
    /\ act' = [act EXCEPT ![a] = Left(Seeing(@, [s \in Serial |-> cache[s]["real"]]), Rest(a))]
    /\ UNCHANGED <<connected, serverVars, deviceVars, run, ghostVars, countVars>>

(* Rows that carry work are left alone; synced ones that the server no     *)
(* longer has are dropped.                                                 *)
Pulled(a, s) ==
    LET local == act[a].seen[s].sync IN
    IF act[a].list[s] # NoRow THEN local \in {"none", "SYNCED"} ELSE local = "SYNCED"
PutRows(a) ==
    /\ Now(a, "put")
    /\ cache' = [s \in Serial |-> [i \in Id |-> IF i = "real" /\ Pulled(a, s)
                                                THEN act[a].list[s] ELSE cache[s][i]]]
    /\ Goes(a, Rest(a))
    /\ UNCHANGED <<connected, serverVars, childCached, queue, run, ghostVars, countVars>>

(* ------------------------------ the delivery --------------------------- *)

Entity(r) == IF r.op \in {"BULK_CREATE", "SYNC_REWORK"} THEN Report ELSE <<r.serial, r.id>>
(* Only an addition and a deletion name the report in their payload.       *)
Depends(r) == {Entity(r)} \cup (IF r.op \in {"BULK_CREATE", "SN_DELETE"} THEN {Report} ELSE {})

Onward(todo, skip) == [todo |-> todo, item |-> 0, skip |-> skip, step |-> "next", row |-> NoRow]

StartRun ==
    /\ run.step = "idle" /\ connected
    /\ \E k \in DOMAIN queue : Waiting(k)
    /\ run' = Onward({k \in DOMAIN queue : Waiting(k)},
                     {Entity(queue[k]) : k \in {j \in DOMAIN queue : queue[j].status = "CONFLICT"}})
    /\ UNCHANGED <<connected, serverVars, deviceVars, act, ghostVars, countVars>>

Ended(r, status) == [r EXCEPT !.status = status]
Ends(k, status) == queue' = [queue EXCEPT ![k] = Ended(@, status)]
Passed(todo, skip) == IF todo = {} THEN NoRun ELSE Onward(todo, skip)
Skipping == Passed(run.todo, run.skip \cup {Entity(Item)})

Judge ==
    \E k \in run.todo :
        LET rest == run.todo \ {k} IN
        /\ run.step = "next" /\ \A j \in run.todo : k <= j
        /\ IF Depends(queue[k]) \cap run.skip # {}
           THEN Ends(k, "CONFLICT") /\ run' = Passed(rest, run.skip)
           ELSE UNCHANGED queue /\ run' = [run EXCEPT !.todo = rest, !.item = k, !.step = "send"]
        /\ UNCHANGED <<connected, serverVars, cache, childCached, act, ghostVars, countVars>>

Deliver ==
    /\ run.step = "send" /\ MadeOnce(Item)
    /\ Answered(Item) = 200
    /\ Happens(Item)
    /\ run' = [run EXCEPT !.row = IF Item.op = "SYNC_REWORK" THEN NoRow ELSE RowOf(server'[Item.serial]),
                          !.step = CASE Item.op = "BULK_CREATE" -> "look"
                                     [] Item.op = "SN_DELETE" -> "end"
                                     [] OTHER -> "cache"]
    /\ UNCHANGED <<connected, early, deviceVars, act, ghostVars, countVars>>

Marked(row, mark) == [row EXCEPT !.sync = mark]
Code == Answered(Item)
Mark == CASE Code = 409 -> "CONFLICT" [] Code = 400 -> "ERROR" [] OTHER -> "none"
IsMarked == Mark # "none" /\ Item.op # "BULK_CREATE" /\ Has(Item.serial, Item.id)
Refuse ==
    /\ run.step = "send" /\ MadeOnce(Item)
    /\ Code # 200
    /\ cache' = IF IsMarked
                THEN With(Item.serial, Item.id, Marked(cache[Item.serial][Item.id], Mark)) ELSE cache
    /\ Ends(run.item, CASE Code = 409 -> "CONFLICT" [] Code = 500 -> "PENDING" [] OTHER -> "FAILED")
    /\ run' = Skipping
    /\ UNCHANGED <<connected, serverVars, childCached, act, ghostVars, countVars>>

LoseDelivery ==
    /\ run.step = "send" /\ MadeOnce(Item)
    /\ Upsets /\ faults < MaxFaults /\ faults' = faults + 1
    /\ MayHappen(Item)
    /\ run' = Skipping
    /\ UNCHANGED <<connected, early, deviceVars, act, ghostVars, acts, others, pulls>>

(* The temporary row, if it is there, gives way to the server's and keeps  *)
(* its inspection.                                                         *)
Inspected(row, marked) == [row EXCEPT !.marked = marked]
LookForTemporary ==
    /\ run.step = "look"
    /\ run' = IF Has(Item.serial, "local")
              THEN [run EXCEPT !.step = "cache",
                               !.row = Inspected(@, cache[Item.serial]["local"].marked)]
              ELSE [run EXCEPT !.step = "remap"]
    /\ UNCHANGED <<connected, serverVars, deviceVars, act, ghostVars, countVars>>

(* A fault to refute: the temporary row stays beside the new one.          *)
BesideTemporary == [cache[Item.serial] EXCEPT !["real"] = run.row]
InPlaceOfTemporary == [i \in Id |-> IF i = "real" THEN run.row ELSE NoRow]

CacheAnswer ==
    /\ run.step = "cache"
    /\ cache' = CASE Item.op = "BULK_CREATE" -> [cache EXCEPT ![Item.serial] = InPlaceOfTemporary]
                  [] Item.op \in Edits -> With(Item.serial, "real", run.row)
                  [] OTHER -> cache
    /\ childCached' = IF Item.op = "SYNC_REWORK" THEN child # {} ELSE childCached
    /\ run' = [run EXCEPT !.step = IF Item.op = "BULK_CREATE" THEN "remap" ELSE "end"]
    /\ UNCHANGED <<connected, serverVars, queue, act, ghostVars, countVars>>

(* A fault to refute: the waiting requests keep the temporary id.          *)
NothingRemapped(k) == FALSE
Remapped(k) == Waiting(k) /\ queue[k].op \in Edits \cup {"SN_DELETE"} /\ queue[k].serial = Item.serial
Redirected(r) == [r EXCEPT !.id = "real"]
Remap ==
    /\ run.step = "remap"
    /\ queue' = [k \in DOMAIN queue |-> IF Remapped(k) THEN Redirected(queue[k]) ELSE queue[k]]
    /\ run' = [run EXCEPT !.step = "end"]
    /\ UNCHANGED <<connected, serverVars, cache, childCached, act, ghostVars, countVars>>

EndItem ==
    /\ run.step = "end"
    /\ Ends(run.item, "SYNCED")
    /\ run' = Passed(run.todo, run.skip)
    /\ UNCHANGED <<connected, serverVars, cache, childCached, act, ghostVars, countVars>>

(* ------------------------------ the device ----------------------------- *)

(* The page is loaded anew: the database and the queue are what is left.   *)
Reload ==
    /\ Upsets /\ faults < MaxFaults /\ faults' = faults + 1
    /\ act # [a \in Actor |-> Idle] \/ run # NoRun
    /\ excused' = excused \cup (IF Now("user", "enqueue")
                              THEN {"deletion", "row"} \X {act["user"].serial} ELSE {})
    /\ act' = [a \in Actor |-> Idle] /\ run' = NoRun
    /\ UNCHANGED <<connected, serverVars, deviceVars, dropped, acts, others, pulls>>

Disconnect ==
    /\ connected
    /\ Upsets /\ faults < MaxFaults /\ faults' = faults + 1
    /\ connected' = FALSE
    /\ UNCHANGED <<serverVars, deviceVars, act, run, ghostVars, acts, others, pulls>>

Reconnect ==
    /\ ~connected
    /\ connected' = TRUE
    /\ UNCHANGED <<serverVars, deviceVars, act, run, ghostVars, countVars>>

ScreenStep ==
    \/ \E s \in Serial :
          AddSerials(s) \/ \E i \in Id : RenameSn(s, i) \/ DeleteSn(s, i) \/ SaveInspection(s, i)
    \/ Post \/ LosePost \/ Store \/ Write \/ Drop \/ Enqueue
    \/ LookForChild \/ LookForRequest \/ QueueSync \/ Generate

PullStep == StartPull \/ \E a \in Actor : GetList(a) \/ SeeRows(a) \/ PutRows(a)

DeliveryStep ==
    \/ StartRun \/ Judge \/ Deliver \/ Refuse \/ LoseDelivery
    \/ LookForTemporary \/ CacheAnswer \/ Remap \/ EndItem

SerialListNext ==
    ScreenStep \/ PullStep \/ DeliveryStep \/ OthersAct \/ Reload \/ Disconnect \/ Reconnect

SerialListSpec == SerialListInit /\ [][SerialListNext]_listVars

(* ----------------------------- properties ------------------------------ *)

(* A serial that was deleted on the device is gone from the server, or its *)
(* deletion is under way or waiting, or was refused under an id that the   *)
(* server knows - unless the page was reloaded between the row's removal   *)
(* and the request, or the request was queued with the temporary id after  *)
(* the creation had been delivered.                                        *)
DeletedSerialIsDecided ==
    \A s \in dropped :
        \/ <<"deletion", s>> \in excused
        \/ server[s].is = "gone"
        \/ act["user"].serial = s /\ act["user"].op = "SN_DELETE"
        \/ \E k \in DOMAIN queue :
              /\ queue[k].serial = s /\ queue[k].op = "SN_DELETE" /\ queue[k].status # "SYNCED"
              /\ queue[k].status = "FAILED" => queue[k].id = "real"

(* A serial shown as not yet synced has a request that is waiting or was   *)
(* refused, or is being written - unless the page was reloaded in between, *)
(* or an edit brought back a temporary row that had given way.             *)
SerialRowOwed ==
    \A s \in Serial, i \in Id :
        cache[s][i].sync = "PENDING" =>
            \/ <<"row", s>> \in excused
            \/ act["user"].serial = s
            \/ \E k \in DOMAIN queue : queue[k].serial = s /\ queue[k].status # "SYNCED"

(* "the parent re-syncs the child after every serial save, so matching     *)
(* serials - including ones inspected later - are folded in": once         *)
(* everything saved is on the server and nothing is under way, the child   *)
(* has every serial that the rule marks - but for those whose save was     *)
(* still waiting when a child was generated.                               *)
ReworkFollowsSaves ==
    (\A k \in DOMAIN queue : queue[k].status = "SYNCED") /\ act["user"] = Idle /\ run = NoRun
        => \A s \in MarkedSerials : s \in child \/ <<"rework", s>> \in excused
=============================================================================
